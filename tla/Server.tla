------------------------------- MODULE Server -------------------------------
(* PostgreSQL and libpq, as far as the interpreter uses them: external, no *)
(* part of the repository.                                                 *)
(*                                                                         *)
(* A query is known by its text.  Some select rows from tables nobody      *)
(* changes, others append one row of text columns to a log; any other is   *)
(* an error.  NULL is the undefined value.  A parameter restricts a        *)
(* selection to the rows that have it in the first column.                 *)
EXTENDS Values, Overloading, FiniteSets

CONSTANTS
  Selects,   \* queries that select: by text, [cols: their names and types, rows]
  Writes     \* queries that append to the log

ASSUME ServerAssumption == DOMAIN Selects \cap Writes = {}

\* The rows a selection yields.
RowsOf(q, params) ==
  LET wanted(row) ==
        params # <<>> => Undef \notin {row[1], params[1]} /\ ToStr(row[1]) = ToStr(params[1])
  IN SelectSeq(Selects[q].rows, wanted)

\* What a query appends.
Entry(q, params) ==
  [q |-> q, row |-> [i \in DOMAIN params |-> IF params[i] = Undef THEN Undef ELSE Str(ToStr(params[i]))]]

---------------------------------------------------------------------------
(* What the interpreter makes of results (vm/custom.c). *)

\* A column of a row: numbers stay numbers, NULL is 0 among them and the empty
\* string elsewhere.
Column(dt, v) ==
  IF dt = "num" THEN (IF v = Undef THEN Num(0) ELSE v)
  ELSE Str(IF v = Undef THEN <<>> ELSE ToStr(v))

\* A row as a map from names to columns, or as an array of strings.
RowMap(cols, row) ==
  NewMap(FlattenSeq([i \in DOMAIN cols |-> <<Str(cols[i].name), Column(cols[i].dt, row[i])>>]))
RowArray(cols, row) == NewArr([i \in DOMAIN cols |-> Column("str", row[i])])
===========================================================================
