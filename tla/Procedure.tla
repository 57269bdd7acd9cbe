----------------------------- MODULE Procedure -----------------------------
(* What a stored procedure built by PlPgSql does on the server: the part   *)
(* of PL/pgSQL the translator uses.  External, no part of the repository.  *)
(*                                                                         *)
(* A value of SQL has a type dt ("int", "text", "bool", "row", "refcursor",*)
(* "literal" for a quoted string of no type yet, "error") and a value v,   *)
(* undefined for NULL; that of a row is a sequence of [name, x] with x its *)
(* columns' values, that of a cursor its number.  Words for truth values   *)
(* other than 0 and 1, and rows shown as text, are left out.               *)
EXTENDS Server

Sql(dt, v) == [dt |-> dt, v |-> v]
Error == Sql("error", Undef)
SqlBool(b) == Sql("bool", Bool(b))
Row(columns) == Sql("row", [t |-> "row", n |-> 0, s |-> columns])

SqlType(dt) == IF dt = "num" THEN "int" ELSE "text"
IsNull(x) == x.v = Undef

---------------------------------------------------------------------------
(* Conversions. *)

InRange(i) == IF i \in MinInt..MaxInt THEN Sql("int", Num(i)) ELSE Error

IntOf(n) == IF n = Undef THEN Error ELSE Sql("int", n)

\* Text to int; a string without digits is an error.
IntIn(x) ==
  IF IsNull(x) THEN Sql("int", Undef) ELSE IF x.v.s = <<>> THEN Error ELSE IntOf(ToNum(x.v))

True == <<116, 114, 117, 101>>
False == <<102, 97, 108, 115, 101>>
TextOf(x) ==
  CASE IsNull(x) -> Undef
    [] x.dt = "bool" -> Str(IF x.v.n = 1 THEN True ELSE False)
    [] OTHER -> Str(ToStr(x.v))

\* An assignment to a variable of type dt.
As(dt, x) ==
  CASE x.dt = dt -> x
    [] dt = "int" /\ (x.dt \in {"text", "literal"} \/ x = Sql("bool", Undef)) -> IntIn(x)
    [] dt = "text" /\ x.dt \in {"int", "bool", "literal"} -> Sql("text", TextOf(x))
    [] OTHER -> Error

\* An operand beside another: only a quoted string takes the other's type.
Beside(x, y) ==
  IF x.dt # "literal" THEN x ELSE As(IF y.dt = "literal" THEN "text" ELSE y.dt, x)

\* The condition of an IF: NULL is false, an int goes through text.
Condition(x) ==
  CASE IsNull(x) /\ x.dt # "error" -> SqlBool(FALSE)
    [] x.dt = "bool" -> x
    [] x.dt \in {"int", "text"} /\ ToStr(x.v) \in {<<48>>, <<49>>} -> SqlBool(ToStr(x.v) = <<49>>)
    [] OTHER -> Error

---------------------------------------------------------------------------
(* Operators. *)

Sum(op, i, j) ==
  CASE op = "+" -> InRange(i + j)
    [] op = "-" -> InRange(i - j)
    [] op = "*" -> InRange(i * j)
    [] op = "/" /\ j # 0 -> InRange(Quotient(i, j))
    [] OTHER -> Error

SqlArith(op, x, y) ==
  IF {x.dt, y.dt} # {"int"} THEN Error
  ELSE IF IsNull(x) \/ IsNull(y) THEN Sql("int", Undef) ELSE Sum(op, x.v.n, y.v.n)

SqlConcat(x, y) ==
  IF {x.dt, y.dt} \cap {"text", "literal"} = {} \/ {x.dt, y.dt} \cap {"error", "row", "refcursor"} # {}
  THEN Error
  ELSE Sql("text", IF IsNull(x) \/ IsNull(y) THEN Undef ELSE Str(TextOf(x).s \o TextOf(y).s))

SqlCompare(op, x, y) ==
  IF x.dt # y.dt \/ x.dt \notin {"int", "text", "bool"} THEN Error
  ELSE IF IsNull(x) \/ IsNull(y) THEN Sql("bool", Undef)
  ELSE IF op = "=" THEN SqlBool(x.v = y.v)
  ELSE SqlBool(IF x.v.t = "str" THEN StrCmp(x.v.s, y.v.s) < 0 ELSE x.v.n < y.v.n)

\* A row is not null when none of its columns is.
NotNull(x) ==
  CASE x.dt = "error" -> Error
    [] x.dt = "row" -> SqlBool(\A i \in DOMAIN x.v.s : ~IsNull(x.v.s[i].x))
    [] OTHER -> SqlBool(~IsNull(x))

\* The field of a row; its name is that of the first column called so.
Field(x, name) ==
  LET at == IF x.dt = "row" THEN {i \in DOMAIN x.v.s : x.v.s[i].name = name} ELSE {}
  IN IF at = {} THEN Error ELSE x.v.s[Min(at)].x

SqlBinary(op, x, y) ==
  CASE op = "||" -> SqlConcat(x, y)
    [] op \in {"<", "="} -> SqlCompare(op, Beside(x, y), Beside(y, x))
    [] OTHER -> SqlArith(op, Beside(x, y), Beside(y, x))

RECURSIVE Expr(_, _)
Expr(c, vs) ==
  CASE c.k = "id" -> IF c.s \in DOMAIN vs THEN vs[c.s] ELSE Error
    [] c.k = "num" -> Sql("int", Num(c.n))
    [] c.k = "str" -> Sql("literal", Str(c.s))
    [] c.k = "neg" -> SqlArith("-", Sql("int", Num(0)), Beside(Expr(c.c[1], vs), Sql("int", Undef)))
    [] c.k = "notnull" -> NotNull(Expr(c.c[1], vs))
    [] c.k = "field" -> Field(Expr(c.c[1], vs), c.s)
    [] OTHER -> SqlBinary(c.k, Expr(c.c[1], vs), Expr(c.c[2], vs))

---------------------------------------------------------------------------
(* What CREATE FUNCTION accepts: statements as statements and expressions  *)
(* as expressions, where no comparison is an operand of another.  "x = y"  *)
(* as a statement is an assignment.                                        *)

RECURSIVE IsExpr(_), IsStatement(_)
IsExpr(c) ==
  /\ c.k \in {"id", "num", "str", "+", "-", "*", "/", "neg", "||", "<", "=", "field", "notnull"}
  /\ \A i \in DOMAIN c.c : IsExpr(c.c[i])
  /\ c.k \in {"<", "="} => \A i \in DOMAIN c.c : c.c[i].k \notin {"<", "="}

IsStatement(c) ==
  CASE c.k \in {"null", "exit"} -> TRUE
    [] c.k \in {"seq", "loopfound"} -> \A i \in DOMAIN c.c : IsStatement(c.c[i])
    [] c.k \in {"assign", "="} -> c.c[1].k = "id" /\ IsExpr(c.c[2])
    [] c.k \in {"notice", "execute"} -> \A i \in DOMAIN c.c : IsExpr(c.c[i])
    [] c.k = "fetch" -> c.c[1].k = "id" /\ c.c[2].k = "id"
    [] c.k = "open" -> c.c[2].k = "execute" /\ IsStatement(c.c[2])
    [] c.k \in {"if", "loop"} -> IsExpr(c.c[1]) /\ \A i \in 2..Len(c.c) : IsStatement(c.c[i])
    [] OTHER -> FALSE

---------------------------------------------------------------------------
(* Statements.  The state of a run: vs, the values of the variables;       *)
(* cursors, each with the columns of its query, the rows left and whether  *)
(* it is open; found; stop, "no", "return" or "error"; log, the rows       *)
(* appended; notices; exits, whether a notice said exit.                   *)

Fail(p) == [p EXCEPT !.stop = "error"]

\* The row a fetch delivers; past the end all its columns are NULL.
Fetched(cols, rows) ==
  Row([i \in DOMAIN cols |->
         [name |-> cols[i].name,
          x |-> Sql(SqlType(cols[i].dt), IF rows = <<>> THEN Undef ELSE rows[1][i])]])

SetTo(p, id, x) == IF x.dt = "error" THEN Fail(p) ELSE [p EXCEPT !.vs[id] = x]

\* A query and its parameters.  A parameter is compared as what it is.
Queried(c, vs) == [i \in DOMAIN c.c |-> Expr(c.c[i], vs)]
Fitting(q, xs) ==
  /\ \A i \in DOMAIN xs : xs[i].dt \notin {"error", "row"}
  /\ q \in DOMAIN Selects /\ xs # <<>> =>
       xs[1].dt \in {"literal", SqlType(Selects[q].cols[1].dt)}

\* The query all[1] with the parameters that follow, without its result.
Execute(all, p) ==
  LET xs == Tail(all)
      q == all[1].v.s
      params == [i \in DOMAIN xs |-> TextOf(xs[i])]
  IN IF all[1].dt \notin {"text", "literal"} \/ q \notin DOMAIN Selects \cup Writes \/ ~Fitting(q, xs)
     THEN Fail(p)
     ELSE IF q \in Writes THEN [p EXCEPT !.log = Append(@, Entry(q, params))] ELSE p

\* OPEN of a cursor already open and CLOSE of one that is not are errors.
IsOpen(x, p) == x.dt = "refcursor" /\ ~IsNull(x) /\ p.cursors[x.v.n].open

Close(id, p) ==
  IF ~IsOpen(p.vs[id], p) THEN Fail(p) ELSE [p EXCEPT !.cursors[p.vs[id].v.n].open = FALSE]

Open(id, all, p) ==
  LET xs == Tail(all)
      q == all[1].v.s
      params == [i \in DOMAIN xs |-> TextOf(xs[i])]
  IN IF \/ p.vs[id].dt # "refcursor" \/ IsOpen(p.vs[id], p)
        \/ q \notin DOMAIN Selects \/ ~Fitting(q, xs)
     THEN Fail(p)
     ELSE [p EXCEPT !.cursors = Append(@, [cols |-> Selects[q].cols, rows |-> RowsOf(q, params), open |-> TRUE]),
                    !.vs[id] = Sql("refcursor", Ref(Len(p.cursors) + 1))]

Fetch(x, id, p) ==
  LET cursor == p.cursors[x.v.n]
  IN IF ~IsOpen(x, p) \/ p.vs[id].dt # "row" THEN Fail(p)
     ELSE [p EXCEPT !.vs[id] = Fetched(cursor.cols, cursor.rows),
                    !.found = cursor.rows # <<>>,
                    !.cursors[x.v.n].rows = IF @ = <<>> THEN @ ELSE Tail(@)]

NullText == <<60, 78, 85, 76, 76, 62>>

Notice(x, p) ==
  IF x.dt \in {"error", "row", "refcursor"} THEN Fail(p)
  ELSE [p EXCEPT !.notices = Append(@, IF IsNull(x) THEN Str(NullText) ELSE TextOf(x))]

\* OPEN once the cursor is closed.
Reopen(c, p) == IF p.stop # "no" THEN p ELSE Open(c.c[1].s, Queried(c.c[2], p.vs), p)

RECURSIVE Run(_, _), Choose(_, _, _, _), Loop(_, _, _), LoopFound(_, _)
Run(c, p) ==
  IF p.stop # "no" THEN p ELSE
  CASE c.k = "null" -> p
    [] c.k = "seq" -> Run(c.c[2], Run(c.c[1], p))
    [] c.k \in {"assign", "="} -> SetTo(p, c.c[1].s, As(p.vs[c.c[1].s].dt, Expr(c.c[2], p.vs)))
    [] c.k = "execute" -> Execute(Queried(c, p.vs), p)
    [] c.k = "open" -> Reopen(c, IF c.n = 1 THEN Close(c.c[1].s, p) ELSE p)
    [] c.k = "fetch" -> Fetch(p.vs[c.c[1].s], c.c[2].s, p)
    [] c.k = "notice" -> Notice(Expr(c.c[1], p.vs), p)
    [] c.k = "exit" -> [p EXCEPT !.exits = TRUE, !.stop = "return"]
    [] c.k = "if" ->
         Choose(Condition(Expr(c.c[1], p.vs)), c.c[2], c.c[3], p)
    [] c.k = "loop" -> Loop(Expr(c.c[1], p.vs), c, p)
    [] c.k = "loopfound" -> LoopFound(Run(c.c[1], p), c)

Choose(x, yes, no, p) ==
  IF x.dt = "error" THEN Fail(p) ELSE Run(IF x.v.n = 1 THEN yes ELSE no, p)

\* EXIT WHEN x = 0: another type than bool is refused, NULL goes on.
Loop(x, c, p) ==
  IF x.dt # "bool" THEN Fail(p) ELSE IF x.v = Bool(FALSE) THEN p ELSE Run(c, Run(c.c[2], p))

\* EXIT WHEN NOT FOUND after the fetch.
LoopFound(p, c) == IF p.stop # "no" \/ ~p.found THEN p ELSE Run(c, Run(c.c[2], p))

---------------------------------------------------------------------------
\* A variable of a body: records start as a row of one column that is NULL.
Initial(dt) ==
  CASE dt = "rec" -> Row(<<[name |-> <<102, 49>>, x |-> Sql("text", Undef)]>>)
    [] dt = "curs" -> Sql("refcursor", Undef)
    [] OTHER -> Sql(SqlType(dt), Undef)

\* A run begins with the values of its variables, if all of them convert.
Begun(vs) ==
  [vs |-> vs, cursors |-> <<>>, found |-> FALSE,
   stop |-> IF \E id \in DOMAIN vs : vs[id].dt = "error" THEN "error" ELSE "no",
   log |-> <<>>, notices |-> <<>>, exits |-> FALSE]

\* Mutant: what was written before an error stays.
Transaction_Keeps(p) == p

\* A function is one transaction: an error takes back what it wrote, while the
\* notices are out.
Transaction(p) == IF p.stop = "error" THEN [p EXCEPT !.log = <<>>] ELSE p

\* A call of the function with the parameter names, types sig and body, by
\* texts.
Called(names, sig, body, texts) ==
  LET declared == {d.id : d \in ToSet(body.declared)}
      vs == [id \in ToSet(names) \cup declared |->
               IF id \in declared
               THEN Initial((CHOOSE d \in ToSet(body.declared) : d.id = id).dt)
               ELSE LET i == CHOOSE i \in DOMAIN names : names[i] = id
                    IN As(sig[i], Sql("literal", texts[i]))]
  IN Transaction(Run(body.code, Begun(vs)))
===========================================================================
