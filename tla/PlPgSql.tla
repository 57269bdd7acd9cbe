------------------------------ MODULE PlPgSql ------------------------------
(* The translation of database blocks into stored procedures:              *)
(* dblock_parse and dblock_create_plpgsql of sqlinked.y.                   *)
(*                                                                         *)
(* The translator builds text; here it builds the tree a server makes of   *)
(* that text, in nodes of the same shape as those of the syntax tree: kind *)
(* k, number n, name or string s, children c.  The state is the            *)
(* container's; code and type are the text and the static type of the node *)
(* just translated.  Quotes in strings, and the length of the buffers for  *)
(* names and declarations, are left out.                                   *)
EXTENDS Container

\* The empty text is Absent, the text of a NULL child.
Text(k, c) == [k |-> k, n |-> 0, s |-> <<>>, c |-> c]

Emit(st, code, type) == [st EXCEPT !.code = code, !.type = type]

\* abort, exit, a failed assertion or a NULL pointer in the translator.
Refuse(st) == [st EXCEPT !.ok = FALSE]

---------------------------------------------------------------------------
(* The text has no parentheses: the server groups the operators of an      *)
(* expression as SQL does, whatever the syntax tree was.  Operands that    *)
(* are statements make a text nobody accepts.                              *)

\* How strongly an operator binds in SQL; anything else is not taken apart.
Binding(k) ==
  CASE k \in {"<", "="} -> 1
    [] k = "||" -> 2
    [] k \in {"+", "-"} -> 3
    [] k \in {"*", "/"} -> 4
    [] OTHER -> 5

RECURSIVE Infix(_, _, _), Sign(_)

\* The text "l op r".  Comparisons do not associate: in a row of them the last
\* ones are one operand of the first, which no expression may have, while a
\* statement "x = a < b" assigns.
Infix(op, l, r) ==
  CASE Binding(l.k) < Binding(op) \/ Binding(l.k) = 1 -> Infix(l.k, l.c[1], Infix(op, l.c[2], r))
    [] 1 < Binding(op) /\ Binding(r.k) <= Binding(op) /\ Binding(l.k) >= Binding(op) ->
         Infix(r.k, Infix(op, l, r.c[1]), r.c[2])
    [] OTHER -> Text(op, <<l, r>>)

\* The text "- e": the sign binds stronger than any operator.
Sign(e) == IF Binding(e.k) < 5 THEN Infix(e.k, Sign(e.c[1]), e.c[2]) ELSE Text("neg", <<e>>)

\* "x = e" is an assignment as a statement and a comparison in an expression.
Operand(code) == IF code.k = "assign" THEN Infix("=", code.c[1], code.c[2]) ELSE code

---------------------------------------------------------------------------
(* The cases of dblock_create_plpgsql; s1 and s2 are the states after the   *)
(* first and the second child.                                             *)

plpgsql_infix(op, s1, s2) ==
  LET type == Joined(s1.type, s2.type)
      symbol == IF op = "+" /\ type.dt = "str" THEN "||" ELSE op
      code == IF s1.code = Absent THEN Sign(Operand(s2.code))
              ELSE Infix(symbol, Operand(s1.code), Operand(s2.code))
  IN IF ~Agree(s1.type, s2.type) \/ (op = "+" /\ type.dt \notin {"num", "str"}) THEN Refuse(s2)
     ELSE Emit(s2, code, type)

plpgsql_eq(s1, s2) ==
  Emit(s2, Infix("=", Operand(s1.code), Operand(s2.code)), [dt |-> "num", sdt |-> s1.type.sdt])

\* Mutant: a cursor is never closed before it is opened again.
CloseFirst_Never(v) == FALSE

\* F_CURSOROPEN, set by every OPEN translated so far, whether executed or not.
CloseFirst(v) == v.open

\* The variable assigned to, v before, has the value's type from now on.
plpgsql_store(id, v, type, s1, s2) ==
  IF ~Agree(s1.type, s2.type) \/ ~Agree(v.type, s2.type) THEN Refuse(s2)
  ELSE Emit(set_var(s2, id, [v EXCEPT !.type = Joined(@, s2.type), !.open = @ \/ type.dt = "curs"]),
            CASE type.dt = "curs" ->
                   [Text("open", <<s1.code, s2.code>>) EXCEPT !.n = IF CloseFirst(v) THEN 1 ELSE 0]
              [] type.dt = "rec" -> Text("fetch", <<s2.code, s1.code>>)
              [] OTHER -> Text("assign", <<s1.code, Operand(s2.code)>>),
            type)

plpgsql_assign(id, s1, s2) == plpgsql_store(id, var(s2, id), Joined(s1.type, s2.type), s1, s2)

\* row["column"]; with row[column] the variable's name is the column.
plpgsql_index(column, s1, s2) ==
  IF s1.type.dt # "rec" \/ s2.type.dt # "str" \/ column.k \notin {"str", "id"} THEN Refuse(s2)
  ELSE Emit(s2, [Text("field", <<s1.code>>) EXCEPT !.s = column.s], Untyped)

\* What a condition of the language is true for, by its static type.
Tested(s1) ==
  IF s1.type.dt \in {"rec", "str", "undef"} THEN Text("notnull", <<Operand(s1.code)>>) ELSE Operand(s1.code)

plpgsql_if(s1, s2, s3) == Emit(s3, Text("if", <<Tested(s1), s2.code, s3.code>>), Untyped)

plpgsql_while(s1, s2) ==
  Emit(s2, IF s1.type.dt = "rec" THEN Text("loopfound", <<s1.code, s2.code>>)
           ELSE Text("loop", <<Operand(s1.code), s2.code>>), Untyped)

RECURSIVE plpgsql(_, _), plpgsql_params(_, _)

\* The arguments of dbquery, first to last.
plpgsql_params(list, st) ==
  LET s1 == plpgsql_params(list.c[1], st)
      s2 == plpgsql(list.c[2], s1)
  IN IF list = Absent THEN Emit(st, <<>>, Untyped)
     ELSE IF ~s2.ok THEN s2 ELSE Emit(s2, Append(s1.code, Operand(s2.code)), Untyped)

\* Of println's arguments only the last one is translated; dbnext is its
\* argument, but marked as a row.
plpgsql_call(name, args, st) ==
  CASE name = N_println /\ args # Absent ->
         LET s1 == plpgsql(args.c[2], st) IN Emit(s1, Text("notice", <<Operand(s1.code)>>), Untyped)
    [] name = N_dbquery /\ args # Absent ->
         LET s1 == plpgsql_params(args, st) IN Emit(s1, Text("execute", s1.code), Typed("curs"))
    [] name = N_exit -> Emit(st, Text("exit", <<>>), Untyped)
    [] name = N_dbnext /\ args # Absent ->
         LET s1 == plpgsql(args.c[2], st) IN Emit(s1, s1.code, Typed("rec"))
    [] OTHER -> Refuse(st)

Leaf(k, a) == [k |-> k, n |-> Wrap(a.n), s |-> a.s, c |-> <<>>]

plpgsql(a, st) ==
  LET s1 == plpgsql(a.c[1], st)
      s2 == plpgsql(a.c[2], s1)
  IN CASE ~st.ok -> st
       [] a.k = "null" -> Emit(st, Absent, Untyped)
       [] a.k = "id" ->
            LET s0 == get_or_addlocal(st, a.s) IN Emit(s0, Leaf("id", a), var(s0, a.s).type)
       [] a.k \in {"num", "str"} -> Emit(st, Leaf(a.k, a), Typed(a.k))
       [] a.k = "funcall" -> plpgsql_call(a.c[1].s, a.c[2], st)
       [] ~s2.ok -> s2
       [] a.k = "stmts" -> Emit(s2, Text("seq", <<s1.code, s2.code>>), Untyped)
       [] a.k \in {"+", "-", "*", "/", "<"} -> plpgsql_infix(a.k, s1, s2)
       [] a.k = "==" -> plpgsql_eq(s1, s2)
       [] a.k = "=" -> plpgsql_assign(a.c[1].s, s1, s2)
       [] a.k = "[]" -> plpgsql_index(a.c[2], s1, s2)
       [] a.k = "if" -> plpgsql_if(s1, s2, plpgsql(a.c[3], s2))
       [] a.k = "while" -> plpgsql_while(s1, s2)
       [] OTHER -> Refuse(st)

---------------------------------------------------------------------------
(* dblock_parse.  A body is numbered instead of spelled out: the constant  *)
(* is the number of an entry of bodies.                                    *)

\* The identifiers of a tree, functions' names included, in preorder.
RECURSIVE IdsOf(_)
IdsOf(a) ==
  IF a.k = "id" THEN <<a.s>> ELSE FlattenSeq([i \in DOMAIN a.c |-> IdsOf(a.c[i])])

\* Each name once, where it comes first.
RECURSIVE Once(_)
Once(ids) ==
  IF ids = <<>> THEN <<>>
  ELSE <<Head(ids)>> \o Once(SelectSeq(Tail(ids), LAMBDA id : id # Head(ids)))

\* The variables known before the block: its parameters and results.
ExternalIds(a, st) == SelectSeq(Once(IdsOf(a)), LAMBDA id : Known(st, id))

\* The others, which the procedure declares.
InternalIds(a, ext, st) ==
  SelectSeq(Once(IdsOf(a)), LAMBDA id : Known(st, id) /\ ~Contains(ext, id))

Declarable == {"num", "str", "curs", "rec"}

\* dblock_<program>_<function>_<id>, for one program; outside of functions the
\* function is "global".
BlockName(st) ==
  Str(<<st.dblockid>> \o IF st.curfunc = Absent THEN <<>> ELSE st.curfunc.c[1].s)

\* Mutant: the results are stored in the order they were passed.
StoreOrder_Reversed(ext) == Reverse(ext)

\* The result on top is the first variable's.
StoreOrder(ext) == ext

\* The variables are pushed last to first, each with its name; then how many
\* they are and the name of the block.
dblock_pass(ext, st) ==
  LET get(s, id) ==
        emit_constant(add_op(add_num(s, slot(st, id)), IF IsLocal(st, id) THEN "GETVAR" ELSE "GETGLOBAL"), Str(id))
  IN emit_constant(add_num(FoldLeft(get, st, Reverse(ext)), Len(ext)), BlockName(st))

Declared(int, st) == [i \in DOMAIN int |-> [id |-> int[i], dt |-> var(st, int[i]).type.dt]]

\* The body becomes a constant, and the results are stored.
dblock_store(ext, declared, st) ==
  LET put(s, id) == add_op(add_num(s, slot(st, id)), IF IsLocal(st, id) THEN "SETVAR" ELSE "SETGLOBAL")
      s1 == emit_constant([st EXCEPT !.bodies = Append(@, [declared |-> declared, code |-> st.code])],
                          Str(<<-st.dblockid>>))
  IN IF ~st.ok \/ \E i \in DOMAIN declared : declared[i].dt \notin Declarable THEN Refuse(st)
     ELSE FoldLeft(put, add_op(s1, "DBLOCK"), StoreOrder(ext))

dblock_finish(a, ext, st) == dblock_store(ext, Declared(InternalIds(a, ext, st), st), st)

dblock_parse(a, st) ==
  dblock_finish(a, ExternalIds(a, st),
                plpgsql(a, dblock_pass(ExternalIds(a, st), [st EXCEPT !.dblockid = @ + 1])))
===========================================================================
