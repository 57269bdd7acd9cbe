----------------------------- MODULE Compiler -----------------------------
(* compile_ast of sqlinked.y.                                              *)
(*                                                                         *)
(* A node of the syntax tree is a record: its kind k, a number n, a name   *)
(* or string s, and its children c; Absent stands for a NULL child.  The   *)
(* compiler's state st is the container's.  A function's node is known by  *)
(* its tree: two definitions alike to the letter count as one.             *)
EXTENDS PlPgSql

\* The text hello prints.
Hello == <<72>>

---------------------------------------------------------------------------
\* The first definition of a function, in the order of the text.
RECURSIVE find_func(_, _)
find_func(root, name) ==
  LET in == [i \in DOMAIN root.c |-> find_func(root.c[i], name)]
      found == {i \in DOMAIN in : in[i] # Absent}
  IN IF root.k = "defun" /\ root.c[1].s = name THEN root
     ELSE IF found = {} THEN Absent ELSE in[Min(found)]

\* The static type of a function's node, known from its returns so far.
FuncType(st, f) == IF f \in DOMAIN st.returns THEN st.returns[f] ELSE Untyped

RECURSIVE compile_ast(_, _, _)

\* The type of a binary operator's result, from those of its operands.
BinaryType(op, t1, t2) ==
  Typed(IF op \in {"LESS", "NOTEQUAL", "EQUAL"} THEN "num" ELSE Joined(t1, t2).dt)

\* A binary operator: the second operand is compiled first.
compile_binary(a, st, m, op) ==
  LET s1 == compile_ast(a.c[2], st, m)
      s2 == compile_ast(a.c[1], s1, m)
  IN [add_op(s2, op) EXCEPT !.type = BinaryType(op, s2.type, s1.type),
                            !.ok = @ /\ Agree(s2.type, s1.type)]

compile_assign(a, st, m) ==
  LET s1 == compile_ast(a.c[2], st, m)
      s2 == get_or_addlocal(s1, a.c[1].s)
      i == slot(s2, a.c[1].s)
      v == var(s2, a.c[1].s)
      s3 == [set_var(s2, a.c[1].s, [v EXCEPT !.type = Joined(@, s1.type)])
               EXCEPT !.ok = @ /\ Agree(v.type, s1.type)]
  IN [add_op(add_num(add_op(add_num(s3, i), "SETVAR"), i), "GETVAR") EXCEPT !.type = Untyped]

\* a[i] = v: the static type must be that of an array whose items agree.
compile_indexas(a, st, m) ==
  LET s1 == compile_ast(a.c[3], st, m)
      s2 == compile_ast(a.c[2], s1, m)
      s3 == compile_ast(a.c[1], s2, m)
  IN [add_op(s3, "INDEXAS") EXCEPT
        !.type = Untyped,
        !.ok = @ /\ s3.type.dt = "arr" /\ s3.type.sdt \in {"undef", s1.type.dt}]

compile_index(a, st, m) ==
  LET s2 == compile_ast(a.c[1], compile_ast(a.c[2], st, m), m)
  IN [add_op(s2, "INDEX1") EXCEPT !.type = Typed(s2.type.sdt)]

\* repeat: the counter stays on the stack under what the body computes.
compile_repeat(a, st, m) ==
  LET s1 == add_num(st, a.c[1].n)
      start == next_pc(s1)
      s2 == add_num(add_op(s1, "DUP"), 0)
      s3 == add_num(add_op(add_num(add_op(s2, "JUMPF"), 1), "SUB"), 0)
      s4 == compile_ast(a.c[2], add_op(s3, "SUB"), m)
      s5 == add_op(add_num(s4, start), "JUMP")
  IN [add_op(patch(s5, start + 1, next_pc(s5)), "DISCARD") EXCEPT !.type = Untyped]

\* With METHOD1 an if is made of jumps, else of structured operations.
compile_if(a, st, m) ==
  LET s1 == compile_ast(a.c[1], st, m)
      dstelse == next_pc(s1)
      s2 == compile_ast(a.c[2], add_op(add_num(s1, 0), "JUMPF"), m)
      dstend == next_pc(s2)
      s3 == add_op(add_num(s2, 0), "JUMP")
      s4 == compile_ast(a.c[3], patch(s3, dstelse, next_pc(s3)), m)
      t2 == compile_ast(a.c[2], add_op(s1, "CONDBEGIN"), m)
      t3 == compile_ast(a.c[3], add_op(t2, "CONDELSE"), m)
  IN [add_num(IF m THEN patch(s4, dstend, next_pc(s4)) ELSE add_op(t3, "CONDEND"), 0)
        EXCEPT !.type = Untyped]

compile_while(a, st, m) ==
  LET start == next_pc(st)
      s1 == compile_ast(a.c[1], st, m)
      jumpend == next_pc(s1)
      s2 == compile_ast(a.c[2], add_op(add_num(s1, 0), "JUMPF"), m)
      s3 == add_op(add_num(s2, start), "JUMP")
      t1 == compile_ast(a.c[1], add_op(st, "LOOPBEGIN"), m)
      t2 == compile_ast(a.c[2], add_op(t1, "LOOPBODY"), m)
  IN [add_num(IF m THEN patch(s3, jumpend, next_pc(s3)) ELSE add_op(t2, "LOOPEND"), 0)
        EXCEPT !.type = Untyped]

\* Arguments and array items are compiled last to first, and counted.
compile_list(a, st, m, checked) ==
  LET s1 == compile_ast(a.c[2], st, m)
      s2 == IF a.c[1] = Absent THEN [s1 EXCEPT !.nr = -1] ELSE compile_ast(a.c[1], s1, m)
  IN [s2 EXCEPT !.nr = @ + 1, !.type = Typed(s1.type.dt),
                !.ok = @ /\ (checked /\ a.c[1] # Absent => Agree(s2.type, s1.type))]

\* Mutant: the last item of a list is not counted.
Count_OffByOne(list, s1) == IF list = Absent THEN 0 ELSE s1.nr

\* How many values a list of arguments or items leaves on the stack.
Count(list, s1) == IF list = Absent THEN 0 ELSE s1.nr + 1

compile_call(a, st, m) ==
  LET s1 == compile_ast(a.c[2], st, m)
      s2 == emit_constant(add_num(s1, Count(a.c[2], s1)), Str(a.c[1].s))
  IN [add_op(s2, "CALL") EXCEPT !.type = FuncType(s2, find_func(s2.root, a.c[1].s))]

compile_arr(a, st, m) ==
  LET s1 == compile_ast(a.c[1], st, m)
      item == IF a.c[1] = Absent THEN "undef" ELSE s1.type.dt
  IN [add_op(add_num(s1, Count(a.c[1], s1)), "MKARRAY") EXCEPT !.type = [dt |-> "arr", sdt |-> item]]

\* Mutant: a function that gets to its end has no result.
compile_func_NoResult(a, st, m) ==
  LET s1 == compile_ast(a.c[2], var_reset(add_op(add_num(st, 0), "JUMP")), m)
      s2 == register_function([s1 EXCEPT !.curfunc = a], a.c[1].s)
      s3 == add_op(compile_ast(a.c[3], s2, m), "RET")
  IN [add_num(patch(s3, next_pc(st), next_pc(s3)), 0) EXCEPT !.type = Untyped]

\* defun: the code is jumped over; all variables known so far are forgotten,
\* those of the surrounding program too.
compile_func(a, st, m) ==
  LET name == a.c[1].s
      jmp == next_pc(st)
      s1 == compile_ast(a.c[2], var_reset(add_op(add_num(st, 0), "JUMP")), m)
      s2 == register_function([s1 EXCEPT !.curfunc = a], name)
      s3 == compile_ast(a.c[3], s2, m)
      s4 == add_op(add_num(s3, 0), "RET")
  IN [add_num(patch(s4, jmp, next_pc(s4)), 0) EXCEPT !.type = Untyped]

\* return: refused before the first function, where curfunc is NULL.
compile_return(a, st, m) ==
  LET s1 == compile_ast(a.c[1], st, m)
      f == s1.curfunc
      old == FuncType(s1, f)
      new == Joined(old, s1.type)
  IN [add_op(s1, "RET") EXCEPT
        !.type = Untyped,
        !.returns = [g \in DOMAIN @ \cup {f} |-> IF g = f THEN new ELSE @[g]],
        !.ok = @ /\ f # Absent /\ Agree(old, s1.type)]

\* The whole compiler: node a, state st, METHOD1 m.  A failure ends it.
compile_ast(a, st, m) ==
  IF ~st.ok THEN st ELSE
  CASE a.k = "null" -> [st EXCEPT !.nr = 0]
    [] a.k = "stmts" ->
         add_op(compile_ast(a.c[2], compile_ast(a.c[1], st, m), m), "DISCARD")
    [] a.k = "hello" -> [add_op(emit_constant(st, Str(Hello)), "PRINT") EXCEPT !.type = Untyped]
    [] a.k = "num" -> [add_num(st, Wrap(a.n)) EXCEPT !.type = Typed("num")]
    [] a.k = "str" -> [emit_constant(st, Str(a.s)) EXCEPT !.type = Typed("str")]
    [] a.k = "id" ->
         LET s1 == get_or_addlocal(st, a.s)
         IN [add_op(add_num(s1, slot(s1, a.s)), "GETVAR") EXCEPT !.type = var(s1, a.s).type]
    [] a.k = "<" -> compile_binary(a, st, m, "LESS")
    [] a.k = "!=" -> compile_binary(a, st, m, "NOTEQUAL")
    [] a.k = "==" -> compile_binary(a, st, m, "EQUAL")
    [] a.k = "+" -> compile_binary(a, st, m, "ADD")
    [] a.k = "*" -> compile_binary(a, st, m, "MUL")
    [] a.k = "/" -> compile_binary(a, st, m, "DIVIDE")
    [] a.k = "-" /\ a.c[1] # Absent -> compile_binary(a, st, m, "SUB")
    [] a.k = "-" /\ a.c[1] = Absent ->
         LET s1 == compile_ast(a.c[2], st, m)
         IN [add_op(s1, "NEGATE") EXCEPT !.type = Typed(s1.type.dt)]
    [] a.k = "=" -> compile_assign(a, st, m)
    [] a.k = "[=" -> compile_indexas(a, st, m)
    [] a.k = "[]" -> compile_index(a, st, m)
    [] a.k = "repeat" -> compile_repeat(a, st, m)
    [] a.k = "if" -> compile_if(a, st, m)
    [] a.k = "while" -> compile_while(a, st, m)
    [] a.k = "funcall" -> compile_call(a, st, m)
    [] a.k = "aparams" -> compile_list(a, st, m, FALSE)
    [] a.k = "arrayvals" -> compile_list(a, st, m, TRUE)
    [] a.k = "arr" -> compile_arr(a, st, m)
    [] a.k = "defun" -> compile_func(a, st, m)
    [] a.k = "return" -> compile_return(a, st, m)
    [] a.k = "fparams" -> add_local(compile_ast(a.c[1], st, m), a.c[2].s)
    [] a.k = "block" ->
         [add_num(add_op(compile_ast(a.c[1], add_op(st, "TSTART"), m), "TEND"), 0)
            EXCEPT !.type = Untyped]
    [] a.k = "dblock" ->
         [add_num(add_op(dblock_parse(a.c[1], add_op(st, "TSTART")), "TEND"), 0)
            EXCEPT !.type = Untyped]

\* The parser's action for a whole program.
compile(a, m) == compile_ast(a, [Empty EXCEPT !.root = a], m)

\* The program a compilation ends with.
Program(st) ==
  [ops |-> st.ops, constants |-> st.constants, functions |-> st.functions, bodies |-> st.bodies]
===========================================================================
