---------------------------- MODULE Container ----------------------------
(* The program container (prog.c) and the allocation of variables          *)
(* (vars.c), as operations on a record st, the state of a compilation:     *)
(*   ops, constants, functions - the program so far                        *)
(*   locals, globals - varalloc: the variables in the order of their       *)
(*               slots, with name, static type and F_CURSOROPEN            *)
(*   nr        - the number an operation returns                           *)
(*   ok        - FALSE when the process has ended: a failed assertion, a   *)
(*               NULL pointer, an abort                                    *)
(* The other fields belong to the compiler: root is the tree compiled,     *)
(* returns has the static types of the function nodes that have one,       *)
(* curfunc is the function node last entered (Absent before the first),    *)
(* dblockid and bodies number the database blocks and their procedures,    *)
(* type and code belong to the node just compiled.                         *)
EXTENDS Values, FiniteSets

\* A NULL pointer to a node of the syntax tree.
Absent == [k |-> "null", n |-> 0, s |-> <<>>, c |-> <<>>]

Untyped == [dt |-> "undef", sdt |-> "undef"]
Typed(t) == [dt |-> t, sdt |-> "undef"]

Empty ==
  [ops |-> <<>>, constants |-> <<>>, functions |-> <<>>, locals |-> <<>>, globals |-> <<>>,
   nr |-> 0, ok |-> TRUE, root |-> Absent, returns |-> <<>>, curfunc |-> Absent,
   dblockid |-> 0, bodies |-> <<>>, type |-> Untyped, code |-> <<>>]

---------------------------------------------------------------------------
(* The container. *)

\* Numbers that read back as an operation code: prog_add_num and prog_set_num
\* refuse them, and nobody looks at the result.
OpWords == (MinInt + 1)..(MinInt + 255)

add_op(st, op) == [st EXCEPT !.ops = Append(@, [op |-> op, n |-> 0])]
add_num(st, i) ==
  IF i \in OpWords THEN st ELSE [st EXCEPT !.ops = Append(@, [op |-> "PUSH", n |-> i])]

\* Mutant: a jump goes to the instruction before its destination.
patch_OffByOne(st, at, i) == [st EXCEPT !.ops[at + 1] = [op |-> "PUSH", n |-> i - 1]]

\* prog_set_num: the destination of a jump is known at last.
patch(st, at, i) ==
  IF i \in OpWords THEN st ELSE [st EXCEPT !.ops[at + 1] = [op |-> "PUSH", n |-> i]]
next_pc(st) == Len(st.ops)

\* A constant is stored once, equality being val_cmp's.
new_constant(st, v) ==
  LET same == {i \in DOMAIN st.constants : ValCmp(v, st.constants[i]) = 0}
  IN IF same # {} THEN [st EXCEPT !.nr = Min(same) - 1]
     ELSE [st EXCEPT !.constants = Append(@, v), !.nr = Len(st.constants)]

\* The last definition of a name counts.
register_function(st, name) ==
  [st EXCEPT !.functions = [f \in DOMAIN @ \cup {name} |-> IF f = name THEN next_pc(st) ELSE @[f]]]

\* A constant is pushed by its index.
emit_constant(st, v) ==
  LET s1 == new_constant(st, v)
  IN add_op(add_num(s1, s1.nr), "CONSTANT")

---------------------------------------------------------------------------
(* Variables: lists of them with block borders in between.  The slot of a  *)
(* variable is its position; a border takes up a position too.             *)

Border == <<>>
Var(id) == [id |-> id, type |-> Untyped, open |-> FALSE]

\* _var_lookup: the i-th entry is the last one called id, and with block set
\* no border follows it.
FoundAt(i, list, id, block) ==
  /\ list[i].id = id
  /\ \A j \in (i + 1)..Len(list) : list[j].id # id /\ (block => list[j].id # Border)

Found(list, id, block) == \E i \in DOMAIN list : FoundAt(i, list, id, block)

Position(list, id) == CHOOSE i \in DOMAIN list : FoundAt(i, list, id, FALSE)

\* Mutant: a name is added whether it is there or not.
var_add_Twice(list, id) == Append(list, Var(id))

\* _var_add: a name is added once to a block.
var_add(list, id) == IF Found(list, id, TRUE) THEN list ELSE Append(list, Var(id))

add_local(st, id) == [st EXCEPT !.locals = var_add(@, id)]
add_global(st, id) == [st EXCEPT !.globals = var_add(@, id)]

\* Mutant: globals hide locals.
IsLocal_GlobalsFirst(st, id) == Found(st.locals, id, FALSE) /\ ~Found(st.globals, id, FALSE)

\* var_get: locals hide globals.
IsLocal(st, id) == Found(st.locals, id, FALSE)
Known(st, id) == IsLocal(st, id) \/ Found(st.globals, id, FALSE)

get_or_addlocal(st, id) == IF Known(st, id) THEN st ELSE add_local(st, id)

\* The number of a known variable, and the variable itself.
slot(st, id) == Position(IF IsLocal(st, id) THEN st.locals ELSE st.globals, id) - 1
var(st, id) == IF IsLocal(st, id) THEN st.locals[slot(st, id) + 1] ELSE st.globals[slot(st, id) + 1]

\* Assignments to fields of a known variable.
set_var(st, id, v) ==
  IF IsLocal(st, id) THEN [st EXCEPT !.locals[slot(st, id) + 1] = v]
  ELSE [st EXCEPT !.globals[slot(st, id) + 1] = v]

InBlock(st) == \E i \in DOMAIN st.locals : st.locals[i].id = Border

var_enter_block(st) == [st EXCEPT !.locals = Append(@, Var(Border))]

\* Mutant: the border stays.
var_leave_block_KeepsBorder(st) == [st EXCEPT !.locals = SubSeq(@, 1, Position(@, Border))]

\* var_leave_block, inside a block: everything from the last border on goes.
\* Without a border the entries would be freed but stay in the list.
var_leave_block(st) == [st EXCEPT !.locals = SubSeq(@, 1, Position(@, Border) - 1)]

var_reset(st) == [st EXCEPT !.locals = <<>>]
var_reset_all(st) == [st EXCEPT !.locals = <<>>, !.globals = <<>>]

---------------------------------------------------------------------------
(* Static types: two operands of known, different types are refused. *)

\* _typecheck: the type the first operand has afterwards, if it may have one.
Agree(t1, t2) == t1 = t2 \/ t1.dt = "undef" \/ t2.dt = "undef"
Joined(t1, t2) == IF t1.dt = "undef" THEN t2 ELSE t1
===========================================================================
