----------------------------- MODULE Builder -----------------------------
(* The program container and the allocation of variables under any         *)
(* sequence of the calls prog.h declares.                                  *)
EXTENDS Container

CONSTANTS
  Ids,         \* names of variables and functions
  Constants,   \* values used as constants
  Numbers,     \* numbers used as operands
  Ops,         \* operations used
  MaxItems     \* bound on the words, constants, functions and variables together

ASSUME BuilderAssumption ==
  /\ Border \notin Ids
  /\ MaxItems \in Nat

VARIABLES
  st,          \* the container and varalloc
  outer        \* history: what locals was when each open block was entered

builder == <<st, outer>>

BuilderInit == st = Empty /\ outer = <<>>

---------------------------------------------------------------------------
Room ==
  Len(st.ops) + Len(st.constants) + Cardinality(DOMAIN st.functions)
    + Len(st.locals) + Len(st.globals) < MaxItems

AddOp(op) == Room /\ st' = add_op(st, op) /\ UNCHANGED outer
AddNum(i) == Room /\ st' = add_num(st, i) /\ UNCHANGED outer
SetNum(at, i) == st' = patch(st, at, i) /\ UNCHANGED outer
NewConstant(v) == Room /\ st' = new_constant(st, v) /\ UNCHANGED outer
RegisterFunction(id) == Room /\ st' = register_function(st, id) /\ UNCHANGED outer

AddLocal(id) == Room /\ st' = add_local(st, id) /\ UNCHANGED outer
AddGlobal(id) == Room /\ st' = add_global(st, id) /\ UNCHANGED outer
GetOrAddLocal(id) == Room /\ st' = get_or_addlocal(st, id) /\ UNCHANGED outer

EnterBlock ==
  /\ Room
  /\ st' = var_enter_block(st)
  /\ outer' = Append(outer, st.locals)

LeaveBlock ==
  /\ InBlock(st)
  /\ st' = var_leave_block(st)
  /\ outer' = Front(outer)

VarReset == st' = var_reset(st) /\ outer' = <<>>
VarResetAll == st' = var_reset_all(st) /\ outer' = <<>>

FillContainer ==
  \/ \E op \in Ops : AddOp(op)
  \/ \E i \in Numbers : AddNum(i)
  \/ \E at \in 0..(Len(st.ops) - 1), i \in Numbers : SetNum(at, i)
  \/ \E v \in Constants : NewConstant(v)
  \/ \E id \in Ids : RegisterFunction(id)

AllocateVariables ==
  \/ \E id \in Ids : AddLocal(id) \/ AddGlobal(id) \/ GetOrAddLocal(id)
  \/ EnterBlock
  \/ LeaveBlock
  \/ VarReset
  \/ VarResetAll

BuilderNext == FillContainer \/ AllocateVariables

BuilderSpec == BuilderInit /\ [][BuilderNext]_builder

---------------------------------------------------------------------------
\* Within a block a name has one slot: two entries of the same name have a
\* border between them (_var_add).
Unique(list) ==
  \A i, j \in DOMAIN list :
    i < j /\ list[i].id = list[j].id /\ list[i].id # Border
      => \E k \in (i + 1)..(j - 1) : list[k].id = Border
NamesUnique == Unique(st.locals) /\ Unique(st.globals)

\* A variable keeps its slot, and code compiled for it stays right, until it is
\* hidden by a declaration in an inner block, its block is left or a function
\* definition resets the list (vars.c).
SlotsStable ==
  [][\A id \in Ids :
       Known(st, id) =>
         \/ Known(st', id) /\ slot(st', id) = slot(st, id) /\ IsLocal(st', id) = IsLocal(st, id)
         \/ AddLocal(id) /\ ~Found(st.locals, id, TRUE)
         \/ LeaveBlock \/ VarReset \/ VarResetAll]_builder

\* Leaving a block restores the variables, with their slots, as they were when
\* it was entered, whatever happened inside (var_enter_block, var_leave_block).
BlocksNest ==
  \A k \in DOMAIN outer :
    /\ IsPrefix(Append(outer[k], Var(Border)), st.locals)
    /\ \A i \in (Len(outer[k]) + 2)..Len(st.locals) :
         st.locals[i].id = Border => \E m \in DOMAIN outer : Len(outer[m]) + 1 = i
===========================================================================
