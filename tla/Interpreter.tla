---------------------------- MODULE Interpreter ----------------------------
(* The interpreter sqlinked without database blocks: a syntax tree is      *)
(* compiled and the virtual machine runs the result, main of sqlinked.y.   *)
(* The machine's Programs are the compilations of the trees in Asts.       *)
EXTENDS Vm, Language

CONSTANTS
  Asts,      \* syntax trees
  Methods    \* the settings of METHOD1 considered

\* The programs of each tree, none if the compiler refuses it.
CompiledBy ==
  [a \in Asts |-> {Program(st) : st \in {st \in {compile(a, m) : m \in Methods} : st.ok}}]

Compiled == UNION {CompiledBy[a] : a \in Asts}

\* The tree a program was compiled from, and what it means on each input.
SourceOf == [p \in Compiled |-> CHOOSE a \in Asts : p \in CompiledBy[a]]
MeaningOf == [p \in Compiled |-> [input \in Stdins |-> Meaning(SourceOf[p], input)]]

Meant == MeaningOf[prog][stdin]

---------------------------------------------------------------------------
\* A program prints what it means, and exits exactly when it means to.
MeetsMeaning ==
  status \in {"ended", "halted"} =>
    out = Meant.out /\ (status = "halted" <=> Meant.stop = "exit")

\* At the end every value pushed has been consumed, except the end time each
\* block leaves behind; all functions have returned and all loops are closed.
NothingLeftBehind ==
  status = "ended" =>
    /\ Len(vstack) = Meant.blocks
    /\ Len(frames) = 1
    /\ frames[1].loops = <<>>

\* Every program considered comes to an end.
Terminates == <>(status # "running")
===========================================================================
