------------------------------- MODULE Heap -------------------------------
(* What the interpreter's memory promises the bytecode: a store in which   *)
(* values are created, referred to and dropped, and in which nothing is    *)
(* ever freed.  Module Gc, which models val.c, implements this module.     *)
EXTENDS Sequences, SequencesExt, Reachability

CONSTANTS
  Pinned,      \* values the program and the globals array own for ever
  Base,        \* the frame exec_new pushes
  BaseKids,    \* what that frame holds: its return address and loop stack
  MaxStack     \* bound: the longest value stack and call stack considered

VARIABLES
  kids,        \* what each visible value refers to
  vstack,      \* the value stack
  frames,      \* the call stack, exec->vars
  locals       \* values held by the C locals of the operation in progress

vars == <<kids, vstack, frames, locals>>

Roots == ToSet(vstack) \cup ToSet(frames) \cup Pinned

Live == Reach(kids, Roots \cup locals)

Init ==
  /\ kids = [a \in Addr |-> IF a = Base THEN BaseKids ELSE {}]
  /\ vstack = <<>>
  /\ frames = <<Base>>
  /\ locals = {}

\* The operation in progress creates a value, at an address nobody can name.
New == \E a \in Addr \ Live :
  /\ locals' = locals \cup {a}
  /\ UNCHANGED <<kids, vstack, frames>>

Push == \E v \in locals :
  /\ Len(vstack) < MaxStack
  /\ vstack' = Append(vstack, v)
  /\ UNCHANGED <<kids, frames, locals>>

Peek ==
  /\ vstack # <<>>
  /\ locals' = locals \cup {Last(vstack)}
  /\ UNCHANGED <<kids, vstack, frames>>

Pop ==
  /\ vstack # <<>>
  /\ locals' = locals \cup {Last(vstack)}
  /\ vstack' = Front(vstack)
  /\ UNCHANGED <<kids, frames>>

EnterFrame == \E v \in locals :
  /\ Len(frames) < MaxStack
  /\ frames' = Append(frames, v)
  /\ UNCHANGED <<kids, vstack, locals>>

LeaveFrame ==
  /\ frames # <<>>
  /\ locals' = locals \cup {Last(frames)}
  /\ frames' = Front(frames)
  /\ UNCHANGED <<kids, vstack>>

\* The containers an operation can reach at once: its locals, the frame on
\* top of the call stack, and the arrays and maps of the program.
Containers ==
  locals \cup Pinned \cup (IF frames = <<>> THEN {} ELSE {Last(frames)})

Load == \E o \in Containers : \E k \in kids[o] :
  /\ locals' = locals \cup {k}
  /\ UNCHANGED <<kids, vstack, frames>>

\* A slot of a container is written; the value it held, if any, may have
\* other slots in the same container.
Store == \E o \in Containers, v \in locals :
  \E lost \in {{}} \cup {{k} : k \in kids[o]} :
    /\ kids' = Visible([kids EXCEPT ![o] = (@ \ lost) \cup {v}], Roots \cup locals)
    /\ UNCHANGED <<vstack, frames, locals>>

\* The operation ends and its C locals go out of scope.
EndStep ==
  /\ locals' = {}
  /\ kids' = Visible(kids, Roots)
  /\ UNCHANGED <<vstack, frames>>

Next ==
  \/ New
  \/ Push
  \/ Peek
  \/ Pop
  \/ EnterFrame
  \/ LeaveFrame
  \/ Load
  \/ Store
  \/ EndStep

Spec == Init /\ [][Next]_vars
===========================================================================
