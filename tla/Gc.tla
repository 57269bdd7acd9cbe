-------------------------------- MODULE Gc --------------------------------
(* The mark and sweep collector of vm/val/val.c and the way operations of  *)
(* the interpreter use the values it manages.                              *)
(*                                                                         *)
(* An operation of the interpreter is a sequence of the steps New ...      *)
(* Store on the values its C locals hold; exec_step ends it with EndStep,  *)
(* which calls vals_gc.  vals_gc either returns at once or runs the phases *)
(* "mark", "sweep_head" and "sweep" to the end; nothing else runs then.    *)
(* The shared value val_undef is not on the list, is always marked and     *)
(* refers to nothing: it is left out.                                      *)
EXTENDS Integers, Sequences, SequencesExt, FiniteSets, Reachability

CONSTANTS
  Pinned,       \* prog->ops, ->constants, ->functions and exec->global_vars
  Base,         \* the frame exec_new pushes
  BaseKids,     \* what that frame holds: its return address and loop stack
  InitVals,     \* the list of values when the first operation starts
  GC_THRESHOLD,
  MaxStack,     \* bound: the longest value stack and call stack considered
  MaxLocals,    \* bound: the values an operation holds in C locals at a time
  MaxKids       \* bound: the different values a container refers to

Distinct(s) == \A i, j \in 1..Len(s) : s[i] = s[j] => i = j

ASSUME GcAssumption ==
  /\ Pinned \subseteq Addr
  /\ Base \in Addr
  /\ BaseKids \subseteq Addr
  /\ InitVals \in Seq(Addr)
  /\ Distinct(InitVals)
  /\ ToSet(InitVals) = Pinned \cup {Base} \cup BaseKids
  /\ GC_THRESHOLD \in Nat \ {0}
  /\ MaxStack \in Nat
  /\ MaxLocals \in Nat
  /\ MaxKids \in Nat

VARIABLES
  vals,         \* the list val_head -> next -> ..., head first
  kids,         \* what each value refers to: array slots, map keys and values
  marked,       \* the allocated values with marked # 0
  last_count,   \* the static of vals_gc
  vstack,       \* exec->vstack
  frames,       \* exec->vars
  locals,       \* values held by the C locals of the operation in progress
  phase,        \* "run": the interpreter runs; else what vals_gc is doing
  todo,         \* vals_mark: values whose val_mark call is pending
  p             \* vals_sweep: position of p in the list

mutator == <<vstack, frames, locals>>
collector == <<vals, marked, last_count, phase, todo, p>>
vars == <<vals, kids, marked, last_count, vstack, frames, locals, phase, todo, p>>

Allocated == ToSet(vals)

\* Mutant: vals_mark forgets exec->vars.
Roots_WithoutFrames == ToSet(vstack) \cup Pinned

\* The roots vals_mark starts from.
Roots == ToSet(vstack) \cup ToSet(frames) \cup Pinned

Live == Reach(kids, Roots \cup locals)

Init ==
  /\ vals = InitVals
  /\ kids = [a \in Addr |-> IF a = Base THEN BaseKids ELSE {}]
  /\ marked = {}
  /\ last_count = 0
  /\ vstack = <<>>
  /\ frames = <<Base>>
  /\ locals = {}
  /\ phase = "run"
  /\ todo = {}
  /\ p = 0

---------------------------------------------------------------------------
(* The interpreter. *)

\* v is kept in a C local from now on.
Hold(v) ==
  /\ locals' = locals \cup {v}
  /\ Cardinality(locals') <= MaxLocals

\* Mutant: val_new, and not exec_step, collects when the threshold is reached.
New_Collects == \E a \in Addr \ Allocated :
  /\ phase = "run"
  /\ vals' = <<a>> \o vals
  /\ Hold(a)
  /\ IF Len(vals') - last_count < GC_THRESHOLD
     THEN UNCHANGED <<phase, marked, todo>>
     ELSE phase' = "mark" /\ marked' = {} /\ todo' = Roots
  /\ UNCHANGED <<kids, last_count, vstack, frames, p>>

\* val_new: calloc returns an address that is not in use; the value goes to
\* the head of the list.
New == \E a \in Addr \ Allocated :
  /\ phase = "run"
  /\ vals' = <<a>> \o vals
  /\ Hold(a)
  /\ UNCHANGED <<kids, marked, last_count, vstack, frames, phase, todo, p>>

Push == \E v \in locals :
  /\ phase = "run"
  /\ Len(vstack) < MaxStack
  /\ vstack' = Append(vstack, v)
  /\ UNCHANGED <<kids, frames, locals, collector>>

Peek ==
  /\ phase = "run"
  /\ vstack # <<>>
  /\ Hold(Last(vstack))
  /\ UNCHANGED <<kids, vstack, frames, collector>>

Pop ==
  /\ phase = "run"
  /\ vstack # <<>>
  /\ Hold(Last(vstack))
  /\ vstack' = Front(vstack)
  /\ UNCHANGED <<kids, frames, collector>>

\* CALL pushes the array it built on exec->vars, RET pops it.
EnterFrame == \E v \in locals :
  /\ phase = "run"
  /\ Len(frames) < MaxStack
  /\ frames' = Append(frames, v)
  /\ UNCHANGED <<kids, vstack, locals, collector>>

LeaveFrame ==
  /\ phase = "run"
  /\ frames # <<>>
  /\ Hold(Last(frames))
  /\ frames' = Front(frames)
  /\ UNCHANGED <<kids, vstack, collector>>

\* The containers an operation can reach at once.
Containers ==
  locals \cup Pinned \cup (IF frames = <<>> THEN {} ELSE {Last(frames)})

Load == \E o \in Containers : \E k \in kids[o] :
  /\ phase = "run"
  /\ Hold(k)
  /\ UNCHANGED <<kids, vstack, frames, collector>>

\* arr_set, arr_push, map_set: a slot is written.  The value it held, if any,
\* may have other slots in the same container.
Store == \E o \in Containers, v \in locals :
  \E lost \in {{}} \cup {{k} : k \in kids[o]} :
    /\ phase = "run"
    /\ kids' = [kids EXCEPT ![o] = (@ \ lost) \cup {v}]
    /\ Cardinality(kids'[o]) <= MaxKids
    /\ UNCHANGED <<mutator, collector>>

\* Mutant: vals_unmark is not called before marking.
EndStep_KeepsMarks ==
  /\ phase = "run"
  /\ locals' = {}
  /\ IF Len(vals) - last_count < GC_THRESHOLD
     THEN UNCHANGED <<phase, todo>>
     ELSE phase' = "mark" /\ todo' = Roots
  /\ UNCHANGED <<vals, kids, marked, last_count, vstack, frames, p>>

\* The end of exec_step: the C locals are gone, and vals_gc is called.  Below
\* the threshold it returns; else it unmarks every value and starts marking.
EndStep ==
  /\ phase = "run"
  /\ locals' = {}
  /\ IF Len(vals) - last_count < GC_THRESHOLD
     THEN UNCHANGED <<phase, marked, todo>>
     ELSE /\ phase' = "mark"
          /\ marked' = {}
          /\ todo' = Roots
  /\ UNCHANGED <<vals, kids, last_count, vstack, frames, p>>

---------------------------------------------------------------------------
(* The collector. *)

\* Mutant: val_mark visits marked values again.
Mark_Again == \E v \in todo :
  /\ phase = "mark"
  /\ marked' = marked \cup {v}
  /\ todo' = (todo \ {v}) \cup kids[v]
  /\ UNCHANGED <<vals, kids, last_count, mutator, phase, p>>

\* One call of val_mark, in any order: it returns if the value is marked,
\* else it marks it and calls itself on what the value refers to.
Mark == \E v \in todo :
  /\ phase = "mark"
  /\ IF v \in marked
     THEN /\ todo' = todo \ {v}
          /\ UNCHANGED marked
     ELSE /\ marked' = marked \cup {v}
          /\ todo' = (todo \ {v}) \cup kids[v]
  /\ UNCHANGED <<vals, kids, last_count, mutator, phase, p>>

MarkDone ==
  /\ phase = "mark"
  /\ todo = {}
  /\ phase' = "sweep_head"
  /\ UNCHANGED <<vals, kids, marked, last_count, mutator, todo, p>>

\* The first loop of vals_sweep: unmarked values at the head of the list go.
SweepHead ==
  /\ phase = "sweep_head"
  /\ vals # <<>>
  /\ vals[1] \notin marked
  /\ vals' = RemoveAt(vals, 1)
  /\ kids' = [kids EXCEPT ![vals[1]] = {}]
  /\ UNCHANGED <<marked, last_count, mutator, phase, todo, p>>

SweepHeadDone ==
  /\ phase = "sweep_head"
  /\ vals # <<>> => vals[1] \in marked
  /\ phase' = "sweep"
  /\ p' = 1
  /\ UNCHANGED <<vals, kids, marked, last_count, mutator, todo>>

\* Mutant: p moves on also after p->next was unlinked.
Sweep_Skips ==
  /\ phase = "sweep"
  /\ p < Len(vals)
  /\ p' = p + 1
  /\ IF vals[p + 1] \notin marked
     THEN /\ vals' = RemoveAt(vals, p + 1)
          /\ kids' = [kids EXCEPT ![vals[p + 1]] = {}]
     ELSE UNCHANGED <<vals, kids>>
  /\ UNCHANGED <<marked, last_count, mutator, phase, todo>>

\* The second loop: p->next is unlinked and freed if it is unmarked, else p
\* moves on.
Sweep ==
  /\ phase = "sweep"
  /\ p < Len(vals)
  /\ IF vals[p + 1] \notin marked
     THEN /\ vals' = RemoveAt(vals, p + 1)
          /\ kids' = [kids EXCEPT ![vals[p + 1]] = {}]
          /\ UNCHANGED p
     ELSE /\ p' = p + 1
          /\ UNCHANGED <<vals, kids>>
  /\ UNCHANGED <<marked, last_count, mutator, phase, todo>>

\* Mutant: the values left are not counted.
SweepDone_Uncounted ==
  /\ phase = "sweep"
  /\ p >= Len(vals)
  /\ phase' = "run"
  /\ p' = 0
  /\ UNCHANGED <<vals, kids, marked, last_count, mutator, todo>>

SweepDone ==
  /\ phase = "sweep"
  /\ p >= Len(vals)
  /\ last_count' = Len(vals)
  /\ phase' = "run"
  /\ p' = 0
  /\ UNCHANGED <<vals, kids, marked, mutator, todo>>

Collect == Mark \/ MarkDone \/ SweepHead \/ SweepHeadDone \/ Sweep \/ SweepDone

Next ==
  \/ New
  \/ Push
  \/ Peek
  \/ Pop
  \/ EnterFrame
  \/ LeaveFrame
  \/ Load
  \/ Store
  \/ EndStep
  \/ Collect

Spec == Init /\ [][Next]_vars

\* vals_gc runs on the interpreter's only thread: it is never left waiting.
FairSpec == Spec /\ WF_vars(Collect)

---------------------------------------------------------------------------
TypeOK ==
  /\ vals \in Seq(Addr)
  /\ kids \in Graph
  /\ marked \subseteq Addr
  /\ last_count \in Nat
  /\ vstack \in Seq(Addr)
  /\ frames \in Seq(Addr)
  /\ locals \subseteq Addr
  /\ phase \in {"run", "mark", "sweep_head", "sweep"}
  /\ todo \subseteq Addr
  /\ p \in Nat

\* The inductive invariant behind the properties below.  Between collections
\* and while marking, the allocated values are closed under references and
\* hold all roots and locals.  While marking, whatever a marked value refers
\* to is marked or pending, and only reachable values are.  Afterwards the
\* marked values are the reachable ones and sweeping has left no other before p.
NoDuplicates == Distinct(vals)

HeapClosed ==
  phase \in {"run", "mark"} =>
    /\ Roots \cup locals \subseteq Allocated
    /\ Closed(kids, Allocated)

FreeIsEmpty == \A a \in Addr \ Allocated : kids[a] = {}

MarkedAllocated == marked \subseteq Allocated

NoLocals == phase # "run" => locals = {}

Marking ==
  phase = "mark" =>
    /\ Roots \subseteq marked \cup todo
    /\ \A v \in marked : kids[v] \subseteq marked \cup todo
    /\ marked \cup todo \subseteq Reach(kids, Roots)

Marked ==
  phase \in {"sweep_head", "sweep"} => marked = Reach(kids, Roots)

Swept ==
  phase = "sweep" => \A i \in 1..Len(vals) : i <= p => vals[i] \in marked

IInv ==
  /\ TypeOK
  /\ NoDuplicates
  /\ HeapClosed
  /\ FreeIsEmpty
  /\ MarkedAllocated
  /\ NoLocals
  /\ Marking
  /\ Marked
  /\ Swept

\* Nothing the program can still name has been freed: not a value of a stack,
\* a frame, a global or a constant, nor one the current operation popped or
\* created and has not stored anywhere yet.
NoDangling == Live \subseteq Allocated

\* When a collection returns to the interpreter, the values left are exactly
\* those reachable from the roots: nothing lost, no garbage retained, cycles
\* and values with a stale mark from the collection before included.
CollectionIsExact ==
  [][phase = "sweep" /\ phase' = "run" => Allocated' = Reach(kids', Roots')]_vars

\* Every operation starts on a heap less than GC_THRESHOLD larger than what
\* the last collection left.
HeapBounded ==
  [][phase' = "run" /\ (phase # "run" \/ (locals # {} /\ locals' = {}))
       => Len(vals') - last_count' < GC_THRESHOLD]_vars

\* A collection comes to an end, whatever cycles values form.
CollectionEnds == (phase # "run") ~> (phase = "run")

\* The program sees a heap in which nothing is ever freed.
H == INSTANCE Heap WITH kids <- Visible(kids, Roots \cup locals)
ImplementsHeap == H!Spec
===========================================================================
