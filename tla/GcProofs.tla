----------------------------- MODULE GcProofs -----------------------------
(* The collector frees nothing the program can name and keeps no garbage,  *)
(* for every set of addresses, every threshold and every object graph; so  *)
(* it implements a heap in which nothing is ever freed.                    *)
EXTENDS Gc, TLAPS

---------------------------------------------------------------------------
(* Reachability. *)

\* What is reachable holds the roots and is closed under references.
LEMMA ReachKeeps ==
  ASSUME NEW kd \in Graph, NEW R \in SUBSET Addr
  PROVE  /\ R \subseteq Reach(kd, R)
         /\ Reach(kd, R) \subseteq Addr
         /\ \A x \in Reach(kd, R) : kd[x] \subseteq Reach(kd, R)
<1>1. R \subseteq Reach(kd, R) /\ Reach(kd, R) \subseteq Addr
  BY DEF Reach, Keepable
<1>2. ASSUME NEW x \in Reach(kd, R), NEW y \in kd[x]
      PROVE  y \in Reach(kd, R)
  <2>1. x \in Addr /\ y \in Addr
    BY <1>1 DEF Graph
  <2>2. \A S \in Keepable(kd, R) : y \in S
    BY DEF Reach, Keepable, Closed
  <2>3. QED BY <2>1, <2>2 DEF Reach
<1>3. QED BY <1>1, <1>2

\* It is the least such set.
LEMMA ReachLeast ==
  ASSUME NEW kd \in Graph, NEW R \in SUBSET Addr, NEW S \in SUBSET Addr,
         R \subseteq S, Closed(kd, S)
  PROVE  Reach(kd, R) \subseteq S
BY DEF Reach, Keepable

\* Clearing values that are not reachable changes nothing that is.
LEMMA ReachClear ==
  ASSUME NEW kd \in Graph, NEW R \in SUBSET Addr, NEW x \in Addr,
         x \notin Reach(kd, R)
  PROVE  Reach([kd EXCEPT ![x] = {}], R) = Reach(kd, R)
<1> DEFINE kc == [kd EXCEPT ![x] = {}]
<1>1. kc \in Graph
  BY DEF Graph
<1>2. \A y \in Addr : y # x => kc[y] = kd[y]
  BY DEF Graph
<1>3. R \subseteq Reach(kd, R) /\ Reach(kd, R) \subseteq Addr /\ Closed(kd, Reach(kd, R))
  BY ReachKeeps DEF Closed
<1>4. R \subseteq Reach(kc, R) /\ Reach(kc, R) \subseteq Addr /\ Closed(kc, Reach(kc, R))
  BY <1>1, ReachKeeps DEF Closed
<1>5. Closed(kc, Reach(kd, R))
  BY <1>2, <1>3 DEF Closed
<1> HIDE DEF kc
<1>6. Reach(kc, R) \subseteq Reach(kd, R)
  BY <1>1, <1>3, <1>5, ReachLeast
<1>7. Closed(kd, Reach(kc, R))
  BY <1>2, <1>4, <1>6 DEF Closed
<1>8. Reach(kd, R) \subseteq Reach(kc, R)
  BY <1>4, <1>7, ReachLeast
<1>9. QED BY <1>6, <1>8 DEF kc

---------------------------------------------------------------------------
(* Sequences: the list of values and the stacks. *)

\* Unlinking the value at position n leaves the others in order.
LEMMA RemoveAtProperties ==
  ASSUME NEW S, NEW s \in Seq(S), NEW n \in 1..Len(s)
  PROVE  /\ RemoveAt(s, n) \in Seq(S)
         /\ Len(RemoveAt(s, n)) = Len(s) - 1
         /\ \A j \in 1..Len(s) - 1 :
              RemoveAt(s, n)[j] = IF j < n THEN s[j] ELSE s[j + 1]
<1> DEFINE front == SubSeq(s, 1, n - 1)
           back == SubSeq(s, n + 1, Len(s))
<1>1. /\ front \in Seq(S) /\ Len(front) = n - 1
      /\ \A j \in 1..n - 1 : front[j] = s[j]
  OBVIOUS
<1>2. /\ back \in Seq(S) /\ Len(back) = Len(s) - n
      /\ \A j \in 1..Len(s) - n : back[j] = s[n + j]
  OBVIOUS
<1>3. RemoveAt(s, n) = front \o back
  BY DEF RemoveAt
<1> HIDE DEF front, back
<1>4. front \o back \in Seq(S) /\ Len(front \o back) = Len(s) - 1
  BY <1>1, <1>2
<1>5. ASSUME NEW j \in 1..Len(s) - 1
      PROVE  (front \o back)[j] = IF j < n THEN s[j] ELSE s[j + 1]
  <2>1. CASE j < n
    BY <1>1, <1>2, <2>1
  <2>2. CASE ~(j < n)
    <3>1. (front \o back)[j] = back[j - (n - 1)]
      BY <1>1, <1>2, <2>2
    <3>2. j - (n - 1) \in 1..Len(s) - n /\ n + (j - (n - 1)) = j + 1
      BY <2>2
    <3>3. QED BY <1>2, <2>2, <3>1, <3>2
  <2>3. QED BY <2>1, <2>2
<1>6. QED BY <1>3, <1>4, <1>5

\* Unlinking from a list without duplicates removes that one value.
LEMMA Unlink ==
  ASSUME NEW S, NEW s \in Seq(S), NEW n \in 1..Len(s), Distinct(s)
  PROVE  /\ RemoveAt(s, n) \in Seq(S)
         /\ Len(RemoveAt(s, n)) = Len(s) - 1
         /\ ToSet(RemoveAt(s, n)) = ToSet(s) \ {s[n]}
         /\ Distinct(RemoveAt(s, n))
         /\ \A j \in 1..Len(s) - 1 : j < n => RemoveAt(s, n)[j] = s[j]
<1> DEFINE r == RemoveAt(s, n)
<1>1. r \in Seq(S) /\ Len(r) = Len(s) - 1
  BY RemoveAtProperties
<1>2. \A j \in 1..Len(s) - 1 : r[j] = IF j < n THEN s[j] ELSE s[j + 1]
  BY RemoveAtProperties
<1> HIDE DEF r
<1>4. DOMAIN r = 1..Len(s) - 1 /\ DOMAIN s = 1..Len(s)
  BY <1>1
<1>3. Distinct(r)
  <2>1. ASSUME NEW i \in 1..Len(s) - 1, NEW j \in 1..Len(s) - 1, i # j
        PROVE  r[i] # r[j]
    <3> DEFINE At(k) == IF k < n THEN k ELSE k + 1
    <3>1. At(i) \in 1..Len(s) /\ At(j) \in 1..Len(s) /\ At(i) # At(j)
      BY <2>1
    <3>2. r[i] = s[At(i)] /\ r[j] = s[At(j)]
      BY <1>2
    <3> HIDE DEF At
    <3>3. QED BY <1>4, <3>1, <3>2 DEF Distinct
  <2>2. QED BY <1>4, <2>1 DEF Distinct
<1>5. ToSet(r) \subseteq ToSet(s) \ {s[n]}
  BY <1>2, <1>4 DEF ToSet, Distinct
<1>6. ASSUME NEW i \in 1..Len(s), s[i] # s[n]
      PROVE  s[i] \in ToSet(r)
  <2>1. CASE i < n
    BY <1>2, <1>4, <2>1 DEF ToSet
  <2>2. CASE i > n
    <3>1. i - 1 \in 1..Len(s) - 1 /\ r[i - 1] = s[i]
      BY <1>2, <2>2
    <3>2. QED BY <1>4, <3>1 DEF ToSet
  <2>3. i # n
    BY <1>6
  <2>4. QED BY <2>1, <2>2, <2>3
<1>7. ToSet(s) \ {s[n]} \subseteq ToSet(r)
  BY <1>4, <1>6 DEF ToSet
<1>8. QED BY <1>1, <1>2, <1>3, <1>5, <1>7 DEF r

\* The elements of a stack after a push, a peek and a pop.
LEMMA StackElements ==
  ASSUME NEW S, NEW s \in Seq(S)
  PROVE  /\ ToSet(s) \subseteq S
         /\ \A v \in S : Append(s, v) \in Seq(S) /\ ToSet(Append(s, v)) = ToSet(s) \cup {v}
         /\ s # <<>> => /\ Last(s) \in ToSet(s)
                        /\ Front(s) \in Seq(S)
                        /\ ToSet(Front(s)) \subseteq ToSet(s)
<1>1. ToSet(s) \subseteq S
  BY DEF ToSet
<1>2. ASSUME NEW v \in S
      PROVE  Append(s, v) \in Seq(S) /\ ToSet(Append(s, v)) = ToSet(s) \cup {v}
  <2>1. /\ Append(s, v) \in Seq(S) /\ DOMAIN Append(s, v) = 1..Len(s) + 1
        /\ DOMAIN s = 1..Len(s)
        /\ \A i \in 1..Len(s) : Append(s, v)[i] = s[i]
        /\ Append(s, v)[Len(s) + 1] = v
    OBVIOUS
  <2>2. QED BY <2>1 DEF ToSet
<1>3. ASSUME s # <<>>
      PROVE  /\ Last(s) \in ToSet(s)
             /\ Front(s) \in Seq(S)
             /\ ToSet(Front(s)) \subseteq ToSet(s)
  <2>1. Len(s) \in 1..Len(s) /\ DOMAIN s = 1..Len(s)
    BY <1>3
  <2>2. Front(s) \in Seq(S) /\ DOMAIN Front(s) = 1..Len(s) - 1
        /\ \A i \in 1..Len(s) - 1 : Front(s)[i] = s[i]
    BY <2>1 DEF Front
  <2>3. QED BY <2>1, <2>2 DEF ToSet, Last
<1>4. QED BY <1>1, <1>2, <1>3

\* The list after val_new.
LEMMA ListElements ==
  ASSUME NEW S, NEW s \in Seq(S), NEW v \in S
  PROVE  /\ <<v>> \o s \in Seq(S)
         /\ Len(<<v>> \o s) = Len(s) + 1
         /\ (<<v>> \o s)[1] = v
         /\ \A i \in 2..Len(s) + 1 : (<<v>> \o s)[i] = s[i - 1]
         /\ ToSet(<<v>> \o s) = ToSet(s) \cup {v}
<1> DEFINE t == <<v>> \o s
<1>1. /\ t \in Seq(S)
      /\ Len(t) = Len(s) + 1
      /\ t[1] = v
      /\ \A i \in 2..Len(s) + 1 : t[i] = s[i - 1]
  OBVIOUS
<1> HIDE DEF t
<1>2. DOMAIN s = 1..Len(s) /\ DOMAIN t = 1..Len(s) + 1
  BY <1>1
<1>3. \A i \in 1..Len(s) : i + 1 \in DOMAIN t /\ t[i + 1] = s[i]
  BY <1>1, <1>2
<1>4. ToSet(t) \subseteq ToSet(s) \cup {v}
  BY <1>1, <1>2 DEF ToSet
<1>5. v \in ToSet(t)
  BY <1>1, <1>2 DEF ToSet
<1>6. ToSet(s) \subseteq ToSet(t)
  BY <1>2, <1>3 DEF ToSet
<1>7. QED BY <1>1, <1>4, <1>5, <1>6 DEF t

---------------------------------------------------------------------------
(* The inductive invariant. *)

LEMMA GcInit == Init => IInv
<1> SUFFICES ASSUME Init PROVE IInv
  OBVIOUS
<1> USE GcAssumption
<1>1. TypeOK
  BY DEF Init, TypeOK, Graph
<1>2. NoDuplicates
  BY DEF Init, NoDuplicates
<1>3. HeapClosed
  <2>1. ToSet(<<>>) = {} /\ ToSet(<<Base>>) = {Base}
    BY DEF ToSet
  <2>2. Roots \cup locals \subseteq Allocated
    BY <2>1 DEF Init, Roots, Allocated
  <2>3. Closed(kids, Allocated)
    BY DEF Init, Allocated, Closed
  <2>4. QED BY <2>2, <2>3 DEF HeapClosed
<1>4. FreeIsEmpty
  BY DEF Init, FreeIsEmpty, Allocated
<1>5. MarkedAllocated /\ NoLocals /\ Marking /\ Marked /\ Swept
  BY DEF Init, MarkedAllocated, NoLocals, Marking, Marked, Swept
<1>6. QED BY <1>1, <1>2, <1>3, <1>4, <1>5 DEF IInv

\* The steps of an operation keep the invariant: what they hold, store or
\* push is allocated.
LEMMA NewKeeps == IInv /\ New => IInv'
<1> SUFFICES ASSUME IInv, New PROVE IInv'
  OBVIOUS
<1> USE DEF IInv
<1>1. PICK a \in Addr \ Allocated : 
        /\ phase = "run"
        /\ vals' = <<a>> \o vals
        /\ locals' = locals \cup {a}
        /\ UNCHANGED <<kids, marked, last_count, vstack, frames, phase, todo, p>>
  BY DEF New, Hold
<1>2. vals \in Seq(Addr) /\ a \in Addr
  BY DEF TypeOK
<1>3. Allocated' = Allocated \cup {a}
  BY <1>1, <1>2, ListElements DEF Allocated
<1>4. TypeOK'
  BY <1>1, <1>2, ListElements DEF TypeOK
<1>5. NoDuplicates'
  <2>1. \A i \in 1..Len(vals) : vals[i] # a
    BY <1>1, <1>2 DEF Allocated, ToSet
  <2>2. /\ Len(vals') = Len(vals) + 1
        /\ vals'[1] = a
        /\ \A i \in 2..Len(vals) + 1 : vals'[i] = vals[i - 1]
    BY <1>1, <1>2, ListElements
  <2>3. Len(vals) \in Nat
    BY <1>2
  <2>4. QED BY <2>1, <2>2, <2>3 DEF NoDuplicates, Distinct
<1>6. Roots' = Roots
  BY <1>1 DEF Roots
<1>7. HeapClosed'
  <2>1. kids[a] = {}
    BY <1>1 DEF FreeIsEmpty
  <2>2. QED BY <1>1, <1>3, <1>6, <2>1 DEF HeapClosed, Closed
<1>8. FreeIsEmpty' /\ MarkedAllocated'
  BY <1>1, <1>3 DEF FreeIsEmpty, MarkedAllocated
<1>9. NoLocals' /\ Marking' /\ Marked' /\ Swept'
  BY <1>1 DEF NoLocals, Marking, Marked, Swept
<1>10. QED BY <1>4, <1>5, <1>7, <1>8, <1>9

\* A step that changes only stacks and locals, among allocated values.
LEMMA MutatorKeeps ==
  ASSUME IInv, phase = "run", UNCHANGED <<kids, collector>>,
         vstack' \in Seq(Addr), frames' \in Seq(Addr),
         Roots' \cup locals' \subseteq Allocated
  PROVE  IInv'
<1> USE DEF IInv
<1>1. UNCHANGED <<vals, kids, marked, last_count, phase, todo, p>>
  BY DEF collector
<1>2. Allocated' = Allocated
  BY <1>1 DEF Allocated
<1>3. Allocated \subseteq Addr
  BY DEF TypeOK, Allocated, ToSet
<1>4. TypeOK'
  BY <1>1, <1>3 DEF TypeOK
<1>5. NoDuplicates'
  BY <1>1 DEF NoDuplicates
<1>6. HeapClosed'
  BY <1>1, <1>2 DEF HeapClosed, Closed
<1>7. FreeIsEmpty' /\ MarkedAllocated'
  BY <1>1, <1>2 DEF FreeIsEmpty, MarkedAllocated
<1>8. NoLocals' /\ Marking' /\ Marked' /\ Swept'
  BY <1>1 DEF NoLocals, Marking, Marked, Swept
<1>9. QED BY <1>4, <1>5, <1>6, <1>7, <1>8

\* What an operation can hold on to is allocated.
LEMMA HeldAllocated ==
  ASSUME IInv, phase = "run"
  PROVE  /\ ToSet(vstack) \subseteq Allocated
         /\ ToSet(frames) \subseteq Allocated
         /\ Pinned \subseteq Allocated
         /\ locals \subseteq Allocated
         /\ Containers \subseteq Allocated
         /\ \A o \in Containers : kids[o] \subseteq Allocated
         /\ Allocated \subseteq Addr
<1>1. Roots \cup locals \subseteq Allocated /\ Closed(kids, Allocated)
  BY DEF IInv, HeapClosed
<1>2. frames # <<>> => Last(frames) \in ToSet(frames)
  BY StackElements DEF IInv, TypeOK
<1>3. Containers \subseteq Allocated
  BY <1>1, <1>2 DEF Containers, Roots
<1>4. Allocated \subseteq Addr
  BY DEF IInv, TypeOK, Allocated, ToSet
<1>5. QED BY <1>1, <1>3, <1>4 DEF Roots, Closed

LEMMA StackStepsKeep ==
  IInv /\ (Push \/ Peek \/ Pop \/ EnterFrame \/ LeaveFrame \/ Load) => IInv'
<1> SUFFICES ASSUME IInv, Push \/ Peek \/ Pop \/ EnterFrame \/ LeaveFrame \/ Load
             PROVE  IInv'
  OBVIOUS
<1>0. /\ phase = "run"
      /\ UNCHANGED <<kids, collector>>
  BY DEF Push, Peek, Pop, EnterFrame, LeaveFrame, Load
<1>1. /\ ToSet(vstack) \subseteq Allocated
      /\ ToSet(frames) \subseteq Allocated
      /\ Pinned \subseteq Allocated
      /\ locals \subseteq Allocated
      /\ \A o \in Containers : kids[o] \subseteq Allocated
      /\ Allocated \subseteq Addr
  BY <1>0, HeldAllocated
<1>2. vstack \in Seq(Addr) /\ frames \in Seq(Addr)
  BY DEF IInv, TypeOK
<1>3. CASE Push
  <2>1. PICK v \in locals : vstack' = Append(vstack, v) /\ UNCHANGED <<frames, locals>>
    BY <1>3 DEF Push
  <2>2. vstack' \in Seq(Addr) /\ ToSet(vstack') = ToSet(vstack) \cup {v}
    BY <1>1, <1>2, <2>1, StackElements
  <2>3. Roots' \cup locals' \subseteq Allocated
    BY <1>1, <2>1, <2>2 DEF Roots
  <2>4. QED BY <1>0, <1>2, <2>1, <2>2, <2>3, MutatorKeeps
<1>4. CASE Peek
  <2>1. vstack # <<>> /\ locals' = locals \cup {Last(vstack)} /\ UNCHANGED <<vstack, frames>>
    BY <1>4 DEF Peek, Hold
  <2>2. Last(vstack) \in ToSet(vstack)
    BY <1>2, <2>1, StackElements
  <2>3. Roots' \cup locals' \subseteq Allocated
    BY <1>1, <2>1, <2>2 DEF Roots
  <2>4. QED BY <1>0, <1>2, <2>1, <2>3, MutatorKeeps
<1>5. CASE Pop
  <2>1. /\ vstack # <<>> /\ locals' = locals \cup {Last(vstack)}
        /\ vstack' = Front(vstack) /\ UNCHANGED frames
    BY <1>5 DEF Pop, Hold
  <2>2. /\ Last(vstack) \in ToSet(vstack)
        /\ vstack' \in Seq(Addr) /\ ToSet(vstack') \subseteq ToSet(vstack)
    BY <1>2, <2>1, StackElements
  <2>3. Roots' \cup locals' \subseteq Allocated
    BY <1>1, <2>1, <2>2 DEF Roots
  <2>4. QED BY <1>0, <1>2, <2>1, <2>2, <2>3, MutatorKeeps
<1>6. CASE EnterFrame
  <2>1. PICK v \in locals : frames' = Append(frames, v) /\ UNCHANGED <<vstack, locals>>
    BY <1>6 DEF EnterFrame
  <2>2. frames' \in Seq(Addr) /\ ToSet(frames') = ToSet(frames) \cup {v}
    BY <1>1, <1>2, <2>1, StackElements
  <2>3. Roots' \cup locals' \subseteq Allocated
    BY <1>1, <2>1, <2>2 DEF Roots
  <2>4. QED BY <1>0, <1>2, <2>1, <2>2, <2>3, MutatorKeeps
<1>7. CASE LeaveFrame
  <2>1. /\ frames # <<>> /\ locals' = locals \cup {Last(frames)}
        /\ frames' = Front(frames) /\ UNCHANGED vstack
    BY <1>7 DEF LeaveFrame, Hold
  <2>2. /\ Last(frames) \in ToSet(frames)
        /\ frames' \in Seq(Addr) /\ ToSet(frames') \subseteq ToSet(frames)
    BY <1>2, <2>1, StackElements
  <2>3. Roots' \cup locals' \subseteq Allocated
    BY <1>1, <2>1, <2>2 DEF Roots
  <2>4. QED BY <1>0, <1>2, <2>1, <2>2, <2>3, MutatorKeeps
<1>8. CASE Load
  <2>1. PICK o \in Containers : \E k \in kids[o] :
          locals' = locals \cup {k} /\ UNCHANGED <<vstack, frames>>
    BY <1>8 DEF Load, Hold
  <2>2. PICK k \in kids[o] : locals' = locals \cup {k} /\ UNCHANGED <<vstack, frames>>
    BY <2>1
  <2>3. Roots' \cup locals' \subseteq Allocated
    BY <1>1, <2>2 DEF Roots
  <2>4. QED BY <1>0, <1>2, <2>2, <2>3, MutatorKeeps
<1>9. QED BY <1>3, <1>4, <1>5, <1>6, <1>7, <1>8

LEMMA StoreKeeps == IInv /\ Store => IInv'
<1> SUFFICES ASSUME IInv, Store PROVE IInv'
  OBVIOUS
<1>1. phase = "run" /\ UNCHANGED <<mutator, collector>>
  BY DEF Store
<1>2. PICK o \in Containers, v \in locals :
        \E lost \in {{}} \cup {{k} : k \in kids[o]} :
          kids' = [kids EXCEPT ![o] = (@ \ lost) \cup {v}]
  BY DEF Store
<1>3. /\ o \in Allocated /\ v \in Allocated /\ Allocated \subseteq Addr
      /\ kids \in Graph
  BY <1>1, HeldAllocated DEF IInv, TypeOK
<1>4. /\ kids' \in Graph
      /\ \A x \in Addr : x # o => kids'[x] = kids[x]
      /\ kids'[o] \subseteq kids[o] \cup {v}
  BY <1>2, <1>3 DEF Graph
<1>5. UNCHANGED <<vals, marked, last_count, vstack, frames, locals, phase, todo, p>>
  BY <1>1 DEF mutator, collector
<1>6. Allocated' = Allocated /\ Roots' = Roots
  BY <1>5 DEF Allocated, Roots
<1>7. TypeOK'
  BY <1>4, <1>5 DEF IInv, TypeOK
<1>8. HeapClosed'
  BY <1>3, <1>4, <1>5, <1>6 DEF IInv, HeapClosed, Closed
<1>9. FreeIsEmpty' /\ MarkedAllocated' /\ NoDuplicates'
  BY <1>3, <1>4, <1>5, <1>6 DEF IInv, FreeIsEmpty, MarkedAllocated, NoDuplicates
<1>10. NoLocals' /\ Marking' /\ Marked' /\ Swept'
  BY <1>1, <1>5 DEF IInv, NoLocals, Marking, Marked, Swept
<1>11. QED BY <1>7, <1>8, <1>9, <1>10 DEF IInv

LEMMA EndStepKeeps == IInv /\ EndStep => IInv'
<1> SUFFICES ASSUME IInv, EndStep PROVE IInv'
  OBVIOUS
<1> USE DEF IInv
<1>1. /\ phase = "run" /\ locals' = {}
      /\ UNCHANGED <<vals, kids, last_count, vstack, frames, p>>
      /\ \/ UNCHANGED <<phase, marked, todo>>
         \/ phase' = "mark" /\ marked' = {} /\ todo' = Roots
  BY DEF EndStep
<1>2. Allocated' = Allocated /\ Roots' = Roots
  BY <1>1 DEF Allocated, Roots
<1>3. Roots \subseteq Allocated /\ Allocated \subseteq Addr
  BY <1>1, HeldAllocated DEF HeapClosed
<1>4. TypeOK'
  BY <1>1, <1>3 DEF TypeOK
<1>5. NoDuplicates' /\ FreeIsEmpty' /\ MarkedAllocated' /\ NoLocals'
  BY <1>1, <1>2 DEF NoDuplicates, FreeIsEmpty, MarkedAllocated, NoLocals
<1>6. HeapClosed'
  BY <1>1, <1>2 DEF HeapClosed, Closed
<1>7. Roots \subseteq Reach(kids, Roots)
  BY <1>3, ReachKeeps DEF TypeOK
<1>8. Marking' /\ Marked' /\ Swept'
  BY <1>1, <1>2, <1>7 DEF Marking, Marked, Swept
<1>9. QED BY <1>4, <1>5, <1>6, <1>8

\* The steps of the collector keep it too.
LEMMA MarkKeeps == IInv /\ Mark => IInv'
<1> SUFFICES ASSUME IInv, Mark PROVE IInv'
  OBVIOUS
<1> USE DEF IInv
<1>1. PICK v \in todo :
        \/ v \in marked /\ todo' = todo \ {v} /\ marked' = marked
        \/ marked' = marked \cup {v} /\ todo' = (todo \ {v}) \cup kids[v]
  BY DEF Mark
<1>2. phase = "mark" /\ UNCHANGED <<vals, kids, last_count, vstack, frames, locals, phase, p>>
  BY DEF Mark, mutator
<1>3. Allocated' = Allocated /\ Roots' = Roots
  BY <1>2 DEF Allocated, Roots
<1>4. Allocated \subseteq Addr /\ Roots \subseteq Allocated /\ Closed(kids, Allocated)
  BY <1>2 DEF HeapClosed, TypeOK, Allocated, ToSet
<1>5. /\ \A x \in Reach(kids, Roots) : kids[x] \subseteq Reach(kids, Roots)
      /\ Reach(kids, Roots) \subseteq Allocated
  BY <1>4, ReachKeeps, ReachLeast DEF TypeOK
<1>6. v \in Reach(kids, Roots)
  BY <1>2 DEF Marking
<1>7. v \in Allocated /\ kids[v] \subseteq Allocated
  BY <1>5, <1>6
<1>8. TypeOK' /\ MarkedAllocated'
  BY <1>1, <1>2, <1>3, <1>4, <1>7 DEF TypeOK, MarkedAllocated
<1>9. NoDuplicates' /\ FreeIsEmpty' /\ NoLocals' /\ HeapClosed'
  BY <1>2, <1>3 DEF NoDuplicates, FreeIsEmpty, NoLocals, HeapClosed, Closed
<1>10. Marking'
  <2>1. marked' \cup todo' \subseteq Reach(kids, Roots)
    BY <1>1, <1>2, <1>5, <1>6 DEF Marking
  <2>2. Roots \subseteq marked' \cup todo'
    BY <1>1, <1>2 DEF Marking
  <2>3. \A x \in marked' : kids[x] \subseteq marked' \cup todo'
    BY <1>1, <1>2 DEF Marking
  <2>4. QED BY <1>2, <1>3, <2>1, <2>2, <2>3 DEF Marking
<1>11. Marked' /\ Swept'
  BY <1>2 DEF Marked, Swept
<1>12. QED BY <1>8, <1>9, <1>10, <1>11

LEMMA MarkDoneKeeps == IInv /\ MarkDone => IInv'
<1> SUFFICES ASSUME IInv, MarkDone PROVE IInv'
  OBVIOUS
<1> USE DEF IInv
<1>1. /\ phase = "mark" /\ todo = {} /\ phase' = "sweep_head"
      /\ UNCHANGED <<vals, kids, marked, last_count, vstack, frames, locals, todo, p>>
  BY DEF MarkDone, mutator
<1>2. Allocated' = Allocated /\ Roots' = Roots
  BY <1>1 DEF Allocated, Roots
<1>3. Roots \subseteq Addr /\ kids \in Graph /\ marked \subseteq Addr
  BY <1>1 DEF HeapClosed, TypeOK, Allocated, ToSet
<1>4. Roots \subseteq marked /\ Closed(kids, marked) /\ marked \subseteq Reach(kids, Roots)
  BY <1>1 DEF Marking, Closed
<1>5. marked = Reach(kids, Roots)
  BY <1>3, <1>4, ReachLeast
<1>6. Marked'
  BY <1>1, <1>2, <1>5 DEF Marked
<1>7. TypeOK' /\ NoDuplicates' /\ FreeIsEmpty' /\ MarkedAllocated' /\ NoLocals'
  BY <1>1, <1>2 DEF TypeOK, NoDuplicates, FreeIsEmpty, MarkedAllocated, NoLocals
<1>8. HeapClosed' /\ Marking' /\ Swept'
  BY <1>1 DEF HeapClosed, Marking, Swept
<1>9. QED BY <1>6, <1>7, <1>8

\* Freeing the value at position n of the list while sweeping.
LEMMA FreeKeeps ==
  ASSUME IInv, phase \in {"sweep_head", "sweep"}, NEW n \in 1..Len(vals),
         vals[n] \notin marked, phase = "sweep" => p < n,
         vals' = RemoveAt(vals, n),
         kids' = [kids EXCEPT ![vals[n]] = {}],
         UNCHANGED <<marked, last_count, mutator, phase, todo, p>>
  PROVE  IInv'
<1> DEFINE x == vals[n]
<1>0. x \notin marked
  OBVIOUS
<1>1. vals \in Seq(Addr) /\ x \in Addr /\ kids \in Graph /\ p \in Nat
  BY DEF IInv, TypeOK
<1>2. /\ vals' \in Seq(Addr) /\ Len(vals') = Len(vals) - 1
      /\ Allocated' = Allocated \ {x}
      /\ Distinct(vals')
      /\ \A j \in 1..Len(vals) - 1 : j < n => vals'[j] = vals[j]
  <2>1. Distinct(vals)
    BY DEF IInv, NoDuplicates
  <2>2. /\ RemoveAt(vals, n) \in Seq(Addr)
        /\ Len(RemoveAt(vals, n)) = Len(vals) - 1
        /\ ToSet(RemoveAt(vals, n)) = ToSet(vals) \ {vals[n]}
        /\ Distinct(RemoveAt(vals, n))
        /\ \A j \in 1..Len(vals) - 1 : j < n => RemoveAt(vals, n)[j] = vals[j]
    BY <1>1, <2>1, Unlink
  <2>3. QED BY <2>2 DEF Allocated
<1>3. UNCHANGED <<marked, last_count, vstack, frames, locals, phase, todo, p>>
  BY DEF mutator
<1>4. /\ kids' \in Graph /\ kids'[x] = {}
      /\ \A y \in Addr : y # x => kids'[y] = kids[y]
  BY <1>1 DEF Graph
<1> HIDE DEF x
<1>5. TypeOK'
  BY <1>2, <1>3, <1>4 DEF IInv, TypeOK
<1>6. NoDuplicates'
  BY <1>2 DEF NoDuplicates
<1>7. FreeIsEmpty'
  BY <1>2, <1>4 DEF IInv, FreeIsEmpty
<1>8. MarkedAllocated'
  BY <1>0, <1>2, <1>3 DEF IInv, MarkedAllocated
<1>9. Marked'
  <2>1. Roots' = Roots
    BY <1>3 DEF Roots
  <2>2. Roots \in SUBSET Addr
    <3>1. Pinned \subseteq Addr
      BY GcAssumption
    <3>2. ToSet(vstack) \subseteq Addr /\ ToSet(frames) \subseteq Addr
      BY StackElements DEF IInv, TypeOK
    <3>3. QED BY <3>1, <3>2 DEF Roots
  <2>3. x \notin Reach(kids, Roots)
    BY <1>0 DEF IInv, Marked
  <2>4. Reach(kids', Roots) = Reach(kids, Roots)
    BY <1>1, <2>2, <2>3, ReachClear DEF x
  <2>5. QED BY <1>3, <2>1, <2>4 DEF IInv, Marked
<1>10. Swept'
  <2>1. SUFFICES ASSUME phase = "sweep", NEW i \in 1..Len(vals'), i <= p
                 PROVE  vals'[i] \in marked
    BY <1>3 DEF Swept
  <2>2. i < n /\ i \in 1..Len(vals) - 1 /\ i \in 1..Len(vals)
    BY <1>1, <1>2, <2>1
  <2>3. vals'[i] = vals[i]
    BY <1>2, <2>2
  <2>4. QED BY <2>1, <2>2, <2>3 DEF IInv, Swept
<1>11. HeapClosed' /\ NoLocals' /\ Marking'
  BY <1>3 DEF IInv, HeapClosed, NoLocals, Marking
<1>12. QED BY <1>5, <1>6, <1>7, <1>8, <1>9, <1>10, <1>11 DEF IInv

LEMMA SweepHeadKeeps == IInv /\ SweepHead => IInv'
<1> SUFFICES ASSUME IInv, SweepHead PROVE IInv'
  OBVIOUS
<1>1. vals \in Seq(Addr) /\ vals # <<>>
  BY DEF IInv, TypeOK, SweepHead
<1>2. 1 \in 1..Len(vals)
  BY <1>1
<1>3. QED BY <1>2, FreeKeeps DEF SweepHead

LEMMA SweepHeadDoneKeeps == IInv /\ SweepHeadDone => IInv'
<1> SUFFICES ASSUME IInv, SweepHeadDone PROVE IInv'
  OBVIOUS
<1> USE DEF IInv
<1>1. /\ phase = "sweep_head" /\ phase' = "sweep" /\ p' = 1
      /\ vals # <<>> => vals[1] \in marked
      /\ UNCHANGED <<vals, kids, marked, last_count, vstack, frames, locals, todo>>
  BY DEF SweepHeadDone, mutator
<1>2. Allocated' = Allocated /\ Roots' = Roots
  BY <1>1 DEF Allocated, Roots
<1>3. TypeOK' /\ NoDuplicates' /\ FreeIsEmpty' /\ MarkedAllocated' /\ NoLocals' /\ Marked'
  BY <1>1, <1>2 DEF TypeOK, NoDuplicates, FreeIsEmpty, MarkedAllocated, NoLocals, Marked
<1>4. Swept'
  BY <1>1 DEF Swept, TypeOK
<1>5. HeapClosed' /\ Marking'
  BY <1>1 DEF HeapClosed, Marking
<1>6. QED BY <1>3, <1>4, <1>5

LEMMA SweepKeeps == IInv /\ Sweep => IInv'
<1> SUFFICES ASSUME IInv, Sweep PROVE IInv'
  OBVIOUS
<1>1. vals \in Seq(Addr) /\ p \in Nat /\ phase = "sweep" /\ p < Len(vals)
  BY DEF IInv, TypeOK, Sweep
<1>2. p + 1 \in 1..Len(vals) /\ p < p + 1
  BY <1>1
<1>3. CASE vals[p + 1] \notin marked
  <2>1. /\ vals' = RemoveAt(vals, p + 1)
        /\ kids' = [kids EXCEPT ![vals[p + 1]] = {}]
        /\ UNCHANGED <<marked, last_count, mutator, phase, todo, p>>
    BY <1>3 DEF Sweep
  <2>2. QED BY <1>1, <1>2, <1>3, <2>1, FreeKeeps
<1>4. CASE vals[p + 1] \in marked
  <2>1. /\ p' = p + 1
        /\ UNCHANGED <<vals, kids, marked, last_count, vstack, frames, locals, phase, todo>>
    BY <1>4 DEF Sweep, mutator
  <2>2. Allocated' = Allocated /\ Roots' = Roots
    BY <2>1 DEF Allocated, Roots
  <2>3. TypeOK' /\ NoDuplicates' /\ FreeIsEmpty' /\ MarkedAllocated' /\ NoLocals' /\ Marked'
    BY <2>1, <2>2
    DEF IInv, TypeOK, NoDuplicates, FreeIsEmpty, MarkedAllocated, NoLocals, Marked
  <2>4. Swept'
    BY <1>1, <1>4, <2>1 DEF IInv, Swept
  <2>5. HeapClosed' /\ Marking'
    BY <1>1, <2>1 DEF HeapClosed, Marking
  <2>6. QED BY <2>3, <2>4, <2>5 DEF IInv
<1>5. QED BY <1>3, <1>4

\* When the sweep ends every value left is marked: the list is exactly what
\* the roots reach.
LEMMA SweepDoneExact ==
  ASSUME IInv, SweepDone
  PROVE  Allocated = Reach(kids, Roots)
<1>1. /\ phase = "sweep" /\ p >= Len(vals) /\ p \in Nat /\ vals \in Seq(Addr)
      /\ marked = Reach(kids, Roots) /\ marked \subseteq Allocated
  BY DEF IInv, TypeOK, SweepDone, Marked, MarkedAllocated
<1>2. \A i \in 1..Len(vals) : i <= p => vals[i] \in marked
  BY <1>1 DEF IInv, Swept
<1>3. \A i \in 1..Len(vals) : vals[i] \in marked
  BY <1>1, <1>2
<1>4. Allocated \subseteq marked
  BY <1>1, <1>3 DEF Allocated, ToSet
<1>5. QED BY <1>1, <1>4

LEMMA RootsInAddr == IInv => Roots \subseteq Addr
BY StackElements, GcAssumption DEF IInv, TypeOK, Roots

LEMMA SweepDoneKeeps == IInv /\ SweepDone => IInv'
<1> SUFFICES ASSUME IInv, SweepDone PROVE IInv'
  OBVIOUS
<1> USE DEF IInv
<1>1. /\ phase = "sweep" /\ phase' = "run" /\ p' = 0 /\ last_count' = Len(vals)
      /\ UNCHANGED <<vals, kids, marked, vstack, frames, locals, todo>>
  BY DEF SweepDone, mutator
<1>2. Allocated' = Allocated /\ Roots' = Roots
  BY <1>1 DEF Allocated, Roots
<1>3. TypeOK' /\ NoDuplicates' /\ FreeIsEmpty' /\ MarkedAllocated'
  BY <1>1, <1>2 DEF TypeOK, NoDuplicates, FreeIsEmpty, MarkedAllocated
<1>4. Allocated = Reach(kids, Roots)
  BY SweepDoneExact
<1>5. HeapClosed'
  <2>1. Roots \subseteq Allocated /\ Closed(kids, Allocated)
    BY <1>4, RootsInAddr, ReachKeeps DEF Closed, TypeOK
  <2>2. locals = {}
    BY <1>1 DEF NoLocals
  <2>3. QED BY <1>1, <1>2, <2>1, <2>2 DEF HeapClosed, Closed
<1>6. NoLocals' /\ Marking' /\ Marked' /\ Swept'
  BY <1>1 DEF NoLocals, Marking, Marked, Swept
<1>7. QED BY <1>3, <1>5, <1>6

LEMMA GcNext == IInv /\ [Next]_vars => IInv'
<1> SUFFICES ASSUME IInv, [Next]_vars PROVE IInv'
  OBVIOUS
<1>1. CASE New
  BY <1>1, NewKeeps
<1>2. CASE Push \/ Peek \/ Pop \/ EnterFrame \/ LeaveFrame \/ Load
  BY <1>2, StackStepsKeep
<1>3. CASE Store
  BY <1>3, StoreKeeps
<1>4. CASE EndStep
  BY <1>4, EndStepKeeps
<1>5. CASE Collect
  BY <1>5, MarkKeeps, MarkDoneKeeps, SweepHeadKeeps, SweepHeadDoneKeeps, SweepKeeps,
     SweepDoneKeeps DEF Collect
<1>6. CASE UNCHANGED vars
  BY <1>6 DEF vars, IInv, TypeOK, NoDuplicates, HeapClosed, FreeIsEmpty, MarkedAllocated,
     NoLocals, Marking, Marked, Swept, Allocated, Roots, Closed
<1>7. QED BY <1>1, <1>2, <1>3, <1>4, <1>5, <1>6 DEF Next

---------------------------------------------------------------------------
(* The theorems. *)

\* The inductive invariant holds in every state, the variables' types included.
THEOREM GcInvariant == Spec => []IInv
BY GcInit, GcNext, PTL DEF Spec

\* No value the program can still name is ever freed, whatever the operations
\* do between two collections.
THEOREM NothingDangles == Spec => []NoDangling
<1>1. IInv => NoDangling
  <2>1. SUFFICES ASSUME IInv PROVE Live \subseteq Allocated
    BY DEF NoDangling
  <2>2. kids \in Graph /\ Roots \cup locals \in SUBSET Addr /\ Allocated \in SUBSET Addr
    BY <2>1, RootsInAddr DEF IInv, TypeOK, Allocated, ToSet
  <2>3. CASE phase \in {"run", "mark"}
    <3>1. Roots \cup locals \subseteq Allocated /\ Closed(kids, Allocated)
      BY <2>1, <2>3 DEF IInv, HeapClosed
    <3>2. QED BY <2>2, <3>1, ReachLeast DEF Live
  <2>4. CASE phase \in {"sweep_head", "sweep"}
    <3>1. locals = {} /\ marked = Reach(kids, Roots) /\ marked \subseteq Allocated
      BY <2>1, <2>4 DEF IInv, NoLocals, Marked, MarkedAllocated
    <3>2. Roots \cup locals = Roots
      BY <3>1
    <3>3. QED BY <3>1, <3>2 DEF Live
  <2>5. QED BY <2>1, <2>3, <2>4 DEF IInv, TypeOK
<1>2. QED BY <1>1, GcInvariant, PTL

\* What a collection leaves on the list is exactly what the roots reach.
THEOREM CollectionsAreExact == Spec => CollectionIsExact
<1> DEFINE Exact == phase = "sweep" /\ phase' = "run" => Allocated' = Reach(kids', Roots')
<1>1. IInv /\ [Next]_vars => [Exact]_vars
  <2>1. SUFFICES ASSUME IInv, Next, phase = "sweep", phase' = "run"
                 PROVE  Allocated' = Reach(kids', Roots')
    OBVIOUS
  <2>2. SweepDone
    BY <2>1 DEF Next, New, Push, Peek, Pop, EnterFrame, LeaveFrame, Load, Store, EndStep,
       Collect, Mark, MarkDone, SweepHead, SweepHeadDone, Sweep
  <2>3. Allocated = Reach(kids, Roots)
    BY <2>1, <2>2, SweepDoneExact
  <2>4. UNCHANGED <<vals, kids, vstack, frames>>
    BY <2>2 DEF SweepDone, mutator
  <2>5. QED BY <2>3, <2>4 DEF Allocated, Roots
<1>2. QED BY <1>1, GcInvariant, PTL DEF Spec, CollectionIsExact

\* No operation starts on a heap that has grown by GC_THRESHOLD values since
\* the last collection.
THEOREM HeapIsBounded == Spec => HeapBounded
<1> DEFINE Returns == phase' = "run" /\ (phase # "run" \/ (locals # {} /\ locals' = {}))
           Small == Len(vals') - last_count' < GC_THRESHOLD
<1>1. IInv /\ [Next]_vars => [Returns => Small]_vars
  <2>1. SUFFICES ASSUME IInv, Next, Returns
                 PROVE  Small
    OBVIOUS
  <2>2. CASE EndStep
    BY <2>1, <2>2 DEF EndStep
  <2>3. CASE SweepDone
    <3>1. last_count' = Len(vals') /\ Len(vals') \in Nat
      BY <2>1, <2>3 DEF SweepDone, IInv, TypeOK
    <3>2. GC_THRESHOLD \in Nat \ {0}
      BY GcAssumption
    <3>3. QED BY <3>1, <3>2
  <2>4. CASE ~EndStep /\ ~SweepDone
    BY <2>1, <2>4 DEF Next, New, Push, Peek, Pop, EnterFrame, LeaveFrame, Load, Store, Hold,
       mutator, Collect, Mark, MarkDone, SweepHead, SweepHeadDone, Sweep
  <2>5. QED BY <2>2, <2>3, <2>4
<1>2. QED BY <1>1, GcInvariant, PTL DEF Spec, HeapBounded

---------------------------------------------------------------------------
(* The collector implements a heap in which nothing is ever freed, module  *)
(* Heap, the graph a program sees being what its roots and locals reach.   *)
(* What can be reached, and the graph it forms:                            *)

\* Graphs that agree on a closed set that holds the roots reach the same and
\* look the same from the roots.
LEMMA SeenAlike ==
  ASSUME NEW k1 \in Graph, NEW k2 \in Graph, NEW S \in SUBSET Addr, NEW R \in SUBSET S,
         Closed(k1, S), \A x \in S : k1[x] = k2[x]
  PROVE  /\ Reach(k1, R) = Reach(k2, R)
         /\ Visible(k1, R) = Visible(k2, R)
<1>1. R \in SUBSET Addr /\ Closed(k2, S)
  BY DEF Closed
<1>2. /\ R \subseteq Reach(k1, R) /\ Reach(k1, R) \in SUBSET Addr /\ Closed(k1, Reach(k1, R))
      /\ R \subseteq Reach(k2, R) /\ Reach(k2, R) \in SUBSET Addr /\ Closed(k2, Reach(k2, R))
  BY <1>1, ReachKeeps DEF Closed
<1>3. Reach(k1, R) \subseteq S /\ Reach(k2, R) \subseteq S
  BY <1>1, ReachLeast
<1>4. Closed(k2, Reach(k1, R)) /\ Closed(k1, Reach(k2, R))
  BY <1>2, <1>3 DEF Closed
<1>5. Reach(k1, R) = Reach(k2, R)
  <2>1. Reach(k1, R) \subseteq Reach(k2, R)
    BY <1>1, <1>2, <1>4, ReachLeast
  <2>2. Reach(k2, R) \subseteq Reach(k1, R)
    BY <1>1, <1>2, <1>4, ReachLeast
  <2>3. QED BY <2>1, <2>2
<1>6. Visible(k1, R) = Visible(k2, R)
  BY <1>3, <1>5 DEF Visible
<1>7. QED BY <1>5, <1>6

\* The visible part of a graph is a graph; from the roots it looks like the
\* whole, and it agrees with it on what they reach.
LEMMA VisiblePart ==
  ASSUME NEW kd \in Graph, NEW R \in SUBSET Addr
  PROVE  /\ Visible(kd, R) \in Graph
         /\ Reach(Visible(kd, R), R) = Reach(kd, R)
         /\ \A x \in Reach(kd, R) : Visible(kd, R)[x] = kd[x]
         /\ \A Q \in SUBSET Reach(kd, R) : Visible(Visible(kd, R), Q) = Visible(kd, Q)
<1> DEFINE vk == Visible(kd, R)
           seen == Reach(kd, R)
<1>1. R \subseteq seen /\ seen \in SUBSET Addr /\ Closed(kd, seen)
  BY ReachKeeps DEF Closed
<1>2. vk \in Graph /\ \A x \in seen : vk[x] = kd[x]
  BY <1>1 DEF Graph, Visible
<1> HIDE DEF vk, seen
<1>3. \A Q \in SUBSET seen : Reach(kd, Q) = Reach(vk, Q) /\ Visible(kd, Q) = Visible(vk, Q)
  BY <1>1, <1>2, SeenAlike
<1>4. QED BY <1>1, <1>2, <1>3 DEF vk, seen

\* Holding on to more of what can be reached shows nothing new.
LEMMA ReachMore ==
  ASSUME NEW kd \in Graph, NEW R \in SUBSET Addr, NEW v \in Reach(kd, R)
  PROVE  Visible(kd, R \cup {v}) = Visible(kd, R)
<1> DEFINE Q == R \cup {v}
<1>1. R \subseteq Reach(kd, R) /\ Reach(kd, R) \in SUBSET Addr /\ Closed(kd, Reach(kd, R))
  BY ReachKeeps DEF Closed
<1>2. Q \in SUBSET Addr /\ R \subseteq Q /\ Q \subseteq Reach(kd, R)
  BY <1>1
<1> HIDE DEF Q
<1>3. Q \subseteq Reach(kd, Q) /\ Reach(kd, Q) \in SUBSET Addr /\ Closed(kd, Reach(kd, Q))
  BY <1>2, ReachKeeps DEF Closed
<1>4. Reach(kd, Q) = Reach(kd, R)
  <2>1. Reach(kd, Q) \subseteq Reach(kd, R)
    BY <1>1, <1>2, ReachLeast
  <2>2. Reach(kd, R) \subseteq Reach(kd, Q)
    BY <1>2, <1>3, ReachLeast
  <2>3. QED BY <2>1, <2>2
<1>5. QED BY <1>4 DEF Visible, Q

\* Nor does holding on to a value that refers to nothing.
LEMMA ReachEmpty ==
  ASSUME NEW kd \in Graph, NEW R \in SUBSET Addr, NEW a \in Addr, kd[a] = {}
  PROVE  Visible(kd, R \cup {a}) = Visible(kd, R)
<1> DEFINE Q == R \cup {a}
<1>1. R \subseteq Reach(kd, R) /\ Reach(kd, R) \in SUBSET Addr /\ Closed(kd, Reach(kd, R))
  BY ReachKeeps DEF Closed
<1>2. Q \in SUBSET Addr /\ R \subseteq Q
  OBVIOUS
<1>3. Closed(kd, Reach(kd, R) \cup {a}) /\ Q \subseteq Reach(kd, R) \cup {a}
  BY <1>1 DEF Closed
<1> HIDE DEF Q
<1>4. Q \subseteq Reach(kd, Q) /\ Reach(kd, Q) \in SUBSET Addr /\ Closed(kd, Reach(kd, Q))
  BY <1>2, ReachKeeps DEF Closed
<1>5. Reach(kd, R) \subseteq Reach(kd, Q)
  BY <1>2, <1>4, ReachLeast
<1>6. Reach(kd, Q) \subseteq Reach(kd, R) \cup {a}
  BY <1>1, <1>2, <1>3, ReachLeast
<1>7. \A x \in Addr : (IF x \in Reach(kd, Q) THEN kd[x] ELSE {})
                       = (IF x \in Reach(kd, R) THEN kd[x] ELSE {})
  BY <1>5, <1>6
<1>8. QED BY <1>7 DEF Visible, Q

\* The operators of Heap are those of Gc.
LEMMA SameOperators ==
  /\ \A kd, R : H!Reach(kd, R) = Reach(kd, R) /\ H!Visible(kd, R) = Visible(kd, R)
  /\ H!Roots = Roots
  /\ H!Containers = Containers
<1>1. \A kd, R : H!Reach(kd, R) = Reach(kd, R)
  BY DEF H!Reach, Reach, H!Keepable, Keepable, H!Closed, Closed
<1>2. \A kd, R : H!Visible(kd, R) = Visible(kd, R)
  BY <1>1 DEF H!Visible, Visible
<1>3. H!Roots = Roots
  BY DEF H!Roots, Roots, H!ToSet, ToSet
<1>4. H!Containers = Containers
  BY DEF H!Containers, Containers, H!Last, Last
<1>5. QED BY <1>1, <1>2, <1>3, <1>4

\* What the program sees in a state of Gc.
Held == Roots \cup locals
Seen == Visible(kids, Held)

\* While the interpreter runs, what it holds and the graph have their types,
\* containers can be reached and so can what they refer to.
LEMMA Within ==
  ASSUME IInv
  PROVE  /\ kids \in Graph /\ vstack \in Seq(Addr) /\ frames \in Seq(Addr)
         /\ Held \in SUBSET Addr
         /\ Held \subseteq Reach(kids, Held)
         /\ Reach(kids, Held) \in SUBSET Addr
         /\ Closed(kids, Reach(kids, Held))
         /\ Containers \subseteq Held
         /\ \A o \in Containers : Seen[o] = kids[o] /\ kids[o] \subseteq Reach(kids, Held)
<1>1. kids \in Graph /\ vstack \in Seq(Addr) /\ frames \in Seq(Addr) /\ locals \subseteq Addr
  BY DEF IInv, TypeOK
<1>2. Held \in SUBSET Addr
  BY <1>1, RootsInAddr DEF Held
<1>3. /\ Held \subseteq Reach(kids, Held) /\ Reach(kids, Held) \in SUBSET Addr
      /\ Closed(kids, Reach(kids, Held))
  BY <1>1, <1>2, ReachKeeps DEF Closed
<1>4. frames # <<>> => Last(frames) \in ToSet(frames)
  BY <1>1, StackElements
<1>5. Containers \subseteq Held
  BY <1>4 DEF Containers, Held, Roots
<1>6. \A x \in Reach(kids, Held) : Seen[x] = kids[x]
  BY <1>1, <1>2, VisiblePart DEF Seen
<1>7. QED BY <1>1, <1>2, <1>3, <1>5, <1>6 DEF Closed

---------------------------------------------------------------------------
(* Every step of Gc is a step of Heap, or none. *)

LEMMA HeapInit == Init => H!Init
<1> SUFFICES ASSUME Init PROVE H!Init
  OBVIOUS
<1>1. kids \in Graph /\ Held \in SUBSET Addr /\ Base \in Held
  <2>1. ToSet(<<>>) = {} /\ ToSet(<<Base>>) = {Base}
    BY DEF ToSet
  <2>2. QED BY <2>1, GcAssumption DEF Init, Graph, Held, Roots
<1>2. Base \in Reach(kids, Held)
  BY <1>1, ReachKeeps
<1>3. Visible(kids, Held) = kids
  BY <1>2 DEF Visible, Init
<1>4. QED BY <1>3 DEF H!Init, Init, Held

LEMMA NewMaps == IInv /\ New => H!New
<1> SUFFICES ASSUME IInv, New PROVE H!New
  OBVIOUS
<1>1. PICK a \in Addr \ Allocated :
        /\ phase = "run"
        /\ locals' = locals \cup {a}
        /\ UNCHANGED <<kids, vstack, frames>>
  BY DEF New, Hold
<1>2. kids \in Graph /\ Held \in SUBSET Addr /\ kids[a] = {}
  BY Within DEF IInv, FreeIsEmpty
<1>3. Held' = Held \cup {a}
  BY <1>1 DEF Held, Roots
<1>4. Seen' = Seen
  BY <1>1, <1>2, <1>3, ReachEmpty DEF Seen
<1>5. a \notin Reach(kids, Held)
  <2>1. Held \subseteq Allocated /\ Closed(kids, Allocated) /\ Allocated \in SUBSET Addr
    BY <1>1, HeldAllocated DEF IInv, HeapClosed, Held
  <2>2. QED BY <1>2, <2>1, ReachLeast
<1>6. H!Live = Reach(kids, Held)
  BY <1>2, VisiblePart, SameOperators DEF H!Live, Held
<1>7. QED BY <1>1, <1>4, <1>5, <1>6 DEF H!New, Seen, Held

\* The stack steps only move values between stacks and locals.
LEMMA StackStepsMap ==
  ASSUME IInv
  PROVE  /\ Push => H!Push
         /\ Peek => H!Peek
         /\ Pop => H!Pop
         /\ EnterFrame => H!EnterFrame
         /\ LeaveFrame => H!LeaveFrame
<1>1. \A s \in Seq(Addr) : s # <<>> => ToSet(s) = ToSet(Front(s)) \cup {Last(s)}
  <2>1. SUFFICES ASSUME NEW s \in Seq(Addr), s # <<>>
                 PROVE  ToSet(s) = ToSet(Front(s)) \cup {Last(s)}
    OBVIOUS
  <2>2. Len(s) \in 1..Len(s) /\ DOMAIN s = 1..Len(s)
    BY <2>1
  <2>3. DOMAIN Front(s) = 1..Len(s) - 1 /\ \A i \in 1..Len(s) - 1 : Front(s)[i] = s[i]
    BY <2>2 DEF Front
  <2>4. QED BY <2>2, <2>3 DEF ToSet, Last
<1>2. vstack \in Seq(Addr) /\ frames \in Seq(Addr) /\ locals \subseteq Addr
  BY DEF IInv, TypeOK
<1>3. kids' = kids /\ Held' = Held => Seen' = Seen
  BY DEF Seen
<1>4. ASSUME Push PROVE H!Push
  <2>1. PICK v \in locals : /\ Len(vstack) < MaxStack /\ vstack' = Append(vstack, v)
                            /\ UNCHANGED <<kids, frames, locals>>
    BY <1>4 DEF Push
  <2>2. Held' = Held
    <3>1. ToSet(vstack') = ToSet(vstack) \cup {v}
      BY <1>2, <2>1, StackElements
    <3>2. QED BY <2>1, <3>1 DEF Held, Roots
  <2>3. QED BY <1>3, <2>1, <2>2 DEF H!Push, Seen, Held
<1>5. ASSUME Peek PROVE H!Peek
  <2>1. /\ vstack # <<>> /\ locals' = locals \cup {Last(vstack)}
        /\ UNCHANGED <<kids, vstack, frames>>
    BY <1>5 DEF Peek, Hold
  <2>2. Held' = Held
    BY <1>2, <2>1, StackElements DEF Held, Roots
  <2>3. QED BY <1>3, <2>1, <2>2 DEF H!Peek, H!Last, Last, Seen, Held
<1>6. ASSUME Pop PROVE H!Pop
  <2>1. /\ vstack # <<>> /\ locals' = locals \cup {Last(vstack)} /\ vstack' = Front(vstack)
        /\ UNCHANGED <<kids, frames>>
    BY <1>6 DEF Pop, Hold
  <2>2. Held' = Held
    BY <1>1, <1>2, <2>1 DEF Held, Roots
  <2>3. QED BY <1>3, <2>1, <2>2 DEF H!Pop, H!Last, Last, H!Front, Front, Seen, Held
<1>7. ASSUME EnterFrame PROVE H!EnterFrame
  <2>1. PICK v \in locals : /\ Len(frames) < MaxStack /\ frames' = Append(frames, v)
                            /\ UNCHANGED <<kids, vstack, locals>>
    BY <1>7 DEF EnterFrame
  <2>2. Held' = Held
    <3>1. ToSet(frames') = ToSet(frames) \cup {v}
      BY <1>2, <2>1, StackElements
    <3>2. QED BY <2>1, <3>1 DEF Held, Roots
  <2>3. QED BY <1>3, <2>1, <2>2 DEF H!EnterFrame, Seen, Held
<1>8. ASSUME LeaveFrame PROVE H!LeaveFrame
  <2>1. /\ frames # <<>> /\ locals' = locals \cup {Last(frames)} /\ frames' = Front(frames)
        /\ UNCHANGED <<kids, vstack>>
    BY <1>8 DEF LeaveFrame, Hold
  <2>2. Held' = Held
    BY <1>1, <1>2, <2>1 DEF Held, Roots
  <2>3. QED BY <1>3, <2>1, <2>2 DEF H!LeaveFrame, H!Last, Last, H!Front, Front, Seen, Held
<1>9. QED BY <1>4, <1>5, <1>6, <1>7, <1>8

LEMMA LoadMaps == IInv /\ Load => H!Load
<1> SUFFICES ASSUME IInv, Load PROVE H!Load
  OBVIOUS
<1>1. PICK o \in Containers : \E k \in kids[o] :
        locals' = locals \cup {k} /\ UNCHANGED <<kids, vstack, frames>>
  BY DEF Load, Hold
<1>2. PICK k \in kids[o] : locals' = locals \cup {k} /\ UNCHANGED <<kids, vstack, frames>>
  BY <1>1
<1>3. k \in Reach(kids, Held) /\ k \in Seen[o] /\ kids \in Graph /\ Held \in SUBSET Addr
  BY Within
<1>4. Held' = Held \cup {k}
  BY <1>2 DEF Held, Roots
<1>5. Seen' = Seen
  BY <1>2, <1>3, <1>4, ReachMore DEF Seen
<1>6. o \in H!Containers
  BY SameOperators
<1>7. QED BY <1>2, <1>3, <1>5, <1>6 DEF H!Load, Seen, Held

LEMMA StoreMaps == IInv /\ Store => H!Store
<1> SUFFICES ASSUME IInv, Store PROVE H!Store
  OBVIOUS
<1>1. UNCHANGED <<vstack, frames, locals>>
  BY DEF Store, mutator
<1>2. PICK o \in Containers, v \in locals : \E lost \in {{}} \cup {{k} : k \in kids[o]} :
        kids' = [kids EXCEPT ![o] = (@ \ lost) \cup {v}]
  BY DEF Store
<1>3. PICK lost \in {{}} \cup {{k} : k \in kids[o]} :
        kids' = [kids EXCEPT ![o] = (@ \ lost) \cup {v}]
  BY <1>2
<1> DEFINE S == Reach(kids, Held)
           written == [Seen EXCEPT ![o] = (@ \ lost) \cup {v}]
<1>4. /\ kids \in Graph /\ Held \in SUBSET S /\ S \in SUBSET Addr /\ Closed(kids, S)
      /\ o \in Held /\ v \in Held /\ Seen[o] = kids[o]
  BY Within DEF Held
<1>5. Seen \in Graph /\ \A x \in S : Seen[x] = kids[x]
  BY <1>4, VisiblePart DEF Seen
<1>6. /\ kids' \in Graph
      /\ \A x \in Addr : kids'[x] = IF x = o THEN (kids[o] \ lost) \cup {v} ELSE kids[x]
  BY <1>3, <1>4 DEF Graph
<1>7. /\ written \in Graph
      /\ \A x \in Addr : written[x] = IF x = o THEN (kids[o] \ lost) \cup {v} ELSE Seen[x]
  BY <1>4, <1>5 DEF Graph
<1> HIDE DEF S, written
<1>8. Closed(kids', S)
  BY <1>4, <1>6 DEF Closed
<1>9. \A x \in S : kids'[x] = written[x]
  BY <1>4, <1>5, <1>6, <1>7
<1>10. Visible(kids', Held) = Visible(written, Held)
  BY <1>4, <1>6, <1>7, <1>8, <1>9, SeenAlike
<1>11. Held' = Held
  BY <1>1 DEF Held, Roots
<1>12. Seen' = H!Visible([Seen EXCEPT ![o] = (@ \ lost) \cup {v}], H!Roots \cup locals)
  BY <1>10, <1>11, SameOperators DEF Seen, Held, written
<1>13. o \in H!Containers /\ lost \in {{}} \cup {{k} : k \in Seen[o]}
  BY <1>4, SameOperators
<1>14. QED BY <1>1, <1>12, <1>13 DEF H!Store, Seen, Held

LEMMA EndStepMaps == IInv /\ EndStep => H!EndStep
<1> SUFFICES ASSUME IInv, EndStep PROVE H!EndStep
  OBVIOUS
<1>1. locals' = {} /\ UNCHANGED <<kids, vstack, frames>>
  BY DEF EndStep
<1>2. kids \in Graph /\ Held \in SUBSET Addr /\ Roots \in SUBSET Reach(kids, Held)
  BY Within DEF Held
<1>3. Visible(Seen, Roots) = Visible(kids, Roots)
  BY <1>2, VisiblePart DEF Seen
<1>4. Held' = Roots
  BY <1>1 DEF Held, Roots
<1>5. Seen' = H!Visible(Seen, H!Roots)
  BY <1>1, <1>3, <1>4, SameOperators DEF Seen
<1>6. QED BY <1>1, <1>5 DEF H!EndStep, Seen, Held

\* The collector is invisible.
LEMMA CollectStutters == IInv /\ Collect => UNCHANGED H!vars
<1> SUFFICES ASSUME IInv, Collect PROVE UNCHANGED H!vars
  OBVIOUS
<1>1. UNCHANGED <<vstack, frames, locals>>
  BY DEF Collect, Mark, MarkDone, SweepHead, SweepHeadDone, Sweep, SweepDone, mutator
<1>2. Held' = Held
  BY <1>1 DEF Held, Roots
<1>3. CASE UNCHANGED kids
  BY <1>1, <1>2, <1>3 DEF H!vars, Held
<1>4. CASE \E n \in 1..Len(vals) : /\ phase \in {"sweep_head", "sweep"}
                                   /\ vals[n] \notin marked
                                   /\ kids' = [kids EXCEPT ![vals[n]] = {}]
  <2>1. PICK n \in 1..Len(vals) : /\ phase \in {"sweep_head", "sweep"}
                                  /\ vals[n] \notin marked
                                  /\ kids' = [kids EXCEPT ![vals[n]] = {}]
    BY <1>4
  <2>2. vals[n] \in Addr /\ locals = {} /\ marked = Reach(kids, Roots)
    BY <2>1 DEF IInv, TypeOK, NoLocals, Marked
  <2>3. Held = Roots
    BY <2>2 DEF Held
  <2> DEFINE S == Reach(kids, Held)
  <2>4. kids \in Graph /\ Held \in SUBSET S /\ S \in SUBSET Addr /\ Closed(kids, S)
    BY Within
  <2>5. kids' \in Graph /\ \A x \in S : kids[x] = kids'[x]
    BY <2>1, <2>2, <2>3, <2>4 DEF Graph
  <2> HIDE DEF S
  <2>6. Visible(kids, Held) = Visible(kids', Held)
    BY <2>4, <2>5, SeenAlike
  <2>7. QED BY <1>1, <1>2, <2>6 DEF H!vars, Held
<1>5. CASE SweepHead
  <2>1. vals \in Seq(Addr) /\ vals # <<>>
    BY <1>5 DEF IInv, TypeOK, SweepHead
  <2>2. 1 \in 1..Len(vals)
    BY <2>1
  <2>3. QED BY <1>4, <1>5, <2>2 DEF SweepHead
<1>6. CASE Sweep
  <2>1. vals \in Seq(Addr) /\ p \in Nat /\ p < Len(vals)
    BY <1>6 DEF IInv, TypeOK, Sweep
  <2>2. p + 1 \in 1..Len(vals)
    BY <2>1
  <2>3. QED BY <1>3, <1>4, <1>6, <2>2 DEF Sweep
<1>7. CASE ~SweepHead /\ ~Sweep
  BY <1>3, <1>7 DEF Collect, Mark, MarkDone, SweepHeadDone, SweepDone
<1>8. QED BY <1>5, <1>6, <1>7

LEMMA HeapNext == IInv /\ [Next]_vars => [H!Next]_(H!vars)
<1> SUFFICES ASSUME IInv, [Next]_vars PROVE [H!Next]_(H!vars)
  OBVIOUS
<1>1. CASE Push \/ Peek \/ Pop \/ EnterFrame \/ LeaveFrame
  BY <1>1, StackStepsMap DEF H!Next
<1>2. CASE New \/ Load \/ Store \/ EndStep
  BY <1>2, NewMaps, LoadMaps, StoreMaps, EndStepMaps DEF H!Next
<1>3. CASE Collect
  BY <1>3, CollectStutters
<1>4. CASE UNCHANGED vars
  BY <1>4 DEF vars, H!vars, Roots
<1>5. QED BY <1>1, <1>2, <1>3, <1>4 DEF Next

---------------------------------------------------------------------------
(* The theorem. *)

\* To the program it is as if vals_gc did not exist: whatever it does on a
\* heap that is collected, it could do on one in which nothing is ever freed.
THEOREM Refinement == Spec => ImplementsHeap
BY HeapInit, HeapNext, GcInvariant, PTL DEF Spec, ImplementsHeap, H!Spec
===========================================================================
