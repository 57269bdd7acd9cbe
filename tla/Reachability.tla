--------------------------- MODULE Reachability ---------------------------
(* What a collector may keep and what it must keep: the values reachable   *)
(* from a set of roots along the references values hold on each other.     *)
(* Stated without recursion, as the least set that contains the roots and  *)
(* is closed, so that theorems can be proved about it.                     *)

CONSTANT Addr    \* the addresses calloc can return

\* An object graph: for every address, the addresses the value there refers to.
Graph == [Addr -> SUBSET Addr]

Closed(kids, S) == \A a \in S : kids[a] \subseteq S

\* The sets a collector could keep without freeing what R reaches.
Keepable(kids, R) == {S \in SUBSET Addr : R \subseteq S /\ Closed(kids, S)}

Reach(kids, R) ==
  LET keepable == Keepable(kids, R)
  IN {a \in Addr : \A S \in keepable : a \in S}

\* The graph with everything forgotten that cannot be reached from R.
Visible(kids, R) ==
  LET seen == Reach(kids, R)
  IN [a \in Addr |-> IF a \in seen THEN kids[a] ELSE {}]
===========================================================================
