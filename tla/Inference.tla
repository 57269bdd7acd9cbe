----------------------------- MODULE Inference ----------------------------
(* The shapes of a program for module Verifier, found by following it from *)
(* its start to all that its instructions lead to.                         *)
EXTENDS Verifier

\* What is known of the stack at position t, also reached with this stack.
Joint(known, stack) ==
  LET n == Min({Len(known), Len(stack)})
      k == SubSeq(known, Len(known) - n + 1, Len(known))
      s == SubSeq(stack, Len(stack) - n + 1, Len(stack))
  IN [i \in 1..n |-> IF k[i] = s[i] THEN k[i] ELSE Unknown]

Reached(S, t, s) ==
  IF t \notin DOMAIN S THEN (t :> s) @@ S
  ELSE [S EXCEPT ![t].stack = Joint(@, s.stack)]

\* S knows the positions in todo but not what they lead to.
RECURSIVE Followed(_, _, _)
Followed(p, S, todo) ==
  IF todo = {} THEN S
  ELSE LET q == Min(todo)
           s == S[q]
           callee == Held(s, 1).s
           leads == {<<to[1], [s EXCEPT !.stack = StackAfter(p, q, s), !.loops = to[2]]>> :
                       to \in Leads(p, q, s)}
           calls == IF p.ops[q + 1].op = "CALL" /\ callee \in DOMAIN p.functions
                    THEN {<<p.functions[callee], [inside |-> TRUE, stack |-> <<>>, loops |-> <<>>]>>}
                    ELSE {}
           next == IF q < Len(p.ops) /\ Runnable(p, q, s) THEN leads \cup calls ELSE {}
           S1 == FoldSet(LAMBDA to, acc : Reached(acc, to[1], to[2]), S, next)
           new == {to[1] : to \in next}
       IN Followed(p, S1, (todo \ {q}) \cup {t \in new : t \notin DOMAIN S \/ S1[t] # S[t]})

\* Where a shape does not fit its instruction nothing follows, and Accepts fails.
ShapesOf(p) ==
  Followed(p, 0 :> [inside |-> FALSE, stack |-> <<>>, loops |-> <<>>], {0})
===========================================================================
