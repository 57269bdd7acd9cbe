----------------------------- MODULE Verifier -----------------------------
(* The programs that never fail an assertion of the machine: those for     *)
(* which one can write beside the instructions in what shape a function is *)
(* when it reaches them, so that each finds its operands and leads to      *)
(* instructions with fitting shapes.                                       *)
(*                                                                         *)
(* Nothing in the code checks this; it is what compile_ast has to see to.  *)
(* Run interpreter checks that it does, and VerifierProofs shows that no   *)
(* more is needed, whatever the input.                                     *)
(*                                                                         *)
(* A shape is a record:                                                    *)
(*   inside - a function runs, not the program around the functions        *)
(*   stack  - the values it has on the stack, Unknown where any may be     *)
(*   loops  - its loop stack                                               *)
(* There may be more on the stack than its shape says, since a return from *)
(* within a block leaves values behind, unless the shapes are exact.       *)
EXTENDS Vm

CONSTANT Shapes    \* for some programs, the shapes of their instructions

Unknown == [t |-> "unknown", n |-> 0, s |-> <<>>]

\* The i-th value from the top, and what is below the n values on top.
Held(s, i) == s.stack[Len(s.stack) + 1 - i]
Drop(s, n) == SubSeq(s.stack, 1, Len(s.stack) - n)

\* How many values an operation takes that is told so by the value v.
Nr(v) == IF v.n < 0 THEN 0 ELSE v.n

Results == Compare \cup Arith \cup
  {"NEGATE", "INC", "DEC", "NOT", "LEN", "COPY", "GETVAR", "GETGLOBAL", "CREATEVAL", "CAST",
   "INDEXAS", "GETINT", "TSTART", "TEND"}

\* The stack after the instruction at q; that of the caller after a call.
StackAfter(p, q, s) ==
  LET op == p.ops[q + 1].op
  IN CASE op = "PUSH" -> Append(s.stack, Num(p.ops[q + 1].n))
       [] op = "DUP" -> Append(s.stack, Held(s, 1))
       [] op = "CONSTANT" -> Append(Drop(s, 1), ArrGet(p.constants, Held(s, 1).n))
       [] op \in Results -> Append(Drop(s, MinArgs(op)), Unknown)
       [] op = "MKARRAY" -> Append(Drop(s, Nr(Held(s, 1)) + 1), Unknown)
       [] op = "CALL" -> [i \in 1..(Len(s.stack) - Nr(Held(s, 2)) - 1) |-> Unknown]
       [] OTHER -> Drop(s, MinArgs(op))

\* Where the instruction leads, and the loop stack there.
Leads(p, q, s) ==
  LET op == p.ops[q + 1].op
      Stay(t) == <<t, s.loops>>
      Leave == <<ScanFrom(p, q, "LOOPBEGIN", "LOOPEND", {}) + 1,
                 IF s.loops = <<>> THEN <<>> ELSE Front(s.loops)>>
  IN CASE op = "JUMP" -> {Stay(Held(s, 1).n)}
       [] op \in {"JUMPT", "JUMPF"} -> {Stay(Held(s, 1).n), Stay(q + 1)}
       [] op = "JUMPREL" -> {Stay(Wrap(q + Held(s, 1).n)), Stay(q + 1)}
       [] op = "CONDBEGIN" ->
            {Stay(q + 1), Stay(ScanFrom(p, q, "CONDBEGIN", "CONDEND", {"CONDELSE"}) + 1)}
       [] op = "CONDELSE" -> {Stay(ScanFrom(p, q, "CONDBEGIN", "CONDEND", {}) + 1)}
       [] op = "LOOPBEGIN" -> {<<q + 1, Append(s.loops, q)>>}
       [] op \in {"LOOPEND", "LOOPRESTART"} -> {Stay(Last(s.loops) + 1)}
       [] op = "LOOPEXIT" -> {Leave}
       [] op = "LOOPBODY" -> {Stay(q + 1), Leave}
       [] op \in {"RET", "HALT"} -> {}
       [] OTHER -> {Stay(q + 1)}

---------------------------------------------------------------------------
\* A stack holds what is known of it.
Fits(known, stack, exact) ==
  /\ Len(known) <= Len(stack)
  /\ exact => Len(known) = Len(stack)
  /\ \A i \in 1..Len(known) : known[Len(known) + 1 - i] \in {Unknown, stack[Len(stack) + 1 - i]}

\* Position t may be reached like this.
Expects(S, t, inside, stack, loops, exact) ==
  /\ t \in DOMAIN S
  /\ S[t].inside = inside
  /\ S[t].loops = loops
  /\ Fits(S[t].stack, stack, exact)

\* In shape s the instruction at q finds its operands, of the right types.
Runnable(p, q, s) ==
  LET op == p.ops[q + 1].op
  IN /\ op # "DBLOCK"
     /\ Len(s.stack) >= MinArgs(op)
     /\ op \in NumberOnTop => Held(s, 1).t = "num"
     /\ op \in {"CONSTANT", "GETGLOBAL", "SETGLOBAL"} => Held(s, 1).n >= 0
     /\ op \in {"GETVAR", "SETVAR"} => Slot(Held(s, 1).n) >= 0
     /\ op \in {"CREATEVAL", "CAST"} => Held(s, 1).n \in 0..6
     /\ op = "MKARRAY" => Len(s.stack) - 1 >= Held(s, 1).n
     /\ op \in {"LOOPEND", "LOOPRESTART"} => s.loops # <<>>
     /\ op = "CALL" => /\ Held(s, 1).t = "str"
                       /\ Held(s, 2).t = "num"
                       /\ Len(s.stack) - 2 >= Held(s, 2).n
     /\ op = "RET" => s.inside /\ Len(s.stack) >= 1

\* How many instructions op there are before position q.
OpsBefore(p, q, op) == Cardinality({j \in 1..q : j <= Len(p.ops) /\ p.ops[j].op = op})

\* S tells the shapes of program p.
Accepts(p, S, exact) ==
  LET end == Len(p.ops)
  IN /\ DOMAIN S \subseteq 0..end
     /\ \A q \in DOMAIN S :
          /\ S[q] \in [inside : BOOLEAN, stack : Seq([t : STRING, n : Int, s : Seq(Int)]),
                       loops : Seq(0..end)]
          /\ Len(S[q].loops) = OpsBefore(p, q, "LOOPBEGIN") - OpsBefore(p, q, "LOOPEND")
     /\ Expects(S, 0, FALSE, <<>>, <<>>, exact)
     /\ end \in DOMAIN S =>
          /\ ~S[end].inside
          /\ S[end].loops = <<>>
          /\ exact => S[end].stack = <<>>
     /\ \A q \in DOMAIN S \ {end} :
          LET op == p.ops[q + 1].op
              callee == Held(S[q], 1).s
          IN /\ Runnable(p, q, S[q])
             /\ \A to \in Leads(p, q, S[q]) :
                  Expects(S, to[1], S[q].inside, StackAfter(p, q, S[q]), to[2], exact)
             /\ op = "CALL" /\ callee \in DOMAIN p.functions =>
                  Expects(S, p.functions[callee], TRUE, <<>>, <<>>, exact)
             /\ op = "RET" /\ exact => Len(S[q].stack) = 1

\* The programs whose shapes are right, and those whose shapes are exact.
Safe == {p \in DOMAIN Shapes : Accepts(p, Shapes[p], FALSE)}
Exact == {p \in DOMAIN Shapes : Accepts(p, Shapes[p], TRUE)}

---------------------------------------------------------------------------
(* Properties of compiled programs; those but the first hold of all that   *)
(* are in Safe.                                                            *)

\* What the compiler emits keeps to shapes, which are exact in programs without
\* blocks.
KeepsToShapes ==
  prog \in IF \E i \in DOMAIN prog.ops : prog.ops[i].op = "TSTART" THEN Safe ELSE Exact

\* What the compiler emits never trips an assertion of the machine, nor does
\* it make it trap: no operation lacks operands or finds the wrong type.
NoFailure == status \notin {"aborted", "crashed"}

\* MINARGS and vstack_pop: every operation finds the operands it needs.
NoAssertFails == status # "aborted"

\* The operation about to be executed has no result for its operands: it
\* divides by zero, indexes outside a value or turns a cyclic array into text.
DataFault ==
  /\ pc \in 0..(NrOps - 1)
  /\ \/ EndlessText
     \/ Op \in {"MUL", "MYMUL", "DIVIDE", "MODULO", "INDEX1", "INDEXAS", "CALL"}

\* The loop stack of the running function is as deep as the loops around the
\* next instruction: no iteration enters its loop twice, no exit forgets it.
LoopStackMatchesCode ==
  Len(Frame.loops) = OpsBefore(prog, pc, "LOOPBEGIN") - OpsBefore(prog, pc, "LOOPEND")

\* A function that waits for another to return is as its CALL left it, to which
\* the other returns: its loops are those around that CALL.
CallersIntact ==
  \A d \in 1..(Len(frames) - 1) :
    LET call == frames[d + 1].ret
    IN /\ call.t = "num" /\ call.n \in 0..(NrOps - 1)
       /\ prog.ops[call.n + 1].op = "CALL"
       /\ frames[d].lent = Undef
       /\ Len(frames[d].loops) =
            OpsBefore(prog, call.n, "LOOPBEGIN") - OpsBefore(prog, call.n, "LOOPEND")

\* At the end all functions have returned and all loops are closed.
AllReturned == status = "ended" => Len(frames) = 1 /\ frames[1].loops = <<>>

\* Every value pushed has been consumed.
StackEmptied == status = "ended" => vstack = <<>>
===========================================================================
