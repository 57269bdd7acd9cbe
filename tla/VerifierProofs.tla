--------------------------- MODULE VerifierProofs ---------------------------
(* A program that keeps to its shapes never lacks an operand, for every    *)
(* program, input and width of an int: the shape of each instruction is    *)
(* true of the machine whenever it gets there.                             *)
EXTENDS Verifier, VmProofs

---------------------------------------------------------------------------
(* The inductive invariant. *)

\* The n-th frame from the outermost is, or will be again, at this position:
\* all but the innermost wait for a call to return.
Position(fs, q, d) == IF d = Len(fs) THEN q ELSE fs[d + 1].ret.n + 1

\* The addresses of the calls of a program, and frames that return to such.
CallsOf(p) == {Num(q) : q \in {q \in 0..(Len(p.ops) - 1) : p.ops[q + 1].op = "CALL"}}
Returning(p, fs) == \A d \in 2..Len(fs) : fs[d].ret \in CallsOf(p)

\* Every function is where the shapes are known, with the loops they say, and
\* has its loop stack for itself.
Placed(S, fs, q) ==
  /\ Len(fs) >= 1
  /\ \A d \in 1..Len(fs) :
       LET t == Position(fs, q, d)
       IN /\ t \in DOMAIN S
          /\ S[t].inside = (d > 1)
          /\ S[t].loops = fs[d].loops
          /\ fs[d].lent = Undef

\* What is known of the stack above the values at its base.
OnTop(known, stack, base, exact) ==
  /\ base + Len(known) <= Len(stack)
  /\ exact => base + Len(known) = Len(stack)
  /\ \A i \in 1..Len(known) : known[Len(known) + 1 - i] \in {Unknown, stack[Len(stack) + 1 - i]}

\* The part of the stack each function has for its own begins at its base.
\* With the result of the call it waits for it has what its shape says.
Balanced(S, fs, q, stack, bases, exact) ==
  /\ bases \in [1..Len(fs) -> Nat]
  /\ bases[1] = 0
  /\ OnTop(S[q].stack, stack, bases[Len(fs)], exact)
  /\ \A d \in 1..(Len(fs) - 1) :
       LET known == S[Position(fs, q, d)].stack
       IN /\ bases[d] + Len(known) <= bases[d + 1] + 1
          /\ exact => bases[d] + Len(known) = bases[d + 1] + 1
          /\ \A i \in 1..Len(known) : known[i] = Unknown

\* A program that keeps to its shapes.
Keeps(exact) ==
  Accepts(prog, Shapes[prog], exact) =>
    /\ Placed(Shapes[prog], frames, pc)
    /\ Returning(prog, frames)
    /\ status # "halted" => \E bases : Balanced(Shapes[prog], frames, pc, vstack, bases, exact)
    /\ status = "ended" => pc >= NrOps
    /\ status # "aborted"
    /\ status = "crashed" => DataFault

---------------------------------------------------------------------------
(* What is on top of the stack. *)

LEMMA OnTopPush ==
  ASSUME NEW known, NEW stack, NEW base \in Nat, NEW exact, Sequence(known), Sequence(stack),
         OnTop(known, stack, base, exact), NEW v, NEW k \in {Unknown, v}
  PROVE  OnTop(Append(known, k), Append(stack, v), base, exact)
<1> DEFINE K == Append(known, k)
           T == Append(stack, v)
<1>1. Len(known) \in Nat /\ Len(stack) \in Nat
  BY SequenceIs
<1>2. /\ Len(K) = Len(known) + 1 /\ K[Len(known) + 1] = k /\ \A i \in 1..Len(known) : K[i] = known[i]
      /\ Len(T) = Len(stack) + 1 /\ T[Len(stack) + 1] = v /\ \A i \in 1..Len(stack) : T[i] = stack[i]
  BY SequenceAppend
<1> HIDE DEF K, T
<1>3. ASSUME NEW i \in 1..Len(K) PROVE K[Len(K) + 1 - i] \in {Unknown, T[Len(T) + 1 - i]}
  <2>1. CASE i = 1
    <3>1. Len(K) + 1 - i = Len(known) + 1 /\ Len(T) + 1 - i = Len(stack) + 1
      BY <1>1, <1>2, <2>1
    <3>2. QED BY <1>2, <3>1
  <2>2. CASE i # 1
    <3>1. i - 1 \in 1..Len(known) /\ Len(known) + 1 - (i - 1) \in 1..Len(known)
      BY <1>1, <1>2, <2>2
    <3>2. Len(known) <= Len(stack)
      BY <1>1 DEF OnTop
    <3>3. Len(stack) + 1 - (i - 1) \in 1..Len(stack)
      BY <1>1, <3>1, <3>2
    <3>4. Len(K) + 1 - i = Len(known) + 1 - (i - 1) /\ Len(T) + 1 - i = Len(stack) + 1 - (i - 1)
      BY <1>1, <1>2
    <3>5. known[Len(known) + 1 - (i - 1)] \in {Unknown, stack[Len(stack) + 1 - (i - 1)]}
      BY <3>1 DEF OnTop
    <3>6. QED BY <1>2, <3>1, <3>3, <3>4, <3>5
  <2>3. QED BY <2>1, <2>2
<1>4. base + Len(K) <= Len(T) /\ (exact => base + Len(K) = Len(T))
  BY <1>1, <1>2 DEF OnTop
<1>5. QED BY <1>3, <1>4 DEF OnTop, K, T

LEMMA Beginning ==
  ASSUME NEW s, Sequence(s), NEW m \in 0..Len(s)
  PROVE  /\ Sequence(SubSeq(s, 1, m))
         /\ Len(SubSeq(s, 1, m)) = m
         /\ \A i \in 1..m : SubSeq(s, 1, m)[i] = s[i]
<1>1. m \in Nat /\ (IF 1 <= m THEN (m - 1) + 1 ELSE 0) = m /\ (m - 1) + 1 = m
      /\ \A i \in 1..m : (1 + i) - 1 = i
  OBVIOUS
<1>2. QED BY <1>1, SequenceSub

LEMMA OnTopDrop ==
  ASSUME NEW known, NEW stack, NEW base \in Nat, NEW exact, Sequence(known), Sequence(stack),
         OnTop(known, stack, base, exact), NEW n \in 0..Len(known)
  PROVE  /\ OnTop(SubSeq(known, 1, Len(known) - n), SubSeq(stack, 1, Len(stack) - n), base, exact)
         /\ Sequence(SubSeq(known, 1, Len(known) - n))
         /\ Sequence(SubSeq(stack, 1, Len(stack) - n))
<1> DEFINE K == SubSeq(known, 1, Len(known) - n)
           T == SubSeq(stack, 1, Len(stack) - n)
<1>1. Len(known) \in Nat /\ Len(stack) \in Nat
  BY SequenceIs
<1>2. Len(known) <= Len(stack)
  BY <1>1 DEF OnTop
<1>3. Len(known) - n \in 0..Len(known) /\ Len(stack) - n \in 0..Len(stack)
  BY <1>1, <1>2
<1>6. /\ Sequence(K) /\ Len(K) = Len(known) - n /\ \A i \in 1..(Len(known) - n) : K[i] = known[i]
      /\ Sequence(T) /\ Len(T) = Len(stack) - n /\ \A i \in 1..(Len(stack) - n) : T[i] = stack[i]
  BY <1>3, Beginning
<1> HIDE DEF K, T
<1>7. ASSUME NEW i \in 1..Len(K) PROVE K[Len(K) + 1 - i] \in {Unknown, T[Len(T) + 1 - i]}
  <2>1. i + n \in 1..Len(known) /\ Len(K) + 1 - i = Len(known) + 1 - (i + n)
        /\ Len(T) + 1 - i = Len(stack) + 1 - (i + n)
        /\ Len(K) + 1 - i \in 1..(Len(known) - n) /\ Len(T) + 1 - i \in 1..(Len(stack) - n)
    BY <1>1, <1>2, <1>3, <1>6
  <2>2. known[Len(known) + 1 - (i + n)] \in {Unknown, stack[Len(stack) + 1 - (i + n)]}
    BY <2>1 DEF OnTop
  <2>3. QED BY <1>6, <2>1, <2>2
<1>8. base + Len(K) <= Len(T) /\ (exact => base + Len(K) = Len(T))
  BY <1>1, <1>3, <1>6 DEF OnTop
<1>9. QED BY <1>6, <1>7, <1>8 DEF OnTop, K, T

\* A shape that fits another one fits what that one fits.
LEMMA OnTopFits ==
  ASSUME NEW less, NEW known, NEW stack, NEW base \in Nat, NEW exact,
         Sequence(less), Sequence(known), Sequence(stack),
         Fits(less, known, exact), OnTop(known, stack, base, exact)
  PROVE  OnTop(less, stack, base, exact)
<1>1. Len(less) \in Nat /\ Len(known) \in Nat /\ Len(stack) \in Nat
  BY SequenceIs
<1>2. Len(less) <= Len(known) /\ (exact => Len(less) = Len(known))
      /\ base + Len(known) <= Len(stack) /\ (exact => base + Len(known) = Len(stack))
  BY DEF Fits, OnTop
<1>3. base + Len(less) <= Len(stack) /\ (exact => base + Len(less) = Len(stack))
  BY <1>1, <1>2
<1>4. ASSUME NEW i \in 1..Len(less)
      PROVE  less[Len(less) + 1 - i] \in {Unknown, stack[Len(stack) + 1 - i]}
  <2>1. i \in 1..Len(known)
    BY <1>1, <1>2
  <2>2. less[Len(less) + 1 - i] \in {Unknown, known[Len(known) + 1 - i]}
    BY DEF Fits
  <2>3. known[Len(known) + 1 - i] \in {Unknown, stack[Len(stack) + 1 - i]}
    BY <2>1 DEF OnTop
  <2>4. QED BY <2>2, <2>3
<1>5. QED BY <1>3, <1>4 DEF OnTop

---------------------------------------------------------------------------
(* What a program that is accepted guarantees. *)

LEMMA ShapeIs ==
  ASSUME NEW p, NEW S, NEW exact, Accepts(p, S, exact), NEW q \in DOMAIN S
  PROVE  /\ q \in 0..Len(p.ops)
         /\ Sequence(S[q].stack)
         /\ Sequence(S[q].loops)
         /\ S[q].inside \in BOOLEAN
         /\ Len(S[q].loops) = OpsBefore(p, q, "LOOPBEGIN") - OpsBefore(p, q, "LOOPEND")
<1> DEFINE V == Seq([t : STRING, n : Int, s : Seq(Int)])
           L == Seq(0..Len(p.ops))
<1>1. S[q] \in [inside : BOOLEAN, stack : V, loops : L]
  BY DEF Accepts
<1>2. S[q].stack \in V /\ S[q].loops \in L /\ S[q].inside \in BOOLEAN
  <2> HIDE DEF V, L
  <2>1. QED BY <1>1
<1>3. Sequence(S[q].stack) /\ Sequence(S[q].loops)
  BY <1>2, SequenceOf
<1>4. QED BY <1>2, <1>3 DEF Accepts

LEMMA AcceptsAt ==
  ASSUME NEW p, NEW S, NEW exact, Accepts(p, S, exact), NEW q \in DOMAIN S, q # Len(p.ops)
  PROVE  /\ Runnable(p, q, S[q])
         /\ \A to \in Leads(p, q, S[q]) :
              Expects(S, to[1], S[q].inside, StackAfter(p, q, S[q]), to[2], exact)
         /\ p.ops[q + 1].op = "CALL" /\ Held(S[q], 1).s \in DOMAIN p.functions =>
              Expects(S, p.functions[Held(S[q], 1).s], TRUE, <<>>, <<>>, exact)
         /\ p.ops[q + 1].op = "RET" /\ exact => Len(S[q].stack) = 1
BY Zenon DEF Accepts

---------------------------------------------------------------------------
(* What an instruction finds. *)

Shape == Shapes[prog][pc]

LEMMA ArgsNeeded ==
  ASSUME NEW op
  PROVE  /\ MinArgs(op) \in 0..3
         /\ op \in Nullary => MinArgs(op) = 0
         /\ op \notin Nullary => MinArgs(op) >= 1
<1>1. op \in Nullary => MinArgs(op) = 0
  <2>1. op \in Nullary => op \notin Binary \cup Ternary
    BY DEF Nullary, Binary, Ternary, Compare, Arith
  <2>2. QED BY <2>1, Zenon DEF MinArgs
<1>2. op \notin Nullary => MinArgs(op) \in {1, 2, 3}
  BY MinArgsIs, Zenon
<1>3. \A n : n \in {0, 1, 2, 3} => n \in 0..3 /\ (n \in {1, 2, 3} => n >= 1)
  OBVIOUS
<1>4. QED BY <1>1, <1>2, <1>3, Zenon

\* The machine is before an instruction of a program that keeps to its shapes.
Here(bases, exact) ==
  /\ Accepts(prog, Shapes[prog], exact)
  /\ Placed(Shapes[prog], frames, pc)
  /\ Returning(prog, frames)
  /\ Balanced(Shapes[prog], frames, pc, vstack, bases, exact)
  /\ Sequence(frames)
  /\ Sequence(vstack)
  /\ NrOps \in Nat
  /\ pc \in 0..(NrOps - 1)

LEMMA HereIs ==
  ASSUME NEW bases, NEW exact, Here(bases, exact)
  PROVE  /\ Len(frames) \in Nat /\ Len(frames) >= 1 /\ frames # <<>>
         /\ Frame = frames[Len(frames)]
         /\ pc \in DOMAIN Shapes[prog]
         /\ Shape.inside = (Len(frames) > 1)
         /\ Shape.loops = Frame.loops
         /\ Frame.lent = Undef
         /\ Sequence(Shape.stack)
         /\ bases[Len(frames)] \in Nat
         /\ OnTop(Shape.stack, vstack, bases[Len(frames)], exact)
         /\ Runnable(prog, pc, Shape)
<1>1. Len(frames) \in Nat /\ Len(frames) >= 1
  BY SequenceIs DEF Here, Placed
<1>2. frames # <<>>
  BY <1>1
<1>3. Frame = frames[Len(frames)]
  BY <1>2, SequenceFront DEF Here, Frame
<1>4. Len(frames) \in 1..Len(frames) /\ Position(frames, pc, Len(frames)) = pc
  BY <1>1 DEF Position
<1>5. /\ pc \in DOMAIN Shapes[prog] /\ Shape.inside = (Len(frames) > 1)
      /\ Shape.loops = Frame.loops /\ Frame.lent = Undef
  BY <1>3, <1>4 DEF Here, Placed, Shape
<1>6. Sequence(Shape.stack)
  BY <1>5, ShapeIs DEF Here, Shape
<1>7. bases[Len(frames)] \in Nat /\ OnTop(Shape.stack, vstack, bases[Len(frames)], exact)
  BY <1>4 DEF Here, Balanced, Shape
<1>8. pc # Len(prog.ops)
  BY DEF Here, NrOps
<1>9. Runnable(prog, pc, Shape)
  BY <1>5, <1>8, AcceptsAt DEF Here, Shape
<1>10. QED BY <1>1, <1>2, <1>3, <1>5, <1>6, <1>7, <1>9

\* The values its shape knows are those on the stack.
LEMMA HeldIs ==
  ASSUME NEW bases, NEW exact, Here(bases, exact)
  PROVE  /\ Len(vstack) \in Nat /\ Len(Shape.stack) \in Nat /\ Len(vstack) >= Len(Shape.stack)
         /\ \A i \in 1..Len(Shape.stack) : Held(Shape, i) \in {Unknown, Top(i)}
         /\ \A i \in 1..Len(Shape.stack) : Held(Shape, i).t \in {"num", "str"} => Held(Shape, i) = Top(i)
<1>1. Len(vstack) \in Nat /\ Len(Shape.stack) \in Nat
  BY HereIs, SequenceIs DEF Here
<1>2. OnTop(Shape.stack, vstack, bases[Len(frames)], exact) /\ bases[Len(frames)] \in Nat
  BY HereIs
<1>3. Len(vstack) >= Len(Shape.stack)
  BY <1>1, <1>2 DEF OnTop
<1>4. \A i \in 1..Len(Shape.stack) : Held(Shape, i) \in {Unknown, Top(i)}
  BY <1>2 DEF OnTop, Held, Top
<1>5. Unknown.t \notin {"num", "str"}
  BY DEF Unknown
<1>6. QED BY <1>1, <1>3, <1>4, <1>5

LEMMA NumberHeld ==
  ASSUME NEW bases, NEW exact, Here(bases, exact), Op \in NumberOnTop
  PROVE  Len(Shape.stack) >= 1 /\ Held(Shape, 1) = Top(1) /\ Top(1).t = "num"
<1>1. Runnable(prog, pc, Shape)
  BY HereIs
<1>2. Len(Shape.stack) >= MinArgs(Op) /\ Held(Shape, 1).t = "num"
  BY <1>1 DEF Runnable, Op
<1>3. MinArgs(Op) >= 1
  <2>1. Op \notin Nullary
    BY DEF NumberOnTop, Nullary
  <2>2. QED BY <2>1, ArgsNeeded
<1>4. Len(Shape.stack) >= 1 /\ 1 \in 1..Len(Shape.stack)
  <2>1. MinArgs(Op) \in Int /\ Len(Shape.stack) \in Int
    BY ArgsNeeded, HeldIs
  <2>2. QED BY <1>2, <1>3, <2>1
<1>5. QED BY <1>2, <1>4, HeldIs

\* The name and the number of arguments are known where a call is.
LEMMA CallHeld ==
  ASSUME NEW bases, NEW exact, Here(bases, exact), Op = "CALL"
  PROVE  /\ Len(Shape.stack) >= 2
         /\ Held(Shape, 1) = Top(1) /\ Top(1).t = "str"
         /\ Held(Shape, 2) = Top(2) /\ Top(2).t = "num"
         /\ Len(Shape.stack) - 2 >= Top(2).n
<1>1. Runnable(prog, pc, Shape)
  BY HereIs
<1>2. Op \in Binary
  BY DEF Binary
<1>3. Len(Shape.stack) >= 2
  BY <1>1, <1>2, MinArgsIs DEF Runnable, Op
<1>4. 1 \in 1..Len(Shape.stack) /\ 2 \in 1..Len(Shape.stack)
  BY <1>3, HeldIs
<1>5. Held(Shape, 1).t = "str" /\ Held(Shape, 2).t = "num" /\ Len(Shape.stack) - 2 >= Held(Shape, 2).n
  BY <1>1 DEF Runnable, Op
<1>6. QED BY <1>3, <1>4, <1>5, HeldIs

LEMMA NumberIs ==
  ASSUME IInv, NEW bases, NEW exact, Here(bases, exact), NEW i \in 1..Len(Shape.stack),
         Top(i).t = "num"
  PROVE  Top(i).n \in Int
<1>1. PICK kind : Filled(vstack, kind)
  BY IInvIs DEF MachineOK
<1>2. i \in 1..Len(vstack)
  BY HeldIs
<1>3. Good(Top(i), kind)
  BY <1>1, <1>2, StackOK
<1>4. QED BY <1>3, Ints DEF Good

LEMMA Tags ==
  /\ \A n : Num(n).t = "num"
  /\ \A s : Str(s).t = "str" /\ NewArr(s).t = "newarr" /\ NewMap(s).t = "newmap"
  /\ \A n : Ref(n).t = "ref"
  /\ Undef.t = "undef" /\ Crash.t = "crash"
BY DEF Num, Str, NewArr, NewMap, Ref, Undef, Crash

\* The loop stack of the running function is the one its shape says.
LEMMA OwnLoops ==
  ASSUME IInv, NEW bases, NEW exact, Here(bases, exact)
  PROVE  /\ HasLoopStack /\ Frame.lent.t # "arr"
         /\ Shape.loops # <<>> =>
              /\ LoopStack(Frame) # <<>>
              /\ Last(LoopStack(Frame)) = Num(Last(Shape.loops))
              /\ Last(LoopStack(Frame)).t = "num"
              /\ Last(Shape.loops) \in 0..(NrOps - 1)
<1>1. Frame.lent = Undef /\ Shape.loops = Frame.loops /\ frames # <<>>
  BY HereIs
<1>2. Frame.lent.t = "undef" /\ Frame.lent.t # "arr"
  BY <1>1, Tags
<1>3. HasLoopStack /\ LoopStack(Frame) = Numbers(Shape.loops)
  BY <1>1, <1>2 DEF HasLoopStack, LoopStack
<1> DEFINE l == Shape.loops
           s == Numbers(l)
           A == 0..(NrOps - 1)
<1>4. l \in Seq(A)
  <2>1. PICK kind : MachineOK(NrOps, vstack, frames, globals, arrs, kind)
    BY IInvIs
  <2>2. FrameOK(Frame, NrOps, kind)
    BY <1>1, <2>1, FrameIs DEF MachineOK
  <2>3. QED BY <1>1, <2>2 DEF FrameOK
<1> HIDE DEF A
<1>5. Len(l) \in Nat /\ DOMAIN l = 1..Len(l) /\ \A i \in 1..Len(l) : l[i] \in A
  BY <1>4
<1>6. s = [i \in 1..Len(l) |-> s[i]] /\ \A i \in 1..Len(l) : s[i] = Num(l[i])
  BY <1>5 DEF Numbers
<1> HIDE DEF s
<1>7. Sequence(s) /\ Len(s) = Len(l)
  BY <1>5, <1>6, SequenceMade
<1>8. ASSUME l # <<>>
      PROVE  s # <<>> /\ Last(s) = Num(Last(l)) /\ Last(s).t = "num" /\ Last(l) \in A
  <2>1. Sequence(l)
    BY <1>4, SequenceOf
  <2>2. Len(l) >= 1 /\ Last(l) = l[Len(l)]
    BY <1>8, <2>1, SequenceFront
  <2>3. s # <<>>
    BY <1>5, <1>7, <2>2
  <2>4. Last(s) = s[Len(l)]
    BY <1>7, <2>3, SequenceFront
  <2>5. Len(l) \in 1..Len(l)
    BY <1>5, <2>2
  <2>6. QED BY <1>5, <1>6, <2>2, <2>3, <2>4, <2>5, Tags
<1>9. QED BY <1>2, <1>3, <1>8 DEF s, A

\* A called function returns to where it was called.
LEMMA ReturnIs ==
  ASSUME NEW bases, NEW exact, Here(bases, exact), Shape.inside
  PROVE  /\ Frame.ret = frames[Len(frames)].ret
         /\ Frame.ret.t = "num" /\ Frame.ret.n \in 0..(NrOps - 1)
<1>1. Len(frames) \in 2..Len(frames) /\ Frame = frames[Len(frames)]
  <2>1. Len(frames) \in Nat /\ Len(frames) > 1 /\ Frame = frames[Len(frames)]
    BY HereIs
  <2>2. QED BY <2>1
<1>2. Frame.ret \in CallsOf(prog)
  BY <1>1 DEF Here, Returning
<1>3. QED BY <1>1, <1>2 DEF CallsOf, Num, NrOps

\* No assertion fails.
LEMMA AssertionsHold ==
  ASSUME IInv, NEW bases, NEW exact, Here(bases, exact)
  PROVE  AssertsHold
<1>1. Runnable(prog, pc, Shape)
  BY HereIs
<1>2. Len(vstack) >= MinArgs(Op)
  <2>1. Len(Shape.stack) >= MinArgs(Op)
    BY <1>1 DEF Runnable, Op
  <2>2. MinArgs(Op) \in Int
    BY ArgsNeeded
  <2>3. QED BY <2>1, <2>2, HeldIs
<1>3. Op \in NumberOnTop => Top(1).t = "num"
  BY NumberHeld
<1>4. frames # <<>>
  BY HereIs
<1>5. /\ HasLoopStack
      /\ Op \in {"LOOPEND", "LOOPRESTART"} =>
           LoopStack(Frame) # <<>> /\ Last(LoopStack(Frame)).t = "num"
  BY <1>1, OwnLoops DEF Runnable, Op
<1>6. Op = "RET" => Frame.ret.t = "num"
  BY <1>1, ReturnIs DEF Runnable, Op
<1>7. Op = "CALL" => Top(1).t = "str" /\ Top(2).t = "num" /\ Len(vstack) - 2 >= Top(2).n
  <2>1. SUFFICES ASSUME Op = "CALL" PROVE Len(vstack) - 2 >= Top(2).n
    BY CallHeld
  <2>2. Top(2).n \in Int /\ Len(Shape.stack) - 2 >= Top(2).n
    BY <2>1, CallHeld, NumberIs
  <2>3. QED BY <2>2, HeldIs
<1>8. Op # "DBLOCK"
  BY <1>1 DEF Runnable, Op
<1>9. Op = "MKARRAY" => Len(vstack) - 1 >= Top(1).n
  <2>1. SUFFICES ASSUME Op = "MKARRAY" PROVE Len(vstack) - 1 >= Top(1).n
    OBVIOUS
  <2>2. Op \in NumberOnTop
    BY <2>1 DEF NumberOnTop
  <2>3. Len(Shape.stack) - 1 >= Held(Shape, 1).n
    BY <1>1, <2>1 DEF Runnable, Op
  <2>4. Top(1).n \in Int /\ Len(Shape.stack) - 1 >= Top(1).n
    BY <2>2, <2>3, NumberHeld, NumberIs
  <2>5. QED BY <2>4, HeldIs
<1>10. QED BY <1>2, <1>3, <1>4, <1>5, <1>7, <1>8, <1>9, <1>6 DEF AssertsHold

---------------------------------------------------------------------------
(* How a step keeps the invariant: along a lead, within a function. *)

\* At most the loops and the variables of the running function change.
SameCalls(fs, gs) ==
  /\ Sequence(gs)
  /\ Len(gs) = Len(fs)
  /\ \A d \in 1..Len(fs) : gs[d].ret = fs[d].ret /\ gs[d].lent = fs[d].lent
  /\ \A d \in 1..(Len(fs) - 1) : gs[d].loops = fs[d].loops

LEMMA Follows ==
  ASSUME NEW S, NEW fs, NEW q, NEW stack, NEW bases, NEW exact, NEW gs, NEW t, NEW left, NEW known,
         Placed(S, fs, q), Balanced(S, fs, q, stack, bases, exact), SameCalls(fs, gs),
         Expects(S, t, S[q].inside, known, gs[Len(fs)].loops, exact),
         Sequence(fs), Sequence(known), Sequence(left), Sequence(S[t].stack),
         OnTop(known, left, bases[Len(fs)], exact)
  PROVE  Placed(S, gs, t) /\ Balanced(S, gs, t, left, bases, exact)
<1>1. Len(fs) \in Nat /\ Len(fs) >= 1
  BY SequenceIs DEF Placed
<1>2. Position(gs, t, Len(fs)) = t /\ Position(fs, q, Len(fs)) = q
  BY DEF Position, SameCalls
<1>3. ASSUME NEW d \in 1..(Len(fs) - 1) PROVE Position(gs, t, d) = Position(fs, q, d)
  <2>1. d # Len(fs) /\ d + 1 \in 1..Len(fs)
    BY <1>1
  <2>2. QED BY <2>1 DEF Position, SameCalls
<1>4. Placed(S, gs, t)
  <2>1. ASSUME NEW d \in 1..Len(fs)
        PROVE  /\ Position(gs, t, d) \in DOMAIN S
               /\ S[Position(gs, t, d)].inside = (d > 1)
               /\ S[Position(gs, t, d)].loops = gs[d].loops
               /\ gs[d].lent = Undef
    <3>1. CASE d = Len(fs)
      <4>1. S[q].inside = (d > 1) /\ fs[d].lent = Undef
        BY <1>2, <3>1 DEF Placed
      <4>2. QED BY <1>2, <3>1, <4>1 DEF Expects, SameCalls
    <3>2. CASE d # Len(fs)
      <4>1. d \in 1..(Len(fs) - 1) /\ d \in 1..Len(fs)
        BY <1>1, <3>2
      <4>2. QED BY <1>3, <4>1 DEF Placed, SameCalls
    <3>3. QED BY <3>1, <3>2
  <2>2. QED BY <1>1, <2>1 DEF Placed, SameCalls
<1>5. Balanced(S, gs, t, left, bases, exact)
  <2>1. bases \in [1..Len(fs) -> Nat] /\ bases[1] = 0
    BY DEF Balanced
  <2>2. bases[Len(fs)] \in Nat
    BY <1>1, <2>1
  <2>3. OnTop(S[t].stack, left, bases[Len(fs)], exact)
    BY <2>2, OnTopFits DEF Expects
  <2>4. QED BY <1>3, <2>1, <2>3 DEF Balanced, SameCalls
<1>6. QED BY <1>4, <1>5

LEMMA Moves ==
  ASSUME NEW bases, NEW exact, Here(bases, exact), prog' = prog, status' = "running",
         SameCalls(frames, frames'), <<pc', frames'[Len(frames)].loops>> \in Leads(prog, pc, Shape),
         NEW known, known = StackAfter(prog, pc, Shape), Sequence(known), Sequence(vstack'),
         OnTop(known, vstack', bases[Len(frames)], exact)
  PROVE  Keeps(exact)'
<1>1. pc \in DOMAIN Shapes[prog] /\ pc # Len(prog.ops)
  BY HereIs DEF Here, NrOps
<1>2. Expects(Shapes[prog], pc', Shape.inside, known, frames'[Len(frames)].loops, exact)
  <2> DEFINE to == <<pc', frames'[Len(frames)].loops>>
  <2>1. to[1] = pc' /\ to[2] = frames'[Len(frames)].loops /\ to \in Leads(prog, pc, Shape)
    OBVIOUS
  <2> HIDE DEF to
  <2>2. Expects(Shapes[prog], to[1], Shape.inside, known, to[2], exact)
    BY <1>1, <2>1, AcceptsAt DEF Here, Shape
  <2>3. QED BY <2>1, <2>2
<1>3. pc' \in DOMAIN Shapes[prog]
  BY <1>2 DEF Expects
<1>4. Sequence(Shapes[prog][pc'].stack)
  BY <1>3, ShapeIs DEF Here
<1>5. /\ Placed(Shapes[prog], frames', pc')
      /\ Balanced(Shapes[prog], frames', pc', vstack', bases, exact)
  BY <1>2, <1>4, Follows DEF Here, Shape
<1>6. Returning(prog', frames')
  <2>1. \A d \in 2..Len(frames) : d \in 1..Len(frames)
    BY HereIs
  <2>2. QED BY <2>1 DEF Here, Returning, SameCalls
<1>7. QED BY <1>5, <1>6 DEF Keeps

\* Nothing of the calls changes, and the next instruction follows.
LEMMA Passes ==
  ASSUME NEW bases, NEW exact, Here(bases, exact), prog' = prog, status' = "running",
         frames' = frames, <<pc', Shape.loops>> \in Leads(prog, pc, Shape),
         NEW known, known = StackAfter(prog, pc, Shape), Sequence(known), Sequence(vstack'),
         OnTop(known, vstack', bases[Len(frames)], exact)
  PROVE  Keeps(exact)'
<1>1. SameCalls(frames, frames')
  BY DEF SameCalls, Here
<1>2. frames'[Len(frames)].loops = Shape.loops
  BY HereIs
<1>3. QED BY <1>1, <1>2, Moves

---------------------------------------------------------------------------
(* The stack after each operation, and where it leads. *)

Jumps == {"JUMP", "JUMPT", "JUMPF", "JUMPREL", "CONDBEGIN", "CONDELSE", "LOOPBEGIN", "LOOPEND",
          "LOOPRESTART", "LOOPEXIT", "LOOPBODY", "RET", "HALT"}

LEMMA LeadsNext ==
  ASSUME NEW p, NEW q, NEW s, p.ops[q + 1].op \notin Jumps
  PROVE  Leads(p, q, s) = {<<q + 1, s.loops>>}
<1> DEFINE op == p.ops[q + 1].op
<1>1. /\ op # "JUMP" /\ op \notin {"JUMPT", "JUMPF"} /\ op # "JUMPREL" /\ op # "CONDBEGIN"
      /\ op # "CONDELSE" /\ op # "LOOPBEGIN" /\ op \notin {"LOOPEND", "LOOPRESTART"}
      /\ op # "LOOPEXIT" /\ op # "LOOPBODY" /\ op \notin {"RET", "HALT"}
  BY DEF Jumps
<1>2. QED BY <1>1, Zenon DEF Leads

LEMMA StackAfterIs ==
  ASSUME NEW p, NEW q, NEW s, NEW op, op = p.ops[q + 1].op
  PROVE  /\ op = "PUSH" => StackAfter(p, q, s) = Append(s.stack, Num(p.ops[q + 1].n))
         /\ op = "DUP" => StackAfter(p, q, s) = Append(s.stack, Held(s, 1))
         /\ op = "CONSTANT" =>
              StackAfter(p, q, s) = Append(Drop(s, 1), ArrGet(p.constants, Held(s, 1).n))
         /\ op \in Results => StackAfter(p, q, s) = Append(Drop(s, MinArgs(op)), Unknown)
         /\ op = "MKARRAY" => StackAfter(p, q, s) = Append(Drop(s, Nr(Held(s, 1)) + 1), Unknown)
         /\ op = "CALL" =>
              StackAfter(p, q, s) = [i \in 1..(Len(s.stack) - Nr(Held(s, 2)) - 1) |-> Unknown]
         /\ op \notin Results \cup {"PUSH", "DUP", "CONSTANT", "MKARRAY", "CALL"} =>
              StackAfter(p, q, s) = Drop(s, MinArgs(op))
<1>1. op \in Results =>
        op # "PUSH" /\ op # "DUP" /\ op # "CONSTANT" /\ op # "MKARRAY" /\ op # "CALL"
  BY DEF Results, Compare, Arith
<1> DEFINE pushed == Append(s.stack, Num(p.ops[q + 1].n))
           again == Append(s.stack, Held(s, 1))
           constant == Append(Drop(s, 1), ArrGet(p.constants, Held(s, 1).n))
           result == Append(Drop(s, MinArgs(op)), Unknown)
           array == Append(Drop(s, Nr(Held(s, 1)) + 1), Unknown)
           called == [i \in 1..(Len(s.stack) - Nr(Held(s, 2)) - 1) |-> Unknown]
           less == Drop(s, MinArgs(op))
<1>2. StackAfter(p, q, s) = CASE op = "PUSH" -> pushed
                              [] op = "DUP" -> again
                              [] op = "CONSTANT" -> constant
                              [] op \in Results -> result
                              [] op = "MKARRAY" -> array
                              [] op = "CALL" -> called
                              [] OTHER -> less
  BY Zenon DEF StackAfter
<1> HIDE DEF pushed, again, constant, result, array, called, less
<1>3. op = "PUSH" => StackAfter(p, q, s) = pushed
  BY <1>1, <1>2
<1>4. op = "DUP" => StackAfter(p, q, s) = again
  BY <1>1, <1>2
<1>5. op = "CONSTANT" => StackAfter(p, q, s) = constant
  BY <1>1, <1>2
<1>6. op \in Results => StackAfter(p, q, s) = result
  BY <1>1, <1>2
<1>7. op = "MKARRAY" => StackAfter(p, q, s) = array
  BY <1>1, <1>2
<1>8. op = "CALL" => StackAfter(p, q, s) = called
  BY <1>1, <1>2
<1>9. op \notin Results \cup {"PUSH", "DUP", "CONSTANT", "MKARRAY", "CALL"} =>
        StackAfter(p, q, s) = less
  BY <1>2
<1>10. QED
  BY <1>3, <1>4, <1>5, <1>6, <1>7, <1>8, <1>9 DEF pushed, again, constant, result, array, called, less

---------------------------------------------------------------------------
(* Steps within a function. *)

LEMMA OperandsKnown ==
  ASSUME NEW bases, NEW exact, Here(bases, exact)
  PROVE  MinArgs(Op) \in 0..Len(Shape.stack)
<1>1. Len(Shape.stack) >= MinArgs(Op)
  BY HereIs DEF Runnable, Op
<1>2. MinArgs(Op) \in 0..3 /\ Len(Shape.stack) \in Nat
  BY ArgsNeeded, HeldIs
<1>3. QED BY <1>1, <1>2

LEMMA Dropped ==
  ASSUME NEW bases, NEW exact, Here(bases, exact), NEW n \in 0..Len(Shape.stack)
  PROVE  /\ Sequence(Drop(Shape, n)) /\ Sequence(Below(n))
         /\ OnTop(Drop(Shape, n), Below(n), bases[Len(frames)], exact)
<1>1. /\ Sequence(Shape.stack) /\ Sequence(vstack) /\ bases[Len(frames)] \in Nat
      /\ OnTop(Shape.stack, vstack, bases[Len(frames)], exact)
  BY HereIs DEF Here
<1>2. QED BY <1>1, OnTopDrop DEF Drop, Below

LEMMA Exchanged ==
  ASSUME NEW bases, NEW exact, Here(bases, exact), NEW n \in 0..Len(Shape.stack),
         NEW v, NEW k \in {Unknown, v}
  PROVE  /\ Sequence(Append(Drop(Shape, n), k)) /\ Sequence(Append(Below(n), v))
         /\ OnTop(Append(Drop(Shape, n), k), Append(Below(n), v), bases[Len(frames)], exact)
<1>1. /\ Sequence(Drop(Shape, n)) /\ Sequence(Below(n)) /\ bases[Len(frames)] \in Nat
      /\ OnTop(Drop(Shape, n), Below(n), bases[Len(frames)], exact)
  BY Dropped, HereIs
<1>2. Sequence(Append(Drop(Shape, n), k)) /\ Sequence(Append(Below(n), v))
  BY <1>1, SequenceAppend
<1>3. QED BY <1>1, <1>2, OnTopPush

LEMMA WholeStack ==
  ASSUME NEW bases, NEW exact, Here(bases, exact)
  PROVE  Below(0) = vstack /\ Drop(Shape, 0) = Shape.stack
<1>1. ASSUME NEW s, Sequence(s) PROVE SubSeq(s, 1, Len(s) - 0) = s
  <2>1. Len(s) - 0 = Len(s) /\ Len(s) \in 0..Len(s)
    BY <1>1, SequenceIs
  <2>2. QED BY <1>1, <2>1, Beginning, SequenceEqual
<1>2. QED BY <1>1, HereIs DEF Here, Below, Drop

\* Values are consumed and nothing is pushed.
LEMMA Pops ==
  ASSUME NEW bases, NEW exact, Here(bases, exact), prog' = prog, status' = "running",
         SameCalls(frames, frames'), <<pc', frames'[Len(frames)].loops>> \in Leads(prog, pc, Shape),
         Op \notin Results \cup {"PUSH", "DUP", "CONSTANT", "MKARRAY", "CALL"},
         vstack' = Below(MinArgs(Op))
  PROVE  Keeps(exact)'
<1>1. StackAfter(prog, pc, Shape) = Drop(Shape, MinArgs(Op))
  BY StackAfterIs DEF Op
<1>2. /\ Sequence(Drop(Shape, MinArgs(Op))) /\ Sequence(Below(MinArgs(Op)))
      /\ OnTop(Drop(Shape, MinArgs(Op)), Below(MinArgs(Op)), bases[Len(frames)], exact)
  BY OperandsKnown, Dropped
<1>3. QED BY <1>1, <1>2, Moves

\* The loops of the running function are those of its shape still.
LEMMA SameFrames ==
  ASSUME NEW bases, NEW exact, Here(bases, exact), frames' = frames
  PROVE  SameCalls(frames, frames') /\ frames'[Len(frames)].loops = Shape.loops
BY HereIs DEF SameCalls, Here

Trapping == {"MUL", "MYMUL", "DIVIDE", "MODULO", "INDEX1", "INDEXAS", "CALL"}

\* The machine may trap where an operation has no result for its operands.
LEMMA Trapped ==
  ASSUME NEW bases, NEW exact, Here(bases, exact), prog' = prog, status' = "crashed",
         UNCHANGED <<pc, vstack, frames>>, Op \in Trapping
  PROVE  Keeps(exact)'
<1>1. DataFault'
  <2>1. NrOps' = NrOps /\ Op' = Op
    BY DEF NrOps, Op
  <2>2. QED BY <2>1 DEF DataFault, Here, Trapping
<1>2. QED BY <1>1 DEF Keeps, Here

\* One value is pushed for the operands.
LEMMA Yields ==
  ASSUME NEW bases, NEW exact, Here(bases, exact), prog' = prog, status = "running",
         frames' = frames, Op \notin Jumps, NEW n \in 0..Len(Shape.stack), NEW r, Yield(r, Below(n)),
         r.t = "crash" => Op \in Trapping,
         NEW k, StackAfter(prog, pc, Shape) = Append(Drop(Shape, n), k),
         k = Unknown \/ (k = r /\ r.t \notin {"newarr", "newmap"})
  PROVE  Keeps(exact)'
<1>1. CASE r.t = "crash"
  BY <1>1, Trapped DEF Yield
<1>2. CASE r.t # "crash"
  <2>1. PICK v : vstack' = Append(Below(n), v) /\ k \in {Unknown, v}
    BY <1>2 DEF Yield, Continue
  <2>2. pc' = pc + 1 /\ status' = "running"
    BY <1>2 DEF Yield, Continue
  <2>3. <<pc', Shape.loops>> \in Leads(prog, pc, Shape)
    BY <2>2, LeadsNext DEF Op
  <2>4. /\ Sequence(Append(Drop(Shape, n), k)) /\ Sequence(vstack')
        /\ OnTop(Append(Drop(Shape, n), k), vstack', bases[Len(frames)], exact)
    BY <2>1, Exchanged
  <2>5. QED BY <2>2, <2>3, <2>4, Passes
<1>3. QED BY <1>1, <1>2

---------------------------------------------------------------------------
(* Values and arithmetic. *)

LEMMA BinaryTraps ==
  ASSUME NEW v, NEW w, NEW op \in Compare \cup Arith, BinaryResult(op, v, w).t = "crash"
  PROVE  op \in Trapping
<1>1. \A b : Bool(b).t = "num"
  BY Tags DEF Bool
<1>2. CASE op \in Compare
  <2>1. op = "EQUAL" => BinaryResult(op, v, w).t = "num"
    BY <1>1 DEF BinaryResult
  <2>2. op = "NOTEQUAL" => BinaryResult(op, v, w).t = "num"
    BY <1>1 DEF BinaryResult
  <2>3. op = "LESS" => BinaryResult(op, v, w).t = "num"
    BY <1>1 DEF BinaryResult
  <2>4. op = "LESSEQUAL" => BinaryResult(op, v, w).t = "num"
    BY <1>1 DEF BinaryResult
  <2>5. op = "GREATER" => BinaryResult(op, v, w).t = "num"
    BY <1>1 DEF BinaryResult
  <2>6. op = "GREATEREQUAL" => BinaryResult(op, v, w).t = "num"
    BY <1>1 DEF BinaryResult
  <2>7. QED BY <1>2, <2>1, <2>2, <2>3, <2>4, <2>5, <2>6 DEF Compare
<1>3. op = "ADD" => BinaryResult(op, v, w).t # "crash"
  <2>1. op = "ADD" => BinaryResult(op, v, w) = ValAdd(v, w, arrs)
    BY DEF BinaryResult
  <2>2. ValAdd(v, w, arrs).t # "crash"
    <3>1. CASE v.t = "str" /\ w.t = "str"
      BY <3>1, Tags DEF ValAdd
    <3>2. CASE v.t = "num" /\ w.t = "num"
      BY <3>2, Tags DEF ValAdd
    <3>3. CASE v.t = "arr" /\ w.t = "arr"
      BY <3>3, Tags DEF ValAdd
    <3>4. CASE v.t = "arr" /\ w.t # "arr"
      BY <3>4, Tags DEF ValAdd
    <3>5. CASE /\ ~(v.t = "str" /\ w.t = "str") /\ ~(v.t = "num" /\ w.t = "num")
               /\ ~(v.t = "arr" /\ w.t = "arr") /\ ~(v.t = "arr" /\ w.t # "arr")
      BY <3>5, Tags, Zenon DEF ValAdd
    <3>6. QED BY <3>1, <3>2, <3>3, <3>4, <3>5
  <2>3. QED BY <2>1, <2>2
<1>4. op = "SUB" => BinaryResult(op, v, w).t # "crash"
  <2>1. op = "SUB" => BinaryResult(op, v, w) = ValSub(v, w)
    BY DEF BinaryResult
  <2>2. QED BY <2>1, Tags DEF ValSub
<1>5. op \in {"AND", "OR"} => BinaryResult(op, v, w).t = "num"
  BY <1>1 DEF BinaryResult
<1>6. QED BY <1>2, <1>3, <1>4, <1>5 DEF Arith, Trapping

LEMMA GoodTag ==
  ASSUME NEW v, NEW kind, Good(v, kind)
  PROVE  v.t \notin {"crash", "newarr", "newmap"}
BY DEF Good

LEMMA UnaryDoesNotTrap ==
  ASSUME NEW kind, MachineOK(NrOps, vstack, frames, globals, arrs, kind), prog \in Programs,
         NEW v, Good(v, kind), NEW op \in Unary,
         op \in {"CONSTANT", "GETVAR", "GETGLOBAL"} => v.t = "num",
         op = "GETVAR" => frames # <<>> /\ Slot(v.n) >= 0,
         op \in {"CONSTANT", "GETGLOBAL"} => v.n >= 0,
         NEW r \in UnaryResults(op, v)
  PROVE  r.t # "crash" /\ (op = "CONSTANT" => r.t \notin {"newarr", "newmap"})
<1>1. v.t = "num" => v.n \in Int
  BY Ints DEF Good
<1>2. v.t # "crash"
  BY GoodTag
<1>3. op = "NEGATE" => r.t # "crash"
  BY Tags DEF UnaryResults, ValNeg
<1>4. op \in {"INC", "DEC"} => r.t # "crash"
  BY <1>2, Tags DEF UnaryResults
<1>5. op = "NOT" => r.t # "crash"
  <2>1. op = "NOT" => r \in NotResults(v)
    BY DEF UnaryResults
  <2>2. QED BY <2>1, Tags DEF NotResults, Bool
<1>6. op = "LEN" => r.t # "crash"
  BY Tags DEF UnaryResults
<1>7. op = "COPY" => r.t # "crash"
  <2>1. op = "COPY" => r = ValDup(v, arrs)
    BY DEF UnaryResults
  <2>2. ValDup(v, arrs).t # "crash"
    BY <1>2, Tags DEF ValDup
  <2>3. QED BY <2>1, <2>2
<1>8. op = "CONSTANT" => Good(r, kind)
  <2>1. op = "CONSTANT" => r = ArrGet(prog.constants, v.n)
    BY DEF UnaryResults
  <2>2. QED BY <1>1, <2>1, ProgramOK, ArrGetGood
<1>9. op = "GETGLOBAL" => Good(r, kind)
  <2>1. op = "GETGLOBAL" => r = ArrGet(globals, v.n)
    BY DEF UnaryResults
  <2>2. Filled(globals, kind)
    BY DEF MachineOK, Tidy
  <2>3. QED BY <1>1, <2>1, <2>2, ArrGetGood
<1>10. op = "GETVAR" => Good(r, kind)
  <2>1. op = "GETVAR" => r = ArrGet(Frame.vars, Slot(v.n))
    <3>1. op = "GETVAR" => Slot(v.n) # -1 /\ Slot(v.n) # -2
      OBVIOUS
    <3>2. QED BY <3>1 DEF UnaryResults, Loaded
  <2>2. op = "GETVAR" => Filled(Frame.vars, kind)
    BY FrameIs DEF MachineOK, FrameOK, Tidy
  <2>3. op = "GETVAR" => Slot(v.n) \in Int
    <3>1. op = "GETVAR" => v.n + 2 \in Int
      BY <1>1
    <3>2. op = "GETVAR" => Wrap(v.n + 2) \in Int
      BY <3>1, WrapIs, Ints
    <3>3. QED BY <3>2 DEF Slot
  <2>4. QED BY <2>1, <2>2, <2>3, ArrGetGood
<1>11. QED
  BY <1>3, <1>4, <1>5, <1>6, <1>7, <1>8, <1>9, <1>10, GoodTag DEF Unary

LEMMA PushKeeps ==
  ASSUME IInv, NEW bases, NEW exact, Here(bases, exact), op_push
  PROVE  Keeps(exact)'
<1> DEFINE v == Num(prog.ops[pc + 1].n)
<1>1. Executes({"PUSH"}) /\ vstack' = Append(vstack, v) /\ pc' = pc + 1 /\ status' = status /\ frames' = frames
  BY DEF op_push, Continue
<1>2. status = "running" /\ prog' = prog /\ Op = "PUSH" /\ status' = "running" /\ frames' = frames
  BY <1>1, Ready
<1>3. StackAfter(prog, pc, Shape) = Append(Drop(Shape, 0), v)
  BY <1>2, StackAfterIs, WholeStack DEF Op
<1> HIDE DEF v
<1>4. 0 \in 0..Len(Shape.stack)
  BY HeldIs
<1>5. /\ Sequence(Append(Drop(Shape, 0), v)) /\ Sequence(vstack')
      /\ OnTop(Append(Drop(Shape, 0), v), vstack', bases[Len(frames)], exact)
  BY <1>1, <1>4, Exchanged, WholeStack
<1>6. <<pc', Shape.loops>> \in Leads(prog, pc, Shape)
  BY <1>1, <1>2, LeadsNext DEF Op, Jumps
<1>7. QED BY <1>2, <1>3, <1>5, <1>6, Passes

\* The result of an operation on the values on top is not known.
LEMMA ResultKeeps ==
  ASSUME IInv, NEW bases, NEW exact, Here(bases, exact), prog' = prog, status = "running",
         frames' = frames, Op \in Results, NEW r, Yield(r, Below(MinArgs(Op))),
         r.t = "crash" => Op \in Trapping
  PROVE  Keeps(exact)'
<1>1. StackAfter(prog, pc, Shape) = Append(Drop(Shape, MinArgs(Op)), Unknown)
  BY StackAfterIs DEF Op
<1>2. Op \notin Jumps
  BY DEF Results, Jumps, Compare, Arith
<1>3. MinArgs(Op) \in 0..Len(Shape.stack)
  BY OperandsKnown
<1> DEFINE n == MinArgs(Op)
<1> HIDE DEF n
<1>4. n \in 0..Len(Shape.stack) /\ Yield(r, Below(n)) /\ StackAfter(prog, pc, Shape) = Append(Drop(Shape, n), Unknown)
  BY <1>1, <1>3 DEF n
<1>5. QED BY <1>2, <1>4, Yields

LEMMA BinaryKeeps ==
  ASSUME IInv, NEW bases, NEW exact, Here(bases, exact), op_binary
  PROVE  Keeps(exact)'
<1>1. Executes(Compare \cup Arith) /\ Yield(BinaryResult(Op, Top(1), Top(2)), Below(2)) /\ frames' = frames
  BY DEF op_binary
<1>2. status = "running" /\ prog' = prog /\ Op \in Compare \cup Arith
  BY <1>1, Ready
<1>3. MinArgs(Op) = 2 /\ Op \in Results
  BY <1>2, MinArgsIs DEF Binary, Results
<1>4. QED BY <1>1, <1>2, <1>3, BinaryTraps, ResultKeeps

LEMMA UnaryKeeps ==
  ASSUME IInv, NEW bases, NEW exact, Here(bases, exact), op_unary
  PROVE  Keeps(exact)'
<1>1. PICK r \in UnaryResults(Op, Top(1)) : Yield(r, Below(1))
  BY DEF op_unary
<1>2. Executes(Unary) /\ frames' = frames
  BY DEF op_unary
<1>3. PICK kind : MachineOK(NrOps, vstack, frames, globals, arrs, kind)
  BY <1>2, Ready
<1>4. status = "running" /\ prog' = prog /\ prog \in Programs /\ Op \in Unary
  BY <1>2, Ready
<1>5. Op \notin Nullary \cup Binary \cup Ternary
  BY <1>4 DEF Unary, Nullary, Binary, Ternary, Compare, Arith
<1>6. MinArgs(Op) = 1 /\ 1 \in 0..Len(Shape.stack)
  BY <1>5, MinArgsIs, OperandsKnown
<1>7. Good(Top(1), kind)
  BY <1>2, <1>3, <1>5, Ready, Operand
<1>8. Op \in {"CONSTANT", "GETVAR", "GETGLOBAL"} => Held(Shape, 1) = Top(1) /\ Top(1).t = "num"
  BY NumberHeld DEF NumberOnTop
<1>9. /\ Op = "GETVAR" => frames # <<>> /\ Slot(Top(1).n) >= 0
      /\ Op \in {"CONSTANT", "GETGLOBAL"} => Top(1).n >= 0
  BY <1>8, HereIs DEF Runnable, Op
<1>10. r.t # "crash" /\ (Op = "CONSTANT" => r.t \notin {"newarr", "newmap"})
  BY <1>1, <1>3, <1>4, <1>7, <1>8, <1>9, UnaryDoesNotTrap
<1>11. CASE Op = "CONSTANT"
  <2>1. StackAfter(prog, pc, Shape) = Append(Drop(Shape, 1), ArrGet(prog.constants, Held(Shape, 1).n))
    BY <1>11, StackAfterIs DEF Op
  <2>2. r = ArrGet(prog.constants, Held(Shape, 1).n)
    BY <1>1, <1>8, <1>11 DEF UnaryResults
  <2>3. Op \notin Jumps
    BY <1>11 DEF Jumps
  <2>4. QED BY <1>1, <1>2, <1>4, <1>6, <1>10, <1>11, <2>1, <2>2, <2>3, Yields
<1>12. CASE Op # "CONSTANT"
  <2>1. Op \in Results
    BY <1>4, <1>12 DEF Unary, Results
  <2>2. QED BY <1>1, <1>2, <1>4, <1>6, <1>10, <2>1, ResultKeeps
<1>13. QED BY <1>11, <1>12

LEMMA CreateKeeps ==
  ASSUME IInv, NEW bases, NEW exact, Here(bases, exact), op_createval
  PROVE  Keeps(exact)'
<1>1. Executes({"CREATEVAL"}) /\ Yield(Created(Top(1).n), Below(1)) /\ Top(1).n # 3 /\ frames' = frames
  BY DEF op_createval
<1>2. status = "running" /\ prog' = prog /\ Op = "CREATEVAL"
  BY <1>1, Ready
<1>3. Op \notin Nullary \cup Binary \cup Ternary /\ Op \in Results /\ Op \in NumberOnTop
  BY <1>2 DEF Nullary, Binary, Ternary, Compare, Arith, Results, NumberOnTop
<1>4. MinArgs(Op) = 1
  BY <1>3, MinArgsIs
<1>5. Top(1).n \in 0..6
  BY <1>2, <1>3, HereIs, NumberHeld DEF Runnable, Op
<1>6. Created(Top(1).n).t # "crash"
  <2>1. Top(1).n \in {0, 1, 2, 4, 5, 6}
    BY <1>1, <1>5
  <2>2. QED BY <1>5, <2>1, Tags DEF Created
<1>7. QED BY <1>1, <1>2, <1>3, <1>4, <1>6, ResultKeeps

LEMMA CastKeeps ==
  ASSUME IInv, NEW bases, NEW exact, Here(bases, exact), op_cast
  PROVE  Keeps(exact)'
<1>1. Executes({"CAST"}) /\ Yield(Cast(Top(1).n, Top(2)), Below(2)) /\ frames' = frames
  BY DEF op_cast
<1>2. status = "running" /\ prog' = prog /\ Op = "CAST"
  BY <1>1, Ready
<1>3. Op \in Binary /\ Op \in Results /\ Op \in NumberOnTop
  BY <1>2 DEF Binary, Results, NumberOnTop
<1>4. MinArgs(Op) = 2
  BY <1>3, MinArgsIs
<1>5. Top(1).n \in 0..6
  BY <1>2, <1>3, HereIs, NumberHeld DEF Runnable, Op
<1>6. PICK kind : Good(Top(2), kind)
  <2>1. PICK kind : MachineOK(NrOps, vstack, frames, globals, arrs, kind)
    BY <1>1, Ready
  <2>2. QED BY <1>1, <1>3, <2>1, Ready, Operands2
<1>7. Top(2).t # "crash" /\ ToNum(Top(2)).t # "crash"
  BY <1>6, ToNumGood, GoodTag
<1>8. Cast(Top(1).n, Top(2)).t # "crash"
  BY <1>5, <1>7, Tags DEF Cast
<1>9. QED BY <1>1, <1>2, <1>3, <1>4, <1>8, ResultKeeps

LEMMA MkarrayKeeps ==
  ASSUME IInv, NEW bases, NEW exact, Here(bases, exact), op_mkarray
  PROVE  Keeps(exact)'
<1> DEFINE nr == IF Top(1).n < 0 THEN 0 ELSE Top(1).n
           r == NewArr(Trim([i \in 1..nr |-> Top(i + 1)]))
           n == nr + 1
<1>1. Executes({"MKARRAY"}) /\ Yield(r, Below(n)) /\ frames' = frames
  BY DEF op_mkarray
<1>2. status = "running" /\ prog' = prog /\ Op = "MKARRAY"
  BY <1>1, Ready
<1>3. Op \in NumberOnTop /\ Op \notin Jumps
  BY <1>2 DEF NumberOnTop, Jumps
<1>4. Held(Shape, 1) = Top(1) /\ Len(Shape.stack) >= 1 /\ Top(1).t = "num"
  BY <1>3, NumberHeld
<1>5. Len(Shape.stack) \in Nat /\ Top(1).n \in Int
  BY <1>4, HeldIs, NumberIs
<1>6. Len(Shape.stack) - 1 >= Top(1).n
  BY <1>2, <1>4, HereIs DEF Runnable, Op
<1>7. n \in 0..Len(Shape.stack)
  BY <1>4, <1>5, <1>6
<1>8. StackAfter(prog, pc, Shape) = Append(Drop(Shape, n), Unknown)
  BY <1>2, <1>4, StackAfterIs DEF Op, Nr
<1>9. r.t # "crash"
  BY Tags
<1> HIDE DEF r, n
<1>10. QED BY <1>1, <1>2, <1>3, <1>7, <1>8, <1>9, Yields, Zenon

LEMMA IndexasKeeps ==
  ASSUME IInv, NEW bases, NEW exact, Here(bases, exact), op_indexas
  PROVE  Keeps(exact)'
<1>1. Executes({"INDEXAS"}) /\ frames' = frames
  BY DEF op_indexas
<1>2. status = "running" /\ prog' = prog /\ Op = "INDEXAS"
  BY <1>1, Ready
<1>3. CASE WriteIsLost(Top(1), Top(2), Top(3))
  <2>1. status' = "crashed" /\ UNCHANGED <<pc, vstack>>
    BY <1>3 DEF op_indexas
  <2>2. QED BY <1>1, <1>2, <2>1, Trapped DEF Trapping
<1>4. CASE ~WriteIsLost(Top(1), Top(2), Top(3))
  <2>1. vstack' = Append(Below(3), Top(3)) /\ pc' = pc + 1 /\ status' = status
    BY <1>4 DEF op_indexas, Continue
  <2>2. MinArgs(Op) = 3 /\ Op \in Results
    BY <1>2, MinArgsIs DEF Ternary, Results
  <2>3. StackAfter(prog, pc, Shape) = Append(Drop(Shape, 3), Unknown) /\ 3 \in 0..Len(Shape.stack)
    BY <2>2, StackAfterIs, OperandsKnown DEF Op
  <2>4. <<pc', Shape.loops>> \in Leads(prog, pc, Shape)
    BY <1>2, <2>1, LeadsNext DEF Op, Jumps
  <2>5. /\ Sequence(Append(Drop(Shape, 3), Unknown)) /\ Sequence(vstack')
        /\ OnTop(Append(Drop(Shape, 3), Unknown), vstack', bases[Len(frames)], exact)
    BY <2>1, <2>3, Exchanged
  <2>6. status' = "running"
    BY <1>2, <2>1
  <2>7. QED BY <1>1, <1>2, <2>3, <2>4, <2>5, <2>6, Passes
<1>5. QED BY <1>3, <1>4

LEMMA DupKeeps ==
  ASSUME IInv, NEW bases, NEW exact, Here(bases, exact), op_dup
  PROVE  Keeps(exact)'
<1>1. Executes({"DUP"}) /\ vstack' = Append(vstack, Top(1)) /\ pc' = pc + 1 /\ status' = status /\ frames' = frames
  BY DEF op_dup, Continue
<1>2. status = "running" /\ prog' = prog /\ Op = "DUP" /\ status' = "running" /\ frames' = frames
  BY <1>1, Ready
<1>3. StackAfter(prog, pc, Shape) = Append(Drop(Shape, 0), Held(Shape, 1))
  BY <1>2, StackAfterIs, WholeStack DEF Op
<1>4. Op \notin Nullary
  BY <1>2 DEF Nullary
<1>5. MinArgs(Op) \in 0..Len(Shape.stack) /\ MinArgs(Op) >= 1 /\ Len(Shape.stack) \in Nat
  BY <1>4, ArgsNeeded, OperandsKnown, HeldIs
<1>6. 1 \in 1..Len(Shape.stack) /\ 0 \in 0..Len(Shape.stack)
  BY <1>5
<1>7. Held(Shape, 1) \in {Unknown, Top(1)}
  BY <1>6, HeldIs
<1>8. /\ Sequence(Append(Drop(Shape, 0), Held(Shape, 1))) /\ Sequence(vstack')
      /\ OnTop(Append(Drop(Shape, 0), Held(Shape, 1)), vstack', bases[Len(frames)], exact)
  BY <1>1, <1>6, <1>7, Exchanged, WholeStack
<1>9. <<pc', Shape.loops>> \in Leads(prog, pc, Shape)
  BY <1>1, <1>2, LeadsNext DEF Op, Jumps
<1>10. QED BY <1>2, <1>3, <1>8, <1>9, Passes

\* Operations that only consume their operands, or have none.
Plain == {"DISCARD", "PRINT", "NOOP", "CONDEND", "SETVAR", "SETGLOBAL"}

LEMMA PlainIs ==
  ASSUME NEW op \in Plain
  PROVE  /\ op \notin Results \cup {"PUSH", "DUP", "CONSTANT", "MKARRAY", "CALL"}
         /\ op \notin Jumps
         /\ op \in {"DISCARD", "PRINT"} => MinArgs(op) = 1
         /\ op \in {"NOOP", "CONDEND"} => MinArgs(op) = 0
         /\ op \in {"SETVAR", "SETGLOBAL"} => MinArgs(op) = 2
<1>1. op \notin Results \cup {"PUSH", "DUP", "CONSTANT", "MKARRAY", "CALL"} /\ op \notin Jumps
  BY DEF Plain, Results, Jumps, Compare, Arith
<1>2. op \in {"DISCARD", "PRINT"} => op \notin Nullary \cup Binary \cup Ternary
  BY DEF Nullary, Binary, Ternary, Compare, Arith
<1>3. op \in {"NOOP", "CONDEND"} => op \in Nullary
  BY DEF Nullary
<1>4. op \in {"SETVAR", "SETGLOBAL"} => op \in Binary
  BY DEF Binary
<1>5. QED BY <1>1, <1>2, <1>3, <1>4, MinArgsIs, ArgsNeeded

LEMMA PlainKeeps ==
  ASSUME IInv, NEW bases, NEW exact, Here(bases, exact), op_discard \/ op_print \/ op_noop
  PROVE  Keeps(exact)'
<1>1. CASE op_discard \/ op_print
  <2>1. Executes({"DISCARD", "PRINT"}) /\ vstack' = Below(1) /\ pc' = pc + 1 /\ status' = status /\ frames' = frames
    BY <1>1 DEF op_discard, op_print, Continue, Executes, At
  <2>2. status = "running" /\ prog' = prog /\ Op \in {"DISCARD", "PRINT"}
    BY <2>1, Ready
  <2>3. Op \in Plain
    BY <2>2 DEF Plain
  <2>4. /\ Op \notin Results \cup {"PUSH", "DUP", "CONSTANT", "MKARRAY", "CALL"}
        /\ Op \notin Jumps /\ vstack' = Below(MinArgs(Op))
    BY <2>1, <2>2, <2>3, PlainIs
  <2>5. SameCalls(frames, frames') /\ <<pc', frames'[Len(frames)].loops>> \in Leads(prog, pc, Shape)
    BY <2>1, <2>4, LeadsNext, SameFrames DEF Op
  <2>6. status' = "running"
    BY <2>1, <2>2
  <2>7. QED BY <2>2, <2>4, <2>5, <2>6, Pops
<1>2. CASE op_noop
  <2>1. Executes({"NOOP", "CONDEND"}) /\ vstack' = vstack /\ pc' = pc + 1 /\ status' = status /\ frames' = frames
    BY <1>2 DEF op_noop, Continue
  <2>2. status = "running" /\ prog' = prog /\ Op \in {"NOOP", "CONDEND"}
    BY <2>1, Ready
  <2>3. Op \in Plain
    BY <2>2 DEF Plain
  <2>4. /\ Op \notin Results \cup {"PUSH", "DUP", "CONSTANT", "MKARRAY", "CALL"}
        /\ Op \notin Jumps /\ vstack' = Below(MinArgs(Op))
    BY <2>1, <2>2, <2>3, PlainIs, WholeStack
  <2>5. SameCalls(frames, frames') /\ <<pc', frames'[Len(frames)].loops>> \in Leads(prog, pc, Shape)
    BY <2>1, <2>4, LeadsNext, SameFrames DEF Op
  <2>6. status' = "running"
    BY <2>1, <2>2
  <2>7. QED BY <2>2, <2>4, <2>5, <2>6, Pops
<1>3. QED BY <1>1, <1>2

LEMMA SetglobalKeeps ==
  ASSUME IInv, NEW bases, NEW exact, Here(bases, exact), op_setglobal
  PROVE  Keeps(exact)'
<1>1. Executes({"SETGLOBAL"}) /\ frames' = frames
  BY DEF op_setglobal
<1>2. status = "running" /\ prog' = prog /\ Op = "SETGLOBAL"
  BY <1>1, Ready
<1>3. Op \in NumberOnTop /\ Op \in Plain
  BY <1>2 DEF NumberOnTop, Plain
<1>4. Top(1).n >= 0
  BY <1>2, <1>3, NumberHeld, HereIs DEF Runnable, Op
<1>5. ~(Top(1).n < 0)
  BY <1>3, <1>4, NumberHeld, NumberIs, HeldIs
<1>6. vstack' = Below(2) /\ pc' = pc + 1 /\ status' = status
  BY <1>5 DEF op_setglobal, Continue
<1>7. /\ Op \notin Results \cup {"PUSH", "DUP", "CONSTANT", "MKARRAY", "CALL"}
      /\ Op \notin Jumps /\ vstack' = Below(MinArgs(Op))
  BY <1>2, <1>3, <1>6, PlainIs
<1>8. SameCalls(frames, frames') /\ <<pc', frames'[Len(frames)].loops>> \in Leads(prog, pc, Shape)
  BY <1>1, <1>6, <1>7, LeadsNext, SameFrames DEF Op
<1>9. status' = "running"
  BY <1>2, <1>6
<1>10. QED BY <1>2, <1>7, <1>8, <1>9, Pops

---------------------------------------------------------------------------
(* Variables and control. *)

LEMMA LeadsIs ==
  ASSUME NEW p, NEW q, NEW s, NEW op, op = p.ops[q + 1].op, NEW loopend,
         loopend = ScanFrom(p, q, "LOOPBEGIN", "LOOPEND", {}) + 1,
         NEW outer, outer = IF s.loops = <<>> THEN <<>> ELSE Front(s.loops)
  PROVE  /\ op = "JUMP" => <<Held(s, 1).n, s.loops>> \in Leads(p, q, s)
         /\ op \in {"JUMPT", "JUMPF"} =>
              {<<Held(s, 1).n, s.loops>>, <<q + 1, s.loops>>} \subseteq Leads(p, q, s)
         /\ op = "JUMPREL" =>
              {<<Wrap(q + Held(s, 1).n), s.loops>>, <<q + 1, s.loops>>} \subseteq Leads(p, q, s)
         /\ op = "CONDBEGIN" =>
              {<<q + 1, s.loops>>,
               <<ScanFrom(p, q, "CONDBEGIN", "CONDEND", {"CONDELSE"}) + 1, s.loops>>}
                 \subseteq Leads(p, q, s)
         /\ op = "CONDELSE" =>
              <<ScanFrom(p, q, "CONDBEGIN", "CONDEND", {}) + 1, s.loops>> \in Leads(p, q, s)
         /\ op = "LOOPBEGIN" => <<q + 1, Append(s.loops, q)>> \in Leads(p, q, s)
         /\ op \in {"LOOPEND", "LOOPRESTART"} => <<Last(s.loops) + 1, s.loops>> \in Leads(p, q, s)
         /\ op = "LOOPEXIT" => <<loopend, outer>> \in Leads(p, q, s)
         /\ op = "LOOPBODY" => {<<q + 1, s.loops>>, <<loopend, outer>>} \subseteq Leads(p, q, s)
<1> DEFINE there == <<Held(s, 1).n, s.loops>>
           next == <<q + 1, s.loops>>
           ahead == <<Wrap(q + Held(s, 1).n), s.loops>>
           else == <<ScanFrom(p, q, "CONDBEGIN", "CONDEND", {"CONDELSE"}) + 1, s.loops>>
           end == <<ScanFrom(p, q, "CONDBEGIN", "CONDEND", {}) + 1, s.loops>>
           enter == <<q + 1, Append(s.loops, q)>>
           again == <<Last(s.loops) + 1, s.loops>>
           leave == <<loopend, outer>>
<1>1. Leads(p, q, s) =
        CASE op = "JUMP" -> {there}
          [] op \in {"JUMPT", "JUMPF"} -> {there, next}
          [] op = "JUMPREL" -> {ahead, next}
          [] op = "CONDBEGIN" -> {next, else}
          [] op = "CONDELSE" -> {end}
          [] op = "LOOPBEGIN" -> {enter}
          [] op \in {"LOOPEND", "LOOPRESTART"} -> {again}
          [] op = "LOOPEXIT" -> {leave}
          [] op = "LOOPBODY" -> {next, leave}
          [] op \in {"RET", "HALT"} -> {}
          [] OTHER -> {next}
  BY DEF Leads
<1> HIDE DEF there, next, ahead, else, end, enter, again, leave
<1>2. op = "JUMP" => Leads(p, q, s) = {there}
  BY <1>1
<1>3. op \in {"JUMPT", "JUMPF"} => Leads(p, q, s) = {there, next}
  BY <1>1
<1>4. op = "JUMPREL" => Leads(p, q, s) = {ahead, next}
  BY <1>1
<1>5. op = "CONDBEGIN" => Leads(p, q, s) = {next, else}
  BY <1>1
<1>6. op = "CONDELSE" => Leads(p, q, s) = {end}
  BY <1>1
<1>7. op = "LOOPBEGIN" => Leads(p, q, s) = {enter}
  BY <1>1
<1>8. op \in {"LOOPEND", "LOOPRESTART"} => Leads(p, q, s) = {again}
  BY <1>1
<1>9. op = "LOOPEXIT" => Leads(p, q, s) = {leave}
  BY <1>1
<1>10. op = "LOOPBODY" => Leads(p, q, s) = {next, leave}
  BY <1>1
<1>11. QED
  BY <1>2, <1>3, <1>4, <1>5, <1>6, <1>7, <1>8, <1>9, <1>10, Zenon
     DEF there, next, ahead, else, end, enter, again, leave

\* The jumps take their operands from the stack and push nothing.
LEMMA JumpsIs ==
  ASSUME NEW op \in Jumps
  PROVE  /\ op \notin Results \cup {"PUSH", "DUP", "CONSTANT", "MKARRAY", "CALL"}
         /\ op \in {"JUMP", "CONDBEGIN", "LOOPBODY"} => MinArgs(op) = 1
         /\ op \in {"CONDELSE", "LOOPBEGIN", "LOOPEND", "LOOPRESTART", "LOOPEXIT"} => MinArgs(op) = 0
         /\ op \in {"JUMPT", "JUMPF", "JUMPREL"} => MinArgs(op) = 2
<1>1. op \notin Results \cup {"PUSH", "DUP", "CONSTANT", "MKARRAY", "CALL"}
  BY DEF Results, Jumps, Compare, Arith
<1>2. op \in {"JUMP", "CONDBEGIN", "LOOPBODY"} => op \notin Nullary \cup Binary \cup Ternary
  BY DEF Nullary, Binary, Ternary, Compare, Arith
<1>3. op \in {"CONDELSE", "LOOPBEGIN", "LOOPEND", "LOOPRESTART", "LOOPEXIT"} => op \in Nullary
  BY DEF Nullary
<1>4. op \in {"JUMPT", "JUMPF", "JUMPREL"} => op \in Binary
  BY DEF Binary
<1>5. QED BY <1>1, <1>2, <1>3, <1>4, MinArgsIs, ArgsNeeded

\* The frame of the running function is replaced, but still returns to its caller.
LEMMA InnermostChanges ==
  ASSUME NEW bases, NEW exact, Here(bases, exact), NEW fr, fr.ret = Frame.ret, fr.lent = Frame.lent,
         frames' = [frames EXCEPT ![Len(frames)] = fr]
  PROVE  SameCalls(frames, frames') /\ frames'[Len(frames)] = fr
<1>1. Sequence(frames) /\ Len(frames) \in Nat /\ Len(frames) >= 1 /\ DOMAIN frames = 1..Len(frames)
      /\ Frame = frames[Len(frames)]
  BY HereIs, SequenceIs DEF Here
<1>2. frames' = [d \in 1..Len(frames) |-> IF d = Len(frames) THEN fr ELSE frames[d]]
  BY <1>1
<1>3. Sequence(frames') /\ Len(frames') = Len(frames)
  <2>1. frames' = [d \in 1..Len(frames) |-> frames'[d]]
    BY <1>2
  <2>2. QED BY <1>1, <2>1, SequenceMade
<1>4. frames'[Len(frames)] = fr /\ \A d \in 1..(Len(frames) - 1) : frames'[d] = frames[d]
  <2>1. \A n \in Nat : n >= 1 => n \in 1..n /\ \A d \in 1..(n - 1) : d \in 1..n /\ d # n
    OBVIOUS
  <2>2. Len(frames) \in 1..Len(frames) /\ \A d \in 1..(Len(frames) - 1) : d \in 1..Len(frames) /\ d # Len(frames)
    BY <1>1, <2>1
  <2>3. QED BY <1>2, <2>2
<1>5. ASSUME NEW d \in 1..Len(frames)
      PROVE  frames'[d].ret = frames[d].ret /\ frames'[d].lent = frames[d].lent
  <2>1. \A n \in Nat : \A i \in 1..n : i = n \/ i \in 1..(n - 1)
    OBVIOUS
  <2>2. d = Len(frames) \/ d \in 1..(Len(frames) - 1)
    BY <1>1, <2>1
  <2>3. QED BY <1>1, <1>4, <2>2
<1>6. QED BY <1>3, <1>4, <1>5 DEF SameCalls

LEMMA SetvarKeeps ==
  ASSUME IInv, NEW bases, NEW exact, Here(bases, exact), op_setvar
  PROVE  Keeps(exact)'
<1>1. Executes({"SETVAR"})
  BY DEF op_setvar
<1>2. status = "running" /\ prog' = prog /\ Op = "SETVAR"
  BY <1>1, Ready
<1>3. Op \in NumberOnTop /\ Op \in Plain
  BY <1>2 DEF NumberOnTop, Plain
<1>4. Slot(Top(1).n) \in Int /\ Slot(Top(1).n) >= 0
  <2>1. Slot(Top(1).n) >= 0
    BY <1>2, <1>3, NumberHeld, HereIs DEF Runnable, Op
  <2>2. Slot(Top(1).n) \in Int
    <3>1. Top(1).n + 2 \in Int
      BY <1>3, NumberHeld, NumberIs, HeldIs
    <3>2. Wrap(Top(1).n + 2) \in Int
      BY <3>1, WrapIs, Ints
    <3>3. QED BY <3>2 DEF Slot
  <2>3. QED BY <2>1, <2>2
<1>5. ~(Slot(Top(1).n) < -2) /\ Slot(Top(1).n) # -1 /\ Slot(Top(1).n) # -2
  BY <1>4
<1>6. vstack' = Below(2) /\ pc' = pc + 1 /\ status' = status
  BY <1>5 DEF op_setvar, Continue
<1>7. PICK fr : frames' = [frames EXCEPT ![Len(frames)] = fr]
                /\ fr.loops = Frame.loops /\ fr.ret = Frame.ret /\ fr.lent = Frame.lent
  <2> DEFINE fr == VarSet(frames[Len(frames)], Slot(Top(1).n), Top(2))
  <2>1. frames' = [frames EXCEPT ![Len(frames)] = fr]
    BY <1>5 DEF op_setvar
  <2>2. \E kind : FrameOK(Frame, NrOps, kind)
    BY <1>1, Ready, HereIs, FrameIs DEF MachineOK
  <2>3. fr.loops = Frame.loops /\ fr.ret = Frame.ret /\ fr.lent = Frame.lent
    BY <1>5, <2>2, HereIs DEF FrameOK, VarSet
  <2>4. QED BY <2>1, <2>3
<1>8. SameCalls(frames, frames') /\ frames'[Len(frames)].loops = Shape.loops
  BY <1>7, InnermostChanges, HereIs
<1>9. /\ Op \notin Results \cup {"PUSH", "DUP", "CONSTANT", "MKARRAY", "CALL"}
      /\ Op \notin Jumps /\ vstack' = Below(MinArgs(Op))
  BY <1>2, <1>3, <1>6, PlainIs
<1>10. <<pc', frames'[Len(frames)].loops>> \in Leads(prog, pc, Shape)
  BY <1>6, <1>8, <1>9, LeadsNext DEF Op
<1>11. status' = "running"
  BY <1>2, <1>6
<1>12. QED BY <1>2, <1>8, <1>9, <1>10, <1>11, Pops

\* A jump that leaves the frames alone.
LEMMA JumpKeeps ==
  ASSUME NEW bases, NEW exact, Here(bases, exact), prog' = prog, status = "running",
         Op \in Jumps, NEW target, Jump(target, Below(MinArgs(Op))), frames' = frames,
         <<target, Shape.loops>> \in Leads(prog, pc, Shape)
  PROVE  Keeps(exact)'
<1>1. pc' = target /\ vstack' = Below(MinArgs(Op)) /\ status' = "running"
  BY DEF Jump
<1>2. SameCalls(frames, frames') /\ frames'[Len(frames)].loops = Shape.loops
  BY SameFrames
<1>3. <<pc', frames'[Len(frames)].loops>> \in Leads(prog, pc, Shape)
  BY <1>1, <1>2
<1>4. Op \notin Results \cup {"PUSH", "DUP", "CONSTANT", "MKARRAY", "CALL"}
  BY JumpsIs
<1>5. QED BY <1>1, <1>2, <1>3, <1>4, Pops

LEMMA JumpsKeep ==
  ASSUME IInv, NEW bases, NEW exact, Here(bases, exact), op_jump \/ op_jumpcond
  PROVE  Keeps(exact)'
<1>1. CASE op_jump
  <2>1. Executes({"JUMP"}) /\ Jump(Top(1).n, Below(1)) /\ frames' = frames
    BY <1>1 DEF op_jump
  <2>2. status = "running" /\ prog' = prog /\ Op = "JUMP"
    BY <2>1, Ready
  <2>3. Op \in NumberOnTop /\ Op \in Jumps
    BY <2>2 DEF NumberOnTop, Jumps
  <2>4. MinArgs(Op) = 1
    BY <2>2, <2>3, JumpsIs
  <2>5. <<Top(1).n, Shape.loops>> \in Leads(prog, pc, Shape)
    BY <2>2, <2>3, NumberHeld, LeadsIs DEF Op
  <2>6. QED BY <2>1, <2>2, <2>3, <2>4, <2>5, JumpKeeps
<1>2. CASE op_jumpcond
  <2> DEFINE taken == Truth(Top(2), arrs) = (Op # "JUMPF")
             there == IF Op = "JUMPREL" THEN Wrap(pc + Top(1).n) ELSE Top(1).n
             target == IF taken THEN there ELSE pc + 1
  <2>1. Executes({"JUMPT", "JUMPF", "JUMPREL"}) /\ Jump(target, Below(2)) /\ frames' = frames
    BY <1>2 DEF op_jumpcond
  <2>2. status = "running" /\ prog' = prog /\ Op \in {"JUMPT", "JUMPF", "JUMPREL"}
    BY <2>1, Ready
  <2>3. Op \in NumberOnTop /\ Op \in Jumps
    BY <2>2 DEF NumberOnTop, Jumps
  <2>4. MinArgs(Op) = 2
    BY <2>2, <2>3, JumpsIs
  <2> HIDE DEF taken
  <2>5. Held(Shape, 1) = Top(1)
    BY <2>3, NumberHeld
  <2>6. target \in {there, pc + 1}
    OBVIOUS
  <2>7. {<<there, Shape.loops>>, <<pc + 1, Shape.loops>>} \subseteq Leads(prog, pc, Shape)
    <3>1. CASE Op = "JUMPREL"
      BY <2>5, <3>1, LeadsIs DEF Op
    <3>2. CASE Op \in {"JUMPT", "JUMPF"}
      BY <2>5, <3>2, LeadsIs DEF Op
    <3>3. QED BY <2>2, <3>1, <3>2
  <2>8. <<target, Shape.loops>> \in Leads(prog, pc, Shape)
    BY <2>6, <2>7
  <2> HIDE DEF target
  <2>9. QED BY <2>1, <2>2, <2>3, <2>4, <2>8, JumpKeeps
<1>3. QED BY <1>1, <1>2

\* The address after an instruction is an int.
LEMMA NextAddress ==
  ASSUME IInv, NEW q \in 0..(NrOps - 1)
  PROVE  Wrap(q + 1) = q + 1
<1>1. NrOps \in Nat /\ NrOps <= MaxInt
  BY ProgramOK DEF IInv
<1>2. q + 1 \in Int /\ q + 1 \in MinInt..MaxInt
  BY <1>1, Ints
<1>3. QED BY <1>2, WrapIs

LEMMA BranchesKeep ==
  ASSUME IInv, NEW bases, NEW exact, Here(bases, exact), op_condbegin \/ op_condelse \/ op_loopend
  PROVE  Keeps(exact)'
<1>1. CASE op_condbegin
  <2> DEFINE else == ScanFrom(prog, pc, "CONDBEGIN", "CONDEND", {"CONDELSE"})
             target == (IF Truth(Top(1), arrs) THEN pc ELSE else) + 1
  <2>1. Executes({"CONDBEGIN"}) /\ Jump(target, Below(1)) /\ frames' = frames
    BY <1>1 DEF op_condbegin, ScanEnd
  <2>2. status = "running" /\ prog' = prog /\ Op = "CONDBEGIN"
    BY <2>1, Ready
  <2>3. Op \in Jumps
    BY <2>2 DEF Jumps
  <2>4. MinArgs(Op) = 1
    BY <2>2, <2>3, JumpsIs
  <2>5. {<<pc + 1, Shape.loops>>, <<else + 1, Shape.loops>>} \subseteq Leads(prog, pc, Shape)
    BY <2>2, LeadsIs DEF Op
  <2> HIDE DEF else
  <2>6. target \in {pc + 1, else + 1}
    OBVIOUS
  <2>7. <<target, Shape.loops>> \in Leads(prog, pc, Shape)
    BY <2>5, <2>6
  <2> HIDE DEF target
  <2>8. QED BY <2>1, <2>2, <2>3, <2>4, <2>7, JumpKeeps
<1>2. CASE op_condelse
  <2> DEFINE target == ScanFrom(prog, pc, "CONDBEGIN", "CONDEND", {}) + 1
  <2>1. Executes({"CONDELSE"}) /\ Jump(target, vstack) /\ frames' = frames
    BY <1>2 DEF op_condelse, ScanEnd
  <2>2. status = "running" /\ prog' = prog /\ Op = "CONDELSE"
    BY <2>1, Ready
  <2>3. Op \in Jumps
    BY <2>2 DEF Jumps
  <2>4. Below(MinArgs(Op)) = vstack
    BY <2>2, <2>3, JumpsIs, WholeStack
  <2>5. <<target, Shape.loops>> \in Leads(prog, pc, Shape)
    BY <2>2, LeadsIs DEF Op
  <2> HIDE DEF target
  <2>6. QED BY <2>1, <2>2, <2>3, <2>4, <2>5, JumpKeeps
<1>3. CASE op_loopend
  <2>1. /\ Executes({"LOOPEND", "LOOPRESTART"})
        /\ Jump(Wrap(Last(LoopStack(Frame)).n + 1), vstack) /\ frames' = frames
    BY <1>3 DEF op_loopend
  <2>2. status = "running" /\ prog' = prog /\ Op \in {"LOOPEND", "LOOPRESTART"}
    BY <2>1, Ready
  <2>3. Op \in Jumps
    BY <2>2 DEF Jumps
  <2>4. Below(MinArgs(Op)) = vstack
    BY <2>2, <2>3, JumpsIs, WholeStack
  <2>5. Wrap(Last(LoopStack(Frame)).n + 1) = Last(Shape.loops) + 1
    <3>1. Shape.loops # <<>>
      BY <2>2, HereIs DEF Runnable, Op
    <3>2. Last(LoopStack(Frame)) = Num(Last(Shape.loops)) /\ Last(Shape.loops) \in 0..(NrOps - 1)
      BY <3>1, OwnLoops
    <3>3. Last(LoopStack(Frame)).n + 1 = Last(Shape.loops) + 1
      BY <3>2 DEF Num
    <3>4. QED BY <3>2, <3>3, NextAddress
  <2>6. <<Wrap(Last(LoopStack(Frame)).n + 1), Shape.loops>> \in Leads(prog, pc, Shape)
    BY <2>2, <2>5, LeadsIs DEF Op
  <2>7. QED BY <2>1, <2>2, <2>3, <2>4, <2>6, JumpKeeps
<1>4. QED BY <1>1, <1>2, <1>3

LEMMA LoopbeginKeeps ==
  ASSUME IInv, NEW bases, NEW exact, Here(bases, exact), op_loopbegin
  PROVE  Keeps(exact)'
<1> DEFINE fr == [frames[Len(frames)] EXCEPT !.loops = Append(@, pc)]
<1>1. Executes({"LOOPBEGIN"}) /\ vstack' = vstack /\ pc' = pc + 1 /\ status' = status
      /\ frames' = [frames EXCEPT ![Len(frames)] = fr]
  BY OwnLoops DEF op_loopbegin, Continue, LoopsPushed
<1>2. status = "running" /\ prog' = prog /\ Op = "LOOPBEGIN"
  BY <1>1, Ready
<1>3. Op \in Jumps
  BY <1>2 DEF Jumps
<1>4. fr.ret = Frame.ret /\ fr.lent = Frame.lent /\ fr.loops = Append(Shape.loops, pc)
  <2>1. \E kind : FrameOK(Frame, NrOps, kind)
    BY <1>1, Ready, HereIs, FrameIs DEF MachineOK
  <2>2. QED BY <2>1, HereIs DEF FrameOK
<1> HIDE DEF fr
<1>5. SameCalls(frames, frames') /\ frames'[Len(frames)] = fr
  BY <1>1, <1>4, InnermostChanges
<1>6. vstack' = Below(MinArgs(Op))
  BY <1>1, <1>2, <1>3, JumpsIs, WholeStack
<1>7. <<pc', frames'[Len(frames)].loops>> \in Leads(prog, pc, Shape)
  BY <1>1, <1>2, <1>4, <1>5, LeadsIs DEF Op
<1>8. Op \notin Results \cup {"PUSH", "DUP", "CONSTANT", "MKARRAY", "CALL"} /\ status' = "running"
  BY <1>1, <1>2, <1>3, JumpsIs
<1>9. QED BY <1>2, <1>5, <1>6, <1>7, <1>8, Pops

LEMMA LeaveLoopKeeps ==
  ASSUME IInv, NEW bases, NEW exact, Here(bases, exact), prog' = prog, status = "running",
         Op \in {"LOOPEXIT", "LOOPBODY"}, LeaveLoop(Below(MinArgs(Op)))
  PROVE  Keeps(exact)'
<1> DEFINE fr == [frames[Len(frames)] EXCEPT !.loops = Pop(@)]
           loopend == ScanFrom(prog, pc, "LOOPBEGIN", "LOOPEND", {}) + 1
           outer == IF Shape.loops = <<>> THEN <<>> ELSE Front(Shape.loops)
<1>1. vstack' = Below(MinArgs(Op)) /\ pc' = loopend /\ status' = "running"
      /\ frames' = [frames EXCEPT ![Len(frames)] = fr]
  BY OwnLoops DEF LeaveLoop, LoopsPopped, Jump, ScanEnd
<1>2. fr.ret = Frame.ret /\ fr.lent = Frame.lent /\ fr.loops = outer
  <2>1. \E kind : FrameOK(Frame, NrOps, kind) /\ MachineOK(NrOps, vstack, frames, globals, arrs, kind)
    BY HereIs, FrameIs, IInvIs DEF MachineOK
  <2>2. QED BY <2>1, HereIs DEF FrameOK, Pop
<1> HIDE DEF fr
<1>3. SameCalls(frames, frames') /\ frames'[Len(frames)] = fr
  BY <1>1, <1>2, InnermostChanges
<1>4. <<loopend, outer>> \in Leads(prog, pc, Shape)
  BY LeadsIs DEF Op
<1> HIDE DEF loopend, outer
<1>5. <<pc', frames'[Len(frames)].loops>> \in Leads(prog, pc, Shape)
  BY <1>1, <1>2, <1>3, <1>4
<1>6. Op \notin Results \cup {"PUSH", "DUP", "CONSTANT", "MKARRAY", "CALL"}
  BY JumpsIs DEF Jumps
<1>7. QED BY <1>1, <1>3, <1>5, <1>6, Pops

LEMMA LoopexitKeeps ==
  ASSUME IInv, NEW bases, NEW exact, Here(bases, exact), op_loopexit \/ op_loopbody
  PROVE  Keeps(exact)'
<1>1. CASE op_loopexit
  <2>1. Executes({"LOOPEXIT"}) /\ LeaveLoop(vstack)
    BY <1>1 DEF op_loopexit
  <2>2. status = "running" /\ prog' = prog /\ Op = "LOOPEXIT"
    BY <2>1, Ready
  <2>3. Below(MinArgs(Op)) = vstack
    BY <2>2, JumpsIs, WholeStack DEF Jumps
  <2>4. QED BY <2>1, <2>2, <2>3, LeaveLoopKeeps
<1>2. CASE op_loopbody
  <2>1. Executes({"LOOPBODY"})
    BY <1>2 DEF op_loopbody
  <2>2. status = "running" /\ prog' = prog /\ Op = "LOOPBODY"
    BY <2>1, Ready
  <2>3. MinArgs(Op) = 1 /\ Op \in Jumps
    BY <2>2, JumpsIs DEF Jumps
  <2>4. CASE Truth(Top(1), arrs)
    <3>1. Jump(pc + 1, Below(1)) /\ frames' = frames
      BY <1>2, <2>4 DEF op_loopbody, Continue, Jump
    <3>2. <<pc + 1, Shape.loops>> \in Leads(prog, pc, Shape)
      BY <2>2, LeadsIs DEF Op
    <3>3. QED BY <2>2, <2>3, <3>1, <3>2, JumpKeeps
  <2>5. CASE ~Truth(Top(1), arrs)
    <3>1. LeaveLoop(Below(1))
      BY <1>2, <2>5 DEF op_loopbody
    <3>2. QED BY <2>2, <2>3, <3>1, LeaveLoopKeeps
  <2>6. QED BY <2>4, <2>5
<1>3. QED BY <1>1, <1>2

---------------------------------------------------------------------------
(* Calls and returns. *)

\* Nothing is known of the n values of this stack.
AllUnknown(known, n) == Sequence(known) /\ Len(known) = n /\ \A i \in 1..n : known[i] = Unknown

LEMMA FitsUnknown ==
  ASSUME NEW less, NEW known, NEW exact, NEW n \in Nat, Sequence(less), AllUnknown(known, n),
         Fits(less, known, exact)
  PROVE  /\ Len(less) \in Nat /\ Len(less) <= n /\ (exact => Len(less) = n)
         /\ \A i \in 1..Len(less) : less[i] = Unknown
<1>1. Len(less) \in Nat /\ Len(less) <= n /\ (exact => Len(less) = n) /\ Len(known) = n
  BY SequenceIs DEF Fits, AllUnknown
<1>2. ASSUME NEW i \in 1..Len(less) PROVE less[i] = Unknown
  <2> DEFINE j == Len(less) + 1 - i
  <2>1. j \in 1..Len(less) /\ Len(less) + 1 - j = i /\ Len(known) + 1 - j \in 1..n
    BY <1>1
  <2> HIDE DEF j
  <2>2. less[Len(less) + 1 - j] \in {Unknown, known[Len(known) + 1 - j]}
    BY <2>1 DEF Fits
  <2>3. QED BY <2>1, <2>2 DEF AllUnknown
<1>3. QED BY <1>1, <1>2

\* The function at t is called at q: n values are taken from the stack, what is
\* left is known to be this when it returns.
Calling(S, fs, q, stack, bases, exact, gs, t, left, known, fr, n) ==
  /\ Sequence(fs) /\ Sequence(stack) /\ Sequence(left) /\ q \in Int /\ n \in Nat
  /\ Sequence(S[q].stack) /\ Sequence(S[q + 1].stack) /\ Sequence(S[t].stack)
  /\ Placed(S, fs, q) /\ Balanced(S, fs, q, stack, bases, exact)
  /\ gs = Append(fs, fr) /\ fr.ret = Num(q) /\ fr.loops = <<>> /\ fr.lent = Undef
  /\ n <= Len(S[q].stack) /\ Len(left) = Len(stack) - n
  /\ AllUnknown(known, Len(S[q].stack) - n + 1)
  /\ Expects(S, q + 1, S[q].inside, known, S[q].loops, exact)
  /\ Expects(S, t, TRUE, <<>>, <<>>, exact)

LEMMA Enters ==
  ASSUME NEW S, NEW fs, NEW q, NEW stack, NEW bases, NEW exact, NEW gs, NEW t, NEW left, NEW known,
         NEW fr, NEW n, Calling(S, fs, q, stack, bases, exact, gs, t, left, known, fr, n)
  PROVE  Placed(S, gs, t) /\ \E more : Balanced(S, gs, t, left, more, exact)
<1>. /\ Sequence(fs) /\ Sequence(stack) /\ Sequence(left) /\ q \in Int /\ n \in Nat
     /\ Sequence(S[q].stack) /\ Sequence(S[q + 1].stack) /\ Sequence(S[t].stack)
     /\ Placed(S, fs, q) /\ Balanced(S, fs, q, stack, bases, exact)
     /\ gs = Append(fs, fr) /\ fr.ret = Num(q) /\ fr.loops = <<>> /\ fr.lent = Undef
     /\ n <= Len(S[q].stack) /\ Len(left) = Len(stack) - n
     /\ AllUnknown(known, Len(S[q].stack) - n + 1)
     /\ Expects(S, q + 1, S[q].inside, known, S[q].loops, exact)
     /\ Expects(S, t, TRUE, <<>>, <<>>, exact)
  BY DEF Calling
<1>1. Len(fs) \in Nat /\ Len(fs) >= 1 /\ Len(stack) \in Nat /\ Len(left) \in Nat
      /\ Len(S[q].stack) \in Nat
  BY SequenceIs DEF Placed
<1>2. /\ Sequence(gs) /\ Len(gs) = Len(fs) + 1 /\ gs[Len(fs) + 1] = fr
      /\ \A d \in 1..Len(fs) : gs[d] = fs[d]
  BY SequenceAppend
<1>3. Len(fs) \in 1..Len(fs) /\ Position(fs, q, Len(fs)) = q
  BY <1>1 DEF Position
<1>4. Position(gs, t, Len(fs) + 1) = t
  BY <1>2 DEF Position
<1>5. Position(gs, t, Len(fs)) = q + 1
  <2>1. Len(fs) # Len(fs) + 1
    BY <1>1
  <2>2. fr.ret.n = q
    BY DEF Num
  <2>3. QED BY <1>2, <2>1, <2>2 DEF Position
<1>6. ASSUME NEW d \in 1..(Len(fs) - 1) PROVE Position(gs, t, d) = Position(fs, q, d) /\ gs[d] = fs[d]
  <2>1. d # Len(fs) /\ d # Len(fs) + 1 /\ d + 1 \in 1..Len(fs) /\ d \in 1..Len(fs)
    BY <1>1
  <2>2. QED BY <1>2, <2>1 DEF Position
<1>7. \A d \in 1..(Len(fs) + 1) : d \in 1..(Len(fs) - 1) \/ d = Len(fs) \/ d = Len(fs) + 1
  BY <1>1
<1>8. Placed(S, gs, t)
  <2> DEFINE Right(d) == /\ Position(gs, t, d) \in DOMAIN S
                         /\ S[Position(gs, t, d)].inside = (d > 1)
                         /\ S[Position(gs, t, d)].loops = gs[d].loops
                         /\ gs[d].lent = Undef
  <2>1. ASSUME NEW d \in 1..(Len(fs) - 1) PROVE Right(d)
    <3>1. d \in 1..Len(fs)
      BY <1>1
    <3>2. QED BY <1>6, <3>1 DEF Placed
  <2>2. Right(Len(fs))
    <3>1. /\ S[q].inside = (Len(fs) > 1) /\ S[q].loops = fs[Len(fs)].loops
          /\ fs[Len(fs)].lent = Undef
      BY <1>3 DEF Placed
    <3>2. QED BY <1>2, <1>3, <1>5, <3>1 DEF Expects
  <2>3. Right(Len(fs) + 1)
    <3>1. Len(fs) + 1 > 1
      BY <1>1
    <3>2. QED BY <1>2, <1>4, <3>1 DEF Expects
  <2> HIDE DEF Right
  <2>4. \A d \in 1..Len(gs) : Right(d)
    BY <1>2, <1>7, <2>1, <2>2, <2>3
  <2>5. Len(gs) >= 1
    BY <1>1, <1>2
  <2>6. QED BY <2>4, <2>5 DEF Placed, Right
<1> DEFINE more == [d \in 1..(Len(fs) + 1) |-> IF d = Len(fs) + 1 THEN Len(left) ELSE bases[d]]
<1>9. /\ more \in [1..Len(gs) -> Nat] /\ more[1] = 0 /\ more[Len(fs) + 1] = Len(left)
      /\ \A d \in 1..Len(fs) : more[d] = bases[d]
  <2>1. bases \in [1..Len(fs) -> Nat] /\ bases[1] = 0
    BY DEF Balanced
  <2>2. \A d \in 1..(Len(fs) + 1) : d # Len(fs) + 1 => d \in 1..Len(fs)
    BY <1>1
  <2>3. 1 \in 1..(Len(fs) + 1) /\ 1 # Len(fs) + 1 /\ Len(fs) + 1 \in 1..(Len(fs) + 1)
        /\ \A d \in 1..Len(fs) : d \in 1..(Len(fs) + 1) /\ d # Len(fs) + 1
    BY <1>1
  <2>4. QED BY <1>1, <1>2, <2>1, <2>2, <2>3
<1> HIDE DEF more
<1>10. OnTop(S[t].stack, left, more[Len(gs)], exact)
  <2>1. Fits(S[t].stack, <<>>, exact)
    BY DEF Expects
  <2>2. Len(S[t].stack) \in Nat /\ Len(<<>>) = 0
    BY SequenceIs
  <2>3. Len(S[t].stack) = 0
    BY <2>1, <2>2 DEF Fits
  <2>4. more[Len(gs)] = Len(left)
    BY <1>2, <1>9
  <2>5. QED BY <1>1, <2>3, <2>4 DEF OnTop
<1>11. ASSUME NEW d \in 1..(Len(gs) - 1)
       PROVE  /\ more[d] + Len(S[Position(gs, t, d)].stack) <= more[d + 1] + 1
              /\ exact => more[d] + Len(S[Position(gs, t, d)].stack) = more[d + 1] + 1
              /\ \A i \in 1..Len(S[Position(gs, t, d)].stack) : S[Position(gs, t, d)].stack[i] = Unknown
  <2>1. CASE d = Len(fs)
    <3>1. more[d] = bases[Len(fs)] /\ more[d + 1] = Len(stack) - n /\ bases[Len(fs)] \in Nat
      BY <1>3, <1>9, <2>1 DEF Balanced
    <3>2. OnTop(S[q].stack, stack, bases[Len(fs)], exact)
      BY DEF Balanced
    <3>3. Fits(S[q + 1].stack, known, exact)
      BY DEF Expects
    <3>4. Len(S[q].stack) - n + 1 \in Nat
      BY <1>1
    <3>5. /\ Len(S[q + 1].stack) \in Nat /\ Len(S[q + 1].stack) <= Len(S[q].stack) - n + 1
          /\ exact => Len(S[q + 1].stack) = Len(S[q].stack) - n + 1
          /\ \A i \in 1..Len(S[q + 1].stack) : S[q + 1].stack[i] = Unknown
      BY <3>3, <3>4, FitsUnknown
    <3>6. /\ bases[Len(fs)] + Len(S[q].stack) <= Len(stack)
          /\ exact => bases[Len(fs)] + Len(S[q].stack) = Len(stack)
      BY <3>2 DEF OnTop
    <3>7. /\ bases[Len(fs)] + Len(S[q + 1].stack) <= Len(stack) - n + 1
          /\ exact => bases[Len(fs)] + Len(S[q + 1].stack) = Len(stack) - n + 1
      <4> DEFINE b == bases[Len(fs)]
                 k == Len(S[q + 1].stack)
                 l == Len(S[q].stack)
                 s == Len(stack)
      <4>1. b \in Nat /\ k \in Nat /\ l \in Nat /\ s \in Nat
        BY <1>1, <3>1, <3>5
      <4>2. k <= l - n + 1 /\ b + l <= s
        BY <3>5, <3>6
      <4>3. ASSUME exact PROVE k = l - n + 1 /\ b + l = s
        BY <3>5, <3>6, <4>3
      <4> HIDE DEF b, k, l, s
      <4>4. b + k <= s - n + 1
        BY <4>1, <4>2
      <4>5. ASSUME exact PROVE b + k = s - n + 1
        BY <4>1, <4>3, <4>5
      <4>6. QED BY <4>4, <4>5 DEF b, k, l, s
    <3>8. QED BY <1>5, <2>1, <3>1, <3>5, <3>7
  <2>2. CASE d # Len(fs)
    <3>1. d \in 1..(Len(fs) - 1) /\ d \in 1..Len(fs) /\ d + 1 \in 1..Len(fs)
      BY <1>1, <1>2, <2>2
    <3>2. more[d] = bases[d] /\ more[d + 1] = bases[d + 1] /\ Position(gs, t, d) = Position(fs, q, d)
      BY <1>6, <1>9, <3>1
    <3>3. QED BY <3>1, <3>2 DEF Balanced
  <2>3. QED BY <2>1, <2>2
<1>12. Balanced(S, gs, t, left, more, exact)
  BY <1>9, <1>10, <1>11 DEF Balanced
<1>13. QED BY <1>8, <1>12

LEMMA Leaves ==
  ASSUME NEW S, NEW fs, NEW q, NEW stack, NEW bases, NEW exact, NEW gs, NEW t,
         Sequence(fs), Sequence(stack), Sequence(S[q].stack), Sequence(S[t].stack),
         Placed(S, fs, q), Balanced(S, fs, q, stack, bases, exact),
         S[q].inside, Len(S[q].stack) >= 1, exact => Len(S[q].stack) = 1,
         gs = Front(fs), t = fs[Len(fs)].ret.n + 1
  PROVE  Placed(S, gs, t) /\ \E less : Balanced(S, gs, t, stack, less, exact)
<1>1. Len(fs) \in Nat /\ Len(fs) > 1
  <2>1. Len(fs) \in Nat /\ Len(fs) >= 1
    BY SequenceIs DEF Placed
  <2>2. Len(fs) \in 1..Len(fs) /\ Position(fs, q, Len(fs)) = q
    BY <2>1 DEF Position
  <2>3. S[q].inside = (Len(fs) > 1)
    BY <2>2 DEF Placed
  <2>4. QED BY <2>1, <2>3
<1>2. fs # <<>>
  BY <1>1
<1>3. Sequence(gs) /\ Len(gs) = Len(fs) - 1 /\ \A d \in 1..(Len(fs) - 1) : gs[d] = fs[d]
  BY <1>2, SequenceFront
<1>4. ASSUME NEW d \in 1..(Len(fs) - 1) PROVE Position(gs, t, d) = Position(fs, q, d)
  <2>1. CASE d = Len(fs) - 1
    <3>1. d # Len(fs) /\ d + 1 = Len(fs)
      BY <1>1, <2>1
    <3>2. QED BY <1>3, <2>1, <3>1 DEF Position
  <2>2. CASE d # Len(fs) - 1
    <3>1. d # Len(fs) /\ d + 1 \in 1..(Len(fs) - 1)
      BY <1>1, <2>2
    <3>2. QED BY <1>3, <2>2, <3>1 DEF Position
  <2>3. QED BY <2>1, <2>2
<1>5. Placed(S, gs, t)
  <2>1. Len(gs) >= 1 /\ \A d \in 1..Len(gs) : d \in 1..(Len(fs) - 1) /\ d \in 1..Len(fs)
    BY <1>1, <1>3
  <2>2. QED BY <1>3, <1>4, <2>1 DEF Placed
<1> DEFINE m == Len(fs) - 1
           less == [d \in 1..m |-> bases[d]]
<1>6. /\ less \in [1..Len(gs) -> Nat] /\ less[1] = 0 /\ \A d \in 1..m : less[d] = bases[d]
      /\ bases[m] \in Nat /\ bases[m + 1] \in Nat /\ less[Len(gs)] = bases[m]
  <2>1. bases \in [1..Len(fs) -> Nat] /\ bases[1] = 0
    BY DEF Balanced
  <2>2. 1 \in 1..m /\ m \in 1..m /\ m + 1 \in 1..Len(fs) /\ \A d \in 1..m : d \in 1..Len(fs)
    BY <1>1
  <2>3. QED BY <1>3, <2>1, <2>2
<1> HIDE DEF less
<1>7. /\ bases[m] + Len(S[t].stack) <= bases[m + 1] + 1
      /\ exact => bases[m] + Len(S[t].stack) = bases[m + 1] + 1
      /\ \A i \in 1..Len(S[t].stack) : S[t].stack[i] = Unknown
  <2>1. m \in 1..(Len(fs) - 1)
    BY <1>1
  <2>2. Position(fs, q, m) = t
    <3>1. m # Len(fs) /\ m + 1 = Len(fs)
      BY <1>1
    <3>2. QED BY <3>1 DEF Position
  <2>3. QED BY <2>1, <2>2 DEF Balanced
<1>8. OnTop(S[t].stack, stack, less[Len(gs)], exact)
  <2>1. OnTop(S[q].stack, stack, bases[m + 1], exact)
    <3>1. m + 1 = Len(fs)
      BY <1>1
    <3>2. QED BY <3>1 DEF Balanced
  <2>2. Len(S[t].stack) \in Nat /\ Len(S[q].stack) \in Nat /\ Len(stack) \in Nat
    BY SequenceIs
  <2>3. /\ bases[m + 1] + Len(S[q].stack) <= Len(stack)
        /\ exact => bases[m + 1] + Len(S[q].stack) = Len(stack)
    BY <2>1 DEF OnTop
  <2>4. /\ bases[m] + Len(S[t].stack) <= Len(stack)
        /\ exact => bases[m] + Len(S[t].stack) = Len(stack)
    <3> DEFINE a == bases[m]
               b == bases[m + 1]
               k == Len(S[t].stack)
               l == Len(S[q].stack)
               s == Len(stack)
    <3>1. a \in Nat /\ b \in Nat /\ k \in Nat /\ l \in Nat /\ s \in Nat
      BY <1>6, <2>2
    <3>2. a + k <= b + 1 /\ l >= 1 /\ b + l <= s
      BY <1>7, <2>3
    <3>3. ASSUME exact PROVE a + k = b + 1 /\ l = 1 /\ b + l = s
      BY <1>7, <2>3, <3>3
    <3> HIDE DEF a, b, k, l, s
    <3>4. a + k <= s
      BY <3>1, <3>2
    <3>5. ASSUME exact PROVE a + k = s
      BY <3>1, <3>3, <3>5
    <3>6. QED BY <3>4, <3>5 DEF a, b, k, l, s
  <2>5. \A i \in 1..Len(S[t].stack) : S[t].stack[Len(S[t].stack) + 1 - i] = Unknown
    <3>1. \A i \in 1..Len(S[t].stack) : Len(S[t].stack) + 1 - i \in 1..Len(S[t].stack)
      BY <2>2
    <3>2. QED BY <1>7, <3>1
  <2>6. QED BY <1>6, <2>4, <2>5 DEF OnTop
<1>9. Balanced(S, gs, t, stack, less, exact)
  <2>1. ASSUME NEW d \in 1..(Len(gs) - 1)
        PROVE  /\ less[d] + Len(S[Position(gs, t, d)].stack) <= less[d + 1] + 1
               /\ exact => less[d] + Len(S[Position(gs, t, d)].stack) = less[d + 1] + 1
               /\ \A i \in 1..Len(S[Position(gs, t, d)].stack) :
                    S[Position(gs, t, d)].stack[i] = Unknown
    <3>1. d \in 1..(Len(fs) - 1) /\ d \in 1..m /\ d + 1 \in 1..m
      BY <1>1, <1>3
    <3>2. less[d] = bases[d] /\ less[d + 1] = bases[d + 1] /\ Position(gs, t, d) = Position(fs, q, d)
      BY <1>4, <1>6, <3>1
    <3>3. /\ bases[d] + Len(S[Position(fs, q, d)].stack) <= bases[d + 1] + 1
          /\ exact => bases[d] + Len(S[Position(fs, q, d)].stack) = bases[d + 1] + 1
          /\ \A i \in 1..Len(S[Position(fs, q, d)].stack) : S[Position(fs, q, d)].stack[i] = Unknown
      BY <3>1 DEF Balanced
    <3>4. QED BY <3>2, <3>3
  <2>2. QED BY <1>6, <1>8, <2>1 DEF Balanced
<1>10. QED BY <1>5, <1>9

LEMMA CallIs ==
  ASSUME IInv, NEW bases, NEW exact, Here(bases, exact), Op = "CALL"
  PROVE  /\ NrArgs + 2 \in 0..Len(Shape.stack)
         /\ AllUnknown(StackAfter(prog, pc, Shape), Len(Shape.stack) - (NrArgs + 2) + 1)
         /\ Op \notin Jumps
<1>1. Len(Shape.stack) >= 2 /\ Held(Shape, 2) = Top(2) /\ Len(Shape.stack) - 2 >= Top(2).n
      /\ Top(2).t = "num"
  BY CallHeld
<1>2. Len(Shape.stack) \in Nat /\ Top(2).n \in Int
  <2>1. 2 \in 1..Len(Shape.stack)
    BY <1>1, HeldIs
  <2>2. QED BY <1>1, <2>1, HeldIs, NumberIs
<1>3. NrArgs \in Nat /\ Len(Shape.stack) - 2 >= NrArgs
  BY <1>1, <1>2 DEF NrArgs
<1>4. StackAfter(prog, pc, Shape) = [i \in 1..(Len(Shape.stack) - NrArgs - 1) |-> Unknown]
  BY <1>1, StackAfterIs DEF Op, Nr, NrArgs
<1> DEFINE n == Len(Shape.stack) - NrArgs - 1
<1>5. n \in Nat /\ n = Len(Shape.stack) - (NrArgs + 2) + 1 /\ NrArgs + 2 \in 0..Len(Shape.stack)
  BY <1>2, <1>3
<1> HIDE DEF n
<1>6. AllUnknown([i \in 1..n |-> Unknown], n)
  BY <1>5, SequenceMade DEF AllUnknown
<1>7. Op \notin Jumps
  BY DEF Jumps
<1>8. QED BY <1>4, <1>5, <1>6, <1>7 DEF n

LEMMA CallKeeps ==
  ASSUME IInv, NEW bases, NEW exact, Here(bases, exact), op_call
  PROVE  Keeps(exact)'
<1> DEFINE n == NrArgs + 2
           fr == NewFrame(pc, Args)
           S == Shapes[prog]
           t == prog.functions[Callee]
           known == StackAfter(prog, pc, Shape)
<1>1. /\ Executes({"CALL"}) /\ Callee \in DOMAIN prog.functions
      /\ vstack' = Below(n) /\ pc' = t /\ status' = status /\ frames' = Append(frames, fr)
  BY DEF op_call, Jump
<1>2. status' = "running" /\ prog' = prog /\ Op = "CALL"
  BY <1>1, Ready
<1>3. /\ n \in 0..Len(Shape.stack) /\ Op \notin Jumps
      /\ AllUnknown(known, Len(Shape.stack) - n + 1)
  BY <1>2, CallIs
<1>4. fr.ret = Num(pc) /\ fr.loops = <<>> /\ fr.lent = Undef
  BY DEF NewFrame
<1>5. n \in Nat /\ n <= Len(Shape.stack) /\ Len(Below(n)) = Len(vstack) - n /\ Sequence(Below(n))
  <2> HIDE DEF n
  <2>1. n \in Nat /\ n <= Len(Shape.stack) /\ Len(vstack) - n \in 0..Len(vstack)
    BY <1>3, HeldIs
  <2>2. Sequence(vstack)
    BY DEF Here
  <2>3. QED BY <2>1, <2>2, Beginning DEF Below
<1>6. Expects(S, pc + 1, Shape.inside, known, Shape.loops, exact)
  <2> DEFINE to == <<pc + 1, Shape.loops>>
  <2>1. to \in Leads(prog, pc, Shape) /\ to[1] = pc + 1 /\ to[2] = Shape.loops
    BY <1>3, LeadsNext DEF Op
  <2> HIDE DEF to
  <2>2. pc \in DOMAIN S /\ pc # Len(prog.ops)
    BY HereIs DEF Here, NrOps
  <2>3. Expects(S, to[1], Shape.inside, known, to[2], exact)
    BY <2>1, <2>2, AcceptsAt DEF Here, Shape
  <2>4. QED BY <2>1, <2>3
<1>7. Expects(S, t, TRUE, <<>>, <<>>, exact)
  <2>1. pc \in DOMAIN S /\ pc # Len(prog.ops)
    BY HereIs DEF Here, NrOps
  <2>2. Held(Shape, 1).s = Callee
    BY <1>2, CallHeld DEF Callee
  <2>3. QED BY <1>1, <1>2, <2>1, <2>2, AcceptsAt DEF Here, Shape, Op
<1>8. Sequence(S[pc].stack) /\ Sequence(S[pc + 1].stack) /\ Sequence(S[t].stack)
  <2>1. pc \in DOMAIN S /\ pc + 1 \in DOMAIN S /\ t \in DOMAIN S
    BY <1>6, <1>7, HereIs DEF Expects
  <2>2. QED BY <2>1, ShapeIs DEF Here
<1>9. pc \in Int /\ S[pc] = Shape
  BY DEF Here, Shape
<1> HIDE DEF n, fr, S, t, known
<1>10. Placed(S, frames, pc) /\ Balanced(S, frames, pc, vstack, bases, exact)
       /\ Sequence(frames) /\ Sequence(vstack)
  BY DEF Here, S
<1>11. Placed(S, frames', t) /\ \E more : Balanced(S, frames', t, Below(n), more, exact)
  <2>1. /\ n <= Len(S[pc].stack) /\ AllUnknown(known, Len(S[pc].stack) - n + 1)
        /\ Expects(S, pc + 1, S[pc].inside, known, S[pc].loops, exact)
    BY <1>3, <1>5, <1>6, <1>9
  <2>2. Calling(S, frames, pc, vstack, bases, exact, frames', t, Below(n), known, fr, n)
    BY <1>1, <1>4, <1>5, <1>7, <1>8, <1>9, <1>10, <2>1 DEF Calling
  <2>3. QED BY <2>2, Enters
<1>12. Returning(prog, frames')
  <2>1. fr.ret \in CallsOf(prog)
    BY <1>2, <1>4 DEF CallsOf, Here, NrOps, Op
  <2>2. /\ Len(frames') = Len(frames) + 1 /\ frames'[Len(frames) + 1] = fr
        /\ \A d \in 1..Len(frames) : frames'[d] = frames[d]
    BY <1>1, <1>10, SequenceAppend
  <2>3. \A d \in 2..(Len(frames) + 1) :
          d = Len(frames) + 1 \/ (d \in 2..Len(frames) /\ d \in 1..Len(frames))
    BY HereIs
  <2>4. Returning(prog, frames)
    BY DEF Here
  <2>5. QED BY <2>1, <2>2, <2>3, <2>4 DEF Returning
<1>13. QED BY <1>1, <1>2, <1>11, <1>12 DEF Keeps, S

LEMMA RetKeeps ==
  ASSUME IInv, NEW bases, NEW exact, Here(bases, exact), op_ret
  PROVE  Keeps(exact)'
<1> DEFINE S == Shapes[prog]
           t == Frame.ret.n + 1
<1>1. /\ Executes({"RET"}) /\ vstack' = vstack /\ pc' = Wrap(Frame.ret.n + 1) /\ status' = status
      /\ frames' = Front(frames)
  BY DEF op_ret, Jump
<1>2. status' = "running" /\ prog' = prog /\ Op = "RET"
  BY <1>1, Ready
<1>3. Shape.inside /\ Len(Shape.stack) >= 1
  BY <1>2, HereIs DEF Runnable, Op
<1>4. exact => Len(Shape.stack) = 1
  <2>1. pc \in DOMAIN S /\ pc # Len(prog.ops)
    BY HereIs DEF Here, NrOps
  <2>2. QED BY <1>2, <2>1, AcceptsAt DEF Here, Shape, Op
<1>5. pc' = t
  BY <1>1, <1>3, ReturnIs, NextAddress
<1>6. t = frames[Len(frames)].ret.n + 1 /\ Sequence(frames) /\ Sequence(vstack)
      /\ Placed(S, frames, pc) /\ Balanced(S, frames, pc, vstack, bases, exact)
  BY HereIs DEF Here
<1>7. Sequence(S[pc].stack) /\ Sequence(S[t].stack)
  <2>1. Len(frames) \in Nat /\ Len(frames) > 1
    BY <1>3, HereIs
  <2> DEFINE d == Len(frames) - 1
  <2>2. d \in 1..Len(frames) /\ d # Len(frames) /\ d + 1 = Len(frames)
    BY <2>1
  <2> HIDE DEF d
  <2>3. Position(frames, pc, d) = t
    BY <1>6, <2>2 DEF Position
  <2>4. t \in DOMAIN S /\ pc \in DOMAIN S
    BY <1>6, <2>2, <2>3, HereIs DEF Placed
  <2>5. QED BY <2>4, ShapeIs DEF Here
<1>8. S[pc] = Shape
  BY DEF Shape
<1> HIDE DEF S, t
<1>9. Placed(S, frames', t) /\ \E less : Balanced(S, frames', t, vstack, less, exact)
  <2>1. S[pc].inside /\ Len(S[pc].stack) >= 1 /\ (exact => Len(S[pc].stack) = 1)
    BY <1>3, <1>4, <1>8
  <2>2. QED BY <1>1, <1>6, <1>7, <2>1, Leaves
<1>10. Returning(prog, frames')
  <2>1. Len(frames') = Len(frames) - 1 /\ \A d \in 1..(Len(frames) - 1) : frames'[d] = frames[d]
    BY <1>1, HereIs, SequenceFront DEF Here
  <2>2. \A d \in 2..(Len(frames) - 1) : d \in 1..(Len(frames) - 1) /\ d \in 2..Len(frames)
    BY HereIs
  <2>3. Returning(prog, frames)
    BY DEF Here
  <2>4. QED BY <2>1, <2>2, <2>3 DEF Returning
<1>11. QED BY <1>1, <1>2, <1>9, <1>10, <1>5 DEF Keeps, S

\* Less may be known of the values on top.
LEMMA OnTopUnknown ==
  ASSUME NEW less, NEW known, NEW stack, NEW base, NEW exact, NEW n \in Nat,
         OnTop(known, stack, base, exact), Len(known) = n, AllUnknown(less, n)
  PROVE  OnTop(less, stack, base, exact)
<1>1. Len(less) = n /\ Len(less) = Len(known)
  BY DEF AllUnknown
<1>2. \A i \in 1..Len(less) : less[Len(less) + 1 - i] = Unknown
  <2>1. \A i \in 1..n : n + 1 - i \in 1..n
    OBVIOUS
  <2>2. QED BY <1>1, <2>1 DEF AllUnknown
<1>3. QED BY <1>1, <1>2 DEF OnTop

\* A built-in function yields a value, or has none for its arguments.
LEMMA NativeKeeps ==
  ASSUME IInv, NEW bases, NEW exact, Here(bases, exact), Executes({"CALL"}), frames' = frames,
         NEW r, Yield(r, Below(NrArgs + 2))
  PROVE  Keeps(exact)'
<1> DEFINE n == NrArgs + 2
           known == StackAfter(prog, pc, Shape)
<1>1. status = "running" /\ prog' = prog /\ Op = "CALL"
  BY Ready
<1>2. /\ n \in 0..Len(Shape.stack) /\ Op \notin Jumps
      /\ AllUnknown(known, Len(Shape.stack) - n + 1)
  BY <1>1, CallIs
<1> HIDE DEF n, known
<1>3. CASE r.t = "crash"
  BY <1>1, <1>3, Trapped DEF Yield, Trapping
<1>4. CASE r.t # "crash"
  <2>1. PICK v : vstack' = Append(Below(n), v)
    BY <1>4 DEF Yield, Continue, n
  <2>2. pc' = pc + 1 /\ status' = "running"
    BY <1>1, <1>4 DEF Yield, Continue
  <2>3. <<pc', Shape.loops>> \in Leads(prog, pc, Shape)
    BY <1>2, <2>2, LeadsNext DEF Op
  <2>4. /\ Sequence(Append(Drop(Shape, n), Unknown)) /\ Sequence(Append(Below(n), v))
        /\ OnTop(Append(Drop(Shape, n), Unknown), Append(Below(n), v), bases[Len(frames)], exact)
    BY <1>2, Exchanged
  <2>5. Len(Append(Drop(Shape, n), Unknown)) = Len(Shape.stack) - n + 1
    <3>1. Sequence(Shape.stack) /\ Len(Shape.stack) - n \in 0..Len(Shape.stack)
      BY <1>2, HereIs, HeldIs
    <3>2. Sequence(Drop(Shape, n)) /\ Len(Drop(Shape, n)) = Len(Shape.stack) - n
      BY <3>1, Beginning DEF Drop
    <3>3. QED BY <3>2, SequenceAppend
  <2>6. Len(Shape.stack) - n + 1 \in Nat
    BY <1>2, HeldIs
  <2>7. OnTop(known, vstack', bases[Len(frames)], exact)
    BY <1>2, <2>1, <2>4, <2>5, <2>6, OnTopUnknown
  <2>8. Sequence(known) /\ Sequence(vstack')
    BY <1>2, <2>1, <2>4 DEF AllUnknown
  <2>9. QED BY <1>1, <2>2, <2>3, <2>7, <2>8, Passes DEF known
<1>5. QED BY <1>3, <1>4

LEMMA NativesKeep ==
  ASSUME IInv, NEW bases, NEW exact, Here(bases, exact),
         native_print \/ native_read \/ native_random \/ native_myadd \/ op_call_unknown
  PROVE  Keeps(exact)'
<1>1. Executes({"CALL"}) /\ frames' = frames
  BY DEF native_print, native_read, native_random, native_myadd, op_call_unknown, Native
<1>2. \E r : Yield(r, Below(NrArgs + 2))
  BY Zenon DEF native_print, native_read, native_random, native_myadd, op_call_unknown
<1>3. QED BY <1>1, <1>2, NativeKeeps

\* The machine stops where it is.
LEMMA HaltKeeps ==
  ASSUME IInv, NEW bases, NEW exact, Here(bases, exact), op_halt \/ native_exit
  PROVE  Keeps(exact)'
<1>1. \E ops : Executes(ops)
  BY DEF op_halt, native_exit, Native
<1>2. prog' = prog
  BY <1>1, Ready
<1>3. status' = "halted" /\ pc' = pc /\ frames' = frames
  BY DEF op_halt, native_exit, machine
<1>4. QED BY <1>2, <1>3 DEF Keeps, Here

---------------------------------------------------------------------------
(* Input and time. *)

\* What is read, from the input or the clock, is pushed in place of the operands.
LEMMA ReadKeeps ==
  ASSUME IInv, NEW bases, NEW exact, Here(bases, exact), op_getint \/ op_tstart \/ op_tend
  PROVE  Keeps(exact)'
<1>1. /\ Executes({"GETINT", "TSTART", "TEND"}) /\ frames' = frames
      /\ pc' = pc + 1 /\ status' = status
  BY DEF op_getint, op_tstart, op_tend, Continue, Executes, At
<1>2. status = "running" /\ prog' = prog /\ Op \in {"GETINT", "TSTART", "TEND"}
  BY <1>1, Ready
<1>3. Op \in Results /\ Op \notin Jumps
  BY <1>2 DEF Results, Jumps
<1>4. PICK v : vstack' = Append(Below(MinArgs(Op)), v)
  <2>1. CASE op_getint \/ op_tstart
    <3>1. Op \in {"GETINT", "TSTART"}
      BY <2>1 DEF op_getint, op_tstart, Executes, At
    <3>2. MinArgs(Op) = 0
      BY <3>1, ArgsNeeded DEF Nullary
    <3>3. \E v : vstack' = Append(vstack, v)
      BY <2>1 DEF op_getint, op_tstart, Continue
    <3>4. QED BY <3>2, <3>3, WholeStack
  <2>2. CASE op_tend
    <3>1. Op = "TEND"
      BY <2>2 DEF op_tend, Executes, At
    <3>2. Op \notin Nullary \cup Binary \cup Ternary
      BY <3>1 DEF Nullary, Binary, Ternary, Compare, Arith
    <3>3. MinArgs(Op) = 1
      BY <3>2, MinArgsIs
    <3>4. \E v : vstack' = Append(Below(1), v)
      BY <2>2 DEF op_tend, Continue
    <3>5. QED BY <3>3, <3>4
  <2>3. QED BY <2>1, <2>2
<1> DEFINE n == MinArgs(Op)
<1>5. n \in 0..Len(Shape.stack)
  BY OperandsKnown
<1>6. StackAfter(prog, pc, Shape) = Append(Drop(Shape, n), Unknown)
  BY <1>3, StackAfterIs DEF Op
<1>7. vstack' = Append(Below(n), v)
  BY <1>4
<1> HIDE DEF n
<1>8. /\ Sequence(Append(Drop(Shape, n), Unknown)) /\ Sequence(vstack')
      /\ OnTop(Append(Drop(Shape, n), Unknown), vstack', bases[Len(frames)], exact)
  BY <1>5, <1>7, Exchanged
<1>9. <<pc', Shape.loops>> \in Leads(prog, pc, Shape)
  BY <1>1, <1>3, LeadsNext DEF Op
<1>10. status' = "running"
  BY <1>1, <1>2
<1>11. QED BY <1>1, <1>2, <1>6, <1>8, <1>9, <1>10, Passes

---------------------------------------------------------------------------
(* The machine as a whole. *)

\* What the fault is does not depend on the status.
LEMMA SameFault ==
  ASSUME UNCHANGED <<prog, pc, machine>>, DataFault
  PROVE  DataFault'
<1>1. UNCHANGED <<vstack, frames, globals, arrs>>
  BY DEF machine
<1>2. NrOps' = NrOps /\ Op' = Op
  BY DEF NrOps, Op
<1>3. Texts' = Texts
  <2>1. /\ \A i \in {1, 2} : Top(i)' = Top(i)
        /\ Frame' = Frame /\ Callee' = Callee /\ Printed' = Printed
    BY <1>1 DEF Top, Frame, Callee, Printed, Args, NrArgs
  <2>2. QED BY <1>1, <1>2, <2>1 DEF Texts
<1>4. ASSUME NEW v PROVE Endless(v)' = Endless(v)
  BY <1>1 DEF Endless
<1>5. EndlessText' = EndlessText
  BY <1>3, <1>4 DEF EndlessText
<1>6. QED BY <1>2, <1>5 DEF DataFault

LEMMA TextKeeps ==
  ASSUME IInv, NEW bases, NEW exact, Here(bases, exact), TextOverflows
  PROVE  Keeps(exact)'
<1>1. DataFault
  BY DEF TextOverflows, DataFault
<1>2. UNCHANGED <<prog, pc, machine>> /\ status' = "crashed"
  BY DEF TextOverflows
<1>3. DataFault'
  BY <1>1, <1>2, SameFault
<1>4. UNCHANGED <<vstack, frames>>
  BY <1>2 DEF machine
<1>5. QED BY <1>2, <1>3, <1>4 DEF Keeps, Here

LEMMA InsideKeeps ==
  ASSUME IInv, NEW bases, NEW exact, Here(bases, exact), Next
  PROVE  Keeps(exact)'
<1>1. ~AssertFails
  BY AssertionsHold DEF AssertFails
<1>2. ~ProgramEnd /\ ~WildJump
  <2>1. ~(pc >= NrOps) /\ ~(pc < 0)
    BY DEF Here
  <2>2. QED BY <2>1 DEF ProgramEnd, WildJump
<1>3. CASE TextOverflows
  BY <1>3, TextKeeps
<1>4. CASE op_push \/ op_binary \/ op_unary \/ op_createval \/ op_cast \/ op_mkarray \/ op_indexas
  BY <1>4, PushKeeps, BinaryKeeps, UnaryKeeps, CreateKeeps, CastKeeps, MkarrayKeeps, IndexasKeeps
<1>5. CASE op_dup \/ op_discard \/ op_print \/ op_noop \/ op_setvar \/ op_setglobal
  BY <1>5, DupKeeps, PlainKeeps, SetvarKeeps, SetglobalKeeps
<1>6. CASE op_jump \/ op_jumpcond \/ op_condbegin \/ op_condelse \/ op_loopend
  BY <1>6, JumpsKeep, BranchesKeep
<1>7. CASE op_loopbegin \/ op_loopexit \/ op_loopbody \/ op_halt \/ native_exit
  BY <1>7, LoopbeginKeeps, LoopexitKeeps, HaltKeeps
<1>8. CASE op_call \/ op_ret
  BY <1>8, CallKeeps, RetKeeps
<1>9. CASE native_print \/ native_read \/ native_random \/ native_myadd \/ op_call_unknown
  BY <1>9, NativesKeep
<1>10. CASE op_getint \/ op_tstart \/ op_tend
  BY <1>10, ReadKeeps
<1>11. ~op_getvar_loops
  <2>1. SUFFICES ASSUME LendsLoops PROVE FALSE
    BY DEF op_getvar_loops
  <2>2. Op = "GETVAR" /\ Slot(Top(1).n) = -1
    BY <2>1 DEF LendsLoops
  <2>3. Slot(Top(1).n) >= 0
    BY <2>2, NumberHeld, HereIs DEF NumberOnTop, Runnable, Op
  <2>4. QED BY <2>2, <2>3
<1>12. QED BY <1>1, <1>11, <1>2, <1>3, <1>4, <1>5, <1>6, <1>7, <1>8, <1>9, <1>10 DEF Next

LEMMA OnlyRunning == Next => status = "running" /\ prog' = prog
<1>1. SUFFICES ASSUME Next PROVE status = "running" /\ prog' = prog
  OBVIOUS
<1>2. CASE AssertFails \/ TextOverflows \/ ProgramEnd \/ WildJump
  BY <1>2 DEF AssertFails, TextOverflows, ProgramEnd, WildJump
<1>3. CASE ~(AssertFails \/ TextOverflows \/ ProgramEnd \/ WildJump)
  <2>1. \E ops : Executes(ops)
    BY <1>1, <1>3, Zenon
       DEF Next, Native, op_push, op_binary, op_unary, op_createval, op_cast, op_mkarray,
           op_indexas, op_dup, op_discard, op_noop, op_getvar_loops, op_setvar, op_setglobal, op_jump, op_jumpcond,
           op_condbegin, op_condelse, op_loopbegin, op_loopend, op_loopexit, op_loopbody, op_halt,
           op_call, op_ret, native_print, native_read, native_random, native_exit, native_myadd,
           op_call_unknown, op_print, op_getint, op_tstart, op_tend
  <2>2. QED BY <2>1 DEF Executes, At
<1>4. QED BY <1>2, <1>3

LEMMA StepKeeps ==
  ASSUME IInv, NEW exact, Keeps(exact), [Next]_vars
  PROVE  Keeps(exact)'
<1>1. CASE UNCHANGED vars
  <2>1. UNCHANGED <<prog, pc, machine, status, vstack, frames>>
    BY <1>1 DEF vars, machine
  <2>2. NrOps' = NrOps
    BY <2>1 DEF NrOps
  <2>3. DataFault => DataFault'
    BY <2>1, SameFault
  <2>4. QED BY <2>1, <2>2, <2>3 DEF Keeps
<1>2. CASE Next
  <2>1. status = "running" /\ prog' = prog
    BY <1>2, OnlyRunning
  <2>2. SUFFICES ASSUME Accepts(prog, Shapes[prog], exact) PROVE Keeps(exact)'
    BY <2>1 DEF Keeps
  <2>3. PICK bases : Balanced(Shapes[prog], frames, pc, vstack, bases, exact)
    BY <2>1, <2>2 DEF Keeps
  <2>4. Placed(Shapes[prog], frames, pc) /\ Returning(prog, frames)
    BY <2>2 DEF Keeps
  <2>5. Sequence(frames) /\ Sequence(vstack) /\ NrOps \in Nat
    <3>1. PICK kind : MachineOK(NrOps, vstack, frames, globals, arrs, kind)
      BY IInvIs
    <3>2. Sequence(frames) /\ Sequence(vstack)
      BY <3>1 DEF MachineOK, FramesOK, Filled
    <3>3. QED BY <3>2, ProgramOK DEF IInv
  <2>6. pc \in 0..NrOps
    <3>1. Len(frames) \in 1..Len(frames) /\ Position(frames, pc, Len(frames)) = pc
      BY <2>4, <2>5, SequenceIs DEF Placed, Position
    <3>2. pc \in DOMAIN Shapes[prog]
      BY <2>4, <3>1 DEF Placed
    <3>3. QED BY <2>2, <3>2, ShapeIs DEF NrOps
  <2>7. CASE pc = NrOps
    <3>1. pc \notin 0..(NrOps - 1) /\ ~(pc < 0) /\ pc >= NrOps
      BY <2>5, <2>7
    <3>2. ProgramEnd
      BY <1>2, <3>1, Zenon
         DEF Next, Native, Executes, At, AssertFails, TextOverflows, WildJump, op_push, op_binary,
             op_unary, op_createval, op_cast, op_mkarray, op_indexas, op_dup, op_discard, op_noop,
             op_getvar_loops, op_setvar, op_setglobal, op_jump, op_jumpcond, op_condbegin, op_condelse,
             op_loopbegin, op_loopend, op_loopexit, op_loopbody, op_halt, op_call, op_ret,
             native_print, native_read, native_random, native_exit, native_myadd, op_call_unknown,
             op_print, op_getint, op_tstart, op_tend
    <3>3. UNCHANGED <<pc, vstack, frames>> /\ status' = "ended" /\ NrOps' = NrOps
      BY <2>1, <3>2 DEF ProgramEnd, machine, NrOps
    <3>4. QED BY <2>1, <2>3, <2>4, <3>1, <3>3 DEF Keeps
  <2>8. CASE pc # NrOps
    <3>1. pc \in 0..(NrOps - 1)
      BY <2>5, <2>6, <2>8
    <3>2. Here(bases, exact)
      BY <2>2, <2>3, <2>4, <2>5, <3>1 DEF Here
    <3>3. QED BY <1>2, <3>2, InsideKeeps
  <2>9. QED BY <2>7, <2>8
<1>3. QED BY <1>1, <1>2

LEMMA InitKeeps ==
  ASSUME Init, NEW exact
  PROVE  Keeps(exact)
<1>1. SUFFICES ASSUME Accepts(prog, Shapes[prog], exact)
               PROVE  /\ Placed(Shapes[prog], frames, pc)
                      /\ Returning(prog, frames)
                      /\ \E bases : Balanced(Shapes[prog], frames, pc, vstack, bases, exact)
  BY DEF Init, Keeps
<1> DEFINE S == Shapes[prog]
           bases == [d \in 1..1 |-> 0]
<1>2. Expects(S, 0, FALSE, <<>>, <<>>, exact)
  BY <1>1 DEF Accepts
<1>3. pc = 0 /\ vstack = <<>> /\ Len(frames) = 1 /\ frames[1].loops = <<>>
      /\ frames[1].lent = Undef
  BY DEF Init, NewFrame
<1>4. Position(frames, pc, 1) = 0
  BY <1>3 DEF Position
<1>5. \A d : d \in 1..1 <=> d = 1
  OBVIOUS
<1>6. Placed(S, frames, pc)
  <2>1. Len(frames) >= 1 /\ (1 > 1) = FALSE /\ \A d : d \in 1..Len(frames) => d = 1
    BY <1>3, <1>5
  <2>2. 0 \in DOMAIN S /\ S[0].inside = (1 > 1) /\ S[0].loops = frames[1].loops
    BY <1>2, <1>3, <2>1 DEF Expects
  <2> HIDE DEF S
  <2>3. QED BY <1>4, <2>1, <2>2 DEF Placed
<1>7. OnTop(S[0].stack, <<>>, 0, exact)
  <2>1. 0 \in DOMAIN S /\ Fits(S[0].stack, <<>>, exact)
    BY <1>2 DEF Expects
  <2>2. Len(S[0].stack) \in Nat
    BY <1>1, <2>1, ShapeIs, SequenceIs
  <2>3. QED BY <2>1, <2>2 DEF Fits, OnTop
<1>8. Balanced(S, frames, pc, vstack, bases, exact)
  <2>1. bases \in [1..1 -> Nat] /\ bases[1] = 0 /\ \A d \in 1..(1 - 1) : FALSE
    OBVIOUS
  <2> HIDE DEF bases
  <2>2. QED BY <1>3, <1>7, <2>1 DEF Balanced
<1>9. Returning(prog, frames)
  BY <1>3 DEF Returning
<1>10. QED BY <1>6, <1>8, <1>9

\* The inductive invariant holds, whether the shapes are exact or not.
THEOREM ShapesKept == Spec => [](Keeps(FALSE) /\ Keeps(TRUE))
<1>1. Init => Keeps(FALSE) /\ Keeps(TRUE)
  BY InitKeeps
<1>2. IInv /\ Keeps(FALSE) /\ Keeps(TRUE) /\ [Next]_vars => Keeps(FALSE)' /\ Keeps(TRUE)'
  <2>1. SUFFICES ASSUME IInv, Keeps(FALSE), Keeps(TRUE), [Next]_vars
                 PROVE  Keeps(FALSE)' /\ Keeps(TRUE)'
    OBVIOUS
  <2>2. Keeps(FALSE)'
    BY <2>1, StepKeeps
  <2>3. Keeps(TRUE)'
    BY <2>1, StepKeeps
  <2>4. QED BY <2>2, <2>3
<1>3. QED BY <1>1, <1>2, Invariant, PTL DEF Spec

---------------------------------------------------------------------------
(* What follows for the programs with shapes. *)

\* A program with exact shapes has shapes all the more.
LEMMA ExactIsSafe == Exact \subseteq Safe
<1>1. ASSUME NEW p, NEW S, Accepts(p, S, TRUE) PROVE Accepts(p, S, FALSE)
  <2>1. ASSUME NEW t, NEW inside, NEW stack, NEW loops, Expects(S, t, inside, stack, loops, TRUE)
        PROVE  Expects(S, t, inside, stack, loops, FALSE)
    BY <2>1 DEF Expects, Fits
  <2>2. QED BY <1>1, <2>1, Zenon DEF Accepts
<1>2. QED BY <1>1 DEF Exact, Safe

\* No assertion of the machine fails.
THEOREM OperandsAreThere == Spec => [](prog \in Safe => NoAssertFails)
<1>1. Keeps(FALSE) => (prog \in Safe => NoAssertFails)
  BY DEF Keeps, Safe, NoAssertFails
<1>2. QED BY <1>1, ShapesKept, PTL

\* The machine fails at most where an operation has no result for its operands.
THEOREM FailsOnlyOnData == Spec => [](prog \in Safe => NoFailure \/ (status = "crashed" /\ DataFault))
<1>1. Keeps(FALSE) => (prog \in Safe => NoFailure \/ (status = "crashed" /\ DataFault))
  BY DEF Keeps, Safe, NoFailure
<1>2. QED BY <1>1, ShapesKept, PTL

\* Where the function that runs is, its shape is known.
LEMMA PlacedHere ==
  ASSUME IInv, NEW exact, Keeps(exact), Accepts(prog, Shapes[prog], exact)
  PROVE  /\ Sequence(frames) /\ Len(frames) \in Nat /\ Len(frames) >= 1
         /\ Frame = frames[Len(frames)]
         /\ pc \in DOMAIN Shapes[prog]
         /\ Shape.inside = (Len(frames) > 1)
         /\ Shape.loops = Frame.loops
<1>1. Placed(Shapes[prog], frames, pc)
  BY DEF Keeps
<1>2. PICK kind : MachineOK(NrOps, vstack, frames, globals, arrs, kind)
  BY IInvIs
<1>3. Sequence(frames) /\ Len(frames) \in Nat /\ Len(frames) >= 1
  BY <1>1, <1>2, SequenceIs DEF MachineOK, FramesOK, Placed
<1>4. frames # <<>>
  BY <1>3
<1>5. Frame = frames[Len(frames)]
  BY <1>3, <1>4, SequenceFront DEF Frame
<1>6. Len(frames) \in 1..Len(frames) /\ Position(frames, pc, Len(frames)) = pc
  BY <1>3 DEF Position
<1>7. QED BY <1>1, <1>3, <1>5, <1>6 DEF Placed, Shape

\* The loop stack of the running function always matches the code: however its
\* loops and conditions are left and re-entered.
THEOREM LoopsMatchCode == Spec => [](prog \in Safe => LoopStackMatchesCode)
<1>1. IInv /\ Keeps(FALSE) => (prog \in Safe => LoopStackMatchesCode)
  <2>1. SUFFICES ASSUME IInv, Keeps(FALSE), prog \in Safe PROVE LoopStackMatchesCode
    OBVIOUS
  <2>2. Accepts(prog, Shapes[prog], FALSE)
    BY <2>1 DEF Safe
  <2>3. pc \in DOMAIN Shapes[prog] /\ Shape.loops = Frame.loops
    BY <2>1, <2>2, PlacedHere
  <2>4. Len(Shape.loops) = OpsBefore(prog, pc, "LOOPBEGIN") - OpsBefore(prog, pc, "LOOPEND")
    BY <2>2, <2>3, ShapeIs DEF Shape
  <2>5. QED BY <2>3, <2>4 DEF LoopStackMatchesCode
<1>2. QED BY <1>1, ShapesKept, Invariant, PTL

\* A CALL opens and closes no loop.
LEMMA LoopsAtCall ==
  ASSUME NEW p, NEW q \in 0..(Len(p.ops) - 1), p.ops[q + 1].op = "CALL", Len(p.ops) \in Nat
  PROVE  /\ OpsBefore(p, q + 1, "LOOPBEGIN") = OpsBefore(p, q, "LOOPBEGIN")
         /\ OpsBefore(p, q + 1, "LOOPEND") = OpsBefore(p, q, "LOOPEND")
<1>1. ASSUME NEW op \in {"LOOPBEGIN", "LOOPEND"}
      PROVE  {j \in 1..(q + 1) : j <= Len(p.ops) /\ p.ops[j].op = op}
               = {j \in 1..q : j <= Len(p.ops) /\ p.ops[j].op = op}
  <2>1. \A j \in 1..(q + 1) : j \in 1..q \/ j = q + 1
    OBVIOUS
  <2>2. p.ops[q + 1].op # op /\ 1..q \subseteq 1..(q + 1)
    BY <1>1
  <2>3. QED BY <2>1, <2>2
<1>2. QED BY <1>1 DEF OpsBefore

\* While functions wait they keep their loop stacks and where they go on: a
\* program with shapes never gives a function the means to change its caller.
THEOREM CallersKept == Spec => [](prog \in Safe => CallersIntact)
<1>1. IInv /\ Keeps(FALSE) => (prog \in Safe => CallersIntact)
  <2>1. SUFFICES ASSUME IInv, Keeps(FALSE), prog \in Safe, NEW d \in 1..(Len(frames) - 1)
                 PROVE  LET call == frames[d + 1].ret
                        IN /\ call.t = "num" /\ call.n \in 0..(NrOps - 1)
                           /\ prog.ops[call.n + 1].op = "CALL"
                           /\ frames[d].lent = Undef
                           /\ Len(frames[d].loops) =
                                OpsBefore(prog, call.n, "LOOPBEGIN")
                                  - OpsBefore(prog, call.n, "LOOPEND")
    BY DEF CallersIntact
  <2> DEFINE call == frames[d + 1].ret
             S == Shapes[prog]
  <2>2. Accepts(prog, S, FALSE)
    BY <2>1 DEF Safe
  <2>3. Placed(S, frames, pc) /\ Returning(prog, frames) /\ Len(frames) \in Nat
    BY <2>1, <2>2, PlacedHere DEF Keeps
  <2>4. d \in 1..Len(frames) /\ d # Len(frames) /\ d + 1 \in 2..Len(frames)
    BY <2>3
  <2>5. call \in CallsOf(prog)
    BY <2>3, <2>4 DEF Returning
  <2>6. call.t = "num" /\ call.n \in 0..(NrOps - 1) /\ prog.ops[call.n + 1].op = "CALL"
    <3>1. PICK q \in 0..(Len(prog.ops) - 1) : call = Num(q) /\ prog.ops[q + 1].op = "CALL"
      BY <2>5, Zenon DEF CallsOf
    <3>2. call.t = "num" /\ call.n = q
      BY <3>1 DEF Num
    <3>3. QED BY <3>1, <3>2 DEF NrOps
  <2>7. Position(frames, pc, d) = call.n + 1
    BY <2>4 DEF Position
  <2> HIDE DEF call, S
  <2>8. call.n + 1 \in DOMAIN S /\ S[call.n + 1].loops = frames[d].loops /\ frames[d].lent = Undef
    BY <2>3, <2>4, <2>7 DEF Placed
  <2>9. Len(frames[d].loops)
          = OpsBefore(prog, call.n + 1, "LOOPBEGIN") - OpsBefore(prog, call.n + 1, "LOOPEND")
    BY <2>2, <2>8, ShapeIs
  <2>10. NrOps \in Nat
    BY <2>1, ProgramOK DEF IInv
  <2>11. QED BY <2>6, <2>8, <2>9, <2>10, LoopsAtCall DEF call, NrOps
<1>2. QED BY <1>1, ShapesKept, Invariant, PTL

\* Where the program ends its shape is that of the end.
LEMMA EndIs ==
  ASSUME IInv, NEW exact, Keeps(exact), Accepts(prog, Shapes[prog], exact), status = "ended"
  PROVE  /\ pc = Len(prog.ops)
         /\ ~Shape.inside
         /\ Shape.loops = <<>>
         /\ exact => Shape.stack = <<>>
<1>1. pc >= NrOps /\ pc \in DOMAIN Shapes[prog]
  BY PlacedHere DEF Keeps
<1>2. pc \in 0..NrOps
  BY <1>1, ShapeIs DEF NrOps
<1>3. pc = Len(prog.ops)
  <2>1. NrOps \in Nat
    BY ProgramOK DEF IInv
  <2>2. QED BY <1>1, <1>2, <2>1 DEF NrOps
<1>4. QED BY <1>1, <1>3, Zenon DEF Accepts, Shape

\* A program that ends has returned from all functions and closed all loops.
THEOREM AllReturn == Spec => [](prog \in Safe => AllReturned)
<1>1. IInv /\ Keeps(FALSE) => (prog \in Safe => AllReturned)
  <2>1. SUFFICES ASSUME IInv, Keeps(FALSE), prog \in Safe, status = "ended"
                 PROVE  Len(frames) = 1 /\ frames[1].loops = <<>>
    BY DEF AllReturned
  <2>2. Accepts(prog, Shapes[prog], FALSE)
    BY <2>1 DEF Safe
  <2>3. ~Shape.inside /\ Shape.loops = <<>>
    BY <2>1, <2>2, EndIs
  <2>4. Len(frames) \in Nat /\ Len(frames) >= 1 /\ Frame = frames[Len(frames)]
        /\ Shape.inside = (Len(frames) > 1) /\ Shape.loops = Frame.loops
    BY <2>1, <2>2, PlacedHere
  <2>5. Len(frames) = 1
    <3>1. ~(Len(frames) > 1)
      BY <2>3, <2>4
    <3>2. \A n \in Nat : n >= 1 /\ ~(n > 1) => n = 1
      OBVIOUS
    <3>3. QED BY <2>4, <3>1, <3>2
  <2>6. QED BY <2>3, <2>4, <2>5
<1>2. QED BY <1>1, ShapesKept, Invariant, PTL

\* A program with exact shapes that ends has consumed every value it pushed.
THEOREM StackIsEmptied == Spec => [](prog \in Exact => StackEmptied)
<1>1. IInv /\ Keeps(TRUE) /\ (prog \in Safe => AllReturned) => (prog \in Exact => StackEmptied)
  <2>1. SUFFICES ASSUME IInv, Keeps(TRUE), prog \in Exact, prog \in Safe => AllReturned,
                        status = "ended"
                 PROVE  vstack = <<>>
    BY DEF StackEmptied
  <2>2. Accepts(prog, Shapes[prog], TRUE)
    BY <2>1 DEF Exact
  <2>3. Len(frames) = 1
    BY <2>1, ExactIsSafe DEF AllReturned
  <2>4. PICK bases : Balanced(Shapes[prog], frames, pc, vstack, bases, TRUE)
    BY <2>1, <2>2 DEF Keeps
  <2>5. OnTop(Shape.stack, vstack, 0, TRUE)
    BY <2>3, <2>4 DEF Balanced, Shape
  <2>6. Shape.stack = <<>>
    BY <2>1, <2>2, EndIs
  <2>7. Sequence(vstack)
    <3>1. PICK kind : MachineOK(NrOps, vstack, frames, globals, arrs, kind)
      BY <2>1, IInvIs
    <3>2. QED BY <3>1 DEF MachineOK, Filled
  <2>8. Len(vstack) = 0
    BY <2>5, <2>6, <2>7, SequenceIs DEF OnTop
  <2>9. QED BY <2>7, <2>8 DEF Sequence
<1>2. QED BY <1>1, ShapesKept, AllReturn, Invariant, PTL

\* What run interpreter checks of the compiler's programs is all it takes.
THEOREM ShapesSuffice ==
  Spec => [](KeepsToShapes =>
               NoAssertFails /\ LoopStackMatchesCode /\ CallersIntact /\ AllReturned)
<1>1. KeepsToShapes => prog \in Safe
  BY ExactIsSafe DEF KeepsToShapes
<1>2. QED BY <1>1, OperandsAreThere, LoopsMatchCode, CallersKept, AllReturn, PTL

=============================================================================
