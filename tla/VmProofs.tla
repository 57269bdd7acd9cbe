----------------------------- MODULE VmProofs -----------------------------
(* Proofs about the virtual machine, for every program, every input and    *)
(* every width of an int: what TypeOK, KeysUnique and Trimmed say holds of *)
(* every execution, also of programs that get hold of their loop stacks    *)
(* and return addresses.                                                   *)
(*                                                                         *)
(* Neither invariant is inductive alone: a value may be used as an operand *)
(* only if it is one (TypeOK), an array is copied or extended only by      *)
(* values (TypeOK again), and that a map keeps its keys apart rests on a   *)
(* number being equal to another only if it is the same, which holds of    *)
(* ints and not of all numbers.  And none of them says what a value of an  *)
(* array may not become: once a map, always a map.  kind in the inductive  *)
(* invariant IInv remembers it.                                            *)
EXTENDS Vm, ValueProofs

---------------------------------------------------------------------------
(* The inductive invariant. *)

FrameOK(fr, n, kind) ==
  /\ DOMAIN fr = {"ret", "loops", "lent", "vars"}
  /\ Good(fr.ret, kind)
  /\ fr.loops \in Seq(0..(n - 1))
  /\ Good(fr.lent, kind)
  /\ Tidy(fr.vars, kind)

FramesOK(fs, n, kind) == Sequence(fs) /\ \A i \in 1..Len(fs) : FrameOK(fs[i], n, kind)

\* A program of n instructions may find this stack, these frames, globals and
\* arrays.
MachineOK(n, stack, fs, glob, store, kind) ==
  /\ Store(store, kind)
  /\ Filled(stack, kind)
  /\ Tidy(glob, kind)
  /\ FramesOK(fs, n, kind)

IInv ==
  /\ prog \in Programs
  /\ stdin \in Stdins
  /\ nread \in 0..Len(stdin)
  /\ status \in {"running", "ended", "halted", "aborted", "crashed"}
  /\ \E kind \in [DOMAIN arrs -> {"arr", "map"}] :
       MachineOK(NrOps, vstack, frames, globals, arrs, kind)

\* A step makes no array that ends in an undefined slot, but by leaving a loop.
ArraysTrimmed ==
  \A s \in ToSet(arrs') \ ToSet(arrs) :
    \/ LastUsed(s)
    \/ Op \in {"LOOPEXIT", "LOOPBODY"} /\ s = Pop(LoopStack(Frame))

\* What is shown of every step from a state that satisfies the invariant.
Kept == IInv' /\ ArraysTrimmed

LEMMA IInvIs ==
  /\ IInv => \E kind : MachineOK(NrOps, vstack, frames, globals, arrs, kind)
  /\ /\ prog \in Programs
     /\ stdin \in Stdins
     /\ nread \in 0..Len(stdin)
     /\ status \in {"running", "ended", "halted", "aborted", "crashed"}
     /\ \E kind : MachineOK(NrOps, vstack, frames, globals, arrs, kind)
     => IInv
<1>1. ASSUME NEW kind, MachineOK(NrOps, vstack, frames, globals, arrs, kind)
      PROVE  kind \in [DOMAIN arrs -> {"arr", "map"}]
  <2>1. DOMAIN arrs = 1..Len(arrs)
    BY <1>1, SequenceIs DEF MachineOK, Store
  <2>2. QED BY <1>1, <2>1 DEF MachineOK, Store
<1>2. QED BY <1>1 DEF IInv

---------------------------------------------------------------------------
(* What the invariant tells of the operands. *)

\* The assertions on the number of operands.
LEMMA MinArgsIs ==
  ASSUME NEW op
  PROVE  /\ op \in Binary => MinArgs(op) = 2
         /\ op \in Ternary => MinArgs(op) = 3
         /\ op \notin Nullary \cup Binary \cup Ternary => MinArgs(op) = 1
<1>1. ~(op \in Binary /\ op \in Nullary)
  BY DEF Binary, Nullary, Compare, Arith
<1>2. ~(op \in Ternary /\ op \in Nullary) /\ ~(op \in Ternary /\ op \in Binary)
  BY DEF Ternary, Binary, Nullary, Compare, Arith
<1>3. QED BY <1>1, <1>2 DEF MinArgs

LEMMA StackOK ==
  ASSUME NEW kind, Filled(vstack, kind)
  PROVE  /\ Len(vstack) \in Nat
         /\ \A i \in 1..Len(vstack) : Good(Top(i), kind)
         /\ \A k \in 0..Len(vstack) : Filled(Below(k), kind)
<1>1. Len(vstack) \in Nat /\ vstack \in Seq(ToSet(vstack)) /\ \A x \in ToSet(vstack) : Good(x, kind)
  BY FilledIs, SequenceIs DEF Filled
<1>2. ASSUME NEW i \in 1..Len(vstack) PROVE Good(Top(i), kind)
  <2>1. Len(vstack) + 1 - i \in 1..Len(vstack)
    BY <1>1
  <2>2. QED BY <2>1 DEF Top, Filled
<1>3. ASSUME NEW k \in 0..Len(vstack) PROVE Filled(Below(k), kind)
  <2>1. Len(vstack) - k \in 0..Len(vstack)
    BY <1>1
  <2>2. SubSeq(vstack, 1, Len(vstack) - k) \in Seq(ToSet(vstack))
    BY <1>1, <2>1
  <2>3. QED BY <1>1, <2>2, FilledIs DEF Below
<1>4. QED BY <1>1, <1>2, <1>3

LEMMA PushOK ==
  ASSUME NEW kind, NEW s, Filled(s, kind), NEW v, Good(v, kind)
  PROVE  Filled(Append(s, v), kind)
<1>1. s \in Seq(ToSet(s)) /\ \A x \in ToSet(s) : Good(x, kind)
  BY FilledIs
<1>2. s \in Seq(ToSet(s) \cup {v}) /\ \A x \in ToSet(s) \cup {v} : Good(x, kind)
  BY <1>1
<1>3. Append(s, v) \in Seq(ToSet(s) \cup {v})
  BY <1>2
<1>4. QED BY <1>2, <1>3, FilledIs

\* The arguments of a call.
LEMMA ArgsOK ==
  ASSUME NEW kind, Filled(vstack, kind), Len(vstack) >= 2, Top(2).t = "num",
         Len(vstack) - 2 >= Top(2).n
  PROVE  /\ NrArgs + 2 \in 0..Len(vstack)
         /\ Tidy(Args, kind)
         /\ \A i \in Nat : Good(Arg(i), kind)
<1>1. Len(vstack) \in Nat /\ Good(Top(2), kind)
  BY StackOK
<1>2. Top(2).n \in Int
  BY <1>1, Ints DEF Good
<1>3. NrArgs \in Nat /\ NrArgs + 2 \in 0..Len(vstack)
  BY <1>1, <1>2 DEF NrArgs
<1> DEFINE made == [i \in 1..NrArgs |-> Top(i + 2)]
<1>4. \A i \in 1..NrArgs : Good(Top(i + 2), kind)
  <2>1. \A i \in 1..NrArgs : i + 2 \in 1..Len(vstack)
    BY <1>1, <1>3
  <2>2. QED BY <2>1, StackOK
<1>5. Filled(made, kind)
  <2>1. made = [i \in 1..NrArgs |-> made[i]] /\ \A i \in 1..NrArgs : made[i] = Top(i + 2)
    OBVIOUS
  <2> HIDE DEF made
  <2>2. Sequence(made) /\ Len(made) = NrArgs
    BY <1>3, <2>1, SequenceMade
  <2>3. QED BY <1>4, <2>1, <2>2 DEF Filled
<1>6. Tidy(Args, kind)
  BY <1>5, TrimTidy DEF Args
<1>7. QED BY <1>3, <1>6, ArrGetGood DEF Arg, Tidy

---------------------------------------------------------------------------
(* The results of the operations. *)

LEMMA ProgramOK ==
  ASSUME prog \in Programs, NEW kind
  PROVE  /\ NrOps \in Nat /\ NrOps <= MaxInt
         /\ \A i \in 0..(NrOps - 1) : Good(Num(prog.ops[i + 1].n), kind)
         /\ Filled(prog.constants, kind)
<1>1. prog.ops \in Seq([op : STRING, n : MinInt..MaxInt]) /\ Len(prog.ops) <= MaxInt
  BY ProgramAssumption
<1>2. NrOps \in Nat /\ NrOps <= MaxInt
  BY <1>1 DEF NrOps
<1>3. ASSUME NEW i \in 0..(NrOps - 1) PROVE Good(Num(prog.ops[i + 1].n), kind)
  <2> DEFINE I == [op : STRING, n : MinInt..MaxInt]
  <2>1. i + 1 \in 1..Len(prog.ops)
    BY <1>2 DEF NrOps
  <2>2. \A x \in I : x.n \in MinInt..MaxInt
    OBVIOUS
  <2> HIDE DEF I
  <2>3. prog.ops[i + 1].n \in MinInt..MaxInt
    <3>1. prog.ops \in Seq(I)
      BY <1>1 DEF I
    <3>2. prog.ops[i + 1] \in I
      BY <2>1, <3>1
    <3>3. QED BY <2>2, <3>2
  <2>4. QED BY <2>3, NumGood
<1> DEFINE N == [t : {"num"}, n : MinInt..MaxInt, s : {<<>>}]
           C == [t : {"str"}, n : {0}, s : Seq(Int)]
<1>4. prog.constants \in Seq(N \cup C)
  BY ProgramAssumption
<1>5. ASSUME NEW x \in N PROVE Good(x, kind)
  BY DEF Good
<1>6. ASSUME NEW x \in C PROVE Good(x, kind)
  <2>1. x.t = "str" /\ x.s \in Seq(Int)
    OBVIOUS
  <2>2. QED BY <2>1, SequenceOf DEF Good
<1> HIDE DEF N, C
<1>7. \A x \in N \cup C : Good(x, kind)
  BY <1>5, <1>6
<1>8. Filled(prog.constants, kind)
  BY <1>4, <1>7, FilledIs
<1>9. QED BY <1>2, <1>3, <1>8

LEMMA BinaryOK ==
  ASSUME NEW kind, Store(arrs, kind), NEW v, NEW w, Good(v, kind), Good(w, kind),
         NEW op \in Compare \cup Arith
  PROVE  Result(BinaryResult(op, v, w), kind)
<1>1. \A b : Result(Bool(b), kind)
  BY NumGood, GoodResult
<1>2. CASE op = "ADD"
  <2>1. BinaryResult(op, v, w) = ValAdd(v, w, arrs)
    BY <1>2 DEF BinaryResult
  <2>2. QED BY <2>1, AddResult
<1>3. CASE op = "SUB"
  <2>1. BinaryResult(op, v, w) = ValSub(v, w)
    BY <1>3 DEF BinaryResult
  <2>2. QED BY <2>1, NumberResults
<1>4. CASE op \in {"MUL", "MYMUL"}
  <2>1. BinaryResult(op, v, w) = ValMul(v, w, arrs)
    BY <1>4 DEF BinaryResult
  <2>2. QED BY <2>1, MulResult
<1>5. CASE op = "DIVIDE"
  <2>1. BinaryResult(op, v, w) = ValDiv(v, w)
    BY <1>5 DEF BinaryResult
  <2>2. QED BY <2>1, NumberResults
<1>6. CASE op = "MODULO"
  <2>1. BinaryResult(op, v, w) = ValMod(v, w)
    BY <1>6 DEF BinaryResult
  <2>2. QED BY <2>1, NumberResults
<1>7. CASE op \in Compare
  <2>1. CASE op = "EQUAL"
    BY <1>1, <2>1 DEF BinaryResult
  <2>2. CASE op = "NOTEQUAL"
    BY <1>1, <2>2 DEF BinaryResult
  <2>3. CASE op = "LESS"
    BY <1>1, <2>3 DEF BinaryResult
  <2>4. CASE op = "LESSEQUAL"
    BY <1>1, <2>4 DEF BinaryResult
  <2>5. CASE op = "GREATER"
    BY <1>1, <2>5 DEF BinaryResult
  <2>6. CASE op = "GREATEREQUAL"
    BY <1>1, <2>6 DEF BinaryResult
  <2>7. QED BY <1>7, <2>1, <2>2, <2>3, <2>4, <2>5, <2>6 DEF Compare
<1>8. CASE op = "AND"
  BY <1>1, <1>8 DEF BinaryResult
<1>9. CASE op = "OR"
  BY <1>1, <1>9 DEF BinaryResult
<1>10. CASE op = "INDEX1"
  <2>1. BinaryResult(op, v, w) = ValIndex(v, w, arrs)
    BY <1>10 DEF BinaryResult
  <2>2. QED BY <2>1, IndexResult
<1>11. QED BY <1>2, <1>3, <1>4, <1>5, <1>6, <1>7, <1>8, <1>9, <1>10 DEF Arith

\* GETVAR looks only into the frame of the running function.
LEMMA FrameIs ==
  ASSUME NEW n, NEW kind, FramesOK(frames, n, kind), frames # <<>>
  PROVE  Len(frames) \in Nat /\ Len(frames) >= 1 /\ Frame = frames[Len(frames)] /\ FrameOK(Frame, n, kind)
<1>1. Sequence(frames)
  BY DEF FramesOK
<1>2. Len(frames) >= 1 /\ Last(frames) = frames[Len(frames)] /\ Len(frames) \in Nat
  BY <1>1, SequenceFront, SequenceIs
<1>3. QED BY <1>2 DEF FramesOK, Frame

LEMMA UnaryOK ==
  ASSUME NEW kind, MachineOK(NrOps, vstack, frames, globals, arrs, kind), prog \in Programs,
         NEW v, Good(v, kind), NEW op \in Unary,
         op \in {"CONSTANT", "GETVAR", "GETGLOBAL"} => v.t = "num",
         op = "GETVAR" => frames # <<>>,
         NEW r \in UnaryResults(op, v)
  PROVE  Result(r, kind)
<1>1. v.t = "num" => v.n \in Int
  BY Ints DEF Good
<1>2. CASE op = "NEGATE"
  <2>1. r = ValNeg(v)
    BY <1>2 DEF UnaryResults
  <2>2. QED BY <2>1, NumberResults
<1>3. CASE op \in {"INC", "DEC"}
  <2>1. CASE v.t = "num"
    <3>1. v.n + 1 \in Int /\ v.n - 1 \in Int
      BY <1>1, <2>1
    <3>2. Good(Num(Wrap(v.n + 1)), kind) /\ Good(Num(Wrap(v.n - 1)), kind)
      BY <3>1, NumGood
    <3>3. r = Num(Wrap(v.n + 1)) \/ r = Num(Wrap(v.n - 1))
      BY <1>3, <2>1 DEF UnaryResults
    <3>4. QED BY <3>2, <3>3, GoodResult
  <2>2. CASE v.t # "num"
    <3>1. r = v
      BY <1>3, <2>2 DEF UnaryResults
    <3>2. QED BY <3>1, GoodResult
  <2>3. QED BY <2>1, <2>2
<1>4. CASE op = "NOT"
  <2>1. r \in NotResults(v)
    BY <1>4 DEF UnaryResults
  <2>2. 0 \in MinInt..MaxInt /\ 1 \in MinInt..MaxInt
    BY Ints
  <2>3. QED BY <2>1, <2>2, NumGood, GoodResult DEF NotResults
<1>5. CASE op = "LEN"
  <2>1. r = Num(Wrap(ValLen(v, arrs)))
    BY <1>5 DEF UnaryResults
  <2>2. ValLen(v, arrs) \in Int
    BY LenInt DEF MachineOK
  <2>3. QED BY <2>1, <2>2, NumGood, GoodResult
<1>6. CASE op = "COPY"
  <2>1. r = ValDup(v, arrs)
    BY <1>6 DEF UnaryResults
  <2>2. QED BY <2>1, DupResult DEF MachineOK
<1>7. CASE op = "CONSTANT"
  <2>1. r = ArrGet(prog.constants, v.n)
    BY <1>7 DEF UnaryResults
  <2>2. QED BY <1>1, <1>7, <2>1, ProgramOK, GetResult
<1>8. CASE op = "GETVAR"
  <2>1. r = Loaded(Frame, Slot(v.n))
    BY <1>8 DEF UnaryResults
  <2>2. Filled(Frame.vars, kind) /\ Good(Frame.ret, kind) /\ Good(Frame.lent, kind)
    BY <1>8, FrameIs DEF MachineOK, FrameOK, Tidy
  <2>3. Slot(v.n) \in Int
    <3>1. v.n + 2 \in Int
      BY <1>1, <1>8
    <3>2. Wrap(v.n + 2) \in Int
      BY <3>1, WrapIs, Ints
    <3>3. QED BY <3>2 DEF Slot
  <2>4. r \in {Frame.lent, Frame.ret, ArrGet(Frame.vars, Slot(v.n))}
    BY <2>1 DEF Loaded
  <2>5. QED BY <2>2, <2>3, <2>4, GetResult, GoodResult
<1>9. CASE op = "GETGLOBAL"
  <2>1. r = ArrGet(globals, v.n)
    BY <1>9 DEF UnaryResults
  <2>2. Filled(globals, kind)
    BY DEF MachineOK, Tidy
  <2>3. QED BY <1>1, <1>9, <2>1, <2>2, GetResult
<1>10. QED BY <1>2, <1>3, <1>4, <1>5, <1>6, <1>7, <1>8, <1>9 DEF Unary

LEMMA CreatedOK ==
  ASSUME NEW kind, NEW type \in Int, type # 3
  PROVE  Result(Created(type), kind)
<1>1. type \in {0, 1, 2, 4, 5, 6} \/ type \notin 0..6
  OBVIOUS
<1>2. \A k \in {0, 1, 2, 4, 5, 6} : k \in 0..6
  OBVIOUS
<1>3. Created(type) \in {Undef, Str(<<>>), Num(0), NewArr(<<>>), NewMap(<<>>), Ref(0), Crash}
  <2>1. CASE type = 0
    BY <1>2, <2>1 DEF Created
  <2>2. CASE type = 1
    BY <1>2, <2>2 DEF Created
  <2>3. CASE type = 2
    BY <1>2, <2>3 DEF Created
  <2>4. CASE type = 4
    BY <1>2, <2>4 DEF Created
  <2>5. CASE type = 5
    BY <1>2, <2>5 DEF Created
  <2>6. CASE type = 6
    BY <1>2, <2>6 DEF Created
  <2>7. CASE type \notin 0..6
    <3>1. type \notin {0, 1, 2, 4, 5, 6}
      BY <1>2, <2>7
    <3>2. QED BY <2>7, <3>1 DEF Created
  <2>8. QED BY <1>1, <2>1, <2>2, <2>3, <2>4, <2>5, <2>6, <2>7
<1>4. Tidy(<<>>, kind)
  BY TextSequences DEF Tidy, Filled, LastUsed
<1>5. IsMap(<<>>)
  <2>1. <<>> \in Seq({}) /\ 0 \in Nat /\ Len(<<>>) = 2 * 0 /\ 1..0 = {}
    OBVIOUS
  <2>2. QED BY <2>1, MapIs
<1>6. Good(Ref(0), kind) /\ Good(Num(0), kind) /\ Good(Str(<<>>), kind)
  <2>1. 0 \in MinInt..MaxInt
    BY Ints
  <2>2. QED BY <2>1, NumGood, TextSequences, StrGood DEF Good, Ref
<1>7. QED BY <1>3, <1>4, <1>5, <1>6, GoodResult

LEMMA CastOK ==
  ASSUME NEW kind, NEW type \in Int, NEW v, Good(v, kind)
  PROVE  Result(Cast(type, v), kind)
<1>1. /\ type = 1 => type \in 0..6 /\ type # 2 /\ type # 4 /\ type # 5 /\ type # 6
      /\ type = 2 => type \in 0..6 /\ type # 1 /\ type # 4 /\ type # 5 /\ type # 6
      /\ type \in {4, 5, 6} => type \in 0..6 /\ type # 1 /\ type # 2
  OBVIOUS
<1>2. <<type, v.t>> \in {<<4, "arr">>, <<5, "map">>, <<6, "ref">>} => type \in {4, 5, 6}
  OBVIOUS
<1>3. Cast(type, v) \in {Str(ToStr(v)), ToNum(v), v, Crash, Undef}
  <2> DEFINE same == <<type, v.t>> \in {<<4, "arr">>, <<5, "map">>, <<6, "ref">>}
             any == 0..6
  <2>1. Cast(type, v) = CASE type = 1 -> Str(ToStr(v))
                          [] type = 2 -> ToNum(v)
                          [] same -> v
                          [] type \notin any -> Crash
                          [] OTHER -> Undef
    BY DEF Cast
  <2>2. /\ type = 1 => type \in any /\ type # 2 /\ ~same
        /\ type = 2 => type \in any /\ type # 1 /\ ~same
        /\ same => type \in any /\ type # 1 /\ type # 2
    BY <1>1, <1>2
  <2> HIDE DEF same, any
  <2>3. CASE type = 1
    BY <2>1, <2>2, <2>3
  <2>4. CASE type = 2
    BY <2>1, <2>2, <2>4
  <2>5. CASE same
    BY <2>1, <2>2, <2>5
  <2>6. CASE type \notin any
    BY <2>1, <2>2, <2>6
  <2>7. CASE type \in any /\ type # 1 /\ type # 2 /\ ~same
    BY <2>1, <2>7
  <2>8. QED BY <2>3, <2>4, <2>5, <2>6, <2>7
<1>4. Good(Str(ToStr(v)), kind) /\ Good(ToNum(v), kind)
  BY ToStrText, StrGood, ToNumGood
<1>5. QED BY <1>3, <1>4, GoodResult

---------------------------------------------------------------------------
(* How a step keeps the invariant. *)

LEMMA KeepsIInv ==
  ASSUME IInv, prog' = prog, stdin' = stdin, nread' \in 0..Len(stdin),
         status' \in {"running", "ended", "halted", "aborted", "crashed"},
         arrs' = arrs \/ ArraysTrimmed,
         NEW kind, MachineOK(NrOps, vstack', frames', globals', arrs', kind)
  PROVE  Kept
<1>1. DOMAIN arrs' = 1..Len(arrs')
  BY SequenceIs DEF MachineOK, Store
<1>2. kind \in [DOMAIN arrs' -> {"arr", "map"}]
  BY <1>1 DEF MachineOK, Store
<1>3. NrOps' = NrOps
  BY DEF NrOps
<1>4. QED BY <1>2, <1>3 DEF IInv, Kept, ArraysTrimmed

\* Only the stack changes.
LEMMA StackStep ==
  ASSUME IInv, prog' = prog, stdin' = stdin, nread' \in 0..Len(stdin),
         status' \in {"running", "ended", "halted", "aborted", "crashed"},
         UNCHANGED <<frames, globals, arrs>>,
         NEW kind, MachineOK(NrOps, vstack, frames, globals, arrs, kind), Filled(vstack', kind)
  PROVE  Kept
<1>1. MachineOK(NrOps, vstack', frames', globals', arrs', kind)
  BY DEF MachineOK
<1>2. QED BY <1>1, KeepsIInv

LEMMA FramesGrow ==
  ASSUME NEW n, NEW fs, NEW kind, NEW more, FramesOK(fs, n, kind),
         DOMAIN kind \subseteq DOMAIN more, \A a \in DOMAIN kind : more[a] = kind[a]
  PROVE  FramesOK(fs, n, more)
<1>1. ASSUME NEW i \in 1..Len(fs) PROVE FrameOK(fs[i], n, more)
  <2>1. FrameOK(fs[i], n, kind)
    BY <1>1 DEF FramesOK
  <2>2. Tidy(fs[i].vars, more) /\ Good(fs[i].ret, more) /\ Good(fs[i].lent, more)
    BY <2>1, Grows DEF FrameOK
  <2>3. QED BY <2>1, <2>2 DEF FrameOK
<1>2. QED BY <1>1 DEF FramesOK

\* A result is put on the stack, and a new array into the store.
LEMMA YieldStep ==
  ASSUME IInv, status = "running", prog' = prog, stdin' = stdin, nread' \in 0..Len(stdin),
         UNCHANGED <<frames, globals>>,
         NEW kind, MachineOK(NrOps, vstack, frames, globals, arrs, kind),
         NEW stack, Filled(stack, kind), NEW r, Result(r, kind), Yield(r, stack)
  PROVE  Kept
<1>1. Store(arrs, kind) /\ Tidy(globals, kind) /\ FramesOK(frames, NrOps, kind)
  BY DEF MachineOK
<1>2. CASE r.t = "crash"
  <2>1. status' = "crashed" /\ UNCHANGED <<vstack, arrs>>
    BY <1>2 DEF Yield
  <2>2. QED BY <2>1, KeepsIInv
<1>3. CASE r.t \in {"newarr", "newmap"}
  <2> DEFINE k == IF r.t = "newarr" THEN "arr" ELSE "map"
             v == IF r.t = "newarr" THEN Arr(Len(arrs) + 1) ELSE Map(Len(arrs) + 1)
  <2>1. Tidy(r.s, kind) /\ (k = "map" => IsMap(r.s)) /\ k \in {"arr", "map"}
    BY <1>3 DEF Result, Good
  <2>2. /\ arrs' = Append(arrs, r.s)
        /\ vstack' = Append(stack, v)
        /\ status' = "running"
    BY <1>3 DEF Yield, Continue
  <2>3. v.t = k /\ v.n = Len(arrs) + 1
    BY DEF Arr, Map
  <2> HIDE DEF k, v
  <2>4. PICK more : /\ Store(arrs', more)
                    /\ ToSet(arrs') = ToSet(arrs) \cup {r.s}
                    /\ DOMAIN kind \subseteq DOMAIN more
                    /\ \A a \in DOMAIN kind : more[a] = kind[a]
                    /\ Len(arrs) + 1 \in DOMAIN more
                    /\ more[Len(arrs) + 1] = k
    BY <1>1, <2>1, <2>2, StoreGrows
  <2>5. Good(v, more)
    BY <2>1, <2>3, <2>4 DEF Good
  <2>6. Filled(stack, more) /\ Tidy(globals, more) /\ FramesOK(frames, NrOps, more)
    BY <1>1, <2>4, Grows, FramesGrow
  <2>7. Filled(vstack', more)
    BY <2>2, <2>5, <2>6, PushOK
  <2>8. MachineOK(NrOps, vstack', frames', globals', arrs', more)
    BY <2>4, <2>6, <2>7 DEF MachineOK
  <2>9. ArraysTrimmed
    BY <2>1, <2>4 DEF ArraysTrimmed, Tidy
  <2>10. QED BY <2>2, <2>8, <2>9, KeepsIInv
<1>4. CASE r.t \notin {"crash", "newarr", "newmap"}
  <2>1. Good(r, kind)
    BY <1>4 DEF Result
  <2>2. arrs' = arrs /\ vstack' = Append(stack, r) /\ status' = "running"
    BY <1>4 DEF Yield, Continue
  <2>3. Filled(vstack', kind)
    BY <2>1, <2>2, PushOK
  <2>4. QED BY <2>2, <2>3, StackStep
<1>5. QED BY <1>2, <1>3, <1>4

\* What an instruction that is executed may count on.
LEMMA Ready ==
  ASSUME IInv, NEW ops, Executes(ops)
  PROVE  /\ status = "running" /\ pc \in 0..(NrOps - 1) /\ Op \in ops /\ AssertsHold
         /\ prog' = prog /\ stdin' = stdin
         /\ prog \in Programs /\ nread \in 0..Len(stdin)
         /\ Op \in Binary => Len(vstack) >= 2
         /\ Op \in Ternary => Len(vstack) >= 3
         /\ Op \notin Nullary \cup Binary \cup Ternary => Len(vstack) >= 1
         /\ \E kind : MachineOK(NrOps, vstack, frames, globals, arrs, kind)
<1>1. /\ status = "running" /\ pc \in 0..(NrOps - 1) /\ Op \in ops /\ AssertsHold
      /\ prog' = prog /\ stdin' = stdin
  BY DEF Executes, At
<1>2. Len(vstack) >= MinArgs(Op)
  BY <1>1 DEF AssertsHold
<1>3. QED BY <1>1, <1>2, MinArgsIs, IInvIs DEF IInv

---------------------------------------------------------------------------
(* Every operation keeps the invariant: values and arithmetic. *)

LEMMA Push == IInv /\ op_push => Kept
<1>1. SUFFICES ASSUME IInv, op_push PROVE Kept
  OBVIOUS
<1>2. Executes({"PUSH"}) /\ UNCHANGED <<frames, globals, arrs, nread>>
      /\ vstack' = Append(vstack, Num(prog.ops[pc + 1].n)) /\ status' = status
  BY <1>1 DEF op_push, Continue
<1>3. PICK kind : MachineOK(NrOps, vstack, frames, globals, arrs, kind)
  BY <1>1, <1>2, Ready
<1>4. prog' = prog /\ stdin' = stdin /\ prog \in Programs /\ pc \in 0..(NrOps - 1)
      /\ status = "running" /\ nread \in 0..Len(stdin)
  BY <1>1, <1>2, Ready
<1>5. Filled(vstack', kind)
  BY <1>2, <1>3, <1>4, ProgramOK, PushOK DEF MachineOK
<1>6. QED BY <1>1, <1>2, <1>3, <1>4, <1>5, StackStep

\* An operation on the two values on top.
LEMMA Operands2 ==
  ASSUME NEW kind, MachineOK(NrOps, vstack, frames, globals, arrs, kind), Len(vstack) >= 2
  PROVE  Good(Top(1), kind) /\ Good(Top(2), kind) /\ Filled(Below(1), kind) /\ Filled(Below(2), kind)
<1>1. Filled(vstack, kind) /\ Len(vstack) \in Nat
  BY StackOK DEF MachineOK
<1>2. 1 \in 1..Len(vstack) /\ 2 \in 1..Len(vstack) /\ 1 \in 0..Len(vstack) /\ 2 \in 0..Len(vstack)
  BY <1>1
<1>3. QED BY <1>1, <1>2, StackOK

LEMMA Operand ==
  ASSUME NEW kind, MachineOK(NrOps, vstack, frames, globals, arrs, kind), Len(vstack) >= 1
  PROVE  Good(Top(1), kind) /\ Filled(Below(1), kind)
<1>1. Filled(vstack, kind) /\ Len(vstack) \in Nat
  BY StackOK DEF MachineOK
<1>2. 1 \in 1..Len(vstack) /\ 1 \in 0..Len(vstack)
  BY <1>1
<1>3. QED BY <1>1, <1>2, StackOK

LEMMA BinaryStep == IInv /\ op_binary => Kept
<1>1. SUFFICES ASSUME IInv, op_binary PROVE Kept
  OBVIOUS
<1>2. Executes(Compare \cup Arith) /\ Yield(BinaryResult(Op, Top(1), Top(2)), Below(2))
      /\ UNCHANGED <<frames, globals, nread>>
  BY <1>1 DEF op_binary
<1>3. PICK kind : MachineOK(NrOps, vstack, frames, globals, arrs, kind)
  BY <1>1, <1>2, Ready
<1>4. status = "running" /\ prog' = prog /\ stdin' = stdin /\ nread \in 0..Len(stdin)
      /\ Op \in Compare \cup Arith
  BY <1>1, <1>2, Ready
<1>5. Len(vstack) >= 2
  BY <1>1, <1>2, <1>4, Ready DEF Binary
<1>6. Good(Top(1), kind) /\ Good(Top(2), kind) /\ Filled(Below(2), kind) /\ Store(arrs, kind)
  BY <1>3, <1>5, Operands2 DEF MachineOK
<1>7. Result(BinaryResult(Op, Top(1), Top(2)), kind)
  BY <1>4, <1>6, BinaryOK
<1>8. QED BY <1>1, <1>2, <1>3, <1>4, <1>6, <1>7, YieldStep

LEMMA UnaryStep == IInv /\ op_unary => Kept
<1>1. SUFFICES ASSUME IInv, op_unary PROVE Kept
  OBVIOUS
<1>2. PICK r \in UnaryResults(Op, Top(1)) : Yield(r, Below(1))
  BY <1>1 DEF op_unary
<1>3. Executes(Unary) /\ UNCHANGED <<frames, globals, nread>>
  BY <1>1 DEF op_unary
<1>4. PICK kind : MachineOK(NrOps, vstack, frames, globals, arrs, kind)
  BY <1>1, <1>3, Ready
<1>5. status = "running" /\ prog' = prog /\ stdin' = stdin /\ nread \in 0..Len(stdin)
      /\ prog \in Programs /\ Op \in Unary /\ AssertsHold
  BY <1>1, <1>3, Ready
<1>6. Op \notin Nullary \cup Binary \cup Ternary
  BY <1>5 DEF Unary, Nullary, Binary, Ternary, Compare, Arith
<1>7. Len(vstack) >= 1
  BY <1>1, <1>3, <1>6, Ready
<1>8. Good(Top(1), kind) /\ Filled(Below(1), kind)
  BY <1>4, <1>7, Operand
<1>9. /\ Op \in {"CONSTANT", "GETVAR", "GETGLOBAL"} => Top(1).t = "num"
      /\ Op = "GETVAR" => frames # <<>>
  BY <1>5 DEF AssertsHold, NumberOnTop, UsesFrame
<1>10. Result(r, kind)
  BY <1>2, <1>4, <1>5, <1>8, <1>9, UnaryOK
<1>11. QED BY <1>1, <1>2, <1>3, <1>4, <1>5, <1>8, <1>10, YieldStep

LEMMA CreateStep == IInv /\ op_createval => Kept
<1>1. SUFFICES ASSUME IInv, op_createval PROVE Kept
  OBVIOUS
<1>2. Executes({"CREATEVAL"}) /\ Yield(Created(Top(1).n), Below(1)) /\ Top(1).n # 3
      /\ UNCHANGED <<frames, globals, nread>>
  BY <1>1 DEF op_createval
<1>3. PICK kind : MachineOK(NrOps, vstack, frames, globals, arrs, kind)
  BY <1>1, <1>2, Ready
<1>4. status = "running" /\ prog' = prog /\ stdin' = stdin /\ nread \in 0..Len(stdin)
      /\ Op = "CREATEVAL" /\ AssertsHold
  BY <1>1, <1>2, Ready
<1>5. Op \notin Nullary \cup Binary \cup Ternary
  BY <1>4 DEF Nullary, Binary, Ternary, Compare, Arith
<1>6. Good(Top(1), kind) /\ Filled(Below(1), kind)
  BY <1>1, <1>2, <1>3, <1>5, Ready, Operand
<1>7. Top(1).n \in Int
  BY <1>4, <1>6, Ints DEF AssertsHold, NumberOnTop, Good
<1>8. Result(Created(Top(1).n), kind)
  BY <1>2, <1>7, CreatedOK
<1>9. QED BY <1>1, <1>2, <1>3, <1>4, <1>6, <1>8, YieldStep

LEMMA CastStep == IInv /\ op_cast => Kept
<1>1. SUFFICES ASSUME IInv, op_cast PROVE Kept
  OBVIOUS
<1>2. Executes({"CAST"}) /\ Yield(Cast(Top(1).n, Top(2)), Below(2))
      /\ UNCHANGED <<frames, globals, nread>>
  BY <1>1 DEF op_cast
<1>3. PICK kind : MachineOK(NrOps, vstack, frames, globals, arrs, kind)
  BY <1>1, <1>2, Ready
<1>4. status = "running" /\ prog' = prog /\ stdin' = stdin /\ nread \in 0..Len(stdin)
      /\ Op = "CAST" /\ AssertsHold
  BY <1>1, <1>2, Ready
<1>5. Len(vstack) >= 2
  BY <1>1, <1>2, <1>4, Ready DEF Binary
<1>6. Good(Top(1), kind) /\ Good(Top(2), kind) /\ Filled(Below(2), kind)
  BY <1>3, <1>5, Operands2
<1>7. Top(1).n \in Int
  BY <1>4, <1>6, Ints DEF AssertsHold, NumberOnTop, Good
<1>8. Result(Cast(Top(1).n, Top(2)), kind)
  BY <1>6, <1>7, CastOK
<1>9. QED BY <1>1, <1>2, <1>3, <1>4, <1>6, <1>8, YieldStep

LEMMA MkarrayStep == IInv /\ op_mkarray => Kept
<1>1. SUFFICES ASSUME IInv, op_mkarray PROVE Kept
  OBVIOUS
<1> DEFINE nr == IF Top(1).n < 0 THEN 0 ELSE Top(1).n
           items == [i \in 1..nr |-> Top(i + 1)]
<1>2. Executes({"MKARRAY"}) /\ Yield(NewArr(Trim(items)), Below(nr + 1))
      /\ UNCHANGED <<frames, globals, nread>>
  BY <1>1 DEF op_mkarray
<1>3. PICK kind : MachineOK(NrOps, vstack, frames, globals, arrs, kind)
  BY <1>1, <1>2, Ready
<1>4. status = "running" /\ prog' = prog /\ stdin' = stdin /\ nread \in 0..Len(stdin)
      /\ Op = "MKARRAY" /\ AssertsHold
  BY <1>1, <1>2, Ready
<1>5. Op \notin Nullary \cup Binary \cup Ternary
  BY <1>4 DEF Nullary, Binary, Ternary, Compare, Arith
<1>6. Good(Top(1), kind) /\ Len(vstack) >= 1
  BY <1>1, <1>2, <1>3, <1>5, Ready, Operand
<1>7. Top(1).n \in Int /\ Len(vstack) - 1 >= Top(1).n
  BY <1>4, <1>6, Ints DEF AssertsHold, NumberOnTop, Good
<1>8. Filled(vstack, kind) /\ Len(vstack) \in Nat
  BY <1>3, StackOK DEF MachineOK
<1>9. nr \in Nat /\ nr + 1 \in 0..Len(vstack)
  BY <1>6, <1>7, <1>8
<1>10. \A i \in 1..nr : items[i] = Top(i + 1) /\ Good(Top(i + 1), kind)
  <2>1. \A i \in 1..nr : i + 1 \in 1..Len(vstack)
    BY <1>8, <1>9
  <2>2. QED BY <1>8, <2>1, StackOK
<1>11. items = [i \in 1..nr |-> items[i]]
  OBVIOUS
<1> HIDE DEF items, nr
<1>12. Filled(items, kind)
  BY <1>9, <1>10, <1>11, SequenceMade DEF Filled
<1>13. Result(NewArr(Trim(items)), kind)
  BY <1>12, TrimTidy, GoodResult
<1>14. Filled(Below(nr + 1), kind)
  BY <1>8, <1>9, StackOK
<1>15. QED BY <1>1, <1>2, <1>3, <1>4, <1>13, <1>14, YieldStep

LEMMA IndexasStep == IInv /\ op_indexas => Kept
<1>1. SUFFICES ASSUME IInv, op_indexas PROVE Kept
  OBVIOUS
<1>2. Executes({"INDEXAS"}) /\ UNCHANGED <<frames, globals, nread>>
  BY <1>1 DEF op_indexas
<1>3. PICK kind : MachineOK(NrOps, vstack, frames, globals, arrs, kind)
  BY <1>1, <1>2, Ready
<1>4. status = "running" /\ prog' = prog /\ stdin' = stdin /\ nread \in 0..Len(stdin)
      /\ Op = "INDEXAS" /\ AssertsHold
  BY <1>1, <1>2, Ready
<1>5. Len(vstack) >= 3
  BY <1>1, <1>2, <1>4, Ready DEF Ternary
<1>6. Filled(vstack, kind) /\ Len(vstack) \in Nat
  BY <1>3, StackOK DEF MachineOK
<1>7. 1 \in 1..Len(vstack) /\ 2 \in 1..Len(vstack) /\ 3 \in 1..Len(vstack) /\ 3 \in 0..Len(vstack)
  BY <1>5, <1>6
<1>8. Good(Top(1), kind) /\ Good(Top(2), kind) /\ Good(Top(3), kind) /\ Filled(Below(3), kind)
  BY <1>6, <1>7, StackOK
<1>9. CASE WriteIsLost(Top(1), Top(2), Top(3))
  <2>1. status' = "crashed" /\ UNCHANGED <<vstack, arrs>>
    BY <1>1, <1>9 DEF op_indexas
  <2>2. QED BY <1>1, <1>2, <1>3, <1>4, <1>6, <2>1, StackStep
<1>10. CASE ~WriteIsLost(Top(1), Top(2), Top(3))
  <2>1. /\ vstack' = Append(Below(3), Top(3)) /\ status' = status
        /\ arrs' = Assigned(Top(1), Top(2), Top(3), arrs)
    BY <1>1, <1>10 DEF op_indexas, Continue
  <2>2. Store(arrs', kind) /\ ArraysTrimmed
    BY <1>3, <1>8, <1>10, <2>1, AssignedStore DEF MachineOK, ArraysTrimmed
  <2>3. Filled(vstack', kind)
    BY <1>8, <2>1, PushOK
  <2>4. MachineOK(NrOps, vstack', frames', globals', arrs', kind)
    BY <1>2, <1>3, <2>2, <2>3 DEF MachineOK
  <2>5. QED BY <1>1, <1>2, <1>4, <2>1, <2>2, <2>4, KeepsIInv
<1>11. QED BY <1>9, <1>10

---------------------------------------------------------------------------
(* Operations that change the stack only, or nothing of the machine. *)

LEMMA Stopped ==
  IInv /\ (AssertFails \/ TextOverflows \/ ProgramEnd \/ WildJump \/ op_halt) => Kept
<1>1. SUFFICES ASSUME IInv, AssertFails \/ TextOverflows \/ ProgramEnd \/ WildJump \/ op_halt
               PROVE  Kept
  OBVIOUS
<1>2. /\ prog' = prog /\ stdin' = stdin /\ UNCHANGED machine
      /\ status' \in {"running", "ended", "halted", "aborted", "crashed"}
  BY <1>1 DEF AssertFails, TextOverflows, ProgramEnd, WildJump, op_halt, Executes
<1>3. PICK kind : MachineOK(NrOps, vstack, frames, globals, arrs, kind)
  BY <1>1, IInvIs
<1>4. UNCHANGED <<vstack, frames, globals, arrs, nread>> /\ nread \in 0..Len(stdin)
  BY <1>1, <1>2 DEF machine, IInv
<1>5. Filled(vstack', kind)
  BY <1>3, <1>4 DEF MachineOK
<1>6. QED BY <1>1, <1>2, <1>3, <1>4, <1>5, StackStep

\* Operations without operands that leave the stack as it is.
LEMMA StaysStep == IInv /\ (op_noop \/ op_condelse \/ op_loopend) => Kept
<1>1. SUFFICES ASSUME IInv, op_noop \/ op_condelse \/ op_loopend PROVE Kept
  OBVIOUS
<1>2. PICK ops : Executes(ops)
  BY <1>1 DEF op_noop, op_condelse, op_loopend
<1>3. UNCHANGED <<vstack, status, frames, globals, arrs, nread>>
  BY <1>1 DEF op_noop, op_condelse, op_loopend, Continue, Jump
<1>4. PICK kind : MachineOK(NrOps, vstack, frames, globals, arrs, kind)
  BY <1>1, <1>2, Ready
<1>5. status = "running" /\ prog' = prog /\ stdin' = stdin /\ nread \in 0..Len(stdin)
  BY <1>1, <1>2, Ready
<1>6. Filled(vstack', kind)
  BY <1>3, <1>4 DEF MachineOK
<1>7. QED BY <1>1, <1>3, <1>4, <1>5, <1>6, StackStep

LEMMA DupStep == IInv /\ op_dup => Kept
<1>1. SUFFICES ASSUME IInv, op_dup PROVE Kept
  OBVIOUS
<1>2. Executes({"DUP"}) /\ UNCHANGED <<status, frames, globals, arrs, nread>>
      /\ vstack' = Append(vstack, Top(1))
  BY <1>1 DEF op_dup, Continue
<1>3. PICK kind : MachineOK(NrOps, vstack, frames, globals, arrs, kind)
  BY <1>1, <1>2, Ready
<1>4. status = "running" /\ prog' = prog /\ stdin' = stdin /\ nread \in 0..Len(stdin) /\ Op = "DUP"
  BY <1>1, <1>2, Ready
<1>5. Op \notin Nullary \cup Binary \cup Ternary
  BY <1>4 DEF Nullary, Binary, Ternary, Compare, Arith
<1>6. Good(Top(1), kind)
  BY <1>1, <1>2, <1>3, <1>5, Ready, Operand
<1>7. Filled(vstack', kind)
  BY <1>2, <1>3, <1>6, PushOK DEF MachineOK
<1>8. QED BY <1>1, <1>2, <1>3, <1>4, <1>7, StackStep

\* Operations that take the value on top.
LEMMA PopStep == IInv /\ (op_discard \/ op_jump \/ op_condbegin \/ op_print) => Kept
<1>1. SUFFICES ASSUME IInv, op_discard \/ op_jump \/ op_condbegin \/ op_print PROVE Kept
  OBVIOUS
<1>2. Executes({"DISCARD", "JUMP", "CONDBEGIN", "PRINT"})
  BY <1>1 DEF op_discard, op_jump, op_condbegin, op_print, Executes, At
<1>3. UNCHANGED <<status, frames, globals, arrs, nread>> /\ vstack' = Below(1)
  BY <1>1 DEF op_discard, op_jump, op_condbegin, op_print, Continue, Jump
<1>4. PICK kind : MachineOK(NrOps, vstack, frames, globals, arrs, kind)
  BY <1>1, <1>2, Ready
<1>5. status = "running" /\ prog' = prog /\ stdin' = stdin /\ nread \in 0..Len(stdin)
      /\ Op \in {"DISCARD", "JUMP", "CONDBEGIN", "PRINT"}
  BY <1>1, <1>2, Ready
<1>6. Op \notin Nullary \cup Binary \cup Ternary
  BY <1>5 DEF Nullary, Binary, Ternary, Compare, Arith
<1>7. Filled(vstack', kind)
  BY <1>1, <1>2, <1>3, <1>4, <1>6, Ready, Operand
<1>8. QED BY <1>1, <1>3, <1>4, <1>5, <1>7, StackStep

LEMMA JumpcondStep == IInv /\ op_jumpcond => Kept
<1>1. SUFFICES ASSUME IInv, op_jumpcond PROVE Kept
  OBVIOUS
<1>2. Executes({"JUMPT", "JUMPF", "JUMPREL"}) /\ UNCHANGED <<status, frames, globals, arrs, nread>>
      /\ vstack' = Below(2)
  BY <1>1 DEF op_jumpcond, Jump
<1>3. PICK kind : MachineOK(NrOps, vstack, frames, globals, arrs, kind)
  BY <1>1, <1>2, Ready
<1>4. status = "running" /\ prog' = prog /\ stdin' = stdin /\ nread \in 0..Len(stdin)
      /\ Op \in {"JUMPT", "JUMPF", "JUMPREL"}
  BY <1>1, <1>2, Ready
<1>5. Len(vstack) >= 2
  BY <1>1, <1>2, <1>4, Ready DEF Binary
<1>6. Filled(vstack', kind)
  BY <1>2, <1>3, <1>5, Operands2
<1>7. QED BY <1>1, <1>2, <1>3, <1>4, <1>6, StackStep

\* A line of the input has an int, and a text.
LEMMA LineOK ==
  ASSUME stdin \in Stdins, nread \in 0..Len(stdin), NEW kind
  PROVE  /\ ReadLine => nread' \in 0..Len(stdin)
         /\ ~EndOfInput => Good(Num(Line.n), kind) /\ Good(Str(Line.s), kind)
<1> DEFINE L == [n : MinInt..MaxInt, s : Seq(Int)]
<1>1. stdin \in Seq(L)
  BY InputAssumption
<1>2. \A x \in L : x.n \in MinInt..MaxInt /\ x.s \in Seq(Int)
  OBVIOUS
<1> HIDE DEF L
<1>3. Len(stdin) \in Nat
  BY <1>1
<1>4. ReadLine => nread' \in 0..Len(stdin)
  BY <1>3 DEF ReadLine, EndOfInput
<1>5. ASSUME ~EndOfInput PROVE Good(Num(Line.n), kind) /\ Good(Str(Line.s), kind)
  <2>1. nread + 1 \in 1..Len(stdin)
    BY <1>3, <1>5 DEF EndOfInput
  <2>2. Line \in L
    BY <1>1, <2>1 DEF Line
  <2>3. Sequence(Line.s) /\ Line.n \in MinInt..MaxInt
    BY <1>2, <2>2, SequenceOf
  <2>4. QED BY <2>3, NumGood, StrGood
<1>6. QED BY <1>4, <1>5

LEMMA GetintStep == IInv /\ op_getint => Kept
<1>1. SUFFICES ASSUME IInv, op_getint PROVE Kept
  OBVIOUS
<1> DEFINE v == IF EndOfInput THEN Num(0) ELSE Num(Line.n)
<1>2. Executes({"GETINT"}) /\ UNCHANGED <<status, frames, globals, arrs>>
      /\ vstack' = Append(vstack, v) /\ ReadLine
  BY <1>1 DEF op_getint, Continue
<1>3. PICK kind : MachineOK(NrOps, vstack, frames, globals, arrs, kind)
  BY <1>1, <1>2, Ready
<1>4. status = "running" /\ prog' = prog /\ stdin' = stdin /\ nread \in 0..Len(stdin)
  BY <1>1, <1>2, Ready
<1>5. stdin \in Stdins /\ 0 \in MinInt..MaxInt
  BY <1>1, Ints DEF IInv
<1>6. Good(v, kind) /\ nread' \in 0..Len(stdin)
  BY <1>2, <1>4, <1>5, LineOK, NumGood
<1> HIDE DEF v
<1>7. Filled(vstack', kind)
  BY <1>2, <1>3, <1>6, PushOK DEF MachineOK
<1>8. QED BY <1>1, <1>2, <1>3, <1>4, <1>6, <1>7, StackStep

LEMMA ClockStep == IInv /\ (op_tstart \/ op_tend) => Kept
<1>1. SUFFICES ASSUME IInv, op_tstart \/ op_tend PROVE Kept
  OBVIOUS
<1>2. PICK now \in Clock : \/ vstack' = Append(vstack, Num(now)) /\ op_tstart
                           \/ vstack' = Append(Below(1), Num(now)) /\ op_tend
  BY <1>1 DEF op_tstart, op_tend, Continue
<1>3. Executes({"TSTART", "TEND"}) /\ UNCHANGED <<status, frames, globals, arrs, nread>>
  BY <1>1 DEF op_tstart, op_tend, Executes, At, Continue
<1>4. PICK kind : MachineOK(NrOps, vstack, frames, globals, arrs, kind)
  BY <1>1, <1>3, Ready
<1>5. status = "running" /\ prog' = prog /\ stdin' = stdin /\ nread \in 0..Len(stdin)
  BY <1>1, <1>3, Ready
<1>6. Good(Num(now), kind)
  BY InputAssumption, NumGood
<1>7. Filled(vstack', kind)
  <2>1. CASE vstack' = Append(vstack, Num(now))
    BY <1>4, <1>6, <2>1, PushOK DEF MachineOK
  <2>2. CASE vstack' = Append(Below(1), Num(now)) /\ op_tend
    <3>1. Op = "TEND"
      BY <2>2 DEF op_tend, Executes, At
    <3>2. Op \notin Nullary \cup Binary \cup Ternary
      BY <3>1 DEF Nullary, Binary, Ternary, Compare, Arith
    <3>3. Filled(Below(1), kind)
      BY <1>1, <1>3, <1>4, <3>2, Ready, Operand
    <3>4. QED BY <1>6, <2>2, <3>3, PushOK
  <2>3. QED BY <1>2, <2>1, <2>2
<1>8. QED BY <1>1, <1>3, <1>4, <1>5, <1>7, StackStep

---------------------------------------------------------------------------
(* Built-in functions. *)

LEMMA NativeReady ==
  ASSUME IInv, Executes({"CALL"}),
         NEW kind, MachineOK(NrOps, vstack, frames, globals, arrs, kind)
  PROVE  /\ Filled(Below(NrArgs + 2), kind)
         /\ Tidy(Args, kind)
         /\ \A i \in Nat : Good(Arg(i), kind)
<1>1. Op = "CALL" /\ AssertsHold
  BY Ready
<1>2. Len(vstack) >= 2
  BY <1>1, Ready DEF Binary
<1>3. Top(2).t = "num" /\ Len(vstack) - 2 >= Top(2).n
  BY <1>1 DEF AssertsHold
<1>4. Filled(vstack, kind)
  BY DEF MachineOK
<1>5. QED BY <1>2, <1>3, <1>4, ArgsOK, StackOK

\* A native yields a result in place of the operands of its call.
LEMMA NativeStep ==
  ASSUME IInv, Executes({"CALL"}), UNCHANGED <<frames, globals>>, nread' \in 0..Len(stdin),
         NEW r, Yield(r, Below(NrArgs + 2)),
         NEW kind, MachineOK(NrOps, vstack, frames, globals, arrs, kind), Result(r, kind)
  PROVE  Kept
<1>1. status = "running" /\ prog' = prog /\ stdin' = stdin
  BY Ready
<1>2. Filled(Below(NrArgs + 2), kind)
  BY NativeReady
<1>3. QED BY <1>1, <1>2, YieldStep

LEMMA UndefStep == IInv /\ (native_print \/ op_call_unknown) => Kept
<1>1. SUFFICES ASSUME IInv, native_print \/ op_call_unknown PROVE Kept
  OBVIOUS
<1>2. Executes({"CALL"}) /\ UNCHANGED <<frames, globals, nread>> /\ Yield(Undef, Below(NrArgs + 2))
  BY <1>1 DEF native_print, op_call_unknown, Native
<1>3. PICK kind : MachineOK(NrOps, vstack, frames, globals, arrs, kind)
  BY <1>1, <1>2, Ready
<1>4. nread \in 0..Len(stdin) /\ Result(Undef, kind)
  BY <1>1, <1>2, Ready, GoodResult
<1>5. QED BY <1>1, <1>2, <1>3, <1>4, NativeStep

LEMMA ReadStep == IInv /\ native_read => Kept
<1>1. SUFFICES ASSUME IInv, native_read PROVE Kept
  OBVIOUS
<1> DEFINE r == IF EndOfInput THEN Undef ELSE IF Callee = N_getint THEN Num(Line.n) ELSE Str(Line.s)
<1>2. Executes({"CALL"}) /\ UNCHANGED <<frames, globals>> /\ ReadLine /\ Yield(r, Below(NrArgs + 2))
  BY <1>1 DEF native_read, Native
<1>3. PICK kind : MachineOK(NrOps, vstack, frames, globals, arrs, kind)
  BY <1>1, <1>2, Ready
<1>4. nread \in 0..Len(stdin) /\ stdin \in Stdins
  BY <1>1 DEF IInv
<1>5. nread' \in 0..Len(stdin) /\ Good(r, kind)
  BY <1>2, <1>4, LineOK, NumGood
<1>6. Result(r, kind)
  BY <1>5, GoodResult
<1> HIDE DEF r
<1>7. QED BY <1>1, <1>2, <1>3, <1>5, <1>6, NativeStep

LEMMA RandomStep == IInv /\ native_random => Kept
<1>1. SUFFICES ASSUME IInv, native_random PROVE Kept
  OBVIOUS
<1>2. PICK i \in Randoms :
        Yield(IF Arg(0).t = "num" THEN ValMod(Num(i), Arg(0)) ELSE Num(i), Below(NrArgs + 2))
  BY <1>1 DEF native_random
<1>3. Executes({"CALL"}) /\ UNCHANGED <<frames, globals, nread>>
  BY <1>1 DEF native_random, Native
<1>4. PICK kind : MachineOK(NrOps, vstack, frames, globals, arrs, kind)
  BY <1>1, <1>3, Ready
<1>5. Good(Num(i), kind)
  <2>1. i \in MinInt..MaxInt
    BY InputAssumption, Ints
  <2>2. QED BY <2>1, NumGood
<1>6. ASSUME Arg(0).t = "num" PROVE Result(ValMod(Num(i), Arg(0)), kind)
  <2>1. Good(Arg(0), kind)
    BY <1>1, <1>3, <1>4, NativeReady
  <2>2. QED BY <1>5, <2>1, NumberResults
<1> DEFINE r == IF Arg(0).t = "num" THEN ValMod(Num(i), Arg(0)) ELSE Num(i)
<1>7. Result(r, kind)
  BY <1>5, <1>6, GoodResult
<1>8. nread' \in 0..Len(stdin)
  BY <1>1, <1>3 DEF IInv
<1>9. Yield(r, Below(NrArgs + 2))
  BY <1>2
<1> HIDE DEF r
<1>10. QED BY <1>1, <1>3, <1>4, <1>7, <1>8, <1>9, NativeStep

LEMMA ExitStep == IInv /\ native_exit => Kept
<1>1. SUFFICES ASSUME IInv, native_exit PROVE Kept
  OBVIOUS
<1>2. Executes({"CALL"}) /\ UNCHANGED <<frames, globals, arrs, nread>>
      /\ vstack' = Append(Below(NrArgs + 2), Undef) /\ status' = "halted"
  BY <1>1 DEF native_exit, Native
<1>3. PICK kind : MachineOK(NrOps, vstack, frames, globals, arrs, kind)
  BY <1>1, <1>2, Ready
<1>4. prog' = prog /\ stdin' = stdin /\ nread \in 0..Len(stdin)
  BY <1>1, <1>2, Ready
<1>5. Filled(vstack', kind)
  BY <1>1, <1>2, <1>3, NativeReady, NumGood, PushOK
<1>6. QED BY <1>1, <1>2, <1>3, <1>4, <1>5, StackStep

LEMMA MyaddStep == IInv /\ native_myadd => Kept
<1>1. SUFFICES ASSUME IInv, native_myadd PROVE Kept
  OBVIOUS
<1>2. Executes({"CALL"}) /\ UNCHANGED <<frames, globals, nread>>
      /\ Yield(ValAdd(Arg(0), Arg(1), arrs), Below(NrArgs + 2))
  BY <1>1 DEF native_myadd, Native
<1>3. PICK kind : MachineOK(NrOps, vstack, frames, globals, arrs, kind)
  BY <1>1, <1>2, Ready
<1>4. nread' \in 0..Len(stdin)
  BY <1>1, <1>2 DEF IInv
<1>5. Good(Arg(0), kind) /\ Good(Arg(1), kind)
  BY <1>1, <1>2, <1>3, NativeReady
<1>6. Result(ValAdd(Arg(0), Arg(1), arrs), kind)
  BY <1>3, <1>5, AddResult DEF MachineOK
<1>7. QED BY <1>1, <1>2, <1>3, <1>4, <1>6, NativeStep

---------------------------------------------------------------------------
(* Variables, loops and calls: operations on the frames. *)

\* The innermost frame is replaced.
LEMMA FrameReplaced ==
  ASSUME NEW n, NEW kind, FramesOK(frames, n, kind), frames # <<>>,
         NEW fr, FrameOK(fr, n, kind), frames' = [frames EXCEPT ![Len(frames)] = fr]
  PROVE  FramesOK(frames', n, kind)
<1>1. Sequence(frames) /\ Len(frames) \in Nat
  BY FrameIs DEF FramesOK
<1>2. frames \in Seq(ToSet(frames) \cup {fr})
  BY <1>1, SequenceIs
<1>3. /\ frames' \in Seq(ToSet(frames) \cup {fr}) /\ Len(frames') = Len(frames)
      /\ \A i \in 1..Len(frames) : frames'[i] = IF i = Len(frames) THEN fr ELSE frames[i]
  BY <1>2
<1>4. Sequence(frames')
  BY <1>3, SequenceOf
<1>5. \A i \in 1..Len(frames') : FrameOK(frames'[i], n, kind)
  BY <1>3 DEF FramesOK
<1>6. QED BY <1>4, <1>5 DEF FramesOK

LEMMA SetglobalStep == IInv /\ op_setglobal => Kept
<1>1. SUFFICES ASSUME IInv, op_setglobal PROVE Kept
  OBVIOUS
<1>2. Executes({"SETGLOBAL"}) /\ UNCHANGED <<frames, arrs, nread>>
  BY <1>1 DEF op_setglobal
<1>3. PICK kind : MachineOK(NrOps, vstack, frames, globals, arrs, kind)
  BY <1>1, <1>2, Ready
<1>4. status = "running" /\ prog' = prog /\ stdin' = stdin /\ nread \in 0..Len(stdin)
      /\ Op = "SETGLOBAL" /\ AssertsHold
  BY <1>1, <1>2, Ready
<1>5. Len(vstack) >= 2
  BY <1>1, <1>2, <1>4, Ready DEF Binary
<1>6. Good(Top(1), kind) /\ Good(Top(2), kind) /\ Filled(Below(2), kind) /\ Tidy(globals, kind)
  BY <1>3, <1>5, Operands2 DEF MachineOK
<1>7. Top(1).n \in Int
  BY <1>4, <1>6, Ints DEF AssertsHold, NumberOnTop, Good
<1>8. CASE Top(1).n < 0 /\ Top(2) # Undef
  <2>1. status' = "crashed" /\ UNCHANGED <<vstack, globals>>
    BY <1>1, <1>8 DEF op_setglobal
  <2>2. QED BY <1>1, <1>2, <1>3, <1>4, <2>1, KeepsIInv
<1>9. CASE ~(Top(1).n < 0 /\ Top(2) # Undef)
  <2>1. vstack' = Below(2) /\ status' = status /\ globals' = ArrSet(globals, Top(1).n, Top(2))
    BY <1>1, <1>9 DEF op_setglobal, Continue
  <2>2. Top(2) # Undef => Top(1).n >= 0
    BY <1>7, <1>9
  <2>3. Tidy(globals', kind)
    BY <1>6, <1>7, <2>1, <2>2, ArrSetTidy
  <2>4. MachineOK(NrOps, vstack', frames', globals', arrs', kind)
    BY <1>2, <1>3, <1>6, <2>1, <2>3 DEF MachineOK
  <2>5. QED BY <1>1, <1>2, <1>4, <2>1, <2>4, KeepsIInv
<1>10. QED BY <1>8, <1>9

LEMMA VarSetOK ==
  ASSUME NEW n, NEW kind, NEW fr, FrameOK(fr, n, kind), NEW v, Good(v, kind),
         NEW i \in Int, v # Undef => i >= -2
  PROVE  FrameOK(VarSet(fr, i, v), n, kind)
<1>1. CASE v = Undef
  BY <1>1 DEF VarSet
<1>2. CASE v # Undef /\ i = -1
  <2>1. VarSet(fr, i, v) = [fr EXCEPT !.loops = <<>>, !.lent = v]
    BY <1>2 DEF VarSet
  <2>2. <<>> \in Seq(0..(n - 1))
    OBVIOUS
  <2>3. QED BY <2>1, <2>2 DEF FrameOK
<1>3. CASE v # Undef /\ i = -2
  <2>1. VarSet(fr, i, v) = [fr EXCEPT !.ret = v]
    BY <1>3 DEF VarSet
  <2>2. QED BY <2>1 DEF FrameOK
<1>4. CASE v # Undef /\ i # -1 /\ i # -2
  <2>1. VarSet(fr, i, v) = [fr EXCEPT !.vars = ArrSet(fr.vars, i, v)]
    BY <1>4 DEF VarSet
  <2>2. Tidy(ArrSet(fr.vars, i, v), kind)
    BY <1>4, ArrSetTidy DEF FrameOK
  <2>3. QED BY <2>1, <2>2 DEF FrameOK
<1>5. QED BY <1>1, <1>2, <1>3, <1>4

LEMMA SetvarStep == IInv /\ op_setvar => Kept
<1>1. SUFFICES ASSUME IInv, op_setvar PROVE Kept
  OBVIOUS
<1>2. Executes({"SETVAR"}) /\ UNCHANGED <<globals, arrs, nread>>
  BY <1>1 DEF op_setvar
<1>3. PICK kind : MachineOK(NrOps, vstack, frames, globals, arrs, kind)
  BY <1>1, <1>2, Ready
<1>4. status = "running" /\ prog' = prog /\ stdin' = stdin /\ nread \in 0..Len(stdin)
      /\ Op = "SETVAR" /\ AssertsHold
  BY <1>1, <1>2, Ready
<1>5. Len(vstack) >= 2
  BY <1>1, <1>2, <1>4, Ready DEF Binary
<1>6. Good(Top(1), kind) /\ Good(Top(2), kind) /\ Filled(Below(2), kind)
  BY <1>3, <1>5, Operands2
<1>7. Slot(Top(1).n) \in Int
  <2>1. Top(1).n \in Int
    BY <1>4, <1>6, Ints DEF AssertsHold, NumberOnTop, Good
  <2>2. Wrap(Top(1).n + 2) \in Int
    BY <2>1, WrapIs, Ints
  <2>3. QED BY <2>2 DEF Slot
<1>8. CASE Slot(Top(1).n) < -2 /\ Top(2) # Undef
  <2>1. status' = "crashed" /\ UNCHANGED <<vstack, frames>>
    BY <1>1, <1>8 DEF op_setvar
  <2>2. QED BY <1>1, <1>2, <1>3, <1>4, <2>1, KeepsIInv
<1>9. CASE ~(Slot(Top(1).n) < -2 /\ Top(2) # Undef)
  <2> DEFINE n == Len(frames)
             fr == VarSet(frames[n], Slot(Top(1).n), Top(2))
  <2>1. vstack' = Below(2) /\ status' = status /\ frames' = [frames EXCEPT ![n] = fr]
    BY <1>1, <1>9 DEF op_setvar, Continue
  <2>2. FramesOK(frames, NrOps, kind) /\ frames # <<>>
    BY <1>3, <1>4 DEF MachineOK, AssertsHold, UsesFrame
  <2>3. FrameOK(frames[n], NrOps, kind)
    BY <2>2, FrameIs
  <2>4. Top(2) # Undef => Slot(Top(1).n) >= -2
    BY <1>7, <1>9
  <2>5. FrameOK(fr, NrOps, kind)
    BY <1>6, <1>7, <2>3, <2>4, VarSetOK
  <2> HIDE DEF fr
  <2>6. FramesOK(frames', NrOps, kind)
    BY <2>1, <2>2, <2>5, FrameReplaced
  <2>7. MachineOK(NrOps, vstack', frames', globals', arrs', kind)
    BY <1>2, <1>3, <1>6, <2>1, <2>6 DEF MachineOK
  <2>8. QED BY <1>1, <1>2, <1>4, <2>1, <2>7, KeepsIInv
<1>10. QED BY <1>8, <1>9

\* The addresses on a loop stack, as values.
LEMMA NumbersOK ==
  ASSUME prog \in Programs, NEW kind, NEW l \in Seq(0..(NrOps - 1))
  PROVE  Tidy(Numbers(l), kind)
<1> DEFINE s == Numbers(l)
<1> DEFINE S == 0..(NrOps - 1)
<1>1. Len(l) \in Nat /\ DOMAIN l = 1..Len(l) /\ \A i \in 1..Len(l) : l[i] \in S
  <2>1. l \in Seq(S)
    OBVIOUS
  <2> HIDE DEF S
  <2>2. QED BY <2>1
<1>2. s = [i \in 1..Len(l) |-> s[i]] /\ \A i \in 1..Len(l) : s[i] = Num(l[i])
  BY <1>1 DEF Numbers
<1> HIDE DEF s
<1>3. Sequence(s) /\ Len(s) = Len(l)
  BY <1>1, <1>2, SequenceMade
<1>4. \A i \in 1..Len(s) : Good(s[i], kind) /\ s[i] # Undef
  <2>1. \A i \in 0..(NrOps - 1) : i \in MinInt..MaxInt
    BY ProgramOK, Ints
  <2>2. \A i \in MinInt..MaxInt : Num(i) # Undef
    BY DEF Num, Undef
  <2>3. QED BY <1>1, <1>2, <1>3, <2>1, <2>2, NumGood
<1>5. LastUsed(s)
  BY <1>1, <1>3, <1>4 DEF LastUsed
<1>6. QED BY <1>3, <1>4, <1>5 DEF Tidy, Filled, s

LEMMA GetvarLoopsStep == IInv /\ op_getvar_loops => Kept
<1>1. SUFFICES ASSUME IInv, op_getvar_loops PROVE Kept
  OBVIOUS
<1> DEFINE n == Len(frames)
           new == Numbers(Frame.loops)
           fr == [frames[n] EXCEPT !.loops = <<>>, !.lent = Arr(Len(arrs) + 1)]
<1>2. /\ Executes({"GETVAR"}) /\ UNCHANGED <<globals, nread>>
      /\ arrs' = Append(arrs, new)
      /\ vstack' = Append(Below(1), Arr(Len(arrs) + 1)) /\ status' = status
      /\ frames' = [frames EXCEPT ![n] = fr]
  BY <1>1 DEF op_getvar_loops, Yield, Continue, NewArr
<1>3. PICK kind : MachineOK(NrOps, vstack, frames, globals, arrs, kind)
  BY <1>1, <1>2, Ready
<1>4. status = "running" /\ prog' = prog /\ stdin' = stdin /\ nread \in 0..Len(stdin)
      /\ prog \in Programs /\ Op = "GETVAR" /\ AssertsHold
  BY <1>1, <1>2, Ready
<1>5. Op \notin Nullary \cup Binary \cup Ternary
  BY <1>4 DEF Nullary, Binary, Ternary, Compare, Arith
<1>6. Filled(Below(1), kind)
  BY <1>1, <1>2, <1>3, <1>5, Ready, Operand
<1>7. FramesOK(frames, NrOps, kind) /\ frames # <<>> /\ Store(arrs, kind) /\ Tidy(globals, kind)
  BY <1>3, <1>4 DEF MachineOK, AssertsHold, UsesFrame
<1>8. Frame = frames[n] /\ FrameOK(frames[n], NrOps, kind)
  BY <1>7, FrameIs
<1>9. Tidy(new, kind)
  BY <1>4, <1>8, NumbersOK DEF FrameOK
<1> HIDE DEF new
<1>10. PICK more : /\ Store(arrs', more)
                   /\ ToSet(arrs') = ToSet(arrs) \cup {new}
                   /\ DOMAIN kind \subseteq DOMAIN more
                   /\ \A a \in DOMAIN kind : more[a] = kind[a]
                   /\ Len(arrs) + 1 \in DOMAIN more
                   /\ more[Len(arrs) + 1] = "arr"
  BY <1>2, <1>7, <1>9, StoreGrows
<1>11. Good(Arr(Len(arrs) + 1), more)
  BY <1>10 DEF Good, Arr
<1>12. Filled(Below(1), more) /\ Tidy(globals, more) /\ FramesOK(frames, NrOps, more)
  BY <1>6, <1>7, <1>10, Grows, FramesGrow
<1>13. Filled(vstack', more)
  BY <1>2, <1>11, <1>12, PushOK
<1>14. FrameOK(fr, NrOps, more)
  <2>1. FrameOK(frames[n], NrOps, more)
    BY <1>7, <1>12, FrameIs
  <2>2. <<>> \in Seq(0..(NrOps - 1))
    OBVIOUS
  <2>3. QED BY <1>11, <2>1, <2>2 DEF FrameOK
<1> HIDE DEF fr
<1>15. FramesOK(frames', NrOps, more)
  BY <1>2, <1>7, <1>12, <1>14, FrameReplaced
<1>16. MachineOK(NrOps, vstack', frames', globals', arrs', more)
  BY <1>2, <1>10, <1>12, <1>13, <1>15 DEF MachineOK
<1>17. ArraysTrimmed
  BY <1>9, <1>10 DEF ArraysTrimmed, Tidy
<1>18. QED BY <1>1, <1>2, <1>4, <1>16, <1>17, KeepsIInv

\* The slots of an array that is lent for a loop stack are replaced.
LEMMA LentOK ==
  ASSUME NEW kind, FramesOK(frames, NrOps, kind), Store(arrs, kind), frames # <<>>,
         Frame.lent.t = "arr", NEW s, Filled(s, kind), arrs' = [arrs EXCEPT ![Frame.lent.n] = s]
  PROVE  Store(arrs', kind) /\ \A x \in ToSet(arrs') \ ToSet(arrs) : x = s
<1>1. Good(Frame.lent, kind)
  BY FrameIs DEF FrameOK
<1> DEFINE a == Frame.lent.n
<1>2. a \in 1..Len(arrs) /\ kind[a] = "arr"
  BY <1>1, SlotsOf DEF Good
<1>3. SlotsOK(s, kind[a], kind)
  BY <1>2 DEF SlotsOK
<1>4. arrs' = Replaced(arrs, a, s)
  BY DEF Replaced
<1> HIDE DEF a
<1>5. Store(Replaced(arrs, a, s), kind) /\ ToSet(Replaced(arrs, a, s)) \subseteq ToSet(arrs) \cup {s}
  BY <1>2, <1>3, StoreSet
<1>6. QED BY <1>4, <1>5

LEMMA LoopsPushedOK ==
  ASSUME NEW kind, FramesOK(frames, NrOps, kind), Store(arrs, kind), frames # <<>>,
         prog \in Programs, NEW address \in 0..(NrOps - 1), LoopsPushed(address)
  PROVE  FramesOK(frames', NrOps, kind) /\ Store(arrs', kind) /\ (arrs' = arrs \/ ArraysTrimmed)
<1>1. CASE Frame.lent.t = "arr"
  <2> DEFINE l == arrs[Frame.lent.n]
             s == Append(l, Num(address))
  <2>1. arrs' = [arrs EXCEPT ![Frame.lent.n] = s] /\ UNCHANGED frames
    BY <1>1 DEF LoopsPushed
  <2>2. Good(Frame.lent, kind)
    BY FrameIs DEF FrameOK
  <2>3. Filled(l, kind)
    BY <1>1, <2>2, SlotsOf
  <2>4. address \in MinInt..MaxInt
    BY ProgramOK, Ints
  <2>5. Filled(s, kind)
    BY <2>3, <2>4, NumGood, PushOK
  <2>6. LastUsed(s)
    <3>1. Len(s) = Len(l) + 1 /\ s[Len(l) + 1] = Num(address)
      BY <2>3, SequenceAppend DEF Filled
    <3>2. Num(address) # Undef
      BY DEF Num, Undef
    <3>3. QED BY <3>1, <3>2 DEF LastUsed
  <2> HIDE DEF l, s
  <2>7. Store(arrs', kind) /\ \A x \in ToSet(arrs') \ ToSet(arrs) : x = s
    BY <1>1, <2>1, <2>5, LentOK
  <2>8. QED BY <2>1, <2>6, <2>7 DEF ArraysTrimmed
<1>2. CASE Frame.lent.t # "arr"
  <2> DEFINE n == Len(frames)
             fr == [frames[n] EXCEPT !.loops = Append(frames[n].loops, address)]
  <2>1. frames' = [frames EXCEPT ![n] = fr] /\ UNCHANGED arrs
    BY <1>2 DEF LoopsPushed
  <2>2. FrameOK(frames[n], NrOps, kind)
    BY FrameIs
  <2>3. Append(frames[n].loops, address) \in Seq(0..(NrOps - 1))
    BY <2>2 DEF FrameOK
  <2>4. FrameOK(fr, NrOps, kind)
    BY <2>2, <2>3 DEF FrameOK
  <2> HIDE DEF fr
  <2>5. QED BY <2>1, <2>4, FrameReplaced
<1>3. QED BY <1>1, <1>2

\* The loop left is forgotten.
LEMMA LoopsPoppedOK ==
  ASSUME NEW kind, FramesOK(frames, NrOps, kind), Store(arrs, kind), frames # <<>>,
         Op \in {"LOOPEXIT", "LOOPBODY"}, LoopsPopped
  PROVE  FramesOK(frames', NrOps, kind) /\ Store(arrs', kind) /\ (arrs' = arrs \/ ArraysTrimmed)
<1>1. ASSUME NEW T, NEW l \in Seq(T) PROVE Pop(l) \in Seq(T)
  <2>1. CASE l = <<>>
    BY <2>1 DEF Pop
  <2>2. CASE l # <<>>
    BY <1>1, <2>2 DEF Pop, Front
  <2>3. QED BY <2>1, <2>2
<1>2. CASE Frame.lent.t = "arr"
  <2> DEFINE l == arrs[Frame.lent.n]
  <2>1. arrs' = [arrs EXCEPT ![Frame.lent.n] = Pop(l)] /\ UNCHANGED frames
    BY <1>2 DEF LoopsPopped
  <2>2. Good(Frame.lent, kind)
    BY FrameIs DEF FrameOK
  <2>3. Filled(l, kind)
    BY <1>2, <2>2, SlotsOf
  <2>4. LoopStack(Frame) = l
    BY <1>2 DEF LoopStack
  <2> HIDE DEF l
  <2>5. Filled(Pop(l), kind)
    BY <1>1, <2>3, FilledIs
  <2>6. Store(arrs', kind) /\ \A x \in ToSet(arrs') \ ToSet(arrs) : x = Pop(l)
    BY <1>2, <2>1, <2>5, LentOK
  <2>7. QED BY <2>1, <2>4, <2>6 DEF ArraysTrimmed
<1>3. CASE Frame.lent.t # "arr"
  <2> DEFINE n == Len(frames)
             fr == [frames[n] EXCEPT !.loops = Pop(frames[n].loops)]
  <2>1. frames' = [frames EXCEPT ![n] = fr] /\ UNCHANGED arrs
    BY <1>3 DEF LoopsPopped
  <2>2. FrameOK(frames[n], NrOps, kind)
    BY FrameIs
  <2>3. Pop(frames[n].loops) \in Seq(0..(NrOps - 1))
    BY <1>1, <2>2 DEF FrameOK
  <2>4. FrameOK(fr, NrOps, kind)
    BY <2>2, <2>3 DEF FrameOK
  <2> HIDE DEF fr
  <2>5. QED BY <2>1, <2>4, FrameReplaced
<1>4. QED BY <1>2, <1>3

LEMMA LoopbeginStep == IInv /\ op_loopbegin => Kept
<1>1. SUFFICES ASSUME IInv, op_loopbegin PROVE Kept
  OBVIOUS
<1>2. Executes({"LOOPBEGIN"}) /\ UNCHANGED <<vstack, status, globals, nread>> /\ LoopsPushed(pc)
  BY <1>1 DEF op_loopbegin, Continue
<1>3. PICK kind : MachineOK(NrOps, vstack, frames, globals, arrs, kind)
  BY <1>1, <1>2, Ready
<1>4. status = "running" /\ prog' = prog /\ stdin' = stdin /\ nread \in 0..Len(stdin)
      /\ prog \in Programs /\ Op = "LOOPBEGIN" /\ AssertsHold /\ pc \in 0..(NrOps - 1)
  BY <1>1, <1>2, Ready
<1>5. FramesOK(frames, NrOps, kind) /\ Store(arrs, kind) /\ frames # <<>>
  BY <1>3, <1>4 DEF MachineOK, AssertsHold, UsesFrame, UsesLoops
<1>6. FramesOK(frames', NrOps, kind) /\ Store(arrs', kind) /\ (arrs' = arrs \/ ArraysTrimmed)
  BY <1>2, <1>4, <1>5, LoopsPushedOK
<1>7. MachineOK(NrOps, vstack', frames', globals', arrs', kind)
  BY <1>2, <1>3, <1>6 DEF MachineOK
<1>8. QED BY <1>1, <1>2, <1>4, <1>6, <1>7, KeepsIInv

LEMMA LoopexitStep == IInv /\ (op_loopexit \/ op_loopbody) => Kept
<1>1. SUFFICES ASSUME IInv, op_loopexit \/ op_loopbody PROVE Kept
  OBVIOUS
<1>2. Executes({"LOOPEXIT", "LOOPBODY"}) /\ UNCHANGED <<globals, nread>>
  BY <1>1 DEF op_loopexit, op_loopbody, Executes, At
<1>3. PICK kind : MachineOK(NrOps, vstack, frames, globals, arrs, kind)
  BY <1>1, <1>2, Ready
<1>4. status = "running" /\ prog' = prog /\ stdin' = stdin /\ nread \in 0..Len(stdin) /\ AssertsHold
      /\ Op \in {"LOOPEXIT", "LOOPBODY"}
  BY <1>1, <1>2, Ready
<1>5. Filled(vstack, kind) /\ FramesOK(frames, NrOps, kind) /\ Store(arrs, kind)
  BY <1>3 DEF MachineOK
<1>6. ASSUME NEW stack, Filled(stack, kind), LeaveLoop(stack), frames # <<>> PROVE Kept
  <2>1. FramesOK(frames', NrOps, kind) /\ Store(arrs', kind) /\ (arrs' = arrs \/ ArraysTrimmed)
    BY <1>4, <1>5, <1>6, LoopsPoppedOK DEF LeaveLoop
  <2>2. vstack' = stack /\ status' = status
    BY <1>6 DEF LeaveLoop, Jump
  <2>3. MachineOK(NrOps, vstack', frames', globals', arrs', kind)
    BY <1>2, <1>3, <1>6, <2>1, <2>2 DEF MachineOK
  <2>4. QED BY <1>1, <1>2, <1>4, <2>1, <2>2, <2>3, KeepsIInv
<1>7. CASE op_loopexit
  <2>1. Op = "LOOPEXIT" /\ LeaveLoop(vstack)
    BY <1>7 DEF op_loopexit, Executes, At
  <2>2. frames # <<>>
    BY <1>4, <2>1 DEF AssertsHold, UsesFrame, UsesLoops
  <2>3. QED BY <1>5, <1>6, <2>1, <2>2
<1>8. CASE op_loopbody
  <2>1. Op = "LOOPBODY"
    BY <1>8 DEF op_loopbody, Executes, At
  <2>2. Op \notin Nullary \cup Binary \cup Ternary
    BY <2>1 DEF Nullary, Binary, Ternary, Compare, Arith
  <2>3. Filled(Below(1), kind)
    BY <1>1, <1>2, <1>3, <2>2, Ready, Operand
  <2>4. CASE Truth(Top(1), arrs)
    <3>1. vstack' = Below(1) /\ status' = status /\ UNCHANGED <<frames, arrs>>
      BY <1>8, <2>4 DEF op_loopbody, Continue
    <3>2. QED BY <1>1, <1>2, <1>3, <1>4, <2>3, <3>1, StackStep
  <2>5. CASE ~Truth(Top(1), arrs)
    <3>1. LeaveLoop(Below(1))
      BY <1>8, <2>5 DEF op_loopbody
    <3>2. frames # <<>>
      BY <1>4, <2>1, <2>5 DEF AssertsHold
    <3>3. QED BY <1>6, <2>3, <3>1, <3>2
  <2>6. QED BY <2>4, <2>5
<1>9. QED BY <1>1, <1>7, <1>8

LEMMA NewFrameOK ==
  ASSUME NEW n, NEW kind, NEW address \in MinInt..MaxInt, NEW args, Tidy(args, kind)
  PROVE  FrameOK(NewFrame(address, args), n, kind)
<1>1. <<>> \in Seq(0..(n - 1))
  OBVIOUS
<1>2. QED BY <1>1, NumGood DEF FrameOK, NewFrame

LEMMA CallStep == IInv /\ op_call => Kept
<1>1. SUFFICES ASSUME IInv, op_call PROVE Kept
  OBVIOUS
<1> DEFINE fr == NewFrame(pc, Args)
<1>2. Executes({"CALL"}) /\ UNCHANGED <<globals, arrs, nread>>
      /\ vstack' = Below(NrArgs + 2) /\ status' = status /\ frames' = Append(frames, fr)
  BY <1>1 DEF op_call, Jump
<1>3. PICK kind : MachineOK(NrOps, vstack, frames, globals, arrs, kind)
  BY <1>1, <1>2, Ready
<1>4. status = "running" /\ prog' = prog /\ stdin' = stdin /\ nread \in 0..Len(stdin)
      /\ pc \in 0..(NrOps - 1) /\ NrOps \in Nat /\ NrOps <= MaxInt
  BY <1>1, <1>2, Ready, ProgramOK
<1>5. Filled(Below(NrArgs + 2), kind) /\ Tidy(Args, kind)
  BY <1>1, <1>2, <1>3, NativeReady
<1>6. FrameOK(fr, NrOps, kind)
  <2>1. pc \in MinInt..MaxInt
    BY <1>4, Ints
  <2>2. QED BY <1>5, <2>1, NewFrameOK
<1> HIDE DEF fr
<1>7. FramesOK(frames', NrOps, kind)
  <2>1. Sequence(frames) /\ \A i \in 1..Len(frames) : FrameOK(frames[i], NrOps, kind)
    BY <1>3 DEF MachineOK, FramesOK
  <2>2. Sequence(frames') /\ Len(frames') = Len(frames) + 1 /\ frames'[Len(frames) + 1] = fr
        /\ \A i \in 1..Len(frames) : frames'[i] = frames[i]
    BY <1>2, <2>1, SequenceAppend
  <2>3. Len(frames) \in Nat
    BY <2>1, SequenceIs
  <2>4. \A i \in 1..Len(frames') : i \in 1..Len(frames) \/ i = Len(frames) + 1
    BY <2>2, <2>3
  <2>5. QED BY <1>6, <2>1, <2>2, <2>4 DEF FramesOK
<1>8. MachineOK(NrOps, vstack', frames', globals', arrs', kind)
  BY <1>2, <1>3, <1>5, <1>7 DEF MachineOK
<1>9. QED BY <1>1, <1>2, <1>4, <1>8, KeepsIInv

LEMMA RetStep == IInv /\ op_ret => Kept
<1>1. SUFFICES ASSUME IInv, op_ret PROVE Kept
  OBVIOUS
<1>2. Executes({"RET"}) /\ UNCHANGED <<vstack, status, globals, arrs, nread>>
      /\ frames' = Front(frames)
  BY <1>1 DEF op_ret, Jump
<1>3. PICK kind : MachineOK(NrOps, vstack, frames, globals, arrs, kind)
  BY <1>1, <1>2, Ready
<1>4. status = "running" /\ prog' = prog /\ stdin' = stdin /\ nread \in 0..Len(stdin)
      /\ Op = "RET" /\ AssertsHold
  BY <1>1, <1>2, Ready
<1>5. frames # <<>> /\ FramesOK(frames, NrOps, kind)
  BY <1>3, <1>4 DEF AssertsHold, UsesFrame, MachineOK
<1>6. FramesOK(frames', NrOps, kind)
  <2>1. /\ Sequence(frames') /\ Len(frames') = Len(frames) - 1
        /\ \A i \in 1..(Len(frames) - 1) : frames'[i] = frames[i]
    BY <1>2, <1>5, SequenceFront DEF FramesOK
  <2>2. Len(frames) \in Nat
    BY <1>5, FrameIs
  <2>3. \A i \in 1..Len(frames') : i \in 1..Len(frames) /\ frames'[i] = frames[i]
    BY <2>1, <2>2
  <2>4. QED BY <1>5, <2>1, <2>3 DEF FramesOK
<1>7. MachineOK(NrOps, vstack', frames', globals', arrs', kind)
  BY <1>2, <1>3, <1>6 DEF MachineOK
<1>8. QED BY <1>1, <1>2, <1>4, <1>7, KeepsIInv

---------------------------------------------------------------------------
(* The invariant holds of every execution. *)

LEMMA Initially == Init => IInv
<1>1. SUFFICES ASSUME Init PROVE IInv
  OBVIOUS
<1> DEFINE kind == [a \in 1..0 |-> "arr"]
<1>2. /\ prog \in Programs /\ stdin \in Stdins /\ nread = 0 /\ status = "running"
      /\ vstack = <<>> /\ globals = <<>> /\ arrs = <<>>
      /\ frames = <<NewFrame(0, <<>>)>>
  BY <1>1 DEF Init
<1>3. 0 \in 0..Len(stdin)
  <2>1. stdin \in Seq([n : MinInt..MaxInt, s : Seq(Int)])
    BY <1>2, InputAssumption
  <2>2. QED BY <2>1
<1>4. Store(arrs, kind)
  <2>1. Sequence(arrs) /\ Len(arrs) = 0
    BY <1>2, TextSequences
  <2>2. kind \in [1..0 -> {"arr", "map"}] /\ \A a \in 1..0 : FALSE
    OBVIOUS
  <2> HIDE DEF kind
  <2>3. QED BY <2>1, <2>2 DEF Store
<1> HIDE DEF kind
<1>5. Tidy(<<>>, kind) /\ Filled(<<>>, kind)
  BY TextSequences DEF Tidy, Filled, LastUsed
<1>6. FramesOK(frames, NrOps, kind)
  <2> DEFINE fr == NewFrame(0, <<>>)
  <2>1. 0 \in MinInt..MaxInt
    BY Ints
  <2>2. FrameOK(fr, NrOps, kind)
    BY <1>5, <2>1, NewFrameOK
  <2> HIDE DEF fr
  <2>3. Sequence(<<fr>>) /\ Len(<<fr>>) = 1 /\ <<fr>>[1] = fr
    BY TextSequences
  <2>4. frames = <<fr>>
    BY <1>2 DEF fr
  <2>5. QED BY <2>2, <2>3, <2>4 DEF FramesOK
<1>7. MachineOK(NrOps, vstack, frames, globals, arrs, kind)
  BY <1>2, <1>4, <1>5, <1>6 DEF MachineOK
<1>8. QED BY <1>2, <1>3, <1>7, IInvIs

LEMMA Preserved == IInv /\ [Next]_vars => Kept
<1>1. SUFFICES ASSUME IInv, [Next]_vars PROVE Kept
  OBVIOUS
<1>2. CASE UNCHANGED vars
  BY <1>1, <1>2 DEF IInv, vars, machine, MachineOK, NrOps, Kept, ArraysTrimmed
<1>3. CASE Next
  <2>1. CASE AssertFails \/ TextOverflows \/ ProgramEnd \/ WildJump \/ op_halt
    BY <1>1, <2>1, Stopped
  <2>2. CASE op_push
    BY <1>1, <2>2, Push
  <2>3. CASE op_binary
    BY <1>1, <2>3, BinaryStep
  <2>4. CASE op_unary
    BY <1>1, <2>4, UnaryStep
  <2>5. CASE op_createval
    BY <1>1, <2>5, CreateStep
  <2>6. CASE op_cast
    BY <1>1, <2>6, CastStep
  <2>7. CASE op_mkarray
    BY <1>1, <2>7, MkarrayStep
  <2>8. CASE op_indexas
    BY <1>1, <2>8, IndexasStep
  <2>9. CASE op_dup
    BY <1>1, <2>9, DupStep
  <2>10. CASE op_noop \/ op_condelse \/ op_loopend
    BY <1>1, <2>10, StaysStep
  <2>11. CASE op_discard \/ op_jump \/ op_condbegin \/ op_print
    BY <1>1, <2>11, PopStep
  <2>12. CASE op_setvar
    BY <1>1, <2>12, SetvarStep
  <2>13. CASE op_setglobal
    BY <1>1, <2>13, SetglobalStep
  <2>14. CASE op_jumpcond
    BY <1>1, <2>14, JumpcondStep
  <2>15. CASE op_loopbegin
    BY <1>1, <2>15, LoopbeginStep
  <2>16. CASE op_loopexit \/ op_loopbody
    BY <1>1, <2>16, LoopexitStep
  <2>17. CASE op_call
    BY <1>1, <2>17, CallStep
  <2>18. CASE op_ret
    BY <1>1, <2>18, RetStep
  <2>19. CASE native_print \/ op_call_unknown
    BY <1>1, <2>19, UndefStep
  <2>20. CASE native_read
    BY <1>1, <2>20, ReadStep
  <2>21. CASE native_random
    BY <1>1, <2>21, RandomStep
  <2>22. CASE native_exit
    BY <1>1, <2>22, ExitStep
  <2>23. CASE native_myadd
    BY <1>1, <2>23, MyaddStep
  <2>24. CASE op_getint
    BY <1>1, <2>24, GetintStep
  <2>25. CASE op_tstart \/ op_tend
    BY <1>1, <2>25, ClockStep
  <2>26. CASE op_getvar_loops
    BY <1>1, <2>26, GetvarLoopsStep
  <2>27. QED
    BY <1>3, <2>1, <2>2, <2>3, <2>4, <2>5, <2>6, <2>7, <2>8, <2>9, <2>10, <2>11, <2>12, <2>13,
       <2>14, <2>15, <2>16, <2>17, <2>18, <2>19, <2>20, <2>21, <2>22, <2>23, <2>24, <2>25,
       <2>26 DEF Next
<1>4. QED BY <1>1, <1>2, <1>3

\* The inductive invariant holds in every state the machine reaches.
THEOREM Invariant == Spec => []IInv
<1>1. IInv /\ [Next]_vars => IInv'
  BY Preserved DEF Kept
<1>2. QED BY <1>1, Initially, PTL DEF Spec

---------------------------------------------------------------------------
(* What it says of the slots: the values in globals, arrays and frames. *)

LEMMA SlotsFilled ==
  ASSUME NEW n, NEW stack, NEW fs, NEW glob, NEW store, NEW kind,
         MachineOK(n, stack, fs, glob, store, kind),
         NEW s \in {glob} \cup ToSet(store) \cup {fs[i].vars : i \in DOMAIN fs}
  PROVE  Filled(s, kind) /\ (Tidy(s, kind) \/ s \in ToSet(store))
<1>1. CASE s = glob
  BY <1>1 DEF MachineOK, Tidy
<1>2. CASE s \in ToSet(store)
  <2>1. PICK a \in 1..Len(store) : s = store[a]
    <3>1. ToSet(store) = {store[i] : i \in 1..Len(store)}
      BY SequenceIs DEF MachineOK, Store
    <3>2. QED BY <1>2, <3>1
  <2>2. QED BY <1>2, <2>1 DEF MachineOK, Store, SlotsOK
<1>3. CASE s \in {fs[i].vars : i \in DOMAIN fs}
  <2>1. DOMAIN fs = 1..Len(fs)
    BY SequenceIs DEF MachineOK, FramesOK
  <2>2. PICK i \in 1..Len(fs) : s = fs[i].vars
    BY <1>3, <2>1
  <2>3. QED BY <2>2 DEF MachineOK, FramesOK, FrameOK, Tidy
<1>4. QED BY <1>1, <1>2, <1>3

LEMMA HeldGood ==
  ASSUME NEW kind, MachineOK(NrOps, vstack, frames, globals, arrs, kind),
         NEW s \in {vstack} \cup Slots, NEW v \in ToSet(s)
  PROVE  Good(v, kind)
<1>1. Filled(s, kind)
  BY SlotsFilled DEF MachineOK, Slots
<1>2. QED BY <1>1, FilledIs

\* For every program, input and width of ints: numbers stay ints, values refer
\* to arrays that exist, no request and no crash is ever stored as a value, not
\* even for a return address, and the loops of a frame are instructions of the
\* program as long as nothing else refers to its loop stack.
THEOREM TypesOK == Spec => []TypeOK
<1>1. ASSUME IInv PROVE TypeOK
  <2>1. PICK kind : MachineOK(NrOps, vstack, frames, globals, arrs, kind)
    BY <1>1, IInvIs
  <2>2. DOMAIN kind = DOMAIN arrs
    BY <2>1, SequenceIs DEF MachineOK, Store
  <2>3. ASSUME NEW s \in {vstack} \cup Slots, NEW v \in ToSet(s) PROVE WellFormed(v)
    <3>1. Good(v, kind)
      BY <2>1, HeldGood
    <3>2. QED BY <2>2, <3>1 DEF Good, WellFormed
  <2>4. ASSUME NEW i \in DOMAIN frames
        PROVE  /\ WellFormed(frames[i].ret) /\ WellFormed(frames[i].lent)
               /\ ToSet(frames[i].loops) \subseteq 0..(NrOps - 1)
    <3>1. FrameOK(frames[i], NrOps, kind)
      BY <2>1, SequenceIs DEF MachineOK, FramesOK
    <3>2. Good(frames[i].ret, kind) /\ Good(frames[i].lent, kind)
      BY <3>1 DEF FrameOK
    <3>3. WellFormed(frames[i].ret) /\ WellFormed(frames[i].lent)
      BY <2>2, <3>2 DEF Good, WellFormed
    <3>4. QED BY <3>1, <3>3, SequenceOf DEF FrameOK
  <2>5. QED BY <1>1, <2>3, <2>4 DEF TypeOK, IInv
<1>2. QED BY <1>1, Invariant, PTL

\* For every program: no step leaves an undefined slot at the end of an array, of
\* a frame or of the globals, but a loop that is left when the program took its
\* loop stack for an array.
THEOREM AlwaysTrimmed == Spec => Trimmed
<1>1. ASSUME IInv, [Next]_vars
      PROVE  [\A s \in Slots' \ Slots :
                \/ s # <<>> => Last(s) # Undef
                \/ Op \in {"LOOPEXIT", "LOOPBODY"} /\ s = Pop(LoopStack(Frame))]_vars
  <2>1. SUFFICES ASSUME NEW s \in Slots', s \notin Slots
                 PROVE  \/ s # <<>> => Last(s) # Undef
                        \/ Op \in {"LOOPEXIT", "LOOPBODY"} /\ s = Pop(LoopStack(Frame))
    OBVIOUS
  <2>2. IInv' /\ ArraysTrimmed
    BY <1>1, Preserved DEF Kept
  <2>3. PICK kind : MachineOK(NrOps', vstack', frames', globals', arrs', kind)
    BY <2>2 DEF IInv
  <2>4. Filled(s, kind) /\ (Tidy(s, kind) \/ s \in ToSet(arrs'))
    BY <2>1, <2>3, SlotsFilled DEF Slots
  <2>5. s \notin ToSet(arrs)
    BY <2>1 DEF Slots
  <2>6. LastUsed(s) => (s # <<>> => Last(s) # Undef)
    BY <2>4, SequenceFront, SequenceIs DEF Filled, LastUsed
  <2>7. CASE Tidy(s, kind)
    BY <2>6, <2>7 DEF Tidy
  <2>8. CASE s \in ToSet(arrs')
    BY <2>2, <2>5, <2>6, <2>8 DEF ArraysTrimmed
  <2>9. QED BY <2>4, <2>7, <2>8
<1>2. QED BY <1>1, Invariant, PTL DEF Spec, Trimmed

\* For every program and every width of ints: a map has a key at most once,
\* also after it was copied, and however its values were computed.
THEOREM AlwaysUnique == Spec => []KeysUnique
<1>1. ASSUME IInv PROVE KeysUnique
  <2>1. PICK kind : MachineOK(NrOps, vstack, frames, globals, arrs, kind)
    BY <1>1, IInvIs
  <2>2. SUFFICES ASSUME NEW s \in {vstack} \cup Slots, NEW v \in ToSet(s), v.t = "map"
                 PROVE  \A i, j \in 1..(Len(arrs[v.n]) \div 2) :
                          i # j => ValCmp(arrs[v.n][2 * i - 1], arrs[v.n][2 * j - 1]) # 0
    BY DEF KeysUnique
  <2>3. Good(v, kind) /\ Store(arrs, kind)
    BY <2>1, HeldGood DEF MachineOK
  <2>4. IsMap(arrs[v.n])
    BY <2>2, <2>3, SlotsOf
  <2>5. QED BY <2>4 DEF IsMap
<1>2. QED BY <1>1, Invariant, PTL

===========================================================================
