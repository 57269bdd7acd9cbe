---------------------------- MODULE Foundations ----------------------------
(* Facts the proofs about the machine rest on: induction over the natural  *)
(* numbers, the existence of functions defined by recursion, the smallest  *)
(* and the largest member of a set of numbers, and sequences of anything.  *)
(*                                                                         *)
(* Induction is stated for a set of numbers, not for a predicate: a set    *)
(* can be instantiated by the provers.                                     *)
EXTENDS Integers, Sequences, SequencesExt, WellFoundedInduction, TLAPS

---------------------------------------------------------------------------
(* Induction and recursion. *)

\* Every set of natural numbers has a least member.
LEMMA LeastNat ==
  ASSUME NEW T \in SUBSET Nat, T # {}
  PROVE  \E x \in T : \A y \in T : x <= y
<1>1. IsWellFoundedOn(OpToRel(<, Nat), Nat)
  BY NatLessThanWellFounded
<1>2. PICK x \in T : \A y \in T : ~ (<<y, x>> \in OpToRel(<, Nat))
  BY <1>1, WFMin
<1>3. \A y \in Nat, z \in Nat : y < z => <<y, z>> \in OpToRel(<, Nat)
  BY Zenon DEF OpToRel
<1>4. \A y \in T : ~ (y < x)
  BY <1>2, <1>3, Zenon
<1>5. QED BY <1>4

\* A set that holds 0 and with a number its successor holds them all.
LEMMA Induction ==
  ASSUME NEW P \in SUBSET Nat, 0 \in P, \A m \in P : m + 1 \in P
  PROVE  P = Nat
<1>1. SUFFICES ASSUME Nat \ P # {} PROVE FALSE
  OBVIOUS
<1>2. PICK x \in Nat \ P : \A y \in Nat \ P : x <= y
  BY <1>1, LeastNat
<1>3. x # 0 /\ x - 1 \in Nat
  BY <1>2
<1>4. x - 1 \in P
  BY <1>2, <1>3
<1>5. x \in P
  BY <1>2, <1>4
<1>6. QED BY <1>2, <1>5

\* The values of f are in S: base at 0, each of the others from the one before.
Recursive(f, S, base, n, step) ==
  /\ f \in [0..n -> S]
  /\ f[0] = base
  /\ \A i \in 1..n : f[i] = step[<<i, f[i - 1]>>]

\* A function can be defined from 0 up to n, each value from the one before.
LEMMA Recursion ==
  ASSUME NEW S, NEW base, base \in S, NEW n, n \in Nat,
         NEW step, step \in [(1..n) \X S -> S]
  PROVE  \E f : Recursive(f, S, base, n, step)
<1> DEFINE Upto(m) == \E f \in [0..m -> S] :
             /\ f[0] = base
             /\ \A i \in 1..m : f[i] = step[<<i, f[i - 1]>>]
           P == {m \in Nat : m <= n => Upto(m)}
<1>1. Upto(0)
  <2> DEFINE f == [i \in 0..0 |-> base]
  <2>1. f \in [0..0 -> S] /\ f[0] = base
    OBVIOUS
  <2>2. \A i \in 1..0 : f[i] = step[<<i, f[i - 1]>>]
    OBVIOUS
  <2> HIDE DEF f
  <2>3. QED BY <2>1, <2>2
<1>2. ASSUME NEW m \in P PROVE m + 1 \in P
  <2>1. SUFFICES ASSUME m + 1 <= n PROVE Upto(m + 1)
    BY <1>2
  <2>2. PICK f \in [0..m -> S] : /\ f[0] = base
                                 /\ \A i \in 1..m : f[i] = step[<<i, f[i - 1]>>]
    BY <1>2, <2>1
  <2>3. m \in Nat /\ m + 1 \in 1..n /\ f[m] \in S
    BY <1>2, <2>1, <2>2
  <2>4. step[<<m + 1, f[m]>>] \in S
    BY <2>3
  <2> DEFINE g == [i \in 0..(m + 1) |-> IF i = m + 1 THEN step[<<m + 1, f[m]>>] ELSE f[i]]
  <2>5. g \in [0..(m + 1) -> S]
    BY <2>2, <2>3, <2>4
  <2>6. g[0] = base
    BY <2>2, <2>3
  <2>7. \A i \in 1..(m + 1) : g[i] = step[<<i, g[i - 1]>>]
    <3>1. ASSUME NEW i \in 1..m PROVE g[i] = step[<<i, g[i - 1]>>]
      BY <2>2, <2>3
    <3>2. g[m + 1] = step[<<m + 1, g[(m + 1) - 1]>>]
      <4>1. (m + 1) - 1 = m /\ m # m + 1 /\ m \in 0..(m + 1) /\ m + 1 \in 0..(m + 1)
        BY <2>3
      <4>2. g[m] = f[m] /\ g[m + 1] = step[<<m + 1, f[m]>>]
        BY <4>1
      <4> HIDE DEF g
      <4>3. QED BY <4>1, <4>2
    <3>3. \A i \in 1..(m + 1) : i \in 1..m \/ i = m + 1
      BY <2>3
    <3> HIDE DEF g
    <3>4. QED BY <3>1, <3>2, <3>3
  <2> HIDE DEF g
  <2>8. QED BY <2>5, <2>6, <2>7
<1> HIDE DEF Upto
<1>3. P = Nat
  <2>1. P \in SUBSET Nat /\ 0 \in P
    BY <1>1
  <2> HIDE DEF P
  <2>2. QED BY <1>2, <2>1, Induction
<1>4. Upto(n)
  BY <1>3
<1>5. QED BY <1>4 DEF Upto, Recursive

\* What is defined so stays in the set its values come from.
LEMMA RecursionStays ==
  ASSUME NEW S, NEW n \in Nat, NEW f, f[0] \in S, \A i \in 1..n : f[i - 1] \in S => f[i] \in S
  PROVE  \A i \in 0..n : f[i] \in S
<1> DEFINE P == {m \in Nat : m <= n => f[m] \in S}
<1>1. P \in SUBSET Nat /\ 0 \in P
  OBVIOUS
<1>2. ASSUME NEW m \in P PROVE m + 1 \in P
  <2>1. SUFFICES ASSUME m + 1 <= n PROVE f[m + 1] \in S
    OBVIOUS
  <2>2. m + 1 \in 1..n /\ (m + 1) - 1 = m /\ f[m] \in S
    BY <2>1
  <2>3. QED BY <2>2
<1>3. \A i \in P : i <= n => f[i] \in S
  OBVIOUS
<1> HIDE DEF P
<1>4. P = Nat
  BY <1>1, <1>2, Induction
<1>5. QED BY <1>3, <1>4

---------------------------------------------------------------------------
(* The smallest and the largest of some numbers. *)

LEMMA MinIs ==
  ASSUME NEW T \in SUBSET Nat, T # {}
  PROVE  Min(T) \in T /\ \A y \in T : Min(T) <= y
BY LeastNat DEF Min

LEMMA MaxIs ==
  ASSUME NEW n \in Nat, NEW T \in SUBSET (0..n), T # {}
  PROVE  Max(T) \in T /\ \A y \in T : y <= Max(T)
<1> DEFINE D == {n - y : y \in T}
<1>1. D \in SUBSET Nat /\ D # {}
  <2>1. \A y \in T : n - y \in Nat
    OBVIOUS
  <2>2. PICK y \in T : TRUE
    OBVIOUS
  <2>3. n - y \in D
    BY <2>2
  <2>4. QED BY <2>1, <2>3
<1>2. PICK x \in D : \A y \in D : x <= y
  BY <1>1, LeastNat
<1>3. PICK z \in T : x = n - z
  BY <1>2
<1>4. \A y \in T : y <= z
  BY <1>2, <1>3
<1>5. \E z1 \in T : \A y \in T : y <= z1
  BY <1>4
<1>6. QED BY <1>5 DEF Max

---------------------------------------------------------------------------
(* Sequences of anything. *)

\* s is a sequence, whatever it holds.
Sequence(s) == s \in Seq(ToSet(s))

\* What follows from it, and from what it follows.
LEMMA SequenceIs ==
  ASSUME NEW s, Sequence(s)
  PROVE  /\ Len(s) \in Nat
         /\ DOMAIN s = 1..Len(s)
         /\ ToSet(s) = {s[i] : i \in 1..Len(s)}
         /\ \A T : ToSet(s) \subseteq T => s \in Seq(T)
<1>1. s \in Seq(ToSet(s))
  BY DEF Sequence
<1>2. Len(s) \in Nat /\ DOMAIN s = 1..Len(s)
  BY <1>1
<1>3. ToSet(s) = {s[i] : i \in 1..Len(s)}
  BY <1>2 DEF ToSet
<1>4. ASSUME NEW T, ToSet(s) \subseteq T PROVE s \in Seq(T)
  <2>1. s = [i \in 1..Len(s) |-> s[i]]
    BY <1>1
  <2>2. \A i \in 1..Len(s) : s[i] \in T
    BY <1>3, <1>4
  <2>3. QED BY <1>2, <2>1, <2>2
<1>5. QED BY <1>2, <1>3, <1>4

LEMMA SequenceOf ==
  ASSUME NEW S, NEW s \in Seq(S)
  PROVE  /\ Sequence(s)
         /\ ToSet(s) \subseteq S
<1>1. /\ Len(s) \in Nat /\ DOMAIN s = 1..Len(s)
      /\ s = [i \in 1..Len(s) |-> s[i]] /\ \A i \in 1..Len(s) : s[i] \in S
  OBVIOUS
<1>2. ToSet(s) = {s[i] : i \in 1..Len(s)}
  BY <1>1 DEF ToSet
<1>3. s \in Seq(ToSet(s))
  BY <1>1, <1>2
<1>4. QED BY <1>1, <1>2, <1>3 DEF Sequence

LEMMA SequenceEqual ==
  ASSUME NEW s, NEW t, Sequence(s), Sequence(t), Len(s) = Len(t),
         \A i \in 1..Len(s) : s[i] = t[i]
  PROVE  s = t
<1>1. s = [i \in 1..Len(s) |-> s[i]] /\ t = [i \in 1..Len(t) |-> t[i]]
  BY DEF Sequence
<1>2. QED BY <1>1

LEMMA SequenceMade ==
  ASSUME NEW n \in Nat, NEW f, f = [i \in 1..n |-> f[i]]
  PROVE  Sequence(f) /\ Len(f) = n
<1>1. f \in Seq({f[i] : i \in 1..n}) /\ Len(f) = n
  OBVIOUS
<1>2. QED BY <1>1, SequenceOf

LEMMA SequenceAppend ==
  ASSUME NEW s, NEW v, Sequence(s)
  PROVE  /\ Sequence(Append(s, v))
         /\ Len(Append(s, v)) = Len(s) + 1
         /\ \A i \in 1..Len(s) : Append(s, v)[i] = s[i]
         /\ Append(s, v)[Len(s) + 1] = v
<1>1. s \in Seq(ToSet(s) \cup {v})
  BY SequenceIs
<1>2. Append(s, v) \in Seq(ToSet(s) \cup {v})
  BY <1>1
<1>3. Sequence(Append(s, v))
  BY <1>2, SequenceOf
<1>4. QED BY <1>1, <1>3

LEMMA SequenceConcat ==
  ASSUME NEW s, NEW t, Sequence(s), Sequence(t)
  PROVE  /\ Sequence(s \o t)
         /\ Len(s \o t) = Len(s) + Len(t)
         /\ \A i \in 1..Len(s) : (s \o t)[i] = s[i]
         /\ \A i \in 1..Len(t) : (s \o t)[Len(s) + i] = t[i]
<1> DEFINE T == ToSet(s) \cup ToSet(t)
<1>1. s \in Seq(T) /\ t \in Seq(T)
  BY SequenceIs
<1> HIDE DEF T
<1>2. s \o t \in Seq(T)
  BY <1>1
<1>3. Sequence(s \o t)
  BY <1>2, SequenceOf
<1>4. \A i \in 1..Len(t) : (s \o t)[Len(s) + i] = t[i]
  <2>1. SUFFICES ASSUME NEW i \in 1..Len(t) PROVE (s \o t)[Len(s) + i] = t[i]
    OBVIOUS
  <2>2. Len(s) \in Nat /\ Len(t) \in Nat
    BY <1>1
  <2>3. Len(s) + i \in 1..(Len(s) + Len(t)) /\ ~(Len(s) + i <= Len(s)) /\ (Len(s) + i) - Len(s) = i
    BY <2>2
  <2>4. QED BY <1>1, <2>2, <2>3
<1>5. QED BY <1>1, <1>3, <1>4

LEMMA SequenceSub ==
  ASSUME NEW s, Sequence(s), NEW m \in Nat, m >= 1, NEW n \in 0..Len(s)
  PROVE  /\ Sequence(SubSeq(s, m, n))
         /\ Len(SubSeq(s, m, n)) = IF m <= n THEN (n - m) + 1 ELSE 0
         /\ \A i \in 1..((n - m) + 1) : SubSeq(s, m, n)[i] = s[(m + i) - 1]
<1>1. Len(s) \in Nat /\ n \in Nat /\ DOMAIN s = 1..Len(s) /\ s \in Seq(ToSet(s))
  BY SequenceIs DEF Sequence
<1>2. SubSeq(s, m, n) \in Seq(ToSet(s))
  BY <1>1
<1>3. Sequence(SubSeq(s, m, n))
  BY <1>2, SequenceOf
<1>4. QED BY <1>1, <1>3

LEMMA SequenceFront ==
  ASSUME NEW s, Sequence(s), s # <<>>
  PROVE  /\ Sequence(Front(s))
         /\ Len(s) >= 1
         /\ Len(Front(s)) = Len(s) - 1
         /\ \A i \in 1..(Len(s) - 1) : Front(s)[i] = s[i]
         /\ Last(s) = s[Len(s)]
<1>1. s \in Seq(ToSet(s))
  BY DEF Sequence
<1>2. Len(s) \in 1..Len(s) /\ DOMAIN s = 1..Len(s)
  BY <1>1
<1>3. Front(s) \in Seq(ToSet(s)) /\ DOMAIN Front(s) = 1..Len(s) - 1
      /\ \A i \in 1..Len(s) - 1 : Front(s)[i] = s[i]
  BY <1>1, <1>2 DEF Front
<1>4. Sequence(Front(s))
  BY <1>3, SequenceOf
<1>5. Len(Front(s)) = Len(s) - 1
  <2>1. Len(Front(s)) \in Nat /\ DOMAIN Front(s) = 1..Len(Front(s))
    BY <1>3
  <2>2. ASSUME NEW a \in Nat, NEW b \in Nat, 1..a = 1..b PROVE a = b
    <3>1. a \in 1..a => a <= b
      BY <2>2
    <3>2. b \in 1..b => b <= a
      BY <2>2
    <3>3. QED BY <3>1, <3>2
  <2>3. Len(s) - 1 \in Nat
    BY <1>1, <1>2
  <2>4. 1..Len(Front(s)) = 1..(Len(s) - 1)
    BY <1>3, <2>1
  <2>5. QED BY <2>1, <2>2, <2>3, <2>4
<1>6. QED BY <1>2, <1>3, <1>4, <1>5 DEF Last
===========================================================================
