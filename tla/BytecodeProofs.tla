--------------------------- MODULE BytecodeProofs ---------------------------
(* Bytecode files, for every program and any moment at which the writer    *)
(* may stop: what prog_read makes of the units that are there is the whole *)
(* program, or the reader fails.                                           *)
(*                                                                         *)
(* The reader is followed by its position in the file.  As long as the     *)
(* position lies within the file the reader is well and has the value that *)
(* was written there; once it would lie behind the end the reader has      *)
(* failed, and stays so.                                                   *)
EXTENDS Bytecode, BuilderProofs, ValueProofs

---------------------------------------------------------------------------
(* Files and readers. *)

\* The units of file u behind position pos are those of s, as far as u goes.
Holds(u, pos, s) == \A j \in 1..Len(s) : pos + j <= Len(u) => u[pos + j] = s[j]

\* A reader that has come to position pos of file u, or has failed before.
ReaderAt(r, u, pos) ==
  /\ r = [units |-> r.units, v |-> r.v, ok |-> r.ok]
  /\ r.ok \in BOOLEAN
  /\ r.ok <=> pos <= Len(u)
  /\ r.ok => r.units = SubSeq(u, pos + 1, Len(u))

LEMMA HoldsBoth ==
  ASSUME NEW u, NEW pos \in Nat, NEW s, NEW t, Sequence(u), Sequence(s), Sequence(t),
         Holds(u, pos, s \o t)
  PROVE  Holds(u, pos, s) /\ Holds(u, pos + Len(s), t)
<1>1. Len(s) \in Nat /\ Len(t) \in Nat /\ Len(s \o t) = Len(s) + Len(t) /\ Len(u) \in Nat
  BY SequenceIs, SequenceConcat
<1>2. \A i \in 1..Len(s) : (s \o t)[i] = s[i]
  BY SequenceConcat
<1>3. \A i \in 1..Len(t) : (s \o t)[Len(s) + i] = t[i]
  BY SequenceConcat
<1>4. Holds(u, pos, s)
  BY <1>1, <1>2 DEF Holds
<1>5. ASSUME NEW i \in 1..Len(t), (pos + Len(s)) + i <= Len(u)
      PROVE  u[(pos + Len(s)) + i] = t[i]
  <2>1. Len(s) + i \in 1..Len(s \o t) /\ pos + (Len(s) + i) = (pos + Len(s)) + i
    BY <1>1
  <2>2. QED BY <1>3, <1>5, <2>1 DEF Holds
<1>6. QED BY <1>4, <1>5 DEF Holds

LEMMA FailIs ==
  ASSUME NEW r, r = [units |-> r.units, v |-> r.v, ok |-> r.ok], r.ok \in BOOLEAN
  PROVE  Fail(r) = [units |-> r.units, v |-> r.v, ok |-> FALSE]
<1>1. DOMAIN r = {"units", "v", "ok"}
  OBVIOUS
<1>2. Fail(r) = [f \in DOMAIN r |-> IF f = "ok" THEN FALSE ELSE r[f]]
  BY DEF Fail
<1>3. QED BY <1>1, <1>2

LEMMA UnitRead ==
  ASSUME NEW r, NEW u, NEW pos \in Nat, Sequence(u), ReaderAt(r, u, pos)
  PROVE  /\ ReaderAt(ReadUnit(r), u, pos + 1)
         /\ pos + 1 <= Len(u) => ReadUnit(r).v = u[pos + 1]
<1>1. Len(u) \in Nat /\ u \in Seq(ToSet(u))
  BY SequenceIs
<1>2. CASE ~r.ok
  <2>1. ReadUnit(r) = [units |-> r.units, v |-> r.v, ok |-> FALSE]
    BY <1>2 DEF ReadUnit, Fail, ReaderAt
  <2>2. QED BY <1>1, <1>2, <2>1 DEF ReaderAt
<1>3. CASE r.ok /\ pos = Len(u)
  <2> DEFINE s == SubSeq(u, pos + 1, Len(u))
  <2>1. r.units = <<>>
    <3>1. s \in Seq(ToSet(u)) /\ Len(s) = 0
      BY <1>1, <1>3
    <3>2. r.units = s
      BY <1>3 DEF ReaderAt
    <3> HIDE DEF s
    <3>3. QED BY <3>1, <3>2
  <2>2. ReadUnit(r) = [units |-> r.units, v |-> r.v, ok |-> FALSE]
    BY <2>1 DEF ReadUnit, Fail, ReaderAt
  <2>3. QED BY <1>1, <1>3, <2>2 DEF ReaderAt
<1>4. CASE r.ok /\ pos + 1 <= Len(u)
  <2> DEFINE s == SubSeq(u, pos + 1, Len(u))
  <2>1. s \in Seq(ToSet(u)) /\ Len(s) = Len(u) - pos
    BY <1>1, <1>4
  <2>2. s # <<>> /\ Len(s) >= 1
    <3>1. Len(s) >= 1
      BY <1>1, <1>4, <2>1
    <3> HIDE DEF s
    <3>2. QED BY <3>1
  <2>3. Head(s) = u[pos + 1]
    BY <1>1, <1>4, <2>1
  <2>4. Tail(s) = SubSeq(u, (pos + 1) + 1, Len(u))
    <3>0. \A i \in 1..(Len(u) - pos) : s[i] = u[pos + i]
      BY <1>1, <1>4
    <3> HIDE DEF s
    <3>1. Tail(s) \in Seq(ToSet(u)) /\ Len(Tail(s)) = Len(u) - (pos + 1)
      BY <1>1, <2>1, <2>2
    <3>2. \A i \in 1..(Len(u) - (pos + 1)) : Tail(s)[i] = u[(pos + 1) + i]
      <4>1. \A i \in 1..(Len(u) - (pos + 1)) : Tail(s)[i] = s[i + 1]
        BY <1>1, <2>1, <2>2
      <4>2. \A i \in 1..(Len(u) - (pos + 1)) : i + 1 \in 1..(Len(u) - pos) /\ pos + (i + 1) = (pos + 1) + i
        BY <1>1
      <4>3. QED BY <3>0, <4>1, <4>2
    <3> DEFINE q == SubSeq(u, (pos + 1) + 1, Len(u))
    <3>3. q \in Seq(ToSet(u)) /\ Len(q) = Len(u) - (pos + 1)
      BY <1>1, <1>4
    <3>4. \A i \in 1..(Len(u) - (pos + 1)) : q[i] = u[(pos + 1) + i]
      BY <1>1, <1>4
    <3> HIDE DEF q
    <3>5. Tail(s) = q
      BY <1>1, <3>1, <3>2, <3>3, <3>4, SequenceOf, SequenceEqual
    <3>6. QED BY <3>5 DEF q
  <2>5. ReadUnit(r) = [units |-> Tail(s), v |-> Head(s), ok |-> TRUE]
    <3>1. r.units = s /\ r = [units |-> r.units, v |-> r.v, ok |-> r.ok]
      BY <1>4 DEF ReaderAt
    <3> HIDE DEF s
    <3>2. QED BY <1>4, <2>2, <3>1 DEF ReadUnit
  <2> HIDE DEF s
  <2>6. ReadUnit(r).v = u[pos + 1]
    BY <2>3, <2>5
  <2>7. ReaderAt(ReadUnit(r), u, pos + 1)
    <3> DEFINE d == ReadUnit(r)
    <3>1. d.units = SubSeq(u, (pos + 1) + 1, Len(u)) /\ d.ok = TRUE
      BY <2>4, <2>5
    <3>2. d = [units |-> d.units, v |-> d.v, ok |-> d.ok]
      BY <2>5
    <3> HIDE DEF d
    <3>3. ReaderAt(d, u, pos + 1)
      BY <1>4, <3>1, <3>2 DEF ReaderAt
    <3>4. QED BY <3>3 DEF d
  <2>8. QED BY <2>6, <2>7
<1>5. r.ok => pos <= Len(u)
  BY DEF ReaderAt
<1>6. QED BY <1>1, <1>2, <1>3, <1>4, <1>5

---------------------------------------------------------------------------
(* Values.  The compiler puts strings and numbers into a program. *)

Storable == [t : {"num"}, n : Int, s : {<<>>}] \cup {Str(cs) : cs \in Seq(Int)}

LEMMA Joined2 == ASSUME NEW a, NEW b PROVE <<a>> \o <<b>> = <<a, b>>
<1> DEFINE s == <<a>> \o <<b>>
           t == <<a, b>>
<1>1. s \in Seq({a, b}) /\ t \in Seq({a, b}) /\ Len(s) = 2 /\ Len(t) = 2
  OBVIOUS
<1>2. s[1] = a /\ s[2] = b /\ t[1] = a /\ t[2] = b
  OBVIOUS
<1>3. \A i \in 1..2 : s[i] = t[i]
  BY <1>2
<1> HIDE DEF s, t
<1>4. s = t
  BY <1>1, <1>3, SequenceOf, SequenceEqual
<1>5. QED BY <1>4 DEF s, t

LEMMA Joined3 == ASSUME NEW a, NEW b, NEW c PROVE <<a>> \o <<b, c>> = <<a, b, c>>
<1> DEFINE s == <<a>> \o <<b, c>>
           t == <<a, b, c>>
<1>1. s \in Seq({a, b, c}) /\ t \in Seq({a, b, c}) /\ Len(s) = 3 /\ Len(t) = 3
  OBVIOUS
<1>2. s[1] = a /\ s[2] = b /\ s[3] = c /\ t[1] = a /\ t[2] = b /\ t[3] = c
  OBVIOUS
<1>3. \A i \in 1..3 : s[i] = t[i]
  BY <1>2
<1> HIDE DEF s, t
<1>4. s = t
  BY <1>1, <1>3, SequenceOf, SequenceEqual
<1>5. QED BY <1>4 DEF s, t

LEMMA SerializedIs ==
  ASSUME NEW v \in Storable
  PROVE  /\ \/ /\ v.t = "num" /\ val_serialize(v) = <<Num(2), v>>
            \/ /\ v.t = "str" /\ v = Str(<<>>) /\ val_serialize(v) = <<Num(1), Num(0)>>
            \/ /\ v.t = "str" /\ Len(v.s) \in Nat /\ Len(v.s) > 0
               /\ val_serialize(v) = <<Num(1), Num(Len(v.s)), v>>
         /\ Sequence(val_serialize(v)) /\ val_serialize(v) \in Seq(Storable)
<1>0. \A i \in Int : Num(i) \in Storable
  BY DEF Num, Storable
<1>1. CASE v \in [t : {"num"}, n : Int, s : {<<>>}]
  <2>1. v.t = "num"
    BY <1>1
  <2>2. val_serialize(v) = <<Num(2)>> \o <<v>>
    BY <2>1 DEF val_serialize, Code
  <2>3. <<Num(2)>> \o <<v>> = <<Num(2), v>>
    BY Joined2, Zenon
  <2>4. <<Num(2), v>> \in Seq(Storable)
    BY <1>0
  <2>5. QED BY <2>1, <2>2, <2>3, <2>4, SequenceOf
<1>2. CASE v \in {Str(cs) : cs \in Seq(Int)}
  <2>1. v.t = "str" /\ v.s \in Seq(Int) /\ v = Str(v.s)
    BY <1>2 DEF Str
  <2>2. val_serialize(v) = <<Num(1)>> \o (<<Num(Len(v.s))>> \o IF v.s = <<>> THEN <<>> ELSE <<v>>)
    BY <2>1 DEF val_serialize, Code
  <2>3. CASE v.s = <<>>
    <3>1. Len(v.s) = 0 /\ v = Str(<<>>)
      BY <2>1, <2>3
    <3>2. val_serialize(v) = <<Num(1)>> \o (<<Num(0)>> \o <<>>)
      BY <2>2, <2>3, <3>1
    <3>3. <<Num(1)>> \o (<<Num(0)>> \o <<>>) = <<Num(1), Num(0)>>
      <4>1. \A e : <<e>> \o <<>> = <<e>>
        OBVIOUS
      <4>2. QED BY <4>1, Joined2, Zenon
    <3>4. <<Num(1), Num(0)>> \in Seq(Storable)
      BY <1>0
    <3>5. QED BY <2>1, <3>1, <3>2, <3>3, <3>4, SequenceOf
  <2>4. CASE v.s # <<>>
    <3>1. Len(v.s) \in Nat /\ Len(v.s) > 0
      BY <2>1, <2>4
    <3> DEFINE l == Num(Len(v.s))
    <3>2. val_serialize(v) = <<Num(1)>> \o (<<l>> \o <<v>>)
      BY <2>2, <2>4
    <3> HIDE DEF l
    <3>3. <<Num(1)>> \o (<<l>> \o <<v>>) = <<Num(1), l, v>>
      BY Joined2, Joined3, Zenon
    <3>4. <<Num(1), l, v>> \in Seq(Storable)
      BY <1>0, <3>1 DEF l
    <3>5. QED BY <2>1, <3>1, <3>2, <3>3, <3>4, SequenceOf DEF l
  <2>5. QED BY <2>3, <2>4
<1>3. QED BY <1>1, <1>2 DEF Storable

\* A reader comes past a value, or fails at the end of the file.
LEMMA ValueRead ==
  ASSUME NEW r, NEW u, NEW pos \in Nat, Sequence(u), ReaderAt(r, u, pos),
         NEW v \in Storable, Holds(u, pos, val_serialize(v))
  PROVE  /\ ReaderAt(val_deserialize(r), u, pos + Len(val_serialize(v)))
         /\ pos + Len(val_serialize(v)) <= Len(u) => val_deserialize(r).v = v
<1> DEFINE type == ReadUnit(r)
           next == ReadUnit(type)
           last == ReadUnit(next)
           s == val_serialize(v)
           d == val_deserialize(r)
<1>1. Len(u) \in Nat
  BY SequenceIs
<1>2. ReaderAt(type, u, pos + 1) /\ (pos + 1 <= Len(u) => type.v = u[pos + 1])
  BY UnitRead
<1>3. ReaderAt(next, u, pos + 2) /\ (pos + 2 <= Len(u) => next.v = u[pos + 2])
  <2>1. pos + 1 \in Nat /\ (pos + 1) + 1 = pos + 2
    OBVIOUS
  <2> HIDE DEF type
  <2>2. QED BY <1>2, <2>1, UnitRead
<1>4. ReaderAt(last, u, pos + 3) /\ (pos + 3 <= Len(u) => last.v = u[pos + 3])
  <2>1. pos + 2 \in Nat /\ (pos + 2) + 1 = pos + 3
    OBVIOUS
  <2> HIDE DEF next
  <2>2. QED BY <1>3, <2>1, UnitRead
<1>5. d = IF ~type.ok THEN type
          ELSE CASE type.v.n = 0 -> [type EXCEPT !.v = Undef]
                 [] type.v.n = 2 -> next
                 [] type.v.n = 1 -> IF next.ok /\ next.v.n > 0 THEN last ELSE [next EXCEPT !.v = Str(<<>>)]
                 [] OTHER -> Fail(r)
  BY Zenon DEF val_deserialize
<1>6. /\ type.ok <=> pos + 1 <= Len(u)
      /\ next.ok <=> pos + 2 <= Len(u)
      /\ last.ok <=> pos + 3 <= Len(u)
  BY <1>2, <1>3, <1>4 DEF ReaderAt
<1>7. \A i : Num(i).n = i
  BY DEF Num
<1>8. \A j \in 1..Len(s) : pos + j <= Len(u) => u[pos + j] = s[j]
  BY DEF Holds
<1>9. ASSUME NEW e, NEW p \in Nat, ReaderAt(e, u, p), ~e.ok, NEW q \in Nat, q >= p
      PROVE  ReaderAt(e, u, q) /\ ~(q <= Len(u))
  BY <1>1, <1>9 DEF ReaderAt
<1>10. /\ next = [units |-> next.units, v |-> next.v, ok |-> next.ok]
       /\ next.ok \in BOOLEAN
       /\ next.ok => next.units = SubSeq(u, (pos + 2) + 1, Len(u))
  BY <1>3 DEF ReaderAt
<1> HIDE DEF type, next, last, d, s
<1>11. CASE ~type.ok
  <2>1. d = type
    BY <1>5, <1>11
  <2>2. Len(s) \in Nat /\ Len(s) >= 1 /\ pos + Len(s) \in Nat
    BY SerializedIs DEF s
  <2>3. QED BY <1>2, <1>9, <1>11, <2>1, <2>2 DEF s, d
<1>12. CASE type.ok /\ v.t = "num"
  <2>1. s = <<Num(2), v>>
    BY <1>12, SerializedIs DEF s
  <2>2. Len(s) = 2 /\ s[1] = Num(2) /\ s[2] = v
    BY <2>1
  <2>3. type.v.n = 2
    BY <1>2, <1>6, <1>7, <1>8, <1>12, <2>2
  <2>4. d = next
    BY <1>5, <1>12, <2>3
  <2>5. pos + 2 <= Len(u) => next.v = v
    BY <1>3, <1>8, <2>2
  <2>6. QED BY <1>3, <2>2, <2>4, <2>5 DEF s, d
<1>13. CASE type.ok /\ v = Str(<<>>)
  <2>1. s = <<Num(1), Num(0)>>
    <3>1. v.t = "str" /\ Len(v.s) = 0
      BY <1>13 DEF Str
    <3>2. QED BY <3>1, SerializedIs DEF s
  <2>2. Len(s) = 2 /\ s[1] = Num(1) /\ s[2] = Num(0)
    BY <2>1
  <2>3. type.v.n = 1
    BY <1>2, <1>6, <1>7, <1>8, <1>13, <2>2
  <2>4. ~(next.ok /\ next.v.n > 0)
    BY <1>3, <1>6, <1>7, <1>8, <2>2
  <2>5. d = [next EXCEPT !.v = Str(<<>>)]
    BY <1>5, <1>13, <2>3, <2>4
  <2>6. d = [units |-> next.units, v |-> Str(<<>>), ok |-> next.ok]
    BY <1>10, <2>5
  <2>7. ReaderAt(d, u, pos + 2)
    BY <1>6, <1>10, <2>6 DEF ReaderAt
  <2>8. d.v = v
    BY <1>13, <2>6
  <2>9. QED BY <2>2, <2>7, <2>8 DEF s, d
<1>14. CASE type.ok /\ v.t = "str" /\ v # Str(<<>>)
  <2>1. s = <<Num(1), Num(Len(v.s)), v>> /\ Len(v.s) \in Nat /\ Len(v.s) > 0
    BY <1>14, SerializedIs DEF s
  <2>2. Len(s) = 3 /\ s[1] = Num(1) /\ s[2] = Num(Len(v.s)) /\ s[3] = v
    BY <2>1
  <2>3. type.v.n = 1
    BY <1>2, <1>6, <1>7, <1>8, <1>14, <2>2
  <2>4. CASE next.ok
    <3>1. next.v.n > 0
      BY <1>3, <1>6, <1>7, <1>8, <2>1, <2>2, <2>4
    <3>2. d = last
      BY <1>5, <1>14, <2>3, <2>4, <3>1
    <3>3. pos + 3 <= Len(u) => last.v = v
      BY <1>4, <1>8, <2>2
    <3>4. QED BY <1>4, <2>2, <3>2, <3>3 DEF s, d
  <2>5. CASE ~next.ok
    <3>0. d = [next EXCEPT !.v = Str(<<>>)]
      BY <1>5, <1>14, <2>3, <2>5
    <3>1. d = [units |-> next.units, v |-> Str(<<>>), ok |-> FALSE]
      BY <1>10, <2>5, <3>0
    <3>2. ~(pos + 3 <= Len(u))
      BY <1>1, <1>6, <2>5
    <3>3. ReaderAt(d, u, pos + 3)
      BY <3>1, <3>2 DEF ReaderAt
    <3>4. QED BY <2>2, <3>2, <3>3 DEF s, d
  <2>6. QED BY <2>4, <2>5
<1>15. v.t = "num" \/ v = Str(<<>>) \/ (v.t = "str" /\ v # Str(<<>>))
  BY SerializedIs
<1>16. QED BY <1>11, <1>12, <1>13, <1>14, <1>15

---------------------------------------------------------------------------
(* Sequences of values. *)

\* FlattenSeq adds one sequence after the other.
LEMMA FlattenIs ==
  ASSUME NEW S, NEW ss \in Seq(Seq(S))
  PROVE  \E F \in [0..Len(ss) -> Seq(S)] :
           /\ F[0] = <<>>
           /\ \A i \in 1..Len(ss) : F[i] = F[i - 1] \o ss[i]
           /\ FlattenSeq(ss) = F[Len(ss)]
<1> DEFINE n == Len(ss)
           T == Seq(S)
           step == [x \in (1..n) \X T |-> x[2] \o ss[x[1]]]
           Flattens(f) == f = [i \in 1..n |-> IF i = 1 THEN ss[i] ELSE f[i - 1] \o ss[i]]
<1>1. n \in Nat /\ <<>> \in T /\ \A i \in 1..n : ss[i] \in T
  OBVIOUS
<1>2. \A i \in 1..n, m \in T : m \o ss[i] \in T
  OBVIOUS
<1>3. step \in [(1..n) \X T -> T]
  <2> HIDE DEF T, n
  <2>1. QED BY <1>2
<1>4. \A i \in 1..n, m \in T : step[<<i, m>>] = m \o ss[i]
  OBVIOUS
<1>5. \A m \in T : <<>> \o m = m
  OBVIOUS
<1>6. n = 0 => FlattenSeq(ss) = <<>>
  BY DEF FlattenSeq
<1>7. n # 0 => FlattenSeq(ss) = (CHOOSE g : Flattens(g))[n]
  BY DEF FlattenSeq
<1> HIDE DEF n, step, T
<1>8. PICK f : Recursive(f, T, <<>>, n, step)
  BY <1>1, <1>3, Recursion
<1>9. f \in [0..n -> T] /\ f[0] = <<>> /\ \A i \in 1..n : f[i] = f[i - 1] \o ss[i]
  <2>1. \A i \in 1..n : i - 1 \in 0..n
    BY <1>1
  <2>2. QED BY <1>4, <1>8, <2>1 DEF Recursive
<1>10. CASE n = 0
  BY <1>6, <1>9, <1>10 DEF n, T
<1>11. CASE n # 0
  <2> DEFINE h == [i \in 1..n |-> f[i]]
  <2>1. Flattens(h)
    <3>1. f[1] = ss[1]
      <4>1. 1 \in 1..n /\ 1 - 1 = 0
        BY <1>1, <1>11
      <4>2. QED BY <1>1, <1>5, <1>9, <4>1
    <3>2. \A i \in 1..n : i # 1 => i - 1 \in 1..n
      BY <1>1
    <3>3. \A i \in 1..n : h[i] = IF i = 1 THEN ss[i] ELSE h[i - 1] \o ss[i]
      BY <1>9, <3>1, <3>2
    <3>4. h = [i \in 1..n |-> h[i]]
      OBVIOUS
    <3> HIDE DEF h
    <3>5. QED BY <3>3, <3>4
  <2> DEFINE flatten == CHOOSE g : Flattens(g)
  <2>2. Flattens(flatten)
    BY <2>1
  <2> HIDE DEF flatten
  <2>3. \A i \in 1..n : flatten[i] = IF i = 1 THEN ss[i] ELSE flatten[i - 1] \o ss[i]
    BY <1>1, <2>2
  <2> HIDE DEF Flattens
  <2> DEFINE F == [i \in 0..n |-> IF i = 0 THEN <<>> ELSE flatten[i]]
  <2>4. F[0] = <<>> /\ \A i \in 1..n : F[i] = flatten[i]
    BY <1>1
  <2>5. \A i \in 1..n : F[i] = F[i - 1] \o ss[i]
    <3>1. ASSUME NEW i \in 1..n, i = 1 PROVE F[i] = F[i - 1] \o ss[i]
      <4>1. i - 1 = 0 /\ F[i] = ss[i]
        BY <2>3, <2>4, <3>1
      <4> HIDE DEF F
      <4>2. QED BY <1>1, <1>5, <2>4, <4>1
    <3>2. ASSUME NEW i \in 1..n, i # 1 PROVE F[i] = F[i - 1] \o ss[i]
      <4>1. i - 1 \in 1..n /\ F[i - 1] = flatten[i - 1]
        BY <1>1, <2>4, <3>2
      <4> HIDE DEF F
      <4>2. QED BY <2>3, <2>4, <3>2, <4>1
    <3> HIDE DEF F
    <3>3. QED BY <3>1, <3>2
  <2>6. FlattenSeq(ss) = F[n]
    <3>1. n \in 1..n
      BY <1>1, <1>11
    <3> HIDE DEF F
    <3>2. QED BY <1>7, <1>11, <2>4, <3>1 DEF flatten
  <2>7. F = [i \in 0..n |-> F[i]]
    OBVIOUS
  <2> HIDE DEF F
  <2>8. \A i \in 0..n : F[i] \in T
    <3>1. F[0] \in T /\ \A i \in 1..n : F[i - 1] \in T => F[i] \in T
      BY <1>1, <1>2, <2>4, <2>5
    <3>2. QED BY <1>1, <3>1, RecursionStays
  <2>9. F \in [0..n -> T]
    BY <2>7, <2>8
  <2>10. QED BY <2>4, <2>5, <2>6, <2>9 DEF n, T
<1>12. QED BY <1>10, <1>11

\* Where each of them begins in a file.
LEMMA FlattenHolds ==
  ASSUME NEW S, NEW ss \in Seq(Seq(S)), NEW u, Sequence(u), NEW pos \in Nat,
         Holds(u, pos, FlattenSeq(ss))
  PROVE  /\ FlattenSeq(ss) \in Seq(S)
         /\ \E Q \in [0..Len(ss) -> Nat] :
              /\ Q[0] = pos
              /\ Q[Len(ss)] = pos + Len(FlattenSeq(ss))
              /\ \A i \in 1..Len(ss) :
                   Q[i] = Q[i - 1] + Len(ss[i]) /\ Holds(u, Q[i - 1], ss[i])
<1> DEFINE n == Len(ss)
<1>1. n \in Nat /\ \A i \in 1..n : ss[i] \in Seq(S)
  OBVIOUS
<1>2. PICK F \in [0..n -> Seq(S)] : /\ F[0] = <<>>
                                    /\ \A i \in 1..n : F[i] = F[i - 1] \o ss[i]
                                    /\ FlattenSeq(ss) = F[n]
  BY FlattenIs
<1> HIDE DEF n
<1>3. \A i \in 1..n : i - 1 \in 0..n /\ i \in 0..n
  BY <1>1
<1>4. \A i \in 0..n : Len(F[i]) \in Nat /\ F[i] \in Seq(S) /\ Sequence(F[i])
  BY <1>2, SequenceOf
<1>5. \A i \in 1..n : Len(F[i]) = Len(F[i - 1]) + Len(ss[i]) /\ Sequence(ss[i])
  <2> SUFFICES ASSUME NEW i \in 1..n PROVE Len(F[i]) = Len(F[i - 1]) + Len(ss[i]) /\ Sequence(ss[i])
    OBVIOUS
  <2>1. Sequence(ss[i]) /\ Sequence(F[i - 1]) /\ F[i] = F[i - 1] \o ss[i]
    BY <1>1, <1>2, <1>3, <1>4, SequenceOf
  <2>2. QED BY <2>1, SequenceConcat
<1>6. \A i \in 1..n : Holds(u, pos, F[i]) => Holds(u, pos, F[i - 1]) /\ Holds(u, pos + Len(F[i - 1]), ss[i])
  <2> SUFFICES ASSUME NEW i \in 1..n, Holds(u, pos, F[i])
               PROVE  Holds(u, pos, F[i - 1]) /\ Holds(u, pos + Len(F[i - 1]), ss[i])
    OBVIOUS
  <2>1. Sequence(ss[i]) /\ Sequence(F[i - 1]) /\ F[i] = F[i - 1] \o ss[i]
    BY <1>2, <1>3, <1>4, <1>5
  <2>2. QED BY <2>1, HoldsBoth
<1>7. \A i \in 0..n : Holds(u, pos, F[i])
  <2> DEFINE P == {k \in Nat : k <= n => Holds(u, pos, F[n - k])}
  <2>1. 0 \in P
    BY <1>1, <1>2
  <2>2. ASSUME NEW k \in P PROVE k + 1 \in P
    <3>1. SUFFICES ASSUME k + 1 <= n PROVE Holds(u, pos, F[n - (k + 1)])
      OBVIOUS
    <3>2. n - k \in 1..n /\ (n - k) - 1 = n - (k + 1) /\ k <= n
      BY <1>1, <3>1
    <3>3. QED BY <1>6, <3>2
  <2>3. P \in SUBSET Nat
    OBVIOUS
  <2>4. \A k \in P : k <= n => Holds(u, pos, F[n - k])
    OBVIOUS
  <2> HIDE DEF P
  <2>5. P = Nat
    BY <2>1, <2>2, <2>3, Induction
  <2>6. ASSUME NEW i \in 0..n PROVE Holds(u, pos, F[i])
    <3>1. n - i \in Nat /\ n - i <= n /\ n - (n - i) = i
      BY <1>1
    <3>2. QED BY <2>4, <2>5, <3>1
  <2>7. QED BY <2>6
<1> DEFINE Q == [i \in 0..n |-> pos + Len(F[i])]
<1>8. \A i \in 0..n : Q[i] = pos + Len(F[i])
  OBVIOUS
<1>9. Q \in [0..n -> Nat]
  BY <1>4
<1> HIDE DEF Q
<1>10. Q[0] = pos /\ Q[n] = pos + Len(FlattenSeq(ss))
  <2>1. 0 \in 0..n /\ n \in 0..n /\ Len(F[0]) = 0
    BY <1>1, <1>2
  <2>2. Q[0] = pos + 0 /\ Q[n] = pos + Len(F[n])
    BY <1>8, <2>1, Zenon
  <2>3. pos + 0 = pos
    OBVIOUS
  <2>4. QED BY <1>2, <2>2, <2>3, Zenon
<1>11. \A i \in 1..n : Q[i] = Q[i - 1] + Len(ss[i]) /\ Holds(u, Q[i - 1], ss[i])
  <2> SUFFICES ASSUME NEW i \in 1..n
               PROVE  Q[i] = Q[i - 1] + Len(ss[i]) /\ Holds(u, Q[i - 1], ss[i])
    OBVIOUS
  <2>1. Holds(u, pos + Len(F[i - 1]), ss[i])
    BY <1>3, <1>6, <1>7
  <2>2. Q[i] = pos + Len(F[i]) /\ Q[i - 1] = pos + Len(F[i - 1])
    BY <1>3, <1>8
  <2>3. Len(ss[i]) \in Nat /\ Len(F[i - 1]) \in Nat
    BY <1>1, <1>3, <1>4
  <2>4. Len(F[i]) = Len(F[i - 1]) + Len(ss[i])
    BY <1>5
  <2> DEFINE a == Len(F[i - 1])
             b == Len(ss[i])
  <2>5. a \in Nat /\ b \in Nat /\ Q[i] = pos + (a + b) /\ Q[i - 1] = pos + a
    BY <2>2, <2>3, <2>4, Zenon
  <2> HIDE DEF a, b
  <2>6. Q[i] = Q[i - 1] + b
    BY <2>5
  <2>7. QED BY <2>1, <2>2, <2>6, Zenon DEF b
<1>12. FlattenSeq(ss) \in Seq(S)
  BY <1>1, <1>2
<1>13. QED BY <1>9, <1>10, <1>11, <1>12 DEF n

\* What a reader of units out of U may hold, whatever it reads.
Readers(U) == [units : Seq(U), v : U \cup {Undef, Str(<<>>)}, ok : BOOLEAN]

LEMMA ReadersClosed ==
  ASSUME NEW U, NEW r \in Readers(U)
  PROVE  ReadUnit(r) \in Readers(U) /\ val_deserialize(r) \in Readers(U)
<1>1. ASSUME NEW e \in Readers(U) PROVE Fail(e) \in Readers(U)
  BY DEF Fail, Readers
<1>2. ASSUME NEW e \in Readers(U) PROVE ReadUnit(e) \in Readers(U)
  <2>1. CASE ~e.ok \/ e.units = <<>>
    BY <1>1, <2>1 DEF ReadUnit
  <2>2. CASE e.ok /\ e.units # <<>>
    <3>1. e.units \in Seq(U)
      BY DEF Readers
    <3>2. Tail(e.units) \in Seq(U) /\ Head(e.units) \in U
      BY <2>2, <3>1
    <3>3. ReadUnit(e) = [e EXCEPT !.units = Tail(@), !.v = Head(e.units)]
      BY <2>2 DEF ReadUnit
    <3>4. QED BY <3>2, <3>3 DEF Readers
  <2>3. QED BY <2>1, <2>2 DEF Readers
<1> DEFINE type == ReadUnit(r)
           next == ReadUnit(type)
           last == ReadUnit(next)
<1>3. type \in Readers(U) /\ next \in Readers(U) /\ last \in Readers(U)
  BY <1>2
<1>4. [type EXCEPT !.v = Undef] \in Readers(U) /\ [next EXCEPT !.v = Str(<<>>)] \in Readers(U)
  <2> HIDE DEF type, next
  <2>1. QED BY <1>3 DEF Readers
<1>5. Fail(r) \in Readers(U)
  BY <1>1
<1>6. val_deserialize(r) \in {type, [type EXCEPT !.v = Undef], next, last, [next EXCEPT !.v = Str(<<>>)], Fail(r)}
  <2>1. \/ ~type.ok /\ val_deserialize(r) = type
        \/ type.ok /\ val_deserialize(r) =
              CASE type.v.n = 0 -> [type EXCEPT !.v = Undef]
                [] type.v.n = 2 -> next
                [] type.v.n = 1 -> IF next.ok /\ next.v.n > 0 THEN last ELSE [next EXCEPT !.v = Str(<<>>)]
                [] OTHER -> Fail(r)
    BY Zenon DEF val_deserialize
  <2> HIDE DEF type, next, last
  <2>2. QED BY <2>1
<1> HIDE DEF type, next, last
<1>7. QED BY <1>2, <1>3, <1>4, <1>5, <1>6

\* Where n values begin in a file, and where the last of them ends.
Begin(Q, n, u, vs) ==
  /\ Q \in [0..n -> Nat]
  /\ \A i \in 1..n : Q[i] = Q[i - 1] + Len(val_serialize(vs[i])) /\ Holds(u, Q[i - 1], val_serialize(vs[i]))

\* What the reader and the values read so far are after each of them.
Reading(read, size, vs) ==
  /\ read[0] = [r |-> size, vals |-> <<>>]
  /\ \A i \in 1..Len(vs) :
       read[i] = [r |-> val_deserialize(read[i - 1].r),
                  vals |-> Append(read[i - 1].vals, val_deserialize(read[i - 1].r).v)]

LEMMA ItemsRead ==
  ASSUME NEW u, Sequence(u), NEW vs \in Seq(Storable), NEW Q, Begin(Q, Len(vs), u, vs),
         NEW size, ReaderAt(size, u, Q[0]), NEW read, Reading(read, size, vs)
  PROVE  /\ ReaderAt(read[Len(vs)].r, u, Q[Len(vs)])
         /\ Q[Len(vs)] <= Len(u) => read[Len(vs)].vals = vs
<1> DEFINE n == Len(vs)
           Far(i) == /\ ReaderAt(read[i].r, u, Q[i])
                     /\ Q[i] <= Len(u) => read[i].vals = SubSeq(vs, 1, i)
           P == {i \in Nat : i <= n => Far(i)}
<1>1. n \in Nat /\ Len(u) \in Nat /\ SubSeq(vs, 1, n) = vs /\ SubSeq(vs, 1, 0) = <<>>
  BY SequenceIs
<1>2. Far(0)
  BY <1>1 DEF Reading
<1>3. ASSUME NEW m \in P PROVE m + 1 \in P
  <2>1. SUFFICES ASSUME m + 1 <= n PROVE Far(m + 1)
    OBVIOUS
  <2>2. m \in 0..n /\ m + 1 \in 1..n /\ (m + 1) - 1 = m /\ Far(m)
    BY <1>1, <1>3, <2>1
  <2>3. Q[m] \in Nat /\ Q[m + 1] = Q[m] + Len(val_serialize(vs[m + 1])) /\ Holds(u, Q[m], val_serialize(vs[m + 1]))
    BY <2>2 DEF Begin
  <2>4. vs[m + 1] \in Storable
    BY <2>2
  <2> DEFINE d == val_deserialize(read[m].r)
  <2>5. ReaderAt(d, u, Q[m + 1]) /\ (Q[m + 1] <= Len(u) => d.v = vs[m + 1])
    BY <2>2, <2>3, <2>4, ValueRead
  <2>6. read[m + 1].r = d /\ read[m + 1].vals = Append(read[m].vals, d.v)
    <3>1. read[m + 1] = [r |-> val_deserialize(read[(m + 1) - 1].r),
                         vals |-> Append(read[(m + 1) - 1].vals, val_deserialize(read[(m + 1) - 1].r).v)]
      BY <2>2, Zenon DEF Reading
    <3>2. read[m + 1] = [r |-> d, vals |-> Append(read[m].vals, d.v)]
      BY <2>2, <3>1, Zenon
    <3> HIDE DEF d
    <3>3. QED BY <3>2
  <2>7. ASSUME Q[m + 1] <= Len(u) PROVE read[m + 1].vals = SubSeq(vs, 1, m + 1)
    <3>1. Len(val_serialize(vs[m + 1])) \in Nat
      BY <2>4, SerializedIs, SequenceIs
    <3>2. Q[m] <= Len(u)
      BY <1>1, <2>3, <2>7, <3>1
    <3>3. read[m].vals = SubSeq(vs, 1, m) /\ d.v = vs[m + 1]
      BY <2>2, <2>5, <2>7, <3>2
    <3>4. Append(SubSeq(vs, 1, m), vs[m + 1]) = SubSeq(vs, 1, m + 1)
      BY <1>1, <2>2
    <3> HIDE DEF d
    <3>5. QED BY <2>6, <3>3, <3>4
  <2>8. QED BY <2>5, <2>6, <2>7
<1>4. P \in SUBSET Nat /\ 0 \in P /\ \A i \in P : i <= n => Far(i)
  BY <1>2
<1> HIDE DEF P
<1>5. P = Nat
  BY <1>3, <1>4, Induction
<1>6. Far(n)
  BY <1>1, <1>4, <1>5
<1>7. QED BY <1>1, <1>6

\* A reader in front of a container of n times perItem values vs.
InFrontOf(r, u, pos, type, perItem, n, vs, Q) ==
  /\ Sequence(u) /\ pos \in Nat /\ ReaderAt(r, u, pos)
  /\ perItem \in Nat /\ n \in Nat /\ Holds(u, pos, <<Num(type), Num(n)>>)
  /\ vs \in Seq(Storable) /\ Len(vs) = perItem * n
  /\ Begin(Q, Len(vs), u, vs) /\ Q[0] = pos + 2 /\ Q[Len(vs)] >= pos + 2

\* Reading a container: its type, its size and its values.
LEMMA ContainerRead ==
  ASSUME NEW r, NEW u, NEW pos, NEW type, NEW perItem, NEW n, NEW vs, NEW Q,
         InFrontOf(r, u, pos, type, perItem, n, vs, Q)
  PROVE  /\ ReaderAt(items_deserialize(r, type, perItem).r, u, Q[Len(vs)])
         /\ Q[Len(vs)] <= Len(u) => items_deserialize(r, type, perItem).vals = vs
<1>0. /\ Sequence(u) /\ pos \in Nat /\ ReaderAt(r, u, pos)
      /\ perItem \in Nat /\ n \in Nat /\ Holds(u, pos, <<Num(type), Num(n)>>)
      /\ vs \in Seq(Storable) /\ Len(vs) = perItem * n
      /\ Begin(Q, Len(vs), u, vs) /\ Q[0] = pos + 2 /\ Q[Len(vs)] >= pos + 2
  BY DEF InFrontOf
<1> USE <1>0
<1> DEFINE tag == ReadUnit(r)
           size == ReadUnit(tag)
           Reads(f) == f = [i \in 0..(perItem * size.v.n) |->
                              IF i = 0 THEN [r |-> size, vals |-> <<>>]
                              ELSE LET done == f[i - 1]
                                       next == val_deserialize(done.r)
                                   IN [r |-> next, vals |-> Append(done.vals, next.v)]]
           read == CHOOSE f : Reads(f)
           res == items_deserialize(r, type, perItem)
<1>1. Len(u) \in Nat /\ u \in Seq(ToSet(u)) /\ Q[Len(vs)] \in Nat /\ Len(vs) \in Nat
  <2>1. Len(vs) \in 0..Len(vs)
    OBVIOUS
  <2>2. QED BY <2>1, SequenceIs DEF Begin
<1>2. ReaderAt(tag, u, pos + 1) /\ (pos + 1 <= Len(u) => tag.v = u[pos + 1])
  BY UnitRead
<1>3. ReaderAt(size, u, pos + 2) /\ (pos + 2 <= Len(u) => size.v = u[pos + 2])
  <2>1. pos + 1 \in Nat /\ (pos + 1) + 1 = pos + 2
    OBVIOUS
  <2> HIDE DEF tag
  <2>2. QED BY <1>2, <2>1, UnitRead
<1>4. res = IF ~size.ok \/ tag.v.n # type THEN [r |-> Fail(size), vals |-> <<>>] ELSE read[perItem * size.v.n]
  BY Zenon DEF items_deserialize
<1> HIDE DEF tag, size, read, res
<1>5. /\ size.ok \in BOOLEAN
      /\ size.ok <=> pos + 2 <= Len(u)
      /\ size = [units |-> size.units, v |-> size.v, ok |-> size.ok]
      /\ size.ok => size.units = SubSeq(u, (pos + 2) + 1, Len(u))
  BY <1>3 DEF ReaderAt
<1>6. CASE ~size.ok
  <2>1. res.r = [units |-> size.units, v |-> size.v, ok |-> FALSE]
    <3>1. res = [r |-> Fail(size), vals |-> <<>>]
      BY <1>4, <1>6
    <3>2. Fail(size) = [units |-> size.units, v |-> size.v, ok |-> FALSE]
      <4>1. size = [units |-> size.units, v |-> size.v, ok |-> size.ok]
        BY <1>5
      <4>2. QED BY <1>5, <4>1, FailIs
    <3>3. QED BY <3>1, <3>2
  <2>2. ~(Q[Len(vs)] <= Len(u))
    BY <1>1, <1>5, <1>6
  <2>3. ReaderAt(res.r, u, Q[Len(vs)])
    BY <2>1, <2>2 DEF ReaderAt
  <2>4. QED BY <2>2, <2>3 DEF res
<1>7. CASE size.ok
  <2>1. tag.v = Num(type) /\ size.v = Num(n)
    <3>1. pos + 2 <= Len(u) /\ pos + 1 <= Len(u)
      BY <1>1, <1>5, <1>7
    <3>2. Len(<<Num(type), Num(n)>>) = 2 /\ <<Num(type), Num(n)>>[1] = Num(type) /\ <<Num(type), Num(n)>>[2] = Num(n)
      OBVIOUS
    <3>3. u[pos + 1] = Num(type) /\ u[pos + 2] = Num(n)
      BY <3>1, <3>2 DEF Holds
    <3>4. QED BY <1>2, <1>3, <3>1, <3>3
  <2>2. tag.v.n = type /\ perItem * size.v.n = Len(vs)
    BY <2>1 DEF Num
  <2> DEFINE U == ToSet(u)
             S == [r : Readers(U), vals : Seq(U \cup {Undef, Str(<<>>)})]
             base == [r |-> size, vals |-> <<>>]
             Item(acc) == [r |-> val_deserialize(acc.r), vals |-> Append(acc.vals, val_deserialize(acc.r).v)]
             step == [x \in (1..Len(vs)) \X S |-> Item(x[2])]
  <2>3. base \in S
    <3>1. SubSeq(u, (pos + 2) + 1, Len(u)) \in Seq(U)
      <4> DEFINE first == (pos + 2) + 1
      <4>1. first \in Nat /\ first >= 1 /\ u \in Seq(U) /\ Len(u) \in Nat
        BY <1>1
      <4> HIDE DEF first, U
      <4>2. SubSeq(u, first, Len(u)) \in Seq(U)
        BY <4>1
      <4>3. QED BY <4>2 DEF first
    <3>2. u[pos + 2] \in U
      <4>1. pos + 2 \in 1..Len(u)
        BY <1>1, <1>5, <1>7
      <4>2. QED BY <4>1, SequenceIs
    <3>3. size.v \in U
      BY <1>3, <1>5, <1>7, <3>2
    <3> HIDE DEF U
    <3>4. size \in Readers(U)
      BY <1>5, <1>7, <3>1, <3>3 DEF Readers
    <3>5. QED BY <3>4
  <2>4. \A acc \in S : Item(acc) \in S
    <3> HIDE DEF U
    <3> SUFFICES ASSUME NEW acc \in S PROVE Item(acc) \in S
      OBVIOUS
    <3> DEFINE d == val_deserialize(acc.r)
    <3>1. d \in Readers(U)
      BY ReadersClosed
    <3> HIDE DEF d
    <3>2. d.v \in U \cup {Undef, Str(<<>>)}
      BY <3>1 DEF Readers
    <3>3. Append(acc.vals, d.v) \in Seq(U \cup {Undef, Str(<<>>)})
      BY <3>2
    <3>4. QED BY <3>1, <3>3 DEF d
  <2>5. step \in [(1..Len(vs)) \X S -> S] /\ \A i \in 1..Len(vs), acc \in S : step[<<i, acc>>] = Item(acc)
    <3> HIDE DEF S, Item
    <3>1. QED BY <2>4
  <2> HIDE DEF S, step, base, U
  <2>6. PICK f : Recursive(f, S, base, Len(vs), step)
    BY <1>1, <2>3, <2>5, Recursion
  <2>7. f \in [0..Len(vs) -> S] /\ f[0] = base /\ \A i \in 1..Len(vs) : f[i] = Item(f[i - 1])
    <3>1. \A i \in 1..Len(vs) : i - 1 \in 0..Len(vs)
      BY <1>1
    <3> HIDE DEF Item
    <3>2. QED BY <2>5, <2>6, <3>1 DEF Recursive
  <2>8. \A g : Reads(g) <=> g = [i \in 0..Len(vs) |-> IF i = 0 THEN base ELSE Item(g[i - 1])]
    BY <2>2 DEF base
  <2> HIDE DEF Reads
  <2>9. Reads(f)
    <3>1. \A i \in 0..Len(vs) : f[i] = IF i = 0 THEN base ELSE Item(f[i - 1])
      <4> HIDE DEF Item
      <4>1. \A i \in 0..Len(vs) : i # 0 => i \in 1..Len(vs)
        OBVIOUS
      <4>2. QED BY <2>7, <4>1
    <3> HIDE DEF Item
    <3>2. f = [i \in 0..Len(vs) |-> IF i = 0 THEN base ELSE Item(f[i - 1])]
      BY <2>7, <3>1
    <3>3. QED BY <2>8, <3>2
  <2>10. Reads(read)
    BY <2>9 DEF read
  <2>11. read[0] = base /\ \A i \in 1..Len(vs) : read[i] = Item(read[i - 1])
    <3> HIDE DEF Item
    <3>1. read = [i \in 0..Len(vs) |-> IF i = 0 THEN base ELSE Item(read[i - 1])]
      BY <2>8, <2>10, Zenon
    <3>2. \A i \in 0..Len(vs) : read[i] = IF i = 0 THEN base ELSE Item(read[i - 1])
      BY <3>1, Zenon
    <3>3. 0 \in 0..Len(vs) /\ \A i \in 1..Len(vs) : i \in 0..Len(vs) /\ i # 0
      BY <1>1
    <3>4. QED BY <3>2, <3>3, Zenon
  <2>12. res = read[Len(vs)]
    BY <1>4, <1>7, <2>2
  <2>13. ReaderAt(size, u, Q[0])
    BY <1>3
  <2>14. read[0] = [r |-> size, vals |-> <<>>]
    BY <2>11 DEF base
  <2>15. Reading(read, size, vs)
    BY <2>11, <2>14, Zenon DEF Reading
  <2>16. /\ ReaderAt(read[Len(vs)].r, u, Q[Len(vs)])
         /\ Q[Len(vs)] <= Len(u) => read[Len(vs)].vals = vs
    <3> HIDE DEF Item
    <3>1. QED BY <2>13, <2>15, ItemsRead
  <2>17. QED BY <2>12, <2>16 DEF res
<1>8. QED BY <1>5, <1>6, <1>7

---------------------------------------------------------------------------
(* The containers of a program. *)

LEMMA HeadIs ==
  ASSUME NEW type \in Nat, NEW n \in Nat
  PROVE  <<Num(type), Num(n)>> \in Seq(Storable) /\ Len(<<Num(type), Num(n)>>) = 2
<1>1. Num(type) \in Storable /\ Num(n) \in Storable
  BY DEF Num, Storable
<1>2. QED BY <1>1

\* Where each of the sequences ss starts in file u, from pos on.
Parts(Q, u, pos, ss) ==
  /\ Q \in [0..Len(ss) -> Nat]
  /\ Q[0] = pos
  /\ Q[Len(ss)] = pos + Len(FlattenSeq(ss))
  /\ \A i \in 1..Len(ss) : Q[i] = Q[i - 1] + Len(ss[i]) /\ Holds(u, Q[i - 1], ss[i])

LEMMA PartsHold ==
  ASSUME NEW ss, ss \in Seq(Seq(Storable)), NEW u, Sequence(u), NEW pos, pos \in Nat,
         Holds(u, pos, FlattenSeq(ss))
  PROVE  \E Q : Parts(Q, u, pos, ss)
<1>1. PICK Q \in [0..Len(ss) -> Nat] :
        /\ Q[0] = pos
        /\ Q[Len(ss)] = pos + Len(FlattenSeq(ss))
        /\ \A i \in 1..Len(ss) : Q[i] = Q[i - 1] + Len(ss[i]) /\ Holds(u, Q[i - 1], ss[i])
  BY FlattenHolds
<1>2. Parts(Q, u, pos, ss)
  BY <1>1 DEF Parts
<1>3. QED BY <1>2

\* What is written of a sequence of sequences is one.
LEMMA FlatIs ==
  ASSUME NEW ss \in Seq(Seq(Storable))
  PROVE  FlattenSeq(ss) \in Seq(Storable)
<1>1. PICK F \in [0..Len(ss) -> Seq(Storable)] : FlattenSeq(ss) = F[Len(ss)]
  BY FlattenIs
<1>2. Len(ss) \in 0..Len(ss)
  OBVIOUS
<1>3. QED BY <1>1, <1>2

\* Constants and instructions.
LEMMA ArrayRead ==
  ASSUME NEW items \in Seq(Storable), NEW u, Sequence(u), NEW pos \in Nat,
         NEW r, ReaderAt(r, u, pos), Holds(u, pos, arr_serialize(4, items))
  PROVE  /\ ReaderAt(items_deserialize(r, 4, 1).r, u, pos + Len(arr_serialize(4, items)))
         /\ pos + Len(arr_serialize(4, items)) <= Len(u) => items_deserialize(r, 4, 1).vals = items
<1> DEFINE n == Len(items)
           ss == [i \in DOMAIN items |-> val_serialize(items[i])]
           flat == FlattenSeq(ss)
           head == <<Num(4), Num(n)>>
<1>1. n \in Nat /\ DOMAIN items = 1..n /\ \A i \in 1..n : items[i] \in Storable
  OBVIOUS
<1>2. ss \in Seq(Seq(Storable)) /\ Len(ss) = n /\ \A i \in 1..n : ss[i] = val_serialize(items[i])
  <2>1. \A i \in 1..n : val_serialize(items[i]) \in Seq(Storable)
    BY <1>1, SerializedIs
  <2>2. QED BY <1>1, <2>1
<1>3. arr_serialize(4, items) = head \o flat
  BY DEF arr_serialize
<1>4. head \in Seq(Storable) /\ Len(head) = 2 /\ Sequence(head)
  BY <1>1, HeadIs, SequenceOf
<1> HIDE DEF n, ss, head
<1>5. flat \in Seq(Storable) /\ Sequence(flat) /\ Len(flat) \in Nat
  <2>1. flat \in Seq(Storable)
    BY <1>2, FlatIs
  <2> HIDE DEF flat
  <2>2. QED BY <2>1, SequenceOf, SequenceIs
<1> HIDE DEF flat
<1>6. Holds(u, pos, head) /\ Holds(u, pos + 2, flat) /\ Len(head \o flat) = 2 + Len(flat)
  <2>1. Len(head \o flat) = Len(head) + Len(flat)
    BY <1>4, <1>5, SequenceConcat
  <2>2. Holds(u, pos, head) /\ Holds(u, pos + Len(head), flat)
    BY <1>3, <1>4, <1>5, HoldsBoth
  <2>3. QED BY <1>4, <2>1, <2>2
<1>7. PICK Q \in [0..n -> Nat] :
        /\ Q[0] = pos + 2
        /\ Q[n] = (pos + 2) + Len(flat)
        /\ \A i \in 1..n : Q[i] = Q[i - 1] + Len(ss[i]) /\ Holds(u, Q[i - 1], ss[i])
  <2> DEFINE start == pos + 2
  <2>1. start \in Nat /\ Holds(u, start, FlattenSeq(ss))
    BY <1>6 DEF flat
  <2>2. ss \in Seq(Seq(Storable)) /\ Len(ss) = n
    BY <1>2
  <2> HIDE DEF start
  <2>3. PICK Q : Parts(Q, u, start, ss)
    BY <2>1, <2>2, PartsHold
  <2>4. QED BY <2>2, <2>3 DEF Parts, flat, start
<1>8. Begin(Q, Len(items), u, items)
  BY <1>2, <1>7 DEF Begin, n
<1>9. 1 * n = n /\ 1 \in Nat
  BY <1>1
<1>10. Q[n] >= pos + 2 /\ Q[n] = pos + (2 + Len(flat))
  BY <1>5, <1>7
<1>11. /\ ReaderAt(items_deserialize(r, 4, 1).r, u, Q[n])
       /\ Q[n] <= Len(u) => items_deserialize(r, 4, 1).vals = items
  <2>1. InFrontOf(r, u, pos, 4, 1, n, items, Q)
    BY <1>1, <1>6, <1>7, <1>8, <1>9, <1>10 DEF head, n, InFrontOf
  <2>2. QED BY <2>1, ContainerRead DEF n
<1>12. QED BY <1>3, <1>6, <1>10, <1>11

\* The functions: keys and values in turn, each pair once.
LEMMA KeysIs ==
  ASSUME NEW S, IsFiniteSet(S)
  PROVE  /\ Len(SetToSeq(S)) \in Nat
         /\ SetToSeq(S) \in [1..Len(SetToSeq(S)) -> S]
         /\ \A x \in S : \E i \in 1..Len(SetToSeq(S)) : SetToSeq(S)[i] = x
         /\ \A i, j \in 1..Len(SetToSeq(S)) : SetToSeq(S)[i] = SetToSeq(S)[j] => i = j
<1> DEFINE n == Cardinality(S)
           keys == SetToSeq(S)
<1>1. n \in Nat /\ ExistsBijection(1..n, S)
  BY FS_CardinalityType
<1>2. PICK b \in Bijection(1..n, S) : TRUE
  BY <1>1 DEF ExistsBijection
<1>3. b \in [1..n -> S] /\ IsInjective(b)
  BY <1>2 DEF Bijection, Injection
<1>4. keys \in [1..n -> S] /\ IsInjective(keys)
  BY <1>3 DEF SetToSeq
<1> HIDE DEF keys, n
<1>5. keys \in Injection(1..n, S)
  BY <1>4 DEF Injection
<1>6. Cardinality(1..n) = n
  <2>1. 1 \in Int /\ n \in Int
    BY <1>1
  <2>2. Cardinality(1..n) = IF 1 > n THEN 0 ELSE n - 1 + 1
    BY <2>1, FS_Interval
  <2>3. QED BY <1>1, <2>2
<1>7. keys \in Surjection(1..n, S)
  BY <1>5, <1>6, FS_Injection DEF n
<1>8. Len(keys) = n
  BY <1>1, <1>4
<1>9. \A x \in S : \E i \in 1..n : keys[i] = x
  BY <1>7 DEF Surjection
<1>10. \A i, j \in 1..n : keys[i] = keys[j] => i = j
  BY <1>4 DEF IsInjective
<1>11. QED BY <1>1, <1>4, <1>8, <1>9, <1>10 DEF keys

LEMMA Alternate ==
  ASSUME NEW i \in Nat, i >= 1
  PROVE  /\ (2 * i - 1) % 2 = 1 /\ (2 * i - 1) \div 2 = i - 1
         /\ (2 * i) % 2 = 0 /\ (2 * i) \div 2 = i
OBVIOUS

LEMMA OddOrEven ==
  ASSUME NEW n \in Nat, NEW j \in 1..(2 * n)
  PROVE  \E i \in 1..n : j = 2 * i - 1 \/ j = 2 * i
<1>1. (j + 1) \div 2 \in 1..n
  OBVIOUS
<1>2. j = 2 * ((j + 1) \div 2) - 1 \/ j = 2 * ((j + 1) \div 2)
  OBVIOUS
<1>3. QED BY <1>1, <1>2

\* What map_serialize writes of a function, value by value.
Listed(f) ==
  [j \in 1..(2 * Len(SetToSeq(DOMAIN f))) |->
     IF j % 2 = 1 THEN Str(SetToSeq(DOMAIN f)[(j \div 2) + 1]) ELSE Num(f[SetToSeq(DOMAIN f)[j \div 2]])]

\* The addresses of functions by their names.
Addresses(f) ==
  /\ f = [name \in DOMAIN f |-> f[name]]
  /\ IsFiniteSet(DOMAIN f)
  /\ DOMAIN f \subseteq Seq(Int)
  /\ \A name \in DOMAIN f : f[name] \in Int

LEMMA ListedIs ==
  ASSUME NEW f, Addresses(f)
  PROVE  LET keys == SetToSeq(DOMAIN f)
         IN /\ Len(keys) \in Nat
            /\ Listed(f) \in Seq(Storable)
            /\ Len(Listed(f)) = 2 * Len(keys)
            /\ \A i \in 1..Len(keys) :
                 /\ keys[i] \in DOMAIN f
                 /\ Str(keys[i]) \in Storable /\ Num(f[keys[i]]) \in Storable
                 /\ Listed(f)[2 * i - 1] = Str(keys[i])
                 /\ Listed(f)[2 * i] = Num(f[keys[i]])
            /\ \A name \in DOMAIN f : \E i \in 1..Len(keys) : keys[i] = name
            /\ \A i, j \in 1..Len(keys) : keys[i] = keys[j] => i = j
<1> DEFINE keys == SetToSeq(DOMAIN f)
           n == Len(keys)
           vs == Listed(f)
<1>1. /\ n \in Nat /\ keys \in [1..n -> DOMAIN f]
      /\ \A name \in DOMAIN f : \E i \in 1..n : keys[i] = name
      /\ \A i, j \in 1..n : keys[i] = keys[j] => i = j
  BY KeysIs DEF Addresses
<1>2. vs = [j \in 1..(2 * n) |-> IF j % 2 = 1 THEN Str(keys[(j \div 2) + 1]) ELSE Num(f[keys[j \div 2]])]
  BY DEF Listed
<1> HIDE DEF keys, n, vs
<1>3. ASSUME NEW i \in 1..n
      PROVE  /\ keys[i] \in DOMAIN f
             /\ Str(keys[i]) \in Storable /\ Num(f[keys[i]]) \in Storable
             /\ vs[2 * i - 1] = Str(keys[i])
             /\ vs[2 * i] = Num(f[keys[i]])
  <2>1. keys[i] \in DOMAIN f
    BY <1>1
  <2>2. keys[i] \in Seq(Int) /\ f[keys[i]] \in Int
    BY <2>1 DEF Addresses
  <2>3. Str(keys[i]) \in Storable /\ Num(f[keys[i]]) \in Storable
    BY <2>2 DEF Storable, Num
  <2>4. /\ 2 * i - 1 \in 1..(2 * n) /\ (2 * i - 1) % 2 = 1 /\ ((2 * i - 1) \div 2) + 1 = i
        /\ 2 * i \in 1..(2 * n) /\ (2 * i) % 2 # 1 /\ (2 * i) \div 2 = i
    <3>1. i \in Nat /\ i >= 1 /\ i <= n /\ n \in Nat
      BY <1>1
    <3>2. (2 * i - 1) % 2 = 1 /\ (2 * i - 1) \div 2 = i - 1 /\ (2 * i) % 2 = 0 /\ (2 * i) \div 2 = i
      BY <3>1, Alternate
    <3>3. 2 * i - 1 \in 1..(2 * n) /\ 2 * i \in 1..(2 * n)
      BY <3>1
    <3>4. QED BY <3>1, <3>2, <3>3
  <2>5. vs[2 * i - 1] = Str(keys[i])
    BY <1>2, <2>4
  <2>6. vs[2 * i] = Num(f[keys[i]])
    BY <1>2, <2>4
  <2>7. QED BY <2>1, <2>3, <2>5, <2>6
<1>4. vs \in Seq(Storable) /\ Len(vs) = 2 * n
  <2>1. ASSUME NEW j \in 1..(2 * n) PROVE vs[j] \in Storable
    <3>1. PICK i \in 1..n : j = 2 * i - 1 \/ j = 2 * i
      BY <1>1, OddOrEven
    <3>2. QED BY <1>3, <3>1
  <2>2. vs = [j \in 1..(2 * n) |-> vs[j]] /\ 2 * n \in Nat
    BY <1>1, <1>2
  <2>3. QED BY <2>1, <2>2
<1>5. QED BY <1>1, <1>3, <1>4 DEF keys, n, vs

LEMMA MapRead ==
  ASSUME NEW f, Addresses(f), NEW u, Sequence(u), NEW pos \in Nat,
         NEW r, ReaderAt(r, u, pos), Holds(u, pos, map_serialize(f))
  PROVE  /\ ReaderAt(items_deserialize(r, 5, 2).r, u, pos + Len(map_serialize(f)))
         /\ pos + Len(map_serialize(f)) <= Len(u) => items_deserialize(r, 5, 2).vals = Listed(f)
<1> DEFINE keys == SetToSeq(DOMAIN f)
           n == Len(keys)
           vs == Listed(f)
           a(i) == val_serialize(Str(keys[i]))
           b(i) == val_serialize(Num(f[keys[i]]))
           ss == [i \in DOMAIN keys |-> a(i) \o b(i)]
           flat == FlattenSeq(ss)
           head == <<Num(5), Num(n)>>
<1>1. /\ n \in Nat /\ vs \in Seq(Storable) /\ Len(vs) = 2 * n
      /\ \A i \in 1..n : /\ Str(keys[i]) \in Storable /\ Num(f[keys[i]]) \in Storable
                        /\ vs[2 * i - 1] = Str(keys[i]) /\ vs[2 * i] = Num(f[keys[i]])
  BY ListedIs
<1>2. DOMAIN keys = 1..n
  <2>1. keys \in [1..n -> DOMAIN f]
    BY KeysIs DEF Addresses
  <2>2. QED BY <2>1
<1>3. map_serialize(f) = head \o flat
  BY DEF map_serialize
<1> HIDE DEF keys, vs
<1>4. ASSUME NEW i \in 1..n
      PROVE  /\ a(i) \in Seq(Storable) /\ b(i) \in Seq(Storable)
             /\ Sequence(a(i)) /\ Sequence(b(i)) /\ Len(a(i)) \in Nat /\ Len(b(i)) \in Nat
             /\ a(i) \o b(i) \in Seq(Storable) /\ Len(a(i) \o b(i)) = Len(a(i)) + Len(b(i))
  <2>1. a(i) \in Seq(Storable) /\ b(i) \in Seq(Storable) /\ Sequence(a(i)) /\ Sequence(b(i))
    BY <1>1, SerializedIs
  <2> HIDE DEF a, b
  <2>2. Len(a(i)) \in Nat /\ Len(b(i)) \in Nat /\ Len(a(i) \o b(i)) = Len(a(i)) + Len(b(i))
    BY <2>1, SequenceIs, SequenceConcat
  <2>3. a(i) \o b(i) \in Seq(Storable)
    BY <2>1
  <2>4. QED BY <2>1, <2>2, <2>3
<1> HIDE DEF n, a, b
<1>5. ss \in Seq(Seq(Storable)) /\ Len(ss) = n /\ \A i \in 1..n : ss[i] = a(i) \o b(i)
  BY <1>1, <1>2, <1>4
<1>6. head \in Seq(Storable) /\ Len(head) = 2 /\ Sequence(head)
  BY <1>1, HeadIs, SequenceOf
<1> HIDE DEF ss, head
<1>7. flat \in Seq(Storable) /\ Sequence(flat) /\ Len(flat) \in Nat
  <2>1. flat \in Seq(Storable)
    BY <1>5, FlatIs
  <2> HIDE DEF flat
  <2>2. QED BY <2>1, SequenceOf, SequenceIs
<1> HIDE DEF flat
<1>8. Holds(u, pos, head) /\ Holds(u, pos + 2, flat) /\ Len(head \o flat) = 2 + Len(flat)
  <2>1. Len(head \o flat) = Len(head) + Len(flat)
    BY <1>6, <1>7, SequenceConcat
  <2>2. Holds(u, pos, head) /\ Holds(u, pos + Len(head), flat)
    BY <1>3, <1>6, <1>7, HoldsBoth
  <2>3. QED BY <1>6, <2>1, <2>2
<1>9. PICK P \in [0..n -> Nat] :
        /\ P[0] = pos + 2
        /\ P[n] = (pos + 2) + Len(flat)
        /\ \A i \in 1..n : P[i] = P[i - 1] + Len(ss[i]) /\ Holds(u, P[i - 1], ss[i])
  <2> DEFINE start == pos + 2
  <2>1. start \in Nat /\ Holds(u, start, FlattenSeq(ss))
    BY <1>8 DEF flat
  <2>2. ss \in Seq(Seq(Storable)) /\ Len(ss) = n
    BY <1>5
  <2> HIDE DEF start
  <2>3. PICK Q : Parts(Q, u, start, ss)
    BY <2>1, <2>2, PartsHold
  <2>4. QED BY <2>2, <2>3 DEF Parts, flat, start
<1> DEFINE Q == [j \in 0..(2 * n) |-> IF j % 2 = 0 THEN P[j \div 2] ELSE P[j \div 2] + Len(a((j \div 2) + 1))]
<1>10. ASSUME NEW i \in 1..n
       PROVE  /\ Q[2 * i - 1] = P[i - 1] + Len(a(i)) /\ Q[2 * i] = P[i]
              /\ Q[2 * i - 2] = P[i - 1]
              /\ P[i - 1] \in Nat /\ P[i] \in Nat
  <2>1. /\ 2 * i - 1 \in 0..(2 * n) /\ (2 * i - 1) % 2 # 0 /\ (2 * i - 1) \div 2 = i - 1
        /\ 2 * i \in 0..(2 * n) /\ (2 * i) % 2 = 0 /\ (2 * i) \div 2 = i
        /\ 2 * i - 2 \in 0..(2 * n) /\ (2 * i - 2) % 2 = 0 /\ (2 * i - 2) \div 2 = i - 1
        /\ (i - 1) + 1 = i /\ i - 1 \in 0..n /\ i \in 0..n
    <3>1. i \in Nat /\ i >= 1 /\ i <= n /\ n \in Nat
      BY <1>1
    <3>2. (2 * i - 1) % 2 # 0 /\ (2 * i - 1) \div 2 = i - 1 /\ (2 * i) % 2 = 0 /\ (2 * i) \div 2 = i
      BY <3>1, Alternate
    <3>3. (2 * i - 2) % 2 = 0 /\ (2 * i - 2) \div 2 = i - 1
      BY <3>1
    <3>4. 2 * i - 1 \in 0..(2 * n) /\ 2 * i \in 0..(2 * n) /\ 2 * i - 2 \in 0..(2 * n)
      BY <3>1
    <3>5. (i - 1) + 1 = i /\ i - 1 \in 0..n /\ i \in 0..n
      BY <3>1
    <3>6. QED BY <3>2, <3>3, <3>4, <3>5
  <2>2. Q[2 * i - 1] = P[i - 1] + Len(a(i))
    BY <2>1
  <2>3. Q[2 * i] = P[i] /\ Q[2 * i - 2] = P[i - 1]
    BY <2>1
  <2>4. QED BY <1>9, <2>1, <2>2, <2>3
<1>11. Q \in [0..(2 * n) -> Nat]
  <2>1. ASSUME NEW j \in 0..(2 * n) PROVE Q[j] \in Nat
    <3>1. CASE j = 0
      <4>1. 0 % 2 = 0 /\ 0 \div 2 = 0 /\ 0 \in 0..n
        BY <1>1
      <4>2. Q[j] = P[0]
        BY <3>1, <4>1
      <4>3. QED BY <1>9, <4>1, <4>2
    <3>2. CASE j # 0
      <4>1. PICK i \in 1..n : j = 2 * i - 1 \/ j = 2 * i
        <5>1. j \in 1..(2 * n)
          BY <1>1, <3>2
        <5>2. QED BY <1>1, <5>1, OddOrEven
      <4> HIDE DEF Q
      <4>2. P[i - 1] \in Nat /\ Len(a(i)) \in Nat /\ P[i] \in Nat
        BY <1>4, <1>10
      <4>3. P[i - 1] + Len(a(i)) \in Nat
        BY <4>2
      <4>4. QED BY <1>10, <4>1, <4>2, <4>3
    <3>3. QED BY <3>1, <3>2
  <2>2. Q = [j \in 0..(2 * n) |-> Q[j]]
    OBVIOUS
  <2> HIDE DEF Q
  <2>3. QED BY <2>1, <2>2
<1>12. Q[0] = pos + 2 /\ Q[2 * n] = pos + (2 + Len(flat)) /\ Q[2 * n] >= pos + 2
  <2>1. /\ 0 \in 0..(2 * n) /\ 0 % 2 = 0 /\ 0 \div 2 = 0
        /\ 2 * n \in 0..(2 * n) /\ (2 * n) % 2 = 0 /\ (2 * n) \div 2 = n
    BY <1>1, Halves
  <2>2. Q[0] = P[0] /\ Q[2 * n] = P[n]
    BY <2>1
  <2> HIDE DEF Q
  <2>3. QED BY <1>7, <1>9, <2>2
<1> HIDE DEF Q
<1>13. \A j \in 1..(2 * n) : /\ Q[j] = Q[j - 1] + Len(val_serialize(vs[j]))
                             /\ Holds(u, Q[j - 1], val_serialize(vs[j]))
  <2> SUFFICES ASSUME NEW j \in 1..(2 * n)
               PROVE  /\ Q[j] = Q[j - 1] + Len(val_serialize(vs[j]))
                      /\ Holds(u, Q[j - 1], val_serialize(vs[j]))
    OBVIOUS
  <2>1. PICK i \in 1..n : j = 2 * i - 1 \/ j = 2 * i
    BY <1>1, OddOrEven
  <2>2. Holds(u, P[i - 1], a(i)) /\ Holds(u, P[i - 1] + Len(a(i)), b(i))
    <3>1. Holds(u, P[i - 1], a(i) \o b(i)) /\ P[i - 1] \in Nat
      BY <1>5, <1>9, <1>10
    <3>2. QED BY <1>4, <3>1, HoldsBoth
  <2>3. P[i] = P[i - 1] + (Len(a(i)) + Len(b(i)))
    BY <1>4, <1>5, <1>9
  <2>4. CASE j = 2 * i - 1
    <3>1. val_serialize(vs[j]) = a(i)
      BY <1>1, <2>4 DEF a
    <3>2. Q[j] = P[i - 1] + Len(a(i)) /\ Q[j - 1] = P[i - 1]
      <4>1. j - 1 = 2 * i - 2
        BY <2>4
      <4>2. QED BY <1>10, <2>4, <4>1
    <3>3. QED BY <2>2, <3>1, <3>2
  <2>5. CASE j = 2 * i
    <3>1. val_serialize(vs[j]) = b(i)
      BY <1>1, <2>5 DEF b
    <3>2. Q[j] = P[i] /\ Q[j - 1] = P[i - 1] + Len(a(i))
      <4>1. j - 1 = 2 * i - 1
        BY <2>5
      <4>2. QED BY <1>10, <2>5, <4>1
    <3>3. P[i - 1] \in Nat /\ Len(a(i)) \in Nat /\ Len(b(i)) \in Nat
      BY <1>4, <1>10
    <3>4. Q[j] = Q[j - 1] + Len(b(i))
      BY <2>3, <3>2, <3>3
    <3>5. QED BY <2>2, <3>1, <3>2, <3>4
  <2>6. QED BY <2>1, <2>4, <2>5
<1>14. Begin(Q, Len(vs), u, vs)
  BY <1>1, <1>11, <1>13 DEF Begin
<1>15. Holds(u, pos, <<Num(5), Num(n)>>) /\ 2 \in Nat
  BY <1>8 DEF head
<1>16. /\ ReaderAt(items_deserialize(r, 5, 2).r, u, Q[Len(vs)])
       /\ Q[Len(vs)] <= Len(u) => items_deserialize(r, 5, 2).vals = vs
  <2>1. Q[0] = pos + 2 /\ Q[Len(vs)] >= pos + 2
    BY <1>1, <1>12
  <2>2. Len(vs) = 2 * n /\ n \in Nat /\ vs \in Seq(Storable)
    BY <1>1
  <2>3. InFrontOf(r, u, pos, 5, 2, n, vs, Q)
    BY <1>14, <1>15, <2>1, <2>2 DEF InFrontOf
  <2>4. QED BY <2>3, ContainerRead
<1>17. pos + Len(map_serialize(f)) = Q[Len(vs)]
  BY <1>1, <1>3, <1>8, <1>12
<1>18. QED BY <1>16, <1>17 DEF vs

---------------------------------------------------------------------------
(* Programs. *)

\* Instructions there are: numbers that are pushed do not look like operations.
Instructions == [op : {"PUSH"}, n : Int \ OpWords] \cup [op : ToSet(OpNames), n : {0}]

Writable(p) ==
  /\ p.ops \in Seq(Instructions)
  /\ p.constants \in Seq(Storable)
  /\ Addresses(p.functions)

\* Nothing a program has as a constant is undefined, so nothing is cut off.
LEMMA NothingTrimmed == ASSUME NEW cs \in Seq(Storable) PROVE Trim(cs) = cs
<1> DEFINE used == {i \in DOMAIN cs : cs[i] # Undef}
<1>1. Len(cs) \in Nat /\ DOMAIN cs = 1..Len(cs)
  OBVIOUS
<1>2. used = 1..Len(cs)
  <2>1. \A v \in Storable : v.t # "undef"
    BY DEF Storable, Str
  <2>2. Undef.t = "undef"
    BY DEF Undef
  <2>3. \A i \in 1..Len(cs) : cs[i] \in Storable
    OBVIOUS
  <2>4. QED BY <1>1, <2>1, <2>2, <2>3
<1>3. Trim(cs) = IF used = {} THEN <<>> ELSE SubSeq(cs, 1, Max(used))
  BY DEF Trim
<1> HIDE DEF used
<1>4. CASE Len(cs) = 0
  <2>1. used = {} /\ cs = <<>>
    BY <1>2, <1>4
  <2>2. QED BY <1>3, <2>1
<1>5. CASE Len(cs) >= 1
  <2>1. used \in SUBSET (0..Len(cs)) /\ Len(cs) \in used
    BY <1>1, <1>2, <1>5
  <2>2. Max(used) \in used /\ \A i \in used : i <= Max(used)
    BY <1>1, <2>1, MaxIs
  <2>3. Max(used) = Len(cs)
    BY <1>1, <1>2, <2>1, <2>2
  <2>4. SubSeq(cs, 1, Len(cs)) = cs
    BY <1>1, <1>5
  <2>5. used # {}
    BY <2>1
  <2>6. QED BY <1>3, <2>3, <2>4, <2>5
<1>6. QED BY <1>1, <1>4, <1>5

LEMMA Names == DOMAIN OpNames = 1..53 /\ "PUSH" \notin ToSet(OpNames)
<1>1. DOMAIN OpNames = 1..53
  BY DEF OpNames
<1>2. ASSUME NEW i \in 1..53 PROVE OpNames[i] # "PUSH"
  BY DEF OpNames
<1>3. QED BY <1>1, <1>2 DEF ToSet

\* MKOP and OP: a word stands for one instruction.
LEMMA WordBack ==
  ASSUME NEW ins \in Instructions
  PROVE  Word(ins) \in Int /\ Instruction(Word(ins)) = ins
<1>1. MinInt \in Int
  BY Ints
<1>2. CASE ins \in [op : {"PUSH"}, n : Int \ OpWords]
  <2>1. Word(ins) = ins.n /\ ins.n \in Int /\ ins.n \notin OpWords
    BY <1>2 DEF Word
  <2>2. Instruction(ins.n) = [op |-> "PUSH", n |-> ins.n]
    BY <2>1 DEF Instruction
  <2>3. QED BY <1>2, <2>1, <2>2
<1>3. CASE ins \in [op : ToSet(OpNames), n : {0}]
  <2> DEFINE i == CHOOSE k \in DOMAIN OpNames : OpNames[k] = ins.op
  <2>1. ins.op \in ToSet(OpNames) /\ ins.n = 0
    BY <1>3
  <2>2. \E k \in DOMAIN OpNames : OpNames[k] = ins.op
    BY <2>1 DEF ToSet
  <2>3. i \in DOMAIN OpNames /\ OpNames[i] = ins.op
    BY <2>2
  <2>4. Word(ins) = MinInt + i
    BY <2>1, Names DEF Word
  <2> HIDE DEF i
  <2>5. i \in 1..53
    BY <2>3, Names
  <2>6. MinInt + i \in OpWords /\ (MinInt + i) - MinInt = i /\ MinInt + i \in Int
    BY <1>1, <2>5 DEF OpWords
  <2>7. Instruction(MinInt + i) = [op |-> OpNames[i], n |-> 0]
    BY <2>6 DEF Instruction
  <2>8. QED BY <1>3, <2>1, <2>3, <2>4, <2>6, <2>7
<1>4. QED BY <1>2, <1>3 DEF Instructions

\* The functions as prog_read has them, from the values of a map.
Paired(vals) ==
  LET names == {i \in DOMAIN vals : i % 2 = 1}
  IN [f \in {vals[i].s : i \in names} |-> vals[(CHOOSE i \in names : vals[i].s = f) + 1].n]

LEMMA FunctionsBack ==
  ASSUME NEW f, Addresses(f)
  PROVE  Paired(Listed(f)) = f
<1> DEFINE keys == SetToSeq(DOMAIN f)
           n == Len(keys)
           vals == Listed(f)
           names == {j \in DOMAIN vals : j % 2 = 1}
<1>1. /\ n \in Nat
      /\ vals \in Seq(Storable) /\ Len(vals) = 2 * n
      /\ \A i \in 1..n :
           /\ keys[i] \in DOMAIN f
           /\ vals[2 * i - 1] = Str(keys[i])
           /\ vals[2 * i] = Num(f[keys[i]])
      /\ \A name \in DOMAIN f : \E i \in 1..n : keys[i] = name
      /\ \A i, j \in 1..n : keys[i] = keys[j] => i = j
  BY ListedIs
<1>2. Paired(vals) = [g \in {vals[i].s : i \in names} |-> vals[(CHOOSE i \in names : vals[i].s = g) + 1].n]
  BY Zenon DEF Paired
<1> HIDE DEF keys, n, vals
<1>3. ASSUME NEW i \in 1..n
      PROVE  2 * i - 1 \in names /\ vals[2 * i - 1].s = keys[i] /\ vals[2 * i].n = f[keys[i]]
  <2>1. 2 * i - 1 \in 1..(2 * n) /\ (2 * i - 1) % 2 = 1
    <3>1. i \in Nat /\ i >= 1 /\ i <= n /\ n \in Nat
      BY <1>1
    <3>2. (2 * i - 1) % 2 = 1
      BY <3>1, Alternate
    <3>3. QED BY <3>1, <3>2
  <2>2. DOMAIN vals = 1..(2 * n)
    BY <1>1
  <2>3. 2 * i - 1 \in names
    BY <2>1, <2>2
  <2> HIDE DEF names
  <2>4. vals[2 * i - 1] = Str(keys[i]) /\ vals[2 * i] = Num(f[keys[i]])
    BY <1>1
  <2>5. QED BY <2>3, <2>4 DEF Str, Num
<1>4. ASSUME NEW j \in names PROVE \E i \in 1..n : j = 2 * i - 1
  <2>1. j \in 1..(2 * n) /\ j % 2 = 1
    BY <1>1
  <2>2. PICK i \in 1..n : j = 2 * i - 1 \/ j = 2 * i
    BY <1>1, <2>1, OddOrEven
  <2>3. i \in Nat /\ i >= 1
    BY <1>1
  <2>4. j # 2 * i
    BY <2>1, <2>3, Alternate
  <2>5. QED BY <2>2, <2>4
<1> HIDE DEF names
<1>5. {vals[i].s : i \in names} = DOMAIN f
  <2>1. ASSUME NEW j \in names PROVE vals[j].s \in DOMAIN f
    <3>1. PICK i \in 1..n : j = 2 * i - 1
      BY <1>4
    <3>2. vals[j].s = keys[i] /\ keys[i] \in DOMAIN f
      BY <1>1, <1>3, <3>1
    <3>3. QED BY <3>2
  <2>2. ASSUME NEW name \in DOMAIN f PROVE \E j \in names : vals[j].s = name
    <3>1. PICK i \in 1..n : keys[i] = name
      BY <1>1
    <3>2. QED BY <1>3, <3>1
  <2>3. QED BY <2>1, <2>2
<1>6. ASSUME NEW name \in DOMAIN f
      PROVE  vals[(CHOOSE i \in names : vals[i].s = name) + 1].n = f[name]
  <2> DEFINE j == CHOOSE i \in names : vals[i].s = name
  <2>1. \E i \in names : vals[i].s = name
    BY <1>5
  <2>2. j \in names /\ vals[j].s = name
    BY <2>1
  <2> HIDE DEF j
  <2>3. PICK i \in 1..n : j = 2 * i - 1
    BY <1>4, <2>2
  <2>4. keys[i] = name
    BY <1>3, <2>2, <2>3
  <2>5. j + 1 = 2 * i
    BY <1>1, <2>3
  <2>6. QED BY <1>3, <2>4, <2>5 DEF j
<1>7. Paired(vals) = [name \in DOMAIN f |-> f[name]]
  BY <1>2, <1>5, <1>6
<1>8. QED BY <1>7 DEF Addresses, vals

LEMMA ArraySequence ==
  ASSUME NEW items \in Seq(Storable)
  PROVE  Sequence(arr_serialize(4, items))
<1> DEFINE ss == [i \in DOMAIN items |-> val_serialize(items[i])]
           head == <<Num(4), Num(Len(items))>>
<1>1. Len(items) \in Nat /\ DOMAIN items = 1..Len(items) /\ \A i \in 1..Len(items) : items[i] \in Storable
  OBVIOUS
<1>2. \A i \in 1..Len(items) : val_serialize(items[i]) \in Seq(Storable)
  BY <1>1, SerializedIs
<1>3. ss \in Seq(Seq(Storable))
  BY <1>1, <1>2
<1>4. head \in Seq(Storable)
  BY <1>1, HeadIs
<1>5. arr_serialize(4, items) = head \o FlattenSeq(ss)
  BY DEF arr_serialize
<1> HIDE DEF ss, head
<1>6. Sequence(head) /\ Sequence(FlattenSeq(ss))
  BY <1>3, <1>4, FlatIs, SequenceOf
<1>7. QED BY <1>5, <1>6, SequenceConcat

LEMMA MapSequence ==
  ASSUME NEW f, Addresses(f)
  PROVE  Sequence(map_serialize(f))
<1> DEFINE keys == SetToSeq(DOMAIN f)
           n == Len(keys)
           ss == [i \in DOMAIN keys |-> val_serialize(Str(keys[i])) \o val_serialize(Num(f[keys[i]]))]
           head == <<Num(5), Num(n)>>
<1>1. /\ n \in Nat
      /\ \A i \in 1..n : Str(keys[i]) \in Storable /\ Num(f[keys[i]]) \in Storable
  BY ListedIs
<1>2. DOMAIN keys = 1..n
  <2>1. keys \in [1..n -> DOMAIN f]
    BY KeysIs DEF Addresses
  <2>2. QED BY <2>1
<1>3. map_serialize(f) = head \o FlattenSeq(ss)
  BY DEF map_serialize
<1> HIDE DEF keys, n
<1>4. ASSUME NEW i \in 1..n
      PROVE  val_serialize(Str(keys[i])) \o val_serialize(Num(f[keys[i]])) \in Seq(Storable)
  <2>1. val_serialize(Str(keys[i])) \in Seq(Storable) /\ val_serialize(Num(f[keys[i]])) \in Seq(Storable)
    BY <1>1, SerializedIs
  <2>2. QED BY <2>1
<1>5. ss \in Seq(Seq(Storable)) /\ head \in Seq(Storable)
  BY <1>1, <1>2, <1>4, HeadIs
<1> HIDE DEF ss, head
<1>6. Sequence(head) /\ Sequence(FlattenSeq(ss))
  BY <1>5, FlatIs, SequenceOf
<1>7. QED BY <1>3, <1>6, SequenceConcat

\* What prog_read makes of a file that holds a program as far as it goes.
LEMMA ProgramRead ==
  ASSUME NEW p, Writable(p), NEW u, Sequence(u), Holds(u, 0, prog_serialize(p))
  PROVE  /\ Len(prog_serialize(p)) \in Nat
         /\ ~(Len(prog_serialize(p)) <= Len(u)) => prog_read(u) = Refused
         /\ Len(prog_serialize(p)) <= Len(u) =>
              prog_read(u) = [status |-> "loaded", constants |-> p.constants,
                              functions |-> p.functions, ops |-> p.ops]
<1> DEFINE ops == [i \in DOMAIN p.ops |-> Num(Word(p.ops[i]))]
           c == arr_serialize(4, p.constants)
           m == map_serialize(p.functions)
           w == arr_serialize(4, ops)
           cs == items_deserialize(Reader(u), 4, 1)
           fs == items_deserialize(cs.r, 5, 2)
           ws == items_deserialize(fs.r, 4, 1)
<1>1. /\ p.ops \in Seq(Instructions) /\ p.constants \in Seq(Storable) /\ Addresses(p.functions)
      /\ Len(p.ops) \in Nat /\ DOMAIN p.ops = 1..Len(p.ops) /\ Len(u) \in Nat
  BY SequenceIs DEF Writable
<1>2. /\ ops \in Seq(Storable) /\ DOMAIN ops = 1..Len(p.ops)
      /\ \A i \in 1..Len(p.ops) : ops[i] = Num(Word(p.ops[i]))
  <2>1. ASSUME NEW i \in 1..Len(p.ops) PROVE Num(Word(p.ops[i])) \in Storable
    <3>1. Word(p.ops[i]) \in Int
      BY <1>1, WordBack
    <3>2. QED BY <3>1 DEF Num, Storable
  <2>2. QED BY <1>1, <2>1
<1> HIDE DEF ops
<1>3. Sequence(c) /\ Sequence(m) /\ Sequence(w)
  BY <1>1, <1>2, ArraySequence, MapSequence
<1>4. prog_serialize(p) = (c \o m) \o w
  BY DEF prog_serialize, ops
<1> HIDE DEF c, m, w
<1>5. /\ Len(c) \in Nat /\ Len(m) \in Nat /\ Len(w) \in Nat
      /\ Sequence(c \o m) /\ Len(c \o m) = Len(c) + Len(m)
      /\ Len(prog_serialize(p)) = (Len(c) + Len(m)) + Len(w)
  BY <1>3, <1>4, SequenceIs, SequenceConcat
<1>6. Holds(u, 0, c) /\ Holds(u, Len(c), m) /\ Holds(u, Len(c) + Len(m), w)
  <2>1. Holds(u, 0, c \o m) /\ Holds(u, 0 + Len(c \o m), w)
    BY <1>3, <1>4, <1>5, HoldsBoth
  <2>2. Holds(u, 0, c) /\ Holds(u, 0 + Len(c), m)
    BY <1>3, <2>1, HoldsBoth
  <2>3. 0 + Len(c) = Len(c) /\ 0 + Len(c \o m) = Len(c) + Len(m)
    BY <1>5
  <2>4. QED BY <2>1, <2>2, <2>3
<1>7. ReaderAt(Reader(u), u, 0)
  <2>1. SubSeq(u, 0 + 1, Len(u)) = u
    BY DEF Sequence
  <2>2. QED BY <1>1, <2>1 DEF Reader, ReaderAt
<1>8. ReaderAt(cs.r, u, Len(c)) /\ (Len(c) <= Len(u) => cs.vals = p.constants)
  <2>1. ReaderAt(cs.r, u, 0 + Len(c)) /\ (0 + Len(c) <= Len(u) => cs.vals = p.constants)
    BY <1>1, <1>6, <1>7, ArrayRead DEF c
  <2>2. 0 + Len(c) = Len(c)
    BY <1>5
  <2>3. QED BY <2>1, <2>2
<1> HIDE DEF cs
<1>9. ReaderAt(fs.r, u, Len(c) + Len(m)) /\ (Len(c) + Len(m) <= Len(u) => fs.vals = Listed(p.functions))
  BY <1>1, <1>5, <1>6, <1>8, MapRead DEF m
<1> HIDE DEF fs
<1>10. /\ ReaderAt(ws.r, u, (Len(c) + Len(m)) + Len(w))
       /\ (Len(c) + Len(m)) + Len(w) <= Len(u) => ws.vals = ops
  <2>1. Len(c) + Len(m) \in Nat
    BY <1>5
  <2>2. QED BY <1>2, <1>6, <1>9, <2>1, ArrayRead DEF w
<1> HIDE DEF ws
<1>11. ws.r.ok <=> Len(prog_serialize(p)) <= Len(u)
  BY <1>5, <1>10 DEF ReaderAt
<1>12. prog_read(u) = IF ~ws.r.ok THEN Refused
                      ELSE [status |-> "loaded", constants |-> Trim(cs.vals), functions |-> Paired(fs.vals),
                            ops |-> [i \in DOMAIN ws.vals |-> Instruction(ws.vals[i].n)]]
  BY Zenon DEF prog_read, Paired, ws, fs, cs
<1>13. ASSUME Len(prog_serialize(p)) <= Len(u)
       PROVE  /\ Trim(cs.vals) = p.constants
              /\ Paired(fs.vals) = p.functions
              /\ [i \in DOMAIN ws.vals |-> Instruction(ws.vals[i].n)] = p.ops
  <2>1. cs.vals = p.constants /\ fs.vals = Listed(p.functions) /\ ws.vals = ops
    <3>1. Len(c) <= Len(u) /\ Len(c) + Len(m) <= Len(u) /\ (Len(c) + Len(m)) + Len(w) <= Len(u)
      BY <1>1, <1>5, <1>13
    <3>2. QED BY <1>8, <1>9, <1>10, <3>1
  <2>2. Trim(p.constants) = p.constants
    BY <1>1, NothingTrimmed
  <2>3. Paired(Listed(p.functions)) = p.functions
    BY <1>1, FunctionsBack
  <2>4. \A i \in 1..Len(p.ops) : Instruction(ops[i].n) = p.ops[i]
    <3>1. \A i : Num(i).n = i
      BY DEF Num
    <3>2. \A i \in 1..Len(p.ops) : Instruction(Word(p.ops[i])) = p.ops[i]
      BY <1>1, WordBack
    <3>3. QED BY <1>2, <3>1, <3>2
  <2>5. p.ops = [i \in 1..Len(p.ops) |-> p.ops[i]]
    BY <1>1
  <2>6. [i \in DOMAIN ops |-> Instruction(ops[i].n)] = p.ops
    BY <1>2, <2>4, <2>5
  <2>7. QED BY <2>1, <2>2, <2>3, <2>6
<1>14. QED BY <1>5, <1>11, <1>12, <1>13

---------------------------------------------------------------------------
(* The program container while a program is built. *)

\* No call removes a field of the state.
ContainerTypeOK ==
  /\ {"ops", "constants", "functions", "locals", "globals", "nr"} \subseteq DOMAIN st
  /\ st = [f \in DOMAIN st |-> st[f]]
  /\ Writable(st)

\* The calls that allocate variables leave the program alone.
LEMMA AllocationIs ==
  ASSUME ContainerTypeOK, AllocateVariables
  PROVE  /\ st'.ops = st.ops /\ st'.constants = st.constants /\ st'.functions = st.functions
         /\ DOMAIN st' = DOMAIN st /\ st' = [f \in DOMAIN st' |-> st'[f]]
<1>1. \/ st' = st
      \/ \E l : st' = [st EXCEPT !.locals = l]
      \/ \E g : st' = [st EXCEPT !.globals = g]
      \/ \E l, g : st' = [st EXCEPT !.locals = l, !.globals = g]
  <2>1. CASE \E id \in Ids : AddLocal(id) \/ AddGlobal(id) \/ GetOrAddLocal(id)
    BY <2>1 DEF AddLocal, AddGlobal, GetOrAddLocal, add_local, add_global, get_or_addlocal
  <2>2. CASE EnterBlock
    BY <2>2 DEF EnterBlock, var_enter_block
  <2>3. CASE LeaveBlock
    BY <2>3 DEF LeaveBlock, var_leave_block
  <2>4. CASE VarReset
    BY <2>4 DEF VarReset, var_reset
  <2>5. CASE VarResetAll
    BY <2>5 DEF VarResetAll, var_reset_all
  <2>6. QED BY <2>1, <2>2, <2>3, <2>4, <2>5 DEF AllocateVariables
<1>2. QED BY <1>1 DEF ContainerTypeOK

\* A constant is a string or a number.
LEMMA ConstantIs == Constants \subseteq Storable
<1>1. ASSUME NEW v \in [t : {"str"}, n : {0}, s : Seq(Int)] PROVE v = Str(v.s) /\ v.s \in Seq(Int)
  BY DEF Str
<1>2. QED BY <1>1, BytecodeAssumption DEF Storable

LEMMA BuildKeeps ==
  ASSUME ContainerTypeOK, BuilderNext
  PROVE  ContainerTypeOK'
<1> USE DEF ContainerTypeOK, Writable
<1>1. CASE AllocateVariables
  BY <1>1, AllocationIs
<1>2. CASE \E op \in Ops : AddOp(op)
  <2>1. PICK op \in Ops : st' = [st EXCEPT !.ops = Append(@, [op |-> op, n |-> 0])]
    BY <1>2 DEF AddOp, add_op
  <2>2. [op |-> op, n |-> 0] \in Instructions
    BY BytecodeAssumption DEF Instructions
  <2>3. Append(st.ops, [op |-> op, n |-> 0]) \in Seq(Instructions)
    BY <2>2
  <2>4. QED BY <2>1, <2>3
<1>3. CASE \E i \in Numbers : AddNum(i)
  <2>1. PICK i \in Numbers : st' = add_num(st, i)
    BY <1>3 DEF AddNum
  <2>2. CASE i \in OpWords
    BY <2>1, <2>2 DEF add_num
  <2>3. CASE i \notin OpWords
    <3>1. st' = [st EXCEPT !.ops = Append(@, [op |-> "PUSH", n |-> i])]
      BY <2>1, <2>3 DEF add_num
    <3>2. [op |-> "PUSH", n |-> i] \in Instructions
      BY <2>3, BytecodeAssumption DEF Instructions
    <3>3. Append(st.ops, [op |-> "PUSH", n |-> i]) \in Seq(Instructions)
      BY <3>2
    <3>4. QED BY <3>1, <3>3
  <2>4. QED BY <2>2, <2>3
<1>4. CASE \E at \in 0..(Len(st.ops) - 1), i \in Numbers : SetNum(at, i)
  <2>1. PICK at \in 0..(Len(st.ops) - 1), i \in Numbers : st' = patch(st, at, i)
    BY <1>4 DEF SetNum
  <2>2. CASE i \in OpWords
    BY <2>1, <2>2 DEF patch
  <2>3. CASE i \notin OpWords
    <3>1. st' = [st EXCEPT !.ops[at + 1] = [op |-> "PUSH", n |-> i]]
      BY <2>1, <2>3 DEF patch
    <3>2. [op |-> "PUSH", n |-> i] \in Instructions
      BY <2>3, BytecodeAssumption DEF Instructions
    <3>3. [st.ops EXCEPT ![at + 1] = [op |-> "PUSH", n |-> i]] \in Seq(Instructions)
      BY <3>2
    <3>4. st' = [st EXCEPT !.ops = [st.ops EXCEPT ![at + 1] = [op |-> "PUSH", n |-> i]]]
      BY <3>1
    <3>5. QED BY <3>3, <3>4
  <2>4. QED BY <2>2, <2>3
<1>5. CASE \E v \in Constants : NewConstant(v)
  <2>1. PICK v \in Constants : st' = new_constant(st, v)
    BY <1>5 DEF NewConstant
  <2>2. Append(st.constants, v) \in Seq(Storable)
    BY ConstantIs
  <2>3. \/ \E n : st' = [st EXCEPT !.nr = n]
        \/ \E n : st' = [st EXCEPT !.constants = Append(st.constants, v), !.nr = n]
    BY <2>1 DEF new_constant
  <2>4. QED BY <2>2, <2>3
<1>6. CASE \E id \in Ids : RegisterFunction(id)
  <2>1. PICK id \in Ids : st' = register_function(st, id)
    BY <1>6 DEF RegisterFunction
  <2> DEFINE more == [f \in DOMAIN st.functions \cup {id} |-> IF f = id THEN Len(st.ops) ELSE st.functions[f]]
  <2>2. st' = [st EXCEPT !.functions = more]
    BY <2>1 DEF register_function, next_pc
  <2>3. Addresses(more)
    <3>1. DOMAIN more = DOMAIN st.functions \cup {id}
      OBVIOUS
    <3>2. IsFiniteSet(DOMAIN st.functions \cup {id})
      BY FS_AddElement DEF Addresses
    <3>3. id \in Seq(Int) /\ DOMAIN st.functions \subseteq Seq(Int)
      BY BytecodeAssumption DEF Addresses
    <3>4. \A f \in DOMAIN more : more[f] \in Int
      BY DEF Addresses
    <3>5. more = [f \in DOMAIN more |-> more[f]]
      OBVIOUS
    <3> HIDE DEF more
    <3>6. QED BY <3>1, <3>2, <3>3, <3>4, <3>5 DEF Addresses
  <2> HIDE DEF more
  <2>4. QED BY <2>2, <2>3
<1>7. QED BY <1>1, <1>2, <1>3, <1>4, <1>5, <1>6 DEF BuilderNext, FillContainer

---------------------------------------------------------------------------
(* Writing and reading. *)

\* What is on disk and what is still to be written make up the program.
Split == Sequence(file) /\ Sequence(rest) /\ file \o rest = prog_serialize(st)

\* While the program is built there is no file, so nothing has been loaded;
\* afterwards the program does not change.
BytecodeInv ==
  /\ ContainerTypeOK
  /\ writer = "building" => file = NoFile /\ loaded.status # "loaded"
  /\ writer = "writing" => file # NoFile
  /\ file # NoFile => Split
  /\ ReadsBack

\* A program begins with the type of its first array.
LEMMA FirstUnit ==
  ASSUME NEW p, Writable(p)
  PROVE  /\ Sequence(prog_serialize(p))
         /\ Len(prog_serialize(p)) >= 1
         /\ prog_serialize(p)[1] # Undef
<1> DEFINE ops == [i \in DOMAIN p.ops |-> Num(Word(p.ops[i]))]
           c == arr_serialize(4, p.constants)
           m == map_serialize(p.functions)
           w == arr_serialize(4, ops)
           flat == FlattenSeq([i \in DOMAIN p.constants |-> val_serialize(p.constants[i])])
           head == <<Num(4), Num(Len(p.constants))>>
<1>1. Sequence(c) /\ Sequence(m) /\ Sequence(w)
  <2>1. \A ins \in Instructions : Num(Word(ins)) \in Storable
    BY WordBack DEF Num, Storable
  <2>2. ops \in Seq(Storable)
    BY <2>1 DEF Writable
  <2> HIDE DEF ops
  <2>3. QED BY <2>2, ArraySequence, MapSequence DEF Writable
<1>2. Sequence(head) /\ Len(head) = 2 /\ head[1] = Num(4)
  <2>1. Len(p.constants) \in Nat
    BY DEF Writable
  <2>2. head \in Seq(Storable) /\ Len(head) = 2
    BY <2>1, HeadIs
  <2>3. QED BY <2>2, SequenceOf
<1>3. Sequence(flat)
  <2>1. \A v \in Storable : val_serialize(v) \in Seq(Storable)
    BY SerializedIs
  <2>2. [i \in DOMAIN p.constants |-> val_serialize(p.constants[i])] \in Seq(Seq(Storable))
    <3>1. /\ Len(p.constants) \in Nat /\ DOMAIN p.constants = 1..Len(p.constants)
          /\ \A i \in 1..Len(p.constants) : p.constants[i] \in Storable
      BY DEF Writable
    <3>2. \A i \in 1..Len(p.constants) : val_serialize(p.constants[i]) \in Seq(Storable)
      BY <2>1, <3>1
    <3>3. QED BY <3>1, <3>2
  <2>3. flat \in Seq(Storable)
    BY <2>2, FlatIs
  <2> HIDE DEF flat
  <2>4. QED BY <2>3, SequenceOf
<1>4. c = head \o flat /\ prog_serialize(p) = (c \o m) \o w
  BY DEF arr_serialize, prog_serialize
<1> HIDE DEF ops, c, m, w, flat, head
<1>5. Len(c) >= 1 /\ c[1] = Num(4)
  <2>1. Len(flat) \in Nat
    BY <1>3, SequenceIs
  <2>2. QED BY <1>2, <1>3, <1>4, <2>1, SequenceConcat
<1>6. Sequence(c \o m) /\ Len(c \o m) >= 1 /\ (c \o m)[1] = Num(4)
  <2>1. Len(c) \in Nat /\ Len(m) \in Nat
    BY <1>1, SequenceIs
  <2>2. QED BY <1>1, <1>5, <2>1, SequenceConcat
<1>7. Sequence((c \o m) \o w) /\ Len((c \o m) \o w) >= 1 /\ ((c \o m) \o w)[1] = Num(4)
  <2>1. Len(c \o m) \in Nat /\ Len(w) \in Nat
    BY <1>1, <1>6, SequenceIs
  <2>2. QED BY <1>1, <1>6, <2>1, SequenceConcat
<1>8. Num(4) # Undef
  BY DEF Num, Undef
<1>9. QED BY <1>4, <1>7, <1>8

LEMMA SplitIsFile == ContainerTypeOK /\ Split => file # NoFile
<1> SUFFICES ASSUME ContainerTypeOK, Split, file = NoFile PROVE FALSE
  OBVIOUS
<1>1. Len(file) = 1 /\ file[1] = Undef
  BY DEF NoFile
<1>2. (file \o rest)[1] = Undef
  <2>1. \A i \in 1..Len(file) : (file \o rest)[i] = file[i]
    BY SequenceConcat DEF Split
  <2>2. 1 \in 1..Len(file)
    BY <1>1
  <2>3. QED BY <1>1, <2>1, <2>2
<1>3. Writable(st)
  BY DEF ContainerTypeOK
<1>4. QED BY <1>2, <1>3, FirstUnit DEF Split

\* A unit goes from what is still to be written to what is written.
LEMMA MoveOne ==
  ASSUME NEW a, NEW b, Sequence(a), Sequence(b), b # <<>>
  PROVE  /\ Sequence(Append(a, Head(b))) /\ Sequence(Tail(b))
         /\ Append(a, Head(b)) \o Tail(b) = a \o b
<1> DEFINE a1 == Append(a, Head(b))
           b1 == Tail(b)
<1>1. b \in Seq(ToSet(b)) /\ Len(b) \in Nat /\ Len(a) \in Nat
  BY SequenceIs
<1>2. Len(b) >= 1
  BY <1>1
<1>3. b1 \in Seq(ToSet(b)) /\ Len(b1) = Len(b) - 1 /\ \A i \in 1..(Len(b) - 1) : b1[i] = b[i + 1]
  BY <1>1, <1>2
<1>4. Sequence(a1) /\ Len(a1) = Len(a) + 1 /\ (\A i \in 1..Len(a) : a1[i] = a[i]) /\ a1[Len(a) + 1] = b[1]
  <2>1. Head(b) = b[1]
    BY <1>1, <1>2
  <2>2. QED BY <2>1, SequenceAppend
<1> HIDE DEF a1, b1
<1>5. Sequence(b1)
  BY <1>3, SequenceOf
<1>6. /\ Sequence(a1 \o b1) /\ Len(a1 \o b1) = (Len(a) + 1) + (Len(b) - 1)
      /\ \A i \in 1..(Len(a) + 1) : (a1 \o b1)[i] = a1[i]
      /\ \A i \in 1..(Len(b) - 1) : (a1 \o b1)[(Len(a) + 1) + i] = b1[i]
  <2>1. Len(b1) = Len(b) - 1 /\ Len(a1) = Len(a) + 1
    BY <1>3, <1>4
  <2>2. /\ Sequence(a1 \o b1) /\ Len(a1 \o b1) = Len(a1) + Len(b1)
        /\ \A i \in 1..Len(a1) : (a1 \o b1)[i] = a1[i]
        /\ \A i \in 1..Len(b1) : (a1 \o b1)[Len(a1) + i] = b1[i]
    BY <1>4, <1>5, SequenceConcat
  <2>3. QED BY <2>1, <2>2
<1>7. /\ Sequence(a \o b) /\ Len(a \o b) = Len(a) + Len(b)
      /\ \A i \in 1..Len(a) : (a \o b)[i] = a[i]
      /\ \A i \in 1..Len(b) : (a \o b)[Len(a) + i] = b[i]
  BY SequenceConcat
<1>8. ASSUME NEW i \in 1..Len(a \o b) PROVE (a1 \o b1)[i] = (a \o b)[i]
  <2>1. CASE i <= Len(a)
    BY <1>1, <1>4, <1>6, <1>7, <2>1
  <2>2. CASE i = Len(a) + 1
    <3>1. (a \o b)[Len(a) + 1] = b[1]
      BY <1>1, <1>2, <1>7
    <3>2. (a1 \o b1)[Len(a) + 1] = a1[Len(a) + 1]
      BY <1>1, <1>6
    <3>3. QED BY <1>4, <2>2, <3>1, <3>2
  <2>3. CASE i > Len(a) + 1
    <3> DEFINE k == i - (Len(a) + 1)
    <3>1. k \in 1..(Len(b) - 1) /\ i = (Len(a) + 1) + k /\ i = Len(a) + (k + 1) /\ k + 1 \in 1..Len(b)
      BY <1>1, <1>7, <2>3
    <3> HIDE DEF k
    <3>2. (a1 \o b1)[(Len(a) + 1) + k] = b[k + 1]
      BY <1>3, <1>6, <3>1
    <3>3. (a \o b)[Len(a) + (k + 1)] = b[k + 1]
      BY <1>7, <3>1
    <3>4. QED BY <3>1, <3>2, <3>3
  <2>4. i \in Nat
    BY <1>1, <1>7
  <2>5. i <= Len(a) \/ i = Len(a) + 1 \/ i > Len(a) + 1
    BY <1>1, <2>4
  <2>6. QED BY <2>1, <2>2, <2>3, <2>5
<1>9. Len(a1 \o b1) = Len(a \o b)
  BY <1>1, <1>6, <1>7
<1>10. a1 \o b1 = a \o b
  BY <1>6, <1>7, <1>8, <1>9, SequenceEqual
<1>11. QED BY <1>4, <1>5, <1>10 DEF a1, b1

\* What is on disk, as far as it goes, is the program.
LEMMA SplitHolds ==
  ASSUME Split
  PROVE  Holds(file, 0, prog_serialize(st))
<1>1. Len(file) \in Nat /\ Len(rest) \in Nat
  BY SequenceIs DEF Split
<1>2. Len(prog_serialize(st)) = Len(file) + Len(rest)
  BY SequenceConcat DEF Split
<1>3. \A i \in 1..Len(file) : prog_serialize(st)[i] = file[i]
  BY SequenceConcat DEF Split
<1>4. ASSUME NEW j \in 1..Len(prog_serialize(st)), 0 + j <= Len(file)
      PROVE  file[0 + j] = prog_serialize(st)[j]
  BY <1>1, <1>2, <1>3, <1>4
<1>5. QED BY <1>1, <1>4 DEF Holds

LEMMA ReadKeeps ==
  ASSUME BytecodeInv, Read
  PROVE  BytecodeInv'
<1>1. st' = st /\ file' = file /\ rest' = rest /\ writer' = writer
  BY DEF Read, builder
<1>2. CASE file = NoFile
  <2>1. loaded' = Refused
    BY <1>2 DEF Read
  <2>2. loaded'.status = "refused"
    BY <2>1 DEF Refused, NotRead
  <2>3. QED BY <1>1, <2>2 DEF BytecodeInv, ContainerTypeOK, Split, ReadsBack
<1>3. CASE file # NoFile
  <2>1. loaded' = prog_read(file) /\ Split /\ Writable(st)
    BY <1>3 DEF Read, BytecodeInv, ContainerTypeOK
  <2>2. \/ prog_read(file) = Refused
        \/ prog_read(file) = [status |-> "loaded", constants |-> st.constants,
                              functions |-> st.functions, ops |-> st.ops]
    <3>1. Sequence(file) /\ Holds(file, 0, prog_serialize(st))
      BY <2>1, SplitHolds DEF Split
    <3>2. QED BY <2>1, <3>1, ProgramRead
  <2>3. ReadsBack'
    <3>1. Refused.status # "loaded"
      BY DEF Refused, NotRead
    <3>2. QED BY <1>1, <2>1, <2>2, <3>1 DEF ReadsBack
  <2>4. writer # "building"
    BY <1>3 DEF BytecodeInv
  <2>5. QED BY <1>1, <2>3, <2>4 DEF BytecodeInv, ContainerTypeOK, Split
<1>4. QED BY <1>2, <1>3

LEMMA BytecodeInvariant == Spec => []BytecodeInv
<1>1. Init => BytecodeInv
  <2> SUFFICES ASSUME Init PROVE BytecodeInv
    OBVIOUS
  <2>1. st = Empty /\ file = NoFile /\ writer = "building" /\ loaded.status = "not read"
    BY DEF Init, BuilderInit, NotRead
  <2>2. ContainerTypeOK
    <3>1. /\ {"ops", "constants", "functions", "locals", "globals", "nr"} \subseteq DOMAIN Empty
          /\ Empty = [f \in DOMAIN Empty |-> Empty[f]]
          /\ Empty.ops = <<>> /\ Empty.constants = <<>> /\ Empty.functions = <<>>
      BY DEF Empty
    <3>2. Addresses(<<>>)
      <4> DEFINE none == <<>>
      <4>1. DOMAIN none = {} /\ none = [x \in DOMAIN none |-> none[x]]
        OBVIOUS
      <4> HIDE DEF none
      <4>2. IsFiniteSet(DOMAIN none) /\ DOMAIN none \subseteq Seq(Int) /\ \A x \in DOMAIN none : none[x] \in Int
        BY <4>1, FS_EmptySet
      <4>3. Addresses(none)
        BY <4>1, <4>2 DEF Addresses
      <4>4. QED BY <4>3 DEF none
    <3>3. Writable(Empty)
      BY <3>1, <3>2 DEF Writable
    <3>4. QED BY <2>1, <3>1, <3>3, Zenon DEF ContainerTypeOK
  <2>3. QED BY <2>1, <2>2 DEF BytecodeInv, ReadsBack
<1>2. BytecodeInv /\ [Next]_vars => BytecodeInv'
  <2> SUFFICES ASSUME BytecodeInv, [Next]_vars PROVE BytecodeInv'
    OBVIOUS
  <2>1. CASE UNCHANGED vars
    BY <2>1 DEF vars, builder, BytecodeInv, ContainerTypeOK, Split, ReadsBack
  <2>2. CASE Build
    <3>1. ContainerTypeOK'
      BY <2>2, BuildKeeps DEF Build, BytecodeInv
    <3>2. QED BY <2>2, <3>1 DEF Build, BytecodeInv, ReadsBack
  <2>3. CASE prog_write
    <3>1. /\ st' = st /\ loaded' = loaded /\ writer' = "writing"
          /\ file' = <<>> /\ rest' = prog_serialize(st)
      BY <2>3 DEF prog_write, builder
    <3>2. Sequence(prog_serialize(st))
      BY FirstUnit DEF BytecodeInv, ContainerTypeOK
    <3>3. <<>> \o prog_serialize(st) = prog_serialize(st) /\ Sequence(<<>>)
      BY <3>2, TextSequences DEF Sequence
    <3>4. Split'
      BY <3>1, <3>2, <3>3 DEF Split
    <3>5. <<>> # NoFile
      BY DEF NoFile
    <3>6. QED BY <2>3, <3>1, <3>4, <3>5 DEF BytecodeInv, ContainerTypeOK, ReadsBack
  <2>4. CASE WriteUnit
    <3>1. /\ st' = st /\ loaded' = loaded /\ writer' = "writing" /\ writer = "writing" /\ rest # <<>>
          /\ file' = Append(file, Head(rest)) /\ rest' = Tail(rest)
      BY <2>4 DEF WriteUnit, builder
    <3>2. Split
      BY <3>1 DEF BytecodeInv
    <3>3. Split'
      BY <3>1, <3>2, MoveOne DEF Split
    <3>4. ContainerTypeOK'
      BY <3>1 DEF BytecodeInv, ContainerTypeOK
    <3>5. (file # NoFile)'
      BY <3>3, <3>4, SplitIsFile, PTL
    <3>6. QED BY <3>1, <3>3, <3>4, <3>5 DEF BytecodeInv, ReadsBack
  <2>5. CASE CloseFile \/ Die
    BY <2>5 DEF CloseFile, Die, builder, BytecodeInv, ContainerTypeOK, Split, ReadsBack
  <2>6. CASE Read
    BY <2>6, ReadKeeps
  <2>7. QED BY <2>1, <2>2, <2>3, <2>4, <2>5, <2>6 DEF Next
<1>3. QED BY <1>1, <1>2, PTL DEF Spec

\* Whatever was killed when, what vm runs is the program that was compiled or
\* nothing (prog_write, prog_read).
THEOREM WholeOrNothing == Spec => []ReadsBack
<1>1. BytecodeInv => ReadsBack
  BY DEF BytecodeInv
<1>2. QED BY <1>1, BytecodeInvariant, PTL

\* A complete file is never refused (prog_read).
THEOREM CompleteAccepted == Spec => []CompleteIsRead
<1>1. BytecodeInv => CompleteIsRead
  <2> SUFFICES ASSUME BytecodeInv, file # NoFile, rest = <<>>
               PROVE  prog_read(file).status = "loaded"
    BY DEF CompleteIsRead
  <2>1. Split /\ Writable(st)
    BY DEF BytecodeInv, ContainerTypeOK
  <2>2. Len(file) \in Nat /\ Len(prog_serialize(st)) = Len(file)
    <3>1. Len(rest) = 0 /\ Len(file) \in Nat
      BY <2>1, SequenceIs DEF Split
    <3>2. Len(file \o rest) = Len(file) + Len(rest)
      BY <2>1, SequenceConcat DEF Split
    <3>3. QED BY <2>1, <3>1, <3>2 DEF Split
  <2>3. Holds(file, 0, prog_serialize(st)) /\ Sequence(file)
    BY <2>1, SplitHolds DEF Split
  <2>4. QED BY <2>1, <2>2, <2>3, ProgramRead
<1>2. QED BY <1>1, BytecodeInvariant, PTL

\* Writing and reading leave the compiler's state alone, so what holds of every
\* sequence of calls holds here: OneSlotPerName, BlocksRestore and SlotsKept
\* (prog_write changes nothing of what it writes, prog_read has a program of its own).
THEOREM OnlyBuilds == Spec => BuilderSpec
<1>1. Init => BuilderInit
  BY DEF Init
<1>2. [Next]_vars => [BuilderNext]_builder
  BY DEF Next, vars, Build, prog_write, WriteUnit, CloseFile, Die, Read
<1>3. QED BY <1>1, <1>2, PTL DEF Spec, BuilderSpec
=============================================================================
