---------------------------- MODULE ValueProofs ----------------------------
(* What the operations on values (vm/val/) yield: numbers stay ints, no    *)
(* array they make ends in an undefined slot, a map has a key at most      *)
(* once, and every value an operation yields is one the machine may store. *)
EXTENDS Values, Foundations, FiniteSetTheorems

---------------------------------------------------------------------------
(* What the machine may store.  kind tells for each array created whether  *)
(* it is an array or a map.                                                *)

Good(v, kind) ==
  \/ v.t = "num" /\ v.n \in MinInt..MaxInt
  \/ v.t \in {"arr", "map"} /\ v.n \in DOMAIN kind /\ kind[v.n] = v.t
  \/ v.t = "str" /\ Sequence(v.s)
  \/ v.t \in {"undef", "ref"}

Filled(s, kind) == Sequence(s) /\ \A i \in 1..Len(s) : Good(s[i], kind)

\* The slots of an array: none undefined at the end.
LastUsed(s) == Len(s) > 0 => s[Len(s)] # Undef
Tidy(s, kind) == Filled(s, kind) /\ LastUsed(s)

\* The slots of a map: pairs, and no key twice.
IsMap(s) ==
  /\ Len(s) % 2 = 0
  /\ \A i, j \in 1..(Len(s) \div 2) : i # j => ValCmp(s[2 * i - 1], s[2 * j - 1]) # 0

\* The slots of an array or a map; arr_pop may uncover an undefined slot of an
\* array.
SlotsOK(s, k, kind) == Filled(s, kind) /\ (k = "map" => LastUsed(s) /\ IsMap(s))

Store(arrs, kind) ==
  /\ Sequence(arrs)
  /\ kind \in [1..Len(arrs) -> {"arr", "map"}]
  /\ \A a \in 1..Len(arrs) : SlotsOK(arrs[a], kind[a], kind)

\* What an operation may yield.
Result(r, kind) ==
  \/ r.t = "crash"
  \/ r.t = "newarr" /\ Tidy(r.s, kind)
  \/ r.t = "newmap" /\ Tidy(r.s, kind) /\ IsMap(r.s)
  \/ Good(r, kind)

---------------------------------------------------------------------------
(* Ints. *)

\* Pow2 has the values its recursion says: they exceed their exponents.
LEMMA Powers == \A k \in 0..(Width - 1) : Pow2[k] \in Nat /\ Pow2[k] >= k + 1
<1> DEFINE n == Width - 1
           S == Nat
           step == [x \in (1..n) \X S |-> 2 * x[2]]
           Doubles(f) == f = [k \in 0..n |-> IF k = 0 THEN 1 ELSE 2 * f[k - 1]]
<1>1. n \in Nat
  BY WidthAssumption
<1>2. step \in [(1..n) \X S -> S] /\ 1 \in S
  OBVIOUS
<1>3. \A i \in 1..n, m \in Nat : step[<<i, m>>] = 2 * m
  OBVIOUS
<1> HIDE DEF n, step, S
<1>4. PICK f : Recursive(f, S, 1, n, step)
  BY <1>1, <1>2, Recursion
<1>5. \A i \in 1..n : f[i] = 2 * f[i - 1]
  <2>1. \A i \in 1..n : i - 1 \in 0..n
    BY <1>1
  <2>2. QED BY <1>3, <1>4, <2>1 DEF S, Recursive
<1>6. Doubles(f)
  BY <1>1, <1>4, <1>5 DEF Recursive
<1>7. Pow2 = CHOOSE g : Doubles(g)
  BY DEF Pow2, n
<1>8. Doubles(Pow2)
  BY <1>6, <1>7
<1>9. Pow2[0] = 1 /\ \A i \in 1..n : Pow2[i] = 2 * Pow2[i - 1]
  BY <1>1, <1>8
<1> HIDE DEF Doubles
<1> DEFINE P == {m \in Nat : m <= n => Pow2[m] \in Nat /\ Pow2[m] >= m + 1}
<1>10. P \in SUBSET Nat /\ 0 \in P
  BY <1>9
<1>11. ASSUME NEW m \in P PROVE m + 1 \in P
  <2>1. SUFFICES ASSUME m + 1 <= n PROVE Pow2[m + 1] \in Nat /\ Pow2[m + 1] >= (m + 1) + 1
    OBVIOUS
  <2>2. m + 1 \in 1..n /\ (m + 1) - 1 = m
    BY <1>1, <2>1
  <2>3. Pow2[m + 1] = 2 * Pow2[m]
    BY <1>9, <2>2
  <2>4. QED BY <1>1, <2>1, <2>3
<1>12. \A i \in P : i <= n => Pow2[i] \in Nat /\ Pow2[i] >= i + 1
  OBVIOUS
<1> HIDE DEF P
<1>13. P = Nat
  BY <1>10, <1>11, Induction
<1>14. QED BY <1>1, <1>12, <1>13 DEF n

\* Ints are a range around 0 and 1.
LEMMA Ints == MaxInt \in Nat /\ MaxInt >= 1 /\ MinInt = -MaxInt - 1
<1>1. Width - 1 \in 0..(Width - 1) /\ Width >= 2
  BY WidthAssumption
<1>2. Pow2[Width - 1] \in Nat /\ Pow2[Width - 1] >= 2
  BY <1>1, Powers, WidthAssumption
<1>3. QED BY <1>2 DEF MaxInt, MinInt

\* Whatever is stored as an int is one, and an int stays as it is; only 0
\* wraps to 0 among the differences of two ints.
LEMMA WrapIs ==
  ASSUME NEW i \in Int
  PROVE  /\ Wrap(i) \in MinInt..MaxInt
         /\ i \in MinInt..MaxInt => Wrap(i) = i
         /\ i \in (MinInt - MaxInt)..(MaxInt - MinInt) => (Wrap(i) = 0 <=> i = 0)
<1> DEFINE m == MaxInt - MinInt + 1
           d == i - MinInt
<1>1. MaxInt \in Nat /\ MaxInt >= 1 /\ MinInt = -MaxInt - 1
  BY Ints
<1>2. m \in Nat /\ m = 2 * MaxInt + 2 /\ d \in Int
  BY <1>1
<1>3. Wrap(i) = (d % m) + MinInt
  BY DEF Wrap
<1> HIDE DEF m
<1>4. m > 0
  BY <1>1, <1>2
<1> HIDE DEF d
<1>5. d % m \in 0..(m - 1)
  BY <1>2, <1>4
<1>6. Wrap(i) \in MinInt..MaxInt
  BY <1>1, <1>2, <1>3, <1>5
<1>7. i \in MinInt..MaxInt => Wrap(i) = i
  <2>1. ASSUME i \in MinInt..MaxInt PROVE d \in 0..(m - 1)
    BY <1>1, <1>2, <2>1 DEF d
  <2>2. ASSUME d \in 0..(m - 1) PROVE d % m = d
    BY <1>2, <1>4, <2>2
  <2>3. QED BY <1>1, <1>2, <1>3, <2>1, <2>2 DEF d
<1>8. ASSUME i \in (MinInt - MaxInt)..(MaxInt - MinInt)
      PROVE  Wrap(i) = 0 <=> i = 0
  <2>1. CASE i \in MinInt..MaxInt
    BY <1>7, <2>1
  <2>2. CASE i > MaxInt
    <3>1. d - m \in 0..(m - 1)
      BY <1>1, <1>2, <1>8, <2>2 DEF d
    <3>2. d % m = d - m
      BY <1>2, <1>4, <3>1
    <3>3. QED BY <1>1, <1>2, <1>3, <2>2, <3>2, <1>8 DEF d
  <2>3. CASE i < MinInt
    <3>1. d + m \in 0..(m - 1)
      BY <1>1, <1>2, <1>8, <2>3 DEF d
    <3>2. d % m = d + m
      BY <1>2, <1>4, <3>1
    <3>3. QED BY <1>1, <1>2, <1>3, <2>3, <3>2, <1>8 DEF d
  <2>4. QED BY <1>1, <2>1, <2>2, <2>3
<1>9. QED BY <1>6, <1>7, <1>8

\* A number computed from ints may be stored.
LEMMA NumGood ==
  ASSUME NEW kind
  PROVE  /\ \A i \in MinInt..MaxInt : Good(Num(i), kind)
         /\ \A i \in Int : Good(Num(Wrap(i)), kind)
         /\ \A b : Good(Bool(b), kind)
         /\ Good(Undef, kind)
<1>1. \A i \in MinInt..MaxInt : Good(Num(i), kind)
  BY DEF Good, Num
<1>2. 0 \in MinInt..MaxInt /\ 1 \in MinInt..MaxInt
  BY Ints
<1>3. \A b : Good(Bool(b), kind)
  BY <1>1, <1>2 DEF Bool
<1>4. QED BY <1>1, <1>3, WrapIs DEF Good, Undef

---------------------------------------------------------------------------
(* Comparison. *)

\* Values are equal by val_cmp if they are equal numbers or strings.
LEMMA CmpIs ==
  ASSUME NEW kind, NEW v, NEW w, Good(v, kind), Good(w, kind)
  PROVE  /\ ValCmp(v, w) \in Int
         /\ ValCmp(v, w) = 0 <=> \/ v.t = "num" /\ w.t = "num" /\ v.n = w.n
                                 \/ v.t = "str" /\ w.t = "str" /\ v.s = w.s
<1>1. CASE v.t = "num" /\ w.t = "num"
  <2>1. v.n \in MinInt..MaxInt /\ w.n \in MinInt..MaxInt
    BY <1>1 DEF Good
  <2>2. /\ MinInt \in Int /\ MaxInt \in Int
        /\ v.n - w.n \in (MinInt - MaxInt)..(MaxInt - MinInt)
        /\ v.n - w.n \in Int /\ (v.n - w.n = 0 <=> v.n = w.n)
    BY <2>1, Ints
  <2>3. ValCmp(v, w) = Wrap(v.n - w.n)
    BY <1>1 DEF ValCmp
  <2>4. Wrap(v.n - w.n) \in MinInt..MaxInt /\ (Wrap(v.n - w.n) = 0 <=> v.n - w.n = 0)
    BY <2>2, WrapIs
  <2>5. QED BY <1>1, <2>2, <2>3, <2>4
<1>2. CASE v.t = "str" /\ w.t = "str"
  <2>1. ValCmp(v, w) = StrCmp(v.s, w.s)
    BY <1>2 DEF ValCmp
  <2>2. StrCmp(v.s, w.s) \in {-1, 0, 1} /\ (StrCmp(v.s, w.s) = 0 <=> v.s = w.s)
    BY DEF StrCmp
  <2>3. QED BY <1>2, <2>1, <2>2
<1>3. CASE v.t # w.t \/ v.t \notin {"num", "str"}
  BY <1>3 DEF ValCmp
<1>4. QED BY <1>1, <1>2, <1>3

---------------------------------------------------------------------------
(* Arrays. *)

\* Slots are storable if they are all taken from storable values.
LEMMA FilledIs ==
  ASSUME NEW kind, NEW s
  PROVE  /\ \A T : s \in Seq(T) /\ (\A x \in T : Good(x, kind)) => Filled(s, kind)
         /\ Filled(s, kind) => s \in Seq(ToSet(s)) /\ \A x \in ToSet(s) : Good(x, kind)
<1>1. ASSUME NEW T, s \in Seq(T), \A x \in T : Good(x, kind) PROVE Filled(s, kind)
  <2>1. Sequence(s)
    BY <1>1, SequenceOf
  <2>2. QED BY <1>1, <2>1 DEF Filled
<1>2. ASSUME Filled(s, kind) PROVE s \in Seq(ToSet(s)) /\ \A x \in ToSet(s) : Good(x, kind)
  BY <1>2, SequenceIs DEF Filled
<1>3. QED BY <1>1, <1>2

\* arr_resize leaves no undefined slot at the end.
LEMMA TrimIn ==
  ASSUME NEW T, NEW s \in Seq(T)
  PROVE  Trim(s) \in Seq(T) /\ LastUsed(Trim(s)) /\ Len(Trim(s)) <= Len(s)
<1> DEFINE used == {i \in DOMAIN s : s[i] # Undef}
           n == Len(s)
<1>1. n \in Nat /\ used \in SUBSET (0..n) /\ used = {i \in 1..n : s[i] # Undef}
  OBVIOUS
<1>2. Trim(s) = IF used = {} THEN <<>> ELSE SubSeq(s, 1, Max(used))
  BY DEF Trim
<1>3. CASE used = {}
  BY <1>1, <1>2, <1>3 DEF LastUsed
<1>4. CASE used # {}
  <2> DEFINE m == Max(used)
  <2>1. m \in 1..n /\ s[m] # Undef
    BY <1>1, <1>4, MaxIs
  <2> HIDE DEF used, m
  <2>2. Trim(s) = SubSeq(s, 1, m)
    BY <1>2, <1>4 DEF m
  <2>3. /\ SubSeq(s, 1, m) \in Seq(T) /\ Len(SubSeq(s, 1, m)) = m
        /\ SubSeq(s, 1, m)[m] = s[m]
    BY <2>1
  <2>4. QED BY <1>1, <2>1, <2>2, <2>3 DEF LastUsed
<1>5. QED BY <1>3, <1>4

\* arr_get yields what a slot holds, or nothing.
LEMMA ArrGetGood ==
  ASSUME NEW kind, NEW s, Filled(s, kind), NEW i \in Int
  PROVE  /\ i < 0 => ArrGet(s, i) = Crash
         /\ i >= 0 => Good(ArrGet(s, i), kind)
<1>1. CASE i < 0
  BY <1>1 DEF ArrGet
<1>2. CASE i >= 0 /\ i < Len(s)
  <2>1. i + 1 \in 1..Len(s)
    BY <1>2, SequenceIs DEF Filled
  <2>2. QED BY <1>2, <2>1 DEF ArrGet, Filled
<1>3. CASE i >= 0 /\ ~(i < Len(s))
  BY <1>3, NumGood DEF ArrGet
<1>4. QED BY <1>1, <1>2, <1>3

\* arr_set leaves the last slot in use.
LEMMA ArrSetFilled ==
  ASSUME NEW kind, NEW s, Filled(s, kind), NEW v, Good(v, kind), NEW i \in Int, v # Undef => i >= 0
  PROVE  Filled(ArrSet(s, i, v), kind) /\ (ArrSet(s, i, v) = s \/ LastUsed(ArrSet(s, i, v)))
<1>1. CASE v = Undef
  BY <1>1 DEF ArrSet
<1>2. CASE v # Undef
  <2> DEFINE T == ToSet(s) \cup {v, Undef}
             n == Max({Len(s), i + 1})
             made == [j \in 1..n |-> IF j = i + 1 THEN v ELSE IF j <= Len(s) THEN s[j] ELSE Undef]
  <2>1. /\ s \in Seq(ToSet(s)) /\ Len(s) \in Nat /\ \A x \in T : Good(x, kind)
        /\ \A j \in 1..Len(s) : s[j] \in T
    BY FilledIs, NumGood, SequenceIs DEF Filled
  <2>2. n \in Nat
    <3>1. {Len(s), i + 1} \in SUBSET (0..(Len(s) + i + 1)) /\ Len(s) + i + 1 \in Nat
      BY <1>2, <2>1
    <3>2. {Len(s), i + 1} # {}
      OBVIOUS
    <3>3. n \in {Len(s), i + 1}
      BY <3>1, <3>2, MaxIs
    <3>4. QED BY <1>2, <2>1, <3>3
  <2> HIDE DEF n, T
  <2>3. \A j \in 1..n : made[j] \in T
    BY <2>1, <2>2 DEF T
  <2>4. made \in Seq(T)
    BY <2>2, <2>3
  <2>5. ArrSet(s, i, v) = Trim(made)
    BY <1>2 DEF ArrSet, n
  <2> HIDE DEF made
  <2>6. Trim(made) \in Seq(T) /\ LastUsed(Trim(made))
    BY <2>4, TrimIn
  <2>7. QED BY <2>1, <2>5, <2>6, FilledIs
<1>3. QED BY <1>1, <1>2

LEMMA ArrSetTidy ==
  ASSUME NEW kind, NEW s, Tidy(s, kind), NEW v, Good(v, kind), NEW i \in Int, v # Undef => i >= 0
  PROVE  Tidy(ArrSet(s, i, v), kind)
<1>1. Filled(ArrSet(s, i, v), kind) /\ (ArrSet(s, i, v) = s \/ LastUsed(ArrSet(s, i, v)))
  BY ArrSetFilled DEF Tidy
<1>2. QED BY <1>1 DEF Tidy

LEMMA ArrPushIn ==
  ASSUME NEW T, NEW s \in Seq(T), LastUsed(s), NEW v \in T
  PROVE  ArrPush(s, v) \in Seq(T) /\ LastUsed(ArrPush(s, v))
<1>1. CASE v = Undef
  BY <1>1 DEF ArrPush
<1>2. CASE v # Undef
  <2>1. ArrPush(s, v) = Append(s, v)
    BY <1>2 DEF ArrPush
  <2>2. /\ Append(s, v) \in Seq(T)
        /\ Len(Append(s, v)) = Len(s) + 1
        /\ Append(s, v)[Len(s) + 1] = v
    OBVIOUS
  <2>3. QED BY <1>2, <2>1, <2>2 DEF LastUsed
<1>3. QED BY <1>1, <1>2

\* arr_add too, by induction over the slots added.
LEMMA ArrAddIn ==
  ASSUME NEW T, NEW s \in Seq(T), LastUsed(s), NEW more \in Seq(T)
  PROVE  ArrAdd(s, more) \in Seq(T) /\ LastUsed(ArrAdd(s, more))
<1> DEFINE n == Len(more)
           S == {m \in Seq(T) : LastUsed(m)}
           step == [x \in (1..n) \X S |-> ArrPush(x[2], more[x[1]])]
           Adds(f) == f = [i \in 0..n |-> IF i = 0 THEN s ELSE ArrPush(f[i - 1], more[i])]
<1>1. n \in Nat /\ s \in S
  OBVIOUS
<1>2. \A i \in 1..n, m \in S : ArrPush(m, more[i]) \in S
  BY ArrPushIn
<1>3. step \in [(1..n) \X S -> S]
  BY <1>2
<1>4. \A i \in 1..n, m \in S : step[<<i, m>>] = ArrPush(m, more[i])
  OBVIOUS
<1> HIDE DEF n, step, S
<1>5. PICK f : Recursive(f, S, s, n, step)
  BY <1>1, <1>3, Recursion
<1>6. \A i \in 1..n : f[i] = ArrPush(f[i - 1], more[i])
  <2>1. \A i \in 1..n : i - 1 \in 0..n
    BY <1>1
  <2>2. QED BY <1>4, <1>5, <2>1 DEF Recursive
<1>7. Adds(f)
  BY <1>1, <1>5, <1>6 DEF Recursive
<1> DEFINE added == CHOOSE g : Adds(g)
<1>8. ArrAdd(s, more) = added[n]
  BY DEF ArrAdd, n
<1>9. Adds(added)
  BY <1>7
<1> HIDE DEF added
<1>10. added[0] = s /\ \A i \in 1..n : added[i] = ArrPush(added[i - 1], more[i])
  BY <1>1, <1>9
<1> HIDE DEF Adds
<1>11. \A i \in 0..n : added[i] \in S
  BY <1>1, <1>2, <1>10, RecursionStays
<1>12. QED BY <1>1, <1>8, <1>11 DEF S

---------------------------------------------------------------------------
(* Maps. *)

LEMMA Halves ==
  /\ \A n \in Nat : n \div 2 \in Nat /\ 2 * (n \div 2) <= n
  /\ \A n \in Nat : n % 2 = 0 => n = 2 * (n \div 2)
  /\ \A h \in Nat : (2 * h) % 2 = 0 /\ (2 * h) \div 2 = h
OBVIOUS

\* The slots of a map as pairs.
LEMMA MapIs ==
  ASSUME NEW T, NEW s \in Seq(T)
  PROVE  IsMap(s) <=> \E h \in Nat :
           /\ Len(s) = 2 * h
           /\ \A i, j \in 1..h : i # j => ValCmp(s[2 * i - 1], s[2 * j - 1]) # 0
<1>1. Len(s) \in Nat
  OBVIOUS
<1>2. ASSUME IsMap(s)
      PROVE  \E h \in Nat : /\ Len(s) = 2 * h
                            /\ \A i, j \in 1..h : i # j => ValCmp(s[2 * i - 1], s[2 * j - 1]) # 0
  <2>1. Len(s) \div 2 \in Nat /\ Len(s) = 2 * (Len(s) \div 2)
    BY <1>1, <1>2, Halves DEF IsMap
  <2>2. QED BY <1>2, <2>1 DEF IsMap
<1>3. ASSUME NEW h \in Nat, Len(s) = 2 * h,
             \A i, j \in 1..h : i # j => ValCmp(s[2 * i - 1], s[2 * j - 1]) # 0
      PROVE  IsMap(s)
  <2>1. Len(s) % 2 = 0 /\ Len(s) \div 2 = h
    BY <1>3, Halves
  <2>2. QED BY <1>3, <2>1 DEF IsMap
<1>4. QED BY <1>2, <1>3

\* map_set keeps the keys apart.
LEMMA MapSetMap ==
  ASSUME NEW kind, NEW T, \A x \in T : Good(x, kind),
         NEW s, s \in Seq(T), LastUsed(s), IsMap(s), NEW k, k \in T, NEW v, v \in T
  PROVE  MapSet(s, k, v) \in Seq(T) /\ LastUsed(MapSet(s, k, v)) /\ IsMap(MapSet(s, k, v))
<1> DEFINE Key(t, i) == t[2 * i - 1]
<1>1. PICK h \in Nat : Len(s) = 2 * h /\ \A i, j \in 1..h : i # j => ValCmp(Key(s, i), Key(s, j)) # 0
  BY MapIs
<1>2. Len(s) \div 2 = h
  BY <1>1, Halves
<1>3. Pairs(s, k) = {i \in 1..h : ValCmp(Key(s, i), k) = 0}
  BY <1>2 DEF Pairs
<1>4. NoKey(s) = {i \in 1..h : Key(s, i) = Undef}
  BY <1>2 DEF NoKey
<1>5. \A i \in 1..h : 2 * i - 1 \in 1..Len(s) /\ 2 * i \in 1..Len(s) /\ Key(s, i) \in T
  <2>1. \A i \in 1..h : 2 * i - 1 \in 1..Len(s) /\ 2 * i \in 1..Len(s)
    <3>1. Len(s) = 2 * h /\ h \in Nat
      BY <1>1
    <3>2. QED BY <3>1
  <2>2. \A j \in 1..Len(s) : s[j] \in T
    OBVIOUS
  <2>3. \A i \in 1..h : Key(s, i) \in T
    BY <2>1, <2>2
  <2> HIDE DEF Key
  <2>4. QED BY <2>1, <2>3
<1>6. ASSUME NEW x \in T, NEW y \in T PROVE ValCmp(x, y) = 0 <=> ValCmp(y, x) = 0
  <2>1. Good(x, kind) /\ Good(y, kind)
    OBVIOUS
  <2>2. ValCmp(x, y) = 0 <=> \/ x.t = "num" /\ y.t = "num" /\ x.n = y.n
                             \/ x.t = "str" /\ y.t = "str" /\ x.s = y.s
    BY <2>1, CmpIs
  <2>3. ValCmp(y, x) = 0 <=> \/ y.t = "num" /\ x.t = "num" /\ y.n = x.n
                             \/ y.t = "str" /\ x.t = "str" /\ y.s = x.s
    BY <2>1, CmpIs
  <2>4. QED BY <2>2, <2>3
<1>7. \A m \in Seq(T) : (\E g \in Nat : /\ Len(m) = 2 * g
                                       /\ \A i, j \in 1..g : i # j => ValCmp(Key(m, i), Key(m, j)) # 0)
                        => IsMap(m)
  BY MapIs
<1>8. CASE v = Undef
  BY <1>8 DEF MapSet
<1>9. CASE v # Undef /\ Pairs(s, k) # {}
  <2> DEFINE p == Min(Pairs(s, k))
             m == [s EXCEPT ![2 * p] = v]
  <2>1. p \in 1..h
    <3>1. Pairs(s, k) \in SUBSET Nat
      BY <1>3
    <3>2. p \in Pairs(s, k)
      BY <1>9, <3>1, MinIs
    <3>3. QED BY <1>3, <3>2
  <2>2. MapSet(s, k, v) = m
    BY <1>9 DEF MapSet
  <2> HIDE DEF p
  <2>3. m \in Seq(T) /\ Len(m) = Len(s) /\ m[2 * p] = v
        /\ \A j \in 1..Len(s) : j # 2 * p => m[j] = s[j]
    BY <1>5, <2>1
  <2> HIDE DEF m
  <2>4. \A i \in 1..h : Key(m, i) = Key(s, i)
    <3>1. ASSUME NEW i \in 1..h PROVE 2 * i - 1 # 2 * p
      BY <2>1
    <3>2. ASSUME NEW i \in 1..h PROVE m[2 * i - 1] = s[2 * i - 1]
      BY <1>5, <2>3, <3>1
    <3>3. QED BY <3>2
  <2>5. IsMap(m)
    BY <1>1, <1>7, <2>3, <2>4
  <2>6. LastUsed(m)
    BY <1>1, <1>9, <2>3 DEF LastUsed
  <2>7. QED BY <2>2, <2>3, <2>5, <2>6
<1>10. CASE v # Undef /\ Pairs(s, k) = {}
  <2>1. \A i \in 1..h : ValCmp(Key(s, i), k) # 0 /\ ValCmp(k, Key(s, i)) # 0
    BY <1>3, <1>5, <1>6, <1>10
  <2>2. CASE NoKey(s) # {}
    <3> DEFINE p == Min(NoKey(s))
               m == [s EXCEPT ![2 * p - 1] = k, ![2 * p] = v]
    <3>1. p \in 1..h
      <4>1. NoKey(s) \in SUBSET Nat
        BY <1>4
      <4>2. p \in NoKey(s)
        BY <2>2, <4>1, MinIs
      <4>3. QED BY <1>4, <4>2
    <3>2. MapSet(s, k, v) = m
      BY <1>10, <2>2 DEF MapSet
    <3> HIDE DEF p
    <3>3. m \in Seq(T) /\ Len(m) = Len(s) /\ m[2 * p] = v /\ m[2 * p - 1] = k
          /\ \A j \in 1..Len(s) : j # 2 * p /\ j # 2 * p - 1 => m[j] = s[j]
      BY <1>5, <3>1
    <3> HIDE DEF m
    <3>4. \A i \in 1..h : i # p => Key(m, i) = Key(s, i)
      <4>1. ASSUME NEW i \in 1..h, i # p PROVE 2 * i - 1 # 2 * p /\ 2 * i - 1 # 2 * p - 1
        BY <3>1, <4>1
      <4>2. ASSUME NEW i \in 1..h, i # p PROVE m[2 * i - 1] = s[2 * i - 1]
        BY <1>5, <3>3, <4>1, <4>2
      <4>3. QED BY <4>2
    <3>5. \A i, j \in 1..h : i # j => ValCmp(Key(m, i), Key(m, j)) # 0
      BY <1>1, <2>1, <3>1, <3>3, <3>4
    <3>6. IsMap(m)
      BY <1>1, <1>7, <3>3, <3>5
    <3>7. LastUsed(m)
      BY <1>1, <1>10, <3>1, <3>3 DEF LastUsed
    <3>8. QED BY <3>2, <3>3, <3>6, <3>7
  <2>3. CASE NoKey(s) = {}
    <3> DEFINE m == s \o <<k, v>>
    <3>1. MapSet(s, k, v) = m
      BY <1>10, <2>3 DEF MapSet
    <3>2. m \in Seq(T) /\ Len(m) = Len(s) + 2 /\ m[Len(s) + 1] = k /\ m[Len(s) + 2] = v
          /\ \A j \in 1..Len(s) : m[j] = s[j]
      OBVIOUS
    <3> HIDE DEF m
    <3>3. h + 1 \in Nat /\ Len(m) = 2 * (h + 1) /\ 2 * (h + 1) - 1 = Len(s) + 1
      BY <1>1, <3>2
    <3>4. Key(m, h + 1) = k /\ \A i \in 1..h : Key(m, i) = Key(s, i)
      BY <1>5, <3>2, <3>3
    <3>5. \A i, j \in 1..(h + 1) : i # j => ValCmp(Key(m, i), Key(m, j)) # 0
      <4>1. \A i \in 1..(h + 1) : i \in 1..h \/ i = h + 1
        OBVIOUS
      <4> HIDE DEF Key
      <4>2. QED BY <1>1, <2>1, <3>4, <4>1
    <3>6. IsMap(m)
      BY <1>7, <3>2, <3>3, <3>5
    <3>7. LastUsed(m)
      BY <1>1, <1>10, <3>2 DEF LastUsed
    <3>8. QED BY <3>1, <3>2, <3>6, <3>7
  <2>4. QED BY <2>2, <2>3
<1>11. QED BY <1>8, <1>9, <1>10

\* What a map yields for a key is one of its slots, or nothing.
LEMMA MapGetGood ==
  ASSUME NEW kind, NEW s, Filled(s, kind), NEW k
  PROVE  Good(MapGet(s, k), kind)
<1>1. CASE Pairs(s, k) = {}
  BY <1>1, NumGood DEF MapGet
<1>2. CASE Pairs(s, k) # {}
  <2>1. Len(s) \in Nat
    BY SequenceIs DEF Filled
  <2>2. Len(s) \div 2 \in Nat /\ 2 * (Len(s) \div 2) <= Len(s)
    BY <2>1, Halves
  <2>3. Min(Pairs(s, k)) \in 1..(Len(s) \div 2)
    <3>1. Pairs(s, k) \in SUBSET Nat
      BY <2>2 DEF Pairs
    <3>2. Min(Pairs(s, k)) \in Pairs(s, k)
      BY <1>2, <3>1, MinIs
    <3>3. QED BY <3>2 DEF Pairs
  <2>4. 2 * Min(Pairs(s, k)) \in 1..Len(s)
    BY <2>1, <2>2, <2>3
  <2>5. QED BY <1>2, <2>4 DEF MapGet, Filled
<1>3. QED BY <1>1, <1>2

\* map_dup copies a map to a map, by induction over the pairs copied.
LEMMA MapDupMap ==
  ASSUME NEW kind, NEW T, \A x \in T : Good(x, kind), NEW s \in Seq(T)
  PROVE  MapDup(s) \in Seq(T) /\ LastUsed(MapDup(s)) /\ IsMap(MapDup(s))
<1> DEFINE n == Len(s) \div 2
           S == {m \in Seq(T) : LastUsed(m) /\ IsMap(m)}
           step == [x \in (1..n) \X S |-> MapSet(x[2], s[2 * x[1] - 1], s[2 * x[1]])]
           Copies(f) == f = [i \in 0..n |-> IF i = 0 THEN <<>>
                                            ELSE MapSet(f[i - 1], s[2 * i - 1], s[2 * i])]
<1>1. n \in Nat /\ 2 * n <= Len(s)
  BY Halves
<1>2. <<>> \in S
  <2>1. <<>> \in Seq(T) /\ Len(<<>>) = 0
    OBVIOUS
  <2>2. IsMap(<<>>)
    <3>1. 0 \in Nat /\ Len(<<>>) = 2 * 0 /\ 1..0 = {}
      OBVIOUS
    <3>2. QED BY <2>1, <3>1, MapIs
  <2>3. QED BY <2>1, <2>2 DEF LastUsed
<1>3. \A i \in 1..n : s[2 * i - 1] \in T /\ s[2 * i] \in T
  <2>1. \A i \in 1..n : 2 * i - 1 \in 1..Len(s) /\ 2 * i \in 1..Len(s)
    BY <1>1
  <2>2. QED BY <2>1
<1>4. \A i \in 1..n, m \in S : MapSet(m, s[2 * i - 1], s[2 * i]) \in S
  BY <1>3, MapSetMap
<1>5. step \in [(1..n) \X S -> S]
  BY <1>4
<1>6. \A i \in 1..n, m \in S : step[<<i, m>>] = MapSet(m, s[2 * i - 1], s[2 * i])
  OBVIOUS
<1> HIDE DEF n, step, S
<1>7. PICK f : Recursive(f, S, <<>>, n, step)
  BY <1>1, <1>2, <1>5, Recursion
<1>8. \A i \in 1..n : f[i] = MapSet(f[i - 1], s[2 * i - 1], s[2 * i])
  <2>1. \A i \in 1..n : i - 1 \in 0..n
    BY <1>1
  <2>2. QED BY <1>6, <1>7, <2>1 DEF Recursive
<1>9. Copies(f)
  BY <1>1, <1>7, <1>8 DEF Recursive
<1> DEFINE copy == CHOOSE g : Copies(g)
<1>10. MapDup(s) = copy[n]
  BY DEF MapDup, n
<1>11. Copies(copy)
  BY <1>9
<1> HIDE DEF copy
<1>12. copy[0] = <<>> /\ \A i \in 1..n : copy[i] = MapSet(copy[i - 1], s[2 * i - 1], s[2 * i])
  BY <1>1, <1>11
<1> HIDE DEF Copies
<1>13. \A i \in 0..n : copy[i] \in S
  BY <1>1, <1>2, <1>4, <1>12, RecursionStays
<1>14. QED BY <1>1, <1>10, <1>13 DEF S

---------------------------------------------------------------------------
(* Text and numbers. *)

\* Texts written with their characters are sequences.
LEMMA TextSequences == Sequence(<<>>) /\ (\A c : Sequence(<<c>>)) /\ Sequence(<<78, 47, 65>>)
<1>1. <<>> \in Seq({})
  OBVIOUS
<1>2. \A c : <<c>> \in Seq({c})
  OBVIOUS
<1>3. <<78, 47, 65>> \in Seq({78, 47, 65})
  OBVIOUS
<1>4. Sequence(<<>>)
  BY <1>1, SequenceOf
<1>5. ASSUME NEW c PROVE Sequence(<<c>>)
  BY <1>2, SequenceOf
<1>6. Sequence(<<78, 47, 65>>)
  BY <1>3, SequenceOf
<1>7. QED BY <1>4, <1>5, <1>6

\* A number is written as a sequence of characters, whatever it is.
LEMMA DecimalText == ASSUME NEW i PROVE Sequence(Decimal(i))
<1> DEFINE m == IF i < 0 THEN -i ELSE i
           D == {d \in 1..9 : m >= 10 ^ d}
           k == 1 + Cardinality(D)
           digits == [j \in 1..k |-> 48 + ((m \div (10 ^ (k - j))) % 10)]
<1>1. k \in Nat
  <2>1. D \in SUBSET Nat /\ \A d \in D : d <= 9
    OBVIOUS
  <2>2. \A S \in SUBSET Nat : \A n \in Nat : (\A d \in S : d <= n) => IsFiniteSet(S)
    BY FS_BoundedSetOfNaturals
  <2> HIDE DEF D
  <2>3. IsFiniteSet(D)
    BY <2>1, <2>2
  <2>4. Cardinality(D) \in Nat
    BY <2>3, FS_CardinalityType
  <2>5. QED BY <2>4
<1>2. Decimal(i) = IF i < 0 THEN <<45>> \o digits ELSE digits
  BY DEF Decimal
<1>3. digits = [j \in 1..k |-> digits[j]]
  OBVIOUS
<1> HIDE DEF k, digits
<1>4. Sequence(digits)
  BY <1>1, <1>3, SequenceMade
<1>5. Sequence(<<45>> \o digits)
  BY <1>4, TextSequences, SequenceConcat
<1>6. QED BY <1>2, <1>4, <1>5

\* Every value has a text.
LEMMA ToStrText ==
  ASSUME NEW kind, NEW v, Good(v, kind)
  PROVE  Sequence(ToStr(v))
<1>1. v.t = "str" => Sequence(v.s)
  BY DEF Good
<1>2. ToStr(v) = CASE v.t = "str" -> v.s
                   [] v.t = "num" -> Decimal(v.n)
                   [] OTHER -> <<78, 47, 65>>
  BY DEF ToStr
<1>3. CASE v.t = "str"
  BY <1>1, <1>2, <1>3
<1>4. CASE v.t = "num"
  BY <1>2, <1>4, DecimalText
<1>5. CASE v.t \notin {"str", "num"}
  BY <1>2, <1>5, TextSequences
<1>6. QED BY <1>3, <1>4, <1>5

LEMMA StrGood ==
  ASSUME NEW kind, NEW cs, Sequence(cs)
  PROVE  Good(Str(cs), kind)
BY DEF Good, Str

\* Digits stand for a number, by induction over them.
LEMMA MagnitudeInt ==
  ASSUME NEW ds \in Seq(Int)
  PROVE  Magnitude(ds) \in Int
<1> DEFINE n == Len(ds)
           S == Int
           step == [x \in (1..n) \X S |-> 10 * x[2] + ds[x[1]] - 48]
           Reads(f) == f = [i \in 0..n |-> IF i = 0 THEN 0 ELSE 10 * f[i - 1] + ds[i] - 48]
<1>1. n \in Nat /\ 0 \in S
  OBVIOUS
<1>2. \A i \in 1..n, m \in S : 10 * m + ds[i] - 48 \in S
  OBVIOUS
<1>3. step \in [(1..n) \X S -> S]
  BY <1>2
<1>4. \A i \in 1..n, m \in S : step[<<i, m>>] = 10 * m + ds[i] - 48
  OBVIOUS
<1> HIDE DEF n, step, S
<1>5. PICK f : Recursive(f, S, 0, n, step)
  BY <1>1, <1>3, Recursion
<1>6. \A i \in 1..n : f[i] = 10 * f[i - 1] + ds[i] - 48
  <2>1. \A i \in 1..n : i - 1 \in 0..n
    BY <1>1
  <2>2. QED BY <1>4, <1>5, <2>1 DEF Recursive
<1>7. Reads(f)
  BY <1>1, <1>5, <1>6 DEF Recursive
<1> DEFINE upto == CHOOSE g : Reads(g)
<1>8. Magnitude(ds) = upto[n]
  BY DEF Magnitude, n
<1>9. Reads(upto)
  BY <1>7
<1> HIDE DEF upto
<1>10. upto[0] = 0 /\ \A i \in 1..n : upto[i] = 10 * upto[i - 1] + ds[i] - 48
  BY <1>1, <1>9
<1> HIDE DEF Reads
<1>11. \A i \in 1..n : upto[i - 1] \in S => upto[i] \in S
  BY <1>2, <1>10
<1>12. \A i \in 0..n : upto[i] \in S
  BY <1>1, <1>10, <1>11, RecursionStays
<1>13. QED BY <1>1, <1>8, <1>12 DEF S

LEMMA SignedGood ==
  ASSUME NEW kind, NEW ds, Sequence(ds), NEW sign \in Int
  PROVE  Good(Signed(sign, ds), kind)
<1>1. CASE ds = <<>> \/ ~(ToSet(ds) \subseteq Digits)
  BY <1>1, NumGood DEF Signed
<1>2. CASE ~(ds = <<>> \/ ~(ToSet(ds) \subseteq Digits))
  <2>1. ToSet(ds) \subseteq Int
    BY <1>2 DEF Digits
  <2>2. ds \in Seq(Int)
    BY <2>1, SequenceIs
  <2>3. Magnitude(ds) \in Int
    BY <2>2, MagnitudeInt
  <2>4. sign * Magnitude(ds) \in Int
    BY <2>3
  <2>5. Signed(sign, ds) = Num(Wrap(sign * Magnitude(ds)))
    BY <1>2 DEF Signed
  <2>6. QED BY <2>4, <2>5, NumGood
<1>3. QED BY <1>1, <1>2

\* val_conv to a number.
LEMMA ToNumGood ==
  ASSUME NEW kind, NEW v, Good(v, kind)
  PROVE  Good(ToNum(v), kind)
<1>1. ASSUME NEW s, Sequence(s) PROVE Good(Parsed(s), kind)
  <2>1. CASE s # <<>> /\ s[1] \in {43, 45}
    <3>1. s \in Seq(ToSet(s))
      BY <1>1 DEF Sequence
    <3>2. Tail(s) \in Seq(ToSet(s))
      BY <2>1, <3>1
    <3>3. Sequence(Tail(s)) /\ 44 - s[1] \in Int
      <4>1. Sequence(Tail(s))
        BY <3>2, SequenceOf
      <4>2. 44 - s[1] \in Int
        BY <2>1
      <4>3. QED BY <4>1, <4>2
    <3>4. Parsed(s) = Signed(44 - s[1], Tail(s))
      BY <2>1 DEF Parsed
    <3>5. QED BY <3>3, <3>4, SignedGood
  <2>2. CASE ~(s # <<>> /\ s[1] \in {43, 45})
    <3>1. Parsed(s) = Signed(1, s)
      BY <2>2 DEF Parsed
    <3>2. QED BY <1>1, <3>1, SignedGood
  <2>3. QED BY <2>1, <2>2
<1>2. ASSUME NEW s, Sequence(s) PROVE Sequence(Unblanked(s))
  <2> DEFINE used == {i \in DOMAIN s : s[i] \notin Blank}
  <2>1. CASE used = {}
    BY <2>1, TextSequences DEF Unblanked
  <2>2. CASE used # {}
    <3>1. Len(s) \in Nat /\ DOMAIN s = 1..Len(s)
      BY <1>2, SequenceIs
    <3>2. used \in SUBSET Nat /\ \A i \in used : i >= 1
      BY <3>1
    <3>3. Min(used) \in used
      BY <2>2, <3>2, MinIs
    <3>4. Min(used) \in Nat /\ Min(used) >= 1
      BY <3>2, <3>3
    <3>5. Len(s) \in 0..Len(s)
      BY <3>1
    <3>6. Unblanked(s) = SubSeq(s, Min(used), Len(s))
      BY <2>2 DEF Unblanked
    <3> HIDE DEF used
    <3>7. QED BY <1>2, <3>4, <3>5, <3>6, SequenceSub
  <2>3. QED BY <2>1, <2>2
<1>3. CASE v.t = "num"
  BY <1>3 DEF ToNum
<1>4. CASE v.t = "str" /\ v.s = <<>>
  <2>1. ToNum(v) = Num(0)
    BY <1>4 DEF ToNum
  <2>2. 0 \in MinInt..MaxInt
    BY Ints
  <2>3. QED BY <2>1, <2>2, NumGood
<1>5. CASE v.t = "str" /\ v.s # <<>>
  <2>1. ToNum(v) = Parsed(Unblanked(v.s)) /\ Sequence(v.s)
    BY <1>5 DEF ToNum, Good
  <2>2. QED BY <1>1, <1>2, <2>1
<1>6. CASE v.t \notin {"num", "str"}
  <2>1. ToNum(v) = Undef
    BY <1>6 DEF ToNum
  <2>2. QED BY <2>1, NumGood
<1>7. QED BY <1>3, <1>4, <1>5, <1>6

---------------------------------------------------------------------------
(* What the operations yield may be stored. *)

\* A string times a number.
LEMMA TimesText ==
  ASSUME NEW s, Sequence(s), NEW nr \in Nat
  PROVE  Sequence(Times(s, nr))
<1>1. Len(s) \in Nat
  BY SequenceIs
<1>2. nr * Len(s) \in Nat
  BY <1>1
<1> DEFINE n == nr * Len(s)
           f == [i \in 1..n |-> s[((i - 1) % Len(s)) + 1]]
<1>3. f = [i \in 1..n |-> f[i]]
  OBVIOUS
<1>4. Times(s, nr) = f
  BY DEF Times
<1> HIDE DEF f
<1>5. QED BY <1>2, <1>3, <1>4, SequenceMade

\* The texts of the items with separators, by induction over the items.
LEMMA JoinText ==
  ASSUME NEW kind, NEW slots, Filled(slots, kind), NEW sep, Sequence(sep)
  PROVE  Sequence(Join(slots, sep))
<1> DEFINE n == Len(slots)
           T == ToSet(sep) \cup UNION {ToSet(ToStr(slots[i])) : i \in 1..n}
           S == Seq(T)
           Joined(m, i) == m \o (IF i = 1 THEN <<>> ELSE sep) \o ToStr(slots[i])
           step == [x \in (1..n) \X S |-> Joined(x[2], x[1])]
           Joins(f) == f = [i \in 0..n |-> IF i = 0 THEN <<>> ELSE Joined(f[i - 1], i)]
<1>1. n \in Nat /\ <<>> \in S
  BY SequenceIs DEF Filled
<1>2. \A i \in 1..n : Sequence(ToStr(slots[i])) /\ ToSet(ToStr(slots[i])) \subseteq T
  BY ToStrText DEF Filled
<1>3. \A i \in 1..n : ToStr(slots[i]) \in Seq(T)
  BY <1>2, SequenceIs
<1>4. sep \in Seq(T)
  BY SequenceIs
<1> HIDE DEF T, n
<1>5. ASSUME NEW i \in 1..n, NEW m \in S PROVE Joined(m, i) \in S
  <2>1. ToStr(slots[i]) \in Seq(T)
    BY <1>3
  <2>2. (IF i = 1 THEN <<>> ELSE sep) \in Seq(T)
    BY <1>4
  <2>3. \A a, b, c \in Seq(T) : a \o b \o c \in Seq(T)
    OBVIOUS
  <2>4. QED BY <2>1, <2>2, <2>3
<1> HIDE DEF Joined
<1>6. step \in [(1..n) \X S -> S]
  BY <1>5
<1>7. \A i \in 1..n, m \in S : step[<<i, m>>] = Joined(m, i)
  OBVIOUS
<1> HIDE DEF step, S
<1>8. PICK f : Recursive(f, S, <<>>, n, step)
  BY <1>1, <1>6, Recursion
<1>9. \A i \in 1..n : f[i] = Joined(f[i - 1], i)
  <2>1. \A i \in 1..n : i - 1 \in 0..n
    BY <1>1
  <2>2. QED BY <1>7, <1>8, <2>1 DEF Recursive
<1>10. Joins(f)
  BY <1>1, <1>8, <1>9 DEF Recursive
<1> DEFINE joined == CHOOSE g : Joins(g)
<1>11. Join(slots, sep) = joined[n]
  BY DEF Join, n, Joined
<1>12. Joins(joined)
  BY <1>10
<1> HIDE DEF joined
<1>13. joined[0] = <<>> /\ \A i \in 1..n : joined[i] = Joined(joined[i - 1], i)
  BY <1>1, <1>12
<1> HIDE DEF Joins
<1>14. \A i \in 1..n : joined[i - 1] \in S => joined[i] \in S
  BY <1>5, <1>13
<1>15. \A i \in 0..n : joined[i] \in S
  BY <1>1, <1>13, <1>14, RecursionStays
<1>16. joined[n] \in Seq(T)
  BY <1>1, <1>15 DEF S
<1>17. QED BY <1>11, <1>16, SequenceOf

\* The array or map a value refers to.
LEMMA SlotsOf ==
  ASSUME NEW kind, NEW arrs, Store(arrs, kind), NEW v, Good(v, kind), v.t \in {"arr", "map"}
  PROVE  /\ v.n \in 1..Len(arrs)
         /\ Filled(arrs[v.n], kind)
         /\ v.t = "map" => Tidy(arrs[v.n], kind) /\ IsMap(arrs[v.n])
<1>1. v.n \in DOMAIN kind /\ kind[v.n] = v.t
  BY DEF Good
<1>2. DOMAIN kind = 1..Len(arrs)
  BY DEF Store
<1>3. QED BY <1>1, <1>2 DEF Store, SlotsOK, Tidy

LEMMA GoodResult ==
  ASSUME NEW kind
  PROVE  /\ \A r : Good(r, kind) => Result(r, kind)
         /\ \A s : Tidy(s, kind) => Result(NewArr(s), kind)
         /\ \A s : Tidy(s, kind) /\ IsMap(s) => Result(NewMap(s), kind)
         /\ Result(Crash, kind)
         /\ Result(Undef, kind)
BY NumGood DEF Result, NewArr, NewMap, Crash

LEMMA GetResult ==
  ASSUME NEW kind, NEW s, Filled(s, kind), NEW i \in Int
  PROVE  Result(ArrGet(s, i), kind)
<1>1. CASE i < 0
  BY <1>1, ArrGetGood, GoodResult
<1>2. CASE i >= 0
  BY <1>2, ArrGetGood, GoodResult
<1>3. QED BY <1>1, <1>2

\* What remains of slots without the undefined ones at the end.
LEMMA TrimTidy ==
  ASSUME NEW kind, NEW s, Filled(s, kind)
  PROVE  Tidy(Trim(s), kind)
<1>1. s \in Seq(ToSet(s)) /\ \A x \in ToSet(s) : Good(x, kind)
  BY FilledIs
<1>2. Trim(s) \in Seq(ToSet(s)) /\ LastUsed(Trim(s))
  BY <1>1, TrimIn
<1>3. QED BY <1>1, <1>2, FilledIs DEF Tidy

LEMMA LenInt ==
  ASSUME NEW kind, NEW arrs, Store(arrs, kind), NEW v, Good(v, kind)
  PROVE  ValLen(v, arrs) \in Int
<1>1. CASE v.t = "str"
  <2>1. ValLen(v, arrs) = Len(v.s) /\ Sequence(v.s)
    BY <1>1 DEF ValLen, Good
  <2>2. QED BY <2>1, SequenceIs
<1>2. CASE v.t \in {"arr", "map"}
  <2>1. Len(arrs[v.n]) \in Nat
    BY <1>2, SlotsOf, SequenceIs DEF Filled
  <2>2. Len(arrs[v.n]) \div 2 \in Nat
    BY <2>1, Halves
  <2>3. CASE v.t = "arr"
    BY <2>1, <2>3 DEF ValLen
  <2>4. CASE v.t = "map"
    BY <2>2, <2>4 DEF ValLen
  <2>5. QED BY <1>2, <2>3, <2>4
<1>3. CASE v.t \notin {"str", "arr", "map"}
  BY <1>3 DEF ValLen
<1>4. QED BY <1>1, <1>2, <1>3

LEMMA DupResult ==
  ASSUME NEW kind, NEW arrs, Store(arrs, kind), NEW v, Good(v, kind)
  PROVE  Result(ValDup(v, arrs), kind)
<1>1. CASE v.t = "arr"
  <2>1. Tidy(Trim(arrs[v.n]), kind)
    BY <1>1, SlotsOf, TrimTidy
  <2>2. QED BY <1>1, <2>1, GoodResult DEF ValDup
<1>2. CASE v.t = "map"
  <2> DEFINE s == arrs[v.n]
  <2>1. s \in Seq(ToSet(s)) /\ \A x \in ToSet(s) : Good(x, kind)
    BY <1>2, SlotsOf, FilledIs
  <2>2. MapDup(s) \in Seq(ToSet(s)) /\ LastUsed(MapDup(s)) /\ IsMap(MapDup(s))
    BY <2>1, MapDupMap
  <2>3. Tidy(MapDup(s), kind)
    BY <2>1, <2>2, FilledIs DEF Tidy
  <2>4. ValDup(v, arrs) = NewMap(MapDup(s))
    BY <1>2 DEF ValDup
  <2>5. QED BY <2>2, <2>3, <2>4, GoodResult
<1>3. CASE v.t = "ref"
  <2>1. ValDup(v, arrs) = Ref(0)
    BY <1>3 DEF ValDup
  <2>2. Good(Ref(0), kind)
    BY DEF Good, Ref
  <2>3. QED BY <2>1, <2>2, GoodResult
<1>4. CASE v.t \notin {"arr", "map", "ref"}
  <2>1. ValDup(v, arrs) = v
    BY <1>4 DEF ValDup
  <2>2. QED BY <2>1, GoodResult
<1>5. QED BY <1>1, <1>2, <1>3, <1>4

LEMMA AddResult ==
  ASSUME NEW kind, NEW arrs, Store(arrs, kind), NEW v, NEW w, Good(v, kind), Good(w, kind)
  PROVE  Result(ValAdd(v, w, arrs), kind)
<1>1. CASE v.t = "str" /\ w.t = "str"
  <2>1. ValAdd(v, w, arrs) = Str(v.s \o w.s)
    BY <1>1 DEF ValAdd
  <2>2. Sequence(v.s) /\ Sequence(w.s)
    BY <1>1 DEF Good
  <2>3. QED BY <2>1, <2>2, SequenceConcat, StrGood, GoodResult
<1>2. CASE v.t = "num" /\ w.t = "num"
  <2>1. ValAdd(v, w, arrs) = Num(Wrap(v.n + w.n))
    BY <1>2 DEF ValAdd
  <2>2. v.n + w.n \in Int
    BY <1>2, Ints DEF Good
  <2>3. QED BY <2>1, <2>2, NumGood, GoodResult
<1>3. CASE v.t = "arr"
  <2> DEFINE s == Trim(arrs[v.n])
  <2>1. Tidy(s, kind)
    BY <1>3, SlotsOf, TrimTidy
  <2>2. s \in Seq(ToSet(s)) /\ LastUsed(s) /\ \A x \in ToSet(s) : Good(x, kind)
    BY <2>1, FilledIs DEF Tidy
  <2> HIDE DEF s
  <2>3. CASE w.t = "arr"
    <3> DEFINE more == arrs[w.n]
               T == ToSet(s) \cup ToSet(more)
    <3>1. more \in Seq(ToSet(more)) /\ \A x \in ToSet(more) : Good(x, kind)
      BY <2>3, SlotsOf, FilledIs
    <3>2. s \in Seq(T) /\ more \in Seq(T) /\ \A x \in T : Good(x, kind)
      BY <2>2, <3>1
    <3> HIDE DEF T, more
    <3>3. Tidy(ArrAdd(s, more), kind)
      BY <2>2, <3>2, ArrAddIn, FilledIs DEF Tidy
    <3>4. ValAdd(v, w, arrs) = NewArr(ArrAdd(s, more))
      BY <1>3, <2>3 DEF ValAdd, s, more
    <3>5. QED BY <3>3, <3>4, GoodResult
  <2>4. CASE w.t # "arr"
    <3> DEFINE T == ToSet(s) \cup {w}
    <3>1. s \in Seq(T) /\ w \in T /\ \A x \in T : Good(x, kind)
      BY <2>2
    <3> HIDE DEF T
    <3>2. Tidy(ArrPush(s, w), kind)
      BY <2>2, <3>1, ArrPushIn, FilledIs DEF Tidy
    <3>3. ValAdd(v, w, arrs) = NewArr(ArrPush(s, w))
      BY <1>3, <2>4 DEF ValAdd, s
    <3>4. QED BY <3>2, <3>3, GoodResult
  <2>5. QED BY <2>3, <2>4
<1>4. CASE /\ ~(v.t = "str" /\ w.t = "str")
           /\ ~(v.t = "num" /\ w.t = "num")
           /\ v.t # "arr"
  <2>1. ValAdd(v, w, arrs) = Undef
    BY <1>4 DEF ValAdd
  <2>2. QED BY <2>1, GoodResult
<1>5. QED BY <1>1, <1>2, <1>3, <1>4

LEMMA MulResult ==
  ASSUME NEW kind, NEW arrs, Store(arrs, kind), NEW v, NEW w, Good(v, kind), Good(w, kind)
  PROVE  Result(ValMul(v, w, arrs), kind)
<1>1. CASE Nums(v, w)
  <2>1. ValMul(v, w, arrs) = Num(Wrap(v.n * w.n))
    BY <1>1 DEF ValMul, Nums
  <2>2. v.n \in Int /\ w.n \in Int
    BY <1>1, Ints DEF Good, Nums
  <2>3. v.n * w.n \in Int
    BY <2>2
  <2>4. QED BY <2>1, <2>3, NumGood, GoodResult
<1>2. CASE v.t = "str" /\ w.t = "num"
  <2>1. ValMul(v, w, arrs) = IF w.n < 0 THEN Crash ELSE Str(Times(v.s, w.n))
    BY <1>2 DEF ValMul, Nums
  <2>2. w.n \in Int /\ Sequence(v.s)
    BY <1>2, Ints DEF Good
  <2>3. CASE w.n < 0
    BY <2>1, <2>3, GoodResult
  <2>4. CASE ~(w.n < 0)
    <3>1. w.n \in Nat
      BY <2>2, <2>4
    <3>2. Sequence(Times(v.s, w.n))
      BY <2>2, <3>1, TimesText
    <3>3. QED BY <2>1, <2>4, <3>2, StrGood, GoodResult
  <2>5. QED BY <2>3, <2>4
<1>3. CASE v.t = "arr" /\ w.t = "str"
  <2>1. ValMul(v, w, arrs) = Str(Join(arrs[v.n], w.s))
    BY <1>3 DEF ValMul, Nums
  <2>2. Sequence(w.s)
    BY <1>3 DEF Good
  <2>3. Filled(arrs[v.n], kind)
    BY <1>3, SlotsOf
  <2>4. QED BY <2>1, <2>2, <2>3, JoinText, StrGood, GoodResult
<1>4. CASE /\ ~Nums(v, w)
           /\ ~(v.t = "str" /\ w.t = "num")
           /\ ~(v.t = "arr" /\ w.t = "str")
  <2>1. ValMul(v, w, arrs) = Undef
    BY <1>4 DEF ValMul
  <2>2. QED BY <2>1, GoodResult
<1>5. QED BY <1>1, <1>2, <1>3, <1>4

\* Division with remainder.
LEMMA Division ==
  ASSUME NEW a \in Nat, NEW b \in Nat, b >= 1
  PROVE  /\ a \div b \in Nat
         /\ a \div b <= a
         /\ b >= 2 => 2 * (a \div b) <= a
         /\ a - b * (a \div b) \in 0..(b - 1)
<1> DEFINE q == a \div b
           r == a % b
<1>1. q \in Nat /\ r \in 0..(b - 1) /\ a = b * q + r
  OBVIOUS
<1> HIDE DEF q, r
<1>2. b * q \in Nat /\ b * q <= a /\ a - b * q = r
  BY <1>1
<1>3. q <= b * q
  BY <1>1
<1>4. b >= 2 => 2 * q <= b * q
  BY <1>1
<1>5. QED BY <1>1, <1>2, <1>3, <1>4 DEF q

\* The processor's division stays within the ints unless it traps.
LEMMA QuotientInt ==
  ASSUME NEW i \in MinInt..MaxInt, NEW j \in MinInt..MaxInt, j # 0, ~(i = MinInt /\ j = -1)
  PROVE  /\ Quotient(i, j) \in MinInt..MaxInt
         /\ i - j * Quotient(i, j) \in MinInt..MaxInt
<1>1. MaxInt \in Nat /\ MaxInt >= 1 /\ MinInt = -MaxInt - 1 /\ i \in Int /\ j \in Int
  BY Ints
<1> DEFINE a == Abs(i)
           b == Abs(j)
           q == a \div b
<1>2. a \in Nat /\ b \in Nat /\ b >= 1 /\ a <= MaxInt + 1 /\ b <= MaxInt + 1
  BY <1>1 DEF Abs
<1>3. (i = a \/ i = -a) /\ (i < 0 => i = -a) /\ (~(i < 0) => i = a)
      /\ (j < 0 => j = -b) /\ (~(j < 0) => j = b)
  BY <1>1 DEF Abs
<1> HIDE DEF a, b
<1>4. q \in Nat /\ q <= a /\ (b >= 2 => 2 * q <= a) /\ a - b * q \in 0..(b - 1)
  BY <1>2, Division
<1>5. Quotient(i, j) = IF (i < 0) = (j < 0) THEN q ELSE -q
  BY DEF Quotient, a, b
<1> HIDE DEF q
<1>6. b * q \in Nat /\ b * (-q) = -(b * q) /\ (-b) * q = -(b * q) /\ (-b) * (-q) = b * q
  BY <1>2, <1>4
<1>7. CASE i < 0 /\ j < 0
  <2>1. Quotient(i, j) = q /\ j * q = -(b * q)
    BY <1>3, <1>5, <1>6, <1>7
  <2>2. b = 1 => a <= MaxInt
    BY <1>1, <1>2, <1>3, <1>7
  <2>3. q <= MaxInt
    BY <1>1, <1>2, <1>4, <2>2
  <2>4. QED BY <1>1, <1>2, <1>3, <1>4, <1>6, <1>7, <2>1, <2>3
<1>8. CASE ~(i < 0) /\ ~(j < 0)
  <2>1. Quotient(i, j) = q /\ j * q = b * q
    BY <1>3, <1>5, <1>8
  <2>2. QED BY <1>1, <1>2, <1>3, <1>4, <1>6, <1>8, <2>1
<1>9. CASE i < 0 /\ ~(j < 0)
  <2>1. Quotient(i, j) = -q /\ j * (-q) = -(b * q)
    BY <1>3, <1>5, <1>6, <1>9
  <2>2. QED BY <1>1, <1>2, <1>3, <1>4, <1>6, <1>9, <2>1
<1>10. CASE ~(i < 0) /\ j < 0
  <2>1. Quotient(i, j) = -q /\ j * (-q) = b * q
    BY <1>3, <1>5, <1>6, <1>10
  <2>2. QED BY <1>1, <1>2, <1>3, <1>4, <1>6, <1>10, <2>1
<1>11. QED BY <1>7, <1>8, <1>9, <1>10

LEMMA NumberResults ==
  ASSUME NEW kind, NEW v, NEW w, Good(v, kind), Good(w, kind)
  PROVE  /\ Result(ValSub(v, w), kind)
         /\ Result(ValDiv(v, w), kind)
         /\ Result(ValMod(v, w), kind)
         /\ Result(ValNeg(v), kind)
<1>1. CASE Nums(v, w)
  <2>1. v.n \in MinInt..MaxInt /\ w.n \in MinInt..MaxInt /\ v.t = "num"
    BY <1>1 DEF Good, Nums
  <2>2. v.n - w.n \in Int /\ -v.n \in Int
    BY <2>1, Ints
  <2>3. Result(ValSub(v, w), kind)
    BY <1>1, <2>2, NumGood, GoodResult DEF ValSub
  <2>4. Result(ValNeg(v), kind)
    BY <2>1, <2>2, NumGood, GoodResult DEF ValNeg
  <2>5. CASE Traps(v, w)
    <3>1. ValDiv(v, w) = Crash /\ ValMod(v, w) = Crash
      BY <1>1, <2>5 DEF ValDiv, ValMod
    <3>2. QED BY <2>3, <2>4, <3>1, GoodResult
  <2>6. CASE ~Traps(v, w)
    <3>1. /\ ValDiv(v, w) = Num(Quotient(v.n, w.n))
          /\ ValMod(v, w) = Num(v.n - w.n * Quotient(v.n, w.n))
      BY <1>1, <2>6 DEF ValDiv, ValMod
    <3>2. /\ Quotient(v.n, w.n) \in MinInt..MaxInt
          /\ v.n - w.n * Quotient(v.n, w.n) \in MinInt..MaxInt
      BY <2>1, <2>6, QuotientInt DEF Traps
    <3>3. QED BY <2>3, <2>4, <3>1, <3>2, NumGood, GoodResult
  <2>7. QED BY <2>5, <2>6
<1>2. CASE ~Nums(v, w)
  <2>1. ValSub(v, w) = Undef /\ ValDiv(v, w) = Undef /\ ValMod(v, w) = Undef
    BY <1>2 DEF ValSub, ValDiv, ValMod
  <2>2. Result(ValNeg(v), kind)
    <3>1. CASE v.t = "num"
      <4>1. -v.n \in Int
        BY <3>1, Ints DEF Good
      <4>2. QED BY <3>1, <4>1, NumGood, GoodResult DEF ValNeg
    <3>2. CASE v.t # "num"
      BY <3>2, GoodResult DEF ValNeg
    <3>3. QED BY <3>1, <3>2
  <2>3. QED BY <2>1, <2>2, GoodResult
<1>3. QED BY <1>1, <1>2

LEMMA IndexResult ==
  ASSUME NEW kind, NEW arrs, Store(arrs, kind), NEW v, NEW i, Good(v, kind), Good(i, kind)
  PROVE  Result(ValIndex(v, i, arrs), kind)
<1>1. i.t = "num" => i.n \in Int
  BY Ints DEF Good
<1>2. CASE v.t = "arr" /\ i.t = "num"
  <2>1. ValIndex(v, i, arrs) = ArrGet(arrs[v.n], i.n)
    BY <1>2 DEF ValIndex
  <2>2. Filled(arrs[v.n], kind)
    BY <1>2, SlotsOf
  <2>3. QED BY <1>1, <1>2, <2>1, <2>2, GetResult
<1>3. CASE v.t = "str" /\ i.t = "num"
  <2>1. ValIndex(v, i, arrs) =
          IF i.n < 0 THEN Crash ELSE IF i.n < Len(v.s) THEN Str(<<v.s[i.n + 1]>>) ELSE Str(<<>>)
    BY <1>3 DEF ValIndex
  <2>2. Good(Str(<<>>), kind) /\ Good(Str(<<v.s[i.n + 1]>>), kind)
    BY TextSequences, StrGood
  <2>3. QED BY <2>1, <2>2, GoodResult
<1>4. CASE v.t = "map"
  <2>1. ValIndex(v, i, arrs) = MapGet(arrs[v.n], i)
    BY <1>4 DEF ValIndex
  <2>2. QED BY <1>4, <2>1, SlotsOf, MapGetGood, GoodResult
<1>5. CASE ~(v.t \in {"arr", "str"} /\ i.t = "num") /\ v.t # "map"
  <2>1. ValIndex(v, i, arrs) = Undef
    BY <1>5 DEF ValIndex
  <2>2. QED BY <2>1, GoodResult
<1>6. QED BY <1>2, <1>3, <1>4, <1>5

---------------------------------------------------------------------------
(* The store of arrays. *)

\* What was storable stays so when another array is created.
LEMMA Grows ==
  ASSUME NEW kind, NEW more, DOMAIN kind \subseteq DOMAIN more,
         \A a \in DOMAIN kind : more[a] = kind[a]
  PROVE  /\ \A v : Good(v, kind) => Good(v, more)
         /\ \A s : Filled(s, kind) => Filled(s, more)
         /\ \A s : Tidy(s, kind) => Tidy(s, more)
<1>1. ASSUME NEW v, Good(v, kind) PROVE Good(v, more)
  BY <1>1 DEF Good
<1>2. ASSUME NEW s, Filled(s, kind) PROVE Filled(s, more)
  BY <1>1, <1>2 DEF Filled
<1>3. ASSUME NEW s, Tidy(s, kind) PROVE Tidy(s, more)
  BY <1>2, <1>3 DEF Tidy
<1>4. QED BY <1>1, <1>2, <1>3

LEMMA StoreGrows ==
  ASSUME NEW kind, NEW arrs, Store(arrs, kind), NEW s, Tidy(s, kind),
         NEW k \in {"arr", "map"}, k = "map" => IsMap(s)
  PROVE  \E more : /\ Store(Append(arrs, s), more)
                   /\ ToSet(Append(arrs, s)) = ToSet(arrs) \cup {s}
                   /\ DOMAIN kind \subseteq DOMAIN more
                   /\ \A a \in DOMAIN kind : more[a] = kind[a]
                   /\ Len(arrs) + 1 \in DOMAIN more
                   /\ more[Len(arrs) + 1] = k
<1> DEFINE n == Len(arrs)
           more == [a \in 1..(n + 1) |-> IF a = n + 1 THEN k ELSE kind[a]]
           new == Append(arrs, s)
<1>1. n \in Nat /\ DOMAIN kind = 1..n
  BY SequenceIs DEF Store
<1> HIDE DEF n
<1>2. /\ DOMAIN kind \subseteq DOMAIN more
      /\ \A a \in DOMAIN kind : more[a] = kind[a]
      /\ n + 1 \in DOMAIN more /\ more[n + 1] = k
  BY <1>1
<1>3. more \in [1..(n + 1) -> {"arr", "map"}]
  BY <1>1 DEF Store, n
<1> HIDE DEF more
<1>4. /\ Sequence(new) /\ Len(new) = n + 1
      /\ \A a \in 1..n : new[a] = arrs[a]
      /\ new[n + 1] = s
  BY SequenceAppend DEF Store, n
<1> HIDE DEF new
<1>5. ASSUME NEW a \in 1..(n + 1)
      PROVE  SlotsOK(new[a], more[a], more)
  <2>1. CASE a \in 1..n
    <3>1. SlotsOK(arrs[a], kind[a], kind)
      BY <2>1 DEF Store, n
    <3>2. Filled(arrs[a], more)
      BY <1>2, <3>1, Grows DEF SlotsOK
    <3>3. QED BY <1>1, <1>2, <1>4, <2>1, <3>1, <3>2 DEF SlotsOK
  <2>2. CASE a = n + 1
    <3>1. Tidy(s, more)
      BY <1>2, Grows
    <3>2. QED BY <1>2, <1>4, <2>2, <3>1 DEF SlotsOK, Tidy
  <2>3. a \in 1..n \/ a = n + 1
    BY <1>1
  <2>4. QED BY <2>1, <2>2, <2>3
<1>6. Store(new, more)
  BY <1>3, <1>4, <1>5 DEF Store
<1>7. ToSet(new) = ToSet(arrs) \cup {s}
  <2>1. ToSet(new) = {new[a] : a \in 1..(n + 1)} /\ ToSet(arrs) = {arrs[a] : a \in 1..n}
    BY <1>4, SequenceIs DEF Store, n
  <2>2. 1..(n + 1) = 1..n \cup {n + 1}
    BY <1>1
  <2>3. QED BY <1>4, <2>1, <2>2
<1>8. QED BY <1>2, <1>6, <1>7 DEF n, new

\* The slots of one array are replaced.
Replaced(arrs, n, s) == [arrs EXCEPT ![n] = s]

LEMMA StoreSet ==
  ASSUME NEW kind, NEW arrs, Store(arrs, kind), NEW n \in 1..Len(arrs),
         NEW s, SlotsOK(s, kind[n], kind)
  PROVE  /\ Store(Replaced(arrs, n, s), kind)
         /\ Len(Replaced(arrs, n, s)) = Len(arrs)
         /\ ToSet(Replaced(arrs, n, s)) \subseteq ToSet(arrs) \cup {s}
<1> DEFINE new == Replaced(arrs, n, s)
<1>1. arrs \in Seq(ToSet(arrs) \cup {s})
  BY SequenceIs DEF Store
<1>2. /\ new \in Seq(ToSet(arrs) \cup {s}) /\ Len(new) = Len(arrs)
      /\ \A j \in 1..Len(arrs) : new[j] = IF j = n THEN s ELSE arrs[j]
  BY <1>1 DEF Replaced
<1> HIDE DEF new
<1>3. Sequence(new) /\ ToSet(new) \subseteq ToSet(arrs) \cup {s}
  BY <1>2, SequenceOf
<1>4. QED BY <1>2, <1>3 DEF Store, new

\* val_index_assign leaves arrays arrays and maps maps.
LEMMA AssignedStore ==
  ASSUME NEW kind, NEW arrs, Store(arrs, kind), NEW a, NEW i, NEW v,
         Good(a, kind), Good(i, kind), Good(v, kind), ~WriteIsLost(a, i, v)
  PROVE  /\ Store(Assigned(a, i, v, arrs), kind)
         /\ Len(Assigned(a, i, v, arrs)) = Len(arrs)
         /\ \A s \in ToSet(Assigned(a, i, v, arrs)) \ ToSet(arrs) : LastUsed(s)
<1>1. CASE a.t = "arr" /\ i.t = "num"
  <2> DEFINE s == ArrSet(arrs[a.n], i.n, v)
  <2>1. Assigned(a, i, v, arrs) = [arrs EXCEPT ![a.n] = s]
    BY <1>1 DEF Assigned
  <2>2. a.n \in 1..Len(arrs) /\ Filled(arrs[a.n], kind) /\ kind[a.n] = "arr"
    BY <1>1, SlotsOf DEF Good
  <2>3. i.n \in Int /\ (v # Undef => i.n >= 0)
    BY <1>1, Ints DEF Good, WriteIsLost
  <2>4. Filled(s, kind) /\ (s = arrs[a.n] \/ LastUsed(s))
    BY <2>2, <2>3, ArrSetFilled
  <2>5. arrs[a.n] \in ToSet(arrs)
    BY <2>2, SequenceIs DEF Store
  <2> HIDE DEF s
  <2>6. SlotsOK(s, kind[a.n], kind)
    BY <2>2, <2>4 DEF SlotsOK
  <2> DEFINE new == Assigned(a, i, v, arrs)
  <2>7. new = Replaced(arrs, a.n, s)
    BY <2>1 DEF Replaced
  <2> HIDE DEF new
  <2>8. Store(new, kind) /\ Len(new) = Len(arrs) /\ ToSet(new) \subseteq ToSet(arrs) \cup {s}
    BY <2>2, <2>6, <2>7, StoreSet
  <2>9. QED BY <2>4, <2>5, <2>8 DEF new
<1>2. CASE a.t = "map"
  <2> DEFINE s == arrs[a.n]
             T == ToSet(s) \cup {i, v}
  <2>1. Assigned(a, i, v, arrs) = [arrs EXCEPT ![a.n] = MapSet(s, i, v)]
    BY <1>2 DEF Assigned
  <2>2. a.n \in 1..Len(arrs) /\ Tidy(s, kind) /\ IsMap(s)
    BY <1>2, SlotsOf
  <2> HIDE DEF s
  <2>3. s \in Seq(ToSet(s)) /\ \A x \in ToSet(s) : Good(x, kind)
    BY <2>2, FilledIs DEF Tidy
  <2>4. s \in Seq(T) /\ i \in T /\ v \in T /\ LastUsed(s) /\ \A x \in T : Good(x, kind)
    BY <2>2, <2>3 DEF Tidy
  <2> HIDE DEF T
  <2>5. MapSet(s, i, v) \in Seq(T) /\ LastUsed(MapSet(s, i, v)) /\ IsMap(MapSet(s, i, v))
    BY <2>2, <2>4, MapSetMap
  <2>6. SlotsOK(MapSet(s, i, v), kind[a.n], kind)
    BY <2>4, <2>5, FilledIs DEF SlotsOK
  <2> DEFINE new == Assigned(a, i, v, arrs)
  <2>7. new = Replaced(arrs, a.n, MapSet(s, i, v))
    BY <2>1 DEF Replaced
  <2> HIDE DEF new
  <2>8. Store(new, kind) /\ Len(new) = Len(arrs) /\ ToSet(new) \subseteq ToSet(arrs) \cup {MapSet(s, i, v)}
    BY <2>2, <2>6, <2>7, StoreSet
  <2>9. QED BY <2>5, <2>8 DEF new
<1>3. CASE ~(a.t = "arr" /\ i.t = "num") /\ a.t # "map"
  BY <1>3 DEF Assigned
<1>4. QED BY <1>1, <1>2, <1>3
===========================================================================
