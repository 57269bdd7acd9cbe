------------------------------ MODULE Values ------------------------------
(* The values of the interpreter and the operations on them (vm/val/).     *)
(*                                                                         *)
(* A value is a record of one shape: a number (t = "num", n), a string     *)
(* (t = "str", s: character codes), an array or a map (t = "arr" or "map", *)
(* n: its position in the store of arrays), a reference to a query result  *)
(* (t = "ref", n: the result, 0 for NULL) or the undefined value.          *)
(* Operations yield a value, a request for a new array or map with the     *)
(* given slots (t = "newarr", "newmap"), or Crash where the C code stops   *)
(* the process, hangs or has no meaning.  Reals are not represented.       *)
EXTENDS Integers, Sequences, SequencesExt, FiniteSets

CONSTANT Width    \* the bits of an int: 32 in C

ASSUME WidthAssumption == Width \in Nat /\ Width >= 2

Undef == [t |-> "undef", n |-> 0, s |-> <<>>]
Num(i) == [t |-> "num", n |-> i, s |-> <<>>]
Str(cs) == [t |-> "str", n |-> 0, s |-> cs]
Arr(a) == [t |-> "arr", n |-> a, s |-> <<>>]
Map(a) == [t |-> "map", n |-> a, s |-> <<>>]
Ref(r) == [t |-> "ref", n |-> r, s |-> <<>>]
NewArr(slots) == [t |-> "newarr", n |-> 0, s |-> slots]
NewMap(slots) == [t |-> "newmap", n |-> 0, s |-> slots]
Crash == [t |-> "crash", n |-> 0, s |-> <<>>]

Pow2[k \in 0..(Width - 1)] == IF k = 0 THEN 1 ELSE 2 * Pow2[k - 1]
MinInt == -Pow2[Width - 1]
MaxInt == Pow2[Width - 1] - 1

\* The int a sum, difference or product is stored as.
Wrap(i) == ((i - MinInt) % (MaxInt - MinInt + 1)) + MinInt

Bool(b) == Num(IF b THEN 1 ELSE 0)

---------------------------------------------------------------------------
(* Arrays: sequences of slots, the C index 0 first (arr.c). *)

\* arr_resize: undefined slots at the end are cut off.
Trim(slots) ==
  LET used == {i \in DOMAIN slots : slots[i] # Undef}
  IN IF used = {} THEN <<>> ELSE SubSeq(slots, 1, Max(used))

\* arr_get; a negative index reads outside the array.
ArrGet(slots, i) ==
  IF i < 0 THEN Crash ELSE IF i < Len(slots) THEN slots[i + 1] ELSE Undef

\* arr_set: an undefined value is not stored, a gap is filled with undefined
\* slots; i >= 0 unless v is undefined.
ArrSet(slots, i, v) ==
  IF v = Undef THEN slots
  ELSE Trim([j \in 1..Max({Len(slots), i + 1}) |->
               IF j = i + 1 THEN v ELSE IF j <= Len(slots) THEN slots[j] ELSE Undef])

\* arr_push
ArrPush(slots, v) == IF v = Undef THEN slots ELSE Append(slots, v)

\* arr_add: the defined slots of the second array follow the first.
ArrAdd(slots, more) ==
  LET added[i \in 0..Len(more)] == IF i = 0 THEN slots ELSE ArrPush(added[i - 1], more[i])
  IN added[Len(more)]

---------------------------------------------------------------------------
(* Comparison and truth. *)

\* str_cmp: by character, a proper prefix first.
StrCmp(s, t) ==
  LET before(x, y) == \E i \in DOMAIN y :
        /\ \A j \in 1..(i - 1) : j \in DOMAIN x /\ x[j] = y[j]
        /\ i \in DOMAIN x => x[i] < y[i]
  IN IF s = t THEN 0 ELSE IF before(s, t) THEN -1 ELSE 1

\* val_cmp: negative also when the types differ or have no order.
ValCmp(v, w) ==
  IF v.t # w.t \/ v.t \notin {"num", "str"} THEN -1
  ELSE IF v.t = "num" THEN Wrap(v.n - w.n) ELSE StrCmp(v.s, w.s)

\* val_to_bool; arrs is the store of arrays.  References are never true: no
\* operations are registered for them.
Truth(v, arrs) ==
  \/ v.t = "num" /\ v.n # 0
  \/ v.t = "str" /\ v.s # <<>>
  \/ v.t \in {"arr", "map"} /\ arrs[v.n] # <<>>

\* val_len
ValLen(v, arrs) ==
  CASE v.t = "str" -> Len(v.s)
    [] v.t = "arr" -> Len(arrs[v.n])
    [] v.t = "map" -> Len(arrs[v.n]) \div 2
    [] OTHER -> 0

---------------------------------------------------------------------------
(* Maps: keys and values in turn (map.c). *)

\* The pairs whose key equals k.
Pairs(slots, k) == {i \in 1..(Len(slots) \div 2) : ValCmp(slots[2 * i - 1], k) = 0}
NoKey(slots) == {i \in 1..(Len(slots) \div 2) : slots[2 * i - 1] = Undef}

MapGet(slots, k) == IF Pairs(slots, k) = {} THEN Undef ELSE slots[2 * Min(Pairs(slots, k))]

\* Mutant: a key that is there is added once more.
MapSet_Again(slots, k, v) == IF v = Undef THEN slots ELSE slots \o <<k, v>>

\* map_set: the value of a key is replaced, else a pair with an undefined key
\* is used, else a pair is added.  An undefined value is not stored.
MapSet(slots, k, v) ==
  CASE v = Undef -> slots
    [] v # Undef /\ Pairs(slots, k) # {} -> [slots EXCEPT ![2 * Min(Pairs(slots, k))] = v]
    [] v # Undef /\ Pairs(slots, k) = {} /\ NoKey(slots) # {} ->
         LET i == Min(NoKey(slots)) IN [slots EXCEPT ![2 * i - 1] = k, ![2 * i] = v]
    [] OTHER -> slots \o <<k, v>>

\* map_dup
MapDup(slots) ==
  LET copy[i \in 0..(Len(slots) \div 2)] ==
        IF i = 0 THEN <<>> ELSE MapSet(copy[i - 1], slots[2 * i - 1], slots[2 * i])
  IN copy[Len(slots) \div 2]

---------------------------------------------------------------------------
(* Conversion. *)

\* The characters printf writes for %d.
Decimal(i) ==
  LET m == IF i < 0 THEN -i ELSE i
      k == 1 + Cardinality({d \in 1..9 : m >= 10 ^ d})
      digits == [j \in 1..k |-> 48 + ((m \div (10 ^ (k - j))) % 10)]
  IN IF i < 0 THEN <<45>> \o digits ELSE digits

\* val_conv to T_STR: what is neither a string nor a number becomes "N/A".
ToStr(v) ==
  CASE v.t = "str" -> v.s
    [] v.t = "num" -> Decimal(v.n)
    [] OTHER -> <<78, 47, 65>>

\* val_conv to T_NUM, by strtoul: blanks, a sign, digits up to the end.  The
\* empty string is 0, any other without digits undefined.
Digits == 48..57

Blank == {32} \cup 9..13

\* The number a sign and digits stand for.
Magnitude(digits) ==
  LET upto[i \in 0..Len(digits)] == IF i = 0 THEN 0 ELSE 10 * upto[i - 1] + digits[i] - 48
  IN upto[Len(digits)]

Signed(sign, digits) ==
  IF digits = <<>> \/ ~(ToSet(digits) \subseteq Digits) THEN Undef
  ELSE Num(Wrap(sign * Magnitude(digits)))

Parsed(word) ==
  IF word # <<>> /\ word[1] \in {43, 45} THEN Signed(44 - word[1], Tail(word)) ELSE Signed(1, word)

\* What follows the blanks a string begins with.
Unblanked(s) ==
  LET used == {i \in DOMAIN s : s[i] \notin Blank}
  IN IF used = {} THEN <<>> ELSE SubSeq(s, Min(used), Len(s))

ToNum(v) ==
  CASE v.t = "num" -> v
    [] v.t = "str" /\ v.s = <<>> -> Num(0)
    [] v.t = "str" /\ v.s # <<>> -> Parsed(Unblanked(v.s))
    [] OTHER -> Undef

\* What is printed of a value: of an array or a map its slots, by val_to_string.
Shown(v, arrs) ==
  CASE v.t = "arr" -> NewArr(arrs[v.n])
    [] v.t = "map" -> NewMap(arrs[v.n])
    [] OTHER -> v

\* val_dup: numbers are shared, references copied as NULL.
ValDup(v, arrs) ==
  CASE v.t = "arr" -> NewArr(Trim(arrs[v.n]))
    [] v.t = "map" -> NewMap(MapDup(arrs[v.n]))
    [] v.t = "ref" -> Ref(0)
    [] OTHER -> v

---------------------------------------------------------------------------
(* Arithmetic, v first: val_add, val_sub, val_mul, val_div, val_mod, val_neg. *)

ValAdd(v, w, arrs) ==
  CASE v.t = "str" /\ w.t = "str" -> Str(v.s \o w.s)
    [] v.t = "num" /\ w.t = "num" -> Num(Wrap(v.n + w.n))
    [] v.t = "arr" /\ w.t = "arr" -> NewArr(ArrAdd(Trim(arrs[v.n]), arrs[w.n]))
    [] v.t = "arr" /\ w.t # "arr" -> NewArr(ArrPush(Trim(arrs[v.n]), w))
    [] OTHER -> Undef

Nums(v, w) == v.t = "num" /\ w.t = "num"

ValSub(v, w) == IF Nums(v, w) THEN Num(Wrap(v.n - w.n)) ELSE Undef

\* The items of an array as strings, with a separator between them.
Join(slots, sep) ==
  LET joined[i \in 0..Len(slots)] ==
        IF i = 0 THEN <<>>
        ELSE joined[i - 1] \o (IF i = 1 THEN <<>> ELSE sep) \o ToStr(slots[i])
  IN joined[Len(slots)]

Times(s, nr) == [i \in 1..(nr * Len(s)) |-> s[((i - 1) % Len(s)) + 1]]

\* A string times a negative number is repeated until memory runs out.
ValMul(v, w, arrs) ==
  CASE Nums(v, w) -> Num(Wrap(v.n * w.n))
    [] v.t = "str" /\ w.t = "num" ->
         IF w.n < 0 THEN Crash ELSE Str(Times(v.s, w.n))
    [] v.t = "arr" /\ w.t = "str" -> Str(Join(arrs[v.n], w.s))
    [] OTHER -> Undef

\* Division truncates towards zero; what the processor traps on is a crash.
Traps(v, w) == w.n = 0 \/ (v.n = MinInt /\ w.n = -1)

Abs(i) == IF i < 0 THEN -i ELSE i
Quotient(i, j) ==
  IF (i < 0) = (j < 0) THEN Abs(i) \div Abs(j) ELSE -(Abs(i) \div Abs(j))

ValDiv(v, w) ==
  IF ~Nums(v, w) THEN Undef ELSE IF Traps(v, w) THEN Crash ELSE Num(Quotient(v.n, w.n))

ValMod(v, w) ==
  IF ~Nums(v, w) THEN Undef ELSE IF Traps(v, w) THEN Crash
  ELSE Num(v.n - w.n * Quotient(v.n, w.n))

ValNeg(v) == IF v.t = "num" THEN Num(Wrap(-v.n)) ELSE Undef

---------------------------------------------------------------------------
(* Indexing: val_index. *)
ValIndex(v, i, arrs) ==
  CASE v.t = "arr" /\ i.t = "num" -> ArrGet(arrs[v.n], i.n)
    [] v.t = "str" /\ i.t = "num" ->
         IF i.n < 0 THEN Crash ELSE IF i.n < Len(v.s) THEN Str(<<v.s[i.n + 1]>>) ELSE Str(<<>>)
    [] v.t = "map" -> MapGet(arrs[v.n], i)
    [] OTHER -> Undef

\* val_index_assign has no defined end before an array's start, nor for a
\* string: the padding never stops, or memmove gets a negative length.
WriteIsLost(a, i, v) == i.t = "num" /\ (a.t = "str" \/ (a.t = "arr" /\ i.n < 0 /\ v # Undef))

\* val_index_assign otherwise: the store afterwards.
Assigned(a, i, v, arrs) ==
  CASE a.t = "arr" /\ i.t = "num" -> [arrs EXCEPT ![a.n] = ArrSet(@, i.n, v)]
    [] a.t = "map" -> [arrs EXCEPT ![a.n] = MapSet(@, i, v)]
    [] OTHER -> arrs
---------------------------------------------------------------------------
\* The names of the built-in functions modelled: distinct strings.
N_print == <<112>>
N_println == <<112, 108>>
N_getint == <<103>>
N_getstring == <<115>>
N_random == <<114>>
N_exit == <<120>>
N_myadd == <<109>>
N_dbconnect == <<100, 99>>
N_dbquery == <<100, 113>>
N_dbexec == <<100, 120>>
N_dbnext == <<100, 110>>
N_dbnextarray == <<100, 97>>
DbNatives == {N_dbconnect, N_dbquery, N_dbexec, N_dbnext, N_dbnextarray}
Natives == {N_print, N_println, N_getint, N_getstring, N_random, N_exit, N_myadd} \cup DbNatives
===========================================================================
