--------------------------- MODULE BuilderProofs ---------------------------
(* The allocation of variables, for every set of names and any sequence of *)
(* calls.                                                                  *)
EXTENDS Builder, TLAPS, SequenceTheorems

---------------------------------------------------------------------------
(* Lists of variables. *)

Entries == {Var(id) : id \in Ids \cup {Border}}
Lists == Seq(Entries)

LEMMA EntryNames ==
  /\ \A id \in Ids \cup {Border} : Var(id) \in Entries /\ Var(id).id = id
  /\ \A e \in Entries : e.id \in Ids \cup {Border}
<1>1. \A id : Var(id).id = id
  BY DEF Var
<1>2. QED BY <1>1 DEF Entries

\* more is list with the entry e after it.
AppendTo(list, e, more) ==
  /\ more \in Lists /\ DOMAIN more = 1..(Len(list) + 1) /\ DOMAIN list = 1..Len(list)
  /\ Len(list) \in Nat /\ Len(more) = Len(list) + 1
  /\ \A i \in 1..Len(list) : more[i] = list[i]
  /\ more[Len(list) + 1] = e

LEMMA AppendIs ==
  ASSUME NEW list \in Lists, NEW id \in Ids \cup {Border}
  PROVE  /\ AppendTo(list, Var(id), Append(list, Var(id)))
         /\ Var(id).id = id
BY EntryNames, AppendProperties DEF Lists, AppendTo

\* There is at most one last entry of a name.
LEMMA FoundOnce ==
  ASSUME NEW list \in Lists, NEW id, NEW b1 \in BOOLEAN, NEW b2 \in BOOLEAN,
         NEW i \in DOMAIN list, NEW j \in DOMAIN list,
         FoundAt(i, list, id, b1), FoundAt(j, list, id, b2)
  PROVE  i = j
<1>1. i \in 1..Len(list) /\ j \in 1..Len(list)
  BY DEF Lists
<1>2. ~(i < j) /\ ~(j < i)
  BY <1>1 DEF FoundAt
<1>3. QED BY <1>1, <1>2

LEMMA PositionIs ==
  ASSUME NEW list \in Lists, NEW id, NEW b \in BOOLEAN, NEW i \in DOMAIN list,
         FoundAt(i, list, id, b)
  PROVE  Position(list, id) = i /\ Found(list, id, FALSE)
<1>1. FoundAt(i, list, id, FALSE)
  BY DEF FoundAt
<1>2. \A j \in DOMAIN list : FoundAt(j, list, id, FALSE) => j = i
  BY <1>1, FoundOnce
<1>3. QED BY <1>1, <1>2 DEF Position, Found

\* What follows under another name does not hide an entry.
LEMMA AppendOther ==
  ASSUME NEW list \in Lists, NEW id, NEW other \in Ids \cup {Border}, other # id
  PROVE  /\ Found(Append(list, Var(other)), id, FALSE) <=> Found(list, id, FALSE)
         /\ Found(list, id, FALSE)
              => Position(Append(list, Var(other)), id) = Position(list, id)
<1> DEFINE more == Append(list, Var(other))
<1>1. /\ more \in Lists /\ DOMAIN more = 1..(Len(list) + 1) /\ DOMAIN list = 1..Len(list)
      /\ Len(list) \in Nat /\ Len(more) = Len(list) + 1
      /\ \A i \in 1..Len(list) : more[i] = list[i]
      /\ more[Len(list) + 1].id = other
  BY AppendIs DEF AppendTo
<1> HIDE DEF more
<1>2. \A i \in 1..Len(list) : FoundAt(i, more, id, FALSE) <=> FoundAt(i, list, id, FALSE)
  BY <1>1 DEF FoundAt
<1>3. ~FoundAt(Len(list) + 1, more, id, FALSE)
  BY <1>1 DEF FoundAt
<1>4. \A i \in DOMAIN more : FoundAt(i, more, id, FALSE) <=> i \in DOMAIN list /\ FoundAt(i, list, id, FALSE)
  BY <1>1, <1>2, <1>3 DEF FoundAt
<1>5. Found(more, id, FALSE) <=> Found(list, id, FALSE)
  <2>1. ASSUME Found(more, id, FALSE) PROVE Found(list, id, FALSE)
    <3>1. PICK i \in DOMAIN more : FoundAt(i, more, id, FALSE)
      BY <2>1 DEF Found
    <3>2. QED BY <1>4, <3>1 DEF Found
  <2>2. ASSUME Found(list, id, FALSE) PROVE Found(more, id, FALSE)
    <3>1. PICK i \in DOMAIN list : FoundAt(i, list, id, FALSE)
      BY <2>2 DEF Found
    <3>2. i \in DOMAIN more /\ FoundAt(i, more, id, FALSE)
      BY <1>1, <1>2, <3>1 DEF FoundAt
    <3>3. QED BY <3>2 DEF Found
  <2>3. QED BY <2>1, <2>2
<1>6. ASSUME Found(list, id, FALSE) PROVE Position(more, id) = Position(list, id)
  <2>1. PICK i \in DOMAIN list : FoundAt(i, list, id, FALSE)
    BY <1>6 DEF Found
  <2>2. i \in DOMAIN more /\ FoundAt(i, more, id, FALSE)
    BY <1>1, <1>2, <2>1 DEF FoundAt
  <2>3. QED BY <1>1, <2>1, <2>2, PositionIs
<1>7. QED BY <1>5, <1>6 DEF more

\* _var_add keeps names unique.
LEMMA AddUnique ==
  ASSUME NEW list \in Lists, NEW id \in Ids, Unique(list)
  PROVE  var_add(list, id) \in Lists /\ Unique(var_add(list, id))
<1>1. CASE Found(list, id, TRUE)
  BY <1>1 DEF var_add
<1>2. CASE ~Found(list, id, TRUE)
  <2> DEFINE more == Append(list, Var(id))
  <2>1. /\ more \in Lists /\ DOMAIN more = 1..(Len(list) + 1) /\ DOMAIN list = 1..Len(list)
        /\ Len(list) \in Nat
        /\ \A i \in 1..Len(list) : more[i] = list[i]
        /\ more[Len(list) + 1].id = id
    BY AppendIs DEF AppendTo
  <2> HIDE DEF more
  <2>2. SUFFICES ASSUME NEW i \in DOMAIN more, NEW j \in DOMAIN more,
                        i < j, more[i].id = more[j].id, more[i].id # Border
                 PROVE  \E k \in (i + 1)..(j - 1) : more[k].id = Border
    BY <1>2, <2>1 DEF var_add, Unique, more
  <2>3. CASE j <= Len(list)
    <3>1. \E k \in (i + 1)..(j - 1) : list[k].id = Border
      BY <2>1, <2>2, <2>3 DEF Unique
    <3>2. QED BY <2>1, <2>3, <3>1
  <2>4. CASE j = Len(list) + 1
    <3>1. i \in DOMAIN list /\ list[i].id = id /\ i \in Nat
      BY <2>1, <2>2, <2>4
    <3>2. ASSUME \A k \in (i + 1)..Len(list) : list[k].id # Border
          PROVE  FALSE
      <4>1. \A k \in (i + 1)..Len(list) : list[k].id # id
        <5> SUFFICES ASSUME NEW k \in (i + 1)..Len(list), list[k].id = id PROVE FALSE
          OBVIOUS
        <5>1. k \in DOMAIN list /\ i < k
          BY <2>1, <3>1
        <5>2. PICK m \in (i + 1)..(k - 1) : list[m].id = Border
          BY <2>2, <2>1, <3>1, <5>1 DEF Unique
        <5>3. m \in (i + 1)..Len(list)
          BY <2>1, <3>1
        <5>4. QED BY <3>2, <5>2, <5>3
      <4>2. FoundAt(i, list, id, TRUE)
        BY <3>1, <3>2, <4>1 DEF FoundAt
      <4>3. QED BY <1>2, <3>1, <4>2 DEF Found
    <3>3. PICK k \in (i + 1)..Len(list) : list[k].id = Border
      BY <3>2
    <3>4. QED BY <2>1, <2>4, <3>1, <3>3
  <2>5. QED BY <2>1, <2>2, <2>3, <2>4
<1>3. QED BY <1>1, <1>2

\* So does the border of a block, and whatever cuts a list off.
LEMMA BorderUnique ==
  ASSUME NEW list \in Lists, Unique(list)
  PROVE  Append(list, Var(Border)) \in Lists /\ Unique(Append(list, Var(Border)))
<1> DEFINE more == Append(list, Var(Border))
<1>1. /\ more \in Lists /\ DOMAIN more = 1..(Len(list) + 1) /\ DOMAIN list = 1..Len(list)
      /\ Len(list) \in Nat
      /\ \A i \in 1..Len(list) : more[i] = list[i]
      /\ more[Len(list) + 1].id = Border
  BY AppendIs DEF AppendTo
<1> HIDE DEF more
<1>2. SUFFICES ASSUME NEW i \in DOMAIN more, NEW j \in DOMAIN more,
                      i < j, more[i].id = more[j].id, more[i].id # Border
               PROVE  \E k \in (i + 1)..(j - 1) : more[k].id = Border
  BY <1>1 DEF Unique, more
<1>3. i \in DOMAIN list /\ j \in DOMAIN list
  BY <1>1, <1>2
<1>4. PICK k \in (i + 1)..(j - 1) : list[k].id = Border
  BY <1>1, <1>2, <1>3 DEF Unique
<1>5. QED BY <1>1, <1>3, <1>4

LEMMA PrefixUnique ==
  ASSUME NEW list \in Lists, Unique(list), NEW n \in 0..Len(list)
  PROVE  /\ SubSeq(list, 1, n) \in Lists
         /\ Unique(SubSeq(list, 1, n))
<1> DEFINE cut == SubSeq(list, 1, n)
<1>1. /\ cut \in Lists /\ DOMAIN cut = 1..n /\ DOMAIN list = 1..Len(list) /\ Len(list) \in Nat
      /\ \A i \in 1..n : cut[i] = list[i]
  BY DEF Lists
<1> HIDE DEF cut
<1>2. SUFFICES ASSUME NEW i \in 1..n, NEW j \in 1..n,
                      i < j, cut[i].id = cut[j].id, cut[i].id # Border
               PROVE  \E k \in (i + 1)..(j - 1) : cut[k].id = Border
  BY <1>1 DEF Unique, cut
<1>3. PICK k \in (i + 1)..(j - 1) : list[k].id = Border
  BY <1>1, <1>2 DEF Unique
<1>4. QED BY <1>1, <1>3

---------------------------------------------------------------------------
(* What every call keeps. *)

\* No operation adds or removes a field of the state; globals have no borders.
BuilderTypeOK ==
  /\ {"locals", "globals"} \subseteq DOMAIN st
  /\ st = [f \in DOMAIN st |-> st[f]]
  /\ st.locals \in Lists
  /\ st.globals \in Lists
  /\ \A i \in DOMAIN st.globals : st.globals[i].id # Border
  /\ outer \in Seq(Lists)

\* Every open block has its border right after the variables there were when it
\* was entered, which have not changed; no other borders are there.
Nested ==
  /\ \A k \in DOMAIN outer :
       /\ Len(outer[k]) + 1 \in DOMAIN st.locals
       /\ st.locals[Len(outer[k]) + 1].id = Border
       /\ \A j \in 1..Len(outer[k]) : st.locals[j] = outer[k][j]
  /\ \A i \in DOMAIN st.locals :
       st.locals[i].id = Border => \E m \in DOMAIN outer : Len(outer[m]) + 1 = i
  /\ \A k, m \in DOMAIN outer : k < m => Len(outer[k]) < Len(outer[m])

BuilderInv == BuilderTypeOK /\ NamesUnique /\ Nested

\* What is done to the container leaves the variables alone.
LEMMA FillIs ==
  ASSUME BuilderTypeOK, FillContainer
  PROVE  /\ st'.locals = st.locals /\ st'.globals = st.globals /\ outer' = outer
         /\ DOMAIN st' = DOMAIN st /\ st' = [f \in DOMAIN st' |-> st'[f]]
<1>1. CASE \E op \in Ops : AddOp(op)
  BY <1>1 DEF BuilderTypeOK, AddOp, add_op
<1>2. CASE \E i \in Numbers : AddNum(i)
  BY <1>2 DEF BuilderTypeOK, AddNum, add_num
<1>3. CASE \E at \in 0..(Len(st.ops) - 1), i \in Numbers : SetNum(at, i)
  BY <1>3 DEF BuilderTypeOK, SetNum, patch
<1>4. CASE \E v \in Constants : NewConstant(v)
  <2> PICK v \in Constants : NewConstant(v)
    BY <1>4
  <2> DEFINE same == {i \in DOMAIN st.constants : ValCmp(v, st.constants[i]) = 0}
  <2>1. \/ \E n : st' = [st EXCEPT !.nr = n]
        \/ \E n, cs : st' = [st EXCEPT !.constants = cs, !.nr = n]
    BY DEF NewConstant, new_constant
  <2>2. outer' = outer
    BY DEF NewConstant
  <2>3. QED BY <2>1, <2>2 DEF BuilderTypeOK
<1>5. CASE \E id \in Ids : RegisterFunction(id)
  BY <1>5 DEF BuilderTypeOK, RegisterFunction, register_function
<1>6. QED BY <1>1, <1>2, <1>3, <1>4, <1>5 DEF FillContainer

\* The calls that allocate add a name to one of the lists.
LEMMA AddIs ==
  ASSUME BuilderTypeOK, NEW id \in Ids, AddLocal(id) \/ AddGlobal(id) \/ GetOrAddLocal(id)
  PROVE  /\ \/ UNCHANGED builder
            \/ /\ st'.locals = Append(st.locals, Var(id)) /\ st'.globals = st.globals
               /\ st'.locals = var_add(st.locals, id)
               /\ ~Found(st.locals, id, TRUE)
               /\ AddLocal(id) \/ ~Known(st, id)
            \/ /\ st'.locals = st.locals /\ st'.globals = Append(st.globals, Var(id))
               /\ st'.globals = var_add(st.globals, id)
               /\ ~Found(st.globals, id, TRUE)
         /\ outer' = outer
         /\ DOMAIN st' = DOMAIN st /\ st' = [f \in DOMAIN st' |-> st'[f]]
<1>1. CASE AddLocal(id)
  BY <1>1 DEF BuilderTypeOK, AddLocal, add_local, var_add, builder
<1>2. CASE AddGlobal(id)
  BY <1>2 DEF BuilderTypeOK, AddGlobal, add_global, var_add, builder
<1>3. CASE GetOrAddLocal(id)
  BY <1>3 DEF BuilderTypeOK, GetOrAddLocal, get_or_addlocal, add_local, var_add, builder
<1>4. QED BY <1>1, <1>2, <1>3

\* Leaving the innermost block restores what was before it.
LEMMA LeaveIs ==
  ASSUME BuilderInv, LeaveBlock
  PROVE  LET n == Len(outer) p == Len(outer[n]) + 1
         IN /\ n \in DOMAIN outer /\ p \in DOMAIN st.locals
            /\ st'.locals = SubSeq(st.locals, 1, p - 1) /\ st'.globals = st.globals
            /\ outer' = SubSeq(outer, 1, n - 1)
            /\ DOMAIN st' = DOMAIN st /\ st' = [f \in DOMAIN st' |-> st'[f]]
<1> DEFINE n == Len(outer)
           p == Len(outer[n]) + 1
<1>1. /\ DOMAIN outer = 1..n /\ n \in Nat /\ DOMAIN st.locals = 1..Len(st.locals)
      /\ Len(st.locals) \in Nat
      /\ \A m \in 1..n : Len(outer[m]) \in Nat
  BY DEF BuilderInv, BuilderTypeOK, Lists
<1>2. n \in DOMAIN outer
  BY <1>1 DEF LeaveBlock, InBlock, BuilderInv, Nested
<1>3. p \in DOMAIN st.locals /\ st.locals[p].id = Border
  BY <1>2 DEF BuilderInv, Nested
<1>4. ASSUME NEW j \in (p + 1)..Len(st.locals), st.locals[j].id = Border PROVE FALSE
  <2>1. j \in DOMAIN st.locals /\ p < j
    BY <1>1, <1>2, <1>3
  <2>2. PICK m \in DOMAIN outer : Len(outer[m]) + 1 = j
    BY <1>4, <2>1 DEF BuilderInv, Nested
  <2>3. m = n \/ m < n
    BY <1>1, <2>2
  <2>4. m < n => Len(outer[m]) < Len(outer[n])
    BY <1>2, <2>2 DEF BuilderInv, Nested
  <2>5. QED BY <1>1, <1>2, <2>1, <2>2, <2>3, <2>4
<1>5. Position(st.locals, Border) = p
  <2>1. FoundAt(p, st.locals, Border, FALSE)
    BY <1>3, <1>4 DEF FoundAt
  <2>2. QED BY <1>3, <2>1, PositionIs DEF BuilderInv, BuilderTypeOK
<1> HIDE DEF p
<1>6. st' = [st EXCEPT !.locals = SubSeq(st.locals, 1, p - 1)]
  BY <1>5 DEF LeaveBlock, var_leave_block
<1>7. outer' = SubSeq(outer, 1, n - 1)
  BY DEF LeaveBlock, Front
<1>8. QED BY <1>2, <1>3, <1>6, <1>7 DEF BuilderInv, BuilderTypeOK, p

---------------------------------------------------------------------------
(* The invariant, one lemma per kind of call. *)

\* Nothing but the lists and outer matters.
LEMMA SameLists ==
  ASSUME BuilderInv, st'.locals = st.locals, st'.globals = st.globals, outer' = outer,
         DOMAIN st' = DOMAIN st, st' = [f \in DOMAIN st' |-> st'[f]]
  PROVE  BuilderInv'
BY DEF BuilderInv, BuilderTypeOK, NamesUnique, Nested

LEMMA AddKeeps ==
  ASSUME BuilderInv, NEW id \in Ids, AddLocal(id) \/ AddGlobal(id) \/ GetOrAddLocal(id)
  PROVE  BuilderInv'
<1>1. BuilderTypeOK /\ NamesUnique /\ Nested
  BY DEF BuilderInv
<1>2. id # Border
  BY BuilderAssumption
<1>0. /\ outer' = outer
      /\ DOMAIN st' = DOMAIN st /\ st' = [f \in DOMAIN st' |-> st'[f]]
  BY <1>1, AddIs
<1>7. id \in Ids \cup {Border} /\ st.locals \in Lists /\ st.globals \in Lists
  BY <1>1 DEF BuilderTypeOK
<1>3. CASE UNCHANGED builder
  BY <1>3, SameLists DEF BuilderInv, BuilderTypeOK, builder
<1>4. CASE /\ st'.locals = Append(st.locals, Var(id)) /\ st'.globals = st.globals
           /\ st'.locals = var_add(st.locals, id)
  <2>1. st'.locals \in Lists /\ Unique(st'.locals)
    BY <1>1, <1>4, AddUnique DEF BuilderTypeOK, NamesUnique
  <2>2. /\ DOMAIN st'.locals = 1..(Len(st.locals) + 1) /\ DOMAIN st.locals = 1..Len(st.locals)
        /\ Len(st.locals) \in Nat
        /\ \A i \in 1..Len(st.locals) : st'.locals[i] = st.locals[i]
        /\ st'.locals[Len(st.locals) + 1].id = id
    <3>1. AppendTo(st.locals, Var(id), Append(st.locals, Var(id)))
      BY <1>7, AppendIs DEF AppendTo
    <3>2. AppendTo(st.locals, Var(id), st'.locals)
      BY <1>4, <3>1
    <3>3. QED BY <3>2, <1>7, EntryNames DEF AppendTo
  <2>3. BuilderTypeOK' /\ NamesUnique'
    BY <1>0, <1>1, <1>4, <2>1 DEF BuilderTypeOK, NamesUnique
  <2>4. outer' = outer /\ \A k \in DOMAIN outer : outer[k] \in Lists /\ Len(outer[k]) \in Nat
    BY <1>0, <1>1 DEF BuilderTypeOK, Lists
  <2>5. Nested'
    <3>1. ASSUME NEW k \in DOMAIN outer
          PROVE  /\ Len(outer[k]) + 1 \in DOMAIN st'.locals
                 /\ st'.locals[Len(outer[k]) + 1].id = Border
                 /\ \A j \in 1..Len(outer[k]) : st'.locals[j] = outer[k][j]
      BY <1>1, <2>2, <2>4 DEF Nested
    <3>2. ASSUME NEW i \in DOMAIN st'.locals, st'.locals[i].id = Border
          PROVE  \E m \in DOMAIN outer : Len(outer[m]) + 1 = i
      <4>1. i \in DOMAIN st.locals /\ st.locals[i].id = Border
        BY <1>2, <2>2, <3>2
      <4>2. QED BY <1>1, <4>1 DEF Nested
    <3>3. QED BY <1>1, <2>4, <3>1, <3>2 DEF Nested
  <2>6. QED BY <2>3, <2>5 DEF BuilderInv
<1>5. CASE /\ st'.locals = st.locals /\ st'.globals = Append(st.globals, Var(id))
           /\ st'.globals = var_add(st.globals, id)
  <2>1. st'.globals \in Lists /\ Unique(st'.globals)
    BY <1>1, <1>5, AddUnique DEF BuilderTypeOK, NamesUnique
  <2>2. \A i \in DOMAIN st'.globals : st'.globals[i].id # Border
    <3>1. /\ DOMAIN st'.globals = 1..(Len(st.globals) + 1) /\ DOMAIN st.globals = 1..Len(st.globals)
          /\ Len(st.globals) \in Nat
          /\ \A i \in 1..Len(st.globals) : st'.globals[i] = st.globals[i]
          /\ st'.globals[Len(st.globals) + 1].id = id
      <4>1. AppendTo(st.globals, Var(id), Append(st.globals, Var(id)))
        BY <1>7, AppendIs DEF AppendTo
      <4>2. AppendTo(st.globals, Var(id), st'.globals)
        BY <1>5, <4>1
      <4>3. QED BY <4>2, <1>7, EntryNames DEF AppendTo
    <3>2. ASSUME NEW i \in DOMAIN st'.globals PROVE st'.globals[i].id # Border
      <4>1. CASE i = Len(st.globals) + 1
        BY <1>2, <3>1, <4>1
      <4>2. CASE i \in 1..Len(st.globals)
        BY <1>1, <3>1, <4>2 DEF BuilderTypeOK
      <4>3. QED BY <3>1, <3>2, <4>1, <4>2
    <3>3. QED BY <3>2
  <2>3. BuilderTypeOK' /\ NamesUnique'
    BY <1>0, <1>1, <1>5, <2>1, <2>2 DEF BuilderTypeOK, NamesUnique
  <2>4. Nested'
    BY <1>0, <1>1, <1>5 DEF Nested
  <2>5. QED BY <2>3, <2>4 DEF BuilderInv
<1>6. QED BY <1>1, <1>3, <1>4, <1>5, AddIs

LEMMA EnterKeeps ==
  ASSUME BuilderInv, EnterBlock
  PROVE  BuilderInv'
<1>1. BuilderTypeOK /\ NamesUnique /\ Nested
  BY DEF BuilderInv
<1>2. /\ st'.locals = Append(st.locals, Var(Border)) /\ st'.globals = st.globals
      /\ DOMAIN st' = DOMAIN st /\ st' = [f \in DOMAIN st' |-> st'[f]]
      /\ outer' = Append(outer, st.locals)
  BY <1>1 DEF BuilderTypeOK, EnterBlock, var_enter_block
<1>3. st'.locals \in Lists /\ Unique(st'.locals)
  BY <1>1, <1>2, BorderUnique DEF BuilderTypeOK, NamesUnique
<1>4. /\ DOMAIN st'.locals = 1..(Len(st.locals) + 1) /\ DOMAIN st.locals = 1..Len(st.locals)
      /\ Len(st.locals) \in Nat
      /\ \A i \in 1..Len(st.locals) : st'.locals[i] = st.locals[i]
      /\ st'.locals[Len(st.locals) + 1].id = Border
  BY <1>1, <1>2, AppendIs DEF BuilderTypeOK, AppendTo
<1>5. /\ outer' \in Seq(Lists)
      /\ DOMAIN outer' = 1..(Len(outer) + 1) /\ DOMAIN outer = 1..Len(outer) /\ Len(outer) \in Nat
      /\ \A k \in 1..Len(outer) : outer'[k] = outer[k] /\ Len(outer[k]) \in Nat
      /\ outer'[Len(outer) + 1] = st.locals
  BY <1>1, <1>2, AppendProperties DEF BuilderTypeOK, Lists
<1>6. BuilderTypeOK' /\ NamesUnique'
  BY <1>1, <1>2, <1>3, <1>5 DEF BuilderTypeOK, NamesUnique
<1>7. Nested'
  <2>1. ASSUME NEW k \in DOMAIN outer'
        PROVE  /\ Len(outer'[k]) + 1 \in DOMAIN st'.locals
               /\ st'.locals[Len(outer'[k]) + 1].id = Border
               /\ \A j \in 1..Len(outer'[k]) : st'.locals[j] = outer'[k][j]
    <3>1. CASE k = Len(outer) + 1
      BY <1>4, <1>5, <3>1
    <3>2. CASE k \in DOMAIN outer
      <4>1. outer'[k] = outer[k] /\ Len(outer[k]) \in Nat
        BY <1>5, <3>2
      <4>2. /\ Len(outer[k]) + 1 \in DOMAIN st.locals
            /\ st.locals[Len(outer[k]) + 1].id = Border
            /\ \A j \in 1..Len(outer[k]) : st.locals[j] = outer[k][j]
        BY <1>1, <3>2 DEF Nested
      <4>3. Len(outer[k]) + 1 \in 1..Len(st.locals) /\ \A j \in 1..Len(outer[k]) : j \in 1..Len(st.locals)
        BY <1>4, <4>1, <4>2
      <4>4. QED BY <1>4, <4>1, <4>2, <4>3
    <3>3. QED BY <1>5, <3>1, <3>2
  <2>2. ASSUME NEW i \in DOMAIN st'.locals, st'.locals[i].id = Border
        PROVE  \E m \in DOMAIN outer' : Len(outer'[m]) + 1 = i
    <3>1. CASE i = Len(st.locals) + 1
      BY <1>5, <3>1
    <3>2. CASE i \in DOMAIN st.locals
      <4>1. PICK m \in DOMAIN outer : Len(outer[m]) + 1 = i
        BY <1>1, <1>4, <2>2, <3>2 DEF Nested
      <4>2. QED BY <1>5, <4>1
    <3>3. QED BY <1>4, <3>1, <3>2
  <2>3. ASSUME NEW k \in DOMAIN outer', NEW m \in DOMAIN outer', k < m
        PROVE  Len(outer'[k]) < Len(outer'[m])
    <3>1. k \in DOMAIN outer
      BY <1>5, <2>3
    <3>2. CASE m = Len(outer) + 1
      <4>1. Len(outer[k]) + 1 \in DOMAIN st.locals
        BY <1>1, <3>1 DEF Nested
      <4>2. QED BY <1>4, <1>5, <3>1, <3>2, <4>1
    <3>3. CASE m \in DOMAIN outer
      BY <1>1, <1>5, <2>3, <3>1, <3>3 DEF Nested
    <3>4. QED BY <1>5, <3>2, <3>3
  <2>4. QED BY <2>1, <2>2, <2>3 DEF Nested
<1>8. QED BY <1>6, <1>7 DEF BuilderInv

LEMMA LeaveKeeps ==
  ASSUME BuilderInv, LeaveBlock
  PROVE  BuilderInv'
<1> DEFINE n == Len(outer)
           p == Len(outer[n]) + 1
<1>1. BuilderTypeOK /\ NamesUnique /\ Nested
  BY DEF BuilderInv
<1>2. /\ n \in DOMAIN outer /\ p \in DOMAIN st.locals
      /\ st'.locals = SubSeq(st.locals, 1, p - 1) /\ st'.globals = st.globals
      /\ outer' = SubSeq(outer, 1, n - 1)
      /\ DOMAIN st' = DOMAIN st /\ st' = [f \in DOMAIN st' |-> st'[f]]
  BY LeaveIs
<1>3. /\ DOMAIN outer = 1..n /\ n \in Nat /\ DOMAIN st.locals = 1..Len(st.locals)
      /\ Len(st.locals) \in Nat
      /\ \A m \in 1..n : Len(outer[m]) \in Nat
  BY <1>1 DEF BuilderTypeOK, Lists
<1>4. /\ outer' \in Seq(Lists) /\ DOMAIN outer' = 1..(n - 1)
      /\ \A m \in 1..(n - 1) : outer'[m] = outer[m]
  BY <1>1, <1>2, <1>3 DEF BuilderTypeOK
<1>5. p - 1 \in 0..Len(st.locals)
  BY <1>2, <1>3
<1>6. st'.locals \in Lists /\ Unique(st'.locals)
  BY <1>1, <1>2, <1>5, PrefixUnique DEF BuilderTypeOK, NamesUnique
<1>7. /\ DOMAIN st'.locals = 1..(p - 1)
      /\ \A i \in 1..(p - 1) : st'.locals[i] = st.locals[i]
  BY <1>1, <1>2, <1>3, <1>5 DEF BuilderTypeOK, Lists
<1>8. BuilderTypeOK' /\ NamesUnique'
  BY <1>1, <1>2, <1>4, <1>6 DEF BuilderTypeOK, NamesUnique
<1>9. ASSUME NEW k \in 1..(n - 1) PROVE Len(outer[k]) + 1 \in 1..(p - 1)
  <2>1. k \in DOMAIN outer /\ k \in 1..n /\ k < n /\ n \in 1..n
    BY <1>2, <1>3
  <2>2. Len(outer[k]) < Len(outer[n])
    BY <1>1, <1>2, <2>1 DEF Nested
  <2>3. Len(outer[k]) \in Nat /\ Len(outer[n]) \in Nat
    BY <1>3, <2>1
  <2>4. QED BY <2>2, <2>3
<1>10. Nested'
  <2>1. ASSUME NEW k \in DOMAIN outer'
        PROVE  /\ Len(outer'[k]) + 1 \in DOMAIN st'.locals
               /\ st'.locals[Len(outer'[k]) + 1].id = Border
               /\ \A j \in 1..Len(outer'[k]) : st'.locals[j] = outer'[k][j]
    <3>1. k \in DOMAIN outer /\ outer'[k] = outer[k] /\ Len(outer[k]) + 1 \in 1..(p - 1)
      BY <1>3, <1>4, <1>9
    <3>2. \A j \in 1..Len(outer[k]) : j \in 1..(p - 1)
      BY <1>3, <3>1
    <3>3. QED BY <1>1, <1>7, <3>1, <3>2 DEF Nested
  <2>2. ASSUME NEW i \in DOMAIN st'.locals, st'.locals[i].id = Border
        PROVE  \E m \in DOMAIN outer' : Len(outer'[m]) + 1 = i
    <3>1. i \in DOMAIN st.locals /\ st.locals[i].id = Border /\ i < p
      BY <1>2, <1>3, <1>7, <2>2
    <3>2. PICK m \in DOMAIN outer : Len(outer[m]) + 1 = i
      BY <1>1, <3>1 DEF Nested
    <3>3. m # n
      BY <3>1, <3>2, <1>2, <1>3
    <3>4. m \in 1..(n - 1)
      BY <1>3, <3>2, <3>3
    <3>5. m \in DOMAIN outer' /\ outer'[m] = outer[m]
      BY <1>4, <3>4
    <3>6. QED BY <3>2, <3>5
  <2>3. ASSUME NEW k \in DOMAIN outer', NEW m \in DOMAIN outer', k < m
        PROVE  Len(outer'[k]) < Len(outer'[m])
    <3>1. /\ k \in DOMAIN outer /\ outer'[k] = outer[k]
          /\ m \in DOMAIN outer /\ outer'[m] = outer[m]
      BY <1>3, <1>4
    <3>2. QED BY <1>1, <2>3, <3>1 DEF Nested
  <2>4. QED BY <2>1, <2>2, <2>3 DEF Nested
<1>11. QED BY <1>8, <1>10 DEF BuilderInv

LEMMA ResetKeeps ==
  ASSUME BuilderInv, VarReset \/ VarResetAll
  PROVE  BuilderInv'
<1>1. /\ st'.locals = <<>> /\ st'.globals \in {st.globals, <<>>} /\ outer' = <<>>
      /\ DOMAIN st' = DOMAIN st /\ st' = [f \in DOMAIN st' |-> st'[f]]
  BY DEF BuilderInv, BuilderTypeOK, VarReset, VarResetAll, var_reset, var_reset_all
<1>2. BuilderTypeOK /\ NamesUnique
  BY DEF BuilderInv
<1>3. DOMAIN <<>> = {} /\ <<>> \in Lists /\ <<>> \in Seq(Lists)
  BY DEF Lists
<1>4. BuilderTypeOK'
  BY <1>1, <1>2, <1>3 DEF BuilderTypeOK
<1>5. NamesUnique'
  BY <1>1, <1>2, <1>3 DEF NamesUnique, Unique
<1>6. Nested'
  BY <1>1, <1>3 DEF Nested
<1>7. QED BY <1>4, <1>5, <1>6 DEF BuilderInv

LEMMA BuilderInvariant == BuilderSpec => []BuilderInv
<1>1. BuilderInit => BuilderInv
  BY DEF BuilderInit, Empty, BuilderInv, BuilderTypeOK, NamesUnique, Unique, Nested, Lists
<1>2. BuilderInv /\ [BuilderNext]_builder => BuilderInv'
  <2> SUFFICES ASSUME BuilderInv, [BuilderNext]_builder PROVE BuilderInv'
    OBVIOUS
  <2>1. CASE UNCHANGED builder
    BY <2>1, SameLists DEF BuilderInv, BuilderTypeOK, builder
  <2>2. CASE FillContainer
    BY <2>2, FillIs, SameLists DEF BuilderInv
  <2>3. CASE AllocateVariables
    BY <2>3, AddKeeps, EnterKeeps, LeaveKeeps, ResetKeeps DEF AllocateVariables
  <2>4. QED BY <2>1, <2>2, <2>3 DEF BuilderNext
<1>3. QED BY <1>1, <1>2, PTL DEF BuilderSpec

\* A name has one slot in a block (_var_add).
THEOREM OneSlotPerName == BuilderSpec => []NamesUnique
<1>1. BuilderInv => NamesUnique
  BY DEF BuilderInv
<1>2. QED BY <1>1, BuilderInvariant, PTL

---------------------------------------------------------------------------
(* Blocks nest. *)

LEMMA NestedBlocks == BuilderInv => BlocksNest
<1> SUFFICES ASSUME BuilderInv PROVE BlocksNest
  OBVIOUS
<1>1. BuilderTypeOK /\ Nested
  BY DEF BuilderInv
<1>2. SUFFICES ASSUME NEW k \in DOMAIN outer
               PROVE  /\ IsPrefix(Append(outer[k], Var(Border)), st.locals)
                      /\ \A i \in (Len(outer[k]) + 2)..Len(st.locals) :
                           st.locals[i].id = Border => \E m \in DOMAIN outer : Len(outer[m]) + 1 = i
  BY DEF BlocksNest
<1> DEFINE first == Append(outer[k], Var(Border))
           n == Len(outer[k])
<1>3. outer[k] \in Lists /\ n \in Nat
  BY <1>1, <1>2 DEF BuilderTypeOK, Lists
<1>4. AppendTo(outer[k], Var(Border), first)
  BY <1>3, AppendIs
<1>5. /\ n + 1 \in DOMAIN st.locals /\ st.locals[n + 1].id = Border
      /\ \A j \in 1..n : st.locals[j] = outer[k][j]
  BY <1>1, <1>2 DEF Nested
<1>6. st.locals[n + 1] \in Entries /\ DOMAIN st.locals = 1..Len(st.locals) /\ Len(st.locals) \in Nat
  BY <1>1, <1>5 DEF BuilderTypeOK, Lists
<1>7. st.locals[n + 1] = Var(Border)
  BY <1>5, <1>6, EntryNames DEF Entries
<1> HIDE DEF n, first
<1>8. /\ Len(first) = n + 1 /\ Len(first) <= Len(st.locals)
      /\ \A j \in 1..(n + 1) : first[j] = st.locals[j]
  BY <1>3, <1>4, <1>5, <1>6, <1>7 DEF AppendTo, n
<1>9. IsPrefix(first, st.locals)
  BY <1>1, <1>3, <1>4, <1>6, <1>8 DEF IsPrefix, AppendTo, BuilderTypeOK, Lists
<1>10. \A i \in (n + 2)..Len(st.locals) : i \in DOMAIN st.locals
  BY <1>3, <1>6
<1>11. QED BY <1>1, <1>9, <1>10 DEF Nested, first, n

\* Leaving a block restores what was there when it was entered
\* (var_enter_block, var_leave_block).
THEOREM BlocksRestore == BuilderSpec => []BlocksNest
BY NestedBlocks, BuilderInvariant, PTL

---------------------------------------------------------------------------
(* Slots. *)

Kept(id) ==
  /\ Known(st', id)
  /\ slot(st', id) = slot(st, id)
  /\ IsLocal(st', id) = IsLocal(st, id)

\* The variable id has the same place in both lists.
SamePlace(more, list, id) ==
  /\ Found(more, id, FALSE) <=> Found(list, id, FALSE)
  /\ Found(list, id, FALSE) => Position(more, id) = Position(list, id)

LEMMA SamePlaceKept ==
  ASSUME NEW id, Known(st, id),
         SamePlace(st'.locals, st.locals, id), SamePlace(st'.globals, st.globals, id)
  PROVE  Kept(id)
<1>1. CASE Found(st.locals, id, FALSE)
  <2>1. Found(st'.locals, id, FALSE) /\ Position(st'.locals, id) = Position(st.locals, id)
    BY <1>1 DEF SamePlace
  <2>2. IsLocal(st, id) /\ IsLocal(st', id)
    BY <1>1, <2>1 DEF IsLocal
  <2>3. IsLocal(st, id) = TRUE /\ IsLocal(st', id) = TRUE
    BY <1>1, <2>1 DEF IsLocal, Found
  <2>4. slot(st', id) = slot(st, id)
    BY <2>1, <2>2 DEF slot
  <2>5. QED BY <2>2, <2>3, <2>4 DEF Kept, Known
<1>2. CASE ~Found(st.locals, id, FALSE)
  <2>1. ~IsLocal(st, id) /\ ~IsLocal(st', id)
    BY <1>2 DEF IsLocal, SamePlace
  <2>2. IsLocal(st, id) = FALSE /\ IsLocal(st', id) = FALSE
    BY <2>1 DEF IsLocal, Found
  <2>3. Found(st'.globals, id, FALSE) /\ Position(st'.globals, id) = Position(st.globals, id)
    BY <2>1 DEF Known, SamePlace
  <2>4. slot(st', id) = slot(st, id)
    BY <2>1, <2>3 DEF slot
  <2>5. QED BY <2>2, <2>3, <2>4 DEF Kept, Known
<1>3. QED BY <1>1, <1>2

LEMMA SameListSamePlace ==
  ASSUME NEW list, NEW more, NEW id, more = list
  PROVE  SamePlace(more, list, id)
BY DEF SamePlace

LEMMA AppendSamePlace ==
  ASSUME NEW list \in Lists, NEW id, NEW other \in Ids \cup {Border}, other # id
  PROVE  SamePlace(Append(list, Var(other)), list, id)
BY AppendOther DEF SamePlace

\* A global that is known is in the only block there is.
LEMMA GlobalsOneBlock ==
  ASSUME BuilderTypeOK, NEW id, Found(st.globals, id, FALSE)
  PROVE  Found(st.globals, id, TRUE)
<1>1. PICK i \in DOMAIN st.globals : FoundAt(i, st.globals, id, FALSE)
  BY DEF Found
<1>2. i \in Nat /\ DOMAIN st.globals = 1..Len(st.globals) /\ Len(st.globals) \in Nat
  BY <1>1 DEF BuilderTypeOK, Lists
<1>3. \A j \in (i + 1)..Len(st.globals) : j \in DOMAIN st.globals
  BY <1>1, <1>2
<1>4. FoundAt(i, st.globals, id, TRUE)
  BY <1>1, <1>3 DEF FoundAt, BuilderTypeOK
<1>5. QED BY <1>1, <1>4 DEF Found

LEMMA AddKeepsSlots ==
  ASSUME BuilderInv, NEW id \in Ids, Known(st, id),
         NEW other \in Ids, AddLocal(other) \/ AddGlobal(other) \/ GetOrAddLocal(other)
  PROVE  Kept(id) \/ (AddLocal(id) /\ ~Found(st.locals, id, TRUE))
<1>1. BuilderTypeOK /\ st.locals \in Lists /\ st.globals \in Lists
  BY DEF BuilderInv, BuilderTypeOK
<1>2. CASE UNCHANGED builder
  BY <1>2, SameListSamePlace, SamePlaceKept DEF builder
<1>3. CASE /\ st'.locals = Append(st.locals, Var(other)) /\ st'.globals = st.globals
           /\ ~Found(st.locals, other, TRUE)
           /\ AddLocal(other) \/ ~Known(st, other)
  <2>1. CASE other = id
    BY <1>3, <2>1
  <2>2. CASE other # id
    <3>1. SamePlace(st'.locals, st.locals, id)
      BY <1>1, <1>3, <2>2, AppendSamePlace
    <3>2. SamePlace(st'.globals, st.globals, id)
      BY <1>3, SameListSamePlace
    <3>3. QED BY <3>1, <3>2, SamePlaceKept
  <2>3. QED BY <2>1, <2>2
<1>4. CASE /\ st'.locals = st.locals /\ st'.globals = Append(st.globals, Var(other))
           /\ ~Found(st.globals, other, TRUE)
  <2>1. SamePlace(st'.locals, st.locals, id)
    BY <1>4, SameListSamePlace
  <2>2. CASE other = id
    <3>1. ~Found(st.globals, id, FALSE)
      BY <1>1, <1>4, <2>2, GlobalsOneBlock
    <3>2. Found(st.locals, id, FALSE)
      BY <3>1 DEF Known, IsLocal
    <3>3. Found(st'.locals, id, FALSE) /\ Position(st'.locals, id) = Position(st.locals, id)
      BY <2>1, <3>2 DEF SamePlace
    <3>4. IsLocal(st, id) = TRUE /\ IsLocal(st', id) = TRUE
      BY <3>2, <3>3 DEF IsLocal, Found
    <3>5. slot(st', id) = slot(st, id)
      BY <3>3, <3>4 DEF slot
    <3>6. QED BY <3>4, <3>5 DEF Kept, Known
  <2>3. CASE other # id
    <3>1. SamePlace(st'.globals, st.globals, id)
      BY <1>1, <1>4, <2>3, AppendSamePlace
    <3>2. QED BY <2>1, <3>1, SamePlaceKept
  <2>4. QED BY <2>2, <2>3
<1>5. QED BY <1>1, <1>2, <1>3, <1>4, AddIs

\* A variable keeps its slot until it is declared again in an inner block, its
\* block is left, or a function definition resets the list (vars.c).
THEOREM SlotsKept == BuilderSpec => SlotsStable
<1>1. BuilderInv /\ [BuilderNext]_builder
        => [\A id \in Ids :
              Known(st, id) =>
                \/ Known(st', id) /\ slot(st', id) = slot(st, id) /\ IsLocal(st', id) = IsLocal(st, id)
                \/ AddLocal(id) /\ ~Found(st.locals, id, TRUE)
                \/ LeaveBlock \/ VarReset \/ VarResetAll]_builder
  <2> SUFFICES ASSUME BuilderInv, BuilderNext, NEW id \in Ids, Known(st, id)
               PROVE  \/ Kept(id)
                      \/ AddLocal(id) /\ ~Found(st.locals, id, TRUE)
                      \/ LeaveBlock \/ VarReset \/ VarResetAll
    BY DEF Kept
  <2>1. BuilderTypeOK /\ st.locals \in Lists
    BY DEF BuilderInv, BuilderTypeOK
  <2>2. CASE FillContainer
    <3>1. st'.locals = st.locals /\ st'.globals = st.globals
      BY <2>1, <2>2, FillIs
    <3>2. SamePlace(st'.locals, st.locals, id) /\ SamePlace(st'.globals, st.globals, id)
      BY <3>1, SameListSamePlace
    <3>3. QED BY <3>2, SamePlaceKept
  <2>3. CASE \E other \in Ids : AddLocal(other) \/ AddGlobal(other) \/ GetOrAddLocal(other)
    BY <2>3, AddKeepsSlots
  <2>4. CASE EnterBlock
    <3>1. st'.locals = Append(st.locals, Var(Border)) /\ st'.globals = st.globals
      BY <2>1, <2>4 DEF BuilderTypeOK, EnterBlock, var_enter_block
    <3>2. id # Border
      BY BuilderAssumption
    <3>3. SamePlace(st'.locals, st.locals, id)
      BY <2>1, <3>1, <3>2, AppendSamePlace
    <3>4. SamePlace(st'.globals, st.globals, id)
      BY <3>1, SameListSamePlace
    <3>5. QED BY <3>3, <3>4, SamePlaceKept
  <2>5. QED BY <2>2, <2>3, <2>4 DEF BuilderNext, AllocateVariables
<1>2. QED BY <1>1, BuilderInvariant, PTL DEF BuilderSpec, SlotsStable
===========================================================================
