--------------------------- MODULE DeployProofs ---------------------------
(* What processes that deploy and run a block at once can rely on, for any *)
(* number of them and any versions of the program.                         *)
EXTENDS Deploy, TLAPS

\* The procedure for some types comes from a version with these types.
WellTyped == \A sig \in DOMAIN procs : SigOf[procs[sig]] = sig

\* The version created last is stored unless it has been dropped since.
LastStored == \A v \in deployed : SigOf[v] \in DOMAIN procs => procs[SigOf[v]] = v

\* What a session without interference knows on its way: only -c leads to DROP
\* and CREATE; after the DROP the way is free; after the CREATE its own version
\* is stored; without -c what was deployed when it began is deployed still.
Alone(s) ==
  /\ at[s] \in {"drop", "create"} => createsp[s]
  /\ ~disturbed[s] =>
       /\ at[s] = "create" => Sig(s) \notin DOMAIN procs \/ Sig(s) = <<>>
       /\ at[s] = "call" /\ createsp[s] => Sig(s) \in DOMAIN procs /\ procs[Sig(s)] = program[s]
       /\ at[s] = "call" /\ ~createsp[s] => base[s] = deployed
       /\ at[s] = "done" /\ (createsp[s] \/ base[s] = {program[s]})
            => ran[s] = program[s] \/ SigOf[ran[s]] # Sig(s)

DeployInv ==
  /\ DeployTypeOK
  /\ WellTyped
  /\ LastStored
  /\ \A s \in Sessions : Alone(s)

---------------------------------------------------------------------------
LEMMA DeployTypes == DeployInit => DeployTypeOK
BY DEF DeployInit, DeployTypeOK

\* The types of every version are a sequence.
LEMMA Signatures == \A v \in Versions : SigOf[v] \in Seq({"int", "text"})
BY DeployAssumption

LEMMA DroppedIs ==
  ASSUME NEW sig
  PROVE  /\ DOMAIN Dropped(sig) \subseteq DOMAIN procs
         /\ \A k \in DOMAIN Dropped(sig) : Dropped(sig)[k] = procs[k]
         /\ sig \notin DOMAIN Dropped(sig) \/ sig = <<>>
         /\ \A k \in DOMAIN procs : k # sig => k \in DOMAIN Dropped(sig)
         /\ DeployTypeOK => Dropped(sig) \in [DOMAIN Dropped(sig) -> Versions]
<1>1. CASE sig = <<>>
  BY <1>1 DEF Dropped, DeployTypeOK
<1>2. CASE sig # <<>>
  BY <1>2 DEF Dropped, DeployTypeOK
<1>3. QED BY <1>1, <1>2

LEMMA ReplacedIs ==
  ASSUME NEW sig, NEW v
  PROVE  /\ DOMAIN Replaced(sig, v) = DOMAIN procs \cup {sig}
         /\ \A k \in DOMAIN procs \cup {sig} :
              Replaced(sig, v)[k] = IF k = sig THEN v ELSE procs[k]
         /\ DeployTypeOK /\ v \in Versions
              => Replaced(sig, v) \in [DOMAIN Replaced(sig, v) -> Versions]
BY DEF Replaced, DeployTypeOK

---------------------------------------------------------------------------
(* One lemma per action. *)

LEMMA BeginKeeps ==
  ASSUME DeployInv, NEW s \in Sessions, Begin(s)
  PROVE  DeployInv'
<1> PICK c \in BOOLEAN : createsp' = [createsp EXCEPT ![s] = c] /\ GoesTo(s, FirstStep(c))
  BY DEF Begin
<1> PICK v \in Versions : program' = [program EXCEPT ![s] = v] /\ ran' = [ran EXCEPT ![s] = v]
  BY DEF Begin
<1>1. FirstStep(c) = IF c THEN "drop" ELSE "call"
  BY DEF FirstStep
<1>2. DeployTypeOK'
  BY <1>1 DEF DeployInv, DeployTypeOK, Begin, GoesTo
<1>3. WellTyped' /\ LastStored'
  BY DEF DeployInv, WellTyped, LastStored, Begin
<1>4. ASSUME NEW t \in Sessions PROVE Alone(t)'
  <2>1. CASE t = s
    BY <1>1, <2>1 DEF DeployInv, DeployTypeOK, Alone, Begin, GoesTo
  <2>2. CASE t # s
    BY <2>2 DEF DeployInv, DeployTypeOK, Alone, Begin, GoesTo, Sig
  <2>3. QED BY <2>1, <2>2
<1>5. QED BY <1>2, <1>3, <1>4 DEF DeployInv

LEMMA DropKeeps ==
  ASSUME DeployInv, NEW s \in Sessions, Drop(s)
  PROVE  DeployInv'
<1>1. DeployTypeOK'
  BY DroppedIs DEF DeployInv, DeployTypeOK, Drop, GoesTo, Disturbs
<1>2. WellTyped' /\ LastStored'
  BY DroppedIs DEF DeployInv, WellTyped, LastStored, Drop
<1>3. ASSUME NEW t \in Sessions PROVE Alone(t)'
  <2>1. CASE t = s
    BY <2>1, DroppedIs DEF DeployInv, DeployTypeOK, Alone, Drop, GoesTo, Sig
  <2>2. CASE t # s
    BY <2>2 DEF DeployInv, DeployTypeOK, Alone, Drop, GoesTo, Disturbs
  <2>3. QED BY <2>1, <2>2
<1>4. QED BY <1>1, <1>2, <1>3 DEF DeployInv

LEMMA CreateKeeps ==
  ASSUME DeployInv, NEW s \in Sessions, Create(s)
  PROVE  DeployInv'
<1>1. program[s] \in Versions /\ Sig(s) \in Seq({"int", "text"})
  BY Signatures DEF DeployInv, DeployTypeOK, Sig
<1>2. /\ DOMAIN procs' = DOMAIN procs \cup {Sig(s)}
      /\ \A k \in DOMAIN procs' : procs'[k] = IF k = Sig(s) THEN program[s] ELSE procs[k]
      /\ procs' \in [DOMAIN procs' -> Versions]
  <2> DEFINE r == Replaced(Sig(s), program[s])
  <2>1. /\ DOMAIN r = DOMAIN procs \cup {Sig(s)}
        /\ \A k \in DOMAIN procs \cup {Sig(s)} :
             r[k] = IF k = Sig(s) THEN program[s] ELSE procs[k]
        /\ r \in [DOMAIN r -> Versions]
    BY <1>1, ReplacedIs DEF DeployInv
  <2>2. procs' = r
    BY DEF Create
  <2> HIDE DEF r
  <2>3. QED BY <2>1, <2>2
<1>3. DeployTypeOK'
  <2>1. DOMAIN procs' \subseteq Seq({"int", "text"})
    BY <1>1, <1>2 DEF DeployInv, DeployTypeOK
  <2>2. QED BY <1>1, <1>2, <2>1 DEF DeployInv, DeployTypeOK, Create, GoesTo, Disturbs
<1>4. WellTyped' /\ LastStored'
  BY <1>2 DEF DeployInv, WellTyped, LastStored, Create, Sig
<1>5. ASSUME NEW t \in Sessions PROVE Alone(t)'
  <2>1. CASE t = s
    <3>1. at'[s] = "call" /\ createsp'[s] /\ program' = program /\ Sig(s)' = Sig(s)
      BY DEF DeployInv, DeployTypeOK, Alone, Create, GoesTo, Sig
    <3>2. Sig(s) \in DOMAIN procs' /\ procs'[Sig(s)] = program[s]
      BY <1>2
    <3>3. QED BY <2>1, <3>1, <3>2 DEF Alone
  <2>2. CASE t # s
    BY <2>2 DEF DeployInv, DeployTypeOK, Alone, Create, GoesTo, Disturbs
  <2>3. QED BY <2>1, <2>2
<1>6. QED BY <1>3, <1>4, <1>5 DEF DeployInv

LEMMA CallKeeps ==
  ASSUME DeployInv, NEW s \in Sessions, Call(s)
  PROVE  DeployInv'
<1> DEFINE sig == Favourite(Overloads(s))
<1>1. sig \in DOMAIN procs
  BY DEF Call, Callable, Overloads
<1> HIDE DEF sig
<1>2. procs[sig] \in Versions /\ SigOf[procs[sig]] = sig
  BY <1>1 DEF DeployInv, DeployTypeOK, WellTyped
<1>3. ran' = [ran EXCEPT ![s] = procs[sig]]
  BY DEF Call, sig
<1>4. DeployTypeOK'
  BY <1>2, <1>3 DEF DeployInv, DeployTypeOK, Call, GoesTo, history
<1>5. WellTyped' /\ LastStored'
  BY DEF DeployInv, WellTyped, LastStored, Call, history
<1>6. ASSUME NEW t \in Sessions PROVE Alone(t)'
  <2>1. CASE t = s
    <3>1. ASSUME ~disturbed[s], createsp[s] \/ base[s] = {program[s]}
          PROVE  procs[sig] = program[s] \/ SigOf[procs[sig]] # Sig(s)
      <4>1. CASE sig = Sig(s)
        BY <1>1, <3>1, <4>1 DEF DeployInv, LastStored, Alone, Call, Sig, DeployTypeOK
      <4>2. CASE sig # Sig(s)
        BY <1>2, <4>2
      <4>3. QED BY <4>1, <4>2
    <3>2. /\ at'[s] = "done" /\ ran'[s] = procs[sig] /\ Sig(s)' = Sig(s)
          /\ createsp' = createsp /\ base' = base /\ program' = program /\ disturbed' = disturbed
      BY <1>3 DEF DeployInv, DeployTypeOK, Call, GoesTo, history, Sig
    <3>3. QED BY <2>1, <3>1, <3>2 DEF Alone
  <2>2. CASE t # s
    BY <1>3, <2>2 DEF DeployInv, DeployTypeOK, Alone, Call, GoesTo, Sig, history
  <2>3. QED BY <2>1, <2>2
<1>7. QED BY <1>4, <1>5, <1>6 DEF DeployInv

\* A session ends without a call.
LEMMA ExitKeeps ==
  ASSUME DeployInv, NEW s \in Sessions, CreateRefused(s) \/ CallRefused(s) \/ Crash(s)
  PROVE  DeployInv'
<1>1. /\ at' = [at EXCEPT ![s] = "exited"]
      /\ UNCHANGED <<procs, createsp, program, ran, deployed, base, disturbed>>
  BY DEF CreateRefused, CallRefused, Crash, GoesTo, history
<1>2. DeployTypeOK'
  BY <1>1 DEF DeployInv, DeployTypeOK
<1>3. WellTyped' /\ LastStored'
  BY <1>1 DEF DeployInv, WellTyped, LastStored
<1>4. ASSUME NEW t \in Sessions PROVE Alone(t)'
  BY <1>1 DEF DeployInv, DeployTypeOK, Alone, Sig
<1>5. QED BY <1>2, <1>3, <1>4 DEF DeployInv

LEMMA DeployInvariant == DeploySpec => []DeployInv
<1>1. DeployInit => DeployInv
  <2>1. DeployInit => WellTyped /\ LastStored /\ \A s \in Sessions : Alone(s)
    BY DEF DeployInit, WellTyped, LastStored, Alone
  <2>2. QED BY <2>1, DeployTypes DEF DeployInv
<1>2. DeployInv /\ [DeployNext]_deploy => DeployInv'
  <2> SUFFICES ASSUME DeployInv, [DeployNext]_deploy PROVE DeployInv'
    OBVIOUS
  <2>1. CASE UNCHANGED deploy
    BY <2>1 DEF DeployInv, DeployTypeOK, WellTyped, LastStored, Alone, Sig, deploy, sessions, history
  <2>2. ASSUME NEW s \in Sessions,
               \/ Begin(s) \/ Drop(s) \/ Create(s) \/ CreateRefused(s)
               \/ Call(s) \/ CallRefused(s) \/ Crash(s)
        PROVE  DeployInv'
    BY <2>2, BeginKeeps, DropKeeps, CreateKeeps, CallKeeps, ExitKeeps
  <2>3. QED BY <2>1, <2>2 DEF DeployNext
<1>3. QED BY <1>1, <1>2, PTL DEF DeploySpec

---------------------------------------------------------------------------
\* Whoever else deploys and runs, a run that nobody interferes with executes its
\* own version of the block, or one for other types.
THEOREM OwnBody == DeploySpec => []RunsOwnBody
<1>1. DeployInv => RunsOwnBody
  BY DEF DeployInv, Alone, RunsOwnBody
<1>2. QED BY <1>1, DeployInvariant, PTL

\* Without interference a CREATE is accepted, whatever was renamed since the one
\* before, if only the body is a procedure.
THEOREM CreateAccepted == DeploySpec => []RefusedOnlyWhenDisturbed
<1>1. DeployInv => RefusedOnlyWhenDisturbed
  <2> SUFFICES ASSUME DeployInv, NEW s \in Sessions, at[s] = "create", ~disturbed[s],
                      program[s] \notin Malformed, Sig(s) \in DOMAIN procs
               PROVE  NamesOf[procs[Sig(s)]] = NamesOf[program[s]]
    BY DEF RefusedOnlyWhenDisturbed, Accepted
  <2>1. Sig(s) = <<>>
    BY DEF DeployInv, Alone
  <2>2. SigOf[procs[Sig(s)]] = <<>> /\ procs[Sig(s)] \in Versions
    BY <2>1 DEF DeployInv, DeployTypeOK, WellTyped
  <2>3. SigOf[program[s]] = <<>> /\ program[s] \in Versions
    BY <2>1 DEF DeployInv, DeployTypeOK, Sig
  <2>4. QED BY <2>2, <2>3, DeployAssumption
<1>2. QED BY <1>1, DeployInvariant, PTL

\* No procedure gets lost except between a DROP and its CREATE, which may be
\* refused.
THEOREM NothingLost == DeploySpec => []NothingVanishes
<1>1. DeployInit => NothingVanishes
  BY DEF DeployInit, NothingVanishes
<1>2. DeployTypeOK /\ NothingVanishes /\ [DeployNext]_deploy => NothingVanishes'
  <2> SUFFICES ASSUME DeployTypeOK, NothingVanishes, [DeployNext]_deploy, NEW sig \in made'
               PROVE  \/ sig \in DOMAIN procs'
                      \/ sig \in lost'
                      \/ \E s \in Sessions : at'[s] = "create" /\ Sig(s)' = sig
    BY DEF NothingVanishes
  <2>1. CASE UNCHANGED deploy
    BY <2>1 DEF NothingVanishes, Sig, deploy, sessions, history
  <2> DEFINE Gap(s) == at[s] = "create" /\ Sig(s) = sig
             Gap1(s) == at'[s] = "create" /\ Sig(s)' = sig
             Kept == sig \in DOMAIN procs' \/ sig \in lost' \/ \E s \in Sessions : Gap1(s)
  <2>2. ASSUME NEW s \in Sessions, Begin(s) PROVE Kept
    <3>1. \A t \in Sessions : Gap(t) => Gap1(t)
      BY <2>2 DEF DeployTypeOK, Begin, GoesTo, Sig
    <3>2. QED BY <2>2, <3>1 DEF NothingVanishes, Begin
  <2>3. ASSUME NEW s \in Sessions, Drop(s) PROVE Kept
    <3>1. \A t \in Sessions : Gap(t) => Gap1(t)
      BY <2>3 DEF DeployTypeOK, Drop, GoesTo, Sig
    <3>2. Sig(s) = sig => Gap1(s)
      BY <2>3 DEF DeployTypeOK, Drop, GoesTo, Sig
    <3>3. QED BY <2>3, <3>1, <3>2, DroppedIs DEF NothingVanishes, Drop
  <2>4. ASSUME NEW s \in Sessions, Create(s) PROVE Kept
    <3>1. \A t \in Sessions : Gap(t) /\ t # s => Gap1(t)
      BY <2>4 DEF DeployTypeOK, Create, GoesTo, Sig
    <3>2. DOMAIN procs' = DOMAIN procs \cup {Sig(s)}
      BY <2>4, ReplacedIs DEF Create
    <3>3. QED BY <2>4, <3>1, <3>2 DEF NothingVanishes, Create
  <2>5. ASSUME NEW s \in Sessions, CreateRefused(s) PROVE Kept
    <3>1. \A t \in Sessions : Gap(t) /\ t # s => Gap1(t)
      BY <2>5 DEF DeployTypeOK, CreateRefused, GoesTo, Sig
    <3>2. QED BY <2>5, <3>1 DEF NothingVanishes, CreateRefused, LeavesGap
  <2>6. ASSUME NEW s \in Sessions, Call(s) \/ CallRefused(s) PROVE Kept
    <3>1. \A t \in Sessions : Gap(t) => Gap1(t)
      BY <2>6 DEF DeployTypeOK, Call, CallRefused, GoesTo, Sig
    <3>2. QED BY <2>6, <3>1 DEF NothingVanishes, Call, CallRefused, history
  <2>7. ASSUME NEW s \in Sessions, Crash(s) PROVE Kept
    <3>1. \A t \in Sessions : Gap(t) /\ t # s => Gap1(t)
      BY <2>7 DEF DeployTypeOK, Crash, GoesTo, Sig
    <3>2. QED BY <2>7, <3>1 DEF NothingVanishes, Crash, LeavesGap
  <2>8. QED BY <2>1, <2>2, <2>3, <2>4, <2>5, <2>6, <2>7 DEF DeployNext
<1>3. QED BY <1>1, <1>2, DeployInvariant, PTL DEF DeploySpec, DeployInv
===========================================================================
