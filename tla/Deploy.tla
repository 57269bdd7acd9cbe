------------------------------ MODULE Deploy ------------------------------
(* One database block of a program that is edited, and run by several      *)
(* processes at once, with -c or without: what DBLOCK (vm/custom.c) does   *)
(* to the stored procedures all of them share.  DROP, CREATE and the call  *)
(* are transactions of their own, and the process can end between them.    *)
EXTENDS Overloading

CONSTANTS
  Sessions,    \* processes that run the program, one run after the other
  Versions,    \* versions of the program, and of the block's body in it
  SigOf,       \* by version, the types of the block's variables: "int" or "text"
  NamesOf,     \* by version, their names
  Malformed    \* the versions whose body the server rejects (see Malforms)

ASSUME DeployAssumption ==
  /\ Malformed \subseteq Versions
  /\ SigOf \in [Versions -> Seq({"int", "text"})]
  /\ \A v, w \in Versions : SigOf[v] = <<>> /\ SigOf[w] = <<>> => NamesOf[v] = NamesOf[w]

VARIABLES
  procs,       \* the stored procedures of the block: by types, the version it is from
  at,          \* by session, what it does next: "idle", "drop", "create", "call",
               \* "done" after the call, "exited" after a failure
  createsp,    \* by session, PF_CREATESP
  program,     \* by session, the version it has compiled
  ran,         \* by session, the version of the body its call ran, if it did
  made,        \* history: the types for which a procedure has been created
  lost,        \* history: those for which a session ended between DROP and CREATE,
               \* leaving none
  deployed,    \* history: the set with the version created last
  base,        \* history: by session, what deployed was when the run began
  disturbed    \* history: by session, another one has deployed since then

sessions == <<at, createsp, program, ran>>
history == <<made, lost, deployed, base, disturbed>>
deploy == <<procs, sessions, history>>

DeployInit ==
  /\ procs = <<>>
  /\ at = [s \in Sessions |-> "idle"]
  /\ createsp = [s \in Sessions |-> FALSE]
  /\ program \in [Sessions -> Versions]
  /\ ran = program
  /\ made = {} /\ lost = {} /\ deployed = {}
  /\ base = [s \in Sessions |-> {}]
  /\ disturbed = [s \in Sessions |-> FALSE]

Sig(s) == SigOf[program[s]]
GoesTo(s, step) == at' = [at EXCEPT ![s] = step]
Disturbs(s) == disturbed' = [t \in Sessions |-> disturbed[t] \/ t # s]

---------------------------------------------------------------------------
\* Mutant: the procedure is created unless -c is given.
FirstStep_Inverted(c) == IF c THEN "call" ELSE "drop"

FirstStep(c) == IF c THEN "drop" ELSE "call"

\* main: the file is compiled as it is by now, and run up to the block.
Begin(s) ==
  /\ at[s] \in {"idle", "done", "exited"}
  /\ \E c \in BOOLEAN :
       /\ createsp' = [createsp EXCEPT ![s] = c]
       /\ GoesTo(s, FirstStep(c))
  /\ \E v \in Versions :
       /\ program' = [program EXCEPT ![s] = v]
       /\ ran' = [ran EXCEPT ![s] = v]
  /\ base' = [base EXCEPT ![s] = deployed]
  /\ disturbed' = [disturbed EXCEPT ![s] = FALSE]
  /\ UNCHANGED <<procs, made, lost, deployed>>

\* Mutant: the procedures of all types are dropped.
Dropped_All(sig) == <<>>

\* Mutant: nothing is dropped.
Dropped_Nothing(sig) == procs

\* DROP FUNCTION IF EXISTS, for these types; without variables the statement is
\* malformed, which nobody notices.
Dropped(sig) == IF sig = <<>> THEN procs ELSE [k \in DOMAIN procs \ {sig} |-> procs[k]]

Drop(s) ==
  /\ at[s] = "drop"
  /\ procs' = Dropped(Sig(s))
  /\ GoesTo(s, "create")
  /\ Disturbs(s)
  /\ UNCHANGED <<createsp, program, ran, made, lost, deployed, base>>

\* CREATE OR REPLACE needs a body that is a procedure, and keeps the names of
\* the parameters.
Accepted(s) ==
  /\ program[s] \notin Malformed
  /\ Sig(s) \in DOMAIN procs => NamesOf[procs[Sig(s)]] = NamesOf[program[s]]

\* A session ends before its CREATE has made up for its DROP.
LeavesGap(s) == lost' = lost \cup ({Sig(s)} \ DOMAIN procs)

Replaced(sig, v) == [k \in DOMAIN procs \cup {sig} |-> IF k = sig THEN v ELSE procs[k]]

Create(s) ==
  /\ at[s] = "create"
  /\ Accepted(s)
  /\ procs' = Replaced(Sig(s), program[s])
  /\ GoesTo(s, "call")
  /\ made' = made \cup {Sig(s)}
  /\ lost' = lost \ {Sig(s)}
  /\ deployed' = {program[s]}
  /\ Disturbs(s)
  /\ UNCHANGED <<createsp, program, ran, base>>

\* The program ends; the DROP stands.
CreateRefused(s) ==
  /\ at[s] = "create"
  /\ ~Accepted(s)
  /\ GoesTo(s, "exited")
  /\ LeavesGap(s)
  /\ UNCHANGED <<procs, createsp, program, ran, made, deployed, base, disturbed>>

\* The call names no types: the server chooses by number and text.
Overloads(s) == {sig \in DOMAIN procs : Len(sig) = Len(Sig(s))}

Call(s) ==
  /\ at[s] = "call"
  /\ Callable(Overloads(s))
  /\ ran' = [ran EXCEPT ![s] = procs[Favourite(Overloads(s))]]
  /\ GoesTo(s, "done")
  /\ UNCHANGED <<procs, createsp, program, history>>

CallRefused(s) ==
  /\ at[s] = "call"
  /\ ~Callable(Overloads(s))
  /\ GoesTo(s, "exited")
  /\ UNCHANGED <<procs, createsp, program, ran, history>>

\* The process is killed, or its connection is lost.
Crash(s) ==
  /\ at[s] \in {"drop", "create", "call"}
  /\ IF at[s] = "create" THEN LeavesGap(s) ELSE UNCHANGED lost
  /\ GoesTo(s, "exited")
  /\ UNCHANGED <<procs, createsp, program, ran, made, deployed, base, disturbed>>

DeployNext ==
  \E s \in Sessions :
    \/ Begin(s) \/ Drop(s) \/ Create(s) \/ CreateRefused(s)
    \/ Call(s) \/ CallRefused(s) \/ Crash(s)

DeploySpec == DeployInit /\ [][DeployNext]_deploy

---------------------------------------------------------------------------
DeployTypeOK ==
  /\ DOMAIN procs \subseteq Seq({"int", "text"})
  /\ procs \in [DOMAIN procs -> Versions]
  /\ at \in [Sessions -> {"idle", "drop", "create", "call", "done", "exited"}]
  /\ createsp \in [Sessions -> BOOLEAN]
  /\ program \in [Sessions -> Versions]
  /\ ran \in [Sessions -> Versions]
  /\ deployed \subseteq Versions
  /\ base \in [Sessions -> SUBSET Versions]
  /\ disturbed \in [Sessions -> BOOLEAN]

\* A procedure once created is missing only while a run with -c is between its
\* DROP and its CREATE, or when one ended there, killed or because the server
\* rejected the new body: whatever other sessions of this or another version
\* do, they take nothing away (custom.c:226-251).
NothingVanishes ==
  \A sig \in made :
    \/ sig \in DOMAIN procs
    \/ sig \in lost
    \/ \E s \in Sessions : at[s] = "create" /\ Sig(s) = sig

\* Because of the DROP the CREATE of a body that is a procedure is only ever
\* refused (custom.c:239-251) when another run with -c came in between, also
\* after an edit that renames variables.
RefusedOnlyWhenDisturbed ==
  \A s \in Sessions :
    at[s] = "create" /\ ~disturbed[s] => Accepted(s) \/ program[s] \in Malformed

\* README.md:58-60: after a run with -c the block runs as in the file, in that
\* run and in later ones without -c, unless another run with -c interferes --
\* or a procedure for other types, left over from an older version, is taken.
RunsOwnBody ==
  \A s \in Sessions :
    at[s] = "done" /\ ~disturbed[s] /\ (createsp[s] \/ base[s] = {program[s]})
      => ran[s] = program[s] \/ SigOf[ran[s]] # Sig(s)
===========================================================================
