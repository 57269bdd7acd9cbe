------------------------------ MODULE Database ------------------------------
(* The interpreter with a database: the natives and the DBLOCK operation   *)
(* of vm/custom.c, run with -c, which creates the stored procedures, and   *)
(* later without.  The server is that of modules Server and Procedure; the *)
(* connection to it can be lost at any time.                               *)
EXTENDS Interpreter, Procedure

VARIABLES
  conn,      \* "none" before the first dbconnect; "up"; "lost"
  results,   \* the struct dbresults: columns, rows left, and whether the query worked
  log,       \* what the program has appended to the database's log
  procs,     \* the stored procedures: by name and types, their parameters and body
  createsp   \* PF_CREATESP

database == <<conn, results, log, procs, createsp>>
dbvars == <<vars, database>>

DbInit ==
  /\ Init
  /\ conn = "none"
  /\ results = <<>>
  /\ log = <<>>
  /\ procs = <<>>
  /\ createsp = TRUE

\* vmerror with E_ERR, or exit(1).  "exited" is one more value of status.
Exits == status' = "exited" /\ UNCHANGED <<pc, vstack>>

---------------------------------------------------------------------------
(* The natives. *)

NativeDb(names) ==
  /\ Executes({"CALL"})
  /\ Callee \in names \ DOMAIN prog.functions

Returns(r) == Yield(r, Below(NrArgs + 2))

native_dbconnect ==
  /\ NativeDb({N_dbconnect})
  /\ \/ Arg(0).t # "str" /\ Returns(Num(0)) /\ UNCHANGED conn
     \/ Arg(0).t = "str" /\ Returns(Num(1)) /\ conn' = "up"
     \/ Arg(0).t = "str" /\ Exits /\ conn' = "lost" /\ UNCHANGED arrs
  /\ UNCHANGED <<frames, globals, nread, out, results, log, procs, createsp>>

\* Parameters are sent as text, undefined ones as NULL.
Params1 == [i \in 1..(Len(Args) - 1) |-> Args[i + 1]]

Failed == [cols |-> <<>>, rows |-> <<>>, ok |-> FALSE]

\* What the server answers; libpq has no answer once the connection is lost.
Answer(q) ==
  CASE q \in DOMAIN Selects -> [cols |-> Selects[q].cols, rows |-> RowsOf(q, Params1), ok |-> TRUE]
    [] q \in Writes -> [cols |-> <<>>, rows |-> <<>>, ok |-> TRUE]
    [] OTHER -> Failed

Written(q) == IF q \in Writes THEN Append(log, Entry(q, Params1)) ELSE log
ReturnsResult(r) == results' = Append(results, r) /\ Returns(Ref(Len(results) + 1))

\* dbquery and dbexec.  The connection may be lost while the query is under
\* way, before or after it took effect.  Once it is lost libpq gives a failed
\* result or none.
native_dbquery ==
  /\ NativeDb({N_dbquery, N_dbexec})
  /\ \/ /\ conn # "up" \/ Arg(0).t # "str"
        /\ Returns(Undef)
        /\ UNCHANGED <<conn, results, log>>
     \/ /\ conn = "up" /\ Arg(0).t = "str"
        /\ ReturnsResult(Answer(Arg(0).s)) /\ log' = Written(Arg(0).s)
        /\ UNCHANGED conn
     \/ /\ conn # "none" /\ Arg(0).t = "str"
        /\ ReturnsResult(Failed)
        /\ log' \in {log} \cup IF conn = "up" THEN {Written(Arg(0).s)} ELSE {}
        /\ conn' = "lost"
  /\ UNCHANGED <<frames, globals, nread, out, procs, createsp>>

\* Mutant: the row fetched stays the current one.
currow_Stays(r) == results' = results

\* dbr->currow++
currow(r) == results' = [results EXCEPT ![r].rows = Tail(@)]

\* The columns of a row as dbnext and dbnextarray deliver them.
Delivered(result) ==
  IF Callee = N_dbnext THEN RowMap(result.cols, Head(result.rows))
  ELSE RowArray(result.cols, Head(result.rows))

\* Of a failed query the counters were never set: 0, or a row without columns.
\* Anything but a result is no pointer to one.
native_dbnext ==
  /\ NativeDb({N_dbnext, N_dbnextarray})
  /\ LET r == IF Arg(0).t = "ref" THEN Arg(0).n ELSE 0
     IN \/ /\ conn = "none"
           /\ Returns(Num(0)) /\ UNCHANGED results
        \/ /\ conn # "none" /\ r = 0
           /\ status' = "crashed" /\ UNCHANGED <<pc, vstack, arrs, results>>
        \/ /\ conn # "none" /\ r # 0 /\ ~results[r].ok
           /\ \E v \in {Num(0), IF Callee = N_dbnext THEN NewMap(<<>>) ELSE NewArr(<<>>)} : Returns(v)
           /\ UNCHANGED results
        \/ /\ conn # "none" /\ r # 0 /\ results[r].ok /\ results[r].rows = <<>>
           /\ Returns(Num(0)) /\ UNCHANGED results
        \/ /\ conn # "none" /\ r # 0 /\ results[r].ok /\ results[r].rows # <<>>
           /\ Returns(Delivered(results[r])) /\ currow(r)
  /\ UNCHANGED <<frames, globals, nread, out, conn, log, procs, createsp>>

---------------------------------------------------------------------------
(* DBLOCK: the values on the stack are the body, the block's name, how     *)
(* many variables there are, and name and value of each.                   *)

NrVars == Top(3).n
BlockVars == [i \in 1..NrVars |-> Top(3 + 2 * i)]
VarNames == [i \in 1..NrVars |-> Top(2 + 2 * i).s]
Sig == [i \in 1..NrVars |-> SqlType(BlockVars[i].t)]
Proc == [names |-> VarNames, body |-> prog.bodies[-Top(1).s[1]]]

\* DROP and CREATE OR REPLACE of the procedure with these types.  Without
\* variables the DROP is malformed, which nobody notices.
Without(key) == [k \in DOMAIN procs \ {key} |-> procs[k]]
Dropped == IF NrVars = 0 THEN procs ELSE Without(<<Top(2).s, Sig>>)
Replaced == (<<Top(2).s, Sig>> :> Proc) @@ procs
Accepted == IsStatement(prog.bodies[-Top(1).s[1]].code)

\* The procedures the call finds, and the types of the one it runs.
Stored == IF createsp THEN Replaced ELSE procs
Overloads == {k[2] : k \in {k \in DOMAIN Stored : k[1] = Top(2).s}}
CalledSig == Favourite(Overloads)

CalledProc(sig, p) == Called(p.names, sig, p.body, [i \in 1..NrVars |-> Str(ToStr(BlockVars[i]))])
Outcome(sig) == CalledProc(sig, Stored[<<Top(2).s, sig>>])

\* Only numbers and strings can be passed.
Passable == \A i \in 1..NrVars : BlockVars[i].t \in {"num", "str"}

\* The results, the first one on top; a function without any returns one empty
\* column.
Results(r) ==
  IF NrVars = 0 THEN <<Str(<<>>)>>
  ELSE Reverse([i \in 1..NrVars |->
          Column(IF r.vs[VarNames[i]].dt = "int" THEN "num" ELSE "str", r.vs[VarNames[i]].v)])

\* Without a connection, a procedure or variables to pass the program ends.
dblock_refused ==
  /\ Executes({"DBLOCK"})
  /\ \/ conn # "up" /\ UNCHANGED procs
     \/ conn = "up" /\ createsp /\ ~Accepted /\ procs' = Dropped
     \/ /\ conn = "up" /\ (createsp => Accepted)
        /\ ~Passable \/ ~Callable(Overloads)
        /\ procs' = Stored
  /\ Exits
  /\ UNCHANGED <<frames, globals, arrs, nread, out, conn, results, log, createsp>>

\* The connection is lost before the call, between any two statements.
dblock_unreachable ==
  /\ Executes({"DBLOCK"})
  /\ conn = "up" /\ conn' = "lost"
  /\ procs' \in {procs} \cup IF ~createsp THEN {} ELSE IF Accepted THEN {Dropped, Replaced} ELSE {Dropped}
  /\ Exits
  /\ UNCHANGED <<frames, globals, arrs, nread, out, results, log, createsp>>

CanCall ==
  /\ conn = "up" /\ (createsp => Accepted)
  /\ Passable /\ Callable(Overloads)

\* What the outcome r does to the program: an error ends it, a notice that says
\* exit stops the machine.
Outcomes(r) ==
  /\ out' = out \o r.notices
  /\ log' = log \o r.log
  /\ \/ r.stop = "error" /\ Exits
     \/ /\ r.stop # "error"
        /\ vstack' = Below(3 + 2 * NrVars) \o Results(r)
        /\ pc' = IF r.exits THEN pc ELSE pc + 1
        /\ status' = IF r.exits THEN "halted" ELSE status

\* The call returns.
dblock_returns ==
  /\ Executes({"DBLOCK"})
  /\ CanCall
  /\ \E r \in {Outcome(CalledSig)} : Outcomes(r)
  /\ procs' = Stored
  /\ UNCHANGED <<frames, globals, arrs, nread, conn, results, createsp>>

\* The connection is lost during the call or before its answer is here.
dblock_unanswered ==
  /\ Executes({"DBLOCK"})
  /\ CanCall
  /\ \E r \in {Outcome(CalledSig)} :
        /\ \E k \in 0..Len(r.notices) : out' = out \o SubSeq(r.notices, 1, k)
        /\ log' \in {log, log \o r.log}
  /\ conn' = "lost"
  /\ procs' = Stored
  /\ Exits
  /\ UNCHANGED <<frames, globals, arrs, nread, results, createsp>>

---------------------------------------------------------------------------
\* While nothing is asked of the server a loss goes unnoticed.
LoseConnection ==
  /\ status = "running" /\ conn = "up"
  /\ conn' = "lost"
  /\ UNCHANGED <<vars, results, log, procs, createsp>>

\* After a run with -c that got to its end the program is started once more
\* without it, on any input.
Rerun ==
  /\ status \in {"ended", "halted"} /\ createsp
  /\ createsp' = FALSE
  /\ pc' = 0
  /\ vstack' = <<>>
  /\ frames' = <<NewFrame(0, <<>>)>>
  /\ globals' = <<>>
  /\ arrs' = <<>>
  /\ stdin' \in Stdins
  /\ nread' = 0
  /\ out' = <<>>
  /\ status' = "running"
  /\ conn' = "none"
  /\ results' = <<>>
  /\ log' = <<>>
  /\ UNCHANGED <<prog, procs>>

\* A step of the program.
Step ==
  \/ Next /\ UNCHANGED database
  \/ native_dbconnect
  \/ native_dbquery
  \/ native_dbnext
  \/ dblock_refused
  \/ dblock_unreachable
  \/ dblock_returns
  \/ dblock_unanswered

DbNext == Step \/ LoseConnection \/ Rerun

\* The server answers or the connection is lost; the rest is exec_run's loop.
DbSpec == DbInit /\ [][DbNext]_dbvars /\ WF_dbvars(Step)

---------------------------------------------------------------------------
CONSTANT Failing   \* trees with a block the server refuses or that fails

TextsOf(vs) == [i \in DOMAIN vs |-> IF vs[i].t \in {"num", "str"} THEN Str(ToStr(vs[i])) ELSE vs[i]]

Same(e) ==
  /\ TextsOf(out) = TextsOf(e.out)
  /\ log = e.log
  /\ status = "halted" <=> e.stop = "exit"

\* README.md: a program does with its database blocks what it does with -i. What
\* it prints, what it writes and whether it exits are what it means, whenever
\* the connection holds.
SameOutcome ==
  status \in {"ended", "halted"} /\ conn # "lost" => Same(Meant)

\* While the connection holds a program gets to its end, the second time too,
\* unless it is one of those that are known to fail.
Completes ==
  status \in {"exited", "crashed", "aborted"} => conn # "up" \/ SourceOf[prog] \in Failing

AtMark(e) == IsPrefix(log, e.log) /\ Len(log) \in e.marks

\* Whatever fails and whenever the process is stopped, the database has a
\* prefix of what the program means to write, and of a block all or nothing.
BlocksAreAtomic == log # <<>> => AtMark(Meant)

\* Every run of the program ends.
RunsEnd == status = "running" ~> status # "running"
===========================================================================
