----------------------------- MODULE Language -----------------------------
(* What programs of the language mean, by name and without a machine: the  *)
(* definition the compiler and the virtual machine together are checked    *)
(* against.  Blocks only group statements here, as README.md says of them, *)
(* database blocks too.                                                    *)
(*                                                                         *)
(* The state of an evaluation is a record:                                 *)
(*   env    - the variables of the running function, by name               *)
(*   arrs   - the arrays and maps                                          *)
(*   val    - the value of the expression just evaluated                   *)
(*   in, out- lines not read yet, values printed                           *)
(*   stop   - "no"; "return" inside a function that has returned; "exit";  *)
(*            "undefined" without a meaning                                *)
(*   blocks - how many blocks have been entered                            *)
(*   online - a database has been connected to                             *)
(*   results- of each query so far, the columns and the rows left          *)
(*   log    - what has been appended to the database's log                 *)
(*   depth  - how many database blocks are around                          *)
(*   marks  - the lengths the log had outside of them                      *)
EXTENDS Compiler, Server

Start(input) ==
  [env |-> <<>>, arrs |-> <<>>, val |-> Num(0), in |-> input, out |-> <<>>,
   stop |-> "no", blocks |-> 0,
   online |-> FALSE, results |-> <<>>, log |-> <<>>, depth |-> 0, marks |-> {0}]

Lookup(e, name) == IF name \in DOMAIN e.env THEN e.env[name] ELSE Undef

\* An undefined value leaves a variable as it was.
Bind(env, name, v) ==
  IF v = Undef THEN env
  ELSE [x \in DOMAIN env \cup {name} |-> IF x = name THEN v ELSE env[x]]

Value(e, v) ==
  CASE v.t = "newarr" -> [e EXCEPT !.arrs = Append(@, v.s), !.val = Arr(Len(e.arrs) + 1)]
    [] v.t = "newmap" -> [e EXCEPT !.arrs = Append(@, v.s), !.val = Map(Len(e.arrs) + 1)]
    [] v.t = "crash" -> [e EXCEPT !.stop = "undefined"]
    [] OTHER -> [e EXCEPT !.val = v]

\* The function definitions of a program.
RECURSIVE Defuns(_)
Defuns(a) ==
  IF a.k = "defun" THEN {a} \cup Defuns(a.c[3])
  ELSE UNION {Defuns(a.c[i]) : i \in DOMAIN a.c}

\* The names of a parameter list, first to last.
RECURSIVE Params(_)
Params(a) == IF a = Absent THEN <<>> ELSE Append(Params(a.c[1]), a.c[2].s)

BinaryOp(k, v, w, arrs) ==
  CASE k = "+" -> ValAdd(v, w, arrs)
    [] k = "-" -> ValSub(v, w)
    [] k = "*" -> ValMul(v, w, arrs)
    [] k = "/" -> ValDiv(v, w)
    [] k = "<" -> Bool(ValCmp(v, w) < 0)
    [] k = "==" -> Bool(ValCmp(v, w) = 0)
    [] k = "!=" -> Bool(ValCmp(v, w) # 0)

Operators == {"+", "-", "*", "/", "<", "==", "!="}

RECURSIVE Eval(_, _, _), EvalList(_, _, _)

\* The items of a list, evaluated last to first.
EvalList(a, e, fs) ==
  IF a = Absent THEN [e |-> e, vals |-> <<>>]
  ELSE LET e1 == Eval(a.c[2], e, fs)
           rest == EvalList(a.c[1], e1, fs)
       IN [e |-> rest.e, vals |-> Append(rest.vals, e1.val)]

\* A query, its parameters as text: selected rows wait to be fetched, a row for
\* the log is in the database at once unless a database block is around.  A
\* query that fails yields no rows.
Query(args, e) ==
  LET q == args[1].s
      params == Tail(args)
      selected == q \in DOMAIN Selects
      log == IF q \in Writes THEN Append(e.log, Entry(q, params)) ELSE e.log
      result == IF selected THEN [cols |-> Selects[q].cols, rows |-> RowsOf(q, params)]
                ELSE [cols |-> <<>>, rows |-> <<>>]
  IN IF ~e.online \/ args = <<>> \/ args[1].t # "str" THEN [e EXCEPT !.val = Undef]
     ELSE [e EXCEPT !.log = log,
                    !.marks = IF e.depth = 0 THEN @ \cup {Len(log)} ELSE @,
                    !.results = Append(@, result),
                    !.val = Ref(Len(e.results) + 1)]

\* The next row of a result, by column or in order, or 0.
FetchRow(name, args, e) ==
  LET r == IF args = <<>> \/ args[1].t # "ref" THEN 0 ELSE args[1].n
      result == e.results[r]
      row == Head(result.rows)
  IN IF ~e.online THEN [e EXCEPT !.val = Num(0)]
     ELSE IF r = 0 THEN [e EXCEPT !.stop = "undefined"]
     ELSE IF result.rows = <<>> THEN [e EXCEPT !.val = Num(0)]
     ELSE Value([e EXCEPT !.results[r].rows = Tail(@)],
                IF name = N_dbnext THEN RowMap(result.cols, row) ELSE RowArray(result.cols, row))

CallNative(name, args, e) ==
  CASE name \in {N_print, N_println} ->
         LET gaps == {i \in DOMAIN args : args[i] = Undef}
             shown == IF gaps = {} THEN args ELSE SubSeq(args, 1, Min(gaps) - 1)
         IN [e EXCEPT !.out = @ \o [i \in DOMAIN shown |-> Shown(shown[i], e.arrs)], !.val = Undef]
    [] name \in {N_getint, N_getstring} ->
         IF e.in = <<>> THEN [e EXCEPT !.val = Undef]
         ELSE [e EXCEPT !.in = Tail(@),
                        !.val = IF name = N_getint THEN Num(Head(e.in).n) ELSE Str(Head(e.in).s)]
    [] name = N_exit -> [e EXCEPT !.stop = "exit"]
    [] name = N_dbconnect ->
         LET told == args # <<>> /\ args[1].t = "str"
         IN [e EXCEPT !.online = @ \/ told, !.val = Bool(told)]
    [] name \in {N_dbquery, N_dbexec} -> Query(args, e)
    [] name \in {N_dbnext, N_dbnextarray} -> FetchRow(name, args, e)
    [] OTHER -> [e EXCEPT !.val = Undef]

\* A function sees its parameters and its own variables only; without a
\* return its value is 0.
CallFunction(f, args, e, fs) ==
  LET ps == Params(f.c[2])
      given == {i \in DOMAIN ps : i \in DOMAIN args /\ args[i] # Undef}
      env == [x \in {ps[i] : i \in given} |-> args[CHOOSE i \in given : ps[i] = x]]
      e1 == Eval(f.c[3], [e EXCEPT !.env = env], fs)
  IN [e1 EXCEPT !.env = e.env,
                !.val = IF e1.stop = "return" THEN @ ELSE Num(0),
                !.stop = IF @ = "return" THEN "no" ELSE @]

EvalLoop(a, e, fs, times) ==
  LET again[n \in 0..times] ==
        IF n = 0 THEN e
        ELSE IF again[n - 1].stop # "no" THEN again[n - 1]
        ELSE Eval(a, again[n - 1], fs)
  IN again[times]

Eval(a, e, fs) ==
  IF e.stop # "no" THEN e ELSE
  CASE a.k = "null" -> e
    [] a.k = "stmts" -> Eval(a.c[2], Eval(a.c[1], e, fs), fs)
    [] a.k = "hello" -> [e EXCEPT !.out = Append(@, Str(Hello))]
    [] a.k = "num" -> [e EXCEPT !.val = Num(a.n)]
    [] a.k = "str" -> [e EXCEPT !.val = Str(a.s)]
    [] a.k = "id" -> [e EXCEPT !.val = Lookup(e, a.s)]
    [] a.k = "-" /\ a.c[1] = Absent ->
         LET e1 == Eval(a.c[2], e, fs) IN [e1 EXCEPT !.val = ValNeg(@)]
    [] a.k \in Operators /\ a.c[1] # Absent ->
         LET e1 == Eval(a.c[2], e, fs)
             e2 == Eval(a.c[1], e1, fs)
         IN IF e2.stop # "no" THEN e2
            ELSE Value(e2, BinaryOp(a.k, e2.val, e1.val, e2.arrs))
    [] a.k = "=" ->
         LET e1 == Eval(a.c[2], e, fs)
             e2 == [e1 EXCEPT !.env = Bind(@, a.c[1].s, e1.val)]
         IN IF e1.stop # "no" THEN e1 ELSE [e2 EXCEPT !.val = Lookup(e2, a.c[1].s)]
    [] a.k = "arr" ->
         LET l == EvalList(a.c[1], e, fs)
         IN IF l.e.stop # "no" THEN l.e ELSE Value(l.e, NewArr(Trim(l.vals)))
    [] a.k = "[]" ->
         LET e1 == Eval(a.c[2], e, fs)
         IN IF e1.stop # "no" THEN e1
            ELSE Value(e1, ValIndex(Lookup(e1, a.c[1].s), e1.val, e1.arrs))
    [] a.k = "[=" ->
         LET e1 == Eval(a.c[3], e, fs)
             e2 == Eval(a.c[2], e1, fs)
             v == Lookup(e2, a.c[1].s)
         IN IF e2.stop # "no" THEN e2
            ELSE [e2 EXCEPT !.val = e1.val,
                            !.stop = IF WriteIsLost(v, e2.val, e1.val) THEN "undefined" ELSE @,
                            !.arrs = Assigned(v, e2.val, e1.val, @)]
    [] a.k = "if" ->
         LET e1 == Eval(a.c[1], e, fs)
         IN IF e1.stop # "no" THEN e1
            ELSE IF Truth(e1.val, e1.arrs) THEN Eval(a.c[2], e1, fs) ELSE Eval(a.c[3], e1, fs)
    [] a.k = "while" ->
         LET e1 == Eval(a.c[1], e, fs)
         IN IF e1.stop # "no" \/ ~Truth(e1.val, e1.arrs) THEN e1
            ELSE Eval(a, Eval(a.c[2], e1, fs), fs)
    [] a.k = "repeat" -> EvalLoop(a.c[2], e, fs, a.c[1].n)
    [] a.k = "funcall" ->
         LET l == EvalList(a.c[2], e, fs)
             known == {f \in fs : f.c[1].s = a.c[1].s}
         IN IF l.e.stop # "no" THEN l.e
            ELSE IF known = {} THEN CallNative(a.c[1].s, l.vals, l.e)
            ELSE CallFunction(CHOOSE f \in known : TRUE, l.vals, l.e, fs)
    [] a.k = "defun" -> e
    [] a.k = "return" ->
         LET e1 == Eval(a.c[1], e, fs)
         IN IF e1.stop # "no" THEN e1 ELSE [e1 EXCEPT !.stop = "return"]
    [] a.k = "block" ->
         Eval(a.c[1], [e EXCEPT !.blocks = @ + 1], fs)
    [] a.k = "dblock" ->
         LET e1 == Eval(a.c[1], [e EXCEPT !.blocks = @ + 1, !.depth = @ + 1], fs)
         IN [e1 EXCEPT !.depth = @ - 1,
                       !.marks = IF e.depth = 0 THEN @ \cup {Len(e1.log)} ELSE @]

\* The outcome of a program on an input.
Meaning(a, input) == Eval(a, Start(input), Defuns(a))
===========================================================================
