-------------------------------- MODULE Vm --------------------------------
(* The virtual machine of vm/prog.c: one action of the next-state relation *)
(* per operation code (operations of the same shape share one), each the   *)
(* whole of exec_step for it.                                              *)
(*                                                                         *)
(* An instruction is a record [op, n]: op = "PUSH" with the number n, or   *)
(* the name of an opcode.  Memory is never reclaimed here: module Gc shows *)
(* that programs cannot tell.  DBLOCK and the database natives are in      *)
(* module Database.                                                        *)
EXTENDS Values, FiniteSets

CONSTANTS
  Programs,   \* what prog may be: [ops, constants, functions]
  Stdins,     \* what standard input may hold: sequences of lines
  Clock,      \* what gettimeofday may return, as TSTART and TEND fold it
  Randoms,    \* what rand may return
  MaxSize     \* bound: a machine that holds more than this stays where it is

\* Addresses and pushed numbers are ints; the constants are numbers and strings,
\* reals are not represented.  Input, time and random numbers arrive as ints.
ASSUME ProgramAssumption ==
  \A program \in Programs :
    /\ program.ops \in Seq([op : STRING, n : MinInt..MaxInt])
    /\ Len(program.ops) <= MaxInt
    /\ program.constants \in
         Seq([t : {"num"}, n : MinInt..MaxInt, s : {<<>>}] \cup [t : {"str"}, n : {0}, s : Seq(Int)])

ASSUME InputAssumption ==
  /\ Stdins \subseteq Seq([n : MinInt..MaxInt, s : Seq(Int)])
  /\ Clock \subseteq MinInt..MaxInt
  /\ Randoms \subseteq 0..MaxInt

VARIABLES
  prog,       \* exec->prog
  pc,         \* exec->pc
  vstack,     \* exec->vstack
  frames,     \* exec->vars: records of what their slots hold, see NewFrame
  globals,    \* exec->global_vars
  arrs,       \* the arrays created so far, by number
  stdin,      \* the lines of standard input
  nread,      \* how many of them have been read
  out,        \* the values printed
  status      \* "running", "ended", "halted"; "aborted" by an assertion;
              \* "crashed": trapped, out of memory or without meaning in C

machine == <<vstack, frames, globals, arrs, nread, out>>
vars == <<prog, stdin, pc, machine, status>>

\* An array of variables: the return address in slot 0, the loop stack in slot
\* 1, the variables from slot 2 on.  While nothing but slot 1 refers to the loop
\* stack, it is the sequence of its addresses, loops, and lent is undefined;
\* once a program has laid hands on slot 1, lent is the value there.
NewFrame(address, args) ==
  [ret |-> Num(address), loops |-> <<>>, lent |-> Undef, vars |-> args]

Init ==
  /\ prog \in Programs
  /\ pc = 0
  /\ vstack = <<>>
  /\ frames = <<NewFrame(0, <<>>)>>
  /\ globals = <<>>
  /\ arrs = <<>>
  /\ stdin \in Stdins
  /\ nread = 0
  /\ out = <<>>
  /\ status = "running"

---------------------------------------------------------------------------
(* Shorthands for the operations below. *)

NrOps == Len(prog.ops)
Op == prog.ops[pc + 1].op
At(ops) == status = "running" /\ pc \in 0..(NrOps - 1) /\ Op \in ops

Frame == Last(frames)

\* The values on a frame's loop stack, if slot 1 holds an array.
HasLoopStack == Frame.lent.t \in {"undef", "arr"}
Numbers(s) == [i \in DOMAIN s |-> Num(s[i])]
LoopStack(fr) == IF fr.lent.t = "arr" THEN arrs[fr.lent.n] ELSE Numbers(fr.loops)

\* A program may fill the memory; it is followed up to a bound.
Size == Len(vstack) + Len(arrs) + Len(out)
          + FoldLeft(LAMBDA n, fr : n + 1 + Len(LoopStack(fr)), 0, frames)
WithinBound == Size <= MaxSize

\* The i-th value from the top of the stack, and the stack below k values.
Top(i) == vstack[Len(vstack) + 1 - i]
Below(k) == SubSeq(vstack, 1, Len(vstack) - k)

\* The operands of CALL.
Callee == Top(1).s
NrArgs == IF Top(2).n < 0 THEN 0 ELSE Top(2).n

\* Mutant: the arguments are taken in the reverse order.
Args_Reversed == Trim([i \in 1..NrArgs |-> Top(NrArgs + 3 - i)])

\* The slots 2.. of the frame CALL builds: the arguments without the
\* undefined ones at the end.
Args == Trim([i \in 1..NrArgs |-> Top(i + 2)])
Arg(i) == ArrGet(Args, i)

\* print and println stop at the first undefined argument.
Printed ==
  LET gaps == {i \in DOMAIN Args : Args[i] = Undef}
  IN IF gaps = {} THEN Args ELSE SubSeq(Args, 1, Min(gaps) - 1)

\* The stack is replaced and the next instruction follows.
Continue(stack) == vstack' = stack /\ pc' = pc + 1 /\ status' = status
Jump(target, stack) == vstack' = stack /\ pc' = target /\ status' = status

\* A result goes on a stack; a new array is given a number first.
Yield(r, stack) ==
  IF r.t = "crash"
  THEN status' = "crashed" /\ UNCHANGED <<vstack, pc, arrs>>
  ELSE IF r.t \in {"newarr", "newmap"}
  THEN /\ arrs' = Append(arrs, r.s)
       /\ Continue(Append(stack, IF r.t = "newarr" THEN Arr(Len(arrs) + 1) ELSE Map(Len(arrs) + 1)))
  ELSE UNCHANGED arrs /\ Continue(Append(stack, r))

---------------------------------------------------------------------------
(* The assertions: MINARGS, vstack_pop, vstack_peek and the checks of      *)
(* operand types.                                                          *)

Nullary == {"PUSH", "CONDELSE", "CONDEND", "LOOPBEGIN", "LOOPEND", "LOOPEXIT",
            "LOOPRESTART", "HALT", "RET", "GETINT", "TSTART", "NOOP"}
Ternary == {"INDEXAS"}
Compare == {"EQUAL", "NOTEQUAL", "LESS", "LESSEQUAL", "GREATER", "GREATEREQUAL"}
Arith == {"ADD", "SUB", "MUL", "DIVIDE", "MODULO", "MYMUL", "AND", "OR", "INDEX1"}
Binary == Compare \cup Arith \cup
          {"SETVAR", "SETGLOBAL", "JUMPT", "JUMPF", "JUMPREL", "CALL", "CAST"}

MinArgs(op) ==
  CASE op \in Nullary -> 0
    [] op \in Binary -> 2
    [] op \in Ternary -> 3
    [] OTHER -> 1

NumberOnTop == {"CONSTANT", "GETVAR", "SETVAR", "GETGLOBAL", "SETGLOBAL", "JUMP",
                "JUMPT", "JUMPF", "JUMPREL", "CREATEVAL", "CAST", "MKARRAY"}
UsesLoops == {"LOOPBEGIN", "LOOPEND", "LOOPRESTART", "LOOPEXIT"}
UsesFrame == UsesLoops \cup {"GETVAR", "SETVAR", "RET"}

AssertsHold ==
  /\ Len(vstack) >= MinArgs(Op)
  /\ Op \in NumberOnTop => Top(1).t = "num"
  /\ Op \in UsesFrame => frames # <<>>
  /\ Op \in UsesLoops => HasLoopStack
  /\ Op = "LOOPBODY" /\ ~Truth(Top(1), arrs) => frames # <<>> /\ HasLoopStack
  /\ Op \in {"LOOPEND", "LOOPRESTART"} =>
       LoopStack(Frame) # <<>> /\ Last(LoopStack(Frame)).t = "num"
  /\ Op = "RET" => Frame.ret.t = "num"
  /\ Op = "CALL" => /\ Top(1).t = "str"
                    /\ Top(2).t = "num"
                    /\ Len(vstack) - 2 >= Top(2).n
  /\ Op = "DBLOCK" => Len(vstack) >= 3 /\ Len(vstack) >= 3 + 2 * Top(3).n
  /\ Op = "MKARRAY" => Len(vstack) - 1 >= Top(1).n

\* A failed assertion ends the process.
AssertFails ==
  /\ status = "running" /\ pc \in 0..(NrOps - 1)
  /\ ~AssertsHold
  /\ status' = "aborted"
  /\ UNCHANGED <<prog, stdin, pc, machine>>

\* Turning an array into text never ends if arrays that contain each other can
\* be reached from it: some set of arrays that all refer into the set.
Endless(v) ==
  /\ v.t \in {"arr", "map"}
  /\ \E S \in SUBSET DOMAIN arrs :
       /\ v.n \in S
       /\ \A a \in S : \E w \in ToSet(arrs[a]) : w.t \in {"arr", "map"} /\ w.n \in S

\* The slot of a variable, computed as an int plus 2: nothing keeps a program
\* from variables -1 and -2, the loop stack and the return address.
Slot(i) == Wrap(i + 2) - 2

\* GETVAR of a loop stack that only its frame refers to.
LendsLoops == Op = "GETVAR" /\ Slot(Top(1).n) = -1 /\ Frame.lent = Undef

Loaded(fr, i) ==
  CASE i = -1 -> fr.lent
    [] i = -2 -> fr.ret
    [] OTHER -> ArrGet(fr.vars, i)

\* What an instruction turns into text, if only for a debugging message.
Texts ==
  CASE Op = "PRINT" -> {Top(1)}
    [] Op \in {"SETVAR", "SETGLOBAL"} -> {Top(2)}
    [] Op = "GETVAR" -> {Loaded(Frame, Slot(Top(1).n))}
    [] Op = "GETGLOBAL" -> {ArrGet(globals, Top(1).n)}
    [] Op = "CALL" /\ Callee \in {N_print, N_println} \ DOMAIN prog.functions -> ToSet(Printed)
    [] OTHER -> {}

EndlessText == \E v \in Texts : Endless(v)

\* val_to_string calls itself until the C stack is used up.
TextOverflows ==
  /\ status = "running" /\ pc \in 0..(NrOps - 1)
  /\ AssertsHold /\ EndlessText
  /\ status' = "crashed"
  /\ UNCHANGED <<prog, stdin, pc, machine>>

Executes(ops) ==
  /\ At(ops)
  /\ WithinBound
  /\ AssertsHold /\ ~EndlessText
  /\ UNCHANGED <<prog, stdin>>

ProgramEnd ==
  /\ status = "running"
  /\ pc >= NrOps
  /\ status' = "ended"
  /\ UNCHANGED <<prog, stdin, pc, machine>>

---------------------------------------------------------------------------
(* Values and arithmetic. *)

op_push ==
  /\ Executes({"PUSH"})
  /\ Continue(Append(vstack, Num(prog.ops[pc + 1].n)))
  /\ UNCHANGED <<frames, globals, arrs, nread, out>>

\* The first operand is the value on top.
BinaryResult(op, v, w) ==
  CASE op = "ADD" -> ValAdd(v, w, arrs)
    [] op = "SUB" -> ValSub(v, w)
    [] op \in {"MUL", "MYMUL"} -> ValMul(v, w, arrs)
    [] op = "DIVIDE" -> ValDiv(v, w)
    [] op = "MODULO" -> ValMod(v, w)
    [] op = "EQUAL" -> Bool(ValCmp(v, w) = 0)
    [] op = "NOTEQUAL" -> Bool(ValCmp(v, w) # 0)
    [] op = "LESS" -> Bool(ValCmp(v, w) < 0)
    [] op = "LESSEQUAL" -> Bool(ValCmp(v, w) <= 0)
    [] op = "GREATER" -> Bool(ValCmp(v, w) > 0)
    [] op = "GREATEREQUAL" -> Bool(ValCmp(v, w) >= 0)
    [] op = "AND" -> Bool(Truth(v, arrs) /\ Truth(w, arrs))
    [] op = "OR" -> Bool(Truth(v, arrs) \/ Truth(w, arrs))
    [] op = "INDEX1" -> ValIndex(v, w, arrs)

op_binary ==
  /\ Executes(Compare \cup Arith)
  /\ Yield(BinaryResult(Op, Top(1), Top(2)), Below(2))
  /\ UNCHANGED <<frames, globals, nread, out>>

\* NOT reads the number field of its operand.  Of val_undef and NULL it is 0;
\* all else has half a pointer there.
NotResults(v) == IF v.t \in {"num", "undef"} \/ v = Ref(0) THEN {Bool(v.n = 0)} ELSE {Num(0), Num(1)}

UnaryResults(op, v) ==
  CASE op = "NEGATE" -> {ValNeg(v)}
    [] op = "INC" -> {IF v.t = "num" THEN Num(Wrap(v.n + 1)) ELSE v}
    [] op = "DEC" -> {IF v.t = "num" THEN Num(Wrap(v.n - 1)) ELSE v}
    [] op = "NOT" -> NotResults(v)
    [] op = "LEN" -> {Num(Wrap(ValLen(v, arrs)))}
    [] op = "COPY" -> {ValDup(v, arrs)}
    [] op = "CONSTANT" -> {ArrGet(prog.constants, v.n)}
    [] op = "GETVAR" -> {Loaded(Frame, Slot(v.n))}
    [] op = "GETGLOBAL" -> {ArrGet(globals, v.n)}

Unary == {"NEGATE", "INC", "DEC", "NOT", "LEN", "COPY", "CONSTANT", "GETVAR", "GETGLOBAL"}

op_unary ==
  /\ Executes(Unary)
  /\ ~LendsLoops
  /\ \E r \in UnaryResults(Op, Top(1)) : Yield(r, Below(1))
  /\ UNCHANGED <<frames, globals, nread, out>>

\* CREATEVAL and CAST know the types by number; 3, reals, are not represented.
Created(type) ==
  CASE type = 0 -> Undef
    [] type = 1 -> Str(<<>>)
    [] type = 2 -> Num(0)
    [] type = 4 -> NewArr(<<>>)
    [] type = 5 -> NewMap(<<>>)
    [] type = 6 -> Ref(0)
    [] type \notin 0..6 -> Crash

op_createval ==
  /\ Executes({"CREATEVAL"})
  /\ Top(1).n # 3
  /\ Yield(Created(Top(1).n), Below(1))
  /\ UNCHANGED <<frames, globals, nread, out>>

Cast(type, v) ==
  CASE type = 1 -> Str(ToStr(v))
    [] type = 2 -> ToNum(v)
    [] <<type, v.t>> \in {<<4, "arr">>, <<5, "map">>, <<6, "ref">>} -> v
    [] type \notin 0..6 -> Crash
    [] OTHER -> Undef

op_cast ==
  /\ Executes({"CAST"})
  /\ Top(1).n # 3
  /\ Yield(Cast(Top(1).n, Top(2)), Below(2))
  /\ UNCHANGED <<frames, globals, nread, out>>

\* Mutant: undefined items at the end stay.
op_mkarray_Untrimmed ==
  /\ Executes({"MKARRAY"})
  /\ LET nr == IF Top(1).n < 0 THEN 0 ELSE Top(1).n
     IN Yield(NewArr([i \in 1..nr |-> Top(i + 1)]), Below(nr + 1))
  /\ UNCHANGED <<frames, globals, nread, out>>

op_mkarray ==
  /\ Executes({"MKARRAY"})
  /\ LET nr == IF Top(1).n < 0 THEN 0 ELSE Top(1).n
     IN Yield(NewArr(Trim([i \in 1..nr |-> Top(i + 1)])), Below(nr + 1))
  /\ UNCHANGED <<frames, globals, nread, out>>

\* The value assigned stays on the stack.
op_indexas ==
  /\ Executes({"INDEXAS"})
  /\ IF WriteIsLost(Top(1), Top(2), Top(3))
     THEN status' = "crashed" /\ UNCHANGED <<vstack, pc, arrs>>
     ELSE /\ Continue(Append(Below(3), Top(3)))
          /\ arrs' = Assigned(Top(1), Top(2), Top(3), arrs)
  /\ UNCHANGED <<frames, globals, nread, out>>

op_dup ==
  /\ Executes({"DUP"})
  /\ Continue(Append(vstack, Top(1)))
  /\ UNCHANGED <<frames, globals, arrs, nread, out>>

op_discard ==
  /\ Executes({"DISCARD"})
  /\ Continue(Below(1))
  /\ UNCHANGED <<frames, globals, arrs, nread, out>>

\* CONDEND does nothing either.
op_noop ==
  /\ Executes({"NOOP", "CONDEND"})
  /\ Continue(vstack)
  /\ UNCHANGED <<frames, globals, arrs, nread, out>>

---------------------------------------------------------------------------
(* Variables.  An undefined value is not stored: the old one stays. *)

\* GETVAR of variable -1: the loop stack becomes an array like any other.
op_getvar_loops ==
  /\ Executes({"GETVAR"})
  /\ LendsLoops
  /\ Yield(NewArr(Numbers(Frame.loops)), Below(1))
  /\ frames' = [frames EXCEPT ![Len(frames)].loops = <<>>,
                              ![Len(frames)].lent = Arr(Len(arrs) + 1)]
  /\ UNCHANGED <<globals, nread, out>>

\* arr_set on a frame.
VarSet(fr, i, v) ==
  CASE v = Undef -> fr
    [] v # Undef /\ i = -1 -> [fr EXCEPT !.loops = <<>>, !.lent = v]
    [] v # Undef /\ i = -2 -> [fr EXCEPT !.ret = v]
    [] OTHER -> [fr EXCEPT !.vars = ArrSet(@, i, v)]

op_setvar ==
  /\ Executes({"SETVAR"})
  /\ IF Slot(Top(1).n) < -2 /\ Top(2) # Undef
     THEN status' = "crashed" /\ UNCHANGED <<vstack, pc, frames>>
     ELSE /\ Continue(Below(2))
          /\ frames' = [frames EXCEPT ![Len(frames)] = VarSet(@, Slot(Top(1).n), Top(2))]
  /\ UNCHANGED <<globals, arrs, nread, out>>

op_setglobal ==
  /\ Executes({"SETGLOBAL"})
  /\ IF Top(1).n < 0 /\ Top(2) # Undef
     THEN status' = "crashed" /\ UNCHANGED <<vstack, pc, globals>>
     ELSE /\ Continue(Below(2))
          /\ globals' = ArrSet(globals, Top(1).n, Top(2))
  /\ UNCHANGED <<frames, arrs, nread, out>>

---------------------------------------------------------------------------
(* Control.  exec_step increments pc after the operation. *)

op_jump ==
  /\ Executes({"JUMP"})
  /\ Jump(Top(1).n, Below(1))
  /\ UNCHANGED <<frames, globals, arrs, nread, out>>

op_jumpcond ==
  /\ Executes({"JUMPT", "JUMPF", "JUMPREL"})
  /\ LET taken == Truth(Top(2), arrs) = (Op # "JUMPF")
         target == IF Op = "JUMPREL" THEN Wrap(pc + Top(1).n) ELSE Top(1).n
     IN Jump(IF taken THEN target ELSE pc + 1, Below(2))
  /\ UNCHANGED <<frames, globals, arrs, nread, out>>

\* Nesting depth at position j, counted from the instruction after q.
Depth(p, q, j, open, close) ==
  LET between == (q + 1)..j
  IN 1 + Cardinality({k \in between : p.ops[k + 1].op = open})
       - Cardinality({k \in between : p.ops[k + 1].op = close})

\* Where the scan of CONDBEGIN, CONDELSE and LOOPEXIT stops that begins at q: at
\* the matching end, at a matching instruction in stop, or past the program.
ScanFrom(p, q, open, close, stop) ==
  LET ends == {j \in (q + 1)..(Len(p.ops) - 1) :
                 \/ Depth(p, q, j, open, close) = 0
                 \/ p.ops[j + 1].op \in stop /\ Depth(p, q, j, open, close) = 1}
  IN IF ends = {} THEN Len(p.ops) ELSE Min(ends)

\* Mutant: the scan stops at the first end whatever it belongs to.
ScanEnd_IgnoresNesting(open, close, stop) ==
  LET ends == {j \in (pc + 1)..(NrOps - 1) : prog.ops[j + 1].op \in {close} \cup stop}
  IN IF ends = {} THEN NrOps ELSE Min(ends)

ScanEnd(open, close, stop) == ScanFrom(prog, pc, open, close, stop)

op_condbegin ==
  /\ Executes({"CONDBEGIN"})
  /\ Jump((IF Truth(Top(1), arrs) THEN pc ELSE ScanEnd("CONDBEGIN", "CONDEND", {"CONDELSE"})) + 1,
          Below(1))
  /\ UNCHANGED <<frames, globals, arrs, nread, out>>

op_condelse ==
  /\ Executes({"CONDELSE"})
  /\ Jump(ScanEnd("CONDBEGIN", "CONDEND", {}) + 1, vstack)
  /\ UNCHANGED <<frames, globals, arrs, nread, out>>

\* Mutant: the outermost function's loop stack is taken.
LoopsPushed_Outermost(address) ==
  frames' = [frames EXCEPT ![1].loops = Append(@, address)] /\ UNCHANGED arrs

\* val_push and val_pop on the loop stack; arr_pop uncovers what was below, be
\* it undefined.
LoopsPushed(address) ==
  IF Frame.lent.t = "arr"
  THEN arrs' = [arrs EXCEPT ![Frame.lent.n] = Append(@, Num(address))] /\ UNCHANGED frames
  ELSE frames' = [frames EXCEPT ![Len(frames)].loops = Append(@, address)] /\ UNCHANGED arrs

Pop(s) == IF s = <<>> THEN <<>> ELSE Front(s)

LoopsPopped ==
  IF Frame.lent.t = "arr"
  THEN arrs' = [arrs EXCEPT ![Frame.lent.n] = Pop(@)] /\ UNCHANGED frames
  ELSE frames' = [frames EXCEPT ![Len(frames)].loops = Pop(@)] /\ UNCHANGED arrs

\* Mutant: the instruction after LOOPBEGIN is remembered.
op_loopbegin_Late ==
  /\ Executes({"LOOPBEGIN"})
  /\ Continue(vstack)
  /\ LoopsPushed(pc + 1)
  /\ UNCHANGED <<globals, nread, out>>

op_loopbegin ==
  /\ Executes({"LOOPBEGIN"})
  /\ Continue(vstack)
  /\ LoopsPushed(pc)
  /\ UNCHANGED <<globals, nread, out>>

\* Mutant: back to LOOPBEGIN itself.
op_loopend_Reenters ==
  /\ Executes({"LOOPEND", "LOOPRESTART"})
  /\ Jump(Last(LoopStack(Frame)).n, vstack)
  /\ UNCHANGED <<frames, globals, arrs, nread, out>>

\* LOOPEND and LOOPRESTART: back to the instruction after LOOPBEGIN.
op_loopend ==
  /\ Executes({"LOOPEND", "LOOPRESTART"})
  /\ Jump(Wrap(Last(LoopStack(Frame)).n + 1), vstack)
  /\ UNCHANGED <<frames, globals, arrs, nread, out>>

\* Mutant: the loop is left onto its LOOPEND, as if pc was not incremented.
LeaveLoop_OntoEnd(stack) ==
  /\ Jump(ScanEnd("LOOPBEGIN", "LOOPEND", {}), stack)
  /\ LoopsPopped

\* The loop is left behind its LOOPEND and forgotten.
LeaveLoop(stack) ==
  /\ Jump(ScanEnd("LOOPBEGIN", "LOOPEND", {}) + 1, stack)
  /\ LoopsPopped

op_loopexit ==
  /\ Executes({"LOOPEXIT"})
  /\ LeaveLoop(vstack)
  /\ UNCHANGED <<globals, nread, out>>

op_loopbody ==
  /\ Executes({"LOOPBODY"})
  /\ IF Truth(Top(1), arrs)
     THEN Continue(Below(1)) /\ UNCHANGED <<frames, arrs>>
     ELSE LeaveLoop(Below(1))
  /\ UNCHANGED <<globals, nread, out>>

op_halt ==
  /\ Executes({"HALT"})
  /\ status' = "halted"
  /\ UNCHANGED <<pc, machine>>

---------------------------------------------------------------------------
(* Calls. *)

op_call ==
  /\ Executes({"CALL"})
  /\ Callee \in DOMAIN prog.functions
  /\ Jump(prog.functions[Callee], Below(NrArgs + 2))
  /\ frames' = Append(frames, NewFrame(pc, Args))
  /\ UNCHANGED <<globals, arrs, nread, out>>

op_ret ==
  /\ Executes({"RET"})
  /\ Jump(Wrap(Frame.ret.n + 1), vstack)
  /\ frames' = Front(frames)
  /\ UNCHANGED <<globals, arrs, nread, out>>

\* CALL of a built-in function.
Native(name) == /\ Executes({"CALL"})
                /\ Callee = name
                /\ Callee \notin DOMAIN prog.functions

native_print ==
  /\ Native(N_print) \/ Native(N_println)
  /\ out' = out \o [i \in DOMAIN Printed |-> Shown(Printed[i], arrs)]
  /\ Yield(Undef, Below(NrArgs + 2))
  /\ UNCHANGED <<frames, globals, nread>>

\* A line is read, if there is one; it has a number n for atoi and a text s.
EndOfInput == nread = Len(stdin)
Line == stdin[nread + 1]
ReadLine == nread' = IF EndOfInput THEN nread ELSE nread + 1

\* getint and getstring read a line; at the end of input they are undefined.
native_read ==
  /\ Native(N_getint) \/ Native(N_getstring)
  /\ Yield(IF EndOfInput THEN Undef
           ELSE IF Callee = N_getint THEN Num(Line.n) ELSE Str(Line.s),
           Below(NrArgs + 2))
  /\ ReadLine
  /\ UNCHANGED <<frames, globals, out>>

native_random ==
  /\ Native(N_random)
  /\ \E r \in Randoms :
       Yield(IF Arg(0).t = "num" THEN ValMod(Num(r), Arg(0)) ELSE Num(r), Below(NrArgs + 2))
  /\ UNCHANGED <<frames, globals, nread, out>>

\* exit: the machine stops before the next instruction, its result pushed.
native_exit ==
  /\ Native(N_exit)
  /\ status' = "halted"
  /\ vstack' = Append(Below(NrArgs + 2), Undef)
  /\ UNCHANGED <<pc, frames, globals, arrs, nread, out>>

native_myadd ==
  /\ Native(N_myadd)
  /\ Yield(ValAdd(Arg(0), Arg(1), arrs), Below(NrArgs + 2))
  /\ UNCHANGED <<frames, globals, nread, out>>

\* A function nobody defined yields the undefined value.
op_call_unknown ==
  /\ Executes({"CALL"})
  /\ Callee \notin Natives \cup DOMAIN prog.functions
  /\ Yield(Undef, Below(NrArgs + 2))
  /\ UNCHANGED <<frames, globals, nread, out>>

---------------------------------------------------------------------------
(* Input, output and time. *)

op_print ==
  /\ Executes({"PRINT"})
  /\ Continue(Below(1))
  /\ out' = Append(out, Shown(Top(1), arrs))
  /\ UNCHANGED <<frames, globals, arrs, nread>>

op_getint ==
  /\ Executes({"GETINT"})
  /\ Continue(Append(vstack, IF EndOfInput THEN Num(0) ELSE Num(Line.n)))
  /\ ReadLine
  /\ UNCHANGED <<frames, globals, arrs, out>>

op_tstart ==
  /\ Executes({"TSTART"})
  /\ \E now \in Clock : Continue(Append(vstack, Num(now)))
  /\ UNCHANGED <<frames, globals, arrs, nread, out>>

\* TEND takes the value on top for the start time and pushes the end time.
op_tend ==
  /\ Executes({"TEND"})
  /\ \E now \in Clock : Continue(Append(Below(1), Num(now)))
  /\ UNCHANGED <<frames, globals, arrs, nread, out>>

\* A jump to a negative address reads outside the program.
WildJump ==
  /\ status = "running"
  /\ pc < 0
  /\ status' = "crashed"
  /\ UNCHANGED <<prog, stdin, pc, machine>>

---------------------------------------------------------------------------
Next ==
  \/ AssertFails
  \/ TextOverflows
  \/ ProgramEnd
  \/ WildJump
  \/ op_push
  \/ op_binary
  \/ op_unary
  \/ op_createval
  \/ op_cast
  \/ op_mkarray
  \/ op_indexas
  \/ op_dup
  \/ op_discard
  \/ op_noop
  \/ op_getvar_loops
  \/ op_setvar
  \/ op_setglobal
  \/ op_jump
  \/ op_jumpcond
  \/ op_condbegin
  \/ op_condelse
  \/ op_loopbegin
  \/ op_loopend
  \/ op_loopexit
  \/ op_loopbody
  \/ op_halt
  \/ op_call
  \/ op_ret
  \/ native_print
  \/ native_read
  \/ native_random
  \/ native_exit
  \/ native_myadd
  \/ op_call_unknown
  \/ op_print
  \/ op_getint
  \/ op_tstart
  \/ op_tend

\* exec_run steps until the program ends.
Spec == Init /\ [][Next]_vars /\ WF_vars(Next)

---------------------------------------------------------------------------
(* Properties, of every program whatever. *)

WellFormed(v) ==
  CASE v.t = "num" -> v.n \in MinInt..MaxInt
    [] v.t \in {"arr", "map"} -> v.n \in DOMAIN arrs
    [] OTHER -> v.t \in {"undef", "str", "ref"}

Slots == {globals} \cup ToSet(arrs) \cup {frames[i].vars : i \in DOMAIN frames}

\* Numbers stay ints, arrays that values refer to exist, a request or a crash
\* is never stored as a value, and a loop stack only its frame refers to holds
\* instructions: of programs that write return addresses and loop stacks, too.
TypeOK ==
  /\ status \in {"running", "ended", "halted", "aborted", "crashed"}
  /\ nread \in 0..Len(stdin)
  /\ \A s \in {vstack} \cup Slots : \A v \in ToSet(s) : WellFormed(v)
  /\ \A i \in DOMAIN frames :
       /\ WellFormed(frames[i].ret)
       /\ WellFormed(frames[i].lent)
       /\ ToSet(frames[i].loops) \subseteq 0..(NrOps - 1)

\* map.c: a map has a key at most once, by val_cmp, so that what is read is what
\* was written last.
KeysUnique ==
  \A s \in {vstack} \cup Slots : \A v \in ToSet(s) :
    v.t = "map" =>
      \A i, j \in 1..(Len(arrs[v.n]) \div 2) :
        i # j => ValCmp(arrs[v.n][2 * i - 1], arrs[v.n][2 * j - 1]) # 0

\* arr.c: no step leaves an undefined slot at the end of an array, of a frame or
\* of the globals: len counts on it and so does val_to_bool, for which an array of
\* undefined items is false.  Only leaving a loop may, when the program took the
\* loop stack for an array and left gaps in it, for arr_pop does not trim.
Trimmed ==
  [][\A s \in Slots' \ Slots :
       \/ s # <<>> => Last(s) # Undef
       \/ Op \in {"LOOPEXIT", "LOOPBODY"} /\ s = Pop(LoopStack(Frame))]_vars
===========================================================================
