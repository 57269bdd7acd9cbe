------------------------------- MODULE MCVm -------------------------------
(* The virtual machine on every program made of a prologue, that puts      *)
(* values of several types on the stack, and a few arbitrary instructions. *)
EXTENDS Vm

I(op) == [op |-> op, n |-> 0]
P(i) == [op |-> "PUSH", n |-> i]

\* A function f, and strings: its name, those of the natives, another name
\* and a text.
f == <<102>>
MCConstants == <<Str(f), Str(N_print), Str(N_getint), Str(N_getstring), Str(N_random),
                 Str(N_exit), Str(N_myadd), Str(<<63>>)>>

\* CALL of a constant with the given number of arguments.
Call(c, nr) == <<P(nr), P(c), I("CONSTANT"), I("CALL")>>

\* f stores its argument and returns what a loop makes of it.
Body == <<P(2), I("GETVAR"), P(0), I("SETVAR"), I("LOOPBEGIN"), P(0), I("GETVAR"), I("LOOPBODY"),
          P(0), I("GETVAR"), I("DEC"), P(0), I("SETVAR"), I("LOOPEND"), P(7), I("RET")>>

Start == <<P(Len(Body) + 2), I("JUMP")>> \o Body

Prologues == {
  <<P(3), I("GETVAR"), P(1)>>,
  <<P(2), P(-1), P(0)>>,
  <<P(9), P(7), I("CONSTANT"), P(MaxInt)>>,
  <<P(6), P(1), P(5), P(2), I("MKARRAY")>>,
  \* an array, an index and the same array
  <<P(5), P(1), I("MKARRAY"), P(0), I("SETVAR"), P(0), I("GETVAR"), P(0), P(0), I("GETVAR")>>,
  \* a value, a key and a map that has the key
  <<P(5), I("CREATEVAL"), P(0), I("SETVAR"), P(7), P(1), P(0), I("GETVAR"), I("INDEXAS"),
    P(1), P(0), I("GETVAR")>>,
  \* a value, an index and the loop stack
  <<I("LOOPBEGIN"), P(7), P(2), P(-1), I("GETVAR")>>,
  \* vm/main.c
  <<P(10), P(20), P(2), I("MKARRAY"), P(30), P(40), P(2), I("MKARRAY")>>}

Opcodes == Compare \cup Arith \cup Unary \cup
  {"CREATEVAL", "CAST", "MKARRAY", "INDEXAS", "DUP", "DISCARD", "NOOP", "SETVAR", "SETGLOBAL",
   "JUMP", "JUMPT", "JUMPF", "JUMPREL", "CONDBEGIN", "CONDELSE", "LOOPBEGIN", "LOOPEND",
   "LOOPEXIT", "LOOPBODY", "HALT", "CALL", "RET", "PRINT", "GETINT", "TSTART", "TEND"}

Steps == {<<I(op)>> : op \in Opcodes} \cup {<<P(2), I(op)>> : op \in {"SETVAR", "SETGLOBAL", "MKARRAY"}}
         \cup {<<P(i), I(op)>> : i \in {-1, -2}, op \in {"GETVAR", "SETVAR"}}
         \cup {<<P(type), I("CREATEVAL")>> : type \in {5, 6}}
         \cup {Call(c, 1) : c \in 0..7}

MCPrograms ==
  {[ops |-> Start \o p \o a \o b, constants |-> MCConstants,
    functions |-> [name \in {f} |-> 2]] : p \in Prologues, a \in Steps, b \in Steps}

MCStdins == {<<[n |-> 4, s |-> <<52>>]>>}
===========================================================================
