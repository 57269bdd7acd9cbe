----------------------------- MODULE Bytecode -----------------------------
(* Bytecode files: prog_write and prog_read of prog.c, with the            *)
(* serialisation of values in vm/val/.  sqlinked builds a program, writes  *)
(* it and may die while it does so; vm reads the file at any time.         *)
(*                                                                         *)
(* A file is a sequence of units: a number write_int wrote, or the         *)
(* characters of a string.  A unit cut in the middle is as good as missing *)
(* for fread.  The file is small enough to be read at one instant.         *)
EXTENDS Builder

VARIABLES
  file,      \* what is on disk, <<>> after fopen; NoFile before
  rest,      \* units prog_write has not written yet
  writer,    \* sqlinked: "building", "writing", "written", "dead"
  loaded     \* what vm has made of the file: NotRead, Refused or a program

vars == <<builder, file, rest, writer, loaded>>

NoFile == <<Undef>>
NotRead == [status |-> "not read", constants |-> <<>>, functions |-> <<>>, ops |-> <<>>]
Refused == [NotRead EXCEPT !.status = "refused"]

---------------------------------------------------------------------------
(* Words: op_enum.h numbers the operations, MKOP and OP mark them. *)

OpNames ==
  <<"MYMUL", "DBLOCK", "ADD", "SUB", "MUL", "DIVIDE", "MODULO", "NEGATE", "INC", "DEC", "EQUAL",
    "NOTEQUAL", "LESS", "LESSEQUAL", "GREATER", "GREATEREQUAL", "AND", "OR", "NOT", "PRINT",
    "CONSTANT", "GETVAR", "SETVAR", "GETGLOBAL", "SETGLOBAL", "JUMP", "JUMPT", "JUMPF", "DUP",
    "COPY", "DISCARD", "CONDBEGIN", "CONDELSE", "CONDEND", "LOOPBEGIN", "LOOPBODY", "LOOPEND",
    "LOOPEXIT", "LOOPRESTART", "HALT", "CALL", "RET", "CREATEVAL", "CAST", "LEN", "MKARRAY",
    "INDEX1", "INDEXAS", "GETINT", "JUMPREL", "TSTART", "TEND", "NOOP">>

Word(ins) ==
  IF ins.op = "PUSH" THEN ins.n ELSE MinInt + CHOOSE i \in DOMAIN OpNames : OpNames[i] = ins.op

Instruction(w) ==
  IF w \in OpWords THEN [op |-> OpNames[w - MinInt], n |-> 0] ELSE [op |-> "PUSH", n |-> w]

\* Programs of strings and numbers as constants, names, ints as operands, and
\* operations there are.  Real constants, which the compiler makes too, are
\* left out.
ASSUME BytecodeAssumption ==
  /\ Constants \subseteq [t : {"num"}, n : Int, s : {<<>>}] \cup [t : {"str"}, n : {0}, s : Seq(Int)]
  /\ Ids \subseteq Seq(Int)
  /\ Numbers \subseteq Int
  /\ Ops \subseteq ToSet(OpNames)

---------------------------------------------------------------------------
(* val_serialize: the number of the type, then what the type writes. *)

Code(t) == CASE t = "undef" -> 0 [] t = "str" -> 1 [] t = "num" -> 2

val_serialize(v) ==
  <<Num(Code(v.t))>> \o
  CASE v.t = "undef" -> <<>>
    [] v.t = "num" -> <<v>>
    [] v.t = "str" -> <<Num(Len(v.s))>> \o IF v.s = <<>> THEN <<>> ELSE <<v>>

\* Mutant: as much of an array as there is.
arr_serialize_NoCount(type, items) == <<Num(type)>> \o FlattenSeq([i \in DOMAIN items |-> val_serialize(items[i])])

arr_serialize(type, items) ==
  <<Num(type), Num(Len(items))>> \o FlattenSeq([i \in DOMAIN items |-> val_serialize(items[i])])

\* A map is written as its keys and values in turn, and their number of pairs.
map_serialize(f) ==
  LET keys == SetToSeq(DOMAIN f)
  IN <<Num(5), Num(Len(keys))>> \o
     FlattenSeq([i \in DOMAIN keys |-> val_serialize(Str(keys[i])) \o val_serialize(Num(f[keys[i]]))])

prog_serialize(p) ==
  arr_serialize(4, p.constants) \o map_serialize(p.functions) \o
  arr_serialize(4, [i \in DOMAIN p.ops |-> Num(Word(p.ops[i]))])

---------------------------------------------------------------------------
(* val_deserialize: a reader r has units in front of it and the value read *)
(* last; reading past the end fails an assertion.                          *)

Reader(units) == [units |-> units, v |-> Undef, ok |-> TRUE]
Fail(r) == [r EXCEPT !.ok = FALSE]

\* Mutant: what is missing is taken for zero.
ReadUnit_Lenient(r) ==
  IF r.units = <<>> THEN [r EXCEPT !.v = Num(0)]
  ELSE [r EXCEPT !.units = Tail(@), !.v = Head(r.units)]

ReadUnit(r) ==
  IF ~r.ok \/ r.units = <<>> THEN Fail(r)
  ELSE [r EXCEPT !.units = Tail(@), !.v = Head(r.units)]

val_deserialize(r) ==
  LET type == ReadUnit(r)
      next == ReadUnit(type)
  IN IF ~type.ok THEN type
     ELSE CASE type.v.n = 0 -> [type EXCEPT !.v = Undef]
            [] type.v.n = 2 -> next
            [] type.v.n = 1 -> IF next.ok /\ next.v.n > 0 THEN ReadUnit(next) ELSE [next EXCEPT !.v = Str(<<>>)]
            [] OTHER -> Fail(r)

\* A container: its type, its size and then its values.
items_deserialize(r, type, perItem) ==
  LET tag == ReadUnit(r)
      size == ReadUnit(tag)
      read[i \in 0..(perItem * size.v.n)] ==
        IF i = 0 THEN [r |-> size, vals |-> <<>>]
        ELSE LET done == read[i - 1]
                 next == val_deserialize(done.r)
             IN [r |-> next, vals |-> Append(done.vals, next.v)]
  IN IF ~size.ok \/ tag.v.n # type THEN [r |-> Fail(size), vals |-> <<>>]
     ELSE read[perItem * size.v.n]

prog_read(units) ==
  LET cs == items_deserialize(Reader(units), 4, 1)
      fs == items_deserialize(cs.r, 5, 2)
      ws == items_deserialize(fs.r, 4, 1)
      names == {i \in DOMAIN fs.vals : i % 2 = 1}
  IN IF ~ws.r.ok THEN Refused
     ELSE [status |-> "loaded", constants |-> Trim(cs.vals),
           functions |-> [f \in {fs.vals[i].s : i \in names} |->
                            fs.vals[(CHOOSE i \in names : fs.vals[i].s = f) + 1].n],
           ops |-> [i \in DOMAIN ws.vals |-> Instruction(ws.vals[i].n)]]

---------------------------------------------------------------------------
Init ==
  /\ BuilderInit
  /\ file = NoFile /\ rest = <<>>
  /\ writer = "building" /\ loaded = NotRead

Build ==
  /\ writer = "building"
  /\ BuilderNext
  /\ UNCHANGED <<file, rest, writer, loaded>>

\* prog_write opens the file, which empties it, and writes what is in p.
prog_write ==
  /\ writer = "building"
  /\ writer' = "writing"
  /\ file' = <<>>
  /\ rest' = prog_serialize(st)
  /\ UNCHANGED <<builder, loaded>>

WriteUnit ==
  /\ writer = "writing" /\ rest # <<>>
  /\ file' = Append(file, Head(rest))
  /\ rest' = Tail(rest)
  /\ UNCHANGED <<builder, writer, loaded>>

\* fclose; nobody looks at errors, so the end may as well be missing on disk.
CloseFile ==
  /\ writer = "writing"
  /\ writer' = "written"
  /\ UNCHANGED <<builder, file, rest, loaded>>

\* sqlinked is killed, or an assertion of the compiler fails.
Die ==
  /\ writer \in {"building", "writing"}
  /\ writer' = "dead"
  /\ UNCHANGED <<builder, file, rest, loaded>>

\* vm reads the file; without one it exits.
Read ==
  /\ loaded' = IF file = NoFile THEN Refused ELSE prog_read(file)
  /\ UNCHANGED <<builder, file, rest, writer>>

Next == Build \/ prog_write \/ WriteUnit \/ CloseFile \/ Die \/ Read

Spec == Init /\ [][Next]_vars

---------------------------------------------------------------------------
\* Whatever was killed when, and however full the disk is: what vm runs is the
\* program that was compiled, word for word, or nothing (prog_write, prog_read).
ReadsBack ==
  loaded.status = "loaded" =>
    /\ loaded.ops = st.ops
    /\ loaded.constants = st.constants
    /\ loaded.functions = st.functions

\* A complete file is never refused.
CompleteIsRead == file # NoFile /\ rest = <<>> /\ writer # "building" => prog_read(file).status = "loaded"
===========================================================================
