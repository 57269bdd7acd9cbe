# A TLA+ model of sqlinked

`sqlinked` is an interpreter for a small language whose *database blocks*
`${ ... }` are translated into stored procedures of a PostgreSQL server. A
program is parsed and compiled in one go (`sqlinked.y`), written to a bytecode
file and run by a stack machine (`vm/prog.c`) on garbage-collected values
(`vm/val/`). This directory holds TLA+ models of the interpreter, the
configurations that check them with TLC, and proofs for TLAPS.

## Inventory

The interpreter is one thread; what runs beside it is a PostgreSQL server, other
processes that run the same program, and whoever pulls the plug. Most of what
is hard about the program is not concurrency but agreement: the compiler and the machine agree on a stack layout
that nothing checks until an assertion fails; operations keep values in C
variables the collector knows nothing of; jumps, scans for the end of a loop and
slots of variables are all numbers that have to fit each other; and a database
block has to do in the server what it would do here, with procedures that
another run, of another version, may have left there.

| Part | Source | State | Operations | Correct when |
| --- | --- | --- | --- | --- |
| Garbage collector | `vm/val/val.c`, `vm/vstack.c` | list of all values, marks, `last_count` | `val_new`, `val_mark`, `vals_sweep`, `vals_gc` | nothing reachable is freed, everything else is, the heap stays bounded |
| Values | `vm/val/*.c` | arrays, maps | arithmetic, order, conversion, indexing | total on the types they accept; arrays never end in undefined items |
| Virtual machine | `vm/prog.c`, `vm/prog.h` | pc, value stack, call stack, globals | one function per opcode, natives | assertions hold, callers' frames are untouched, output as meant |
| Program container | `vm/prog.c:54-142` | operations, constants, functions | add, patch, register | what is added is what is run |
| Variable allocation | `vm/vars.c` | names and slots, block borders | lookup, add, enter and leave a block, reset | one slot per name and block; a slot stays as long as code for it is compiled |
| Compiler | `sqlinked.y:245-548` | the program so far, static types | `compile_ast` per kind of node | each node leaves exactly one value |
| PL/pgSQL translator | `sqlinked.y:550-972` | external and internal variables, cursor flags | `dblock_parse` | the procedure does what the block means |
| Database opcode, natives | `vm/custom.c` | connection, results, stored procedures | `DBLOCK`, `dbquery`, `dbnext`, notices | a block does what its statements do; it runs as in the file; all of it or nothing is written |
| Bytecode files | `vm/prog.c:731-758`, `serialize` in `vm/val/` | the file | write, read | what is read is what was written, or nothing |
| Lexer, parser, driver, diagnostics | `sqlinked.l`, `sqlinked.y`, `vm/vm.c` | - | - | - |

They interact by calls only: the parser calls `compile_ast` on the whole tree;
the compiler fills the container and the allocator; `exec_run` executes one
operation at a time; every operation ends with `vals_gc`; PostgreSQL calls
`dbnoticeprocessor` back from within `DBLOCK`.

The hazards, each at its line, are listed in `PROJECT.json`. The main ones:

* values held by C variables, or only by frames below the top, while a
  collection runs; marks left over from the collection before; cyclic data;
* operations that find fewer operands than the compiler promised, or others'
  operands: statements without a value, blocks that leave their end time behind;
* nested loops, branches and returns, where the loop stack has to match the code;
* destinations patched after the fact; literals that read back as opcodes;
* undefined values, which are not stored: slots keep old values, arguments move;
* variables: names hidden by inner blocks, borders that take up slots, resets;
* database blocks: operators without parentheses, cursors whose state is
  guessed at compile time, NULL columns, notices that reset flags, variables that
  an earlier block has made known, failed queries, lost connections;
* stored procedures: left over from earlier versions, of other types, or missing
  because a process ended or another one came between DROP and CREATE;
* bytecode files that are cut short.

## Modules

    Reachability --> Heap <== Gc --> MCGc, GcProofs

    Values --> Container --> Builder --> Bytecode --> MCBytecode
    Container --> PlPgSql --> Compiler
    Values, Overloading --> Server --> Procedure
    Compiler, Server --> Language
    Values --> Vm --> MCVm
    Vm --> Verifier --> Inference
    Vm, Language --> Interpreter
    Interpreter, Inference --> MCInterpreter
    Interpreter, Procedure --> Database --> MCDatabase
    Overloading --> Deploy --> MCDeploy

    Values, Foundations --> ValueProofs
    Vm, ValueProofs --> VmProofs
    Verifier, VmProofs --> VerifierProofs
    Builder --> BuilderProofs
    Bytecode, BuilderProofs, ValueProofs --> BytecodeProofs
    Deploy --> DeployProofs

(`-->` extended by, `<==` implements.) `Trees` has the constructors of syntax trees
with which `MCInterpreter` and `MCDatabase` write their programs.

**`Reachability`** - graphs of values: sets closed under references, `Reach`,
defined as the least closed set that contains the roots (no recursion, so that
it can be reasoned about), and `Visible`, a graph without its unreachable part.

**`Heap`** - the abstract store: values are created, referred to, pushed,
popped, loaded and stored, and nothing is ever freed.

**`Gc`** - `vm/val/val.c` under an interpreter. An operation is any sequence of
`New`, `Push`, `Peek`, `Pop`, `EnterFrame`, `LeaveFrame`, `Load` and `Store`, with
what it holds in C variables in `locals`; this covers every opcode and native,
and more. `EndStep` is the end of `exec_step`: the locals go, and `vals_gc`
returns or starts. `Mark` is a call of `val_mark`, `SweepHead` and `Sweep` are
iterations of the two loops of `vals_sweep` on the list `vals` with its cursor
`p`. A value is an address with the set of addresses it refers to; an address
freed may be allocated again. `val_undef`, which is not on the list, is left out.

**`GcProofs`** - see *Proofs*.

**`Values`** - values as records and the operations of `vm/val/` on them.
Numbers are ints of `Width` bits and wrap; strings are sequences of character
codes; an array or a map is a number into the store `arrs` (a map as its keys and
values in turn); a reference is the number of a query's result. `Crash` stands for a trap
((division by zero), an endless loop or a read or write outside an array. Real
numbers are not represented. Loops of the code (`arr_add`, `val_to_string`, the
power of two) are recursive functions, which the prover knows; a recursive operator
it would not. **`Foundations`**, **`ValueProofs`** - see *Proofs*.

**`Vm`** - the machine. Each action is one operation code, or several of one
shape (`op_binary`, `op_unary`, `op_jumpcond`), with the whole of `exec_step`
around it. `AssertsHold` gathers what `MINARGS`, `vstack_pop`, `vstack_peek` and
the type assertions of an operation demand; where it is false `AssertFails` ends
the process. Frames have their slots 0 and 1 (return address and loop stack) as
fields of their own (`NewFrame`). Hand-made bytecode reaches these as variables -2
and -1: a loop stack that is read that way becomes an array like any other, in
`arrs`, which the field `lent` names from then on, and a callee it is passed to may
write into it. Values are never freed here: `Gc` shows that programs cannot tell.
Times, random numbers and `NOT` of a pointer are nondeterministic. `DBLOCK` and
the database natives are actions of `Database`. **`VmProofs`** - see *Proofs*.

**`Verifier`** - the programs that the machine runs without a failed assertion. The
machine takes much for granted: that operands are there, that addresses are
addresses, that loops and calls nest. `Shapes` gives, for a program, in what shape
the running function is at each instruction it reaches: whether it is a function or
the program around them, what it has on the stack (known values, such as the
destination a `JUMP` is about to take, or `Unknown`), and its loop stack.
`Accepts` says that such an annotation is right: each instruction finds its
operands (`Runnable`), and what it leaves (`StackAfter`) fits the shapes of the
instructions it leads to (`Leads`). Shapes are exact if they say all that is on the
stack, which they cannot where a `return` leaves a block and its start time
behind. No such check is in the code; it is what `compile_ast` has to guarantee.
**`Inference`** finds the shapes of a program by following it, which needs no
justification since `Accepts` is checked of what it finds.
**`VerifierProofs`** - see *Proofs*.

**`Container`** - the program container and `vm/vars.c` as operations on one
record, the state of a compilation: operations, constants, functions; locals and
globals as lists in the order of their slots, with a border for each open block.
`add_num` drops what `prog_add_num` refuses; `new_constant` shares constants that
`val_cmp` takes for equal. A failed assertion, a NULL pointer or an `abort` sets
`ok` to false.

**`Builder`** - the container under any sequence of the calls `prog.h` declares,
also those the compiler never makes (nested blocks, globals). Its history
variable `outer` remembers what the locals were when each block was entered.
**`BuilderProofs`** - see *Proofs*.

**`Bytecode`** - `Builder`, and then `prog_write`, unit by unit (a number, or the
characters of a string), in a process that may die at any point or whose last
units never reach the disk; `Read` is `prog_read` at any time. Operations
become words (`OpNames` is the order of `op_enum.h`) and values what the
`serialize` functions write. **`BytecodeProofs`** - see *Proofs*.

**`Compiler`** - `compile_ast` as a function of a tree, the state of the
container, and `METHOD1` (both settings of the macro). The static type of a call is
what the function's node has by then, the first definition of that name in the
whole tree (`find_func`).

**`PlPgSql`** - `dblock_parse` and `dblock_create_plpgsql`. The code builds text;
the model builds the tree a server makes of that text. Since the code writes no
parentheses, the two differ: `Infix`, `Sign` and `Operand` group the operators of a
text as SQL does (`Binding`), where an assignment inside an expression is a
comparison. The static types decide between
`+` and `||`, between `OPEN`, `FETCH` and assignment, and whether a condition is
tested with `IS NOT NULL`, as in the code; `CloseFirst` is the flag
`F_CURSOROPEN`. Bodies are numbered in `bodies`, and the constant that would hold
the text holds the number.

**`Server`** - what libpq delivers and how `dbnext` and `dbnextarray` turn rows into
values. Tables only ever change by appending to a log, the form in which the
repository's programs write.

**`Procedure`** - what a procedure does on the server: SQL values with three-valued
logic and casts, cursors, `FOUND`, notices, and errors that roll the call back.
External: PostgreSQL is not part of the repository, and only the constructs the
translator produces are there.

**`Overloading`** - which of several functions of one name PostgreSQL takes when the
arguments of a call have no types. External.

**`Language`** - what a program means, evaluated by name on the tree, with
neither stack nor addresses: environments are functions of names, `return` and
`exit` are states of the evaluation. It shares `Values` with the machine and
nothing else. Three rules of the code are part of the language here: operands are
evaluated right to left, an assignment of undef keeps the old value, and a
function without return yields 0. Blocks, database blocks too, only group
statements, as `README.md` of the repository says of them. It also notes at
which lengths of the log a block or a single query ends (`marks`), for
`BlocksAreAtomic`.

**`Interpreter`** - compiler and machine together, with the properties of both.

**`Database`** - `Interpreter` with `vm/custom.c`: one action per native, and four for
`DBLOCK`, by how far it gets: refused (`dblock_refused`), connection lost before
the call (`dblock_unreachable`), answered (`dblock_returns`), or connection lost
during the call (`dblock_unanswered`), when the server has committed or not. The
notice processor runs within the call: notices are printed in order, `exit` sets
the flags and stops the machine before it stores the results. `Rerun` starts the
program again without `-c` after a run with it, with the procedures as they are
by then. A connection is lost silently by `LoseConnection`.

**`Deploy`** - one block of a program that is edited, and run by several processes
at once. What is one action in `Database` is split here where others can come
between: `Drop`, `Create`, `Call`; `Crash` ends a process between any two. A
version of the program has names and types for the block's variables, and a body
that is a procedure or one the server rejects (`Malformed`): then the process ends
with its `DROP` done (`CreateRefused`).
**`DeployProofs`** - see *Proofs*.

`MCInterpreter` and `MCDatabase` hold the programs, `MCVm` the hand-made bytecode,
`MCGc` a heap, `MCBytecode` names, constants and numbers, `MCDeploy` the versions.

A definition named `X_Something` under a comment *Mutant* is a wrong version of
`X`, used to show that a property would notice that mistake; no specification
refers to it.

## Runs

| Run | Checks | What it shows |
| --- | --- | --- |
| `gc_safety` | `IInv`, `NoDangling`, `CollectionIsExact`, `HeapBounded` | the collector frees exactly what can no longer be named |
| `gc_refinement` | `CollectionEnds`, `ImplementsHeap` | `Gc` implements `Heap`, and collections end |
| `vm` | `TypeOK`, `Trimmed`, `KeysUnique` | the machine on arbitrary short programs, ill-formed ones included |
| `interpreter` | `KeepsToShapes`, `NoFailure`, `MeetsMeaning`, `NothingLeftBehind`, `LoopStackMatchesCode`, `CallersIntact`, `Terminates` | compiled programs do what they mean, disturb no caller and clean up |
| `container` | `NamesUnique`, `BlocksNest`, `ReadsBack`, `CompleteIsRead`, `SlotsStable` | variables keep their slots; a file cut short is noticed |
| `blocks` | `SameOutcome`, `Completes`, `BlocksAreAtomic`, `RunsEnd` | database blocks do on the server what they would do here, whatever happens to the connection |
| `deploy` | `NothingVanishes`, `RefusedOnlyWhenDisturbed`, `RunsOwnBody` | who runs which version of a block when several processes deploy |
| `repeat_underflow` | `NoAssertFails`, violated | `repeat` as a statement makes the machine abort |
| `literal_dropped` | `NoAssertFails`, violated | the literal 2147483649 disappears from the program |
| `block_in_operand` | `MeetsMeaning`, violated | a block's end time becomes an operand |
| `null_column` | `SameOutcome`, violated | a row with a NULL column counts as none in a block |
| `block_not_created` | `Completes`, violated | a block `-c` did not come by has no procedure later |

*Bounds.* `gc_safety` has four addresses (globals, the outermost frame and two
more), two values held at once, one reference per value, a stack and a call stack
of one element: enough for sharing, self-references, chains, cycles through the
frame, reuse of freed addresses, and garbage at the head and inside the list; the
two free addresses are symmetric. `gc_refinement` has three addresses but a
threshold of 1, so that a collection follows nearly every allocation, and two
references per value; no symmetry, since a liveness property is checked.
The proofs hold for any of these constants.

`vm` runs the 67 instruction sequences of `Steps` in all pairs after eight
prologues, one of which hands out its loop stack; ints have 7 bits, which keeps loops that count to an overflow short;
`MaxSize` stops programs that fill the memory. In the runs of whole programs ints
have 16 bits (with fewer, the reserved numbers `OpWords` would cover half of
them) and `MaxSize` is never reached: `Terminates` and `RunsEnd` would fail.
Programs, inputs and times are small sets; TLC runs every program on every
input. Besides the programs written by hand, `interpreter` has every nest of
depth two (`Nests`), compiled both ways, all of which `KeepsToShapes` looks at before
they run; and `blocks` every block of two statements out of six
(`OfTwo`), among them a loop, both branches of a condition, `exit`, output,
writes and assignments of either type.

`container` has two names, two constants, two operations and four numbers, those
next to the reserved ones included, and at most `MaxItems` = 4 words, constants,
functions and variables together: enough for a name hidden twice, nested blocks
with a border between, and files with each kind of item missing. Its properties of
variables are about all that `vars.h` offers, nested blocks and globals included,
which nothing in the repository uses yet. `blocks` has two
inputs, three tables with NULL among the columns, and every program with
database blocks and with `-i`; the connection may be lost in any state.
`deploy` has two processes (symmetric) and five versions: other names, other
types, no variables at all, a body that is no procedure. With two processes one can come between any two steps
of the other; the proofs hold for any number.

`Completes` excuses the programs in `Failing`, which the README of the repository
does not promise to work and which the code makes fail: a body that is no
procedure (`Malforms`), a block not reached with `-c` (`Branch`), a number as a
condition (`Fails`), a variable first used in an earlier block (`Shares`), a
cursor opened by a loop (`Reopens`), an assignment inside an expression
(`Assigns`). Their runs end with an error, and `SameOutcome` says nothing of such
runs. They take part in `BlocksAreAtomic`: what they write before they fail
is still all or nothing, also when the connection is lost on the way.

*Deadlock.* `Gc` never stops. The machine, the file and the sessions may come to
an end or have no step left at a bound, so their runs are without the deadlock
check; that the machine only stops where it should is `Terminates`, `NoFailure`
and `Completes`.

*Fairness.* `Gc`: weak fairness of the collector's steps. `Vm`: weak fairness of
the whole next-state relation. Both are loops on the only thread of the
process (`vals_gc`, `exec_run`) with nothing to wait for but input, which is
taken to arrive. `Database`: weak fairness of `Step`, a step of the program: the
server answers a query or the connection breaks, as libpq reports it. The loss of
a connection and `Rerun` are not fair. `Builder`, `Bytecode` and `Deploy` need
none: they have safety properties only.

*The violations.* A `repeat` statement has no net effect on the stack, but
`STMTS` discards a value after every statement; the same holds for `hello`.
`prog_add_num` refuses numbers from 0x80000001 to 0x800000ff and `compile_ast`
ignores that. `TEND` pushes the time although nothing uses it; at the end of the
program that is only a leak (`NothingLeftBehind` counts exactly these values),
inside an operand it changes the result. `if (u)` on a row becomes
`IF u IS NOT NULL`, which SQL answers with false as soon as one column is NULL,
and `dump.sql` leaves `lastlogin` NULL in every account: `prog1` prints "User
does not exist!" from its block and finds the user with `-i`. `DBLOCK` creates
procedures only when it is executed, so that one run with `-c` prepares only the
blocks it came by.

*Left out of the runs.* A `return` behind the function definitions compiles to `RET`
without a call (`sqlinked.y:507`): the outermost frame goes, and the machine continues
at the `JUMP` around the first function with the returned value as its destination.
Such programs do not keep to shapes, and those of the runs have none.

## Proofs

`GcProofs` proves, for every set of addresses, every threshold and every bound
(`GcAssumption` only says that the constants have their types and that the list
starts with the pinned values, the first frame and what it holds):

* `GcInvariant`: `Spec => []IInv`
* `NothingDangles`: `Spec => []NoDangling`
* `CollectionsAreExact`: `Spec => CollectionIsExact`
* `HeapIsBounded`: `Spec => HeapBounded`

`NoDangling` is not inductive: a sweep has to know that the marked values are
the reachable ones, which needs what holds while marking. `IInv` therefore says,
besides types: the list has no value twice (or unlinking a value would leave a
freed one behind); between collections the allocated values are closed under
references and contain the roots and locals; free values refer to nothing; while
marking, a marked value refers only to marked or pending ones, the roots are
marked or pending, and only reachable values are; afterwards the marked values
are exactly the reachable ones, and all values up to the sweep's cursor are
marked. There is one lemma per action and conjunct that the action can disturb.
Those on marking rest on `ReachLeast` (a closed set that contains the roots
contains all reachable values) and `ReachKeeps`; those on sweeping on `Unlink`,
what removing one element of a list without duplicates leaves. `ReachClear` says
that clearing the references of an unreachable value changes nothing reachable.

From the same invariant and under the same assumptions follows that the collector
implements a heap in which nothing is ever freed:

* `Refinement`: `Spec => ImplementsHeap`

The mapping takes the reachable part of the graph (`Visible`) for the heap. A step
of the interpreter maps to the step of `Heap` of the same name, the steps of a
collection to stutters: marks are no part of the graph, and by `GcInvariant` what a
sweep frees is not reachable (`CollectStutters`). What
has to be shown for each operation is that a change to the whole graph is the same
change to its visible part (`SeenAlike`: graphs that agree on a closed set with the
roots look the same from them), and that a new or dropped root only adds or hides
what hangs on it.

`BuilderProofs` proves, for every set of names, constants, numbers and operations
and every `MaxItems` (`BuilderAssumption`: the border is no name):

* `OneSlotPerName`: `BuilderSpec => []NamesUnique`
* `BlocksRestore`: `BuilderSpec => []BlocksNest`
* `SlotsKept`: `BuilderSpec => SlotsStable`

`BlocksNest` alone is not inductive: that the list is cut at the right place
needs to know that the last border is the one of the innermost open block.
`BuilderInv` says that (`Nested`: the borders are exactly where blocks were
entered, in that order), and with its type invariant that globals have no
borders, without which a name could be added to them twice. The lemmas on lists come first: `FoundAt` holds
for at most one place, `var_add` changes no position of another name, cutting at
the last border keeps the places before it. `SlotsKept` follows from these and
the invariant, one action at a time.

`BytecodeProofs` proves, for every set of names, of string and number constants,
and of ints as operands (`BytecodeAssumption`; real constants, which the compiler makes
at `sqlinked.y:275`, are left out), and for programs of any size:

* `WholeOrNothing`: `Spec => []ReadsBack`
* `CompleteAccepted`: `Spec => []CompleteIsRead`
* `OnlyBuilds`: `Spec => BuilderSpec`, so that the three theorems above hold here too

The reader is followed by its position (`ReaderAt`): as long as that lies within the
file, the reader is well and what it returns is what was written there (`Holds`); once
it would lie behind the end, the reader has failed and stays so. `UnitRead`,
`ValueRead`, `ContainerRead`, `ArrayRead`, `MapRead` and `ProgramRead` say this of one
unit, one value, and so on up to a program; the recursion over the values of a container
is an induction over their number (`ItemsRead`). That what is read is the program
again needs that no word of a pushed number is the word of an operation (`WordBack`,
the reason for what `prog_add_num` refuses), that no constant is undefined, as
`arr_resize` would cut it off (`NothingTrimmed`), and that a name occurs once in
the list a map is written as (`FunctionsBack`). The invariant `BytecodeInv` adds
that what is on disk and what is still to be written make up the program, and
that the program no longer changes once there is a file.

`DeployProofs` proves, for every set of sessions and versions and all names and
types (`DeployAssumption`):

* `OwnBody`: `DeploySpec => []RunsOwnBody`
* `CreateAccepted`: `DeploySpec => []RefusedOnlyWhenDisturbed`
* `NothingLost`: `DeploySpec => []NothingVanishes`

A body the server rejects is refused whatever the other processes do, as `DBLOCK`
is (`custom.c:239-251`): `RefusedOnlyWhenDisturbed` speaks of the others.

The inductive invariant `DeployInv` adds what a session that nobody disturbed
knows between its steps (`Alone`): after `DROP` there is no procedure of its
types, after `CREATE` it is the one of its version, and without `-c` what was
deployed when it began is deployed still. `LastStored` says that the version
created last is stored unless it was dropped since, and `WellTyped` that a
procedure is stored under the types of the version it is from, which is why
another version's body can only run in place of the own one if its types differ.
`NothingLost` needs no more than its own statement and which session is where.

`VmProofs` proves, for every set of programs, inputs, times and random numbers and
every width of an int:

* `TypesOK`: `Spec => []TypeOK`
* `AlwaysTrimmed`: `Spec => Trimmed`
* `AlwaysUnique`: `Spec => []KeysUnique`

The programs are any sequences of instructions, not only what the compiler makes,
and may do with their loop stacks and return addresses what they like. That a called
function leaves its caller alone is therefore no theorem about all programs, but one
about programs with shapes (`CallersKept` below).
Assumed is that an int has at least two bits (`WidthAssumption`), that operands are
ints and constants ints or strings, and that a program is no longer than an int can
count (`ProgramAssumption`; real constants are left out), and that input, clock and `rand` deliver ints (`InputAssumption`, the C types
of `atoi`, `time` and `rand` cut to the width). None of the three follows from
itself. An operand may be stored in an array only if it is a value, so `Trimmed`
needs `TypeOK`; that a map has a key once rests on `num_cmp`, a difference that wraps,
being 0 only for equal numbers, which is true of ints and of no larger range; and
`TypeOK` does not say that what is a map to one value is a map to every other, and
stays one, without which an array operation could spoil a map, nor that strings are
sequences. `IInv` therefore has a function `kind` from arrays to "arr" or "map",
which only ever grows, and says of every value in the machine that it is of its kind
(`Good`), and of frames, globals and maps that no undefined slot ends them (`Tidy`).
Arrays may end in one, for `LOOPEXIT` pops without trimming what a program may have
filled with gaps; therefore `Trimmed` is about steps, of which only that one makes
such an array. `ValueProofs` shows that each operation of `Values` keeps these;
`VmProofs` adds one lemma per operation code and native.

`VerifierProofs` proves, for every program of the machine, input, width of an int and
annotation with shapes, that what `Accepts` checks of one instruction after the
other is enough for all that such a program can do:

* `OperandsAreThere`: `Spec => [](prog \in Safe => NoAssertFails)`
* `FailsOnlyOnData`: `Spec => [](prog \in Safe => NoFailure \/ (status = "crashed" /\ DataFault))`
* `LoopsMatchCode`: `Spec => [](prog \in Safe => LoopStackMatchesCode)`
* `CallersKept`: `Spec => [](prog \in Safe => CallersIntact)`
* `AllReturn`: `Spec => [](prog \in Safe => AllReturned)`
* `StackIsEmptied`: `Spec => [](prog \in Exact => StackEmptied)`
* `ShapesSuffice`: `Spec => [](KeepsToShapes => NoAssertFails /\ LoopStackMatchesCode /\ CallersIntact /\ AllReturned)`

The assumptions are those of `VmProofs`; `Shapes` is any function on programs.
`KeepsToShapes` is a fact about the code that is compiled and not about its run,
which run `interpreter` checks for its programs; that it holds of every tree would be
an induction over `compile_ast`. From there on the proof takes over: for every input,
through calls to any depth and loops that take any number of turns. A program may
still divide by zero or index outside a string (`DataFault`), which no shape
excludes: therefore `FailsOnlyOnData` is weaker than `NoFailure`.

None of these is inductive. That the operands of the next instruction are on the
stack needs to know what every caller further down had there, since a `RET` makes
their shapes count again. The invariant `Keeps` therefore speaks of all frames at
once: each function is, or will be after the calls it waits for, at a position
whose shape tells its loop stack and whether it is a function (`Placed`), it has its
loop stack for itself and returns to the `CALL` that called it (`Returning`), and there
are `bases`, the heights at which the functions' parts of the stack begin, such that
the innermost has on top what its shape says and each of the others will have it
with one result more (`Balanced`). The bases are in no variable; they exist in every state,
and a call adds one above the arguments it takes. That a called function takes
nothing from below its base follows from its shapes alone. `status = "ended"` means
that the end was reached, where the shape is that of the outermost program without
loops. For exact shapes the same invariant holds with equalities, and gives
`StackIsEmptied`; `Keeps(TRUE)` and `Keeps(FALSE)` are proved together, with one
lemma per operation code. That an exit of a loop and the code agree about its end
rests on `ScanFrom` being one function of program and position, the same in `Leads`
and in `Vm`.

`Foundations` has what these proofs need of numbers and sequences. The induction
theorems of the library take predicates, which the provers cannot
instantiate; here induction is stated for sets of numbers, and follows from the
well-foundedness of `<`. From it come the existence of the functions defined by recursion
(`Recursion`) and what they preserve (`RecursionStays`), the least and the greatest
member of a set, and that sequences can be joined, cut and extended whatever they
hold.

Only model-checked:

* `CollectionEnds`, `Terminates` and `RunsEnd`: liveness under fairness is
  out of the prover's reach.
* `KeepsToShapes`, `MeetsMeaning`, `NothingLeftBehind`, `SameOutcome`, `Completes`
  and `BlocksAreAtomic`: `Compiler`, `PlPgSql`, `Procedure` and `Language` are recursive
  operators over syntax trees of which the prover can neither expand a definition
  nor make an induction.
* Of `NoFailure`, that programs of the run do not meet a `DataFault`; of
  `NothingLeftBehind`, how many values blocks leave. The rest of both follows from
  `KeepsToShapes` by the theorems above.

## Plan

Done: the value store, the refinement of the heap, the machine, container and
variables, bytecode files and deployment, all with proofs of every safety property
their runs check; what the machine takes for granted of compiled code, proved to follow
from shapes; the compiler, the translator, the language, the database and its
procedures, model-checked. What could follow:

1. `KeepsToShapes` for every tree: a compiler written as a recursive function, and for
   each kind of node a lemma that its code has shapes if those of its children do.
2. `Deploy` with several blocks per program, numbered in the order of the file: an
   edit that inserts a block renames all those behind it.
3. Programs with definitions between uses of top-level variables, once it is
   decided what they should mean.

## Not modelled

* The lexer and parser: tables generated by flex and bison; the models start from
  trees.
* Real numbers: floating point has no counterpart in TLA+; `real.c` is left out
  everywhere, and with it the types `real` of SQL and of the file.
* In the translator, quotes inside strings and the fixed length of its buffers;
  in `DBLOCK` the length of the queries: all programs here stay below them.
* Notices of another form than those the translator produces, and a server that
  sends more than one row or other columns than the procedure has.
* A bytecode file left from an earlier program, and files changed by others.
* Option handling, diagnostics and the dot file of `print_ast` (output only), and
  `vm/stack.c` (never called).
