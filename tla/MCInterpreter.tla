-------------------------- MODULE MCInterpreter --------------------------
(* The interpreter on a collection of small programs.                      *)
EXTENDS Interpreter, Inference, Trees

\* Operators take their operands in the order written, whatever the order of
\* evaluation is.
Arithmetic == Do(<<
  Say(<<Bin("-", N(7), N(2)), Bin("/", N(9), N(2)), Bin("/", Neg(N(9)), N(2)),
        Bin("+", Bin("*", N(2), N(3)), N(1)), Bin("<", N(2), N(3)), Bin("<", N(3), N(2)),
        Bin("==", N(4), N(4)), Bin("!=", N(4), N(4)), Bin("+", N(MaxInt), N(1)),
        Bin("+", S(<<65>>), S(<<66, 67>>)), Bin("<", S(<<65>>), S(<<65, 66>>))>>)>>)

Factorial == Do(<<
  Fun(f, <<x>>, <<If(Bin("<", V(x), N(2)), <<Ret(N(1))>>, <<>>),
                  Ret(Bin("*", V(x), Call(f, <<Bin("-", V(x), N(1))>>)))>>),
  Say(<<Call(f, <<N(4)>>)>>)>>)

\* Loops in loops, branches in loops and loops in branches.
Nested == Do(<<
  Set(x, N(0)),
  While(Bin("<", V(x), N(3)), <<
    Set(y, N(0)),
    While(Bin("<", V(y), N(2)), <<
      If(Bin("==", V(x), V(y)),
         <<If(V(x), <<Say(<<N(1)>>)>>, <<Say(<<N(2)>>)>>)>>,
         <<Set(z, N(2)), While(V(z), <<Set(z, Bin("-", V(z), N(1)))>>), Say(<<V(z), V(y)>>)>>),
      Set(y, Bin("+", V(y), N(1)))>>),
    If(V(y), <<>>, <<Say(<<N(9)>>)>>),
    Set(x, Bin("+", V(x), N(1)))>>),
  Say(<<V(x), V(y), V(z)>>)>>)

\* Arrays are shared by assignment, copied by "+", and grow with gaps.
Arrays == Do(<<
  Set(x, Array(<<N(1), N(2), N(3)>>)),
  Set(y, V(x)),
  SetAt(y, N(0), N(7)),
  Set(z, Bin("+", V(x), Array(<<N(5)>>))),
  SetAt(x, N(4), N(9)),
  Say(<<V(x), V(z), At1(x, N(0)), At1(z, N(3)), At1(x, N(3)), N(8)>>)>>)

\* What is read decides what runs; at the end of input nothing is read.
Input == Do(<<
  Set(x, N(2)),
  Set(x, Call(N_getint, <<>>)),
  Set(y, Call(N_getstring, <<>>)),
  While(V(x), <<Say(<<V(x)>>), Set(x, Bin("-", V(x), N(1)))>>),
  If(V(y), <<Say(<<V(y)>>)>>, <<Say(<<S(<<63>>)>>)>>),
  If(Bin("==", V(y), S(<<65>>)), <<Call(N_exit, <<>>)>>, <<>>),
  Say(<<Call(g, <<>>)>>)>>)

\* The last argument is evaluated first; arguments keep their places.
Arguments == Do(<<
  Fun(f, <<x, y>>, <<Say(<<V(x)>>), Ret(Bin("-", V(x), V(y)))>>),
  Say(<<Call(f, <<Call(f, <<N(5), N(1)>>), Call(f, <<N(4), N(2)>>)>>)>>)>>)

\* A parameter nobody passed is undefined, a function without return yields 0.
Missing == Do(<<
  Fun(h, <<x, y>>, <<If(V(y), <<Ret(N(1))>>, <<>>), Say(<<V(x)>>)>>),
  Say(<<Call(h, <<N(3)>>), Call(h, <<N(1), N(2)>>)>>)>>)

\* Variables of a function are its own; return leaves the loops around it.
Scopes == Do(<<
  Fun(g, <<x>>, <<Set(y, V(x)), Set(x, N(0)),
                  While(N(1), <<Set(y, Bin("+", V(y), N(1))),
                                If(Bin("<", N(4), V(y)), <<Ret(V(y))>>, <<>>)>>)>>),
  Set(x, N(2)),
  While(Bin("<", V(x), N(4)), <<
    Say(<<Call(g, <<V(x)>>), V(x)>>), Set(x, Bin("+", V(x), N(1)))>>),
  Say(<<V(y)>>)>>)

\* Functions that call each other, one before its definition.
Mutual == Do(<<
  Fun(f, <<x>>, <<If(Bin("==", V(x), N(0)), <<Ret(N(1))>>, <<>>),
                  Ret(Call(g, <<Bin("-", V(x), N(1))>>))>>),
  Fun(g, <<x>>, <<If(Bin("==", V(x), N(0)), <<Ret(N(0))>>, <<>>),
                  Ret(Call(f, <<Bin("-", V(x), N(1))>>))>>),
  Say(<<Call(f, <<N(3)>>), Call(f, <<N(2)>>)>>)>>)

\* exit inside a call inside an expression.
Exits == Do(<<
  Fun(f, <<>>, <<Say(<<N(1)>>), Call(N_exit, <<>>), Say(<<N(2)>>), Ret(N(3))>>),
  Say(<<Bin("+", Call(f, <<>>), N(1))>>)>>)

\* Blocks, and a return out of one.
Blocks == Do(<<
  Fun(f, <<x>>, <<Block(<<If(V(x), <<Ret(N(1))>>, <<>>), Say(<<N(5)>>)>>), Ret(N(2))>>),
  Set(x, N(0)),
  Block(<<Set(x, Bin("+", V(x), N(1))), Block(<<Set(y, Call(f, <<V(x)>>))>>)>>),
  Set(z, Call(f, <<N(0)>>)),
  Say(<<V(x), V(y), V(z)>>)>>)

\* Refused by the compiler: items of different static types, and a return
\* outside any function.
Refused == {
  Do(<<Set(x, Array(<<N(1), S(<<65>>)>>))>>),
  Do(<<Set(x, N(1)), Set(x, S(<<65>>))>>),
  Do(<<Ret(N(1))>>)}

MCStdins == {<<>>, <<[n |-> 1, s |-> <<65>>]>>, <<[n |-> 0, s |-> <<>>], [n |-> 3, s |-> <<>>]>>,
             <<[n |-> 3, s |-> <<66>>], [n |-> 1, s |-> <<65>>]>>}

\* Every nest of branches and loops of the given depth in a function that may
\* return from anywhere in it.
RECURSIVE Nest(_)
Nest(depth) ==
  LET inner == Nest(depth - 1)
  IN {Say(<<V(x)>>), Ret(V(x))} \cup
     IF depth = 0 THEN {}
     ELSE {If(Bin("<", V(x), N(2)), <<s>>, <<t>>) : s \in inner, t \in inner} \cup
          {While(Bin("<", N(0), V(x)), <<s, Set(x, Bin("-", V(x), N(1)))>>) : s \in inner}

InFunction(s) ==
  Do(<<Fun(f, <<x>>, <<s, Say(<<N(7)>>)>>), Say(<<Call(f, <<N(2)>>), Call(f, <<N(1)>>)>>)>>)

Nests == {InFunction(s) : s \in Nest(2)}

MCAsts == {Arithmetic, Factorial, Nested, Arrays, Input, Arguments, Missing, Scopes,
            Mutual, Exits, Blocks} \cup Refused \cup Nests

\* Programs the code has trouble with, one collection per question.
RepeatAsts == {Do(<<Repeat(2, <<Say(<<N(1)>>)>>)>>)}
LiteralAsts == {Do(<<Set(x, N(MaxInt + 2))>>)}
OperandAsts == {
  Do(<<Fun(f, <<>>, <<Block(<<Set(x, N(1))>>), Ret(N(2))>>),
       Say(<<Bin("-", Call(f, <<>>), N(5))>>)>>)}

NoInput == {<<>>}
NoSelects == <<>>

MCPrograms == Compiled

MCShapes == [p \in Compiled |-> ShapesOf(p)]
===========================================================================
