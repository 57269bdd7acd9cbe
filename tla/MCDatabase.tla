---------------------------- MODULE MCDatabase ----------------------------
(* Programs with database blocks, in the style of prog1, prog2 and prog4,  *)
(* each as it is and with -i.                                              *)
EXTENDS Database, Trees

\* Names of variables, functions and columns.
login == <<10>>  pass == <<11>>  uid == <<12>>  users == <<13>>  u == <<14>>  msg == <<15>>
last == <<16>>  n == <<17>>  income == <<18>>  nr == <<19>>  again == <<20>>

\* Queries: accounts by login, all accounts, incomes; a row for the log.
ByLogin == <<1, 1>>  Accounts == <<1, 2>>  Incomes == <<1, 3>>  Insert == <<2, 1>>

Text1(c) == Str(<<c>>)
Columns == <<[name |-> login, dt |-> "str"], [name |-> pass, dt |-> "str"],
             [name |-> uid, dt |-> "num"], [name |-> last, dt |-> "str"]>>
Flo == <<Text1(70), Text1(83), Num(1), Text1(49)>>
Tim == <<Text1(84), Text1(80), Num(3), Text1(50)>>
Max1 == <<Text1(77), Text1(81), Num(2), Undef>>
Poor == <<Num(4)>>  Rich == <<Num(9)>>

MCSelects ==
  [q \in {ByLogin, Accounts, Incomes} |->
     CASE q = ByLogin -> [cols |-> Columns, rows |-> <<Flo, Tim>>]
       [] q = Accounts -> [cols |-> Columns, rows |-> <<Flo, Max1>>]
       [] q = Incomes -> [cols |-> <<[name |-> income, dt |-> "num"]>>, rows |-> <<Rich, Poor>>]]
MCWrites == {Insert}

Connect == Call(N_dbconnect, <<S(<<100>>)>>)
Query1(args) == Call(N_dbquery, args)
Log(args) == Query1(<<S(Insert)>> \o args)
Next1(q) == Call(N_dbnext, <<V(q)>>)
Of(r, column) == Bin("[]", V(r), S(column))

---------------------------------------------------------------------------
(* Programs: k is the kind of their blocks. *)

Db(k, list) == Node(k, 0, <<>>, <<Do(list)>>)

\* prog1, for two visitors: a row, branches in branches, results.
Login(k) == Do(<<Connect, Set(nr, N(2)), While(V(nr), <<
  Set(nr, Bin("-", V(nr), N(1))),
  Set(login, Call(N_getstring, <<>>)), Set(pass, Call(N_getstring, <<>>)), Set(uid, N(0)),
  Db(k, <<Set(users, Query1(<<S(ByLogin), V(login)>>)),
      Set(u, Next1(users)),
      If(V(u),
         <<Println(S(<<69>>)),
           If(Bin("==", Of(u, pass), V(pass)),
              <<Log(<<S(<<76>>), Bin("+", Of(u, login), S(<<33>>))>>), Set(uid, Of(u, uid))>>,
              <<Log(<<S(<<87>>), Of(u, login)>>), Set(uid, Neg(N(1)))>>)>>,
         <<Log(<<S(<<63>>), V(login)>>), Set(uid, Neg(N(1)))>>)>>),
  Println(V(uid))>>)>>)

\* prog2: a loop over rows, a column that may be NULL, a string put together.
Audit(k) == Do(<<Connect, Query1(<<S(Accounts)>>), Set(nr, N(0)),
  Db(k, <<Set(users, Query1(<<S(Accounts)>>)),
      While(Set(u, Next1(users)),
        <<Set(msg, Of(u, login)),
          If(Of(u, last), <<Set(msg, Bin("+", Bin("+", V(msg), S(<<64>>)), Of(u, last)))>>,
                          <<Set(msg, Bin("+", V(msg), S(<<45>>))), Plus1(nr)>>),
          Log(<<S(<<65>>), V(msg)>>), Println(V(msg))>>)>>),
  Println(V(nr))>>)

\* prog4: comparisons of numbers, several results of one type.
Classes(k) == Do(<<Connect, Set(x, N(0)), Set(y, N(5)),
  Db(k, <<Set(n, N(0)), Set(users, Query1(<<S(Incomes)>>)),
      While(Set(u, Next1(users)),
        <<Set(n, Of(u, income)),
          If(Bin("<", V(n), N(6)), <<Log(<<S(<<80>>), V(n)>>), Plus1(x)>>,
             <<Plus1(y), Plus1(y)>>)>>)>>),
  Say(<<V(x), V(y)>>)>>)

\* A cursor opened twice, and rows left over.
Twice(k) == Do(<<Connect, Set(x, N(3)),
  Db(k, <<Set(users, Query1(<<S(Incomes)>>)), Set(u, Next1(users)), Set(x, Of(u, income)),
      Set(users, Query1(<<S(Incomes)>>)), Set(u, Next1(users)), Set(u, Next1(users)),
      Set(x, Bin("-", V(x), Of(u, income))), Set(u, Next1(users))>>),
  Say(<<V(x)>>)>>)

\* exit in a block that has printed and written, in a loop of blocks.
Stops(k) == Do(<<Connect, Set(x, N(0)),
  While(Bin("<", V(x), N(5)),
    <<Db(k, <<Plus1(x), Println(V(x)), Log(<<V(x), S(<<88>>)>>),
          If(Bin("==", V(x), N(2)), <<Call(N_exit, <<>>)>>, <<>>),
          Log(<<V(x), S(<<89>>)>>)>>)>>),
  Println(N(7))>>)

\* A block in a function called twice, and blocks without variables.
InFunction1(k) == Do(<<Connect,
  Fun(f, <<x>>, <<Set(y, N(1)), Db(k, <<Set(y, Bin("-", V(x), V(y))), Log(<<V(y)>>)>>), Ret(V(y))>>),
  Set(z, Call(f, <<N(7)>>)),
  Db(k, <<Println(S(<<66>>))>>),
  Println(Call(f, <<V(z)>>)), Db(k, <<Log(<<S(<<67>>)>>)>>)>>)

\* Strings in and out of a block, and rows as arrays outside of one.
Strings(k) == Do(<<Connect, Set(msg, S(<<97>>)), Set(n, N(2)),
  Db(k, <<Set(z, Bin("+", V(msg), S(<<98>>))), Set(msg, Bin("+", V(z), V(msg))), Set(n, Bin("*", V(n), V(n)))>>),
  Set(users, Call(N_dbexec, <<S(Accounts)>>)),
  While(Set(u, Call(N_dbnextarray, <<V(users)>>)), <<Say(<<V(u)>>)>>),
  Say(<<V(msg), V(n)>>)>>)

\* Without a connection, with operands of no use, and a query that fails.
Misused(k) == Do(<<Set(x, N(0)), Set(y, Query1(<<S(Incomes)>>)), Say(<<Next1(users)>>),
  Say(<<Call(N_dbconnect, <<N(1)>>)>>), Connect, Set(y, Query1(<<N(1)>>)),
  Set(users, Query1(<<S(<<9, 9>>)>>)),
  While(Next1(users), <<Plus1(x)>>),
  While(Call(N_dbnextarray, <<V(users)>>), <<Plus1(x)>>),
  Db(k, <<Plus1(x)>>), Say(<<V(x)>>)>>)

\* A block without a connection.
Offline(k) == Do(<<Set(x, N(0)), Db(k, <<Plus1(x)>>), Say(<<V(x)>>)>>)

\* All blocks of two statements out of these, on a number and a string.
Statements == {
  Set(n, Neg(V(x))), Set(msg, Bin("+", V(msg), S(<<98>>))), Log(<<V(x), V(msg)>>),
  If(Bin("==", V(x), N(1)), <<Println(V(x))>>, <<Set(x, N(8))>>),
  If(V(msg), <<Set(x, Bin("*", V(x), N(3)))>>, <<Call(N_exit, <<>>)>>),
  While(Bin("<", V(x), N(3)), <<Plus1(x), Log(<<V(msg)>>)>>)}

OfTwo(s, t) ==
  Do(<<Connect, Set(x, N(1)), Set(msg, S(<<97>>)), Db("dblock", <<s, t>>), Say(<<V(x), V(msg)>>)>>)

\* A block fails after it has written: a number as a condition ...
Fails(k) == Do(<<Connect, Set(n, N(5)),
  Db(k, <<Log(<<S(<<70>>)>>)>>),
  Db(k, <<Log(<<S(<<71>>)>>), Println(V(n)), If(V(n), <<Println(N(1))>>, <<>>)>>),
  Log(<<S(<<72>>)>>)>>)

\* ... a variable of its own it shares with an earlier block ...
Shares(k) == Do(<<Connect,
  Db(k, <<Set(users, Query1(<<S(Incomes)>>)), Log(<<S(<<73>>)>>)>>),
  Db(k, <<Set(users, Query1(<<S(Incomes)>>)), Log(<<S(<<74>>)>>)>>)>>)

\* ... a cursor opened twice by a loop ...
Reopens(k) == Do(<<Connect, Set(x, N(0)),
  Db(k, <<While(Bin("<", V(x), N(2)),
        <<Set(users, Query1(<<S(Incomes)>>)), Log(<<V(x)>>), Plus1(x)>>)>>)>>)

\* ... a comparison in place of an assignment in an expression.
Assigns(k) == Do(<<Connect, Set(x, N(0)), Set(y, N(0)),
  Db(k, <<Log(<<S(<<75>>)>>), Set(x, Set(y, N(3)))>>), Say(<<V(x), V(y)>>)>>)

\* With blocks and with -i.
Kinds == {"dblock", "block"}
Sound == UNION {{Login(k), Audit(k), Classes(k), Twice(k), Stops(k), InFunction1(k), Strings(k), Misused(k), Offline(k)} : k \in Kinds}
  \cup {OfTwo(s, t) : s \in Statements, t \in Statements}
\* ... a body that is no procedure ...
Malforms(k) == Do(<<Connect, Set(x, N(0)),
  Db(k, <<Plus1(x), Println(Query1(<<S(Incomes)>>))>>)>>)

\* ... a block that was not reached when the procedures were created.
Branch(k) == Do(<<Connect, Set(login, Call(N_getstring, <<>>)),
  If(Bin("==", V(login), S(<<70>>)), <<Db(k, <<Log(<<S(<<76>>)>>)>>)>>, <<>>)>>)

Broken == {Malforms("dblock"), Branch("dblock"), Fails("dblock"), Shares("dblock"), Reopens("dblock"), Assigns("dblock")}
MCAsts == Sound \cup Broken

Lines(chars) == [i \in DOMAIN chars |-> [n |-> 0, s |-> <<chars[i]>>]]
MCStdins == {Lines(<<70, 83, 84, 83>>), Lines(<<90, 90, 84, 80>>)}

\* Programs and tables the code has trouble with.
MCNullSelects == [MCSelects EXCEPT ![ByLogin].rows = <<Max1>>]
NullAsts == {Login("dblock")}
NullStdins == {Lines(<<77, 81, 77, 81>>)}

BranchAsts == {Branch("dblock")}

NoAsts == {}
MCPrograms == Compiled
===========================================================================
