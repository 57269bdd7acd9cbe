------------------------------- MODULE Trees -------------------------------
(* Abbreviations for syntax trees. *)
EXTENDS PlPgSql

Node(k, n, s, c) == [k |-> k, n |-> n, s |-> s, c |-> c]
N(i) == Node("num", i, <<>>, <<>>)
S(cs) == Node("str", 0, cs, <<>>)
V(x) == Node("id", 0, x, <<>>)
Bin(k, a, b) == Node(k, 0, <<>>, <<a, b>>)
Neg(a) == Bin("-", Absent, a)
Set(x, a) == Bin("=", V(x), a)
Listed(k, items) == FoldLeft(LAMBDA acc, x : Bin(k, acc, x), Absent, items)
Do(list) == Listed("stmts", list)
If(c, yes, no) == Node("if", 0, <<>>, <<c, Do(yes), Do(no)>>)
While(c, body) == Bin("while", c, Do(body))
Call(f, args) == Bin("funcall", V(f), Listed("aparams", args))
Fun(f, ps, body) ==
  Node("defun", 0, <<>>, <<V(f), Listed("fparams", [i \in DOMAIN ps |-> V(ps[i])]), Do(body)>>)
Ret(a) == Node("return", 0, <<>>, <<a>>)
Array(items) == Node("arr", 0, <<>>, <<Listed("arrayvals", items)>>)
At1(x, i) == Bin("[]", V(x), i)
SetAt(x, i, v) == Node("[=", 0, <<>>, <<V(x), i, v>>)
Block(list) == Node("block", 0, <<>>, <<Do(list)>>)
Dblock(list) == Node("dblock", 0, <<>>, <<Do(list)>>)
Repeat(n, list) == Bin("repeat", N(n), Do(list))
Say(args) == Call(N_print, args)
Println(v) == Call(N_println, <<v>>)
Plus1(x) == Set(x, Bin("+", V(x), N(1)))

x == <<1>>  y == <<2>>  z == <<3>>  f == <<4>>  g == <<5>>  h == <<6>>
===========================================================================
