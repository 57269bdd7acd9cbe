---------------------------- MODULE MCBytecode ----------------------------
(* Programs of two words and the files they are written to.                *)
EXTENDS Bytecode

x == <<1>>
y == <<2>>
MCIds == {x, y}

\* The empty string, which has no characters to write, and another one.
MCConstants == {Str(<<>>), Str(<<65, 66>>)}

\* A number, and the neighbours of the numbers that look like operations.
MCNumbers == {3, MinInt, MinInt + 1, MinInt + 256}
MCOps == {"MYMUL", "NOOP"}
===========================================================================
