----------------------------- MODULE MCDeploy -----------------------------
(* Versions that differ in the names and the types of the block's variables, *)
(* and one whose body is malformed.                                          *)
EXTENDS Deploy, TLC

CONSTANTS v1, v2, v3, v4, v5

MCSymmetry == Permutations(Sessions)

MCSigOf == [v \in Versions |-> CASE v = v3 -> <<"text">> [] v = v4 -> <<>> [] OTHER -> <<"int">>]
MCNamesOf == [v \in Versions |-> CASE v = v2 -> <<"y">> [] v = v4 -> <<>> [] OTHER -> <<"x">>]
===========================================================================
