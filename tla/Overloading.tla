---------------------------- MODULE Overloading ----------------------------
(* How PostgreSQL chooses among functions of one name: external, no part   *)
(* of the repository.                                                      *)
(*                                                                         *)
(* Functions of one name and number of parameters differ in their types,   *)
(* "int" or "text".  A call whose arguments have no type takes text where  *)
(* a function with text there is, if one function has it in all these      *)
(* places; else it is refused as ambiguous.                                *)
EXTENDS Naturals, Sequences

Favourite(sigs) ==
  [i \in 1..Len(CHOOSE sig \in sigs : TRUE) |->
     IF \E sig \in sigs : sig[i] = "text" THEN "text" ELSE "int"]

Callable(sigs) == sigs # {} /\ Favourite(sigs) \in sigs
===========================================================================
