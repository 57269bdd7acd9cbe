------------------------------- MODULE MCGc -------------------------------
(* The collector on a heap of a few addresses. *)
EXTENDS Gc, TLC

CONSTANTS g, f, a, b

MCInitVals == <<f, g>>
MCSymmetry == Permutations({a, b})
===========================================================================
