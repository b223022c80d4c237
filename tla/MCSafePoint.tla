---------------------------- MODULE MCSafePoint ----------------------------
(* Model-checking instance of SafePoint.                                   *)
EXTENDS SafePoint, TLC

Symmetry == Permutations(Ctx \ Killable) \cup Permutations(Killable)
===========================================================================
