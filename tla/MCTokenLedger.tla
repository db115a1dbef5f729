---------------------------- MODULE MCTokenLedger ----------------------------
(* Instances of TokenLedger small enough for TLC. *)
EXTENDS TokenLedger, TLC

(* Timer threads that take no alarm are alike.                              *)
Symmetry == Permutations(Timers \ Handlers)
=============================================================================
