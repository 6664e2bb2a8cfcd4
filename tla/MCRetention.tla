----------------------------- MODULE MCRetention -----------------------------
(***************************************************************************)
(* Constants of the model-checking runs of Retention: two processes that    *)
(* prune.                                                                   *)
(***************************************************************************)
EXTENDS Retention, TLC

CONSTANTS P1, P2

PrunerSymmetry == Permutations(Pruners)

=============================================================================
