---------------------------- MODULE MCSettlement ----------------------------
(***************************************************************************)
(* Small instances of Settlement: the winner's deposit, those of two       *)
(* losers, and replicas that are interchangeable.                          *)
(***************************************************************************)
EXTENDS Settlement, TLC

CONSTANTS win, lose, lost, w1, w2

Replicas == Permutations(Workers)
=============================================================================
