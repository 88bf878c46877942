------------------------------ MODULE MCRefunds -----------------------------
(***************************************************************************)
(* Small instances of Refunds: interchangeable requests and keys.          *)
(***************************************************************************)
EXTENDS Refunds, TLC

Callers == Permutations(Request) \cup Permutations(Key)
=============================================================================
