----------------------------- MODULE MCPayments -----------------------------
(***************************************************************************)
(* Small instances of Payments: two payments of one user for one auction,  *)
(* the second of them by bank transfer.                                    *)
(***************************************************************************)
EXTENDS Payments, TLC

CONSTANTS card, wire, place

MCSeatOf == [p \in Payment |-> place]

(* Requests are interchangeable, and so are replicas.                      *)
Callers == Permutations(Request)
=============================================================================
