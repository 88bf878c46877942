--------------------------- MODULE MCLiveAuction ---------------------------
(***************************************************************************)
(* Small instances of LiveAuction.  r3 retries the attempt of r1.          *)
(***************************************************************************)
EXTENDS LiveAuction, TLC

CONSTANTS r1, r2, r3, k1, k2

MCKeyOf == [r \in Requests |-> IF r = r2 THEN k2 ELSE k1]

(* r1 and r3 carry the same key, so exchanging them changes nothing.       *)
Retries == Permutations({r1, r3})
=============================================================================
