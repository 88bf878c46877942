--------------------------- MODULE MCAuctionAdmin ---------------------------
(***************************************************************************)
(* Small instances of AuctionAdmin: a bidder, an outsider who may not bid, *)
(* and administrators whose commands are interchangeable.                  *)
(***************************************************************************)
EXTENDS AuctionAdmin, TLC

CONSTANTS r1, r2, k1, k2, c1, c2

MCKeyOf == [r \in Requests |-> IF r = r1 THEN k1 ELSE k2]

Administrators == Permutations(Commands)
=============================================================================
