---------------------------- MODULE MCOutboxRelay ---------------------------
(***************************************************************************)
(* Small instances of OutboxRelay: an auction that is bid on and ends, and *)
(* one that nobody bids on.                                                *)
(***************************************************************************)
EXTENDS OutboxRelay

MCKinds == <<"BID_ACCEPTED", "AUCTION_ENDED">>

MCUnsoldKinds == <<"AUCTION_ENDING", "AUCTION_ENDED_UNSOLD">>
=============================================================================
