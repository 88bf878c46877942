---------------------------- MODULE AuctionAdmin ----------------------------
(***************************************************************************)
(* LiveAuction with administrators at work on the same row: PATCH          *)
(* /auctions/:id/status (AuctionService.updateStatus) and the gateway's    *)
(* admin_extend_time.  Neither takes a lock.  updateStatus reads the       *)
(* entity, and its save() reads the row a second time, computes which      *)
(* columns of the entity differ, and writes those: columns that a bid or   *)
(* the worker changed in between count as differences and are written      *)
(* back.  The version is compared with the client's when the entity is     *)
(* read and never again, so it is not part of the model.  What stops a     *)
(* stale write is the trigger enforce_auction_outcome_immutability.        *)
(***************************************************************************)
EXTENDS LiveAuction

CONSTANTS
    Commands,          \* calls of updateStatus and admin_extend_time
    ExtraTime          \* the minutes an administrator adds

ASSUME AdminAssumption == ExtraTime \in Nat

VARIABLE command       \* every command: where it is, what it read

adminVars == <<now, row, bids, outbox, offer, req, bidLock, worker, endLock,
               redisUp, faults, command>>

Command == [pc : {"idle", "read", "diffed", "extending", "done"},
            entity : Null(Row), dirty : SUBSET DOMAIN FreshRow("draft")]

IdleCommand == [pc |-> "idle", entity |-> None, dirty |-> {}]

DoneCommand(c) ==
    command' = [command EXCEPT ![c] = [pc |-> "done", entity |-> None, dirty |-> {}]]

OthersIdle == UNCHANGED <<now, bids, outbox, offer, req, bidLock, worker, endLock,
                          redisUp, faults>>

-----------------------------------------------------------------------------
(* The trigger.                                                            *)

Transitions ==
    {<<"draft", "scheduled">>, <<"draft", "cancelled">>,
     <<"scheduled", "live">>, <<"scheduled", "cancelled">>,
     <<"live", "ending">>, <<"live", "cancelled">>,
     <<"ending", "ended">>, <<"ending", "cancelled">>,
     <<"ended", "settling">>,
     <<"settling", "settled">>, <<"settling", "settlement_failed">>,
     <<"settlement_failed", "settled">>}

(* A seeded bug: the trigger is gone, as it was before migration 011.      *)
AnyUpdate(old, new) == TRUE

(* A seeded bug: whatever has not been settled may be cancelled.           *)
CancelWhenever(old, new) ==
    old.status # new.status =>
        new.status = "cancelled" \/ <<old.status, new.status>> \in Transitions

TriggerAllows(old, new) ==
    /\ old.status # new.status => <<old.status, new.status>> \in Transitions
    /\ old.status \in {"settling", "settlement_failed"} =>
          /\ old.finalPrice = new.finalPrice
          /\ old.winnerBid = new.winnerBid
          /\ old.endedAt = new.endedAt

-----------------------------------------------------------------------------
(* AuctionService.updateStatus.                                            *)

ALLOWED_TRANSITIONS ==
    [draft |-> {"scheduled"}, scheduled |-> {"live"},
     live |-> {"ending", "cancelled"}, ending |-> {"ended", "cancelled"},
     ended |-> {"settling"}, settling |-> {"settled", "settlement_failed"},
     settlement_failed |-> {"settled"}, settled |-> {}, cancelled |-> {}]

(* findOne, the check of the transition, and the assignments to the        *)
(* entity.  The limit of ten live auctions counts other rows; a call it    *)
(* refuses is a call that never starts.                                    *)
ReadEntity(c) ==
    /\ command[c].pc = "idle"
    /\ \E to \in ALLOWED_TRANSITIONS[row.status] :
          command' = [command EXCEPT
             ![c].pc = "read",
             ![c].entity = [row EXCEPT
                !.status = to,
                !.endedAt = IF to \in {"ended", "cancelled"} THEN now ELSE @]]
    /\ UNCHANGED row
    /\ OthersIdle

(* save() reads the row again and notes which columns to write.            *)
DiffEntity(c) ==
    /\ command[c].pc = "read"
    /\ command' = [command EXCEPT
          ![c].pc = "diffed",
          ![c].dirty = {f \in DOMAIN row : row[f] # command[c].entity[f]}]
    /\ UNCHANGED row
    /\ OthersIdle

(* Its UPDATE waits for the row lock and writes those columns, whatever    *)
(* became of the row; the trigger's exception is a 500 and no change.      *)
Merged(c) ==
    [f \in DOMAIN row |-> IF f \in command[c].dirty THEN command[c].entity[f]
                                                    ELSE row[f]]

WriteEntity(c) ==
    /\ command[c].pc = "diffed"
    /\ row' = IF TriggerAllows(row, Merged(c)) THEN Merged(c) ELSE row
    /\ DoneCommand(c)
    /\ OthersIdle

-----------------------------------------------------------------------------
(* admin_extend_time: the end is read, and written without a look at the   *)
(* row, its status or the end that a bid has set in between.               *)
ReadEnd(c) ==
    /\ command[c].pc = "idle"
    /\ command' = [command EXCEPT ![c].pc = "extending", ![c].entity = row]
    /\ UNCHANGED row
    /\ OthersIdle

WriteEnd(c) ==
    /\ command[c].pc = "extending"
    /\ row' = [row EXCEPT !.extendedUntil = EndOf(command[c].entity) + ExtraTime,
                          !.extensionCount = @ + 1]
    /\ DoneCommand(c)
    /\ OthersIdle

-----------------------------------------------------------------------------
AdminInit == Init /\ command = [c \in Commands |-> IdleCommand]

CommandStep(c) ==
    \/ ReadEntity(c) \/ DiffEntity(c) \/ WriteEntity(c) \/ ReadEnd(c) \/ WriteEnd(c)

AdminNext ==
    \/ Next /\ UNCHANGED command
    \/ \E c \in Commands : CommandStep(c)

AdminSpec == AdminInit /\ [][AdminNext]_adminVars

-----------------------------------------------------------------------------
(* Properties.                                                             *)

(* A command's copy of the row stays a row.                                *)
AdminTypeOK ==
    /\ row \in Row
    /\ command \in [Commands -> Command]

Stopped == row.status \notin {"draft", "scheduled", "live"}

(* An auction that stopped stays stopped and takes no further bid, even    *)
(* when an administrator's copy still says "live" when it is saved.        *)
StoppedForGood == [][Stopped => Stopped' /\ bids' = bids]_adminVars

(* An auction is cancelled or ended by the worker, never both: the         *)
(* announcement of a result and a cancellation that read the row before it *)
(* cannot both commit, and a result is announced once.                     *)
CancelledSellsNothing ==
    /\ \A i, j \in Told("auction_ended") : i = j
    /\ row.status = "cancelled" =>
          row.winnerBid = None /\ Told("auction_ended") = {}

(* The outbox still tells the story in order, administrators or not: every *)
(* bid once, at its amount, in bid order; after the announcement that the  *)
(* auction is ending, nothing but its end; and after its end, nothing.     *)
OutboxTellsTheBids ==
    LET placed == Told("bid_accepted")
        length == Len(outbox)
    IN  /\ \A b \in 1 .. Len(bids) : \E i \in placed : outbox[i].bid = b
        /\ \A i \in placed : /\ outbox[i].bid \in 1 .. Len(bids)
                             /\ outbox[i].value = bids[outbox[i].bid].amount
        /\ \A i, j \in placed : i < j => outbox[i].bid < outbox[j].bid
        /\ \A i \in Told("auction_ending") :
              \A j \in 1 .. length : i < j => outbox[j].type = "auction_ended"
        /\ \A i \in Told("auction_ended") : i = length

(* 011_triggers_immutability.sql:4-5: "Once an auction transitions to      *)
(* 'ended', the fields final_price, winner_id, winner_bid_id, and ended_at *)
(* are frozen."  Since 020 the trigger freezes them from 'settling' on.    *)
OutcomeFrozen ==
    [][row.status = "ended" => /\ row'.finalPrice = row.finalPrice
                               /\ row'.winnerBid = row.winnerBid
                               /\ row'.endedAt = row.endedAt]_adminVars

(* docs/failure-mode-analysis.md:836: "Winner = highest bid, earliest      *)
(* timestamp", in every scenario.                                          *)
WinnerIsHighestBid ==
    row.status = "ended" /\ bids # <<>> => row.winnerBid = TopBid
=============================================================================
