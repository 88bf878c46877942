---------------------------- MODULE LiveAuction ----------------------------
(***************************************************************************)
(* One auction of the auction service while it is bid on and ended: the    *)
(* auctions.auctions row, the append-only bids table, the outbox table,    *)
(* the two Redis locks, any number of bid requests in flight through       *)
(* BidService.placeBid, and one AuctionEndingWorker per replica.           *)
(*                                                                         *)
(* A transaction that holds the row lock (SELECT ... FOR UPDATE) is one    *)
(* step from taking the lock to COMMIT: no other transaction sees the row  *)
(* or its bids in between.  Everything before the row lock is separate     *)
(* steps, because the awaits there let other requests and the clock run.   *)
(*                                                                         *)
(* One Key is one attempt of one bidder to bid one amount: the client's    *)
(* idempotency key.  Requests with the same key are retries of it.         *)
(***************************************************************************)
EXTENDS Integers, Sequences, FiniteSets

CONSTANTS
    None,              \* SQL NULL, a free lock, an answer not given yet
    Keys,              \* idempotency keys
    Eligible,          \* keys of bidders who pass phases 6, 6b and 7
    Requests,          \* calls of placeBid
    KeyOf,             \* KeyOf[r]: the key request r carries
    Workers,           \* replicas that run AuctionEndingWorker
    Amounts,           \* amounts a bidder may ask for
    StartingPrice,
    MinimumIncrement,
    ScheduledEnd,
    SniperWindow,      \* sniper_window_seconds
    SniperExtension,   \* sniper_extension_seconds
    MaxExtensions,     \* max_sniper_extensions; 0 is sniper_enabled = FALSE
    FirstStatus,       \* status of the row when the behaviour starts
    MaxTime,           \* bound on the clock
    MaxFaults          \* bound on worker failures and Redis outages

(* What the schema and the DTOs guarantee: 033 checks that prices are      *)
(* positive, CreateAuctionDto that a window is.  That an extension is at   *)
(* least the window is NOT guaranteed; the properties that need it say so. *)
ASSUME ConstantsAssumption ==
    /\ Eligible \subseteq Keys
    /\ KeyOf \in [Requests -> Keys]
    /\ Amounts \subseteq Nat
    /\ StartingPrice \in Nat /\ MinimumIncrement \in Nat \ {0}
    /\ ScheduledEnd \in Nat /\ SniperWindow \in Nat /\ SniperExtension \in Nat
    /\ MaxExtensions \in Nat /\ MaxTime \in Nat /\ MaxFaults \in Nat
    /\ FirstStatus \in {"draft", "scheduled", "live"}
    /\ None \notin Nat \cup Requests \cup Workers \cup {"accepted"}

VARIABLES
    now,               \* the clock, the database's and the replicas'
    row,               \* the auctions.auctions row
    bids,              \* auctions.bids, in commit order; a bid's id is its index
    outbox,            \* event_outbox rows of this auction, in sequence order
    offer,             \* what each attempt asks for, fixed by its bidder
    req,               \* every call of placeBid: where it is, what it holds
    bidLock,           \* Redis bid:lock:auction:<id>: the request that holds it
    worker,            \* every AuctionEndingWorker: where it is, status it polled
    endLock,           \* Redis auction:ending:lock:<id>: the worker that holds it
    redisUp,           \* RedisLockService.redisHealthy
    faults             \* failures so far, bounded by MaxFaults

vars == <<now, row, bids, outbox, offer, req, bidLock, worker, endLock,
          redisUp, faults>>

-----------------------------------------------------------------------------
(* The row and what the handlers compute from it.                          *)

Status == {"draft", "scheduled", "live", "ending", "ended", "settling",
           "settled", "settlement_failed", "cancelled"}

Null(S) == S \cup {None}

Row == [status : Status, currentPrice : Null(Nat), bidCount : Nat,
        extendedUntil : Null(Nat), extensionCount : Nat,
        finalPrice : Null(Nat), winnerBid : Null(Nat), endedAt : Null(Nat)]

Bid == [key : Keys, amount : Nat]

Event == [type : {"bid_accepted", "sniper_extension", "auction_ending",
                  "auction_ended"},
          value : Null(Nat), bid : Null(Nat)]

FreshRow(status) ==
    [status |-> status, currentPrice |-> None, bidCount |-> 0,
     extendedUntil |-> None, extensionCount |-> 0,
     finalPrice |-> None, winnerBid |-> None, endedAt |-> None]

PriceOf(rw) == IF rw.currentPrice = None THEN StartingPrice ELSE rw.currentPrice
EndOf(rw)   == IF rw.extendedUntil = None THEN ScheduledEnd ELSE rw.extendedUntil

Price == PriceOf(row)
End == EndOf(row)

PlacedKeys == {bids[i].key : i \in 1 .. Len(bids)}

(* A reference price is one the bidder has been shown: the gateway reads   *)
(* it from the row, an HTTP client sends the price it displayed.           *)
ShownPrices == {StartingPrice} \cup {bids[i].amount : i \in 1 .. Len(bids)}

TopBid == CHOOSE i \in 1 .. Len(bids) :
             \A j \in 1 .. Len(bids) :
                \/ bids[j].amount < bids[i].amount
                \/ bids[j].amount = bids[i].amount /\ i <= j

-----------------------------------------------------------------------------
(* Requests: BidService.placeBid, phase by phase.                          *)

RequestPc == {"idle", "admitted", "locked", "begun", "release", "done"}

(* "failed" is a 5xx or no answer at all: the bidder has to try again.     *)
Answers == {"accepted", "rejected", "failed"}

Call == [pc : RequestPc, ref : Null(Nat), begin : Null(Nat), answer : Null(Answers)]

IdleRequest == [pc |-> "idle", ref |-> None, begin |-> None, answer |-> None]

Done(r, answer) ==
    req' = [req EXCEPT ![r] = [pc |-> "done", ref |-> None, begin |-> None,
                               answer |-> answer]]

Finish(r, answer) ==
    req' = [req EXCEPT ![r].pc = "release", ![r].answer = answer]

(* The call arrives with the price its bidder was shown; phase 0 answers   *)
(* it at once when its key already has a bid.                              *)
Submit(r) ==
    /\ req[r].pc = "idle"
    /\ \/ /\ KeyOf[r] \in PlacedKeys
          /\ Done(r, "accepted")
       \/ /\ KeyOf[r] \notin PlacedKeys
          /\ \E p \in ShownPrices :
                req' = [req EXCEPT ![r].pc = "admitted", ![r].ref = p]
    /\ UNCHANGED <<now, row, bids, outbox, offer, bidLock, worker, endLock,
                   redisUp, faults>>

(* Phase 1: SET NX PX.  A held lock or a failing Redis refuses the call.   *)
TakeBidLock(r) ==
    /\ req[r].pc = "admitted"
    /\ \/ /\ redisUp /\ bidLock = None
          /\ bidLock' = r
          /\ req' = [req EXCEPT ![r].pc = "locked"]
       \/ /\ ~redisUp \/ bidLock # None
          /\ Done(r, "failed")
          /\ UNCHANGED bidLock
    /\ UNCHANGED <<now, row, bids, outbox, offer, worker, endLock, redisUp, faults>>

(* Phases 2 and 3: BEGIN, which fixes what NOW() returns until the end of  *)
(* the transaction, and the second look for the key.                       *)
Begin(r) ==
    /\ req[r].pc = "locked"
    /\ \/ /\ KeyOf[r] \in PlacedKeys
          /\ Finish(r, "accepted")
       \/ /\ KeyOf[r] \notin PlacedKeys
          /\ req' = [req EXCEPT ![r].pc = "begun", ![r].begin = now]
    /\ UNCHANGED <<now, row, bids, outbox, offer, bidLock, worker, endLock,
                   redisUp, faults>>

(* A seeded bug: phase 5 trusts the end time and forgets the status.       *)
ValidWhateverTheStatus(r) ==
    /\ req[r].begin <= End
    /\ KeyOf[r] \in Eligible
    /\ req[r].ref = Price
    /\ offer[KeyOf[r]] >= Price + MinimumIncrement
    /\ \A i \in 1 .. Len(bids) : bids[i].amount # offer[KeyOf[r]]

(* A seeded bug: phase 9 compares with the price the bidder was shown and  *)
(* phase 8, which makes that the current price, is gone.                   *)
ValidAgainstShownPrice(r) ==
    /\ row.status = "live"
    /\ req[r].begin <= End
    /\ KeyOf[r] \in Eligible
    /\ offer[KeyOf[r]] >= req[r].ref + MinimumIncrement
    /\ \A i \in 1 .. Len(bids) : bids[i].amount # offer[KeyOf[r]]

(* Phases 5 to 10.  The unique index on bids.idempotency_key is left out:  *)
(* an attempt keeps its amount, so phase 10 alone refuses its second bid.  *)
Valid(r) ==
    /\ row.status = "live"
    /\ req[r].begin <= End
    /\ KeyOf[r] \in Eligible
    /\ req[r].ref = Price
    /\ offer[KeyOf[r]] >= Price + MinimumIncrement
    /\ \A i \in 1 .. Len(bids) : bids[i].amount # offer[KeyOf[r]]

(* Phase 12: a bid inside the window pushes the end out from NOW().        *)
InSniperWindow(r) ==
    /\ row.extensionCount < MaxExtensions
    /\ req[r].begin < End
    /\ End - req[r].begin <= SniperWindow

(* A seeded bug: the event of an extension is not written.                 *)
PlaceUntold(r) ==
    LET sniper == InSniperWindow(r)
    IN  /\ req[r].pc = "begun"
        /\ Valid(r)
        /\ bids' = Append(bids, [key |-> KeyOf[r], amount |-> offer[KeyOf[r]]])
        /\ row' = [row EXCEPT
                     !.currentPrice = offer[KeyOf[r]],
                     !.bidCount = @ + 1,
                     !.extendedUntil = IF sniper THEN req[r].begin + SniperExtension
                                                 ELSE @,
                     !.extensionCount = IF sniper THEN @ + 1 ELSE @]
        /\ outbox' = Append(outbox, [type |-> "bid_accepted",
                                     value |-> offer[KeyOf[r]],
                                     bid |-> Len(bids) + 1])
        /\ Finish(r, "accepted")
        /\ UNCHANGED <<now, offer, bidLock, worker, endLock, redisUp, faults>>

(* Phases 4 to 13, under the row lock: the bid, the row and the events     *)
(* commit together.                                                        *)
Place(r) ==
    LET amount == offer[KeyOf[r]]
        id     == Len(bids) + 1
        end    == req[r].begin + SniperExtension
        sniper == InSniperWindow(r)
    IN  /\ req[r].pc = "begun"
        /\ Valid(r)
        /\ bids' = Append(bids, [key |-> KeyOf[r], amount |-> amount])
        /\ row' = [row EXCEPT
                     !.currentPrice = amount,
                     !.bidCount = @ + 1,
                     !.extendedUntil = IF sniper THEN end ELSE @,
                     !.extensionCount = IF sniper THEN @ + 1 ELSE @]
        /\ outbox' = outbox
              \o <<[type |-> "bid_accepted", value |-> amount, bid |-> id]>>
              \o (IF sniper
                  THEN <<[type |-> "sniper_extension", value |-> end, bid |-> id]>>
                  ELSE <<>>)
        /\ Finish(r, "accepted")
        /\ UNCHANGED <<now, offer, bidLock, worker, endLock, redisUp, faults>>

(* Any failed check: the bid_rejections row commits with the answer.       *)
Reject(r) ==
    /\ req[r].pc = "begun"
    /\ ~Valid(r)
    /\ Finish(r, "rejected")
    /\ UNCHANGED <<now, row, bids, outbox, offer, bidLock, worker, endLock,
                   redisUp, faults>>

(* A seeded bug: the catch block falls through to the success answer.      *)
RollBackAccepted(r) ==
    /\ req[r].pc \in {"locked", "begun"}
    /\ Finish(r, "accepted")
    /\ UNCHANGED <<now, row, bids, outbox, offer, bidLock, worker, endLock,
                   redisUp, faults>>

(* lock_timeout, statement_timeout or a lost connection: rollback, 503.    *)
RollBack(r) ==
    /\ req[r].pc \in {"locked", "begun"}
    /\ Finish(r, "failed")
    /\ UNCHANGED <<now, row, bids, outbox, offer, bidLock, worker, endLock,
                   redisUp, faults>>

(* Phase 14: compare-and-delete, then the answer.  When Redis throws here  *)
(* the finally block replaces the answer, whatever was committed.          *)
ReleaseBidLock(r) ==
    /\ req[r].pc = "release"
    /\ IF redisUp
       THEN /\ bidLock' = IF bidLock = r THEN None ELSE bidLock
            /\ Done(r, req[r].answer)
       ELSE /\ Done(r, "failed")
            /\ UNCHANGED bidLock
    /\ UNCHANGED <<now, row, bids, outbox, offer, worker, endLock, redisUp, faults>>

(* The process dies, or the connection to the client does: the database    *)
(* rolls back what is open, nobody releases the lock, no answer arrives.   *)
Die(r) ==
    /\ req[r].pc \in {"locked", "begun", "release"}
    /\ Done(r, "failed")
    /\ UNCHANGED <<now, row, bids, outbox, offer, bidLock, worker, endLock,
                   redisUp, faults>>

(* The TTL (3 s) runs out, with the holder still at work or gone.          *)
ExpireBidLock ==
    /\ bidLock # None
    /\ bidLock' = None
    /\ UNCHANGED <<now, row, bids, outbox, offer, req, worker, endLock, redisUp,
                   faults>>

-----------------------------------------------------------------------------
(* Workers: AuctionEndingWorker.tick and processAuction.                   *)

WorkerPc == {"idle", "found", "locked", "ending", "release"}

Replica == [pc : WorkerPc, seen : {"live", "ending", None}]

IdleWorker == [pc |-> "idle", seen |-> None]

Goto(w, pc) == worker' = [worker EXCEPT ![w].pc = pc]
Rest(w)     == worker' = [worker EXCEPT ![w] = IdleWorker]

(* A seeded bug: the polling query forgets the status filter.              *)
PollAnyStatus(w) ==
    /\ worker[w].pc = "idle"
    /\ redisUp
    /\ now >= End
    /\ worker' = [worker EXCEPT ![w] = [pc |-> "found", seen |-> row.status]]
    /\ UNCHANGED <<now, row, bids, outbox, offer, req, bidLock, endLock, redisUp,
                   faults>>

(* The polling query, outside any transaction: the status it returns is    *)
(* what processAuction branches on later.                                  *)
Poll(w) ==
    /\ worker[w].pc = "idle"
    /\ redisUp
    /\ row.status \in {"live", "ending"}
    /\ now >= End
    /\ worker' = [worker EXCEPT ![w] = [pc |-> "found", seen |-> row.status]]
    /\ UNCHANGED <<now, row, bids, outbox, offer, req, bidLock, endLock, redisUp,
                   faults>>

TakeEndLock(w) ==
    /\ worker[w].pc = "found"
    /\ \/ /\ redisUp /\ endLock = None
          /\ endLock' = w
          /\ Goto(w, "locked")
       \/ /\ ~redisUp \/ endLock # None
          /\ Rest(w)
          /\ UNCHANGED endLock
    /\ UNCHANGED <<now, row, bids, outbox, offer, req, bidLock, redisUp, faults>>

(* A seeded bug: the end time is not read again under the row lock.        *)
LiveToEndingUnchecked(w) ==
    /\ worker[w].pc = "locked"
    /\ worker[w].seen = "live"
    /\ \/ /\ row.status = "live"
          /\ row' = [row EXCEPT !.status = "ending"]
          /\ outbox' = Append(outbox, [type |-> "auction_ending", value |-> None,
                                       bid |-> None])
       \/ /\ row.status # "live"
          /\ UNCHANGED <<row, outbox>>
    /\ Goto(w, "ending")
    /\ UNCHANGED <<now, bids, offer, req, bidLock, endLock, redisUp, faults>>

(* transitionLiveToEnding re-reads the row under its lock: a bid may have  *)
(* extended the auction, another replica may have been here.               *)
LiveToEnding(w) ==
    /\ worker[w].pc = "locked"
    /\ worker[w].seen = "live"
    /\ \/ /\ row.status = "live"
          /\ End <= now
          /\ row' = [row EXCEPT !.status = "ending"]
          /\ outbox' = Append(outbox, [type |-> "auction_ending", value |-> None,
                                       bid |-> None])
       \/ /\ row.status # "live" \/ End > now
          /\ UNCHANGED <<row, outbox>>
    /\ Goto(w, "ending")
    /\ UNCHANGED <<now, bids, offer, req, bidLock, endLock, redisUp, faults>>

(* transitionEndingToEnded: the winner is read and frozen under the row    *)
(* lock.  The end time is not looked at again.                             *)
CloseRow(rw) ==
    IF bids = <<>>
    THEN [rw EXCEPT !.status = "ended", !.endedAt = now]
    ELSE [rw EXCEPT !.status = "ended", !.endedAt = now,
                    !.finalPrice = bids[TopBid].amount, !.winnerBid = TopBid]

(* A seeded bug: only the tick that stopped the auction may close it.      *)
EndingToEndedSameTick(w) ==
    /\ worker[w].pc = "ending"
    /\ \/ /\ row.status = "ending"
          /\ row' = CloseRow(row)
          /\ outbox' = Append(outbox, [type |-> "auction_ended",
                                       value |-> row'.finalPrice,
                                       bid |-> row'.winnerBid])
       \/ /\ row.status # "ending"
          /\ UNCHANGED <<row, outbox>>
    /\ Goto(w, "release")
    /\ UNCHANGED <<now, bids, offer, req, bidLock, endLock, redisUp, faults>>

EndingToEnded(w) ==
    /\ \/ worker[w].pc = "ending"
       \/ worker[w].pc = "locked" /\ worker[w].seen = "ending"
    /\ \/ /\ row.status = "ending"
          /\ row' = CloseRow(row)
          /\ outbox' = Append(outbox, [type |-> "auction_ended",
                                       value |-> row'.finalPrice,
                                       bid |-> row'.winnerBid])
       \/ /\ row.status # "ending"
          /\ UNCHANGED <<row, outbox>>
    /\ Goto(w, "release")
    /\ UNCHANGED <<now, bids, offer, req, bidLock, endLock, redisUp, faults>>

ReleaseEndLock(w) ==
    /\ worker[w].pc = "release"
    /\ endLock' = IF redisUp /\ endLock = w THEN None ELSE endLock
    /\ Rest(w)
    /\ UNCHANGED <<now, row, bids, outbox, offer, req, bidLock, redisUp, faults>>

(* A transaction of the worker fails: rollback, log, release.              *)
WorkerError(w) ==
    /\ faults < MaxFaults
    /\ worker[w].pc \in {"locked", "ending"}
    /\ Goto(w, "release")
    /\ faults' = faults + 1
    /\ UNCHANGED <<now, row, bids, outbox, offer, req, bidLock, endLock, redisUp>>

(* The replica dies and restarts; its lock stays until the TTL.            *)
WorkerDies(w) ==
    /\ faults < MaxFaults
    /\ worker[w].pc # "idle"
    /\ Rest(w)
    /\ faults' = faults + 1
    /\ UNCHANGED <<now, row, bids, outbox, offer, req, bidLock, endLock, redisUp>>

ExpireEndLock ==
    /\ endLock # None
    /\ endLock' = None
    /\ UNCHANGED <<now, row, bids, outbox, offer, req, bidLock, worker, redisUp,
                   faults>>

-----------------------------------------------------------------------------
(* Redis and the clock.                                                    *)

RedisFails ==
    /\ faults < MaxFaults
    /\ redisUp
    /\ redisUp' = FALSE
    /\ faults' = faults + 1
    /\ UNCHANGED <<now, row, bids, outbox, offer, req, bidLock, worker, endLock>>

RedisReturns ==
    /\ ~redisUp
    /\ redisUp' = TRUE
    /\ UNCHANGED <<now, row, bids, outbox, offer, req, bidLock, worker, endLock,
                   faults>>

Tick ==
    /\ now < MaxTime
    /\ now' = now + 1
    /\ UNCHANGED <<row, bids, outbox, offer, req, bidLock, worker, endLock, redisUp,
                   faults>>

-----------------------------------------------------------------------------
Init ==
    /\ now = 0
    /\ row = FreshRow(FirstStatus)
    /\ bids = <<>>
    /\ outbox = <<>>
    /\ offer \in [Keys -> Amounts]
    /\ req = [r \in Requests |-> IdleRequest]
    /\ bidLock = None
    /\ worker = [w \in Workers |-> IdleWorker]
    /\ endLock = None
    /\ redisUp = TRUE
    /\ faults = 0

RequestStep(r) ==
    \/ Submit(r) \/ TakeBidLock(r) \/ Begin(r) \/ Place(r) \/ Reject(r)
    \/ RollBack(r) \/ ReleaseBidLock(r) \/ Die(r)

WorkerStep(w) ==
    \/ Poll(w) \/ TakeEndLock(w) \/ LiveToEnding(w) \/ EndingToEnded(w)
    \/ ReleaseEndLock(w)

Next ==
    \/ \E r \in Requests : RequestStep(r)
    \/ \E w \in Workers : WorkerStep(w) \/ WorkerError(w) \/ WorkerDies(w)
    \/ ExpireBidLock \/ ExpireEndLock
    \/ RedisFails \/ RedisReturns
    \/ Tick

(* A replica's 1 s interval keeps calling tick, a Redis key with PX always *)
(* expires, ioredis reconnects by itself, and time passes.  Nothing makes  *)
(* a bidder's request advance.                                             *)
Fairness ==
    /\ \A w \in Workers : WF_vars(WorkerStep(w))
    /\ WF_vars(ExpireEndLock)
    /\ WF_vars(RedisReturns)
    /\ WF_vars(Tick)

Spec == Init /\ [][Next]_vars /\ Fairness

-----------------------------------------------------------------------------
(* Properties.                                                             *)

(* Every variable keeps its type, whatever fails.                          *)
TypeOK ==
    /\ now \in Nat
    /\ row \in Row
    /\ bids \in Seq(Bid)
    /\ outbox \in Seq(Event)
    /\ offer \in [Keys -> Amounts]
    /\ req \in [Requests -> Call]
    /\ bidLock \in Null(Requests)
    /\ worker \in [Workers -> Replica]
    /\ endLock \in Null(Workers)
    /\ redisUp \in BOOLEAN
    /\ faults \in 0 .. MaxFaults

Ended == row.status \notin {"draft", "scheduled", "live", "ending"}

(* The amounts of the bids table rise by the minimum increment, in commit  *)
(* order, although every request chose its reference price long before it  *)
(* held the row lock.                                                      *)
BidsRise ==
    \A i \in 1 .. Len(bids) :
        /\ bids[i].amount >= MinimumIncrement
                + (IF i = 1 THEN StartingPrice ELSE bids[i - 1].amount)
        /\ \A j \in 1 .. i - 1 : bids[j].amount < bids[i].amount

(* The auction row, which only caches the bids table, never disagrees with *)
(* it: current_price and bid_count say what the last bid made them, and    *)
(* the outcome the worker froze is the last, highest bid.                  *)
RowMatchesBids ==
    /\ row.bidCount = Len(bids)
    /\ row.currentPrice = IF bids = <<>> THEN None ELSE bids[Len(bids)].amount
    /\ ~Ended => row.winnerBid = None /\ row.finalPrice = None
    /\ row.status = "ended" =>
          /\ row.winnerBid = IF bids = <<>> THEN None ELSE Len(bids)
          /\ row.finalPrice = row.currentPrice

(* A bidder who was told the bid is in will find it in the bids table: no  *)
(* accepted answer outlives a rollback, for the first call or a retry.     *)
AcceptedIsDurable ==
    \A r \in Requests : req[r].answer = "accepted" => KeyOf[r] \in PlacedKeys

Told(type) == {i \in 1 .. Len(outbox) : outbox[i].type = type}

(* Consumers that read nothing but the outbox can rebuild the auction: one *)
(* event per bid in bid order, the end time of the last extension, and the *)
(* two endings, each once, after every bid.                                *)
OutboxTellsTheRow ==
    LET placed == Told("bid_accepted")
        sniper == Told("sniper_extension")
        length == Len(outbox)
    IN  /\ \A b \in 1 .. Len(bids) : \E i \in placed : outbox[i].bid = b
        /\ \A i \in placed : /\ outbox[i].bid \in 1 .. Len(bids)
                             /\ outbox[i].value = bids[outbox[i].bid].amount
        /\ \A i, j \in placed : i < j => outbox[i].bid < outbox[j].bid
        /\ Cardinality(sniper) = row.extensionCount
        /\ sniper = {} => row.extendedUntil = None
        /\ \A i \in sniper : (\A j \in sniper : j <= i) => outbox[i].value = row.extendedUntil
        /\ Told("auction_ending") = CASE row.status = "ending" -> {length}
                                      [] row.status = "ended"  -> {length - 1}
                                      [] OTHER                 -> {}
        /\ Told("auction_ended") = IF row.status = "ended" THEN {length} ELSE {}
        /\ row.status = "ended" =>
              outbox[length] = [type |-> "auction_ended",
                                value |-> row.finalPrice, bid |-> row.winnerBid]

Phase == CASE row.status \in {"draft", "scheduled"} -> "upcoming"
           [] row.status = "live"                   -> "open"
           [] row.status = "ending"                 -> "closing"
           [] OTHER                                 -> "closed"

EA == INSTANCE EnglishAuction
          WITH clock <- now, phase <- Phase, offers <- bids, deadline <- End,
               sold <- row.winnerBid

(* Requests, retries, workers, expiring locks and a failing Redis together *)
(* are one English auction.  The mapping needs SniperExtension >=          *)
(* SniperWindow: only then does an extension never bring the end forward.  *)
ImplementsEnglishAuction == EA!Spec

(* bid.service.ts:335: "Sniper protection: extend if bid is within the     *)
(* sniper window."  No validation makes the extension as long as the       *)
(* window, and the new end is counted from the bid, not from the end.      *)
SniperExtends == [][End' >= End]_vars

(* docs/failure-mode-analysis.md:692: "Phase 3 re-check catches concurrent *)
(* duplicates within the TX".  It runs before the row lock: a retry that   *)
(* waits there for the first call is refused for the price that call set.  *)
RetryIsRecognised ==
    [][\A r \in Requests :
          req[r].answer # "rejected" /\ req'[r].answer = "rejected"
             => KeyOf[r] \notin PlacedKeys]_vars

(* A live auction is ended, whatever Redis outages, worker failures and    *)
(* crashes between the two transactions come first, if they are finite.    *)
AuctionGetsEnded == row.status = "live" ~> row.status = "ended"
=============================================================================
