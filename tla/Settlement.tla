----------------------------- MODULE Settlement -----------------------------
(***************************************************************************)
(* Settling one ended auction: the auction's status, the deposits of its   *)
(* participants with their ledger and refund records, the manifest row,    *)
(* the payment provider, and one SettlementWorker per replica.             *)
(*                                                                         *)
(* The manifest is one row with its items in a JSON column.  A worker      *)
(* loads it before it takes the Redis lock, works on its copy, and every   *)
(* save() makes the row equal to the copy.  Transactions that lock the     *)
(* auction or a deposit row are one step; the provider's call is a step of *)
(* its own, between the read of the deposit and the record of the result.  *)
(*                                                                         *)
(* Times: the lock's TTL (30 s) may pass anywhere in a worker's work, which *)
(* is up to ItemsPerTick calls of 5 s and their transactions.              *)
(***************************************************************************)
EXTENDS Naturals, Sequences

CONSTANTS
    None,              \* no manifest, a free lock, no winner, no item
    Deposits,          \* deposits of the eligible participants
    Collected,         \* those still 'collected' when the auction ends
    Winner,            \* the deposit of the auction's winner, or None
    Workers,           \* replicas that run SettlementWorker
    MaxRetries,        \* MAX_RETRIES
    ItemsPerTick,      \* ITEMS_PER_TICK
    MayBeOversized,    \* whether a manifest may exceed MEMORY_SAFETY_ITEMS_LIMIT
    MayExpire,         \* whether the manifest's 48 hours may pass
    MaxFaults,         \* bound on failed transactions and worker crashes
    MaxMoves           \* bound on an administrator's status changes and retries

ASSUME SettlementAssumption ==
    /\ Collected \subseteq Deposits
    /\ Winner \in Deposits \cup {None}
    /\ MaxRetries \in Nat \ {0} /\ ItemsPerTick \in Nat \ {0}
    /\ MayBeOversized \in BOOLEAN /\ MayExpire \in BOOLEAN
    /\ MaxFaults \in Nat /\ MaxMoves \in Nat
    /\ None \notin Deposits \cup Workers

VARIABLES
    auction,           \* auctions.status
    deposit,           \* payments.deposits: the status of every deposit
    ledger,            \* payments.payment_ledger: the events of every deposit
    refund,            \* payments.refunds: the status of every deposit's refund
    pos,               \* what the provider has done: <<deposit, action>>
    manifest,          \* auctions.settlement_manifests: this auction's row
    worker,            \* every SettlementWorker: where it is, its copy
    lock,              \* Redis auction:settlement:lock:<id>: who holds it
    expired,           \* now > expires_at
    retried,           \* the answer to an administrator's last retry
    faults, moves      \* bounded by MaxFaults and MaxMoves

vars == <<auction, deposit, ledger, refund, pos, manifest, worker, lock, expired,
          retried, faults, moves>>

(* What only the provider's calls and the transactions that record them    *)
(* change.                                                                 *)
money == <<deposit, ledger, refund, pos>>

-----------------------------------------------------------------------------
Held == Deposits \ Collected

Item == [status : {"pending", "acknowledged", "failed"}, retries : 0 .. MaxRetries]

(* The items stand for all of them; that there are over 500 is noted.      *)
Manifest(D) == [status : {"active", "completed", "expired", "escalated"},
                oversized : BOOLEAN, items : [D -> Item]]

DepositStatus == {"collected", "held", "captured", "refund_pending", "refunded"}

LedgerEvent == {"deposit_captured", "deposit_refund_initiated", "deposit_refunded"}

ASSUME NoManifestAssumption == None \notin Manifest(Held)

ActionOf(d) == IF d = Winner THEN "capture" ELSE "refund"

(* The status a deposit has when its item is done, and the one from which  *)
(* its provider call is made.                                              *)
DoneStatus(d)  == IF d = Winner THEN "captured" ELSE "refunded"
ReadyStatus(d) == IF d = Winner THEN "held" ELSE "refund_pending"

LedgerOf(status) ==
    CASE status = "captured"       -> <<"deposit_captured">>
      [] status = "refund_pending" -> <<"deposit_refund_initiated">>
      [] status = "refunded"       -> <<"deposit_refund_initiated", "deposit_refunded">>
      [] OTHER                     -> <<>>

RefundOf(status) ==
    CASE status = "refund_pending" -> "pending"
      [] status = "refunded"       -> "completed"
      [] OTHER                     -> None

WorkerPc == {"idle", "found", "initiating", "loaded", "givingup", "working",
             "refunding", "calling", "recording", "saving", "release"}

(* The copy, the items its loop has not come to, how many it may still     *)
(* process in this tick, and the one it is at.                             *)
Replica == [pc : WorkerPc, copy : Manifest(Held) \cup {None}, todo : SUBSET Held,
            left : 0 .. ItemsPerTick, item : Held \cup {None}]

IdleWorker == [pc |-> "idle", copy |-> None, todo |-> {}, left |-> 0, item |-> None]

Goto(w, pc) == worker' = [worker EXCEPT ![w].pc = pc]
Rest(w)     == worker' = [worker EXCEPT ![w] = IdleWorker]

Copy(w) == worker[w].copy
ItemOf(w) == worker[w].item

(* A seeded bug: failed items are not tried again.                         *)
PendingOnly(w) ==
    {d \in worker[w].todo : Copy(w).items[d].status = "pending"}

(* Items of the copy the loop of this tick has yet to come to.             *)
Workable(w) ==
    {d \in worker[w].todo :
        LET i == Copy(w).items[d]
        IN  i.status = "pending" \/ (i.status = "failed" /\ i.retries < MaxRetries)}

(* The item of the copy is marked, and the copy is to be saved.            *)
MarkedItem(i, ok) ==
    IF ok THEN [i EXCEPT !.status = "acknowledged"]
          ELSE [status |-> "failed", retries |-> i.retries + 1]

Marked(v, d, ok) ==
    [v EXCEPT !.pc = "saving", !.item = d,
              !.copy.items[d] = MarkedItem(@, ok)]

Mark(w, d, ok) == worker' = [worker EXCEPT ![w] = Marked(worker[w], d, ok)]

-----------------------------------------------------------------------------
(* The tick's first query and SettlementService.initiateSettlement.        *)

FindEnded(w) ==
    /\ worker[w].pc = "idle"
    /\ auction = "ended"
    /\ Goto(w, "found")
    /\ UNCHANGED <<auction, money, manifest, lock, expired, retried, faults, moves>>

LockToInitiate(w) ==
    /\ worker[w].pc = "found"
    /\ \/ /\ lock = None
          /\ lock' = w
          /\ Goto(w, "initiating")
       \/ /\ lock # None
          /\ Rest(w)
          /\ UNCHANGED lock
    /\ UNCHANGED <<auction, money, manifest, expired, retried, faults, moves>>

(* Every deposit that is 'held' becomes an item; the others are skipped.   *)
(* A manifest without items is finalised in the same tick.                 *)
Initiate(w) ==
    LET listed == {d \in Deposits : deposit[d] = "held"}
    IN  /\ worker[w].pc = "initiating"
        /\ \/ /\ auction = "ended" /\ manifest = None
              /\ \E oversized \in {FALSE, MayBeOversized} :
                    manifest' = [status |-> "active", oversized |-> oversized,
                                 items |-> [d \in listed |->
                                               [status |-> "pending", retries |-> 0]]]
              /\ auction' = "settling"
              /\ worker' = [worker EXCEPT
                    ![w].pc = IF listed = {} THEN "working" ELSE "release",
                    ![w].copy = IF listed = {} THEN manifest' ELSE None]
           \/ /\ auction # "ended" \/ manifest # None
              /\ Goto(w, "release")
              /\ UNCHANGED <<auction, manifest>>
        /\ UNCHANGED <<money, lock, expired, retried, faults, moves>>

-----------------------------------------------------------------------------
(* The tick's second query, and one pass over the manifest.                *)

(* The copy is read here and never again before it is saved.               *)
Load(w) ==
    /\ worker[w].pc = "idle"
    /\ manifest # None
    /\ manifest.status = "active"
    /\ worker' = [worker EXCEPT ![w].pc = "loaded", ![w].copy = manifest]
    /\ UNCHANGED <<auction, money, manifest, lock, expired, retried, faults, moves>>

LockToProcess(w) ==
    /\ worker[w].pc = "loaded"
    /\ \/ /\ lock = None
          /\ lock' = w
          /\ worker' = [worker EXCEPT
                ![w].pc = IF expired \/ Copy(w).oversized THEN "givingup"
                                                         ELSE "working",
                ![w].todo = DOMAIN Copy(w).items,
                ![w].left = ItemsPerTick]
       \/ /\ lock # None
          /\ Rest(w)
          /\ UNCHANGED lock
    /\ UNCHANGED <<auction, money, manifest, expired, retried, faults, moves>>

(* A seeded bug: the manifest is given up, and the auction left settling.  *)
GiveUpQuietly(w) ==
    /\ worker[w].pc = "givingup"
    /\ manifest' = [Copy(w) EXCEPT !.status = IF expired THEN "expired"
                                                         ELSE "escalated"]
    /\ Goto(w, "release")
    /\ UNCHANGED <<auction, money, lock, expired, retried, faults, moves>>

(* handleManifestExpiry and escalateOversizedManifest.                     *)
GiveUp(w) ==
    /\ worker[w].pc = "givingup"
    /\ auction' = IF auction = "settling" THEN "settlement_failed" ELSE auction
    /\ manifest' = [Copy(w) EXCEPT !.status = IF expired THEN "expired"
                                                         ELSE "escalated"]
    /\ Goto(w, "release")
    /\ UNCHANGED <<money, lock, expired, retried, faults, moves>>

(* A seeded bug: a deposit whose refund was initiated counts as refunded.  *)
VisitPendingAsDone(w) ==
    /\ worker[w].pc = "working"
    /\ worker[w].left > 0
    /\ \E d \in Workable(w) :
          \/ /\ deposit[d] \in {DoneStatus(d), "refund_pending"}
             /\ Mark(w, d, TRUE)
          \/ /\ deposit[d] = "held"
             /\ worker' = [worker EXCEPT
                   ![w].pc = IF d = Winner THEN "calling" ELSE "refunding",
                   ![w].item = d]
    /\ UNCHANGED <<auction, money, manifest, lock, expired, retried, faults, moves>>

(* The deposit is read, outside any transaction, and decides what to do.   *)
(* (A listed deposit is held, captured, refund_pending or refunded; the    *)
(* failure for any other status has no case here.)                         *)
Visit(w) ==
    /\ worker[w].pc = "working"
    /\ worker[w].left > 0
    /\ \E d \in Workable(w) :
          \/ /\ deposit[d] = DoneStatus(d)
             /\ Mark(w, d, TRUE)
          \/ /\ deposit[d] = ReadyStatus(d)
             /\ worker' = [worker EXCEPT ![w].pc = "calling", ![w].item = d]
          \/ /\ deposit[d] = "held" /\ d # Winner
             /\ worker' = [worker EXCEPT ![w].pc = "refunding", ![w].item = d]
    /\ UNCHANGED <<auction, money, manifest, lock, expired, retried, faults, moves>>

(* A seeded bug: the deposit is not read again when it is no longer held.  *)
InitiateRefundAnyway(w) ==
    LET d == ItemOf(w)
    IN  /\ worker[w].pc = "refunding"
        /\ deposit' = [deposit EXCEPT ![d] = "refund_pending"]
        /\ ledger' = [ledger EXCEPT ![d] = Append(@, "deposit_refund_initiated")]
        /\ refund' = [refund EXCEPT ![d] = "pending"]
        /\ Goto(w, "calling")
        /\ UNCHANGED <<auction, pos, manifest, lock, expired, retried, faults, moves>>

(* recordRefundInitiationInDb.  When the deposit is no longer held, it is  *)
(* read again: another worker has initiated, or finished, the refund.      *)
InitiateRefund(w) ==
    LET d == ItemOf(w)
    IN  /\ worker[w].pc = "refunding"
        /\ \/ /\ deposit[d] = "held"
              /\ deposit' = [deposit EXCEPT ![d] = "refund_pending"]
              /\ ledger' = [ledger EXCEPT ![d] = Append(@, "deposit_refund_initiated")]
              /\ refund' = [refund EXCEPT ![d] = "pending"]
              /\ Goto(w, "calling")
           \/ /\ deposit[d] = "refund_pending"
              /\ Goto(w, "calling")
              /\ UNCHANGED <<deposit, ledger, refund>>
           \/ /\ deposit[d] = "refunded"
              /\ Mark(w, d, TRUE)
              /\ UNCHANGED <<deposit, ledger, refund>>
        /\ UNCHANGED <<auction, pos, manifest, lock, expired, retried, faults, moves>>

(* The provider, through the adapter, a 5 s timeout and the circuit        *)
(* breaker.  It knows its payment reference and does a thing once.  "No"   *)
(* is a refusal, an open breaker or a lost reply, with the thing done or   *)
(* not; what is thrown rather than returned makes the deposit be read      *)
(* again, and another worker may have finished it.                         *)
CallPos(w) ==
    LET d    == ItemOf(w)
        done == pos \cup {<<d, ActionOf(d)>>}
    IN  /\ worker[w].pc = "calling"
        /\ \/ /\ pos' = done
              /\ Goto(w, "recording")
           \/ /\ pos' \in {pos, done}
              /\ Mark(w, d, FALSE)
           \/ /\ deposit[d] = DoneStatus(d)
              /\ pos' \in {pos, done}
              /\ Mark(w, d, TRUE)
        /\ UNCHANGED <<auction, deposit, ledger, refund, manifest, lock, expired,
                       retried, faults, moves>>

(* A seeded bug: the status is not checked again under the row lock.       *)
RecordUnchecked(w) ==
    LET d == ItemOf(w)
    IN  /\ worker[w].pc = "recording"
        /\ deposit' = [deposit EXCEPT ![d] = DoneStatus(d)]
        /\ ledger' = [ledger EXCEPT ![d] =
                         Append(@, IF d = Winner THEN "deposit_captured"
                                                 ELSE "deposit_refunded")]
        /\ refund' = [refund EXCEPT ![d] = IF d = Winner THEN @ ELSE "completed"]
        /\ Mark(w, d, TRUE)
        /\ UNCHANGED <<auction, pos, manifest, lock, expired, retried, faults, moves>>

(* recordCaptureInDb and recordRefundCompletionInDb: a deposit that is not *)
(* where it was is left alone, and the item is acknowledged all the same.  *)
Record(w) ==
    LET d == ItemOf(w)
    IN  /\ worker[w].pc = "recording"
        /\ \/ /\ deposit[d] = ReadyStatus(d)
              /\ deposit' = [deposit EXCEPT ![d] = DoneStatus(d)]
              /\ ledger' = [ledger EXCEPT ![d] =
                               Append(@, IF d = Winner THEN "deposit_captured"
                                                       ELSE "deposit_refunded")]
              /\ refund' = [refund EXCEPT ![d] = IF d = Winner THEN @ ELSE "completed"]
           \/ /\ deposit[d] # ReadyStatus(d)
              /\ UNCHANGED <<deposit, ledger, refund>>
        /\ Mark(w, d, TRUE)
        /\ UNCHANGED <<auction, pos, manifest, lock, expired, retried, faults, moves>>

(* The transaction fails, its retries included; the deposit is read again. *)
RecordFails(w) ==
    /\ faults < MaxFaults
    /\ worker[w].pc = "recording"
    /\ Mark(w, ItemOf(w), deposit[ItemOf(w)] = DoneStatus(ItemOf(w)))
    /\ faults' = faults + 1
    /\ UNCHANGED <<auction, money, manifest, lock, expired, retried, moves>>

(* updateManifestData: the row becomes the copy, whatever the row was.     *)
SaveItem(w) ==
    /\ worker[w].pc = "saving"
    /\ manifest' = Copy(w)
    /\ worker' = [worker EXCEPT ![w].pc = "working", ![w].left = @ - 1,
                               ![w].todo = @ \ {ItemOf(w)}, ![w].item = None]
    /\ UNCHANGED <<auction, money, lock, expired, retried, faults, moves>>

AllAcknowledged(m) == \A d \in DOMAIN m.items : m.items[d].status = "acknowledged"

OutOfRetries(m) ==
    \E d \in DOMAIN m.items :
        m.items[d].status = "failed" /\ m.items[d].retries >= MaxRetries

(* A seeded bug: items that have used up their retries count as settled.   *)
FinalizeExhausted(w) ==
    /\ worker[w].pc = "working"
    /\ worker[w].left = 0 \/ Workable(w) = {}
    /\ \/ /\ AllAcknowledged(Copy(w)) \/ OutOfRetries(Copy(w))
          /\ auction' = IF auction = "settling" THEN "settled" ELSE auction
          /\ manifest' = IF auction = "settling"
                         THEN [Copy(w) EXCEPT !.status = "completed"] ELSE manifest
       \/ /\ ~AllAcknowledged(Copy(w)) /\ ~OutOfRetries(Copy(w))
          /\ manifest' = Copy(w)
          /\ UNCHANGED auction
    /\ Goto(w, "release")
    /\ UNCHANGED <<money, lock, expired, retried, faults, moves>>

(* finalizeManifest: completeSettlement, escalateSettlement, or neither.   *)
Finalize(w) ==
    /\ worker[w].pc = "working"
    /\ worker[w].left = 0 \/ Workable(w) = {}
    /\ \/ /\ AllAcknowledged(Copy(w))
          /\ auction' = IF auction = "settling" THEN "settled" ELSE auction
          /\ manifest' = IF auction = "settling"
                         THEN [Copy(w) EXCEPT !.status = "completed"] ELSE manifest
       \/ /\ ~AllAcknowledged(Copy(w)) /\ OutOfRetries(Copy(w))
          /\ auction' = IF auction = "settling" THEN "settlement_failed" ELSE auction
          /\ manifest' = IF auction = "settling"
                         THEN [Copy(w) EXCEPT !.status = "escalated"] ELSE manifest
       \/ /\ ~AllAcknowledged(Copy(w)) /\ ~OutOfRetries(Copy(w))
          /\ manifest' = Copy(w)
          /\ UNCHANGED auction
    /\ Goto(w, "release")
    /\ UNCHANGED <<money, lock, expired, retried, faults, moves>>

Release(w) ==
    /\ worker[w].pc = "release"
    /\ lock' = IF lock = w THEN None ELSE lock
    /\ Rest(w)
    /\ UNCHANGED <<auction, money, manifest, expired, retried, faults, moves>>

-----------------------------------------------------------------------------
(* Failures and time.                                                      *)

(* A query, a transaction or a save throws: logged, the lock released.     *)
Abort(w) ==
    /\ faults < MaxFaults
    /\ worker[w].pc \in {"initiating", "givingup", "working", "refunding", "calling",
                         "recording", "saving"}
    /\ Goto(w, "release")
    /\ faults' = faults + 1
    /\ UNCHANGED <<auction, money, manifest, lock, expired, retried, moves>>

(* The replica dies and restarts, or Redis refuses to take or release the  *)
(* lock: the tick is over and a lock that was held stays.                  *)
Die(w) ==
    /\ faults < MaxFaults
    /\ worker[w].pc # "idle"
    /\ Rest(w)
    /\ faults' = faults + 1
    /\ UNCHANGED <<auction, money, manifest, lock, expired, retried, moves>>

ExpireLock ==
    /\ lock # None
    /\ lock' = None
    /\ UNCHANGED <<auction, money, manifest, worker, expired, retried, faults, moves>>

HoursPass ==
    /\ MayExpire /\ ~expired /\ manifest # None
    /\ expired' = TRUE
    /\ UNCHANGED <<auction, money, manifest, worker, lock, retried, faults, moves>>

-----------------------------------------------------------------------------
(* Administrators: AuctionService.updateStatus and the settlement retry.   *)

(* The status changes the trigger allows once the auction has ended; the   *)
(* service's own table is the same.                                        *)
StatusMoves ==
    {<<"ended", "settling">>, <<"settling", "settled">>,
     <<"settling", "settlement_failed">>, <<"settlement_failed", "settled">>}

MoveStatus ==
    /\ moves < MaxMoves
    /\ \E to \in {"settling", "settled", "settlement_failed"} :
          /\ <<auction, to>> \in StatusMoves
          /\ auction' = to
    /\ moves' = moves + 1
    /\ UNCHANGED <<money, manifest, worker, lock, expired, retried, faults>>

(* AdminSettlementController.retry.  The trigger decides whether the       *)
(* auction may go back to settling; its exception undoes the manifest too. *)
Retry ==
    LET failed == {d \in DOMAIN manifest.items : manifest.items[d].status = "failed"}
        allowed == <<"settlement_failed", "settling">> \in StatusMoves
    IN  /\ moves < MaxMoves
        /\ manifest # None
        /\ manifest.status = "escalated"
        /\ auction = "settlement_failed"
        /\ failed # {}
        /\ moves' = moves + 1
        /\ retried' = IF allowed THEN "accepted" ELSE "refused"
        /\ auction' = IF allowed THEN "settling" ELSE auction
        /\ manifest' = IF ~allowed THEN manifest
               ELSE [manifest EXCEPT !.status = "active",
                     !.items = [d \in DOMAIN manifest.items |->
                        IF d \notin failed THEN manifest.items[d]
                        ELSE [status |-> "pending",
                              retries |-> IF manifest.items[d].retries >= MaxRetries
                                          THEN 0 ELSE manifest.items[d].retries]]]
        /\ UNCHANGED <<money, worker, lock, expired, faults>>

-----------------------------------------------------------------------------
Init ==
    /\ auction = "ended"
    /\ deposit = [d \in Deposits |-> IF d \in Collected THEN "collected" ELSE "held"]
    /\ ledger = [d \in Deposits |-> <<>>]
    /\ refund = [d \in Deposits |-> None]
    /\ pos = {}
    /\ manifest = None
    /\ worker = [w \in Workers |-> IdleWorker]
    /\ lock = None
    /\ expired = FALSE
    /\ retried = None
    /\ faults = 0
    /\ moves = 0

WorkerStep(w) ==
    \/ FindEnded(w) \/ LockToInitiate(w) \/ Initiate(w)
    \/ Load(w) \/ LockToProcess(w) \/ GiveUp(w)
    \/ Visit(w) \/ InitiateRefund(w) \/ CallPos(w) \/ Record(w) \/ SaveItem(w)
    \/ Finalize(w) \/ Release(w)

Next ==
    \/ \E w \in Workers : WorkerStep(w) \/ RecordFails(w) \/ Abort(w) \/ Die(w)
    \/ ExpireLock \/ HoursPass
    \/ MoveStatus \/ Retry

(* A replica's 5 s interval keeps calling tick, every call of the provider *)
(* ends within its timeout, and a Redis key with PX expires.               *)
Fairness == (\A w \in Workers : WF_vars(WorkerStep(w))) /\ WF_vars(ExpireLock)

Spec == Init /\ [][Next]_vars /\ Fairness

-----------------------------------------------------------------------------
(* Properties.                                                             *)

(* Every variable keeps its type, in the database and in the copies.       *)
TypeOK ==
    /\ auction \in {"ended", "settling", "settled", "settlement_failed"}
    /\ deposit \in [Deposits -> DepositStatus]
    /\ ledger \in [Deposits -> Seq(LedgerEvent)]
    /\ refund \in [Deposits -> {None, "pending", "completed"}]
    /\ pos \subseteq Deposits \X {"capture", "refund"}
    /\ manifest \in Manifest(Held) \cup {None}
    /\ worker \in [Workers -> Replica]
    /\ lock \in Workers \cup {None}
    /\ expired \in BOOLEAN
    /\ retried \in {None, "accepted", "refused"}
    /\ faults \in 0 .. MaxFaults /\ moves \in 0 .. MaxMoves

(* The books: a deposit's ledger and refund record tell its status, every  *)
(* event once and in order; no status says more than the provider did; and *)
(* nothing was both captured and refunded.                                 *)
MoneyMatchesBooks ==
    \A d \in Deposits :
        /\ ledger[d] = LedgerOf(deposit[d])
        /\ refund[d] = RefundOf(deposit[d])
        /\ deposit[d] = "captured" => <<d, "capture">> \in pos
        /\ deposit[d] = "refunded" => <<d, "refund">> \in pos
        /\ ~(<<d, "capture">> \in pos /\ <<d, "refund">> \in pos)

(* An acknowledgement is never wrong, however old the copy it is saved     *)
(* from and whatever became of the transaction that should have recorded   *)
(* it: the deposit has reached its end.                                    *)
AcknowledgedIsDone ==
    manifest # None =>
        \A d \in DOMAIN manifest.items :
            manifest.items[d].status = "acknowledged" => deposit[d] = DoneStatus(d)

Decided(d) == deposit[d] = DoneStatus(d)

(* A settled auction has captured its winner's deposit and refunded every  *)
(* other deposit that was held when it ended, unless an administrator has  *)
(* moved its status by hand.                                               *)
SettledMeansPaid == auction = "settled" /\ moves = 0 => \A d \in Held : Decided(d)

(* No auction is stranded half settled.  Workers look for active manifests *)
(* and for nothing else, so while an auction is settling its manifest has  *)
(* to be active, whatever copy was saved over it and whoever gave it up,   *)
(* unless an administrator has moved the status by hand.                   *)
SettlingIsWatched ==
    auction = "settling" /\ moves = 0 => manifest # None /\ manifest.status = "active"

Escrow == INSTANCE DepositEscrow
    WITH Depositors <- Held,
         money <- [d \in Held |-> CASE deposit[d] = "captured" -> "taken"
                                    [] deposit[d] = "refunded" -> "returned"
                                    [] OTHER                   -> "held"],
         outcome <- CASE auction = "settled"           -> "settled"
                      [] auction = "settlement_failed" -> "failed"
                      [] OTHER                         -> "pending"

(* Manifests, retries, replicas, timeouts, expiry and lost locks together  *)
(* are one escrow, if no administrator moves the status by hand.           *)
ImplementsEscrow == Escrow!Spec

(* An ended auction is settled, or handed to a person, after finitely many *)
(* failures and with any number of replicas saving over each other, unless *)
(* an administrator has moved its status by hand.                          *)
EndedGetsSettled ==
    auction = "ended" ~> auction \in {"settled", "settlement_failed"} \/ moves > 0

(* docs/failure-mode-analysis.md:837: "Every deposit settled (captured or  *)
(* refunded)", in scenarios 1 and 4 to 6 without reservation.              *)
EveryDepositSettled ==
    auction = "settled" => \A d \in Deposits : deposit[d] \in {"captured", "refunded"}

(* docs/failure-mode-analysis.md:32: "Redis lock prevents duplicate        *)
(* processing. Pessimistic DB lock prevents duplicate transitions."  A     *)
(* manifest that is completed is not active again.                         *)
ManifestStaysCompleted ==
    [][manifest # None /\ manifest.status = "completed"
          => manifest'.status = "completed"]_vars

(* admin-settlement.controller.ts:214: "Transition auction:                *)
(* SETTLEMENT_FAILED -> SETTLING", the effect of an administrator's retry. *)
RetryIsAccepted == retried # "refused"
=============================================================================
