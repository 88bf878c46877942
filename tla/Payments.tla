------------------------------ MODULE Payments ------------------------------
(***************************************************************************)
(* Card and transfer payments of the monolith: PaymentService, the POS     *)
(* callback, the reconciliation worker, and the provider behind            *)
(* IPosGateway.                                                            *)
(*                                                                         *)
(* A payment is known by its idempotency key: the row, the ledger entry    *)
(* and the key are written in one transaction and the key is unique, so    *)
(* Payment stands for both.  A transaction that locks the payment row is   *)
(* one step, its provider call included when the lock is held over it; the *)
(* provider call of initiate() is made between two transactions and is a   *)
(* step of its own.  A reply that is lost, late (TimeoutPosGateway) or an   *)
(* adapter's caught network error leaves the provider in whatever state    *)
(* the call had brought it to.                                             *)
(*                                                                         *)
(* The provider does what its answers say (the iyzico and mock adapters).  *)
(* PayTR's capture and cancel adapters call nobody and are not modelled.   *)
(***************************************************************************)
EXTENDS Naturals, Sequences, FiniteSets, Functions

CONSTANTS
    NoOne,             \* no deposit, no payment in hand
    Payment,           \* idempotency keys and the payments made under them
    Transfer,          \* those whose paymentMethod is bank_transfer
    Seat,              \* a user's place in an auction: deposits' unique pair
    SeatOf,            \* the place each payment is for, NoOne when it is none
    Request,           \* calls of POST /payments
    Worker,            \* replicas that run ReconciliationWorker
    BatchSize,         \* the worker's BATCH_SIZE
    Finds,             \* statuses of payments that a status query can find
    MaxMishaps         \* bound: failures of ticks, queries and connections

ASSUME PaymentsAssumption ==
    /\ Transfer \subseteq Payment
    /\ SeatOf \in [Payment -> Seat \cup {NoOne}]
    /\ NoOne \notin Payment \cup Seat \cup Worker
    /\ BatchSize \in Nat \ {0}
    /\ Finds \subseteq {"pending", "awaiting_3ds"}
    /\ MaxMishaps \in Nat

VARIABLES
    row,               \* payments.payments.status, "none" before the row exists
    line,              \* payments by created_at and by three_ds_initiated_at
    booked,            \* payments with a 'provisioned' row in pos_transactions
    deposit,           \* payments.deposits: whose payment collected the place's
    pos,               \* the provider's record of every payment
    asked,             \* history: initiateProvision calls made per payment
    req,               \* where every POST /payments is
    rec,               \* where every reconciliation worker's tick is
    lock,              \* the worker whose connection holds the advisory lock
    mishaps            \* failures of ticks, queries and connections so far

vars == <<row, line, booked, deposit, pos, asked, req, rec, lock, mishaps>>
books == <<row, booked, deposit>>
ticks == <<rec, lock, mishaps>>

-----------------------------------------------------------------------------
Unfinished == {"pending", "awaiting_3ds"}

Status == Unfinished \cup {"none", "provisioned", "completed", "failed", "cancelled"}

PosState == {"none", "open", "held", "declined", "captured", "released"}

(* The provider has, or has had, the money.                                *)
Taken == {"held", "captured", "released"}

(* The status changes payments.enforce_payment_status_transition lets      *)
(* through; refunds start from "completed" and are in module Refunds.      *)
Transitions ==
    ({"pending"} \X {"awaiting_3ds", "provisioned", "failed"})
        \cup ({"awaiting_3ds"} \X {"provisioned", "failed"})
        \cup ({"provisioned"} \X {"completed", "cancelled"})

RequestAt == {"idle", "create", "call", "record", "served", "dead"}
Answer == {"none", "requires_3ds", "completed", "failed"}

PostRequest == [at : RequestAt, key : Payment \cup {NoOne}, got : Answer]
NewRequest  == [at |-> "idle", key |-> NoOne, got |-> "none"]

Verdict == {"none", "paid", "failed", "unfound", "unsettled"}

(* A batch holds copies of the rows as the tick's two finds saw them.      *)
Copy == [key : Payment, saw : Unfinished]

Tick     == [at : {"idle", "pending", "waiting", "batch", "told", "unlock"},
             batch : Seq(Copy), verdict : Verdict]
IdleTick == [at |-> "idle", batch |-> <<>>, verdict |-> "none"]

TypeOK ==
    /\ row \in [Payment -> Status]
    /\ line \in Seq(Payment)
    /\ booked \in SUBSET Payment
    /\ deposit \in [Seat -> Payment \cup {NoOne}]
    /\ pos \in [Payment -> PosState]
    /\ asked \in [Payment -> Nat]
    /\ req \in [Request -> PostRequest]
    /\ rec \in [Worker -> Tick]
    /\ \A w \in Worker : rec[w].at \in {"batch", "told"} => rec[w].batch # <<>>
    /\ lock \in Worker \cup {NoOne}
    /\ mishaps \in 0..MaxMishaps

Init ==
    /\ row = [p \in Payment |-> "none"]
    /\ line = <<>>
    /\ booked = {}
    /\ deposit = [s \in Seat |-> NoOne]
    /\ pos = [p \in Payment |-> "none"]
    /\ asked = [p \in Payment |-> 0]
    /\ req = [r \in Request |-> NewRequest]
    /\ rec = [w \in Worker |-> IdleTick]
    /\ lock = NoOne
    /\ mishaps = 0

-----------------------------------------------------------------------------
(* The row is locked and its status checked first; it is saved last.       *)
SetRow(p, status) == row' = [row EXCEPT ![p] = status]

(* A seeded bug: a place that has a payment is given to the next one.      *)
CollectAnew(p) ==
    deposit' = [s \in Seat |-> IF s = SeatOf[p] THEN p ELSE deposit[s]]

Collect(p) ==
    deposit' = [s \in Seat |->
                    IF s = SeatOf[p] /\ deposit[s] = NoOne THEN p ELSE deposit[s]]

SeatIsFree(p) == SeatOf[p] \in Seat => deposit[SeatOf[p]] = NoOne

(* A seeded bug: the failed insert does not take the payment back with it. *)
BookAnyway(p) ==
    /\ SetRow(p, "provisioned")
    /\ booked' = booked \cup {p}
    /\ Collect(p)

(* The success branch of recordPosResult and processCallback.  The insert  *)
(* of the deposit may meet deposits_user_auction_unique; the exception is  *)
(* caught, but the transaction is already aborted and its COMMIT rolls     *)
(* everything back: the payment stays as it was.                           *)
Book(p) ==
    IF SeatIsFree(p)
    THEN /\ SetRow(p, "provisioned")
         /\ booked' = booked \cup {p}
         /\ Collect(p)
    ELSE UNCHANGED books

Fail(p) == SetRow(p, "failed") /\ UNCHANGED <<booked, deposit>>

-----------------------------------------------------------------------------
(* initiate(): the fast path returns the payment that exists.              *)
Submit(r, p) ==
    /\ req[r].at = "idle"
    /\ req' = [req EXCEPT ![r] = [at  |-> IF row[p] = "none" THEN "create" ELSE "dead",
                                  key |-> p, got |-> "none"]]
    /\ UNCHANGED <<books, line, pos, asked, ticks>>

(* A seeded bug: the loser of the race goes on to the provider too.        *)
CreateAndCall(r) ==
    /\ req[r].at = "create"
    /\ row' = [row EXCEPT ![req[r].key] = IF @ = "none" THEN "pending" ELSE @]
    /\ line' = IF row[req[r].key] = "none" THEN Append(line, req[r].key) ELSE line
    /\ req' = [req EXCEPT ![r].at = "call"]
    /\ UNCHANGED <<booked, deposit, pos, asked, ticks>>

(* Phase 1: of two requests under one key, the second meets 23505 and      *)
(* returns the winner's payment without a provider call.                   *)
Create(r) ==
    LET p == req[r].key
    IN  /\ req[r].at = "create"
        /\ IF row[p] = "none"
           THEN /\ SetRow(p, "pending")
                /\ line' = Append(line, p)
                /\ req' = [req EXCEPT ![r].at = "call"]
           ELSE /\ UNCHANGED <<row, line>>
                /\ req' = [req EXCEPT ![r].at = "dead"]
        /\ UNCHANGED <<booked, deposit, pos, asked, ticks>>

(* initiateProvision opens a 3-D Secure session or holds the money at once *)
(* (mock); the caller may hear "failed" whatever the provider did.         *)
CallProvider(r) ==
    LET p == req[r].key
    IN  /\ req[r].at = "call"
        /\ \E done \in {"none", "open", "held"} :
            /\ pos' = [pos EXCEPT ![p] = IF done = "none" THEN @ ELSE done]
            /\ \E got \in {"failed", CASE done = "open" -> "requires_3ds"
                                       [] done = "held" -> "completed"
                                       [] OTHER -> "failed"} :
                req' = [req EXCEPT ![r].at = "record", ![r].got = got]
        /\ asked' = [asked EXCEPT ![p] = @ + 1]
        /\ UNCHANGED <<books, line, ticks>>

(* record3dsInitiated and recordPosResult act on a pending payment only.   *)
RecordAnswer(r) ==
    LET p == req[r].key
    IN  /\ req[r].at = "record"
        /\ IF row[p] # "pending" THEN UNCHANGED <<books, line>>
           ELSE CASE req[r].got = "requires_3ds" ->
                        /\ SetRow(p, "awaiting_3ds")
                        /\ line' = Append(line, p)
                        /\ UNCHANGED <<booked, deposit>>
                  [] req[r].got = "completed" -> Book(p) /\ line' = line
                  [] OTHER -> Fail(p) /\ line' = line
        /\ req' = [req EXCEPT ![r].at = "served"]
        /\ UNCHANGED <<pos, asked, ticks>>

(* The process dies, or a transaction fails: nothing undoes the rest.      *)
RequestDies(r) ==
    /\ req[r].at \in {"create", "call", "record"}
    /\ req' = [req EXCEPT ![r].at = "dead"]
    /\ UNCHANGED <<books, line, pos, asked, ticks>>

(* The buyer, who has been sent the form, passes or fails 3-D Secure.      *)
FormShown(p) ==
    \E r \in Request : req[r] = [at |-> "served", key |-> p, got |-> "requires_3ds"]

BuyerAuthenticates(p) ==
    /\ pos[p] = "open"
    /\ FormShown(p)
    /\ \E result \in {"held", "declined"} : pos' = [pos EXCEPT ![p] = result]
    /\ UNCHANGED <<books, line, asked, req, ticks>>

(* processCallback.  The provider posts after authentication, late, again  *)
(* or never.  A refused callback, or one for a payment that is not         *)
(* awaiting 3-D Secure, changes nothing.  completeProvision may report a    *)
(* failure that is only its own network error.                             *)
Callback(p) ==
    /\ pos[p] \in {"held", "declined"}
    /\ row[p] = "awaiting_3ds"
    /\ (pos[p] = "held" /\ Book(p)) \/ Fail(p)
    /\ UNCHANGED <<line, pos, asked, req, ticks>>

-----------------------------------------------------------------------------
(* verifyBankTransfer: two saves, pending to provisioned to completed, and *)
(* the deposit found or inserted, in one transaction.  A deposit that was  *)
(* found is set to 'collected', which it is here: settlement moves it on.  *)
VerifyTransfer(p) ==
    /\ p \in Transfer
    /\ row[p] = "pending"
    /\ SetRow(p, "completed")
    /\ Collect(p)
    /\ UNCHANGED <<line, booked, pos, asked, req, ticks>>

(* The lock is held over the provider's call; when its reply is lost the   *)
(* transaction rolls back and the provider's deed stays.                   *)
UnderLock(p, deed, status) ==
    /\ p \in booked
    /\ pos' = [pos EXCEPT ![p] = deed]
    /\ SetRow(p, status) \/ row' = row
    /\ UNCHANGED <<line, booked, deposit, asked, req, ticks>>

Capture(p) ==
    /\ row[p] = "provisioned"
    /\ pos[p] \in {"held", "captured"}
    /\ UnderLock(p, "captured", "completed")

(* A seeded bug: the status is not looked at again under the lock.         *)
CancelUnchecked(p) ==
    /\ pos[p] \in Taken
    /\ UnderLock(p, "released", "cancelled")

Cancel(p) ==
    /\ row[p] = "provisioned"
    /\ pos[p] \in Taken
    /\ UnderLock(p, "released", "cancelled")

-----------------------------------------------------------------------------
(* A payment is stale after 30 (pending) or 15 (awaiting_3ds) minutes: no  *)
(* request, of at most some 7 s, is still at work on a pending one.        *)
Stale(p) ==
    \/ row[p] = "awaiting_3ds"
    \/ /\ row[p] = "pending"
       /\ ~ \E r \in Request : req[r].key = p /\ req[r].at \in {"call", "record"}

(* q came to its status before p came to its own.                          *)
Before(q, p) ==
    \E i \in DOMAIN line :
        line[i] = p /\ \A j \in DOMAIN line : line[j] = q => j < i

Batches(pool) == UNION {[1..n -> pool] : n \in 0..BatchSize}

(* A seeded bug: the newest come first.                                    *)
Newest(pool) ==
    {some \in Batches(pool) :
        /\ \A i, j \in DOMAIN some : i < j => Before(some[j], some[i])
        /\ \A p \in pool \ Range(some) :
              Len(some) = BatchSize /\ \A i \in DOMAIN some : Before(p, some[i])}

(* The oldest of a pool, a full batch of them or all there are.            *)
Oldest(pool) ==
    {some \in Batches(pool) :
        /\ \A i, j \in DOMAIN some : i < j => Before(some[i], some[j])
        /\ \A p \in pool \ Range(some) :
              Len(some) = BatchSize /\ \A i \in DOMAIN some : Before(some[i], p)}

InHand(w) == Head(rec[w].batch)

(* pg_try_advisory_lock succeeds on a free lock, and again on the very     *)
(* connection that holds it; elsewhere the tick ends at once.              *)
TryLock(w) ==
    /\ rec[w].at = "idle"
    /\ lock \in {NoOne, w}
    /\ lock' = w
    /\ rec' = [rec EXCEPT ![w].at = "pending"]
    /\ UNCHANGED <<books, line, pos, asked, req, mishaps>>

(* Adds a batch of the stale payments with a status, read without a lock.  *)
Find(w, status, then) ==
    \E some \in Oldest({p \in Payment : row[p] = status /\ Stale(p)}) :
        LET batch == rec[w].batch \o [i \in DOMAIN some |-> [key |-> some[i], saw |-> status]]
        IN  /\ rec' = [rec EXCEPT ![w].batch = batch,
                                  ![w].at = IF then = "batch" /\ batch = <<>> THEN "unlock"
                                                                             ELSE then]
            /\ UNCHANGED <<books, line, pos, asked, req, lock, mishaps>>

FindPending(w) == rec[w].at = "pending" /\ Find(w, "pending", "waiting")
FindWaiting(w) == rec[w].at = "waiting" /\ Find(w, "awaiting_3ds", "batch")

(* What queryTransactionStatus may answer.  A pending payment is asked for *)
(* by its own id and one awaiting 3-D Secure by the provider's token: the  *)
(* adapter finds by both (mock), by neither (PayTR) or by what it sends    *)
(* the provider as paymentId (iyzico).  A session still open is not found, *)
(* or found with a status that is neither paid nor failed; one declined is *)
(* found failed, or not at all (mock).                                     *)
Found(c) ==
    IF c.saw \notin Finds THEN {"unfound"}
    ELSE CASE pos[c.key] \in Taken    -> {"paid"}
           [] pos[c.key] = "declined" -> {"failed", "unfound"}
           [] pos[c.key] = "open"     -> {"unfound", "unsettled"}
           [] pos[c.key] = "none"     -> {"unfound"}

Told(w, verdict) ==
    /\ rec' = [rec EXCEPT ![w].at = "told", ![w].verdict = verdict]
    /\ UNCHANGED <<books, line, pos, asked, req, lock>>

AskStatus(w) ==
    /\ rec[w].at = "batch"
    /\ \E verdict \in Found(InHand(w)) : Told(w, verdict)
    /\ UNCHANGED mishaps

(* The payment in hand is done with, and the next one is taken up.         *)
Proceed(w) ==
    rec' = [rec EXCEPT ![w] = [at |-> IF Len(rec[w].batch) = 1 THEN "unlock" ELSE "batch",
                               batch |-> Tail(rec[w].batch), verdict |-> "none"]]

(* A seeded bug: the verdict is applied to the copy that was read.         *)
ResolveCopy(w) ==
    LET p == InHand(w).key
    IN  /\ rec[w].at = "told"
        /\ CASE rec[w].verdict = "paid" -> SetRow(p, "provisioned")
             [] rec[w].verdict = "failed" -> SetRow(p, "failed")
             [] rec[w].verdict = "unfound" /\ InHand(w).saw = "awaiting_3ds" -> SetRow(p, "failed")
             [] OTHER -> row' = row
        /\ Proceed(w)
        /\ UNCHANGED <<line, booked, deposit, pos, asked, req, lock, mishaps>>

(* resolveAsPaid and expirePayment look at the status again under the      *)
(* lock; what the provider does not find is expired only if it was read as *)
(* awaiting_3ds, and a pending one stays as it is.  Neither writes a       *)
(* pos_transactions row nor a deposit.                                     *)
Resolve(w) ==
    LET p == InHand(w).key
    IN  /\ rec[w].at = "told"
        /\ IF row[p] \notin Unfinished THEN row' = row
           ELSE CASE rec[w].verdict = "paid" -> SetRow(p, "provisioned")
                  [] rec[w].verdict = "failed" -> SetRow(p, "failed")
                  [] rec[w].verdict = "unfound" /\ InHand(w).saw = "awaiting_3ds" ->
                        SetRow(p, "failed")
                  [] OTHER -> row' = row
        /\ Proceed(w)
        /\ UNCHANGED <<line, booked, deposit, pos, asked, req, lock, mishaps>>

(* The finally block.  The unlock may run on a connection that does not    *)
(* hold the lock, or fail: the lock then stays with its connection.        *)
Unlock(w) ==
    /\ rec[w].at = "unlock"
    /\ lock' \in (IF lock = w THEN {NoOne, w} ELSE {lock})
    /\ rec' = [rec EXCEPT ![w] = IdleTick]
    /\ UNCHANGED <<books, line, pos, asked, req, mishaps>>

(* The pool closes an idle connection, and with it a lock left behind.     *)
CloseIdle(w) ==
    /\ rec[w].at = "idle"
    /\ lock = w
    /\ lock' = NoOne
    /\ UNCHANGED <<books, line, pos, asked, req, rec, mishaps>>

-----------------------------------------------------------------------------
Mishap ==
    /\ mishaps < MaxMishaps
    /\ mishaps' = mishaps + 1

(* An adapter's network error is answered as "not found".                  *)
AskStatusInVain(w) ==
    /\ Mishap
    /\ rec[w].at = "batch"
    /\ Told(w, "unfound")

(* One payment's query times out or its transaction fails: it is counted,  *)
(* and the next one is taken up.                                           *)
PaymentFails(w) ==
    /\ Mishap
    /\ rec[w].at \in {"batch", "told"}
    /\ Proceed(w)
    /\ UNCHANGED <<books, line, pos, asked, req, lock>>

(* A find fails, and the tick with it; the finally block remains.          *)
FindFails(w) ==
    /\ Mishap
    /\ rec[w].at \in {"pending", "waiting"}
    /\ rec' = [rec EXCEPT ![w] = [IdleTick EXCEPT !.at = "unlock"]]
    /\ UNCHANGED <<books, line, pos, asked, req, lock>>

(* The connection with the lock is closed during the tick.                 *)
LoseLock(w) ==
    /\ Mishap
    /\ rec[w].at # "idle"
    /\ lock = w
    /\ lock' = NoOne
    /\ UNCHANGED <<books, line, pos, asked, req, rec>>

(* The process dies, its connections close, and it is started again.       *)
WorkerDies(w) ==
    /\ Mishap
    /\ lock' = IF lock = w THEN NoOne ELSE lock
    /\ rec' = [rec EXCEPT ![w] = IdleTick]
    /\ UNCHANGED <<books, line, pos, asked, req>>

-----------------------------------------------------------------------------
RequestStep(r) ==
    \/ \E p \in Payment : Submit(r, p)
    \/ Create(r) \/ CallProvider(r) \/ RecordAnswer(r) \/ RequestDies(r)

PaymentStep(p) ==
    BuyerAuthenticates(p) \/ Callback(p) \/ VerifyTransfer(p) \/ Capture(p) \/ Cancel(p)

TickStep(w) ==
    FindPending(w) \/ FindWaiting(w) \/ AskStatus(w) \/ Resolve(w) \/ Unlock(w)

WorkerStep(w) ==
    \/ TryLock(w) \/ TickStep(w) \/ CloseIdle(w)
    \/ AskStatusInVain(w) \/ PaymentFails(w) \/ FindFails(w) \/ LoseLock(w) \/ WorkerDies(w)

Next ==
    \/ \E r \in Request : RequestStep(r)
    \/ \E p \in Payment : PaymentStep(p)
    \/ \E w \in Worker : WorkerStep(w)

Spec == Init /\ [][Next]_vars

(* A tick that has begun goes on, and the interval timer fires again       *)
(* (sooner or later on the connection a leaked lock is on, unless the pool *)
(* closes it first).                                                       *)
FairSpec ==
    /\ Spec
    /\ \A w \in Worker : WF_vars(TryLock(w)) /\ WF_vars(TickStep(w))

-----------------------------------------------------------------------------
(* However requests under one key race, are retried or die, the provider   *)
(* is asked for the money at most once (the claim of the comments in       *)
(* initiate()).                                                            *)
AskedAtMostOnce == \A p \in Payment : asked[p] <= 1

(* What the books say of a payment is what the provider has done, lost     *)
(* replies and stale verdicts notwithstanding: money counted as completed  *)
(* was captured or verified by an administrator, money counted as          *)
(* cancelled was released, and a provision is one the provider granted.    *)
BooksMatchProvider ==
    \A p \in Payment :
        /\ row[p] = "completed" => pos[p] = "captured" \/ p \in Transfer \ booked
        /\ row[p] = "cancelled" => pos[p] = "released"
        /\ row[p] = "provisioned" => pos[p] \in Taken

(* A place in an auction is open to a user only against money that was     *)
(* taken for that place, and a payment whose provision was recorded with   *)
(* its pos_transactions row always has the place: of two payments for one  *)
(* place the second is never half recorded.                                *)
SeatsMatchPayments ==
    /\ \A s \in Seat :
         LET p == deposit[s]
         IN  p # NoOne =>
                /\ SeatOf[p] = s
                /\ pos[p] \in Taken \/ (p \in Transfer /\ row[p] = "completed")
    /\ \A p \in booked : SeatOf[p] \in Seat => deposit[SeatOf[p]] = p

(* No handler asks the database for a status change its trigger refuses:   *)
(* every one looks again under the lock, however old what it acts on is.   *)
TriggerNeverFires ==
    [][\A p \in Payment :
          \/ row'[p] = row[p]
          \/ row[p] = "none" /\ row'[p] = "pending"
          \/ <<row[p], row'[p]>> \in Transitions
          \/ \E s \in Status : <<row[p], s>> \in Transitions /\ <<s, row'[p]>> \in Transitions
      ]_row

(* The buyer's money, and what the books say of it, as a buyer sees them.  *)
MoneyOf(p) ==
    CASE pos[p] \in {"none", "open", "declined"} -> "buyers"
      [] pos[p] = "held"     -> "held"
      [] pos[p] = "captured" -> "ours"
      [] pos[p] = "released" -> "returned"

AccountOf(p) ==
    CASE row[p] \in {"none", "pending", "awaiting_3ds"} -> "open"
      [] row[p] = "provisioned" -> "reserved"
      [] row[p] = "completed"   -> "paid"
      [] row[p] = "cancelled"   -> "given_up"
      [] row[p] = "failed"      -> "closed"

Places == INSTANCE PaidPlaces
             WITH money <- [p \in Payment |-> MoneyOf(p)],
                  account <- [p \in Payment |-> AccountOf(p)],
                  place <- deposit

(* Requests, callbacks, administrators and workers, with all their lost    *)
(* replies, stale verdicts and deaths, do to one payment at a time what    *)
(* PaidPlaces allows: no capture or release but of a reserved payment, and *)
(* a place that was given never changes hands.                             *)
ImplementsPaidPlaces == Places!Spec

(* A payment the worker can do something about: it is among the BatchSize  *)
(* oldest with its status, and either it awaits 3-D Secure and its session *)
(* is not found open, or nobody is working on it, the provider holds its   *)
(* money and is able to find it.                                           *)
InBatch(p) == Cardinality({q \in Payment : row[q] = row[p] /\ Before(q, p)}) < BatchSize

Stuck(p) ==
    /\ InBatch(p)
    /\ \/ row[p] = "awaiting_3ds" /\ (pos[p] = "open" => "awaiting_3ds" \notin Finds)
       \/ row[p] = "pending" /\ Stale(p) /\ pos[p] = "held" /\ "pending" \in Finds

(* Such a payment is resolved, although the worker's lock leaks, its copy  *)
(* is old, queries time out and workers die.                               *)
StuckGetsResolved == \A p \in Payment : Stuck(p) ~> row[p] \notin Unfinished

(* Not checked by a run, as it does not hold: rows the provider does not   *)
(* find stay pending and keep their place among the oldest, and once there *)
(* are BatchSize of them no newer one is ever looked at.                   *)
HeldMoneyIsFound ==
    \A p \in Payment :
        (row[p] = "pending" /\ Stale(p) /\ pos[p] = "held" /\ "pending" \in Finds)
            ~> row[p] \notin Unfinished
=============================================================================
