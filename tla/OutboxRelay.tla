---------------------------- MODULE OutboxRelay -----------------------------
(***************************************************************************)
(* OutboxRelayWorker: the events of one auction leave auctions.event_outbox*)
(* for the viewers (WebSocketEventConsumer) and for the monolith's         *)
(* notification queue (NotificationEventConsumer).                         *)
(*                                                                         *)
(* A relay polls under one session-level advisory lock, but every query    *)
(* takes its own connection of the pool: the lock may outlive the tick     *)
(* that took it, and may be lost in the middle of one.  A process may die  *)
(* at any step and a query may fail.  The monolith may refuse an event, or *)
(* accept one whose answer is not heard within the five seconds.           *)
(***************************************************************************)
EXTENDS Naturals, Sequences, FiniteSets, Functions

CONSTANTS
    NoRelay,           \* nobody holds the advisory lock
    Relay,             \* processes of the auction service that run workers
    Kinds,             \* the event types of the outbox, in sequence order
    MaxAttempts,       \* event_outbox.max_attempts
    BatchSize,         \* OUTBOX_BATCH_SIZE
    MaxMishaps,        \* bound: crashes, failed queries and lost locks
    Clustered          \* CLUSTER_WORKERS > 1: a crashed worker is forked anew

(* The event types.  An AUCTION_ENDED whose payload has no winner_id, of an *)
(* auction nobody bid on, is told apart as AUCTION_ENDED_UNSOLD.           *)
Types == {"BID_ACCEPTED", "AUCTION_STARTED", "AUCTION_ENDING", "AUCTION_ENDED",
          "AUCTION_ENDED_UNSOLD", "SNIPER_EXTENSION"}

ASSUME RelayAssumption ==
    /\ NoRelay \notin Relay
    /\ Kinds \in Seq(Types)
    /\ MaxAttempts \in Nat \ {0}
    /\ BatchSize \in Nat \ {0}
    /\ MaxMishaps \in Nat
    /\ Clustered \in BOOLEAN

VARIABLES
    outbox,            \* event_outbox: status and attempts of every event
    stale,             \* events processing for more than thirty seconds
    lock,              \* the relay whose connection holds the advisory lock
    relay,             \* where every relay's tick is
    shown,             \* history: the events viewers saw, in the order first seen
    marks,             \* history: deliveries started of every event
    told,              \* whom the monolith accepted each event's posts for
    mishaps            \* crashes, failed queries and lost locks so far

relayVars == <<outbox, stale, lock, relay, shown, marks, told, mishaps>>

-----------------------------------------------------------------------------
Event == DOMAIN Kinds

OutboxStatus == {"pending", "processing", "processed", "dead_letter"}

(* Whom an event's notifications are addressed to, in the order they are   *)
(* posted.  "everyone" is a post without a userId, for the participants    *)
(* (of AUCTION_ENDED, the losers).  Without a winner nobody is addressed.  *)
User == {"bidder", "winner"}

Addressee == User \cup {"everyone"}

Posts(e) ==
    CASE Kinds[e] = "BID_ACCEPTED"    -> <<"bidder">>
      [] Kinds[e] = "AUCTION_ENDED"   -> <<"winner", "everyone">>
      [] Kinds[e] \in {"AUCTION_ENDED_UNSOLD", "AUCTION_ENDING"} -> <<>>
      [] OTHER                        -> <<"everyone">>

Broadcast(e) == Kinds[e] # "AUCTION_STARTED"

(* A batch holds copies of the rows as the tick's SELECT saw them.         *)
Copy == [event : Event, attempts : Nat]

Tick == [at : {"idle", "reclaim", "fetch", "batch", "dispatch", "post", "delivered",
               "failed", "unlock", "off"},
         batch : Seq(Copy), posted : Nat]

NewTick == [at |-> "idle", batch |-> <<>>, posted |-> 0]

RelayTypeOK ==
    /\ outbox \in [Event -> [status : OutboxStatus, attempts : Nat]]
    /\ stale \subseteq Event
    /\ lock \in Relay \cup {NoRelay}
    /\ relay \in [Relay -> Tick]
    /\ \A r \in Relay :
          /\ relay[r].at \in {"batch", "dispatch", "post", "delivered", "failed"}
                => relay[r].batch # <<>>
          /\ relay[r].at = "post" => relay[r].posted < Len(Posts(relay[r].batch[1].event))
    /\ shown \in Seq(Event)
    /\ marks \in [Event -> Nat]
    /\ told \in [Event -> SUBSET Addressee]
    /\ mishaps \in 0..MaxMishaps

RelayInit ==
    /\ outbox = [e \in Event |-> [status |-> "pending", attempts |-> 0]]
    /\ stale = {}
    /\ lock = NoRelay
    /\ relay = [r \in Relay |-> NewTick]
    /\ shown = <<>>
    /\ marks = [e \in Event |-> 0]
    /\ told = [e \in Event |-> {}]
    /\ mishaps = 0

-----------------------------------------------------------------------------
At(r, place) == relay[r].at = place
Goto(r, place) == relay' = [relay EXCEPT ![r].at = place]
InHand(r) == Head(relay[r].batch)

(* A seeded bug: the lock that was not granted is not missed.              *)
TryLockAnyway(r) ==
    /\ At(r, "idle")
    /\ lock' = IF lock = NoRelay THEN r ELSE lock
    /\ Goto(r, "reclaim")
    /\ UNCHANGED <<outbox, stale, shown, marks, told, mishaps>>

(* pg_try_advisory_lock succeeds on a free lock, and again on the very     *)
(* connection that holds it; elsewhere the tick ends at once.              *)
TryLock(r) ==
    /\ At(r, "idle")
    /\ lock \in {NoRelay, r}
    /\ lock' = r
    /\ Goto(r, "reclaim")
    /\ UNCHANGED <<outbox, stale, shown, marks, told, mishaps>>

(* A seeded bug: what a dead relay left behind is not looked for.          *)
ReclaimNothing(r) ==
    /\ At(r, "reclaim")
    /\ Goto(r, "fetch")
    /\ UNCHANGED <<outbox, stale, lock, shown, marks, told, mishaps>>

(* reclaimStaleProcessing                                                  *)
Reclaim(r) ==
    /\ At(r, "reclaim")
    /\ outbox' = [e \in Event |-> IF e \in stale /\ outbox[e].status = "processing"
                                  THEN [outbox[e] EXCEPT !.status = "pending"]
                                  ELSE outbox[e]]
    /\ stale' = {}
    /\ Goto(r, "fetch")
    /\ UNCHANGED <<lock, shown, marks, told, mishaps>>

(* A seeded bug: whatever is not processed is taken up.                    *)
NotProcessed == {e \in Event : outbox[e].status # "processed"}

Pending == {e \in Event : outbox[e].status = "pending"}

Batch == UNION {[1..n -> Pending] : n \in 0..BatchSize}

(* A seeded bug: the newest come first.                                    *)
NewestFirst ==
    {some \in Batch :
        /\ \A i, j \in DOMAIN some : i < j => some[i] > some[j]
        /\ \A e \in Pending \ Range(some) :
              Len(some) = BatchSize /\ \A i \in DOMAIN some : some[i] > e}

(* The pending events by sequence, a full batch of them or all there are.  *)
OldestFirst ==
    {some \in Batch :
        /\ \A i, j \in DOMAIN some : i < j => some[i] < some[j]
        /\ \A e \in Pending \ Range(some) :
              Len(some) = BatchSize /\ \A i \in DOMAIN some : some[i] < e}

Fetch(r) ==
    \E some \in OldestFirst :
        /\ At(r, "fetch")
        /\ relay' = [relay EXCEPT ![r].at = IF some = <<>> THEN "unlock" ELSE "batch",
                                  ![r].batch = [i \in DOMAIN some |->
                                      [event |-> some[i], attempts |-> outbox[some[i]].attempts]]]
        /\ UNCHANGED <<outbox, stale, lock, shown, marks, told, mishaps>>

(* A seeded bug: the attempt is counted when the row is taken up and again *)
(* when it is written.                                                     *)
MarkTwice(r) ==
    LET c == InHand(r)
    IN  /\ At(r, "batch")
        /\ relay[r].batch # <<>>
        /\ outbox' = [outbox EXCEPT ![c.event] = [status |-> "processing",
                                                  attempts |-> c.attempts + 2]]
        /\ stale' = stale \ {c.event}
        /\ marks' = [marks EXCEPT ![c.event] = @ + 1]
        /\ relay' = [relay EXCEPT ![r].at = "dispatch", ![r].batch[1].attempts = c.attempts + 2,
                                  ![r].posted = 0]
        /\ UNCHANGED <<lock, shown, told, mishaps>>

(* processEvent: the row is marked by its id alone, whatever it has become *)
(* since the SELECT, and with the attempts the copy carries.               *)
Mark(r) ==
    LET c == InHand(r)
    IN  /\ At(r, "batch")
        /\ relay[r].batch # <<>>
        /\ outbox' = [outbox EXCEPT ![c.event] = [status |-> "processing",
                                                  attempts |-> c.attempts + 1]]
        /\ stale' = stale \ {c.event}
        /\ marks' = [marks EXCEPT ![c.event] = @ + 1]
        /\ relay' = [relay EXCEPT ![r].at = "dispatch", ![r].batch[1].attempts = c.attempts + 1,
                                  ![r].posted = 0]
        /\ UNCHANGED <<lock, shown, told, mishaps>>

(* The websocket consumer comes first in the registry, and does not fail.  *)
Show(r) ==
    /\ At(r, "dispatch")
    /\ shown' = IF Broadcast(InHand(r).event) /\ InHand(r).event \notin Range(shown)
                THEN Append(shown, InHand(r).event) ELSE shown
    /\ Goto(r, IF Posts(InHand(r).event) = <<>> THEN "delivered" ELSE "post")
    /\ UNCHANGED <<outbox, stale, lock, marks, told, mishaps>>

(* POST /notifications/events accepts a post for anyone or for everyone.   *)
Accept(e, u) == told' = [told EXCEPT ![e] = @ \cup {u}]

(* Who has a notification queued: handleEvent drops a post without a user, *)
(* though the answer to it is the same.                                    *)
Notified(e) == told[e] \cap User

(* A seeded bug: a failed POST is logged and not thrown.                   *)
PostAndForget(r) ==
    LET e == InHand(r).event
        n == relay[r].posted + 1
    IN  /\ At(r, "post")
        /\ \/ /\ Accept(e, Posts(e)[n])
              /\ relay' = [relay EXCEPT ![r].posted = n,
                              ![r].at = IF n = Len(Posts(e)) THEN "delivered" ELSE "post"]
           \/ /\ Goto(r, "delivered")
              /\ UNCHANGED told
        /\ UNCHANGED <<outbox, stale, lock, shown, marks, mishaps>>

(* sendNotificationEvent: accepted and heard, accepted and not heard, or   *)
(* refused; the posts after a failed one are not made.                     *)
Post(r) ==
    LET e == InHand(r).event
        n == relay[r].posted + 1
    IN  /\ At(r, "post")
        /\ \/ /\ Accept(e, Posts(e)[n])
              /\ relay' = [relay EXCEPT ![r].posted = n,
                              ![r].at = IF n = Len(Posts(e)) THEN "delivered" ELSE "post"]
           \/ /\ Accept(e, Posts(e)[n])
              /\ Goto(r, "failed")
           \/ /\ Goto(r, "failed")
              /\ UNCHANGED told
        /\ UNCHANGED <<outbox, stale, lock, shown, marks, mishaps>>

(* The event in hand gets its new status and leaves the batch.             *)
Settle(r, status) ==
    /\ outbox' = [outbox EXCEPT ![InHand(r).event].status = status]
    /\ relay' = [relay EXCEPT ![r] = [at |-> IF Len(relay[r].batch) = 1 THEN "unlock" ELSE "batch",
                                      batch |-> Tail(relay[r].batch), posted |-> 0]]
    /\ UNCHANGED <<stale, lock, shown, marks, told, mishaps>>

MarkProcessed(r) == At(r, "delivered") /\ Settle(r, "processed")

MarkFailed(r) ==
    /\ At(r, "failed")
    /\ Settle(r, IF InHand(r).attempts >= MaxAttempts THEN "dead_letter" ELSE "pending")

(* The finally block.  The unlock may run on a connection that does not    *)
(* hold the lock, or fail: the lock then stays with its connection.        *)
Unlock(r) ==
    /\ At(r, "unlock")
    /\ lock' \in (IF lock = r THEN {NoRelay, r} ELSE {lock})
    /\ relay' = [relay EXCEPT ![r] = NewTick]
    /\ UNCHANGED <<outbox, stale, shown, marks, told, mishaps>>

(* The pool closes an idle connection, and with it a lock left behind.     *)
CloseIdle(r) ==
    /\ At(r, "idle")
    /\ lock = r
    /\ lock' = NoRelay
    /\ UNCHANGED <<outbox, stale, relay, shown, marks, told, mishaps>>

(* An event has been processing for thirty seconds: its relay died, or is  *)
(* slow.                                                                   *)
GrowStale(e) ==
    /\ outbox[e].status = "processing"
    /\ e \notin stale
    /\ stale' = stale \cup {e}
    /\ UNCHANGED <<outbox, lock, relay, shown, marks, told, mishaps>>

-----------------------------------------------------------------------------
Mishap ==
    /\ mishaps < MaxMishaps
    /\ mishaps' = mishaps + 1

(* The connection with the lock is closed during the tick.                 *)
LoseLock(r) ==
    /\ Mishap
    /\ ~At(r, "idle")
    /\ lock = r
    /\ lock' = NoRelay
    /\ UNCHANGED <<outbox, stale, relay, shown, marks, told>>

(* A query fails.  The update to processed is made inside the try: its     *)
(* failure counts as the delivery's.  Any other ends the tick.             *)
QueryFails(r) ==
    /\ Mishap
    /\ \/ /\ At(r, "delivered")
          /\ Goto(r, "failed")
       \/ /\ relay[r].at \in {"reclaim", "fetch", "batch", "failed"}
          /\ relay' = [relay EXCEPT ![r] = [NewTick EXCEPT !.at = "unlock"]]
    /\ UNCHANGED <<outbox, stale, lock, shown, marks, told>>

(* The process dies and its connections close.  It is started again, but   *)
(* the cluster's primary forks it under a new worker id, and a worker with *)
(* an id above 1 runs with DISABLE_WORKERS.                                *)
Crash(r) ==
    /\ Mishap
    /\ ~At(r, "off")
    /\ lock' = IF lock = r THEN NoRelay ELSE lock
    /\ relay' = [relay EXCEPT ![r] = IF Clustered THEN [NewTick EXCEPT !.at = "off"]
                                                  ELSE NewTick]
    /\ UNCHANGED <<outbox, stale, shown, marks, told>>

-----------------------------------------------------------------------------
Work(r) ==
    \/ Reclaim(r) \/ Fetch(r) \/ Mark(r) \/ Show(r) \/ Post(r)
    \/ MarkProcessed(r) \/ MarkFailed(r) \/ Unlock(r)

RelayNext ==
    \/ \E r \in Relay : TryLock(r) \/ Work(r) \/ CloseIdle(r)
                        \/ LoseLock(r) \/ QueryFails(r) \/ Crash(r)
    \/ \E e \in Event : GrowStale(e)

RelaySpec == RelayInit /\ [][RelayNext]_relayVars

(* A tick that has begun goes on, the interval timer fires again (sooner   *)
(* or later on the connection a leaked lock is on, unless the pool closes  *)
(* it first), and thirty seconds pass.                                     *)
RelayFairness ==
    /\ \A r \in Relay : WF_relayVars(Work(r)) /\ WF_relayVars(TryLock(r))
    /\ \A e \in Event : WF_relayVars(GrowStale(e))

FairRelaySpec == RelaySpec /\ RelayFairness

-----------------------------------------------------------------------------
Delivered(e) ==
    /\ Broadcast(e) => e \in Range(shown)
    /\ Range(Posts(e)) \subseteq told[e]

(* At least once: an event marked processed has been shown to the viewers  *)
(* (unless it is of the one type they are not shown), the monolith has     *)
(* accepted every post its consumer makes of it, and so each user a post   *)
(* names has a notification queued (Notified), whatever crashed, timed out *)
(* or was delivered twice; one given up was shown at least.  A post for    *)
(* everyone queues nothing: see ParticipantsAreTold.                       *)
AtLeastOnce ==
    \A e \in Event :
        /\ outbox[e].status = "processed" => Delivered(e)
        /\ outbox[e].status = "dead_letter" /\ Broadcast(e) => e \in Range(shown)

(* What the consumer's comments say: a post for everyone reaches the       *)
(* participants.  It does not, so nobody but the winner hears of the end   *)
(* and nobody of an extension.  TLC finds it violated; no run checks it.   *)
ParticipantsAreTold ==
    \A e \in Event : outbox[e].status = "processed" => Range(Posts(e)) \subseteq Notified(e)

(* An event is given up only after MaxAttempts deliveries were started,    *)
(* although a stale copy in another relay's batch may set its count back.  *)
GivenUpLate ==
    \A e \in Event :
        /\ outbox[e].attempts <= marks[e]
        /\ outbox[e].status = "dead_letter" => marks[e] >= MaxAttempts

(* As long as no process died, no query failed and no lock was lost, the   *)
(* viewers see every event for the first time in the order of the outbox,  *)
(* although failed ones go back to pending while the next ones go out.     *)
FirstSeenInOrder ==
    mishaps = 0 =>
        \A i \in DOMAIN shown : \A e \in 1..shown[i] :
            Broadcast(e) => e \in {shown[j] : j \in 1..i}

(* As long as nothing of the kind happened, an event's attempts are those  *)
(* it was given, never more than it may have, although the lock may stay   *)
(* with a connection and every copy is as old as its batch.                *)
AttemptsCounted ==
    mishaps = 0 => \A e \in Event : outbox[e].attempts = marks[e] /\ marks[e] <= MaxAttempts

(* Nor is an event ever taken up again that was processed or given up: no  *)
(* relay holds a copy that says it is pending.                             *)
FinishedForGood ==
    [][mishaps' = 0 =>
          \A e \in Event : outbox[e].status \in {"processed", "dead_letter"}
                              => outbox'[e] = outbox[e]]_relayVars

(* Every event leaves the outbox for good: it is delivered or, after its   *)
(* attempts, a dead letter.                                                *)
EventsLeave ==
    \A e \in Event : <>[](outbox[e].status \in {"processed", "dead_letter"})
=============================================================================
