---------------------------- MODULE Notifications ---------------------------
(***************************************************************************)
(* NotificationService and NotificationDispatchWorker of the monolith: the *)
(* rows of crm.notification_queue on their way to the provider.            *)
(*                                                                         *)
(* Every worker process of the monolith polls the queue, and nothing locks *)
(* a row: a dispatcher works from the copy its SELECT returned, and writes *)
(* the row by its id alone.  The provider may fail, or deliver although    *)
(* the caller hears an error; a process may die and a query fail at any    *)
(* step.                                                                   *)
(***************************************************************************)
EXTENDS Naturals, FiniteSets

CONSTANTS
    NoRow,             \* no row in hand
    Notification,      \* rows that may be queued
    Dispatcher,        \* monolith processes that run the dispatch worker
    MaxAttempts,       \* notification_queue.max_attempts
    MaxMishaps         \* bound: crashes and failed queries

ASSUME NotificationsAssumption ==
    /\ NoRow \notin Notification
    /\ MaxAttempts \in Nat \ {0}
    /\ MaxMishaps \in Nat

VARIABLES
    row,               \* notification_queue: status and attempts of every row
    due,               \* rows whose scheduled_for has passed
    worker,            \* where every dispatcher's poll is, with its copy
    tries,             \* history: times each row was taken up for sending
    mailed,            \* history: whether the provider delivered the row
    refused,           \* history: rows with a reason never to be retried
    mishaps            \* crashes and failed queries so far

vars == <<row, due, worker, tries, mailed, refused, mishaps>>

-----------------------------------------------------------------------------
Status == {"none", "queued", "sending", "sent", "failed"}

Poll == [at : {"idle", "mark", "send", "delivered", "failed"},
         row : Notification \cup {NoRow}, attempts : Nat]

NewPoll == [at |-> "idle", row |-> NoRow, attempts |-> 0]

TypeOK ==
    /\ row \in [Notification -> [status : Status, attempts : Nat]]
    /\ due \subseteq {n \in Notification : row[n].status # "none"}
    /\ worker \in [Dispatcher -> Poll]
    /\ \A d \in Dispatcher : worker[d].at = "idle" <=> worker[d].row = NoRow
    /\ tries \in [Notification -> Nat]
    /\ mailed \subseteq Notification
    /\ refused \subseteq Notification
    /\ mishaps \in 0..MaxMishaps

Init ==
    /\ row = [n \in Notification |-> [status |-> "none", attempts |-> 0]]
    /\ due = {}
    /\ worker = [d \in Dispatcher |-> NewPoll]
    /\ tries = [n \in Notification |-> 0]
    /\ mailed = {}
    /\ refused = {}
    /\ mishaps = 0

-----------------------------------------------------------------------------
At(d, place) == worker[d].at = place
Goto(d, place) == worker' = [worker EXCEPT ![d].at = place]
Row(d) == worker[d].row

(* enqueue, from a POST /notifications/events or a service.                *)
Enqueue(n) ==
    /\ row[n].status = "none"
    /\ row' = [row EXCEPT ![n].status = "queued"]
    /\ due' = due \cup {n}
    /\ UNCHANGED <<worker, tries, mailed, refused, mishaps>>

(* The backoff of a row passes.                                            *)
BecomeDue(n) ==
    /\ row[n].status # "none"
    /\ n \notin due
    /\ due' = due \cup {n}
    /\ UNCHANGED <<row, worker, tries, mailed, refused, mishaps>>

(* A seeded bug: only rows that were never tried are selected.             *)
TakeUntried(d) ==
    \E n \in due :
        /\ At(d, "idle")
        /\ row[n].status = "queued" /\ row[n].attempts = 0
        /\ worker' = [worker EXCEPT ![d] = [at |-> "mark", row |-> n, attempts |-> 0]]
        /\ UNCHANGED <<row, due, tries, mailed, refused, mishaps>>

(* poll: the SELECT of queued rows that are due.  Its batch is worked off  *)
(* one row at a time, from copies of any age, so a copy is all there is.   *)
Take(d) ==
    \E n \in due :
        /\ At(d, "idle")
        /\ row[n].status = "queued"
        /\ worker' = [worker EXCEPT ![d] = [at |-> "mark", row |-> n,
                                            attempts |-> row[n].attempts]]
        /\ UNCHANGED <<row, due, tries, mailed, refused, mishaps>>

(* processNotification: the row is marked whatever it has become, with the *)
(* attempts of the copy.                                                   *)
MarkSending(d) ==
    LET count == worker[d].attempts + 1
    IN  /\ At(d, "mark")
        /\ row' = [row EXCEPT ![Row(d)] = [status |-> "sending", attempts |-> count]]
        /\ tries' = [tries EXCEPT ![Row(d)] = @ + 1]
        /\ worker' = [worker EXCEPT ![d].at = "send", ![d].attempts = count]
        /\ UNCHANGED <<due, mailed, refused, mishaps>>

(* No user, no phone number, no active device, no provider: the row is     *)
(* dead-lettered at once.                                                  *)
Unreachable(d) ==
    /\ At(d, "send")
    /\ row' = [row EXCEPT ![Row(d)].status = "failed"]
    /\ refused' = refused \cup {Row(d)}
    /\ worker' = [worker EXCEPT ![d] = NewPoll]
    /\ UNCHANGED <<due, tries, mailed, mishaps>>

(* A seeded bug: an answer that does not come counts as success.           *)
HopeForTheBest(d) ==
    /\ At(d, "send")
    /\ \/ mailed' = mailed \cup {Row(d)}
       \/ UNCHANGED mailed
    /\ Goto(d, "delivered")
    /\ UNCHANGED <<row, due, tries, refused, mishaps>>

(* provider.send: delivered and heard, delivered and not heard, or neither.*)
Send(d) ==
    /\ At(d, "send")
    /\ \/ /\ mailed' = mailed \cup {Row(d)}
          /\ \E place \in {"delivered", "failed"} : Goto(d, place)
       \/ /\ UNCHANGED mailed
          /\ Goto(d, "failed")
    /\ UNCHANGED <<row, due, tries, refused, mishaps>>

RecordSent(d) ==
    /\ At(d, "delivered")
    /\ row' = [row EXCEPT ![Row(d)].status = "sent"]
    /\ worker' = [worker EXCEPT ![d] = NewPoll]
    /\ UNCHANGED <<due, tries, mailed, refused, mishaps>>

(* A seeded bug: the attempt under way is counted once more.               *)
GiveUpEarly(d) ==
    /\ At(d, "failed")
    /\ IF worker[d].attempts + 1 >= MaxAttempts
       THEN /\ row' = [row EXCEPT ![Row(d)].status = "failed"]
            /\ UNCHANGED due
       ELSE /\ row' = [row EXCEPT ![Row(d)].status = "queued"]
            /\ due' = due \ {Row(d)}
    /\ worker' = [worker EXCEPT ![d] = NewPoll]
    /\ UNCHANGED <<tries, mailed, refused, mishaps>>

(* A seeded bug: the retry is scheduled, and the row stays sending.        *)
ScheduleOnly(d) ==
    /\ At(d, "failed")
    /\ IF worker[d].attempts >= MaxAttempts
       THEN /\ row' = [row EXCEPT ![Row(d)].status = "failed"]
            /\ UNCHANGED due
       ELSE /\ row' = row
            /\ due' = due \ {Row(d)}
    /\ worker' = [worker EXCEPT ![d] = NewPoll]
    /\ UNCHANGED <<tries, mailed, refused, mishaps>>

(* A failed attempt: given up after the last, else queued for later.       *)
RecordFailure(d) ==
    /\ At(d, "failed")
    /\ IF worker[d].attempts >= MaxAttempts
       THEN /\ row' = [row EXCEPT ![Row(d)].status = "failed"]
            /\ UNCHANGED due
       ELSE /\ row' = [row EXCEPT ![Row(d)].status = "queued"]
            /\ due' = due \ {Row(d)}
    /\ worker' = [worker EXCEPT ![d] = NewPoll]
    /\ UNCHANGED <<tries, mailed, refused, mishaps>>

(* The process dies, or a query throws and poll goes on with the next row: *)
(* the row stays as it is, and nothing looks for rows left sending.        *)
Abandon(d) ==
    /\ ~At(d, "idle")
    /\ mishaps < MaxMishaps
    /\ mishaps' = mishaps + 1
    /\ worker' = [worker EXCEPT ![d] = NewPoll]
    /\ UNCHANGED <<row, due, tries, mailed, refused>>

-----------------------------------------------------------------------------
Work(d) ==
    Take(d) \/ MarkSending(d) \/ Unreachable(d) \/ Send(d) \/ RecordSent(d)
    \/ RecordFailure(d)

Next ==
    \/ \E n \in Notification : Enqueue(n) \/ BecomeDue(n)
    \/ \E d \in Dispatcher : Work(d) \/ Abandon(d)

Spec == Init /\ [][Next]_vars

(* The interval timer keeps polling, a poll goes on, backoffs pass.        *)
Fairness ==
    /\ \A n \in Notification : WF_vars(BecomeDue(n))
    /\ \A d \in Dispatcher : WF_vars(Work(d))

FairSpec == Spec /\ Fairness

-----------------------------------------------------------------------------
(* A row recorded as sent was delivered by the provider, although two      *)
(* dispatchers may hold copies of it and write it in any order.            *)
SentWasMailed ==
    \A n \in Notification : row[n].status = "sent" => n \in mailed

(* Unless there is a reason not to retry, a row is given up only after its *)
(* full number of attempts, although a stale copy may set the count back.  *)
GivenUpLate ==
    \A n \in Notification :
        /\ row[n].attempts <= tries[n]
        /\ row[n].status = "failed" => tries[n] >= MaxAttempts \/ n \in refused

(* Rows nobody will ever deal with: nothing looks for rows left sending.   *)
Forgotten ==
    {n \in Notification :
        /\ row[n].status = "sending"
        /\ \A d \in Dispatcher : Row(d) = n => At(d, "mark")}

(* A crash or a failed query costs one row at most, however many copies of *)
(* however many rows the dispatchers hold, and nothing else costs any.     *)
FewAreForgotten == Cardinality(Forgotten) <= mishaps

(* A queued row is dealt with for good.  It is sent or failed in the end,  *)
(* unless a process died or a query failed: then it may stay sending.      *)
RowsAreDealtWith ==
    \A n \in Notification :
        /\ row[n].status = "queued" ~>
              \/ row[n].status \in {"sent", "failed"}
              \/ mishaps > 0
        /\ <>[](row[n].status # "queued")
=============================================================================
