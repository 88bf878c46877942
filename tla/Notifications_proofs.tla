------------------------ MODULE Notifications_proofs ------------------------
(***************************************************************************)
(* What holds of the notification queue for any number of rows and of      *)
(* dispatchers that share it without a lock.  The dispatchers' copies are  *)
(* what the invariant is about: a copy never knows of more attempts than   *)
(* were made, and one that was delivered was delivered.                    *)
(***************************************************************************)
EXTENDS Notifications, FiniteSetTheorems, TLAPS

(* What a dispatcher has in hand is true of the row, however old it is.    *)
CopiesAreOld ==
    \A d \in Dispatcher :
        ~At(d, "idle") =>
            /\ worker[d].attempts <= tries[Row(d)]
            /\ At(d, "delivered") => Row(d) \in mailed

IInv == TypeOK /\ CopiesAreOld /\ SentWasMailed /\ GivenUpLate

(* A row in hand is a row.                                                 *)
LEMMA InHandIsRow ==
    ASSUME TypeOK, NEW d \in Dispatcher, ~At(d, "idle")
    PROVE  /\ Row(d) \in Notification
           /\ worker[d].attempts \in Nat
           /\ tries[Row(d)] \in Nat
           /\ row[Row(d)] \in [status : Status, attempts : Nat]
BY DEF TypeOK, Poll, At, Row

LEMMA InitInv == Init => IInv
<1> SUFFICES ASSUME Init PROVE IInv
  OBVIOUS
<1>1. TypeOK
  BY NotificationsAssumption DEF Init, TypeOK, Status, Poll, NewPoll
<1>2. CopiesAreOld
  BY DEF Init, CopiesAreOld, At, NewPoll
<1>3. SentWasMailed /\ GivenUpLate
  BY NotificationsAssumption DEF Init, SentWasMailed, GivenUpLate
<1> QED
  BY <1>1, <1>2, <1>3 DEF IInv

-----------------------------------------------------------------------------
(* Every step keeps the types; each proof step is one action.              *)
LEMMA StepTypeOK ==
    ASSUME TypeOK, [Next]_vars
    PROVE  TypeOK'
<1> USE NotificationsAssumption
<1>1. CASE UNCHANGED vars
  BY <1>1 DEF TypeOK, vars
<1>2. ASSUME NEW n \in Notification, Enqueue(n) \/ BecomeDue(n)
      PROVE  TypeOK'
  BY <1>2 DEF TypeOK, Enqueue, BecomeDue, Status
<1>3. ASSUME NEW d \in Dispatcher, Take(d)
      PROVE  TypeOK'
  BY <1>3 DEF TypeOK, Take, At, Poll
<1>4. ASSUME NEW d \in Dispatcher, MarkSending(d)
      PROVE  TypeOK'
  <2>1. ~At(d, "idle")
    BY <1>4 DEF MarkSending, At
  <2>2. /\ Row(d) \in Notification
        /\ worker[d].attempts + 1 \in Nat
    BY <2>1, InHandIsRow
  <2>3. worker[d].row # NoRow
    BY <2>1 DEF TypeOK, At
  <2> QED
    BY <1>4, <2>2, <2>3 DEF TypeOK, MarkSending, At, Row, Poll, Status
<1>5. ASSUME NEW d \in Dispatcher, Unreachable(d) \/ RecordSent(d) \/ RecordFailure(d)
      PROVE  TypeOK'
  <2>1. ~At(d, "idle")
    BY <1>5 DEF Unreachable, RecordSent, RecordFailure, At
  <2>2. Row(d) \in Notification
    BY <2>1, InHandIsRow
  <2>3. worker' = [worker EXCEPT ![d] = NewPoll]
    BY <1>5 DEF Unreachable, RecordSent, RecordFailure
  <2>4. /\ worker' \in [Dispatcher -> Poll]
        /\ \A e \in Dispatcher : worker'[e].at = "idle" <=> worker'[e].row = NoRow
    BY <2>3 DEF TypeOK, Poll, NewPoll
  <2>5. \E s \in Status \ {"none"} : row' = [row EXCEPT ![Row(d)].status = s]
    BY <1>5 DEF Unreachable, RecordSent, RecordFailure, Status
  <2>6. due' \subseteq due
    BY <1>5 DEF Unreachable, RecordSent, RecordFailure
  <2>7. /\ row' \in [Notification -> [status : Status, attempts : Nat]]
        /\ due' \subseteq {n \in Notification : row'[n].status # "none"}
    BY <2>2, <2>5, <2>6 DEF TypeOK
  <2>8. UNCHANGED <<tries, mailed, mishaps>> /\ refused' \subseteq refused \cup {Row(d)}
    BY <1>5 DEF Unreachable, RecordSent, RecordFailure
  <2> QED
    BY <2>2, <2>4, <2>7, <2>8 DEF TypeOK
<1>6. ASSUME NEW d \in Dispatcher, Send(d)
      PROVE  TypeOK'
  <2>1. ~At(d, "idle")
    BY <1>6 DEF Send, At
  <2>2. Row(d) \in Notification
    BY <2>1, InHandIsRow
  <2>3. \E p \in {"delivered", "failed"} : worker' = [worker EXCEPT ![d].at = p]
    BY <1>6 DEF Send, Goto
  <2>4. /\ worker' \in [Dispatcher -> Poll]
        /\ \A e \in Dispatcher : worker'[e].at = "idle" <=> worker'[e].row = NoRow
    BY <2>1, <2>3 DEF TypeOK, Poll, At
  <2> QED
    BY <1>6, <2>2, <2>4 DEF TypeOK, Send
<1>7. ASSUME NEW d \in Dispatcher, Abandon(d)
      PROVE  TypeOK'
  BY <1>7 DEF TypeOK, Abandon, NewPoll, Poll
<1> QED
  BY <1>1, <1>2, <1>3, <1>4, <1>5, <1>6, <1>7 DEF Next, Work

(* Every step keeps what the copies say true.                              *)
LEMMA StepInv ==
    ASSUME IInv, [Next]_vars
    PROVE  (CopiesAreOld /\ SentWasMailed /\ GivenUpLate)'
<1> USE DEF IInv
<1>0. TypeOK'
  BY StepTypeOK
<1>1. CASE UNCHANGED vars
  BY <1>1 DEF CopiesAreOld, SentWasMailed, GivenUpLate, At, Row, vars
<1>2. ASSUME NEW n \in Notification, Enqueue(n) \/ BecomeDue(n)
      PROVE  (CopiesAreOld /\ SentWasMailed /\ GivenUpLate)'
  <2>1. CopiesAreOld'
    BY <1>2 DEF CopiesAreOld, Enqueue, BecomeDue, At, Row
  <2>2. \A m \in Notification : /\ row'[m].attempts = row[m].attempts
                                /\ row'[m].status \in {row[m].status, "queued"}
    BY <1>2 DEF Enqueue, BecomeDue, TypeOK
  <2> QED
    BY <1>2, <2>1, <2>2 DEF SentWasMailed, GivenUpLate, Enqueue, BecomeDue
<1>3. ASSUME NEW d \in Dispatcher, Take(d)
      PROVE  (CopiesAreOld /\ SentWasMailed /\ GivenUpLate)'
  <2>1. PICK n \in Notification :
            worker' = [worker EXCEPT ![d] = [at |-> "mark", row |-> n,
                                             attempts |-> row[n].attempts]]
    BY <1>3 DEF Take, TypeOK
  <2>2. UNCHANGED <<row, tries, mailed, refused>>
    BY <1>3 DEF Take
  <2>3. row[n].attempts <= tries[n]
    BY DEF GivenUpLate
  <2>4. CopiesAreOld'
    BY <2>1, <2>2, <2>3 DEF CopiesAreOld, At, Row, TypeOK
  <2> QED
    BY <2>2, <2>4 DEF SentWasMailed, GivenUpLate
<1>4. ASSUME NEW d \in Dispatcher, MarkSending(d)
      PROVE  (CopiesAreOld /\ SentWasMailed /\ GivenUpLate)'
  <2>1. ~At(d, "idle")
    BY <1>4 DEF MarkSending, At
  <2>2. /\ Row(d) \in Notification
        /\ worker[d].attempts \in Nat
        /\ tries[Row(d)] \in Nat
        /\ worker[d].attempts <= tries[Row(d)]
    BY <2>1, InHandIsRow DEF CopiesAreOld
  <2>3. \A n \in Notification : tries[n] \in Nat /\ tries'[n] \in Nat /\ tries[n] <= tries'[n]
    BY <1>4, <2>2 DEF MarkSending, TypeOK
  <2>4. tries'[Row(d)] = tries[Row(d)] + 1
    BY <1>4, <2>2 DEF MarkSending, TypeOK
  <2>5. ASSUME NEW e \in Dispatcher, worker'[e].at # "idle"
        PROVE  /\ worker'[e].attempts <= tries'[worker'[e].row]
               /\ worker'[e].at = "delivered" => worker'[e].row \in mailed'
    <3>1. CASE e = d
      BY <1>4, <2>2, <2>4, <3>1 DEF MarkSending, At, Row, TypeOK
    <3>2. CASE e # d
      <4>1. worker'[e] = worker[e]
        BY <1>4, <3>2 DEF MarkSending, TypeOK
      <4>2. ~At(e, "idle")
        BY <2>5, <4>1 DEF At
      <4>3. Row(e) \in Notification /\ worker[e].attempts \in Nat
        BY <4>2, InHandIsRow
      <4>4. worker[e].attempts <= tries[Row(e)] /\ (At(e, "delivered") => Row(e) \in mailed)
        BY <4>2 DEF CopiesAreOld
      <4>5. tries[Row(e)] \in Nat /\ tries'[Row(e)] \in Nat /\ tries[Row(e)] <= tries'[Row(e)]
        BY <2>3, <4>3
      <4>6. worker[e].attempts <= tries'[Row(e)]
        BY <4>3, <4>4, <4>5
      <4>7. mailed' = mailed
        BY <1>4 DEF MarkSending
      <4> QED
        BY <4>1, <4>4, <4>6, <4>7 DEF At, Row
    <3> QED
      BY <3>1, <3>2
  <2>6. CopiesAreOld'
    BY <2>5 DEF CopiesAreOld, At, Row
  <2>7. ASSUME NEW n \in Notification
        PROVE  /\ row'[n].status \notin {"sent", "failed"} \/ row'[n] = row[n]
               /\ row'[n].attempts <= tries'[n]
    <3>1. CASE n = Row(d)
      BY <1>4, <2>2, <2>4, <3>1 DEF MarkSending, TypeOK
    <3>2. CASE n # Row(d)
      <4>1. row'[n] = row[n] /\ row[n].attempts \in Nat
        BY <1>4, <3>2 DEF MarkSending, TypeOK
      <4> QED
        BY <2>3, <4>1 DEF GivenUpLate
    <3> QED
      BY <3>1, <3>2
  <2>8. UNCHANGED <<mailed, refused>>
    BY <1>4 DEF MarkSending
  <2>9. SentWasMailed'
    BY <2>7, <2>8 DEF SentWasMailed
  <2>10. GivenUpLate'
    BY <2>3, <2>7, <2>8, NotificationsAssumption DEF GivenUpLate
  <2> QED
    BY <2>6, <2>9, <2>10
<1>5. ASSUME NEW d \in Dispatcher, Unreachable(d) \/ RecordSent(d) \/ RecordFailure(d)
      PROVE  (CopiesAreOld /\ SentWasMailed /\ GivenUpLate)'
  <2>1. ~At(d, "idle")
    BY <1>5 DEF Unreachable, RecordSent, RecordFailure, At
  <2>2. /\ Row(d) \in Notification
        /\ worker[d].attempts \in Nat
        /\ tries[Row(d)] \in Nat
        /\ worker[d].attempts <= tries[Row(d)]
        /\ At(d, "delivered") => Row(d) \in mailed
    BY <2>1, InHandIsRow DEF CopiesAreOld
  <2>3. UNCHANGED <<tries, mailed>> /\ worker' = [worker EXCEPT ![d] = NewPoll]
    BY <1>5 DEF Unreachable, RecordSent, RecordFailure
  <2>4. CopiesAreOld'
    BY <2>3 DEF CopiesAreOld, NewPoll, At, Row, TypeOK
  <2>5. PICK s \in Status : row' = [row EXCEPT ![Row(d)].status = s]
    BY <1>5 DEF Unreachable, RecordSent, RecordFailure, Status
  <2>6. s = "sent" => At(d, "delivered")
    BY <1>5, <2>2, <2>5 DEF Unreachable, RecordSent, RecordFailure, TypeOK
  <2>7. s = "failed" => worker[d].attempts >= MaxAttempts \/ Row(d) \in refused'
    BY <1>5, <2>2, <2>5 DEF Unreachable, RecordSent, RecordFailure, TypeOK
  <2>8. refused \subseteq refused'
    BY <1>5 DEF Unreachable, RecordSent, RecordFailure
  <2>9. \A n \in Notification :
            /\ row'[n].attempts = row[n].attempts
            /\ row'[n].status = IF n = Row(d) THEN s ELSE row[n].status
    BY <2>2, <2>5 DEF TypeOK
  <2>10. SentWasMailed'
    BY <2>2, <2>3, <2>6, <2>9 DEF SentWasMailed
  <2>11. s = "failed" => tries[Row(d)] >= MaxAttempts \/ Row(d) \in refused'
    BY <2>2, <2>7, NotificationsAssumption
  <2>12. GivenUpLate'
    BY <2>3, <2>8, <2>9, <2>11 DEF GivenUpLate
  <2> QED
    BY <2>4, <2>10, <2>12
<1>6. ASSUME NEW d \in Dispatcher, Send(d)
      PROVE  (CopiesAreOld /\ SentWasMailed /\ GivenUpLate)'
  <2>1. /\ UNCHANGED <<row, tries, refused>>
        /\ mailed \subseteq mailed'
    BY <1>6 DEF Send
  <2>2. PICK p \in {"delivered", "failed"} : worker' = [worker EXCEPT ![d].at = p]
    BY <1>6 DEF Send, Goto
  <2>3. p = "delivered" => Row(d) \in mailed'
    BY <1>6, <2>2 DEF Send, Goto, TypeOK, Poll
  <2>4. ~At(d, "idle")
    BY <1>6 DEF Send, At
  <2>5. CopiesAreOld'
    BY <2>1, <2>2, <2>3, <2>4 DEF CopiesAreOld, At, Row, TypeOK, Poll
  <2> QED
    BY <2>1, <2>5 DEF SentWasMailed, GivenUpLate
<1>7. ASSUME NEW d \in Dispatcher, Abandon(d)
      PROVE  (CopiesAreOld /\ SentWasMailed /\ GivenUpLate)'
  BY <1>7 DEF CopiesAreOld, SentWasMailed, GivenUpLate, Abandon, NewPoll, At, Row, TypeOK
<1> QED
  BY <1>1, <1>2, <1>3, <1>4, <1>5, <1>6, <1>7 DEF Next, Work

LEMMA Inductive == Spec => []IInv
<1>1. Init => IInv
  BY InitInv
<1>2. IInv /\ [Next]_vars => IInv'
  BY StepTypeOK, StepInv DEF IInv
<1> QED
  BY <1>1, <1>2, PTL DEF Spec

-----------------------------------------------------------------------------
(* Forgotten rows.  The last dispatcher to mark a row sending answers for  *)
(* it, so only one that is cut off leaves it behind.                       *)
FInv ==
    /\ IsFiniteSet(Forgotten)
    /\ Cardinality(Forgotten) <= mishaps

LEMMA NoMoreForgotten ==
    ASSUME TypeOK, [Next]_vars, \A d \in Dispatcher : ~Abandon(d)
    PROVE  Forgotten' \subseteq Forgotten
<1> USE DEF Forgotten, At, Row
<1>1. CASE UNCHANGED vars
  BY <1>1 DEF vars
<1>2. ASSUME NEW n \in Notification, Enqueue(n) \/ BecomeDue(n)
      PROVE  Forgotten' \subseteq Forgotten
  <2>1. worker' = worker /\ \A m \in Notification : row'[m].status \in {row[m].status, "queued"}
    BY <1>2 DEF Enqueue, BecomeDue, TypeOK
  <2> QED
    BY <2>1
<1>3. ASSUME NEW d \in Dispatcher, Take(d)
      PROVE  Forgotten' \subseteq Forgotten
  <2>1. row' = row /\ worker[d].row = NoRow
        /\ \A e \in Dispatcher : e # d => worker'[e] = worker[e]
    BY <1>3 DEF Take, TypeOK
  <2> QED
    BY <2>1, NotificationsAssumption
<1>4. ASSUME NEW d \in Dispatcher, MarkSending(d)
      PROVE  Forgotten' \subseteq Forgotten
  <2>1. /\ worker'[d].row = worker[d].row /\ worker'[d].at = "send"
        /\ \A e \in Dispatcher : e # d => worker'[e] = worker[e]
    BY <1>4 DEF MarkSending, TypeOK, Poll
  <2>2. \A m \in Notification : m # worker[d].row => row'[m] = row[m]
    BY <1>4 DEF MarkSending, TypeOK
  <2>3. \A m \in Forgotten' : m # worker[d].row
    BY <2>1
  <2> QED
    BY <2>1, <2>2, <2>3
<1>5. ASSUME NEW d \in Dispatcher, Unreachable(d) \/ RecordSent(d) \/ RecordFailure(d)
      PROVE  Forgotten' \subseteq Forgotten
  <2>1. worker' = [worker EXCEPT ![d] = NewPoll]
    BY <1>5 DEF Unreachable, RecordSent, RecordFailure
  <2>2. PICK s \in {"sent", "failed", "queued"} : row' = [row EXCEPT ![Row(d)].status = s]
    BY <1>5 DEF Unreachable, RecordSent, RecordFailure
  <2>3. \A m \in Notification : row'[m].status = IF m = worker[d].row THEN s ELSE row[m].status
    BY <2>2 DEF TypeOK
  <2>4. \A e \in Dispatcher : e # d => worker'[e] = worker[e]
    BY <2>1 DEF TypeOK
  <2> QED
    BY <2>3, <2>4
<1>6. ASSUME NEW d \in Dispatcher, Send(d)
      PROVE  Forgotten' \subseteq Forgotten
  <2>1. PICK p \in {"delivered", "failed"} : worker' = [worker EXCEPT ![d].at = p]
    BY <1>6 DEF Send, Goto
  <2>2. \A e \in Dispatcher : worker'[e].row = worker[e].row
                             /\ worker'[e].at = IF e = d THEN p ELSE worker[e].at
    BY <2>1 DEF TypeOK, Poll
  <2>3. row' = row /\ worker[d].at = "send"
    BY <1>6 DEF Send
  <2> QED
    BY <2>2, <2>3
<1> QED
  BY <1>1, <1>2, <1>3, <1>4, <1>5, <1>6 DEF Next, Work

LEMMA OneMoreForgotten ==
    ASSUME TypeOK, NEW d \in Dispatcher, Abandon(d)
    PROVE  Forgotten' \subseteq Forgotten \cup {Row(d)}
<1>1. row' = row /\ \A e \in Dispatcher : e # d => worker'[e] = worker[e]
  BY DEF Abandon, TypeOK
<1> QED
  BY <1>1 DEF Forgotten, At, Row

LEMMA StepForgotten ==
    ASSUME TypeOK, FInv, [Next]_vars
    PROVE  FInv'
<1> USE DEF FInv
<1>0. mishaps \in Nat /\ Cardinality(Forgotten) \in Nat
  BY FS_CardinalityType DEF TypeOK
<1>1. CASE \A d \in Dispatcher : ~Abandon(d)
  <2>1. Forgotten' \subseteq Forgotten
    BY <1>1, NoMoreForgotten
  <2>2. /\ IsFiniteSet(Forgotten') /\ Cardinality(Forgotten') \in Nat
        /\ Cardinality(Forgotten') <= Cardinality(Forgotten)
    BY <2>1, FS_Subset, FS_CardinalityType
  <2>3. mishaps' = mishaps
    BY <1>1 DEF Next, Work, vars, Enqueue, BecomeDue, Take, MarkSending, Unreachable, Send,
                RecordSent, RecordFailure
  <2> QED
    BY <1>0, <2>2, <2>3
<1>2. ASSUME NEW d \in Dispatcher, Abandon(d)
      PROVE  FInv'
  <2> DEFINE more == Forgotten \cup {Row(d)}
  <2>1. Forgotten' \subseteq more
    BY <1>2, OneMoreForgotten
  <2>2. /\ IsFiniteSet(more) /\ Cardinality(more) \in Nat
        /\ Cardinality(more) <= Cardinality(Forgotten) + 1
    <3>1. /\ IsFiniteSet(more)
          /\ \/ Cardinality(more) = Cardinality(Forgotten)
             \/ Cardinality(more) = Cardinality(Forgotten) + 1
      BY FS_AddElement
    <3> QED
      BY <1>0, <3>1
  <2> HIDE DEF more
  <2>3. /\ IsFiniteSet(Forgotten') /\ Cardinality(Forgotten') \in Nat
        /\ Cardinality(Forgotten') <= Cardinality(more)
    BY <2>1, <2>2, FS_Subset, FS_CardinalityType
  <2>4. mishaps' = mishaps + 1
    BY <1>2 DEF Abandon
  <2> QED
    BY <1>0, <2>2, <2>3, <2>4
<1> QED
  BY <1>1, <1>2

(* Every reachable state is well typed, and a dispatcher is idle exactly   *)
(* when it has no row in hand.                                             *)
THEOREM NotificationTypesAlways == Spec => []TypeOK
<1>1. IInv => TypeOK
  BY DEF IInv
<1> QED
  BY <1>1, Inductive, PTL

(* No two dispatchers, however their copies interleave, record as sent     *)
(* what the provider never delivered.                                      *)
THEOREM SentWasMailedAlways == Spec => []SentWasMailed
<1>1. IInv => SentWasMailed
  BY DEF IInv
<1> QED
  BY <1>1, Inductive, PTL

(* No stale copy makes a row be given up before its attempts are made.     *)
THEOREM GivenUpLateAlways == Spec => []GivenUpLate
<1>1. IInv => GivenUpLate
  BY DEF IInv
<1> QED
  BY <1>1, Inductive, PTL

(* Of any number of rows, shared by any number of dispatchers, no more are *)
(* left in sending for good than processes died or queries failed.         *)
THEOREM FewAreForgottenAlways == Spec => []FewAreForgotten
<1>1. Init => FInv
  <2> SUFFICES ASSUME Init PROVE FInv
    OBVIOUS
  <2>1. Forgotten = {}
    BY DEF Init, Forgotten
  <2> QED
    BY <2>1, FS_EmptySet DEF Init, FInv
<1>2. TypeOK /\ FInv /\ [Next]_vars => FInv'
  BY StepForgotten
<1>3. FInv => FewAreForgotten
  BY DEF FInv, FewAreForgotten
<1> QED
  BY <1>1, <1>2, <1>3, NotificationTypesAlways, PTL DEF Spec
=============================================================================
