------------------------- MODULE OutboxRelay_proofs -------------------------
(***************************************************************************)
(* At-least-once delivery for any number of relays, events and attempts,   *)
(* whether or not the advisory lock keeps the relays apart.  Nothing a     *)
(* relay has in hand is current, but everything it believes stays true:    *)
(* what was shown and queued grows, and so does the number of deliveries   *)
(* started.  The invariant says what a tick and a row know of these three. *)
(***************************************************************************)
EXTENDS OutboxRelay, TLAPS, SequenceTheorems

AtWork == {"batch", "dispatch", "post", "delivered", "failed"}

DeliveredTo(e, seen, queued) ==
    /\ Broadcast(e) => e \in seen
    /\ Range(Posts(e)) \subseteq queued[e]

TickKnows(t, seen, queued, started) ==
    /\ \A i \in DOMAIN t.batch : t.batch[i].attempts <= started[t.batch[i].event]
    /\ t.at = "dispatch" => t.posted = 0
    /\ t.at \in {"post", "delivered", "failed"} /\ Broadcast(t.batch[1].event)
          => t.batch[1].event \in seen
    /\ t.at = "post" =>
          \A i \in 1..t.posted : Posts(t.batch[1].event)[i] \in queued[t.batch[1].event]
    /\ t.at = "delivered" => DeliveredTo(t.batch[1].event, seen, queued)

RowKnows(o, e, seen, queued, started) ==
    /\ o.attempts <= started[e]
    /\ o.status = "processed" => DeliveredTo(e, seen, queued)
    /\ o.status = "dead_letter" =>
          started[e] >= MaxAttempts /\ (Broadcast(e) => e \in seen)

IInv ==
    /\ RelayTypeOK
    /\ \A r \in Relay : TickKnows(relay[r], Range(shown), told, marks)
    /\ \A e \in Event : RowKnows(outbox[e], e, Range(shown), told, marks)

(* What has been shown, queued and started, and what it may grow to.       *)
Grows(seen, queued, started, seen2, queued2, started2) ==
    /\ seen \subseteq seen2
    /\ \A e \in Event : /\ queued[e] \subseteq queued2[e]
                        /\ started[e] \in Nat /\ started2[e] \in Nat
                        /\ started[e] <= started2[e]

-----------------------------------------------------------------------------
LEMMA FirstOfSeq ==
    ASSUME NEW S, NEW s \in Seq(S), s # <<>>
    PROVE  Head(s) = s[1] /\ s[1] \in S /\ 1 \in DOMAIN s
<1>1. Len(s) \in Nat /\ DOMAIN s = 1..Len(s) /\ Len(s) # 0
  BY EmptySeq, LenProperties
<1>2. 1 \in 1..Len(s)
  BY <1>1
<1> QED
  BY <1>1, <1>2, ElementOfSeq

(* An event is posted at most twice.                                       *)
LEMMA PostsAreFew ==
    ASSUME NEW e \in Event
    PROVE  /\ Posts(e) \in Seq(Addressee)
           /\ Len(Posts(e)) \in Nat
           /\ DOMAIN Posts(e) = 1..Len(Posts(e))
           /\ Posts(e) = <<>> <=> Len(Posts(e)) = 0
<1>1. Posts(e) \in {<<"bidder">>, <<"winner", "everyone">>, <<>>, <<"everyone">>}
  BY DEF Posts
<1>2. /\ <<"bidder">> \in Seq(Addressee)
      /\ <<"winner", "everyone">> \in Seq(Addressee)
      /\ <<>> \in Seq(Addressee)
      /\ <<"everyone">> \in Seq(Addressee)
  BY DEF Addressee, User
<1>3. Posts(e) \in Seq(Addressee)
  BY <1>1, <1>2
<1> QED
  BY <1>3, LenProperties, EmptySeq

(* Whatever is known stays known.                                          *)
LEMMA TickStillKnows ==
    ASSUME NEW t \in Tick, NEW seen, NEW queued, NEW started,
           NEW seen2, NEW queued2, NEW started2,
           Grows(seen, queued, started, seen2, queued2, started2),
           TickKnows(t, seen, queued, started),
           t.at \in AtWork => t.batch # <<>>
    PROVE  TickKnows(t, seen2, queued2, started2)
<1>1. ASSUME NEW i \in DOMAIN t.batch
      PROVE  t.batch[i].attempts <= started2[t.batch[i].event]
  <2>1. t.batch[i] \in Copy
    BY DEF Tick
  <2>2. t.batch[i].event \in Event /\ t.batch[i].attempts \in Nat
    BY <2>1 DEF Copy
  <2>3. t.batch[i].attempts <= started[t.batch[i].event]
    BY DEF TickKnows
  <2>4. /\ started[t.batch[i].event] \in Nat /\ started2[t.batch[i].event] \in Nat
        /\ started[t.batch[i].event] <= started2[t.batch[i].event]
    BY <2>2 DEF Grows
  <2> QED
    BY <2>2, <2>3, <2>4
<1>2. ASSUME t.at \in AtWork
      PROVE  t.batch[1].event \in Event
  <2>1. t.batch \in Seq(Copy) /\ t.batch # <<>>
    BY <1>2 DEF Tick
  <2>2. t.batch[1] \in Copy
    BY <2>1, FirstOfSeq
  <2> QED
    BY <2>2 DEF Copy
<1> QED
  BY <1>1, <1>2 DEF TickKnows, Grows, DeliveredTo, AtWork

LEMMA RowStillKnows ==
    ASSUME NEW e \in Event, NEW o \in [status : OutboxStatus, attempts : Nat],
           NEW seen, NEW queued, NEW started, NEW seen2, NEW queued2, NEW started2,
           Grows(seen, queued, started, seen2, queued2, started2),
           RowKnows(o, e, seen, queued, started)
    PROVE  RowKnows(o, e, seen2, queued2, started2)
BY RelayAssumption DEF RowKnows, Grows, DeliveredTo

LEMMA RelayInitInv == RelayInit => IInv
<1> SUFFICES ASSUME RelayInit PROVE IInv
  OBVIOUS
<1>1. RelayTypeOK
  BY RelayAssumption DEF RelayInit, RelayTypeOK, OutboxStatus, Tick, NewTick, Copy
<1>2. \A r \in Relay : TickKnows(relay[r], Range(shown), told, marks)
  BY DEF RelayInit, NewTick, TickKnows
<1>3. \A e \in Event : RowKnows(outbox[e], e, Range(shown), told, marks)
  BY DEF RelayInit, RowKnows
<1> QED
  BY <1>1, <1>2, <1>3 DEF IInv

(* The event in hand of a relay at work.                                   *)
LEMMA InHandIsFirst ==
    ASSUME RelayTypeOK, NEW r \in Relay, relay[r].at \in AtWork
    PROVE  /\ relay[r] \in Tick
           /\ relay[r].batch \in Seq(Copy) /\ relay[r].batch # <<>>
           /\ InHand(r) = relay[r].batch[1]
           /\ InHand(r) \in Copy
           /\ InHand(r).event \in Event /\ InHand(r).attempts \in Nat
           /\ 1 \in DOMAIN relay[r].batch
<1>1. relay[r] \in Tick /\ relay[r].batch # <<>>
  BY DEF RelayTypeOK, AtWork
<1>2. relay[r].batch \in Seq(Copy)
  BY <1>1 DEF Tick
<1>3. /\ Head(relay[r].batch) = relay[r].batch[1]
      /\ relay[r].batch[1] \in Copy
      /\ 1 \in DOMAIN relay[r].batch
  BY <1>1, <1>2, FirstOfSeq
<1> QED
  BY <1>1, <1>2, <1>3 DEF InHand, Copy

-----------------------------------------------------------------------------
(* A tick that may be left where it is: what its batch and place promise.  *)
FitTick(t) ==
    /\ t \in Tick
    /\ t.at \in AtWork => t.batch # <<>>
    /\ t.at = "post" => t.posted < Len(Posts(t.batch[1].event))

FitRow(o) == o \in [status : OutboxStatus, attempts : Nat]

(* Knowledge is what a step leaves of the others: only the tick of r and   *)
(* the rows that changed have to be looked at.                             *)
LEMMA StepKeepsInv ==
    ASSUME IInv, NEW r \in Relay, NEW t,
           relay' = [relay EXCEPT ![r] = t],
           FitTick(t), TickKnows(t, Range(shown'), told', marks'),
           DOMAIN outbox' = Event, outbox' = [e \in Event |-> outbox'[e]],
           \A e \in Event : \/ outbox'[e] = outbox[e]
                            \/ /\ FitRow(outbox'[e])
                               /\ RowKnows(outbox'[e], e, Range(shown'), told', marks'),
           stale' \subseteq Event, lock' \in Relay \cup {NoRelay},
           shown' \in Seq(Event), Range(shown) \subseteq Range(shown'),
           marks' \in [Event -> Nat], \A e \in Event : marks[e] <= marks'[e],
           told' \in [Event -> SUBSET Addressee], \A e \in Event : told[e] \subseteq told'[e],
           mishaps' \in 0..MaxMishaps
    PROVE  IInv'
<1>1. Grows(Range(shown), told, marks, Range(shown'), told', marks')
  BY DEF Grows, IInv, RelayTypeOK
<1>2. ASSUME NEW x \in Relay
      PROVE  FitTick(relay'[x]) /\ TickKnows(relay'[x], Range(shown'), told', marks')
  <2>1. CASE x = r
    <3>1. relay'[x] = t
      BY <2>1 DEF IInv, RelayTypeOK
    <3> QED
      BY <3>1
  <2>2. CASE x # r
    <3>1. relay'[x] = relay[x]
      BY <2>2 DEF IInv, RelayTypeOK
    <3>2. FitTick(relay[x])
      BY DEF IInv, RelayTypeOK, FitTick, AtWork
    <3>3. TickKnows(relay[x], Range(shown), told, marks)
      BY DEF IInv
    <3>4. TickKnows(relay[x], Range(shown'), told', marks')
      BY <1>1, <3>2, <3>3, TickStillKnows DEF FitTick
    <3> QED
      BY <3>1, <3>2, <3>4
  <2> QED
    BY <2>1, <2>2
<1>3. ASSUME NEW e \in Event
      PROVE  FitRow(outbox'[e]) /\ RowKnows(outbox'[e], e, Range(shown'), told', marks')
  <2>1. FitRow(outbox[e]) /\ RowKnows(outbox[e], e, Range(shown), told, marks)
    BY DEF IInv, RelayTypeOK, FitRow
  <2>2. RowKnows(outbox[e], e, Range(shown'), told', marks')
    BY <1>1, <2>1, RowStillKnows DEF FitRow
  <2> QED
    BY <2>1, <2>2
<1>4. relay' \in [Relay -> Tick]
  BY <1>2 DEF IInv, RelayTypeOK, FitTick
<1>5. outbox' \in [Event -> [status : OutboxStatus, attempts : Nat]]
  BY <1>3 DEF FitRow
<1>6. RelayTypeOK'
  BY <1>2, <1>4, <1>5 DEF RelayTypeOK, FitTick, AtWork
<1> QED
  BY <1>2, <1>3, <1>6 DEF IInv

LEMMA QuietStepKeepsInv ==
    ASSUME IInv, UNCHANGED <<outbox, relay, shown, marks, told>>,
           stale' \subseteq Event, lock' \in Relay \cup {NoRelay},
           mishaps' \in 0..MaxMishaps
    PROVE  IInv'
<1>1. RelayTypeOK'
  BY DEF IInv, RelayTypeOK
<1>2. \A r \in Relay : TickKnows(relay'[r], Range(shown'), told', marks')
  BY DEF IInv
<1>3. \A e \in Event : RowKnows(outbox'[e], e, Range(shown'), told', marks')
  BY DEF IInv
<1> QED
  BY <1>1, <1>2, <1>3 DEF IInv

LEMMA MishapCounts ==
    ASSUME RelayTypeOK, Mishap
    PROVE  mishaps' \in 0..MaxMishaps
BY RelayAssumption DEF RelayTypeOK, Mishap

(* An emptied tick knows nothing, and need not.                            *)
LEMMA EmptyTick ==
    ASSUME NEW place \in {"idle", "reclaim", "fetch", "unlock", "off"},
           NEW seen, NEW queued, NEW started
    PROVE  LET t == [NewTick EXCEPT !.at = place]
           IN  FitTick(t) /\ TickKnows(t, seen, queued, started)
<1> DEFINE t == [at |-> place, batch |-> <<>>, posted |-> 0]
<1>1. [NewTick EXCEPT !.at = place] = t
  BY DEF NewTick
<1>2. t.batch \in Seq(Copy) /\ DOMAIN t.batch = {}
  OBVIOUS
<1>3. FitTick(t)
  BY <1>2 DEF FitTick, Tick, AtWork
<1>4. TickKnows(t, seen, queued, started)
  BY <1>2 DEF TickKnows
<1> QED
  BY <1>1, <1>3, <1>4

(* Moving a tick to a place where it has no event in hand.                 *)
LEMMA MovedTick ==
    ASSUME IInv, NEW r \in Relay, NEW place \in {"reclaim", "fetch"}
    PROVE  LET t == [relay[r] EXCEPT !.at = place]
           IN  FitTick(t) /\ TickKnows(t, Range(shown), told, marks)
<1> DEFINE t == [relay[r] EXCEPT !.at = place]
<1>1. relay[r] \in Tick /\ TickKnows(relay[r], Range(shown), told, marks)
  BY DEF IInv, RelayTypeOK
<1>2. t \in Tick /\ t.at = place /\ t.batch = relay[r].batch
  BY <1>1 DEF Tick
<1> QED
  BY <1>1, <1>2 DEF FitTick, AtWork, TickKnows

LEMMA Unchanged ==
    ASSUME IInv
    PROVE  /\ stale \subseteq Event
           /\ lock \in Relay \cup {NoRelay}
           /\ outbox \in [Event -> [status : OutboxStatus, attempts : Nat]]
           /\ shown \in Seq(Event)
           /\ marks \in [Event -> Nat]
           /\ told \in [Event -> SUBSET Addressee]
           /\ \A e \in Event : marks[e] <= marks[e]
           /\ mishaps \in 0..MaxMishaps
           /\ DOMAIN outbox = Event /\ outbox = [e \in Event |-> outbox[e]]
           /\ relay \in [Relay -> Tick]
BY DEF IInv, RelayTypeOK

-----------------------------------------------------------------------------
LEMMA TryLockKeeps ==
    ASSUME IInv, NEW r \in Relay, TryLock(r) PROVE IInv'
<1> DEFINE t == [relay[r] EXCEPT !.at = "reclaim"]
<1>1. relay' = [relay EXCEPT ![r] = t]
  BY DEF TryLock, Goto
<1>2. FitTick(t) /\ TickKnows(t, Range(shown'), told', marks')
  BY MovedTick DEF TryLock
<1> HIDE DEF t
<1> QED
  BY <1>1, <1>2, Unchanged, StepKeepsInv DEF TryLock

LEMMA ReclaimKeeps ==
    ASSUME IInv, NEW r \in Relay, Reclaim(r) PROVE IInv'
<1> DEFINE t == [relay[r] EXCEPT !.at = "fetch"]
<1>1. relay' = [relay EXCEPT ![r] = t]
  BY DEF Reclaim, Goto
<1>2. FitTick(t) /\ TickKnows(t, Range(shown'), told', marks')
  BY MovedTick DEF Reclaim
<1>3. DOMAIN outbox' = Event /\ outbox' = [e \in Event |-> outbox'[e]]
  BY DEF Reclaim
<1>4. ASSUME NEW e \in Event
      PROVE  \/ outbox'[e] = outbox[e]
             \/ /\ FitRow(outbox'[e])
                /\ RowKnows(outbox'[e], e, Range(shown'), told', marks')
  <2>1. CASE outbox'[e] = outbox[e]
    BY <2>1
  <2>2. CASE outbox'[e] # outbox[e]
    <3>1. outbox'[e] = [outbox[e] EXCEPT !.status = "pending"]
      BY <2>2 DEF Reclaim
    <3>2. outbox[e] \in [status : OutboxStatus, attempts : Nat] /\ outbox[e].attempts <= marks[e]
      BY Unchanged DEF IInv, RowKnows
    <3>3. FitRow(outbox'[e]) /\ outbox'[e].attempts = outbox[e].attempts
          /\ outbox'[e].status = "pending"
      BY <3>1, <3>2 DEF FitRow, OutboxStatus
    <3> QED
      BY <3>2, <3>3 DEF RowKnows, Reclaim
  <2> QED
    BY <2>1, <2>2
<1> HIDE DEF t
<1> QED
  BY <1>1, <1>2, <1>3, <1>4, Unchanged, StepKeepsInv DEF Reclaim

LEMMA FetchKeeps ==
    ASSUME IInv, NEW r \in Relay, Fetch(r) PROVE IInv'
<1>1. PICK some \in OldestFirst :
        /\ relay' = [relay EXCEPT ![r].at = IF some = <<>> THEN "unlock" ELSE "batch",
                                  ![r].batch = [i \in DOMAIN some |->
                                      [event |-> some[i], attempts |-> outbox[some[i]].attempts]]]
        /\ UNCHANGED <<outbox, stale, lock, shown, marks, told, mishaps>>
  BY DEF Fetch
<1> DEFINE copies == [i \in DOMAIN some |->
                        [event |-> some[i], attempts |-> outbox[some[i]].attempts]]
           place == IF some = <<>> THEN "unlock" ELSE "batch"
           t == [relay[r] EXCEPT !.at = place, !.batch = copies]
<1>2. PICK n \in Nat : some \in [1..n -> Pending]
  BY RelayAssumption DEF OldestFirst, Batch
<1>3. \A i \in 1..n : some[i] \in Event /\ outbox[some[i]].attempts \in Nat
                        /\ outbox[some[i]].attempts <= marks[some[i]]
  BY <1>2, Unchanged DEF Pending, IInv, RowKnows
<1>4. copies \in [1..n -> Copy]
  BY <1>2, <1>3 DEF Copy
<1>5. copies \in Seq(Copy) /\ DOMAIN copies = 1..n
  BY <1>4
<1>6. some # <<>> => copies # <<>>
  BY <1>2, <1>5
<1>7. relay[r] \in Tick
  BY Unchanged
<1>8. t \in Tick /\ t.at = place /\ t.batch = copies /\ place \in {"unlock", "batch"}
  <2> HIDE DEF copies
  <2> QED
    BY <1>5, <1>7 DEF Tick
<1>9. FitTick(t)
  <2> HIDE DEF copies, t
  <2> QED
    BY <1>6, <1>8 DEF FitTick, AtWork
<1>10. \A i \in DOMAIN copies : copies[i].attempts <= marks[copies[i].event]
  BY <1>2, <1>3
<1>11. TickKnows(t, Range(shown'), told', marks')
  <2> HIDE DEF copies, t
  <2> QED
    BY <1>1, <1>8, <1>10 DEF TickKnows
<1>12. relay' = [relay EXCEPT ![r] = t]
  BY <1>1, Unchanged
<1> HIDE DEF t
<1> QED
  BY <1>1, <1>9, <1>11, <1>12, Unchanged, StepKeepsInv

LEMMA MarkKeeps ==
    ASSUME IInv, NEW r \in Relay, Mark(r) PROVE IInv'
<1> DEFINE c == relay[r].batch[1]
           copy == [event |-> c.event, attempts |-> c.attempts + 1]
           later == [relay[r].batch EXCEPT ![1].attempts = c.attempts + 1]
           t == [relay[r] EXCEPT !.at = "dispatch", !.batch[1].attempts = c.attempts + 1,
                                 !.posted = 0]
<1>1. relay[r].at \in AtWork /\ relay[r].batch # <<>>
  BY DEF Mark, At, AtWork
<1>2. /\ relay[r] \in Tick /\ relay[r].batch \in Seq(Copy)
      /\ InHand(r) = c /\ c \in Copy
      /\ c.event \in Event /\ c.attempts \in Nat /\ 1 \in DOMAIN relay[r].batch
  BY <1>1, InHandIsFirst DEF IInv
<1>3. relay' = [relay EXCEPT ![r] = t]
  <2>1. relay' = [relay EXCEPT ![r].at = "dispatch",
                               ![r].batch[1].attempts = InHand(r).attempts + 1,
                               ![r].posted = 0]
    BY DEF Mark
  <2>2. relay \in [Relay -> Tick] /\ InHand(r).attempts = c.attempts
    BY <1>2, Unchanged
  <2> QED
    BY <2>1, <2>2
<1>4. later = [relay[r].batch EXCEPT ![1] = copy]
  <2>1. [relay[r].batch[1] EXCEPT !.attempts = c.attempts + 1] = copy
    BY <1>2 DEF Copy
  <2> QED
    BY <2>1
<1>5. /\ later \in Seq(Copy) /\ DOMAIN later = DOMAIN relay[r].batch
      /\ later[1] = copy
      /\ \A i \in DOMAIN later : i # 1 => later[i] = relay[r].batch[i]
  <2>1. copy \in Copy
    BY <1>2 DEF Copy
  <2>2. relay[r].batch \in [1..Len(relay[r].batch) -> Copy] /\ Len(relay[r].batch) \in Nat
    BY <1>2, LenProperties
  <2>3. later \in [1..Len(relay[r].batch) -> Copy]
    BY <1>4, <2>1, <2>2
  <2> QED
    BY <1>2, <1>4, <2>2, <2>3
<1>6. t = [relay[r] EXCEPT !.at = "dispatch", !.batch = later, !.posted = 0]
  BY <1>2 DEF Tick
<1>7. t \in Tick /\ t.at = "dispatch" /\ t.batch = later /\ t.posted = 0
  <2> HIDE DEF later, t
  <2> QED
    BY <1>2, <1>5, <1>6 DEF Tick
<1>8. later # <<>>
  BY <1>2, <1>5
<1>9. FitTick(t)
  <2> HIDE DEF later, t
  <2> QED
    BY <1>7, <1>8 DEF FitTick
<1>10. /\ marks' = [marks EXCEPT ![c.event] = @ + 1]
       /\ marks \in [Event -> Nat] /\ marks' \in [Event -> Nat]
       /\ \A e \in Event : marks[e] <= marks'[e]
       /\ marks'[c.event] = marks[c.event] + 1
  <2>1. marks' = [marks EXCEPT ![c.event] = @ + 1]
    BY <1>2 DEF Mark
  <2>2. marks \in [Event -> Nat]
    BY Unchanged
  <2> HIDE DEF c
  <2> QED
    BY <1>2, <2>1, <2>2
<1>11. \A i \in DOMAIN relay[r].batch :
           relay[r].batch[i].attempts <= marks[relay[r].batch[i].event]
  BY DEF IInv, TickKnows
<1>12. copy.event = c.event /\ copy.attempts = c.attempts + 1
       /\ c.attempts <= marks[c.event]
  BY <1>2, <1>11
<1>13. ASSUME NEW i \in DOMAIN later
       PROVE  later[i].attempts <= marks'[later[i].event]
  <2>1. CASE i = 1
    <3> HIDE DEF later, copy
    <3> QED
      BY <2>1, <1>2, <1>5, <1>10, <1>12
  <2>2. CASE i # 1
    <3>1. later[i] = relay[r].batch[i] /\ i \in DOMAIN relay[r].batch
      BY <2>2, <1>5
    <3>2. relay[r].batch[i] \in Copy
      BY <3>1, <1>2
    <3>3. relay[r].batch[i].event \in Event /\ relay[r].batch[i].attempts \in Nat
      BY <3>2 DEF Copy
    <3> HIDE DEF later
    <3> QED
      BY <3>1, <3>3, <1>10, <1>11
  <2> QED
    BY <2>1, <2>2
<1>14. TickKnows(t, Range(shown'), told', marks')
  <2> HIDE DEF later, t
  <2> QED
    BY <1>7, <1>13 DEF TickKnows
<1>15. /\ outbox' = [outbox EXCEPT ![c.event] = [status |-> "processing",
                                                attempts |-> c.attempts + 1]]
       /\ DOMAIN outbox' = Event /\ outbox' = [e \in Event |-> outbox'[e]]
  BY <1>2, Unchanged DEF Mark
<1>16. FitRow(outbox'[c.event])
  BY <1>2, <1>15, Unchanged DEF FitRow, OutboxStatus
<1>17. RowKnows(outbox'[c.event], c.event, Range(shown'), told', marks')
  <2>1. outbox'[c.event].status = "processing" /\ outbox'[c.event].attempts = c.attempts + 1
    BY <1>2, <1>15, Unchanged
  <2>2. c.attempts + 1 <= marks'[c.event]
    BY <1>2, <1>10, <1>12
  <2> QED
    BY <2>1, <2>2 DEF RowKnows
<1>18. \A e \in Event : e # c.event => outbox'[e] = outbox[e]
  BY <1>15, Unchanged
<1>19. /\ stale' \subseteq Event /\ lock' = lock /\ shown' = shown /\ told' = told
       /\ mishaps' = mishaps
  BY Unchanged DEF Mark
<1>20. \A e \in Event : \/ outbox'[e] = outbox[e]
                        \/ /\ FitRow(outbox'[e])
                           /\ RowKnows(outbox'[e], e, Range(shown'), told', marks')
  BY <1>16, <1>17, <1>18
<1>21. marks' \in [Event -> Nat] /\ \A e \in Event : marks[e] <= marks'[e]
  BY <1>10
<1>22. DOMAIN outbox' = Event /\ outbox' = [e \in Event |-> outbox'[e]]
  BY <1>15
<1> HIDE DEF t, c
<1> QED
  BY <1>3, <1>9, <1>14, <1>19, <1>20, <1>21, <1>22, Unchanged, StepKeepsInv

LEMMA ShowKeeps ==
    ASSUME IInv, NEW r \in Relay, Show(r) PROVE IInv'
<1> DEFINE e == relay[r].batch[1].event
           place == IF Posts(e) = <<>> THEN "delivered" ELSE "post"
           t == [relay[r] EXCEPT !.at = place]
<1>1. relay[r].at = "dispatch" /\ relay[r].at \in AtWork
  BY DEF Show, At, AtWork
<1>2. /\ relay[r] \in Tick /\ relay[r].batch # <<>> /\ InHand(r).event = e /\ e \in Event
      /\ relay[r].posted = 0
  BY <1>1, InHandIsFirst DEF IInv, TickKnows
<1>3. relay' = [relay EXCEPT ![r] = t]
  BY <1>2 DEF Show, Goto
<1>4. t \in Tick /\ t.at = place /\ t.batch = relay[r].batch /\ t.posted = 0
  BY <1>2 DEF Tick
<1>5. FitTick(t)
  BY <1>2, <1>4, PostsAreFew DEF FitTick
<1>6. /\ shown' \in Seq(Event) /\ Range(shown) \subseteq Range(shown')
      /\ Broadcast(e) => e \in Range(shown')
  <2>1. CASE Broadcast(e) /\ e \notin Range(shown)
    <3>1. shown' = Append(shown, e)
      BY <1>2, <2>1 DEF Show
    <3>2. /\ shown' \in Seq(Event) /\ Len(shown') = Len(shown) + 1
          /\ \A i \in 1..Len(shown) : shown'[i] = shown[i]
          /\ shown'[Len(shown) + 1] = e
      BY <1>2, <3>1, Unchanged, AppendProperties
    <3>3. DOMAIN shown = 1..Len(shown) /\ DOMAIN shown' = 1..(Len(shown) + 1) /\ Len(shown) \in Nat
      BY <3>2, Unchanged, LenProperties
    <3>4. Range(shown) \subseteq Range(shown')
      BY <3>2, <3>3 DEF Range
    <3>5. e \in Range(shown')
      BY <3>2, <3>3 DEF Range
    <3> QED
      BY <3>2, <3>4, <3>5
  <2>2. CASE ~(Broadcast(e) /\ e \notin Range(shown))
    BY <1>2, <2>2, Unchanged DEF Show
  <2> QED
    BY <2>1, <2>2
<1>7. \A i \in DOMAIN t.batch : t.batch[i].attempts <= marks[t.batch[i].event]
  BY <1>4 DEF IInv, TickKnows
<1>8. Posts(e) = <<>> => DeliveredTo(e, Range(shown'), told)
  <2>1. Posts(e) = <<>> => Range(Posts(e)) = {}
    BY DEF Range
  <2> QED
    BY <1>6, <2>1 DEF DeliveredTo
<1>9. TickKnows(t, Range(shown'), told', marks')
  <2>1. t.batch[1].event = e /\ told' = told /\ marks' = marks /\ 1..0 = {}
    BY <1>4 DEF Show
  <2> HIDE DEF t
  <2> QED
    BY <1>4, <1>6, <1>7, <1>8, <2>1 DEF TickKnows
<1> HIDE DEF t
<1> QED
  BY <1>3, <1>5, <1>6, <1>9, Unchanged, StepKeepsInv DEF Show

LEMMA PostKeeps ==
    ASSUME IInv, NEW r \in Relay, Post(r) PROVE IInv'
<1> DEFINE e == relay[r].batch[1].event
           n == relay[r].posted + 1
           u == Posts(e)[n]
<1>1. relay[r].at = "post" /\ relay[r].at \in AtWork
  BY DEF Post, At, AtWork
<1>2. /\ relay[r] \in Tick /\ relay[r].batch # <<>> /\ InHand(r).event = e /\ e \in Event
      /\ relay[r].posted \in Nat /\ relay[r].posted < Len(Posts(e))
  BY <1>1, InHandIsFirst DEF IInv, RelayTypeOK, Tick
<1>3. /\ TickKnows(relay[r], Range(shown), told, marks)
      /\ Broadcast(e) => e \in Range(shown)
      /\ \A i \in 1..relay[r].posted : Posts(e)[i] \in told[e]
  BY <1>1 DEF IInv, TickKnows
<1>4. /\ outbox' = outbox /\ stale' = stale /\ lock' = lock /\ shown' = shown
      /\ marks' = marks /\ mishaps' = mishaps
  BY DEF Post
<1>5. told' = told \/ told' = [told EXCEPT ![e] = @ \cup {u}]
  BY <1>2 DEF Post, Accept
<1>6. told' \in [Event -> SUBSET Addressee] /\ \A x \in Event : told[x] \subseteq told'[x]
  <2>1. n \in 1..Len(Posts(e)) /\ Posts(e) \in Seq(Addressee)
    BY <1>2, PostsAreFew
  <2>2. u \in Addressee
    <3> HIDE DEF e, n
    <3> QED
      BY <2>1
  <2>3. e \in Event /\ told \in [Event -> SUBSET Addressee]
    BY <1>2, Unchanged
  <2> HIDE DEF e, u
  <2>4. CASE told' = told
    BY <2>3, <2>4
  <2>5. CASE told' = [told EXCEPT ![e] = @ \cup {u}]
    <3>1. told[e] \cup {u} \in SUBSET Addressee
      BY <2>2, <2>3
    <3>2. told' \in [Event -> SUBSET Addressee]
      BY <2>3, <2>5, <3>1
    <3>3. \A x \in Event : told[x] \subseteq told'[x]
      BY <2>3, <2>5
    <3> QED
      BY <3>2, <3>3
  <2> QED
    BY <1>5, <2>4, <2>5
<1>7. CASE Goto(r, "failed")
  <2> DEFINE t == [relay[r] EXCEPT !.at = "failed"]
  <2>1. relay' = [relay EXCEPT ![r] = t]
    BY <1>7 DEF Goto
  <2>2. t \in Tick /\ t.at = "failed" /\ t.batch = relay[r].batch
    BY <1>2 DEF Tick
  <2>3. FitTick(t)
    BY <1>2, <2>2 DEF FitTick
  <2>4. TickKnows(t, Range(shown'), told', marks')
    BY <1>3, <1>4, <2>2 DEF TickKnows
  <2> HIDE DEF t
  <2> QED
    BY <1>4, <1>6, <2>1, <2>3, <2>4, Unchanged, StepKeepsInv
<1>8. CASE /\ Accept(e, u)
           /\ relay' = [relay EXCEPT ![r].posted = n,
                           ![r].at = IF n = Len(Posts(e)) THEN "delivered" ELSE "post"]
  <2> DEFINE place == IF n = Len(Posts(e)) THEN "delivered" ELSE "post"
             t == [relay[r] EXCEPT !.posted = n, !.at = place]
  <2>1. relay' = [relay EXCEPT ![r] = t]
    BY <1>8, Unchanged
  <2>2. n \in Nat /\ n <= Len(Posts(e)) /\ Len(Posts(e)) \in Nat
        /\ DOMAIN Posts(e) = 1..Len(Posts(e))
    BY <1>2, PostsAreFew
  <2>3. t \in Tick /\ t.at = place /\ t.batch = relay[r].batch /\ t.posted = n
    BY <1>2, <2>2 DEF Tick
  <2>4. FitTick(t)
    BY <1>2, <2>2, <2>3 DEF FitTick
  <2>5. u \in told'[e]
    BY <1>2, <1>8, Unchanged DEF Accept
  <2>6. \A i \in 1..n : Posts(e)[i] \in told'[e]
    <3>1. \A i \in 1..n : i = n \/ i \in 1..relay[r].posted
      BY <1>2
    <3>2. told[e] \subseteq told'[e]
      BY <1>2, <1>6
    <3> QED
      BY <1>3, <2>5, <3>1, <3>2
  <2>7. n = Len(Posts(e)) => Range(Posts(e)) \subseteq told'[e]
    BY <2>2, <2>6 DEF Range
  <2>8. TickKnows(t, Range(shown'), told', marks')
    <3>1. t.batch[1].event = e /\ t.at \in {"delivered", "post"}
      BY <2>3
    <3>2. \A i \in DOMAIN t.batch : t.batch[i].attempts <= marks[t.batch[i].event]
      BY <1>3, <2>3 DEF TickKnows
    <3>3. t.at = "delivered" => DeliveredTo(e, Range(shown'), told')
      BY <1>3, <1>4, <2>3, <2>7 DEF DeliveredTo
    <3> HIDE DEF t, e
    <3> QED
      BY <1>3, <1>4, <2>3, <2>6, <3>1, <3>2, <3>3 DEF TickKnows
  <2> HIDE DEF t
  <2> QED
    BY <1>4, <1>6, <2>1, <2>4, <2>8, Unchanged, StepKeepsInv
<1>9. \/ Goto(r, "failed")
      \/ /\ Accept(e, u)
         /\ relay' = [relay EXCEPT ![r].posted = n,
                         ![r].at = IF n = Len(Posts(e)) THEN "delivered" ELSE "post"]
  BY <1>2 DEF Post
<1> QED
  BY <1>7, <1>8, <1>9

(* What is left of a batch knows what the batch knew.                      *)
LEMMA SettleKeeps ==
    ASSUME IInv, NEW r \in Relay, relay[r].at \in AtWork,
           NEW status \in OutboxStatus, Settle(r, status),
           RowKnows([status |-> status, attempts |-> 0], InHand(r).event,
                    Range(shown), told, marks)
    PROVE  IInv'
<1> DEFINE e == relay[r].batch[1].event
           place == IF Len(relay[r].batch) = 1 THEN "unlock" ELSE "batch"
           rest == Tail(relay[r].batch)
           t == [at |-> place, batch |-> rest, posted |-> 0]
<1>1. /\ relay[r].batch \in Seq(Copy) /\ relay[r].batch # <<>>
      /\ InHand(r).event = e /\ e \in Event
  BY InHandIsFirst DEF IInv
<1>2. /\ outbox' = [outbox EXCEPT ![e].status = status]
      /\ relay' = [relay EXCEPT ![r] = t]
      /\ UNCHANGED <<stale, lock, shown, marks, told, mishaps>>
  BY <1>1 DEF Settle
<1>3. /\ rest \in Seq(Copy) /\ Len(relay[r].batch) \in Nat \ {0}
      /\ Len(rest) = Len(relay[r].batch) - 1
      /\ \A i \in 1..Len(rest) : rest[i] = relay[r].batch[i + 1]
  BY <1>1, HeadTailProperties, EmptySeq, LenProperties
<1>4. DOMAIN rest = 1..Len(rest) /\ DOMAIN relay[r].batch = 1..Len(relay[r].batch)
  BY <1>1, <1>3, LenProperties
<1>5. place = "batch" => rest # <<>>
  <2> HIDE DEF rest
  <2>1. place = "batch" => Len(rest) # 0
    BY <1>3
  <2>2. rest = <<>> <=> Len(rest) = 0
    BY <1>3, EmptySeq
  <2> QED
    BY <2>1, <2>2
<1>6. FitTick(t)
  <2> HIDE DEF rest
  <2> QED
    BY <1>3, <1>5 DEF FitTick, Tick, AtWork
<1>7. \A i \in DOMAIN rest : rest[i].attempts <= marks[rest[i].event]
  <2>1. \A i \in DOMAIN relay[r].batch :
            relay[r].batch[i].attempts <= marks[relay[r].batch[i].event]
    BY DEF IInv, TickKnows
  <2>2. \A i \in DOMAIN rest : i + 1 \in DOMAIN relay[r].batch
    BY <1>3, <1>4
  <2> QED
    BY <1>3, <1>4, <2>1, <2>2
<1>8. TickKnows(t, Range(shown'), told', marks')
  <2> HIDE DEF rest
  <2> QED
    BY <1>2, <1>7 DEF TickKnows
<1>9. DOMAIN outbox' = Event /\ outbox' = [x \in Event |-> outbox'[x]]
  BY <1>2, Unchanged
<1>10. /\ FitRow(outbox'[e]) /\ outbox'[e].status = status
       /\ outbox'[e].attempts = outbox[e].attempts
  BY <1>1, <1>2, Unchanged DEF FitRow
<1>11. RowKnows(outbox'[e], e, Range(shown'), told', marks')
  <2>1. outbox[e].attempts <= marks[e]
    BY <1>1 DEF IInv, RowKnows
  <2> HIDE DEF e
  <2> QED
    BY <1>1, <1>2, <1>10, <2>1 DEF RowKnows
<1>12. \A x \in Event : x # e => outbox'[x] = outbox[x]
  BY <1>2, Unchanged
<1>13. \A x \in Event : \/ outbox'[x] = outbox[x]
                        \/ /\ FitRow(outbox'[x])
                           /\ RowKnows(outbox'[x], x, Range(shown'), told', marks')
  BY <1>10, <1>11, <1>12
<1> HIDE DEF t
<1> QED
  BY <1>2, <1>6, <1>8, <1>9, <1>13, Unchanged, StepKeepsInv

LEMMA MarkProcessedKeeps ==
    ASSUME IInv, NEW r \in Relay, MarkProcessed(r) PROVE IInv'
<1>1. relay[r].at = "delivered" /\ relay[r].at \in AtWork /\ Settle(r, "processed")
  BY DEF MarkProcessed, At, AtWork
<1>2. InHand(r) = relay[r].batch[1] /\ InHand(r).event \in Event
  BY <1>1, InHandIsFirst DEF IInv
<1>3. DeliveredTo(InHand(r).event, Range(shown), told)
  BY <1>1, <1>2 DEF IInv, TickKnows
<1>4. RowKnows([status |-> "processed", attempts |-> 0], InHand(r).event,
               Range(shown), told, marks)
  BY <1>2, <1>3, Unchanged DEF RowKnows
<1> QED
  BY <1>1, <1>4, SettleKeeps DEF OutboxStatus

(* A dead letter: the copy's count, which reached the limit, is of         *)
(* deliveries that were started.                                           *)
LEMMA MarkFailedKeeps ==
    ASSUME IInv, NEW r \in Relay, MarkFailed(r) PROVE IInv'
<1> DEFINE c == InHand(r)
           status == IF c.attempts >= MaxAttempts THEN "dead_letter" ELSE "pending"
<1>1. relay[r].at = "failed" /\ relay[r].at \in AtWork /\ Settle(r, status)
  BY DEF MarkFailed, At, AtWork
<1>2. /\ c = relay[r].batch[1] /\ c.event \in Event /\ c.attempts \in Nat
      /\ 1 \in DOMAIN relay[r].batch
  BY <1>1, InHandIsFirst DEF IInv
<1>3. c.attempts <= marks[c.event] /\ (Broadcast(c.event) => c.event \in Range(shown))
  BY <1>1, <1>2 DEF IInv, TickKnows
<1>4. marks[c.event] \in Nat /\ MaxAttempts \in Nat
  BY <1>2, Unchanged, RelayAssumption
<1>5. status = "dead_letter" => marks[c.event] >= MaxAttempts
  BY <1>2, <1>3, <1>4
<1>6. RowKnows([status |-> status, attempts |-> 0], c.event, Range(shown), told, marks)
  <2>1. status \in {"dead_letter", "pending"} /\ 0 <= marks[c.event]
    BY <1>4
  <2> HIDE DEF status, c
  <2> QED
    BY <1>3, <1>5, <2>1 DEF RowKnows
<1>7. status \in OutboxStatus
  BY DEF OutboxStatus
<1> HIDE DEF status
<1> QED
  BY <1>1, <1>6, <1>7, SettleKeeps

LEMMA UnlockKeeps ==
    ASSUME IInv, NEW r \in Relay, Unlock(r) PROVE IInv'
<1>1. [NewTick EXCEPT !.at = "idle"] = NewTick
  BY DEF NewTick
<1>2. FitTick(NewTick) /\ TickKnows(NewTick, Range(shown'), told', marks')
  BY <1>1, EmptyTick
<1>3. lock' \in Relay \cup {NoRelay}
  BY Unchanged DEF Unlock
<1> QED
  BY <1>2, <1>3, Unchanged, StepKeepsInv DEF Unlock

LEMMA QueryFailsKeeps ==
    ASSUME IInv, NEW r \in Relay, QueryFails(r) PROVE IInv'
<1>1. mishaps' \in 0..MaxMishaps
  BY MishapCounts DEF QueryFails, IInv
<1>2. CASE At(r, "delivered") /\ Goto(r, "failed")
  <2> DEFINE t == [relay[r] EXCEPT !.at = "failed"]
  <2>1. relay' = [relay EXCEPT ![r] = t]
    BY <1>2 DEF Goto
  <2>2. relay[r].at = "delivered" /\ relay[r].at \in AtWork
    BY <1>2 DEF At, AtWork
  <2>3. relay[r] \in Tick /\ relay[r].batch # <<>>
    BY <2>2, InHandIsFirst DEF IInv
  <2>4. t \in Tick /\ t.at = "failed" /\ t.batch = relay[r].batch
    BY <2>3 DEF Tick
  <2>5. FitTick(t)
    BY <2>3, <2>4 DEF FitTick
  <2>6. TickKnows(relay[r], Range(shown), told, marks)
    BY DEF IInv
  <2>7. TickKnows(t, Range(shown'), told', marks')
    BY <2>2, <2>4, <2>6 DEF TickKnows, QueryFails
  <2> HIDE DEF t
  <2> QED
    BY <1>1, <2>1, <2>5, <2>7, Unchanged, StepKeepsInv DEF QueryFails
<1>3. CASE relay' = [relay EXCEPT ![r] = [NewTick EXCEPT !.at = "unlock"]]
  <2> DEFINE t == [NewTick EXCEPT !.at = "unlock"]
  <2>1. FitTick(t) /\ TickKnows(t, Range(shown'), told', marks')
    BY EmptyTick
  <2> HIDE DEF t
  <2>2. relay' = [relay EXCEPT ![r] = t]
    BY <1>3 DEF t
  <2> QED
    BY <1>1, <2>1, <2>2, Unchanged, StepKeepsInv DEF QueryFails
<1> QED
  BY <1>2, <1>3 DEF QueryFails

LEMMA CrashKeeps ==
    ASSUME IInv, NEW r \in Relay, Crash(r) PROVE IInv'
<1> DEFINE t == IF Clustered THEN [NewTick EXCEPT !.at = "off"] ELSE NewTick
<1>1. [NewTick EXCEPT !.at = "idle"] = NewTick
  BY DEF NewTick
<1>2. FitTick(t) /\ TickKnows(t, Range(shown'), told', marks')
  BY <1>1, EmptyTick
<1>3. mishaps' \in 0..MaxMishaps /\ relay' = [relay EXCEPT ![r] = t]
      /\ lock' \in Relay \cup {NoRelay}
  BY MishapCounts, Unchanged DEF Crash, IInv
<1> HIDE DEF t
<1> QED
  BY <1>2, <1>3, Unchanged, StepKeepsInv DEF Crash

LEMMA CloseIdleKeeps ==
    ASSUME IInv, NEW r \in Relay, CloseIdle(r) PROVE IInv'
BY Unchanged, QuietStepKeepsInv DEF CloseIdle

LEMMA LoseLockKeeps ==
    ASSUME IInv, NEW r \in Relay, LoseLock(r) PROVE IInv'
<1>1. mishaps' \in 0..MaxMishaps
  BY MishapCounts DEF LoseLock, IInv
<1> QED
  BY <1>1, Unchanged, QuietStepKeepsInv DEF LoseLock

LEMMA GrowStaleKeeps ==
    ASSUME IInv, NEW e \in Event, GrowStale(e) PROVE IInv'
<1>1. stale' \subseteq Event
  BY Unchanged DEF GrowStale
<1> QED
  BY <1>1, Unchanged, QuietStepKeepsInv DEF GrowStale

LEMMA RelayStepKeepsInv == IInv /\ [RelayNext]_relayVars => IInv'
<1> SUFFICES ASSUME IInv, [RelayNext]_relayVars PROVE IInv'
  OBVIOUS
<1>1. CASE UNCHANGED relayVars
  BY <1>1, Unchanged, QuietStepKeepsInv DEF relayVars
<1>2. ASSUME NEW r \in Relay, TryLock(r) \/ Work(r) \/ CloseIdle(r)
                                \/ LoseLock(r) \/ QueryFails(r) \/ Crash(r)
      PROVE  IInv'
  BY <1>2, TryLockKeeps, ReclaimKeeps, FetchKeeps, MarkKeeps, ShowKeeps, PostKeeps,
     MarkProcessedKeeps, MarkFailedKeeps, UnlockKeeps, CloseIdleKeeps, LoseLockKeeps,
     QueryFailsKeeps, CrashKeeps DEF Work
<1>3. ASSUME NEW e \in Event, GrowStale(e) PROVE IInv'
  BY <1>3, GrowStaleKeeps
<1> QED
  BY <1>1, <1>2, <1>3 DEF RelayNext

LEMMA RelayInvariant == RelaySpec => []IInv
BY RelayInitInv, RelayStepKeepsInv, PTL DEF RelaySpec

-----------------------------------------------------------------------------
(* A relay never posts past the users an event concerns and never has an   *)
(* empty hand at work, whatever batch it fetched.                          *)
THEOREM RelayTypesAlways == RelaySpec => []RelayTypeOK
<1>1. IInv => RelayTypeOK
  BY DEF IInv
<1> QED
  BY <1>1, RelayInvariant, PTL

(* At-least-once delivery needs no lock: however many relays dispatch one  *)
(* event, crash, or lose an answer, an event is processed only when it was *)
(* shown, if its type is, and every post its consumer makes of it was      *)
(* accepted, one without a winner or a user included.                      *)
THEOREM AtLeastOnceAlways == RelaySpec => []AtLeastOnce
<1>1. IInv => AtLeastOnce
  BY DEF IInv, RowKnows, DeliveredTo, AtLeastOnce, Delivered
<1> QED
  BY <1>1, RelayInvariant, PTL

(* No event is given up early, although relays write back stale counts.    *)
THEOREM GivenUpLateAlways == RelaySpec => []GivenUpLate
<1>1. IInv => GivenUpLate
  BY DEF IInv, RowKnows, GivenUpLate
<1> QED
  BY <1>1, RelayInvariant, PTL

-----------------------------------------------------------------------------
(* The order of first sight.  While nothing went wrong the lock keeps the  *)
(* ticks apart, a batch leaves out no earlier event that nobody has seen,  *)
(* and what is no longer pending has been seen or is about to be.          *)
OneTick == \A r \in Relay : relay[r].at # "idle" => lock = r

AheadOf(batch, seen) ==
    \A i \in DOMAIN batch : \A e \in Event :
        e < batch[i].event /\ Broadcast(e) =>
            e \in seen \/ \E j \in 1..(i - 1) : batch[j].event = e

BatchesInOrder ==
    \A r \in Relay : relay[r].at \in AtWork => AheadOf(relay[r].batch, Range(shown))

TakenIsSeen ==
    \A e \in Event : outbox[e].status # "pending" /\ Broadcast(e) =>
        \/ e \in Range(shown)
        \/ \E r \in Relay : relay[r].at = "dispatch" /\ relay[r].batch[1].event = e

InOrder == OneTick /\ BatchesInOrder /\ TakenIsSeen

OInv == FirstSeenInOrder /\ (mishaps = 0 => InOrder)

LEMMA EventIsInterval == Event = 1..Len(Kinds) /\ Len(Kinds) \in Nat /\ Event \subseteq Nat
<1>1. DOMAIN Kinds = 1..Len(Kinds) /\ Len(Kinds) \in Nat
  BY RelayAssumption, LenProperties
<1> QED
  BY <1>1 DEF Event

LEMMA InitOrder == RelayInit => OInv
<1> SUFFICES ASSUME RelayInit PROVE OInv
  OBVIOUS
<1>1. FirstSeenInOrder
  BY DEF RelayInit, FirstSeenInOrder
<1>2. OneTick /\ BatchesInOrder
  BY DEF RelayInit, OneTick, BatchesInOrder, NewTick, AtWork
<1>3. TakenIsSeen
  BY DEF RelayInit, TakenIsSeen
<1> QED
  BY <1>1, <1>2, <1>3 DEF OInv, InOrder

(* A step of the one tick that shows nothing.                              *)
LEMMA QuietOrder ==
    ASSUME IInv, OInv, InOrder, NEW r \in Relay, NEW t,
           \A q \in Relay : relay[q].at # "idle" => q = r,
           relay' = [relay EXCEPT ![r] = t],
           t.at # "idle" => lock' = r,
           t.at \in AtWork => AheadOf(t.batch, Range(shown)),
           UNCHANGED <<shown, mishaps>>,
           \A e \in Event : outbox'[e].status # "pending" /\ Broadcast(e) =>
               \/ e \in Range(shown)
               \/ t.at = "dispatch" /\ t.batch[1].event = e
    PROVE  OInv'
<1>1. \A q \in Relay : relay'[q] = IF q = r THEN t ELSE relay[q]
  BY Unchanged
<1>2. OneTick'
  BY <1>1 DEF OneTick
<1>3. BatchesInOrder'
  BY <1>1 DEF BatchesInOrder, AtWork
<1>4. TakenIsSeen'
  BY <1>1 DEF TakenIsSeen
<1>5. FirstSeenInOrder'
  BY DEF OInv, FirstSeenInOrder
<1> QED
  BY <1>2, <1>3, <1>4, <1>5 DEF OInv, InOrder

(* Only one tick is under way, and what it has not in hand was seen.       *)
LEMMA Lone ==
    ASSUME InOrder, NEW r \in Relay, relay[r].at # "idle"
    PROVE  /\ lock = r
           /\ \A q \in Relay : relay[q].at # "idle" => q = r
           /\ relay[r].at # "dispatch" =>
                 \A e \in Event : outbox[e].status # "pending" /\ Broadcast(e) => e \in Range(shown)
BY DEF InOrder, OneTick, TakenIsSeen

(* A relay that does not work takes or gives up the lock.                  *)
LEMMA LockOrder ==
    ASSUME IInv, OInv, InOrder, NEW r \in Relay, TryLock(r) \/ CloseIdle(r)
    PROVE  OInv'
<1>1. relay[r].at = "idle" /\ lock \in {NoRelay, r} /\ UNCHANGED <<outbox, shown, mishaps>>
  BY DEF TryLock, CloseIdle, At
<1>2. \A q \in Relay : relay[q].at = "idle"
  BY <1>1, RelayAssumption DEF InOrder, OneTick
<1>3. \A e \in Event : outbox[e].status # "pending" /\ Broadcast(e) => e \in Range(shown)
  BY <1>2 DEF InOrder, TakenIsSeen
<1>4. CASE TryLock(r)
  <2> DEFINE t == [relay[r] EXCEPT !.at = "reclaim"]
  <2>1. relay' = [relay EXCEPT ![r] = t] /\ lock' = r
    BY <1>4, Unchanged DEF TryLock, Goto
  <2>2. t.at = "reclaim"
    BY Unchanged DEF Tick
  <2> HIDE DEF t
  <2> QED
    BY <1>1, <1>2, <1>3, <2>1, <2>2, QuietOrder DEF AtWork
<1>5. CASE CloseIdle(r)
  <2>1. relay' = [relay EXCEPT ![r] = relay[r]]
    BY <1>5, Unchanged DEF CloseIdle
  <2> QED
    BY <1>1, <1>2, <1>3, <2>1, QuietOrder DEF AtWork
<1> QED
  BY <1>4, <1>5

LEMMA ReclaimOrder ==
    ASSUME IInv, OInv, InOrder, NEW r \in Relay, Reclaim(r)
    PROVE  OInv'
<1> DEFINE t == [relay[r] EXCEPT !.at = "fetch"]
<1>1. relay[r].at = "reclaim" /\ UNCHANGED <<lock, shown, mishaps>>
  BY DEF Reclaim, At
<1>2. relay' = [relay EXCEPT ![r] = t] /\ t.at = "fetch"
  BY Unchanged DEF Reclaim, Goto, Tick
<1>3. \A e \in Event : outbox'[e].status \in {outbox[e].status, "pending"}
  BY Unchanged DEF Reclaim
<1> HIDE DEF t
<1> QED
  BY <1>1, <1>2, <1>3, Lone, QuietOrder DEF AtWork

(* The oldest pending events: what they leave out has been taken before.   *)
LEMMA FetchOrder ==
    ASSUME IInv, OInv, InOrder, NEW r \in Relay, Fetch(r)
    PROVE  OInv'
<1>1. PICK some \in OldestFirst :
        /\ At(r, "fetch")
        /\ relay' = [relay EXCEPT ![r].at = IF some = <<>> THEN "unlock" ELSE "batch",
                                  ![r].batch = [i \in DOMAIN some |->
                                      [event |-> some[i], attempts |-> outbox[some[i]].attempts]]]
        /\ UNCHANGED <<outbox, stale, lock, shown, marks, told, mishaps>>
  BY DEF Fetch
<1> DEFINE copies == [i \in DOMAIN some |->
                        [event |-> some[i], attempts |-> outbox[some[i]].attempts]]
           t == [relay[r] EXCEPT !.at = IF some = <<>> THEN "unlock" ELSE "batch",
                                 !.batch = copies]
<1>2. PICK n \in Nat : some \in [1..n -> Pending]
  BY RelayAssumption DEF OldestFirst, Batch
<1>3. /\ DOMAIN some = 1..n /\ \A i \in 1..n : some[i] \in Nat
      /\ \A i, j \in 1..n : i < j => some[i] < some[j]
      /\ \A e \in Pending : (\A i \in 1..n : some[i] # e) => \A i \in 1..n : some[i] < e
  BY <1>2, EventIsInterval DEF OldestFirst, Pending, Range
<1>4. relay[r].at = "fetch"
  BY <1>1 DEF At
<1>5. \A e \in Event : e \notin Pending /\ Broadcast(e) => e \in Range(shown)
  BY <1>4, Lone DEF Pending
<1>6. DOMAIN copies = 1..n /\ \A i \in 1..n : copies[i].event = some[i]
  BY <1>3
<1>7. /\ t.batch = copies /\ t.at \in {"unlock", "batch"}
      /\ relay' = [relay EXCEPT ![r] = t]
  <2> HIDE DEF copies
  <2>1. relay[r] \in Tick /\ relay \in [Relay -> Tick]
    BY Unchanged
  <2> QED
    BY <1>1, <2>1 DEF Tick, copies
<1> HIDE DEF copies, t
<1>8. AheadOf(copies, Range(shown))
  <2> SUFFICES ASSUME NEW i \in 1..n, NEW e \in Event, e < some[i], Broadcast(e),
                      e \notin Range(shown)
               PROVE  \E j \in 1..(i - 1) : copies[j].event = e
    BY <1>6 DEF AheadOf
  <2>1. e \in Pending /\ e \in Nat
    BY <1>5, EventIsInterval
  <2>2. PICK j \in 1..n : some[j] = e
    BY <1>3, <2>1
  <2>3. j < i
    BY <1>2, <1>3, <2>1, <2>2
  <2>4. j \in 1..(i - 1)
    BY <1>2, <2>3
  <2> QED
    BY <1>6, <2>2, <2>4
<1> QED
  BY <1>1, <1>4, <1>5, <1>7, <1>8, Lone, QuietOrder DEF Pending

LEMMA MarkOrder ==
    ASSUME IInv, OInv, InOrder, NEW r \in Relay, Mark(r)
    PROVE  OInv'
<1> DEFINE b == relay[r].batch
           c == InHand(r)
           b2 == [b EXCEPT ![1].attempts = c.attempts + 1]
           t == [relay[r] EXCEPT !.at = "dispatch", !.batch = b2, !.posted = 0]
<1>1. relay[r].at = "batch" /\ relay[r].at \in AtWork /\ UNCHANGED <<lock, shown, mishaps>>
  BY DEF Mark, At, AtWork
<1>2. /\ b \in Seq(Copy) /\ 1 \in DOMAIN b /\ c = b[1] /\ c \in Copy /\ c.event \in Event
      /\ relay[r] \in Tick
  BY <1>1, InHandIsFirst DEF IInv
<1>3. DOMAIN b2 = DOMAIN b /\ \A i \in DOMAIN b : b2[i].event = b[i].event
  <2>1. \A i \in DOMAIN b : b[i] \in Copy
    BY <1>2, LenProperties, ElementOfSeq
  <2> HIDE DEF b
  <2> QED
    BY <1>2, <2>1 DEF Copy
<1>4. relay' = [relay EXCEPT ![r] = t] /\ t.at = "dispatch" /\ t.batch = b2
  <2>1. relay' = [relay EXCEPT ![r].at = "dispatch", ![r].batch[1].attempts = c.attempts + 1,
                               ![r].posted = 0]
    BY DEF Mark
  <2>2. relay \in [Relay -> Tick]
    BY Unchanged
  <2> HIDE DEF c
  <2> QED
    BY <1>2, <2>1, <2>2 DEF Tick
<1>5. AheadOf(b2, Range(shown))
  <2>1. AheadOf(b, Range(shown))
    BY <1>1 DEF InOrder, BatchesInOrder
  <2>2. DOMAIN b = 1..Len(b) /\ Len(b) \in Nat
    BY <1>2, LenProperties
  <2>3. \A i \in DOMAIN b : \A j \in 1..(i - 1) : j \in DOMAIN b
    BY <2>2
  <2> HIDE DEF b, b2
  <2> QED
    BY <1>3, <2>1, <2>3 DEF AheadOf
<1>6. \A e \in Event : e # c.event => outbox'[e] = outbox[e]
  BY <1>2, Unchanged DEF Mark
<1>7. t.batch[1].event = c.event
  BY <1>2, <1>3, <1>4
<1> HIDE DEF t, b2, b, c
<1> QED
  BY <1>1, <1>4, <1>5, <1>6, <1>7, Lone, QuietOrder

LEMMA ShowOrder ==
    ASSUME IInv, OInv, InOrder, mishaps = 0, NEW r \in Relay, Show(r)
    PROVE  OInv'
<1> DEFINE b == relay[r].batch
           first == b[1].event
           n == Len(shown)
<1>1. relay[r].at = "dispatch" /\ relay[r].at \in AtWork /\ UNCHANGED <<outbox, lock, mishaps>>
  BY DEF Show, At, AtWork
<1>2. 1 \in DOMAIN b /\ InHand(r).event = first /\ first \in Event /\ relay[r] \in Tick
  BY <1>1, InHandIsFirst DEF IInv
<1>3. /\ n \in Nat /\ DOMAIN shown = 1..n /\ shown \in Seq(Event)
      /\ \/ /\ UNCHANGED shown
            /\ Broadcast(first) => first \in Range(shown)
         \/ /\ Broadcast(first)
            /\ DOMAIN shown' = 1..(n + 1)
            /\ \A i \in 1..n : shown'[i] = shown[i]
            /\ shown'[n + 1] = first
  <2>1. shown \in Seq(Event)
    BY Unchanged
  <2>2. CASE Broadcast(first) /\ first \notin Range(shown)
    <3>1. shown' = Append(shown, first)
      BY <1>2, <2>2 DEF Show
    <3> QED
      BY <1>2, <2>1, <2>2, <3>1, AppendProperties, LenProperties
  <2>3. CASE ~(Broadcast(first) /\ first \notin Range(shown))
    BY <1>2, <2>1, <2>3, LenProperties DEF Show
  <2> QED
    BY <2>2, <2>3
<1>4. Range(shown) \subseteq Range(shown') /\ (Broadcast(first) => first \in Range(shown'))
  BY <1>3 DEF Range
<1>5. AheadOf(b, Range(shown))
  BY <1>1 DEF InOrder, BatchesInOrder
<1>6. \A q \in Relay : relay'[q].at # "idle" => q = r
  BY <1>1, Lone, Unchanged DEF Show, Goto
<1>7. relay'[r].batch = b /\ relay'[r].at # "idle"
  BY <1>2, Unchanged DEF Show, Goto, Tick
<1>8. OneTick'
  BY <1>1, <1>6, Lone DEF OneTick
<1>9. BatchesInOrder'
  <2>1. AheadOf(b, Range(shown'))
    <3> HIDE DEF b
    <3> QED
      BY <1>4, <1>5 DEF AheadOf
  <2> QED
    BY <1>6, <1>7, <2>1 DEF BatchesInOrder, AtWork
<1>10. TakenIsSeen'
  <2>1. \A e \in Event : outbox[e].status # "pending" /\ Broadcast(e) =>
            e \in Range(shown) \/ e = first
    BY <1>1, Lone DEF InOrder, TakenIsSeen
  <2> QED
    BY <1>1, <1>4, <2>1 DEF TakenIsSeen
<1>11. FirstSeenInOrder'
  <2>1. \A i \in 1..n : \A e \in 1..shown[i] : Broadcast(e) => e \in {shown[j] : j \in 1..i}
    BY <1>3 DEF OInv, FirstSeenInOrder
  <2>2. CASE UNCHANGED shown
    BY <1>1, <2>2 DEF OInv, FirstSeenInOrder
  <2>3. CASE /\ DOMAIN shown' = 1..(n + 1)
             /\ \A i \in 1..n : shown'[i] = shown[i]
             /\ shown'[n + 1] = first
    <3>1. ASSUME NEW i \in 1..n, NEW e \in 1..shown[i], Broadcast(e)
          PROVE  e \in {shown'[j] : j \in 1..i}
      <4>1. PICK j \in 1..i : e = shown[j]
        BY <2>1, <3>1
      <4>2. j \in 1..n
        BY <1>3
      <4> QED
        BY <2>3, <4>1, <4>2
    <3>2. ASSUME NEW e \in 1..first, Broadcast(e)
          PROVE  e \in {shown'[j] : j \in 1..(n + 1)}
      <4>1. CASE e = first
        BY <1>3, <2>3, <4>1
      <4>2. CASE e # first
        <5>1. e \in Event /\ e < first
          BY <1>2, <4>2, EventIsInterval
        <5>2. e \in Range(shown)
          BY <1>2, <1>5, <3>2, <5>1 DEF AheadOf
        <5>3. PICK j \in 1..n : e = shown[j]
          BY <1>3, <5>2 DEF Range
        <5>4. j \in 1..(n + 1)
          BY <1>3
        <5> QED
          BY <2>3, <5>3, <5>4
      <4> QED
        BY <4>1, <4>2
    <3>3. \A i \in 1..(n + 1) : i \in 1..n \/ i = n + 1
      BY <1>3
    <3>4. \A i \in DOMAIN shown' : \A e \in 1..shown'[i] :
              Broadcast(e) => e \in {shown'[j] : j \in 1..i}
      BY <2>3, <3>1, <3>2, <3>3
    <3> QED
      BY <3>4 DEF FirstSeenInOrder
  <2> QED
    BY <1>3, <2>2, <2>3
<1> QED
  BY <1>8, <1>9, <1>10, <1>11 DEF OInv, InOrder

LEMMA PostOrder ==
    ASSUME IInv, OInv, InOrder, NEW r \in Relay, Post(r)
    PROVE  OInv'
<1>1. /\ relay[r].at = "post" /\ relay[r].at \in AtWork
      /\ UNCHANGED <<outbox, stale, lock, shown, marks, mishaps>>
  BY DEF Post, At, AtWork
<1>2. PICK place \in {"delivered", "post", "failed"}, n \in {relay[r].posted, relay[r].posted + 1} :
          relay' = [relay EXCEPT ![r] = [relay[r] EXCEPT !.at = place, !.posted = n]]
  <2>1. relay[r] \in Tick /\ relay \in [Relay -> Tick]
    BY Unchanged
  <2>2. CASE relay' = [relay EXCEPT ![r].posted = relay[r].posted + 1,
                 ![r].at = IF relay[r].posted + 1 = Len(Posts(InHand(r).event))
                           THEN "delivered" ELSE "post"]
    BY <2>1, <2>2 DEF Tick
  <2>3. CASE Goto(r, "failed")
    BY <2>1, <2>3 DEF Tick, Goto
  <2> QED
    BY <2>2, <2>3 DEF Post
<1> DEFINE t == [relay[r] EXCEPT !.at = place, !.posted = n]
<1>3. t.at = place /\ t.batch = relay[r].batch
  BY Unchanged DEF Tick
<1>4. AheadOf(relay[r].batch, Range(shown))
  BY <1>1 DEF InOrder, BatchesInOrder
<1>5. relay' = [relay EXCEPT ![r] = t]
  BY <1>2
<1> HIDE DEF t
<1> QED
  BY <1>1, <1>3, <1>4, <1>5, Lone, QuietOrder

(* A settled event has been seen; the rest of its batch is in order.       *)
LEMMA SettleOrder ==
    ASSUME IInv, OInv, InOrder, NEW r \in Relay, MarkProcessed(r) \/ MarkFailed(r)
    PROVE  OInv'
<1> DEFINE b == relay[r].batch
           first == b[1].event
           rest == Tail(b)
           t == [at |-> IF Len(b) = 1 THEN "unlock" ELSE "batch", batch |-> rest, posted |-> 0]
<1>1. relay[r].at \in {"delivered", "failed"} /\ relay[r].at \in AtWork
  BY DEF MarkProcessed, MarkFailed, At, AtWork
<1>2. PICK status : Settle(r, status)
  BY DEF MarkProcessed, MarkFailed
<1>3. b \in Seq(Copy) /\ b # <<>> /\ InHand(r).event = first /\ first \in Event
  BY <1>1, InHandIsFirst DEF IInv
<1>4. /\ outbox' = [outbox EXCEPT ![first].status = status]
      /\ relay' = [relay EXCEPT ![r] = t]
      /\ UNCHANGED <<lock, shown, mishaps>>
  BY <1>2, <1>3 DEF Settle
<1>5. Broadcast(first) => first \in Range(shown)
  BY <1>1 DEF IInv, TickKnows
<1>6. /\ Len(b) \in Nat /\ DOMAIN b = 1..Len(b) /\ DOMAIN rest = 1..(Len(b) - 1)
      /\ \A i \in DOMAIN rest : rest[i] = b[i + 1]
  BY <1>3, HeadTailProperties, LenProperties
<1>7. AheadOf(b, Range(shown))
  BY <1>1 DEF InOrder, BatchesInOrder
<1> HIDE DEF rest, b
<1>8. AheadOf(rest, Range(shown))
  <2> SUFFICES ASSUME NEW i \in DOMAIN rest, NEW e \in Event, e < rest[i].event, Broadcast(e),
                      e \notin Range(shown)
               PROVE  \E j \in 1..(i - 1) : rest[j].event = e
    BY DEF AheadOf
  <2>1. i + 1 \in DOMAIN b /\ rest[i].event = b[i + 1].event /\ i \in Nat
    BY <1>6
  <2>2. PICK j \in 1..(i + 1 - 1) : b[j].event = e
    BY <1>7, <2>1 DEF AheadOf
  <2>3. j # 1
    BY <1>5, <2>2
  <2>4. j - 1 \in 1..(i - 1) /\ j - 1 \in DOMAIN rest /\ (j - 1) + 1 = j
    BY <1>6, <2>1, <2>3
  <2> QED
    BY <1>6, <2>2, <2>4
<1>9. \A e \in Event : e # first => outbox'[e] = outbox[e]
  BY <1>4, Unchanged
<1>10. t.at \in {"unlock", "batch"} /\ t.batch = rest
  OBVIOUS
<1> HIDE DEF t, first
<1> QED
  BY <1>1, <1>4, <1>5, <1>8, <1>9, <1>10, Lone, QuietOrder

LEMMA UnlockOrder ==
    ASSUME IInv, OInv, InOrder, NEW r \in Relay, Unlock(r)
    PROVE  OInv'
<1>1. /\ relay[r].at = "unlock" /\ relay' = [relay EXCEPT ![r] = NewTick]
      /\ UNCHANGED <<outbox, shown, mishaps>>
  BY DEF Unlock, At
<1>2. NewTick.at = "idle"
  BY DEF NewTick
<1> QED
  BY <1>1, <1>2, Lone, QuietOrder DEF AtWork

LEMMA StepOrder == IInv /\ OInv /\ [RelayNext]_relayVars => OInv'
<1> SUFFICES ASSUME IInv, OInv, [RelayNext]_relayVars PROVE OInv'
  OBVIOUS
<1>1. CASE mishaps' # 0
  BY <1>1 DEF OInv, FirstSeenInOrder
<1>2. CASE mishaps' = 0
  <2>1. mishaps \in Nat
    BY Unchanged
  <2>2. ASSUME UNCHANGED <<outbox, lock, relay, shown, mishaps>>
        PROVE  OInv'
    BY <2>2 DEF OInv, InOrder, FirstSeenInOrder, OneTick, BatchesInOrder, TakenIsSeen
  <2>3. ASSUME NEW r \in Relay
        PROVE  ~(LoseLock(r) \/ QueryFails(r) \/ Crash(r))
    BY <1>2, <2>1 DEF LoseLock, QueryFails, Crash, Mishap
  <2>4. ASSUME NEW r \in Relay, TryLock(r) \/ Work(r) \/ CloseIdle(r)
        PROVE  OInv'
    <3>1. mishaps = 0
      BY <1>2, <2>4 DEF TryLock, CloseIdle, Work, Reclaim, Fetch, Mark, Show, Post,
                        MarkProcessed, MarkFailed, Settle, Unlock
    <3>2. InOrder
      BY <3>1 DEF OInv
    <3> QED
      BY <2>4, <3>1, <3>2, LockOrder, ReclaimOrder, FetchOrder, MarkOrder, ShowOrder,
         PostOrder, SettleOrder, UnlockOrder DEF Work
  <2>5. ASSUME NEW e \in Event, GrowStale(e)
        PROVE  OInv'
    BY <2>2, <2>5 DEF GrowStale
  <2> QED
    BY <2>2, <2>3, <2>4, <2>5 DEF RelayNext, relayVars
<1> QED
  BY <1>1, <1>2

(* Viewers see every event for the first time in the order of the outbox,  *)
(* for any number of relays, events and batches, however often deliveries  *)
(* fail, as long as no process, query or connection does.                  *)
THEOREM FirstSeenInOrderAlways == RelaySpec => []FirstSeenInOrder
<1>1. RelayInit => IInv /\ OInv
  BY RelayInitInv, InitOrder
<1>2. (IInv /\ OInv) /\ [RelayNext]_relayVars => (IInv /\ OInv)'
  BY RelayStepKeepsInv, StepOrder
<1>3. OInv => FirstSeenInOrder
  BY DEF OInv
<1> QED
  BY <1>1, <1>2, <1>3, PTL DEF RelaySpec
-----------------------------------------------------------------------------
(* While nothing went wrong, a copy says what its row says, a row that is  *)
(* processing is the one in hand, and the attempts are those given.        *)
IsCurrent(t, rows) ==
    /\ \A i, j \in DOMAIN t.batch : t.batch[i].event = t.batch[j].event => i = j
    /\ \A i \in DOMAIN t.batch :
          /\ rows[t.batch[i].event].status
                = IF i = 1 /\ t.at # "batch" THEN "processing" ELSE "pending"
          /\ rows[t.batch[i].event].attempts = t.batch[i].attempts

HasInHand(t, e) == t.at \in AtWork \ {"batch"} /\ t.batch[1].event = e

RowCounts(o, started) ==
    /\ o.attempts = started
    /\ started <= MaxAttempts
    /\ o.status = "pending" => started < MaxAttempts

Current ==
    /\ \A r \in Relay : relay[r].at \in AtWork => IsCurrent(relay[r], outbox)
    /\ \A e \in Event : outbox[e].status = "processing" => \E r \in Relay : HasInHand(relay[r], e)
    /\ \A e \in Event : RowCounts(outbox[e], marks[e])

CInv == mishaps = 0 => Current

LEMMA InitCurrent == RelayInit => CInv
<1> SUFFICES ASSUME RelayInit PROVE Current
  BY DEF CInv
<1>1. \A r \in Relay : relay[r].at = "idle"
  BY DEF RelayInit, NewTick
<1>2. \A e \in Event : outbox[e].status = "pending" /\ RowCounts(outbox[e], marks[e])
  BY RelayAssumption DEF RelayInit, RowCounts
<1> QED
  BY <1>1, <1>2 DEF Current, AtWork

(* A step of the one tick.                                                 *)
LEMMA TickCurrent ==
    ASSUME IInv, Current, NEW r \in Relay, NEW t,
           \A q \in Relay : relay[q].at # "idle" => q = r,
           relay' = [relay EXCEPT ![r] = t],
           t.at \in AtWork => IsCurrent(t, outbox'),
           \A e \in Event : outbox'[e].status = "processing" => HasInHand(t, e),
           \A e \in Event : \/ outbox'[e] = outbox[e] /\ marks'[e] = marks[e]
                            \/ RowCounts(outbox'[e], marks'[e])
    PROVE  Current'
<1>1. \A q \in Relay : relay'[q] = IF q = r THEN t ELSE relay[q]
  BY Unchanged
<1>2. \A q \in Relay : relay'[q].at \in AtWork => IsCurrent(relay'[q], outbox')
  BY <1>1 DEF AtWork
<1>3. \A e \in Event : outbox'[e].status = "processing" => HasInHand(relay'[r], e)
  BY <1>1
<1>4. \A e \in Event : RowCounts(outbox'[e], marks'[e])
  BY DEF Current
<1> QED
  BY <1>2, <1>3, <1>4 DEF Current

(* What the one tick has in hand is all that is processing.                *)
LEMMA OnlyInHand ==
    ASSUME IInv, InOrder, Current, NEW r \in Relay, relay[r].at # "idle"
    PROVE  /\ \A q \in Relay : relay[q].at # "idle" => q = r
           /\ \A e \in Event : outbox[e].status = "processing" => HasInHand(relay[r], e)
<1>1. \A q \in Relay : relay[q].at # "idle" => q = r
  BY Lone
<1> QED
  BY <1>1 DEF Current, HasInHand, AtWork

LEMMA LockCurrent ==
    ASSUME IInv, InOrder, Current, NEW r \in Relay, TryLock(r) \/ CloseIdle(r)
    PROVE  Current'
<1>1. relay[r].at = "idle" /\ lock \in {NoRelay, r} /\ UNCHANGED <<outbox, marks>>
  BY DEF TryLock, CloseIdle, At
<1>2. \A q \in Relay : relay[q].at = "idle"
  BY <1>1, RelayAssumption DEF InOrder, OneTick
<1>3. \A e \in Event : outbox[e].status # "processing"
  BY <1>2 DEF Current, HasInHand, AtWork
<1>4. CASE TryLock(r)
  <2> DEFINE t == [relay[r] EXCEPT !.at = "reclaim"]
  <2>1. relay' = [relay EXCEPT ![r] = t] /\ t.at = "reclaim"
    BY <1>4, Unchanged DEF TryLock, Goto, Tick
  <2> HIDE DEF t
  <2> QED
    BY <1>1, <1>2, <1>3, <2>1, TickCurrent DEF AtWork
<1>5. CASE CloseIdle(r)
  BY <1>1, <1>5 DEF CloseIdle, Current
<1> QED
  BY <1>4, <1>5

(* Nothing is left behind: there is nothing to reclaim.                    *)
LEMMA ReclaimCurrent ==
    ASSUME IInv, InOrder, Current, NEW r \in Relay, Reclaim(r)
    PROVE  Current' /\ UNCHANGED outbox
<1> DEFINE t == [relay[r] EXCEPT !.at = "fetch"]
<1>1. relay[r].at = "reclaim" /\ UNCHANGED marks
  BY DEF Reclaim, At
<1>2. relay' = [relay EXCEPT ![r] = t] /\ t.at = "fetch"
  BY Unchanged DEF Reclaim, Goto, Tick
<1>3. \A e \in Event : outbox[e].status # "processing"
  BY <1>1, OnlyInHand DEF HasInHand, AtWork
<1>4. UNCHANGED outbox
  BY <1>3, Unchanged DEF Reclaim
<1> HIDE DEF t
<1> QED
  BY <1>1, <1>2, <1>3, <1>4, OnlyInHand, TickCurrent DEF AtWork

LEMMA FetchCurrent ==
    ASSUME IInv, InOrder, Current, NEW r \in Relay, Fetch(r)
    PROVE  Current'
<1>1. PICK some \in OldestFirst :
        /\ At(r, "fetch")
        /\ relay' = [relay EXCEPT ![r].at = IF some = <<>> THEN "unlock" ELSE "batch",
                                  ![r].batch = [i \in DOMAIN some |->
                                      [event |-> some[i], attempts |-> outbox[some[i]].attempts]]]
        /\ UNCHANGED <<outbox, stale, lock, shown, marks, told, mishaps>>
  BY DEF Fetch
<1> DEFINE copies == [i \in DOMAIN some |->
                        [event |-> some[i], attempts |-> outbox[some[i]].attempts]]
           t == [relay[r] EXCEPT !.at = IF some = <<>> THEN "unlock" ELSE "batch",
                                 !.batch = copies]
<1>2. PICK n \in Nat : some \in [1..n -> Pending]
  BY RelayAssumption DEF OldestFirst, Batch
<1>3. /\ DOMAIN some = 1..n /\ \A i \in 1..n : some[i] \in Nat
      /\ \A i, j \in 1..n : i < j => some[i] < some[j]
  BY <1>2, EventIsInterval DEF OldestFirst, Pending
<1>4. \A i, j \in 1..n : some[i] = some[j] => i = j
  BY <1>2, <1>3
<1>5. relay[r].at = "fetch"
  BY <1>1 DEF At
<1>6. /\ DOMAIN copies = 1..n
      /\ \A i \in 1..n : /\ copies[i].event = some[i]
                         /\ copies[i].attempts = outbox[some[i]].attempts
  BY <1>3
<1>7. /\ t.batch = copies /\ t.at \in {"unlock", "batch"}
      /\ relay' = [relay EXCEPT ![r] = t]
  <2> HIDE DEF copies
  <2>1. relay[r] \in Tick /\ relay \in [Relay -> Tick]
    BY Unchanged
  <2> QED
    BY <1>1, <2>1 DEF Tick, copies
<1> HIDE DEF copies, t
<1>8. t.at \in AtWork => IsCurrent(t, outbox')
  BY <1>1, <1>2, <1>4, <1>6, <1>7 DEF IsCurrent, AtWork, Pending
<1>9. \A e \in Event : outbox[e].status # "processing"
  BY <1>5, OnlyInHand DEF HasInHand, AtWork
<1> QED
  BY <1>1, <1>5, <1>7, <1>8, <1>9, OnlyInHand, TickCurrent

(* The row that is marked is pending, with the attempts the copy carries.  *)
LEMMA MarkCurrent ==
    ASSUME IInv, InOrder, Current, NEW r \in Relay, Mark(r)
    PROVE  /\ Current'
           /\ \A e \in Event : outbox[e].status # "pending" => outbox'[e] = outbox[e]
<1> DEFINE b == relay[r].batch
           c == InHand(r)
           b2 == [b EXCEPT ![1].attempts = c.attempts + 1]
           t == [relay[r] EXCEPT !.at = "dispatch", !.batch = b2, !.posted = 0]
<1>1. relay[r].at = "batch" /\ relay[r].at \in AtWork
  BY DEF Mark, At, AtWork
<1>2. /\ b \in Seq(Copy) /\ 1 \in DOMAIN b /\ c = b[1] /\ c \in Copy /\ c.event \in Event
      /\ relay[r] \in Tick /\ c.attempts \in Nat
  BY <1>1, InHandIsFirst DEF IInv
<1>3. \A i \in DOMAIN b : b[i] \in Copy /\ b[i].event \in Event
  <2>1. DOMAIN b = 1..Len(b)
    BY <1>2, LenProperties
  <2> HIDE DEF b
  <2>2. \A i \in DOMAIN b : b[i] \in Copy
    BY <1>2, <2>1, ElementOfSeq
  <2> QED
    BY <2>2 DEF Copy
<1>4. /\ DOMAIN b2 = DOMAIN b
      /\ \A i \in DOMAIN b : /\ b2[i].event = b[i].event
                             /\ b2[i].attempts = IF i = 1 THEN c.attempts + 1 ELSE b[i].attempts
  <2> HIDE DEF b, c
  <2> QED
    BY <1>2, <1>3 DEF Copy
<1>5. relay' = [relay EXCEPT ![r] = t] /\ t.at = "dispatch" /\ t.batch = b2
  <2>1. relay' = [relay EXCEPT ![r].at = "dispatch", ![r].batch[1].attempts = c.attempts + 1,
                               ![r].posted = 0]
    BY DEF Mark
  <2>2. relay \in [Relay -> Tick]
    BY Unchanged
  <2> HIDE DEF c
  <2> QED
    BY <1>2, <2>1, <2>2 DEF Tick
<1>6. IsCurrent(relay[r], outbox)
  BY <1>1 DEF Current
<1> HIDE DEF b2, t
<1>7. /\ outbox[c.event].status = "pending" /\ outbox[c.event].attempts = c.attempts
      /\ \A i, j \in DOMAIN b : b[i].event = b[j].event => i = j
      /\ \A i \in DOMAIN b : outbox[b[i].event].status = "pending"
                             /\ outbox[b[i].event].attempts = b[i].attempts
  BY <1>1, <1>2, <1>6 DEF IsCurrent
<1>8. RowCounts(outbox[c.event], marks[c.event]) /\ marks[c.event] \in Nat /\ MaxAttempts \in Nat
  BY <1>2, Unchanged, RelayAssumption DEF Current
<1>9. /\ outbox'[c.event] = [status |-> "processing", attempts |-> c.attempts + 1]
      /\ marks'[c.event] = marks[c.event] + 1
      /\ \A e \in Event : e # c.event => outbox'[e] = outbox[e] /\ marks'[e] = marks[e]
  <2> HIDE DEF c
  <2> QED
    BY <1>2, Unchanged DEF Mark, c
<1>10. RowCounts(outbox'[c.event], marks'[c.event])
  <2>1. c.attempts + 1 = marks[c.event] + 1 /\ marks[c.event] + 1 <= MaxAttempts
    <3> HIDE DEF c, b
    <3> QED
      BY <1>2, <1>7, <1>8 DEF RowCounts
  <2> HIDE DEF c, b
  <2> QED
    BY <1>9, <2>1 DEF RowCounts
<1>11. IsCurrent(t, outbox')
  <2>1. \A i \in DOMAIN b : i # 1 => outbox'[b[i].event] = outbox[b[i].event]
    BY <1>2, <1>3, <1>7, <1>9
  <2>2. b[1].event = c.event
    BY <1>2
  <2> HIDE DEF b, c
  <2> QED
    BY <1>2, <1>4, <1>5, <1>7, <1>9, <2>1, <2>2 DEF IsCurrent
<1>12. \A e \in Event : outbox'[e].status = "processing" => HasInHand(t, e)
  <2>1. \A e \in Event : outbox[e].status # "processing"
    BY <1>1, OnlyInHand DEF HasInHand
  <2>2. HasInHand(t, c.event)
    <3> HIDE DEF c, b
    <3> QED
      BY <1>2, <1>4, <1>5 DEF HasInHand, AtWork
  <2> QED
    BY <1>9, <2>1, <2>2
<1>13. Current'
  <2> HIDE DEF c
  <2> QED
    BY <1>1, <1>2, <1>5, <1>9, <1>10, <1>11, <1>12, OnlyInHand, TickCurrent
<1> QED
  BY <1>7, <1>9, <1>13

(* The deliveries themselves leave the rows alone.                         *)
LEMMA DeliverCurrent ==
    ASSUME IInv, InOrder, Current, NEW r \in Relay, Show(r) \/ Post(r)
    PROVE  Current'
<1>1. /\ relay[r].at \in {"dispatch", "post"} /\ relay[r].at \in AtWork
      /\ UNCHANGED <<outbox, marks>>
  BY DEF Show, Post, At, AtWork
<1>2. PICK place \in {"delivered", "post", "failed"}, n \in {relay[r].posted, relay[r].posted + 1} :
          relay' = [relay EXCEPT ![r] = [relay[r] EXCEPT !.at = place, !.posted = n]]
  <2>1. relay[r] \in Tick /\ relay \in [Relay -> Tick]
    BY Unchanged
  <2>2. CASE relay' = [relay EXCEPT ![r].posted = relay[r].posted + 1,
                 ![r].at = IF relay[r].posted + 1 = Len(Posts(InHand(r).event))
                           THEN "delivered" ELSE "post"]
    BY <2>1, <2>2 DEF Tick
  <2>3. CASE Goto(r, "failed") \/ Goto(r, "delivered") \/ Goto(r, "post")
    BY <2>1, <2>3 DEF Tick, Goto
  <2> QED
    BY <2>2, <2>3 DEF Show, Post
<1> DEFINE t == [relay[r] EXCEPT !.at = place, !.posted = n]
<1>3. t.at = place /\ t.batch = relay[r].batch
  BY Unchanged DEF Tick
<1>4. relay' = [relay EXCEPT ![r] = t]
  BY <1>2
<1> HIDE DEF t
<1>5. IsCurrent(t, outbox)
  BY <1>1, <1>3 DEF Current, IsCurrent
<1>6. \A e \in Event : outbox[e].status = "processing" => HasInHand(t, e)
  BY <1>1, <1>3, OnlyInHand DEF HasInHand, AtWork
<1> QED
  BY <1>1, <1>4, <1>5, <1>6, OnlyInHand, TickCurrent DEF IsCurrent, AtWork

(* The row that is settled is processing; one put back has attempts left.  *)
LEMMA SettleCurrent ==
    ASSUME IInv, InOrder, Current, NEW r \in Relay, MarkProcessed(r) \/ MarkFailed(r)
    PROVE  /\ Current'
           /\ \A e \in Event : outbox[e].status # "processing" => outbox'[e] = outbox[e]
<1> DEFINE b == relay[r].batch
           first == b[1].event
           rest == Tail(b)
           t == [at |-> IF Len(b) = 1 THEN "unlock" ELSE "batch", batch |-> rest, posted |-> 0]
<1>1. relay[r].at \in {"delivered", "failed"} /\ relay[r].at \in AtWork
  BY DEF MarkProcessed, MarkFailed, At, AtWork
<1>2. /\ b \in Seq(Copy) /\ b # <<>> /\ InHand(r) = b[1] /\ first \in Event
      /\ 1 \in DOMAIN b /\ b[1].attempts \in Nat
  BY <1>1, InHandIsFirst DEF IInv
<1>3. PICK status \in {"processed", "dead_letter", "pending"} :
          Settle(r, status) /\ (status = "pending" => b[1].attempts < MaxAttempts)
  BY <1>2, RelayAssumption DEF MarkProcessed, MarkFailed
<1>4. /\ outbox' = [outbox EXCEPT ![first].status = status]
      /\ relay' = [relay EXCEPT ![r] = t]
      /\ UNCHANGED marks
  BY <1>2, <1>3 DEF Settle
<1>5. /\ Len(b) \in Nat /\ DOMAIN b = 1..Len(b) /\ DOMAIN rest = 1..(Len(b) - 1)
      /\ \A i \in DOMAIN rest : rest[i] = b[i + 1]
  BY <1>2, HeadTailProperties, LenProperties
<1>6. \A i \in DOMAIN b : b[i].event \in Event
  <2> HIDE DEF b
  <2>1. \A i \in DOMAIN b : b[i] \in Copy
    BY <1>2, <1>5, ElementOfSeq
  <2> QED
    BY <2>1 DEF Copy
<1>7. /\ \A i, j \in DOMAIN b : b[i].event = b[j].event => i = j
      /\ \A i \in DOMAIN b : /\ outbox[b[i].event].status = IF i = 1 THEN "processing" ELSE "pending"
                             /\ outbox[b[i].event].attempts = b[i].attempts
  <2>1. IsCurrent(relay[r], outbox) /\ relay[r].at # "batch"
    BY <1>1 DEF Current
  <2>2. \A i, j \in DOMAIN b : b[i].event = b[j].event => i = j
    BY <2>1 DEF IsCurrent
  <2>3. \A i \in DOMAIN b : /\ outbox[b[i].event].status = IF i = 1 THEN "processing" ELSE "pending"
                            /\ outbox[b[i].event].attempts = b[i].attempts
    BY <2>1 DEF IsCurrent
  <2> QED
    BY <2>2, <2>3
<1>8. t.at \in {"unlock", "batch"} /\ t.batch = rest
  OBVIOUS
<1> HIDE DEF rest, t
<1>9. /\ \A e \in Event : e # first => outbox'[e] = outbox[e]
      /\ outbox'[first].status = status
      /\ outbox'[first].attempts = outbox[first].attempts
  <2> HIDE DEF first
  <2> QED
    BY <1>2, <1>4, Unchanged
<1>10. t.at \in AtWork => IsCurrent(t, outbox')
  <2> HIDE DEF b, first
  <2>1. \A i \in DOMAIN rest : /\ i + 1 \in DOMAIN b /\ i + 1 # 1 /\ i \in Nat
                               /\ rest[i] = b[i + 1]
    BY <1>5
  <2>2. \A i \in DOMAIN b : i # 1 => outbox'[b[i].event] = outbox[b[i].event]
    BY <1>2, <1>6, <1>7, <1>9 DEF first
  <2>3. \A i, j \in DOMAIN rest : rest[i].event = rest[j].event => i = j
    <3> TAKE i, j \in DOMAIN rest
    <3> HAVE rest[i].event = rest[j].event
    <3>1. /\ i + 1 \in DOMAIN b /\ j + 1 \in DOMAIN b
          /\ b[i + 1].event = b[j + 1].event
      BY <2>1
    <3>2. i + 1 = j + 1
      BY <1>7, <3>1
    <3> QED
      BY <2>1, <3>2
  <2>4. ASSUME t.at = "batch", NEW i \in DOMAIN rest
        PROVE  /\ outbox'[rest[i].event].status = "pending"
               /\ outbox'[rest[i].event].attempts = rest[i].attempts
    <3>1. i + 1 \in DOMAIN b /\ i + 1 # 1 /\ rest[i] = b[i + 1]
      BY <2>1
    <3>2. /\ outbox[b[i + 1].event].status = "pending"
          /\ outbox[b[i + 1].event].attempts = b[i + 1].attempts
      BY <1>7, <3>1
    <3> QED
      BY <2>2, <3>1, <3>2
  <2> QED
    BY <1>8, <2>3, <2>4 DEF IsCurrent, AtWork
<1>11. \A e \in Event : outbox'[e].status # "processing"
  <2>1. \A e \in Event : outbox[e].status = "processing" => e = first
    BY <1>1, OnlyInHand DEF HasInHand
  <2> QED
    BY <1>9, <2>1
<1>12. RowCounts(outbox'[first], marks'[first])
  <2>1. RowCounts(outbox[first], marks[first]) /\ outbox[first].attempts = b[1].attempts
    BY <1>2, <1>7 DEF Current
  <2> HIDE DEF first, b
  <2> QED
    BY <1>3, <1>4, <1>9, <2>1 DEF RowCounts
<1>13. Current'
  <2> HIDE DEF first
  <2> QED
    BY <1>1, <1>4, <1>9, <1>10, <1>11, <1>12, OnlyInHand, TickCurrent
<1> QED
  BY <1>2, <1>7, <1>9, <1>13

LEMMA UnlockCurrent ==
    ASSUME IInv, InOrder, Current, NEW r \in Relay, Unlock(r)
    PROVE  Current'
<1>1. /\ relay[r].at = "unlock" /\ relay' = [relay EXCEPT ![r] = NewTick]
      /\ UNCHANGED <<outbox, marks>>
  BY DEF Unlock, At
<1>2. NewTick.at = "idle"
  BY DEF NewTick
<1>3. \A e \in Event : outbox[e].status # "processing"
  BY <1>1, OnlyInHand DEF HasInHand, AtWork
<1> QED
  BY <1>1, <1>2, <1>3, OnlyInHand, TickCurrent DEF AtWork

FinishedKept ==
    \A e \in Event : outbox[e].status \in {"processed", "dead_letter"} => outbox'[e] = outbox[e]

LEMMA StepCurrent ==
    ASSUME IInv, OInv, CInv, [RelayNext]_relayVars
    PROVE  CInv' /\ (mishaps' = 0 => FinishedKept)
<1> SUFFICES ASSUME mishaps' = 0 PROVE Current' /\ FinishedKept
  BY DEF CInv
<1>1. mishaps \in Nat
  BY Unchanged
<1>2. ASSUME NEW r \in Relay
      PROVE  ~(LoseLock(r) \/ QueryFails(r) \/ Crash(r))
  BY <1>1 DEF LoseLock, QueryFails, Crash, Mishap
<1>3. mishaps = 0
  BY <1>2 DEF RelayNext, relayVars, TryLock, CloseIdle, Work, Reclaim, Fetch, Mark, Show, Post,
              MarkProcessed, MarkFailed, Settle, Unlock, GrowStale
<1>4. InOrder /\ Current
  BY <1>3 DEF OInv, CInv
<1>5. ASSUME UNCHANGED <<outbox, relay, marks>>
      PROVE  Current' /\ FinishedKept
  BY <1>4, <1>5 DEF Current, FinishedKept
<1>6. ASSUME NEW r \in Relay, TryLock(r) \/ Work(r) \/ CloseIdle(r)
      PROVE  Current' /\ FinishedKept
  <2>1. CASE TryLock(r) \/ CloseIdle(r)
    BY <1>4, <2>1, LockCurrent DEF FinishedKept, TryLock, CloseIdle
  <2>2. CASE Reclaim(r)
    BY <1>4, <2>2, ReclaimCurrent DEF FinishedKept
  <2>3. CASE Fetch(r)
    BY <1>4, <2>3, FetchCurrent DEF FinishedKept, Fetch
  <2>4. CASE Mark(r)
    BY <1>4, <2>4, MarkCurrent DEF FinishedKept
  <2>5. CASE Show(r) \/ Post(r)
    BY <1>4, <2>5, DeliverCurrent DEF FinishedKept, Show, Post
  <2>6. CASE MarkProcessed(r) \/ MarkFailed(r)
    BY <1>4, <2>6, SettleCurrent DEF FinishedKept
  <2>7. CASE Unlock(r)
    BY <1>4, <2>7, UnlockCurrent DEF FinishedKept, Unlock
  <2> QED
    BY <1>6, <2>1, <2>2, <2>3, <2>4, <2>5, <2>6, <2>7 DEF Work
<1>7. ASSUME NEW e \in Event, GrowStale(e)
      PROVE  Current' /\ FinishedKept
  BY <1>5, <1>7 DEF GrowStale
<1>8. CASE UNCHANGED relayVars
  BY <1>5, <1>8 DEF relayVars
<1> QED
  BY <1>2, <1>6, <1>7, <1>8 DEF RelayNext

LEMMA CurrentInvariant == RelaySpec => [](IInv /\ OInv /\ CInv)
<1>1. RelayInit => IInv /\ OInv /\ CInv
  BY RelayInitInv, InitOrder, InitCurrent
<1>2. (IInv /\ OInv /\ CInv) /\ [RelayNext]_relayVars => (IInv /\ OInv /\ CInv)'
  BY RelayStepKeepsInv, StepOrder, StepCurrent
<1> QED
  BY <1>1, <1>2, PTL DEF RelaySpec

(* Without mishaps every attempt is counted once and none is given beyond  *)
(* MaxAttempts, for any number of relays and any leak of the lock.         *)
THEOREM AttemptsCountedAlways == RelaySpec => []AttemptsCounted
<1>1. CInv => AttemptsCounted
  BY DEF CInv, Current, RowCounts, AttemptsCounted
<1> QED
  BY <1>1, CurrentInvariant, PTL

(* Without mishaps an event that was processed or given up is never taken  *)
(* up again, whatever copies the relays hold.                              *)
THEOREM FinishedForGoodAlways == RelaySpec => FinishedForGood
<1>1. (IInv /\ OInv /\ CInv) /\ [RelayNext]_relayVars
      => [mishaps' = 0 =>
            \A e \in Event : outbox[e].status \in {"processed", "dead_letter"}
                                => outbox'[e] = outbox[e]]_relayVars
  BY StepCurrent DEF FinishedKept
<1> QED
  BY <1>1, CurrentInvariant, PTL DEF RelaySpec, FinishedForGood
=============================================================================
