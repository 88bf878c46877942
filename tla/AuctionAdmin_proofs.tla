------------------------ MODULE AuctionAdmin_proofs ------------------------
(***************************************************************************)
(* What holds for every number of administrators: their stale copies       *)
(* cannot bring a stopped auction back, and an auction is sold or          *)
(* cancelled, not both.  The winner the worker freezes has no such         *)
(* protection; the runs show how it is lost.                               *)
(***************************************************************************)
EXTENDS AuctionAdmin, LiveAuction_proofs

Columns == DOMAIN FreshRow("draft")

(* The row keeps its columns, whoever writes it: all that is needed of its *)
(* type, since bids need not rise once an administrator resets the price.  *)
RowHasColumns == row = [f \in Columns |-> row[f]]

LEMMA StatusIsAColumn == "status" \in Columns
BY DEF Columns, FreshRow

LEMMA InitColumns == AdminInit => RowHasColumns
BY DEF AdminInit, Init, RowHasColumns, Columns, FreshRow

LEMMA StepColumns ==
    ASSUME RowHasColumns, [AdminNext]_adminVars
    PROVE  RowHasColumns'
<1> USE DEF RowHasColumns
<1>1. CASE UNCHANGED row
  BY <1>1
<1>2. ASSUME NEW r \in Requests, Place(r)
      PROVE  RowHasColumns'
  BY <1>2 DEF Place
<1>3. ASSUME NEW w \in Workers, LiveToEnding(w) \/ EndingToEnded(w)
      PROVE  RowHasColumns'
  BY <1>3 DEF LiveToEnding, EndingToEnded, CloseRow
<1>4. ASSUME NEW c \in Commands, WriteEntity(c) \/ WriteEnd(c)
      PROVE  RowHasColumns'
  <2>1. Merged(c) = [f \in Columns |-> Merged(c)[f]]
    BY DEF Merged
  <2> QED
    BY <1>4, <2>1 DEF WriteEntity, WriteEnd
<1>5. CASE Next /\ UNCHANGED command
  BY <1>1, <1>2, <1>3, <1>5 DEF Next, RequestStep, WorkerStep, Submit, TakeBidLock,
     Begin, Reject, RollBack, ReleaseBidLock, Die, Poll, TakeEndLock, ReleaseEndLock,
     WorkerError, WorkerDies, ExpireBidLock, ExpireEndLock, RedisFails,
     RedisReturns, Tick
<1>6. ASSUME NEW c \in Commands, CommandStep(c)
      PROVE  RowHasColumns'
  BY <1>1, <1>4, <1>6 DEF CommandStep, ReadEntity, DiffEntity, ReadEnd
<1> QED
  BY <1>1, <1>5, <1>6 DEF AdminNext, adminVars

LEMMA StepStopped ==
    ASSUME RowHasColumns, Stopped, [AdminNext]_adminVars
    PROVE  Stopped' /\ bids' = bids
<1> USE StatusIsAColumn DEF Stopped
<1>1. CASE UNCHANGED <<row, bids>>
  BY <1>1
<1>2. ASSUME NEW r \in Requests
      PROVE  ~Place(r)
  BY DEF Place, Valid
<1>3. ASSUME NEW w \in Workers, LiveToEnding(w) \/ EndingToEnded(w)
      PROVE  Stopped' /\ bids' = bids
  <2>1. bids' = bids
    BY <1>3 DEF LiveToEnding, EndingToEnded
  <2>2. row' = row \/ row' = [row EXCEPT !.status = "ending"] \/ row' = CloseRow(row)
    BY <1>3 DEF LiveToEnding, EndingToEnded
  <2>3. CloseRow(row).status = "ended"
    BY DEF CloseRow, RowHasColumns
  <2>4. [row EXCEPT !.status = "ending"].status = "ending"
    BY DEF RowHasColumns
  <2> QED
    BY <2>1, <2>2, <2>3, <2>4
<1>4. ASSUME NEW c \in Commands, WriteEntity(c)
      PROVE  Stopped' /\ bids' = bids
  <2>1. bids' = bids
    BY <1>4 DEF WriteEntity, OthersIdle
  <2>2. row' = row \/ TriggerAllows(row, row')
    BY <1>4 DEF WriteEntity
  <2>3. ASSUME TriggerAllows(row, row')
        PROVE  Stopped'
    BY <2>3 DEF TriggerAllows, Transitions
  <2> QED
    BY <2>1, <2>2, <2>3
<1>5. ASSUME NEW c \in Commands, WriteEnd(c)
      PROVE  Stopped' /\ bids' = bids
  BY <1>5 DEF WriteEnd, OthersIdle, RowHasColumns
<1>6. CASE Next /\ UNCHANGED command
  BY <1>1, <1>2, <1>3, <1>6 DEF Next, RequestStep, WorkerStep, Submit, TakeBidLock,
     Begin, Reject, RollBack, ReleaseBidLock, Die, Poll, TakeEndLock, ReleaseEndLock,
     WorkerError, WorkerDies, ExpireBidLock, ExpireEndLock, RedisFails,
     RedisReturns, Tick
<1>7. ASSUME NEW c \in Commands, CommandStep(c)
      PROVE  Stopped' /\ bids' = bids
  BY <1>1, <1>4, <1>5, <1>7 DEF CommandStep, ReadEntity, DiffEntity, ReadEnd, OthersIdle
<1> QED
  BY <1>1, <1>6, <1>7 DEF AdminNext, adminVars

(* An auction that has stopped is never live again and takes no bid,       *)
(* however many administrators save copies of it that say otherwise.       *)
THEOREM StoppedForGoodAlways == AdminSpec => StoppedForGood
<1>1. AdminInit => RowHasColumns
  BY InitColumns
<1>2. RowHasColumns /\ [AdminNext]_adminVars => RowHasColumns'
  BY StepColumns
<1>3. RowHasColumns /\ [AdminNext]_adminVars
        => [Stopped => Stopped' /\ bids' = bids]_adminVars
  BY StepStopped
<1> QED
  BY <1>1, <1>2, <1>3, PTL DEF AdminSpec, StoppedForGood

-----------------------------------------------------------------------------
(* Types, and what cannot be sold twice.                                   *)

(* A bid is the highest, the earliest of equals, whatever the order of the *)
(* table: the worker's CHOOSE has something to choose.                     *)
Tops(i) == \A j \in 1 .. Len(bids) : \/ bids[j].amount < bids[i].amount
                                     \/ bids[j].amount = bids[i].amount /\ i <= j

HasTop == bids # <<>> => \E i \in 1 .. Len(bids) : Tops(i)

(* What a command carries is a row.                                        *)
Carrying == {"read", "diffed", "extending"}

EntitiesAreRows == \A c \in Commands : command[c].pc \in Carrying => command[c].entity \in Row

(* Only a closed row, and only a copy of one that is closed by now, names  *)
(* a winner; a result is announced when it closes.                         *)
Closed == row.status \in {"ended", "settling", "settled", "settlement_failed"}

WinnersAreClosed ==
    /\ row.winnerBid # None => Closed
    /\ \A c \in Commands :
          command[c].pc \in Carrying /\ command[c].entity.winnerBid # None => Closed

ToldOnce ==
    /\ \A i, j \in Told("auction_ended") : i = j
    /\ Told("auction_ended") # {} => Closed

AInv ==
    /\ Typed /\ HasTop
    /\ command \in [Commands -> Command] /\ EntitiesAreRows
    /\ WinnersAreClosed /\ ToldOnce

LEMMA InitAInv == AdminInit => AInv
<1> SUFFICES ASSUME AdminInit PROVE AInv
  OBVIOUS
<1>1. Typed
  BY InitIInv, IInvTyped DEF AdminInit
<1>2. HasTop /\ Told("auction_ended") = {} /\ row.winnerBid = None
  BY DEF AdminInit, Init, HasTop, Told, FreshRow
<1>3. command \in [Commands -> Command] /\ \A c \in Commands : command[c].pc = "idle"
  BY DEF AdminInit, IdleCommand, Command, Null
<1> QED
  BY <1>1, <1>2, <1>3 DEF AInv, EntitiesAreRows, WinnersAreClosed, ToldOnce, Carrying

(* Steps that leave the row, its bids and the commands alone.              *)
LEMMA AuctionRests ==
    ASSUME AInv, Typed', UNCHANGED <<row, bids, outbox, command>>
    PROVE  AInv'
<1>1. Told("auction_ended")' = Told("auction_ended")
  BY DEF Told
<1>2. HasTop'
  BY DEF AInv, HasTop, Tops
<1> QED
  BY <1>1, <1>2 DEF AInv, EntitiesAreRows, WinnersAreClosed, ToldOnce, Closed

LEMMA PlaceAInv ==
    ASSUME AInv, NEW r \in Requests, Place(r), UNCHANGED command
    PROVE  AInv'
<1> USE DEF AInv
<1>1. Typed' /\ row \in Row /\ bids \in Seq(Bid)
  BY PlaceTyped DEF Typed, TypeOK
<1>2. /\ row.status = "live" /\ row'.status = "live" /\ row'.winnerBid = row.winnerBid
  BY <1>1 DEF Place, Valid, Row
<1>3. ~Closed
  BY <1>2 DEF Closed
<1>4. WinnersAreClosed'
  BY <1>2, <1>3 DEF WinnersAreClosed
<1>5. Told("auction_ended")' = {}
  BY <1>3, PlaceEvents DEF ToldOnce
<1>6. ToldOnce'
  BY <1>5 DEF ToldOnce
<1>7. HasTop'
  <2> DEFINE bid == [key |-> KeyOf[r], amount |-> offer[KeyOf[r]]]
             n   == Len(bids)
  <2>1. bid \in Bid /\ bid.amount \in Nat
    BY PlacedValues DEF Bid
  <2>2. bids' = Append(bids, bid)
    BY DEF Place
  <2> HIDE DEF bid
  <2>3. /\ n \in Nat /\ Len(bids') = n + 1
        /\ \A i \in 1 .. n : bids'[i] = bids[i]
        /\ bids'[n + 1] = bid
    BY <1>1, <2>1, <2>2, AppendProperties, LenProperties
  <2>4. \A i \in 1 .. n : bids[i].amount \in Nat
    <3>1. \A i \in 1 .. n : bids[i] \in Bid
      BY <1>1, ElementOfSeq
    <3> QED
      BY <3>1 DEF Bid
  <2>5. \A j \in 1 .. n + 1 : j \in 1 .. n \/ j = n + 1
    BY <2>3
  <2>6. CASE bids = <<>>
    <3>1. n = 0
      BY <2>6
    <3>2. Tops(1)' /\ 1 \in 1 .. Len(bids')
      BY <2>3, <3>1 DEF Tops
    <3> QED
      BY <3>2 DEF HasTop
  <2>7. CASE bids # <<>>
    <3>1. PICK i \in 1 .. n : Tops(i)
      BY <2>7 DEF HasTop
    <3>2. CASE bid.amount <= bids[i].amount
      <4>1. Tops(i)'
        BY <2>1, <2>3, <2>4, <2>5, <3>1, <3>2 DEF Tops
      <4> QED
        BY <2>3, <4>1 DEF HasTop
    <3>3. CASE bids[i].amount < bid.amount
      <4>1. \A j \in 1 .. n : bids[j].amount < bid.amount
        BY <2>1, <2>4, <3>1, <3>3 DEF Tops
      <4>2. PICK last \in Nat : last = n + 1
        BY <2>3
      <4>3. Tops(last)'
        BY <2>3, <2>5, <4>1, <4>2 DEF Tops
      <4> QED
        BY <2>3, <4>2, <4>3 DEF HasTop
    <3> QED
      BY <2>1, <2>4, <3>1, <3>2, <3>3
  <2> QED
    BY <2>6, <2>7
<1> QED
  BY <1>1, <1>4, <1>6, <1>7 DEF EntitiesAreRows

LEMMA EndingAInv ==
    ASSUME AInv, NEW w \in Workers, LiveToEnding(w), UNCHANGED command
    PROVE  AInv'
<1> USE DEF AInv
<1> DEFINE e == [type |-> "auction_ending", value |-> None, bid |-> None]
<1>1. Typed' /\ row \in Row /\ outbox \in Seq(Event) /\ UNCHANGED bids
  BY LiveToEndingTyped DEF Typed, TypeOK, LiveToEnding
<1>2. HasTop'
  BY <1>1 DEF HasTop, Tops
<1>3. CASE UNCHANGED <<row, outbox>>
  BY <1>1, <1>3, AuctionRests
<1>4. CASE /\ row.status = "live" /\ row' = [row EXCEPT !.status = "ending"]
           /\ outbox' = Append(outbox, e)
  <2>1. ~Closed /\ row'.winnerBid = row.winnerBid
    BY <1>1, <1>4 DEF Closed, Row
  <2>2. e \in Event /\ e.type # "auction_ended"
    BY DEF Event, Null
  <2> HIDE DEF e
  <2>3. Told("auction_ended") = {}
    BY <2>1 DEF ToldOnce
  <2>4. At(outbox', "auction_ended") = At(outbox, "auction_ended")
    BY <1>1, <1>4, <2>2, AtAppend
  <2>5. Told("auction_ended")' = {}
    BY <2>3, <2>4 DEF Told, At
  <2> QED
    BY <1>1, <1>2, <2>1, <2>5 DEF EntitiesAreRows, WinnersAreClosed, ToldOnce
<1> QED
  BY <1>3, <1>4 DEF LiveToEnding

LEMMA EndedAInv ==
    ASSUME AInv, NEW w \in Workers, EndingToEnded(w), UNCHANGED command
    PROVE  AInv'
<1> USE DEF AInv
<1> DEFINE e == [type |-> "auction_ended", value |-> row'.finalPrice, bid |-> row'.winnerBid]
<1>1. bids # <<>> => TopBid \in 1 .. Len(bids)
  <2>1. TopBid = CHOOSE i \in 1 .. Len(bids) : Tops(i)
    BY DEF TopBid, Tops
  <2> QED
    BY <2>1 DEF HasTop
<1>2. Typed' /\ row \in Row /\ outbox \in Seq(Event) /\ UNCHANGED bids
  BY <1>1, EndingToEndedTyped DEF Typed, TypeOK, EndingToEnded
<1>3. HasTop'
  BY <1>2 DEF HasTop, Tops
<1>4. CASE UNCHANGED <<row, outbox>>
  BY <1>2, <1>4, AuctionRests
<1>5. CASE row.status = "ending" /\ row' = CloseRow(row) /\ outbox' = Append(outbox, e)
  <2>1. ~Closed /\ Closed'
    BY <1>2, <1>5 DEF Closed, CloseRow, Row
  <2>2. e \in Event /\ e.type = "auction_ended"
    BY <1>2 DEF Event, Typed, TypeOK, Row
  <2> HIDE DEF e
  <2>3. Told("auction_ended") = {}
    BY <2>1 DEF ToldOnce
  <2>4. At(outbox', "auction_ended") = At(outbox, "auction_ended") \cup {Len(outbox) + 1}
    BY <1>2, <1>5, <2>2, AtAppend
  <2>5. Told("auction_ended")' = {Len(outbox) + 1}
    BY <2>3, <2>4 DEF Told, At
  <2> QED
    BY <1>2, <1>3, <2>1, <2>5 DEF EntitiesAreRows, WinnersAreClosed, ToldOnce
<1> QED
  BY <1>4, <1>5 DEF EndingToEnded

(* A command reads: what it takes along is the row, but for its status and *)
(* the time it ends.                                                       *)
LEMMA ReadAInv ==
    ASSUME AInv, NEW c \in Commands, ReadEntity(c) \/ ReadEnd(c) \/ DiffEntity(c)
    PROVE  AInv'
<1> USE DEF AInv
<1>1. UNCHANGED <<now, row, bids, outbox, offer, req, bidLock, worker, endLock, redisUp, faults>>
  BY DEF ReadEntity, ReadEnd, DiffEntity, OthersIdle
<1>2. Typed' /\ HasTop' /\ (Closed' <=> Closed) /\ row \in Row /\ now \in Nat
  BY <1>1 DEF Typed, TypeOK, BegunIsDated, HasTop, Tops, Closed
<1>3. ToldOnce'
  BY <1>1, <1>2 DEF ToldOnce, Told
<1>4. PICK n \in Command :
          /\ command' = [command EXCEPT ![c] = n]
          /\ n.pc \in Carrying /\ n.entity \in Row
          /\ n.entity.winnerBid # None => Closed
  <2>1. CASE ReadEntity(c)
    <3>1. PICK to \in ALLOWED_TRANSITIONS[row.status] :
              command' = [command EXCEPT
                 ![c].pc = "read",
                 ![c].entity = [row EXCEPT
                    !.status = to,
                    !.endedAt = IF to \in {"ended", "cancelled"} THEN now ELSE @]]
      BY <2>1 DEF ReadEntity
    <3> DEFINE copy == [row EXCEPT
                  !.status = to,
                  !.endedAt = IF to \in {"ended", "cancelled"} THEN now ELSE @]
               n == [command[c] EXCEPT !.pc = "read", !.entity = copy]
    <3>2. to \in Status
      BY <1>2 DEF ALLOWED_TRANSITIONS, Row, Status
    <3>3. copy \in Row /\ copy.winnerBid = row.winnerBid
      BY <1>2, <3>2 DEF Row, Null
    <3>4. command' = [command EXCEPT ![c] = n]
      BY <3>1
    <3> HIDE DEF copy
    <3>5. n \in Command /\ n.pc = "read" /\ n.entity = copy
      BY <3>3 DEF Command, Null
    <3> QED
      BY <3>3, <3>4, <3>5 DEF Carrying, WinnersAreClosed
  <2>2. CASE ReadEnd(c)
    <3> DEFINE n == [command[c] EXCEPT !.pc = "extending", !.entity = row]
    <3>1. n \in Command /\ n.pc = "extending" /\ n.entity = row
      BY <1>2 DEF Command, Null
    <3>2. command' = [command EXCEPT ![c] = n]
      BY <2>2 DEF ReadEnd
    <3> QED
      BY <1>2, <3>1, <3>2 DEF Carrying, WinnersAreClosed
  <2>3. CASE DiffEntity(c)
    <3> DEFINE dirty == {f \in DOMAIN row : row[f] # command[c].entity[f]}
               n == [command[c] EXCEPT !.pc = "diffed", !.dirty = dirty]
    <3>1. dirty \in SUBSET DOMAIN FreshRow("draft")
      BY <1>2 DEF Row, FreshRow
    <3>2. command[c].pc = "read" /\ command' = [command EXCEPT ![c] = n]
      BY <2>3 DEF DiffEntity
    <3> HIDE DEF dirty
    <3>3. n \in Command /\ n.pc = "diffed" /\ n.entity = command[c].entity
      BY <3>1 DEF Command
    <3> QED
      BY <3>2, <3>3 DEF Carrying, EntitiesAreRows, WinnersAreClosed
  <2> QED
    BY <2>1, <2>2, <2>3
<1>5. \A d \in Commands : command'[d] = IF d = c THEN n ELSE command[d]
  BY <1>4
<1>6. command' \in [Commands -> Command]
  BY <1>4
<1>7. EntitiesAreRows' /\ WinnersAreClosed'
  BY <1>1, <1>2, <1>4, <1>5 DEF EntitiesAreRows, WinnersAreClosed
<1> QED
  BY <1>2, <1>3, <1>6, <1>7

(* A command writes: the trigger keeps a closed row closed, and what a     *)
(* copy names as the winner, a closed row named before.                    *)
LEMMA WriteAInv ==
    ASSUME AInv, NEW c \in Commands, WriteEntity(c) \/ WriteEnd(c)
    PROVE  AInv'
<1> USE DEF AInv
<1>1. /\ UNCHANGED <<now, bids, outbox, offer, req, bidLock, worker, endLock, redisUp, faults>>
      /\ DoneCommand(c) /\ command[c].pc \in Carrying
  BY DEF WriteEntity, WriteEnd, OthersIdle, Carrying
<1>2. row \in Row /\ command[c].entity \in Row
  BY <1>1 DEF Typed, TypeOK, EntitiesAreRows
<1>3. /\ row' \in Row
      /\ Closed => Closed'
      /\ row'.winnerBid # None => row.winnerBid # None \/ command[c].entity.winnerBid # None
  <2>1. CASE UNCHANGED row
    BY <1>2, <2>1 DEF Closed
  <2>2. CASE WriteEntity(c) /\ row' = Merged(c) /\ TriggerAllows(row, Merged(c))
    <3>1. \A f \in DOMAIN row : Merged(c)[f] \in {row[f], command[c].entity[f]}
      BY DEF Merged
    <3>2. Merged(c) \in Row
      BY <1>2, <3>1 DEF Merged, Row
    <3>3. Merged(c).winnerBid \in {row.winnerBid, command[c].entity.winnerBid}
      BY <1>2, <3>1 DEF Row
    <3>4. Closed => Closed'
      BY <2>2 DEF TriggerAllows, Transitions, Closed
    <3> QED
      BY <2>2, <3>2, <3>3, <3>4
  <2>3. CASE WriteEnd(c)
    <3>1. EndOf(command[c].entity) + ExtraTime \in Nat
      BY <1>2, ConstantsAssumption, AdminAssumption DEF EndOf, Row, Null
    <3>2. row.extensionCount + 1 \in Nat
      BY <1>2 DEF Row
    <3>3. row' \in Row /\ row'.status = row.status /\ row'.winnerBid = row.winnerBid
      BY <1>2, <2>3, <3>1, <3>2 DEF WriteEnd, Row, Null
    <3> QED
      BY <3>3 DEF Closed
  <2> QED
    BY <2>1, <2>2, <2>3 DEF WriteEntity
<1>4. Typed' /\ HasTop'
  BY <1>1, <1>3 DEF Typed, TypeOK, BegunIsDated, HasTop, Tops
<1>5. ToldOnce'
  BY <1>1, <1>3 DEF ToldOnce, Told
<1>6. /\ command' \in [Commands -> Command]
      /\ \A d \in Commands : command'[d].pc \in Carrying =>
            d # c /\ command'[d] = command[d]
  BY <1>1 DEF DoneCommand, Command, Carrying, Null
<1>7. EntitiesAreRows' /\ WinnersAreClosed'
  BY <1>1, <1>3, <1>6 DEF EntitiesAreRows, WinnersAreClosed
<1> QED
  BY <1>4, <1>5, <1>6, <1>7

LEMMA StepAInv == AInv /\ [AdminNext]_adminVars => AInv'
<1> SUFFICES ASSUME AInv, [AdminNext]_adminVars PROVE AInv'
  OBVIOUS
<1>0. Typed
  BY DEF AInv
<1>1. CASE UNCHANGED adminVars
  <2>1. Typed'
    BY <1>0, <1>1 DEF adminVars, Typed, TypeOK, BegunIsDated
  <2> QED
    BY <1>1, <2>1, AuctionRests DEF adminVars
<1>2. ASSUME NEW r \in Requests, RequestStep(r), UNCHANGED command
      PROVE  AInv'
  BY <1>0, <1>2, RequestTyped, AuctionRests, PlaceAInv DEF RequestStep
<1>3. ASSUME NEW w \in Workers, WorkerStep(w) \/ WorkerError(w) \/ WorkerDies(w),
             UNCHANGED command
      PROVE  AInv'
  BY <1>0, <1>3, OtherTyped, AuctionRests, EndingAInv, EndedAInv DEF WorkerStep
<1>4. CASE /\ ExpireBidLock \/ ExpireEndLock \/ RedisFails \/ RedisReturns \/ Tick
           /\ UNCHANGED command
  BY <1>0, <1>4, OtherTyped, AuctionRests
<1>5. ASSUME NEW c \in Commands, CommandStep(c)
      PROVE  AInv'
  BY <1>5, ReadAInv, WriteAInv DEF CommandStep
<1> QED
  BY <1>1, <1>2, <1>3, <1>4, <1>5 DEF AdminNext, Next

LEMMA AInvariance == AdminSpec => []AInv
BY InitAInv, StepAInv, PTL DEF AdminSpec

(* Merged rows and copies stay rows, for any number of administrators.     *)
THEOREM AdminTypesAlways == AdminSpec => []AdminTypeOK
<1>1. AInv => AdminTypeOK
  BY DEF AInv, Typed, TypeOK, AdminTypeOK
<1> QED
  BY <1>1, AInvariance, PTL

(* A result and a cancellation never both commit, and a result is told     *)
(* once, for any number of administrators, bidders and workers.            *)
THEOREM CancelledSellsNothingAlways == AdminSpec => []CancelledSellsNothing
<1>1. AInv => CancelledSellsNothing
  BY DEF AInv, WinnersAreClosed, ToldOnce, Closed, CancelledSellsNothing
<1> QED
  BY <1>1, AInvariance, PTL
-----------------------------------------------------------------------------
(* What the outbox tells.                                                  *)

(* An auction whose ending was announced has stopped, and nothing follows  *)
(* the announcements but the end: the order that a bid accepted by a       *)
(* reopened auction would break.                                           *)
EndingsComeLast ==
    /\ Told("auction_ending") # {} => Stopped
    /\ \A i \in Told("auction_ending") :
          \A j \in 1 .. Len(outbox) : i < j => outbox[j].type = "auction_ended"
    /\ \A i \in Told("auction_ended") : i = Len(outbox)

LEMMA StepStory ==
    ASSUME AInv, AInv', BidsTold, EndingsComeLast, [AdminNext]_adminVars
    PROVE  BidsTold' /\ EndingsComeLast'
<1>0. Typed /\ row \in Row /\ outbox \in Seq(Event) /\ Len(outbox) \in Nat
  BY LenProperties DEF AInv, Typed, TypeOK
<1>1. Stopped => Stopped'
  <2>1. RowHasColumns
    BY <1>0 DEF RowHasColumns, Row, Columns, FreshRow
  <2> QED
    BY <2>1, StepStopped
<1>2. ASSUME UNCHANGED <<bids, outbox>>
      PROVE  BidsTold' /\ EndingsComeLast'
  <2>1. \A type : Told(type)' = Told(type)
    BY <1>2 DEF Told
  <2> QED
    BY <1>1, <1>2, <2>1 DEF BidsTold, EndingsComeLast
<1>3. ASSUME NEW r \in Requests, Place(r)
      PROVE  BidsTold' /\ EndingsComeLast'
  <2>1. ~Stopped /\ ~Closed
    BY <1>3 DEF Place, Valid, Stopped, Closed
  <2>2. Told("auction_ending")' = {} /\ Told("auction_ended")' = {}
    BY <1>0, <1>3, <2>1, PlaceEvents DEF EndingsComeLast, AInv, ToldOnce
  <2> QED
    BY <1>0, <1>3, <2>2, PlaceTellsBids DEF EndingsComeLast
<1>4. ASSUME NEW e \in Event, outbox' = Append(outbox, e), UNCHANGED bids, ~Closed,
             \/ e.type = "auction_ending" /\ ~Stopped /\ Stopped'
             \/ e.type = "auction_ended" /\ Stopped'
      PROVE  BidsTold' /\ EndingsComeLast'
  <2> DEFINE n == Len(outbox)
  <2>1. /\ Len(outbox') = n + 1
        /\ \A i \in 1 .. n : outbox'[i] = outbox[i]
        /\ outbox'[n + 1] = e
        /\ \A type : At(outbox', type) =
              IF e.type = type THEN At(outbox, type) \cup {n + 1} ELSE At(outbox, type)
    BY <1>0, <1>4, AtAppend
  <2>2. \A type : Told(type)' = At(outbox', type) /\ Told(type) = At(outbox, type)
    BY DEF Told, At
  <2>3. Told("auction_ended") = {}
    BY <1>4 DEF AInv, ToldOnce
  <2>4. Told("auction_ending") \subseteq 1 .. n
    BY DEF Told
  <2>5. CASE e.type = "auction_ending" /\ ~Stopped
    <3>1. Told("auction_ending")' = {n + 1} /\ Told("auction_ended")' = {}
      BY <2>1, <2>2, <2>3, <2>5 DEF EndingsComeLast
    <3> QED
      BY <1>0, <1>4, <2>1, <2>5, <3>1, EndingTellsBids DEF EndingsComeLast
  <2>6. CASE e.type = "auction_ended"
    <3>1. /\ Told("auction_ending")' = Told("auction_ending")
          /\ Told("auction_ended")' = {n + 1}
      BY <2>1, <2>2, <2>3, <2>6
    <3>2. \A i \in Told("auction_ending") :
             \A j \in 1 .. n + 1 : i < j => outbox'[j].type = "auction_ended"
      BY <1>0, <2>1, <2>6 DEF EndingsComeLast
    <3> QED
      BY <1>0, <1>4, <2>1, <2>6, <3>1, <3>2, EndingTellsBids DEF EndingsComeLast
  <2> QED
    BY <1>4, <2>5, <2>6
<1>5. ASSUME NEW w \in Workers, LiveToEnding(w)
      PROVE  BidsTold' /\ EndingsComeLast'
  <2> DEFINE e == [type |-> "auction_ending", value |-> None, bid |-> None]
  <2>1. UNCHANGED bids
    BY <1>5 DEF LiveToEnding
  <2>2. CASE outbox' = outbox
    BY <1>2, <2>1, <2>2
  <2>3. CASE /\ row.status = "live" /\ row' = [row EXCEPT !.status = "ending"]
             /\ outbox' = Append(outbox, e)
    <3>1. ~Stopped /\ Stopped' /\ ~Closed
      BY <1>0, <2>3 DEF Stopped, Closed, Row
    <3>2. e \in Event /\ e.type = "auction_ending"
      BY DEF Event, Null
    <3> HIDE DEF e
    <3> QED
      BY <1>4, <2>1, <2>3, <3>1, <3>2
  <2> QED
    BY <1>5, <2>2, <2>3 DEF LiveToEnding
<1>6. ASSUME NEW w \in Workers, EndingToEnded(w)
      PROVE  BidsTold' /\ EndingsComeLast'
  <2> DEFINE e == [type |-> "auction_ended", value |-> row'.finalPrice, bid |-> row'.winnerBid]
  <2>1. UNCHANGED bids
    BY <1>6 DEF EndingToEnded
  <2>2. CASE outbox' = outbox
    BY <1>2, <2>1, <2>2
  <2>3. CASE row.status = "ending" /\ row' = CloseRow(row) /\ outbox' = Append(outbox, e)
    <3>1. Stopped' /\ ~Closed
      BY <1>1, <2>3 DEF Stopped, Closed
    <3>2. e \in Event /\ e.type = "auction_ended"
      <4>1. row' \in Row
        BY DEF AInv, Typed, TypeOK
      <4> QED
        BY <4>1 DEF Event, Row
    <3> HIDE DEF e
    <3> QED
      BY <1>4, <2>1, <2>3, <3>1, <3>2
  <2> QED
    BY <1>6, <2>2, <2>3 DEF EndingToEnded
<1>7. CASE Next /\ UNCHANGED command
  BY <1>2, <1>3, <1>5, <1>6, <1>7 DEF Next, RequestStep, WorkerStep, Submit,
     TakeBidLock, Begin, Reject, RollBack, ReleaseBidLock, Die, Poll, TakeEndLock,
     ReleaseEndLock, WorkerError, WorkerDies, ExpireBidLock, ExpireEndLock,
     RedisFails, RedisReturns, Tick
<1>8. ASSUME NEW c \in Commands, CommandStep(c)
      PROVE  BidsTold' /\ EndingsComeLast'
  BY <1>2, <1>8 DEF CommandStep, ReadEntity, DiffEntity, WriteEntity, ReadEnd,
     WriteEnd, OthersIdle
<1> QED
  BY <1>2, <1>7, <1>8 DEF AdminNext, adminVars

(* Whatever stale copies administrators save, a consumer of the outbox     *)
(* hears of every bid once and in order, of no bid after the auction's     *)
(* ending was announced, and of nothing after its end.                     *)
THEOREM OutboxTellsTheBidsAlways == AdminSpec => []OutboxTellsTheBids
<1>1. AdminInit => BidsTold /\ EndingsComeLast
  BY DEF AdminInit, Init, BidsTold, EndingsComeLast, Told
<1>2. AInv /\ AInv' /\ BidsTold /\ EndingsComeLast /\ [AdminNext]_adminVars
         => BidsTold' /\ EndingsComeLast'
  BY StepStory
<1>3. BidsTold /\ EndingsComeLast => OutboxTellsTheBids
  BY DEF BidsTold, EndingsComeLast, OutboxTellsTheBids
<1> QED
  BY <1>1, <1>2, <1>3, AInvariance, PTL DEF AdminSpec
=============================================================================
