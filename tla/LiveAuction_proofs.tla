------------------------- MODULE LiveAuction_proofs -------------------------
(***************************************************************************)
(* What LiveAuction guarantees for every number of requests, workers,      *)
(* keys, amounts and faults.  The invariant is inductive only as a whole:  *)
(* the worker's winner has a type because the bids table rises, the table  *)
(* rises because the row's price is the last bid's, and a late bid cannot  *)
(* spoil either because an open transaction knows when it began.           *)
(***************************************************************************)
EXTENDS LiveAuction, SequenceTheorems, FiniteSetTheorems, TLAPS

(* A transaction that waits for the row lock has fixed what NOW() returns. *)
BegunIsDated ==
    \A r \in Requests : req[r].pc = "begun" => req[r].begin \in Nat

Typed == TypeOK /\ BegunIsDated

(* Every bid asks what its attempt asked for.                              *)
BidsAreOffers ==
    \A i \in 1 .. Len(bids) : bids[i].amount = offer[bids[i].key]

IInv ==
    /\ TypeOK
    /\ BegunIsDated
    /\ BidsAreOffers
    /\ BidsRise
    /\ RowMatchesBids

-----------------------------------------------------------------------------
(* In a table of rising bids the worker's choice, the highest amount and   *)
(* the earliest of equals, is the last bid.                                *)
LEMMA TopBidIsLast ==
    ASSUME bids \in Seq(Bid), BidsRise, bids # <<>>
    PROVE  TopBid = Len(bids)
<1> DEFINE Top(i) == \A j \in 1 .. Len(bids) :
                        \/ bids[j].amount < bids[i].amount
                        \/ bids[j].amount = bids[i].amount /\ i <= j
<1>1. Len(bids) \in 1 .. Len(bids)
  OBVIOUS
<1>2. \A i \in 1 .. Len(bids) : bids[i].amount \in Nat
  <2>1. \A i \in 1 .. Len(bids) : bids[i] \in Bid
    BY ElementOfSeq
  <2> QED
    BY <2>1 DEF Bid
<1>3. Top(Len(bids))
  BY <1>1, <1>2 DEF BidsRise
<1>4. ASSUME NEW i \in 1 .. Len(bids), Top(i)
      PROVE  i = Len(bids)
  BY <1>1, <1>2, <1>4 DEF BidsRise
<1>5. TopBid = CHOOSE i \in 1 .. Len(bids) : Top(i)
  BY DEF TopBid
<1> HIDE DEF Top
<1> QED
  BY <1>1, <1>3, <1>4, <1>5

(* What the row caches is what a bid or the minimum increment is compared  *)
(* with.                                                                   *)
LEMMA PriceIsLastBid ==
    ASSUME RowMatchesBids, bids \in Seq(Bid)
    PROVE  Price = IF bids = <<>> THEN StartingPrice
                                  ELSE bids[Len(bids)].amount
<1>1. bids # <<>> => Len(bids) \in 1 .. Len(bids)
  OBVIOUS
<1>2. bids # <<>> => bids[Len(bids)] \in Bid
  BY <1>1, ElementOfSeq
<1>3. bids # <<>> => bids[Len(bids)].amount # None
  BY <1>2, ConstantsAssumption DEF Bid
<1> QED
  BY <1>3 DEF RowMatchesBids, Price, PriceOf

(* Nothing but the row, the bids table and the offers matters to the       *)
(* conjuncts about the auction.                                            *)
LEMMA AuctionUntouched ==
    ASSUME IInv, UNCHANGED <<row, bids, offer>>, Typed'
    PROVE  IInv'
BY DEF IInv, Typed, BidsAreOffers, BidsRise, RowMatchesBids, Ended

LEMMA IInvTyped == IInv => Typed
BY DEF IInv, Typed

-----------------------------------------------------------------------------
LEMMA InitIInv == Init => IInv
<1> SUFFICES ASSUME Init PROVE IInv
  OBVIOUS
<1> USE ConstantsAssumption
<1>1. row \in Row
  BY DEF Init, Row, FreshRow, Status, Null
<1>2. TypeOK
  BY <1>1 DEF Init, TypeOK, IdleRequest, IdleWorker, Call, Replica, RequestPc, WorkerPc, Null
<1>3. BegunIsDated
  BY DEF Init, BegunIsDated, IdleRequest
<1>4. BidsAreOffers /\ BidsRise
  BY DEF Init, BidsAreOffers, BidsRise
<1>5. RowMatchesBids
  BY DEF Init, RowMatchesBids, FreshRow, Ended
<1> QED
  BY <1>2, <1>3, <1>4, <1>5 DEF IInv

-----------------------------------------------------------------------------
(* A step of one request leaves the types alone when what it writes has    *)
(* one, and leaves the transactions dated when what it begins is.          *)
LEMMA CallMoves ==
    ASSUME NEW r \in Requests, NEW c \in Call,
           req \in [Requests -> Call], BegunIsDated,
           req' = [req EXCEPT ![r] = c],
           c.pc = "begun" => c.begin \in Nat
    PROVE  req' \in [Requests -> Call] /\ BegunIsDated'
BY DEF BegunIsDated

(* Done and Finish write a call.                                           *)
LEMMA CallAnswered ==
    ASSUME NEW r \in Requests, NEW a \in Answers,
           req \in [Requests -> Call], BegunIsDated,
           Done(r, a) \/ Finish(r, a)
    PROVE  req' \in [Requests -> Call] /\ BegunIsDated'
<1>1. CASE Done(r, a)
  <2> DEFINE c == [pc |-> "done", ref |-> None, begin |-> None, answer |-> a]
  <2>1. c \in Call
    BY DEF Call, RequestPc, Null
  <2> QED
    BY <1>1, <2>1, CallMoves DEF Done
<1>2. CASE Finish(r, a)
  <2> DEFINE c == [req[r] EXCEPT !.pc = "release", !.answer = a]
  <2>1. c \in Call /\ c.pc = "release"
    BY DEF Call, RequestPc, Null
  <2>2. req' = [req EXCEPT ![r] = c]
    BY <1>2 DEF Finish
  <2> QED
    BY <2>1, <2>2, CallMoves
<1> QED
  BY <1>1, <1>2

(* The steps of a request before it holds the row lock, and after.         *)
LEMMA RequestTyped ==
    ASSUME Typed, NEW r \in Requests,
           \/ Submit(r) \/ TakeBidLock(r) \/ Begin(r) \/ Reject(r) \/ RollBack(r)
           \/ ReleaseBidLock(r) \/ Die(r)
    PROVE  Typed' /\ UNCHANGED <<row, bids, outbox, offer>>
<1> USE DEF Typed
<1>1. ShownPrices \subseteq Nat
  <2>1. \A i \in 1 .. Len(bids) : bids[i] \in Bid
    BY ElementOfSeq DEF TypeOK
  <2> QED
    BY <2>1, ConstantsAssumption DEF ShownPrices, Bid
<1>2. req \in [Requests -> Call] /\ req[r] \in Call
  BY DEF TypeOK
<1>3. \A a \in {"accepted", "rejected", "failed"} : a \in Answers
  BY DEF Answers
<1>4. req' \in [Requests -> Call] /\ BegunIsDated'
  <2>1. CASE Submit(r)
    <3>1. CASE Done(r, "accepted")
      BY <1>2, <1>3, <3>1, CallAnswered
    <3>2. ASSUME NEW p \in ShownPrices,
                 req' = [req EXCEPT ![r].pc = "admitted", ![r].ref = p]
          PROVE  req' \in [Requests -> Call] /\ BegunIsDated'
      <4> DEFINE c == [req[r] EXCEPT !.pc = "admitted", !.ref = p]
      <4>1. c \in Call /\ c.pc = "admitted"
        BY <1>1, <1>2 DEF Call, RequestPc, Null
      <4>2. req' = [req EXCEPT ![r] = c]
        BY <1>2, <3>2
      <4> QED
        BY <1>2, <4>1, <4>2, CallMoves
    <3> QED
      BY <2>1, <3>1, <3>2 DEF Submit
  <2>2. CASE TakeBidLock(r)
    <3> DEFINE c == [req[r] EXCEPT !.pc = "locked"]
    <3>1. c \in Call /\ c.pc = "locked"
      BY <1>2 DEF Call, RequestPc
    <3>2. req' = [req EXCEPT ![r] = c] \/ Done(r, "failed")
      BY <1>2, <2>2 DEF TakeBidLock
    <3> QED
      BY <1>2, <1>3, <3>1, <3>2, CallMoves, CallAnswered
  <2>3. CASE Begin(r)
    <3> DEFINE c == [req[r] EXCEPT !.pc = "begun", !.begin = now]
    <3>1. c \in Call /\ c.begin \in Nat
      BY <1>2 DEF Call, RequestPc, Null, TypeOK
    <3>2. req' = [req EXCEPT ![r] = c] \/ Finish(r, "accepted")
      BY <1>2, <2>3 DEF Begin
    <3> QED
      BY <1>2, <1>3, <3>1, <3>2, CallMoves, CallAnswered
  <2>4. CASE Reject(r)
    BY <1>2, <1>3, <2>4, CallAnswered DEF Reject
  <2>5. CASE RollBack(r)
    BY <1>2, <1>3, <2>5, CallAnswered DEF RollBack
  <2>6. CASE Die(r)
    BY <1>2, <1>3, <2>6, CallAnswered DEF Die
  <2>7. CASE ReleaseBidLock(r)
    <3>1. CASE Done(r, "failed")
      BY <1>2, <1>3, <3>1, CallAnswered
    <3>2. CASE Done(r, req[r].answer)
      <4> DEFINE c == [pc |-> "done", ref |-> None, begin |-> None,
                       answer |-> req[r].answer]
      <4>1. c \in Call
        BY <1>2 DEF Call, RequestPc, Null
      <4> QED
        BY <1>2, <3>2, <4>1, CallMoves DEF Done
    <3> QED
      BY <2>7, <3>1, <3>2 DEF ReleaseBidLock
  <2> QED
    BY <2>1, <2>2, <2>3, <2>4, <2>5, <2>6, <2>7
<1>5. /\ UNCHANGED <<now, row, bids, outbox, offer, worker, endLock, redisUp, faults>>
      /\ bidLock' \in {bidLock, r, None}
  BY DEF Submit, TakeBidLock, Begin, Reject, RollBack, Die, ReleaseBidLock
<1>6. TypeOK'
  BY <1>4, <1>5 DEF TypeOK, Null
<1> QED
  BY <1>4, <1>5, <1>6

(* What a bid writes to the row is of the row's types.                     *)
LEMMA RowUpdate ==
    ASSUME NEW rw \in Row, NEW p \in Null(Nat), NEW n \in Nat,
           NEW e \in Null(Nat), NEW x \in Nat
    PROVE  [rw EXCEPT !.currentPrice = p, !.bidCount = n, !.extendedUntil = e,
                      !.extensionCount = x] \in Row
BY DEF Row

(* What a placed bid writes are numbers.                                   *)
LEMMA PlacedValues ==
    ASSUME Typed, NEW r \in Requests, Place(r)
    PROVE  /\ KeyOf[r] \in Keys
           /\ offer[KeyOf[r]] \in Nat
           /\ req[r].begin + SniperExtension \in Nat
<1>1. KeyOf[r] \in Keys /\ Amounts \subseteq Nat /\ SniperExtension \in Nat
  BY ConstantsAssumption
<1>2. offer[KeyOf[r]] \in Amounts
  BY <1>1 DEF Typed, TypeOK
<1>3. req[r].pc = "begun"
  BY DEF Place
<1>4. req[r].begin \in Nat
  BY <1>3 DEF Typed, BegunIsDated
<1>5. offer[KeyOf[r]] \in Nat
  BY <1>1, <1>2
<1>6. req[r].begin + SniperExtension \in Nat
  BY <1>1, <1>4
<1> QED
  BY <1>1, <1>5, <1>6

(* A placed bid leaves everything typed.                                   *)
LEMMA PlaceTyped ==
    ASSUME Typed, NEW r \in Requests, Place(r)
    PROVE  Typed'
<1> DEFINE amount == offer[KeyOf[r]]
           bid    == [key |-> KeyOf[r], amount |-> amount]
           sniper == InSniperWindow(r)
           end    == req[r].begin + SniperExtension
<1> USE ConstantsAssumption DEF Typed
<1>1. amount \in Nat /\ bid \in Bid /\ end \in Nat
  BY PlacedValues DEF Bid
<1>2. /\ bids' = Append(bids, bid)
      /\ bids' \in Seq(Bid)
      /\ bids' # <<>>
      /\ Len(bids') = Len(bids) + 1
      /\ \A i \in 1 .. Len(bids) : bids'[i] = bids[i]
      /\ bids'[Len(bids')] = bid
  BY <1>1, AppendProperties DEF TypeOK, Place
<1>3. /\ row' = [row EXCEPT !.currentPrice = amount,
                            !.bidCount = @ + 1,
                            !.extendedUntil = IF sniper THEN end ELSE @,
                            !.extensionCount = IF sniper THEN @ + 1 ELSE @]
      /\ UNCHANGED <<now, offer, bidLock, worker, endLock, redisUp, faults>>
  BY DEF Place
<1>4. Len(bids) \in Nat
  BY LenProperties DEF TypeOK
<1>5. req' \in [Requests -> Call] /\ BegunIsDated'
  BY CallAnswered DEF TypeOK, Place, Answers
<1>6. TypeOK'
  <2>1. row' \in Row
    <3> HIDE DEF amount, sniper, end
    <3>1. row \in Row /\ row.bidCount + 1 \in Nat /\ row.extensionCount + 1 \in Nat
      BY DEF TypeOK, Row
    <3>2. /\ (IF sniper THEN end ELSE row.extendedUntil) \in Null(Nat)
          /\ (IF sniper THEN row.extensionCount + 1 ELSE row.extensionCount) \in Nat
          /\ amount \in Null(Nat)
      BY <1>1, <3>1 DEF Row, Null
    <3> QED
      BY <1>3, <3>1, <3>2, RowUpdate
  <2>2. outbox' \in Seq(Event)
    <3>1. [type |-> "bid_accepted", value |-> amount, bid |-> Len(bids) + 1] \in Event
      BY <1>1, <1>4 DEF Event, Null
    <3>2. [type |-> "sniper_extension", value |-> end, bid |-> Len(bids) + 1] \in Event
      BY <1>1, <1>4 DEF Event, Null
    <3> QED
      BY <3>1, <3>2, ConcatProperties DEF TypeOK, Place
  <2>3. req' \in [Requests -> Call]
    BY <1>5
  <2> QED
    BY <1>2, <1>3, <2>1, <2>2, <2>3 DEF TypeOK
<1> QED
  BY <1>5, <1>6

(* A placed bid: the new last bid is the new price.                        *)
LEMMA PlaceIInv ==
    ASSUME IInv, NEW r \in Requests, Place(r)
    PROVE  IInv'
<1> DEFINE amount == offer[KeyOf[r]]
           bid    == [key |-> KeyOf[r], amount |-> amount]
           sniper == InSniperWindow(r)
           end    == req[r].begin + SniperExtension
<1> USE ConstantsAssumption DEF IInv
<1>1. amount \in Nat /\ bid \in Bid /\ end \in Nat
  BY PlacedValues, IInvTyped DEF Bid
<1>2. /\ bids' = Append(bids, bid)
      /\ bids' \in Seq(Bid)
      /\ bids' # <<>>
      /\ Len(bids') = Len(bids) + 1
      /\ \A i \in 1 .. Len(bids) : bids'[i] = bids[i]
      /\ bids'[Len(bids')] = bid
  BY <1>1, AppendProperties DEF TypeOK, Place
<1>3. /\ row' = [row EXCEPT !.currentPrice = amount,
                            !.bidCount = @ + 1,
                            !.extendedUntil = IF sniper THEN end ELSE @,
                            !.extensionCount = IF sniper THEN @ + 1 ELSE @]
      /\ UNCHANGED <<now, offer, bidLock, worker, endLock, redisUp, faults>>
  BY DEF Place
<1>4. Len(bids) \in Nat
  BY LenProperties DEF TypeOK
<1>7. BidsAreOffers'
  BY <1>2, <1>3, <1>4 DEF BidsAreOffers
<1>8. BidsRise'
  <2>1. amount >= Price + MinimumIncrement
    BY DEF Place, Valid
  <2>2. Price = IF bids = <<>> THEN StartingPrice ELSE bids[Len(bids)].amount
    BY PriceIsLastBid DEF TypeOK
  <2>3. \A i \in 1 .. Len(bids) : bids[i].amount \in Nat
    <3>1. \A i \in 1 .. Len(bids) : bids[i] \in Bid
      BY ElementOfSeq DEF TypeOK
    <3> QED
      BY <3>1 DEF Bid
  <2>4. bids # <<>> => Len(bids) \in 1 .. Len(bids)
    BY EmptySeq, <1>4 DEF TypeOK
  <2>5. ASSUME NEW i \in 1 .. Len(bids)
        PROVE  bids[i].amount < amount
    <3>1. bids # <<>> /\ bids[Len(bids)].amount < amount
      BY <1>1, <2>1, <2>2, <2>3, <2>4
    <3> QED
      BY <1>1, <1>4, <2>3, <2>4, <3>1 DEF BidsRise
  <2>6. amount >= MinimumIncrement
            + (IF Len(bids) + 1 = 1 THEN StartingPrice ELSE bids[Len(bids)].amount)
    BY <1>1, <1>4, <2>1, <2>2, <2>3, <2>4
  <2> QED
    BY <1>2, <1>4, <2>5, <2>6 DEF BidsRise
<1>9. RowMatchesBids'
  <2>1. row.status = "live" /\ row'.status = "live"
    BY <1>3 DEF Place, Valid, TypeOK, Row
  <2>2. row'.winnerBid = None /\ row'.finalPrice = None
    BY <1>3, <2>1 DEF RowMatchesBids, Ended, TypeOK, Row
  <2>3. row'.bidCount = Len(bids') /\ row'.currentPrice = amount
    BY <1>2, <1>3 DEF RowMatchesBids, TypeOK, Row
  <2> QED
    BY <1>2, <2>1, <2>2, <2>3 DEF RowMatchesBids, Ended
<1> QED
  BY <1>7, <1>8, <1>9, PlaceTyped, IInvTyped DEF Typed

(* The worker moves between its steps; where it goes is in the type.       *)
LEMMA ReplicaMoves ==
    ASSUME NEW w \in Workers, NEW pc \in WorkerPc,
           worker \in [Workers -> Replica],
           \/ Goto(w, pc)
           \/ Rest(w)
           \/ \E seen \in {"live", "ending"} :
                 worker' = [worker EXCEPT ![w] = [pc |-> pc, seen |-> seen]]
    PROVE  worker' \in [Workers -> Replica]
<1>1. CASE Goto(w, pc)
  <2>1. [worker[w] EXCEPT !.pc = pc] \in Replica
    BY DEF Replica
  <2>2. worker' = [worker EXCEPT ![w] = [worker[w] EXCEPT !.pc = pc]]
    BY <1>1 DEF Goto
  <2> QED
    BY <2>1, <2>2
<1>2. CASE Rest(w)
  BY <1>2 DEF Rest, IdleWorker, Replica, WorkerPc
<1>3. ASSUME NEW seen \in {"live", "ending"},
             worker' = [worker EXCEPT ![w] = [pc |-> pc, seen |-> seen]]
      PROVE  worker' \in [Workers -> Replica]
  BY <1>3 DEF Replica
<1> QED
  BY <1>1, <1>2, <1>3

(* The steps of a worker and of its environment that leave the row alone.  *)
LEMMA OtherTyped ==
    ASSUME Typed,
           \/ \E w \in Workers : \/ Poll(w) \/ TakeEndLock(w) \/ ReleaseEndLock(w)
                                \/ WorkerError(w) \/ WorkerDies(w)
           \/ ExpireBidLock \/ ExpireEndLock \/ RedisFails \/ RedisReturns \/ Tick
    PROVE  Typed' /\ UNCHANGED <<row, bids, outbox, offer>>
<1> USE DEF Typed
<1>1. UNCHANGED <<row, bids, outbox, offer, req>>
  BY DEF Poll, TakeEndLock, ReleaseEndLock, WorkerError, WorkerDies, ExpireBidLock,
         ExpireEndLock, RedisFails, RedisReturns, Tick
<1>2. BegunIsDated'
  BY <1>1 DEF BegunIsDated
<1>3. TypeOK'
  <2>1. ASSUME NEW w \in Workers,
               \/ Poll(w) \/ TakeEndLock(w) \/ ReleaseEndLock(w)
               \/ WorkerError(w) \/ WorkerDies(w)
        PROVE  TypeOK'
    <3>1. worker' \in [Workers -> Replica]
      <4>1. {"found", "locked", "ending", "release"} \subseteq WorkerPc
        BY DEF WorkerPc
      <4> QED
        BY <2>1, <4>1, ReplicaMoves
           DEF TypeOK, Poll, TakeEndLock, ReleaseEndLock, WorkerError, WorkerDies
    <3>2. /\ UNCHANGED <<now, bidLock, redisUp>>
          /\ endLock' \in {endLock, w, None}
          /\ faults' \in 0 .. MaxFaults
      BY <2>1, ConstantsAssumption
         DEF TypeOK, Poll, TakeEndLock, ReleaseEndLock, WorkerError, WorkerDies
    <3> QED
      BY <1>1, <3>1, <3>2 DEF TypeOK, Null
  <2>2. ASSUME ExpireBidLock \/ ExpireEndLock \/ RedisFails \/ RedisReturns \/ Tick
        PROVE  TypeOK'
    <3>1. now' \in Nat
      <4>1. now' \in {now, now + 1}
        BY <2>2 DEF ExpireBidLock, ExpireEndLock, RedisFails, RedisReturns, Tick
      <4> QED
        BY <4>1 DEF TypeOK
    <3>2. faults' \in 0 .. MaxFaults
      <4>1. faults' = faults \/ (faults < MaxFaults /\ faults' = faults + 1)
        BY <2>2 DEF ExpireBidLock, ExpireEndLock, RedisFails, RedisReturns, Tick
      <4> QED
        BY <4>1, ConstantsAssumption DEF TypeOK
    <3>3. redisUp' \in BOOLEAN
      <4>1. redisUp' \in {redisUp, TRUE, FALSE}
        BY <2>2 DEF ExpireBidLock, ExpireEndLock, RedisFails, RedisReturns, Tick
      <4> QED
        BY <4>1 DEF TypeOK
    <3>4. bidLock' \in {bidLock, None} /\ endLock' \in {endLock, None}
      BY <2>2 DEF ExpireBidLock, ExpireEndLock, RedisFails, RedisReturns, Tick
    <3>5. UNCHANGED worker
      BY <2>2 DEF ExpireBidLock, ExpireEndLock, RedisFails, RedisReturns, Tick
    <3> QED
      BY <1>1, <3>1, <3>2, <3>3, <3>4, <3>5 DEF TypeOK, Null
  <2> QED
    BY <2>1, <2>2
<1> QED
  BY <1>1, <1>2, <1>3

(* LIVE -> ENDING writes nothing the other conjuncts look at.              *)
LEMMA LiveToEndingTyped ==
    ASSUME Typed, NEW w \in Workers, LiveToEnding(w)
    PROVE  Typed'
<1> USE DEF Typed
<1>1. /\ UNCHANGED <<now, bids, offer, req, bidLock, endLock, redisUp, faults>>
      /\ \/ row.status = "live" /\ row' = [row EXCEPT !.status = "ending"]
         \/ UNCHANGED row
  BY DEF LiveToEnding
<1>2. row' \in Row
  BY <1>1 DEF TypeOK, Row, Status
<1>3. worker' \in [Workers -> Replica]
  BY ReplicaMoves DEF TypeOK, LiveToEnding, WorkerPc
<1>4. outbox' \in Seq(Event)
  <2> DEFINE e == [type |-> "auction_ending", value |-> None, bid |-> None]
  <2>1. e \in Event
    BY DEF Event, Null
  <2>2. Append(outbox, e) \in Seq(Event)
    BY <2>1, AppendProperties DEF TypeOK
  <2> QED
    BY <2>2 DEF TypeOK, LiveToEnding
<1> QED
  BY <1>1, <1>2, <1>3, <1>4 DEF TypeOK, BegunIsDated

LEMMA LiveToEndingIInv ==
    ASSUME IInv, NEW w \in Workers, LiveToEnding(w)
    PROVE  IInv'
<1> USE DEF IInv
<1>1. /\ UNCHANGED <<bids, offer>>
      /\ \/ row.status = "live" /\ row' = [row EXCEPT !.status = "ending"]
         \/ UNCHANGED row
  BY DEF LiveToEnding
<1>2. BidsAreOffers' /\ BidsRise'
  BY <1>1 DEF BidsAreOffers, BidsRise
<1>3. RowMatchesBids'
  BY <1>1 DEF RowMatchesBids, Ended, TypeOK, Row
<1> QED
  BY <1>2, <1>3, LiveToEndingTyped, IInvTyped DEF Typed

(* ENDING -> ENDED writes a bid that exists.                               *)
LEMMA EndingToEndedTyped ==
    ASSUME Typed, NEW w \in Workers, EndingToEnded(w),
           bids # <<>> => TopBid \in 1 .. Len(bids)
    PROVE  Typed'
<1> USE DEF Typed
<1>1. /\ UNCHANGED <<now, bids, offer, req, bidLock, endLock, redisUp, faults>>
      /\ row' = CloseRow(row) \/ UNCHANGED row
  BY DEF EndingToEnded
<1>2. bids # <<>> => TopBid \in Nat /\ bids[TopBid].amount \in Nat
  <2>1. bids # <<>> => bids[TopBid] \in Bid /\ TopBid \in Nat
    BY ElementOfSeq DEF TypeOK
  <2> QED
    BY <2>1 DEF Bid
<1>3. row' \in Row
  <2>1. row \in Row /\ now \in Nat
    BY DEF TypeOK
  <2> QED
    BY <1>1, <1>2, <2>1 DEF CloseRow, Row, Status, Null
<1>4. worker' \in [Workers -> Replica]
  BY ReplicaMoves DEF TypeOK, EndingToEnded, WorkerPc
<1>5. outbox' \in Seq(Event)
  <2> DEFINE e == [type |-> "auction_ended", value |-> row'.finalPrice, bid |-> row'.winnerBid]
  <2>1. e \in Event
    BY <1>3 DEF Event, Row
  <2>2. outbox' = Append(outbox, e) \/ UNCHANGED outbox
    BY DEF EndingToEnded
  <2> HIDE DEF e
  <2> QED
    BY <2>1, <2>2, AppendProperties DEF TypeOK
<1> QED
  BY <1>1, <1>3, <1>4, <1>5 DEF TypeOK, BegunIsDated

(* ENDING -> ENDED freezes the last bid.                                   *)
LEMMA EndingToEndedIInv ==
    ASSUME IInv, NEW w \in Workers, EndingToEnded(w)
    PROVE  IInv'
<1> USE DEF IInv
<1>1. /\ UNCHANGED <<now, bids, offer, req, bidLock, endLock, redisUp, faults>>
      /\ \/ row.status = "ending" /\ row' = CloseRow(row)
         \/ UNCHANGED row
  BY DEF EndingToEnded
<1>2. bids # <<>> => /\ TopBid = Len(bids)
                     /\ TopBid \in Nat
                     /\ bids[TopBid].amount \in Nat
                     /\ bids[TopBid].amount = row.currentPrice
  <2>1. bids # <<>> => Len(bids) \in 1 .. Len(bids)
    BY EmptySeq DEF TypeOK
  <2>2. bids # <<>> => bids[Len(bids)] \in Bid
    BY <2>1, ElementOfSeq DEF TypeOK
  <2> QED
    BY <2>1, <2>2, TopBidIsLast DEF TypeOK, Bid, RowMatchesBids
<1>3. row.status = "ending" =>
        /\ CloseRow(row) \in Row
        /\ CloseRow(row).status = "ended"
        /\ CloseRow(row).bidCount = row.bidCount
        /\ CloseRow(row).currentPrice = row.currentPrice
        /\ CloseRow(row).winnerBid = IF bids = <<>> THEN None ELSE Len(bids)
        /\ CloseRow(row).finalPrice = row.currentPrice
  <2>1. row \in Row /\ now \in Nat
    BY DEF TypeOK
  <2>2. CASE bids = <<>>
    BY <2>1, <2>2 DEF CloseRow, Row, Status, Null, RowMatchesBids, Ended
  <2>3. CASE bids # <<>>
    BY <1>2, <2>1, <2>3 DEF CloseRow, Row, Status, Null
  <2> QED
    BY <2>2, <2>3
<1>4. Typed'
  <2>1. bids # <<>> => TopBid \in 1 .. Len(bids)
    BY <1>2, EmptySeq DEF TypeOK
  <2> QED
    BY <2>1, IInvTyped, EndingToEndedTyped
<1>5. BidsAreOffers' /\ BidsRise'
  BY <1>1 DEF BidsAreOffers, BidsRise
<1>6. RowMatchesBids'
  BY <1>1, <1>3 DEF RowMatchesBids, Ended
<1> QED
  BY <1>4, <1>5, <1>6 DEF Typed

LEMMA StepIInv == IInv /\ [Next]_vars => IInv'
<1> SUFFICES ASSUME IInv, [Next]_vars PROVE IInv'
  OBVIOUS
<1>1. ASSUME NEW r \in Requests, RequestStep(r) PROVE IInv'
  BY <1>1, RequestTyped, PlaceIInv, IInvTyped, AuctionUntouched DEF RequestStep
<1>2. ASSUME NEW w \in Workers, WorkerStep(w) \/ WorkerError(w) \/ WorkerDies(w)
      PROVE  IInv'
  BY <1>2, OtherTyped, IInvTyped, AuctionUntouched, LiveToEndingIInv, EndingToEndedIInv
     DEF WorkerStep
<1>3. CASE ExpireBidLock \/ ExpireEndLock \/ RedisFails \/ RedisReturns \/ Tick
  BY <1>3, OtherTyped, IInvTyped, AuctionUntouched
<1>4. CASE UNCHANGED vars
  BY <1>4 DEF vars, IInv, TypeOK, BegunIsDated, BidsAreOffers, BidsRise,
              RowMatchesBids, Ended
<1> QED
  BY <1>1, <1>2, <1>3, <1>4 DEF Next

LEMMA Invariance == Spec => []IInv
BY InitIInv, StepIInv, PTL DEF Spec

(* Whatever is interleaved, lost or retried, every variable keeps its      *)
(* type: an extension is computed from a NOW() that was read, a winner     *)
(* from a bid that exists.                                                 *)
THEOREM TypeCorrect == Spec => []TypeOK
BY Invariance, PTL DEF IInv

(* The bids table rises by the increment in commit order: BidService with  *)
(* its row lock serialises what the Redis lock alone would not.            *)
THEOREM BidsRiseAlways == Spec => []BidsRise
BY Invariance, PTL DEF IInv

(* The auction row and the frozen outcome never disagree with the bids.    *)
THEOREM RowMatchesBidsAlways == Spec => []RowMatchesBids
BY Invariance, PTL DEF IInv

-----------------------------------------------------------------------------
(* Answers.                                                                *)

(* Done and Finish touch the answer of one request only.                   *)
LEMMA AnswerOf ==
    ASSUME NEW r \in Requests, NEW a, req \in [Requests -> Call],
           Done(r, a) \/ Finish(r, a)
    PROVE  \A q \in Requests : req'[q].answer = IF q = r THEN a ELSE req[q].answer
<1>1. CASE Done(r, a)
  BY <1>1 DEF Done
<1>2. CASE Finish(r, a)
  BY <1>2 DEF Finish, Call
<1> QED
  BY <1>1, <1>2

LEMMA StepDurable ==
    ASSUME IInv, AcceptedIsDurable, [Next]_vars
    PROVE  AcceptedIsDurable'
<1> USE DEF AcceptedIsDurable
<1>1. req \in [Requests -> Call] /\ bids \in Seq(Bid)
  BY DEF IInv, TypeOK
<1>2. ASSUME UNCHANGED <<req, bids>>
      PROVE  AcceptedIsDurable'
  BY <1>2 DEF PlacedKeys
<1>3. ASSUME NEW r \in Requests, RequestStep(r), ~Place(r)
      PROVE  AcceptedIsDurable'
  <2>1. PlacedKeys' = PlacedKeys
    BY <1>3 DEF RequestStep, Submit, TakeBidLock, Begin, Reject, RollBack,
                ReleaseBidLock, Die, PlacedKeys
  <2>2. CASE \E a \in {"rejected", "failed"} : Done(r, a) \/ Finish(r, a)
    BY <1>1, <2>1, <2>2, AnswerOf
  <2>3. CASE KeyOf[r] \in PlacedKeys /\ (Done(r, "accepted") \/ Finish(r, "accepted"))
    BY <1>1, <2>1, <2>3, AnswerOf
  <2>4. CASE Done(r, req[r].answer)
    BY <1>1, <2>1, <2>4, AnswerOf
  <2>5. CASE \A q \in Requests : req'[q].answer = req[q].answer
    BY <2>1, <2>5
  <2>6. CASE Submit(r)
    <3>1. CASE \E p \in ShownPrices :
                  req' = [req EXCEPT ![r].pc = "admitted", ![r].ref = p]
      BY <1>1, <2>5, <3>1 DEF Call
    <3> QED
      BY <2>3, <2>6, <3>1 DEF Submit
  <2>7. CASE TakeBidLock(r)
    <3>1. CASE req' = [req EXCEPT ![r].pc = "locked"]
      BY <1>1, <2>5, <3>1 DEF Call
    <3> QED
      BY <2>2, <2>7, <3>1 DEF TakeBidLock
  <2>8. CASE Begin(r)
    <3>1. CASE req' = [req EXCEPT ![r].pc = "begun", ![r].begin = now]
      BY <1>1, <2>5, <3>1 DEF Call
    <3> QED
      BY <2>3, <2>8, <3>1 DEF Begin
  <2>9. CASE Reject(r) \/ RollBack(r) \/ Die(r)
    BY <2>2, <2>9 DEF Reject, RollBack, Die
  <2>10. CASE ReleaseBidLock(r)
    BY <2>2, <2>4, <2>10 DEF ReleaseBidLock
  <2> QED
    BY <1>3, <2>6, <2>7, <2>8, <2>9, <2>10 DEF RequestStep
<1>4. ASSUME NEW r \in Requests, Place(r)
      PROVE  AcceptedIsDurable'
  <2> DEFINE bid == [key |-> KeyOf[r], amount |-> offer[KeyOf[r]]]
  <2>1. bid \in Bid
    BY ConstantsAssumption DEF IInv, TypeOK, Bid
  <2>2. bids' = Append(bids, bid)
    BY <1>4 DEF Place
  <2>3. /\ Len(bids') = Len(bids) + 1
        /\ \A i \in 1 .. Len(bids) : bids'[i] = bids[i]
        /\ bids'[Len(bids) + 1] = bid
        /\ Len(bids) \in Nat
    BY <1>1, <2>1, <2>2, AppendProperties, LenProperties
  <2>4. PlacedKeys \subseteq PlacedKeys' /\ KeyOf[r] \in PlacedKeys'
    BY <2>3 DEF PlacedKeys
  <2>5. Finish(r, "accepted")
    BY <1>4 DEF Place
  <2> QED
    BY <1>1, <2>4, <2>5, AnswerOf
<1>5. ASSUME NEW w \in Workers, WorkerStep(w) \/ WorkerError(w) \/ WorkerDies(w)
      PROVE  AcceptedIsDurable'
  BY <1>2, <1>5 DEF WorkerStep, Poll, TakeEndLock, LiveToEnding, EndingToEnded,
     ReleaseEndLock, WorkerError, WorkerDies
<1>6. CASE \/ ExpireBidLock \/ ExpireEndLock \/ RedisFails \/ RedisReturns \/ Tick
           \/ UNCHANGED vars
  BY <1>2, <1>6 DEF ExpireBidLock, ExpireEndLock, RedisFails, RedisReturns, Tick, vars
<1> QED
  BY <1>3, <1>4, <1>5, <1>6 DEF Next

(* A bid that was confirmed to anyone, first call or retry, is committed.  *)
THEOREM AcceptedIsDurableAlways == Spec => []AcceptedIsDurable
<1>1. Init => AcceptedIsDurable
  BY ConstantsAssumption DEF Init, AcceptedIsDurable, IdleRequest, Answers
<1>2. IInv /\ AcceptedIsDurable /\ [Next]_vars => AcceptedIsDurable'
  BY StepDurable
<1> QED
  BY <1>1, <1>2, Invariance, PTL DEF Spec

-----------------------------------------------------------------------------
(* The outbox.                                                             *)

(* Where in a sequence of events those of a type stand, and what an event  *)
(* more does to that.                                                      *)
At(s, type) == {i \in 1 .. Len(s) : s[i].type = type}

LEMMA AtAppend ==
    ASSUME NEW s \in Seq(Event), NEW e \in Event
    PROVE  /\ Append(s, e) \in Seq(Event)
           /\ Len(s) \in Nat /\ Len(Append(s, e)) = Len(s) + 1
           /\ \A i \in 1 .. Len(s) : Append(s, e)[i] = s[i]
           /\ Append(s, e)[Len(s) + 1] = e
           /\ \A type : At(Append(s, e), type) =
                 IF e.type = type THEN At(s, type) \cup {Len(s) + 1} ELSE At(s, type)
<1> DEFINE a == Append(s, e)
<1>1. /\ a \in Seq(Event) /\ Len(a) = Len(s) + 1 /\ Len(s) \in Nat
      /\ \A i \in 1 .. Len(s) : a[i] = s[i]
      /\ a[Len(s) + 1] = e
  BY AppendProperties, LenProperties
<1> HIDE DEF a
<1>2. 1 .. Len(a) = (1 .. Len(s)) \cup {Len(s) + 1} /\ Len(s) + 1 \notin 1 .. Len(s)
  BY <1>1
<1>3. ASSUME NEW type
      PROVE  At(a, type) = IF e.type = type THEN At(s, type) \cup {Len(s) + 1}
                                            ELSE At(s, type)
  BY <1>1, <1>2 DEF At
<1> QED
  BY <1>1, <1>3 DEF a

(* The extensions told are finitely many.                                  *)
LEMMA OneMoreExtension ==
    ASSUME IInv
    PROVE  LET sniper == Told("sniper_extension")
           IN  /\ Cardinality(sniper) \in Nat
               /\ Cardinality(sniper \cup {Len(outbox) + 2}) = Cardinality(sniper) + 1
<1> DEFINE sniper == Told("sniper_extension")
<1>1. Len(outbox) \in Nat
  BY LenProperties DEF IInv, TypeOK
<1>2. IsFiniteSet(1 .. Len(outbox)) /\ sniper \in SUBSET (1 .. Len(outbox))
  BY <1>1, FS_Interval DEF Told
<1>3. IsFiniteSet(sniper) /\ Len(outbox) + 2 \notin sniper
  BY <1>1, <1>2, FS_Subset
<1> QED
  BY <1>3, FS_AddElement, FS_CardinalityType

LEMMA InitTells == Init => OutboxTellsTheRow
<1> SUFFICES ASSUME Init PROVE OutboxTellsTheRow
  OBVIOUS
<1>1. \A type : Told(type) = {}
  BY DEF Init, Told
<1>2. row.status \notin {"ending", "ended"}
  BY ConstantsAssumption DEF Init, FreshRow
<1>3. row.extensionCount = 0 /\ row.extendedUntil = None /\ bids = <<>>
  BY DEF Init, FreshRow
<1> QED
  BY <1>1, <1>2, <1>3, FS_EmptySet DEF OutboxTellsTheRow

LEMMA PlaceEvents ==
    ASSUME Typed, NEW r \in Requests, Place(r)
    PROVE  LET n      == Len(outbox)
               sniper == InSniperWindow(r)
           IN  /\ \A i \in 1 .. n : outbox'[i] = outbox[i]
               /\ outbox'[n + 1].bid = Len(bids) + 1
               /\ outbox'[n + 1].value = offer[KeyOf[r]]
               /\ sniper => outbox'[n + 2].value = req[r].begin + SniperExtension
               /\ Told("bid_accepted")' = Told("bid_accepted") \cup {n + 1}
               /\ Told("sniper_extension")' =
                     IF sniper THEN Told("sniper_extension") \cup {n + 2}
                               ELSE Told("sniper_extension")
               /\ Told("auction_ending")' = Told("auction_ending")
               /\ Told("auction_ended")' = Told("auction_ended")
<1> DEFINE amount == offer[KeyOf[r]]
           id     == Len(bids) + 1
           end    == req[r].begin + SniperExtension
           sniper == InSniperWindow(r)
           n      == Len(outbox)
           first  == [type |-> "bid_accepted", value |-> amount, bid |-> id]
           second == [type |-> "sniper_extension", value |-> end, bid |-> id]
           one    == Append(outbox, first)
           two    == Append(one, second)
<1>1. Len(bids) \in Nat /\ outbox \in Seq(Event) /\ n \in Nat
  BY LenProperties DEF Typed, TypeOK
<1>2. first \in Event /\ second \in Event
  BY <1>1, PlacedValues DEF Event, Null
<1>13. /\ first.type = "bid_accepted" /\ second.type = "sniper_extension"
       /\ first.bid = id /\ first.value = amount /\ second.value = end
  OBVIOUS
<1>3. outbox' = IF sniper THEN two ELSE one
  <2>1. outbox' = (outbox \o <<first>>) \o (IF sniper THEN <<second>> ELSE <<>>)
    BY DEF Place
  <2>2. one = outbox \o <<first>> /\ one \in Seq(Event)
    BY <1>1, <1>2, AppendIsConcat, AppendProperties
  <2>3. two = one \o <<second>> /\ one \o <<>> = one
    BY <1>2, <2>2, AppendIsConcat, ConcatEmptySeq
  <2> QED
    BY <2>1, <2>2, <2>3
<1> HIDE DEF first, second
<1>4. /\ \A i \in 1 .. n : outbox'[i] = outbox[i]
      /\ outbox'[n + 1] = first
      /\ sniper => outbox'[n + 2] = second
      /\ \A type : At(outbox', type) =
            At(outbox, type) \cup (IF type = "bid_accepted" THEN {n + 1} ELSE {})
               \cup (IF sniper /\ type = "sniper_extension" THEN {n + 2} ELSE {})
  <2>1. /\ one \in Seq(Event) /\ Len(one) = n + 1
        /\ \A i \in 1 .. n : one[i] = outbox[i]
        /\ one[n + 1] = first
        /\ \A type : At(one, type) =
              IF type = "bid_accepted" THEN At(outbox, type) \cup {n + 1} ELSE At(outbox, type)
    BY <1>1, <1>2, <1>13, AtAppend
  <2> HIDE DEF one
  <2>2. /\ \A i \in 1 .. n + 1 : two[i] = one[i]
        /\ two[n + 2] = second
        /\ \A type : At(two, type) =
              IF type = "sniper_extension" THEN At(one, type) \cup {n + 2} ELSE At(one, type)
    BY <1>1, <1>2, <1>13, <2>1, AtAppend
  <2> HIDE DEF two, sniper
  <2>3. CASE sniper
    BY <1>1, <1>3, <2>1, <2>2, <2>3
  <2>4. CASE ~sniper
    BY <1>1, <1>3, <2>1, <2>4
  <2> QED
    BY <2>3, <2>4
<1>5. /\ Told("bid_accepted")' = Told("bid_accepted") \cup {n + 1}
      /\ Told("sniper_extension")' =
            IF sniper THEN Told("sniper_extension") \cup {n + 2} ELSE Told("sniper_extension")
      /\ Told("auction_ending")' = Told("auction_ending")
      /\ Told("auction_ended")' = Told("auction_ended")
  <2>1. \A type : Told(type)' = At(outbox', type)
    BY DEF Told, At
  <2>2. \A type : Told(type) = At(outbox, type)
    BY DEF Told, At
  <2> HIDE DEF sniper
  <2> QED
    BY <1>4, <2>1, <2>2
<1> QED
  BY <1>4, <1>5, <1>13

(* Every bid is told once, at its amount, in bid order.                    *)
BidsTold ==
    /\ \A b \in 1 .. Len(bids) : \E i \in Told("bid_accepted") : outbox[i].bid = b
    /\ \A i \in Told("bid_accepted") :
          /\ outbox[i].bid \in 1 .. Len(bids)
          /\ outbox[i].value = bids[outbox[i].bid].amount
    /\ \A i, j \in Told("bid_accepted") : i < j => outbox[i].bid < outbox[j].bid

LEMMA PlaceTellsBids ==
    ASSUME Typed, BidsTold, NEW r \in Requests, Place(r)
    PROVE  BidsTold'
<1> DEFINE amount == offer[KeyOf[r]]
           id     == Len(bids) + 1
           n      == Len(outbox)
           placed == Told("bid_accepted")
<1>1. Len(bids) \in Nat /\ outbox \in Seq(Event) /\ n \in Nat
  BY LenProperties DEF Typed, TypeOK
<1>2. /\ \A i \in 1 .. n : outbox'[i] = outbox[i]
      /\ outbox'[n + 1].bid = id /\ outbox'[n + 1].value = amount
      /\ Told("bid_accepted")' = placed \cup {n + 1}
  BY PlaceEvents
<1>3. /\ Len(bids') = id /\ bids'[id].amount = amount
      /\ \A b \in 1 .. Len(bids) : bids'[b] = bids[b]
  <2>1. [key |-> KeyOf[r], amount |-> amount] \in Bid
    BY PlacedValues DEF Bid
  <2> QED
    BY <2>1, AppendProperties DEF Place, Typed, TypeOK
<1>4. placed \subseteq 1 .. n
  BY DEF Told
<1> HIDE DEF amount
<1>5. /\ \A b \in 1 .. Len(bids) : \E i \in placed : outbox[i].bid = b
      /\ \A i \in placed : /\ outbox[i].bid \in 1 .. Len(bids)
                           /\ outbox[i].value = bids[outbox[i].bid].amount
      /\ \A i, j \in placed : i < j => outbox[i].bid < outbox[j].bid
  BY DEF BidsTold
<1> HIDE DEF placed
<1>6. \A i \in placed : outbox'[i] = outbox[i] /\ i < n + 1
  BY <1>1, <1>2, <1>4
<1>7. ASSUME NEW b \in 1 .. Len(bids')
      PROVE  \E i \in placed \cup {n + 1} : outbox'[i].bid = b
  <2>1. CASE b = id
    BY <1>2, <2>1
  <2>2. CASE b # id
    <3>1. b \in 1 .. Len(bids)
      BY <1>1, <1>3, <2>2
    <3>2. PICK i \in placed : outbox[i].bid = b
      BY <1>5, <3>1
    <3> QED
      BY <1>6, <3>2
  <2> QED
    BY <2>1, <2>2
<1>8. \A i \in placed \cup {n + 1} : /\ outbox'[i].bid \in 1 .. Len(bids')
                                     /\ outbox'[i].value = bids'[outbox'[i].bid].amount
  BY <1>1, <1>2, <1>3, <1>5, <1>6
<1>9. \A i, j \in placed \cup {n + 1} : i < j => outbox'[i].bid < outbox'[j].bid
  BY <1>1, <1>2, <1>4, <1>5, <1>6
<1> QED
  BY <1>2, <1>7, <1>8, <1>9 DEF BidsTold

(* An event of another type leaves what is told of the bids alone.         *)
LEMMA EndingTellsBids ==
    ASSUME Typed, BidsTold, NEW e \in Event, outbox' = Append(outbox, e),
           e.type # "bid_accepted", UNCHANGED bids
    PROVE  BidsTold'
<1> DEFINE n == Len(outbox)
           placed == Told("bid_accepted")
<1>1. /\ \A i \in 1 .. n : outbox'[i] = outbox[i]
      /\ \A type : At(outbox', type) =
            IF e.type = type THEN At(outbox, type) \cup {n + 1} ELSE At(outbox, type)
  BY AtAppend DEF Typed, TypeOK
<1>2. Told("bid_accepted")' = placed /\ placed \subseteq 1 .. n
  BY <1>1 DEF Told, At
<1>3. \A i \in placed : outbox'[i] = outbox[i]
  BY <1>1, <1>2
<1>4. /\ \A b \in 1 .. Len(bids) : \E i \in placed : outbox[i].bid = b
      /\ \A i \in placed : /\ outbox[i].bid \in 1 .. Len(bids)
                           /\ outbox[i].value = bids[outbox[i].bid].amount
      /\ \A i, j \in placed : i < j => outbox[i].bid < outbox[j].bid
  BY DEF BidsTold
<1> HIDE DEF placed
<1>5. ASSUME NEW b \in 1 .. Len(bids')
      PROVE  \E i \in placed : outbox'[i].bid = b
  <2>1. PICK i \in placed : outbox[i].bid = b
    BY <1>4
  <2> QED
    BY <1>3, <2>1
<1>6. \A i \in placed : /\ outbox'[i].bid \in 1 .. Len(bids')
                        /\ outbox'[i].value = bids'[outbox'[i].bid].amount
  BY <1>3, <1>4
<1>7. \A i, j \in placed : i < j => outbox'[i].bid < outbox'[j].bid
  BY <1>3, <1>4
<1> QED
  BY <1>2, <1>5, <1>6, <1>7 DEF BidsTold

LEMMA PlaceTells ==
    ASSUME IInv, OutboxTellsTheRow, NEW r \in Requests, Place(r)
    PROVE  OutboxTellsTheRow'
<1> DEFINE end    == req[r].begin + SniperExtension
           sniper == InSniperWindow(r)
           n      == Len(outbox)
<1>1. Len(bids) \in Nat /\ outbox \in Seq(Event) /\ n \in Nat
  BY LenProperties DEF IInv, TypeOK
<1>4. /\ \A i \in 1 .. n : outbox'[i] = outbox[i]
      /\ sniper => outbox'[n + 2].value = end
  BY PlaceEvents, IInvTyped
<1>5. /\ Told("bid_accepted")' = Told("bid_accepted") \cup {n + 1}
      /\ Told("sniper_extension")' =
            IF sniper THEN Told("sniper_extension") \cup {n + 2} ELSE Told("sniper_extension")
      /\ Told("auction_ending")' = Told("auction_ending")
      /\ Told("auction_ended")' = Told("auction_ended")
  BY PlaceEvents, IInvTyped
<1>6. /\ row.status = "live" /\ row'.status = "live"
      /\ row'.extensionCount = IF sniper THEN row.extensionCount + 1 ELSE row.extensionCount
      /\ row'.extendedUntil = IF sniper THEN end ELSE row.extendedUntil
  BY DEF Place, Valid, IInv, TypeOK, Row
<1>8. \A type : Told(type) \subseteq 1 .. n
  BY DEF Told
<1> HIDE DEF end, sniper
<1>9. BidsTold'
  BY PlaceTellsBids, IInvTyped DEF BidsTold, OutboxTellsTheRow
<1>10. /\ Cardinality(Told("sniper_extension")') = row'.extensionCount
       /\ Told("sniper_extension")' = {} => row'.extendedUntil = None
       /\ \A i \in Told("sniper_extension")' :
             (\A j \in Told("sniper_extension")' : j <= i) => outbox'[i].value = row'.extendedUntil
  <2> DEFINE snipers == Told("sniper_extension")
  <2>1. /\ Cardinality(snipers) = row.extensionCount
        /\ snipers = {} => row.extendedUntil = None
        /\ \A i \in snipers : (\A j \in snipers : j <= i) => outbox[i].value = row.extendedUntil
    BY DEF OutboxTellsTheRow
  <2>2. Cardinality(snipers \cup {n + 2}) = Cardinality(snipers) + 1
    BY OneMoreExtension
  <2>3. /\ snipers \subseteq 1 .. n
        /\ Told("sniper_extension")' = IF sniper THEN snipers \cup {n + 2} ELSE snipers
    BY <1>5, <1>8
  <2> HIDE DEF snipers
  <2>4. CASE sniper
    <3>1. /\ Told("sniper_extension")' = snipers \cup {n + 2}
          /\ row'.extensionCount = row.extensionCount + 1 /\ row'.extendedUntil = end
          /\ outbox'[n + 2].value = end
      BY <1>4, <1>6, <2>3, <2>4
    <3>2. \A i \in snipers : i < n + 2 /\ ~(n + 2 <= i)
      BY <1>1, <2>3
    <3> QED
      BY <2>1, <2>2, <3>1, <3>2
  <2>5. CASE ~sniper
    BY <1>1, <1>4, <1>6, <2>1, <2>3, <2>5
  <2> QED
    BY <2>4, <2>5
<1>11. Told("auction_ending")' = {} /\ Told("auction_ended")' = {}
  BY <1>5, <1>6 DEF OutboxTellsTheRow
<1> QED
  BY <1>6, <1>9, <1>10, <1>11 DEF OutboxTellsTheRow, BidsTold

(* The two endings add an event that is neither a bid nor an extension.    *)
LEMMA EndingTells ==
    ASSUME IInv, OutboxTellsTheRow, NEW e \in Event,
           outbox' = Append(outbox, e), e.type \in {"auction_ending", "auction_ended"},
           UNCHANGED bids,
           row'.extensionCount = row.extensionCount,
           row'.extendedUntil = row.extendedUntil,
           \/ /\ e.type = "auction_ending"
              /\ row.status = "live" /\ row'.status = "ending"
           \/ /\ e = [type |-> "auction_ended", value |-> row'.finalPrice,
                                               bid |-> row'.winnerBid]
              /\ row.status = "ending" /\ row'.status = "ended"
    PROVE  OutboxTellsTheRow'
<1> DEFINE n == Len(outbox)
<1>1. outbox \in Seq(Event)
  BY DEF IInv, TypeOK
<1>2. /\ n \in Nat /\ Len(outbox') = n + 1
      /\ \A i \in 1 .. n : outbox'[i] = outbox[i]
      /\ outbox'[n + 1] = e
      /\ \A type : At(outbox', type) =
            IF e.type = type THEN At(outbox, type) \cup {n + 1} ELSE At(outbox, type)
  BY <1>1, AtAppend
<1>3. /\ Told("bid_accepted")' = Told("bid_accepted")
      /\ Told("sniper_extension")' = Told("sniper_extension")
      /\ Told("auction_ending")' = IF e.type = "auction_ending"
            THEN Told("auction_ending") \cup {n + 1} ELSE Told("auction_ending")
      /\ Told("auction_ended")' = IF e.type = "auction_ended"
            THEN Told("auction_ended") \cup {n + 1} ELSE Told("auction_ended")
  <2>1. \A type : Told(type)' = At(outbox', type) /\ Told(type) = At(outbox, type)
    BY DEF Told, At
  <2> QED
    BY <1>2, <2>1
<1>4. \A type : Told(type) \subseteq 1 .. n
  BY DEF Told
<1>5. \A i \in Told("bid_accepted") \cup Told("sniper_extension") : outbox'[i] = outbox[i]
  BY <1>2, <1>4
<1>6. BidsTold'
  BY EndingTellsBids, IInvTyped DEF BidsTold, OutboxTellsTheRow
<1>7. /\ Cardinality(Told("sniper_extension")') = row'.extensionCount
      /\ Told("sniper_extension")' = {} => row'.extendedUntil = None
      /\ \A i \in Told("sniper_extension")' :
            (\A j \in Told("sniper_extension")' : j <= i) => outbox'[i].value = row'.extendedUntil
  <2> DEFINE snipers == Told("sniper_extension")
  <2>1. /\ Cardinality(snipers) = row.extensionCount
        /\ snipers = {} => row.extendedUntil = None
        /\ \A i \in snipers : (\A j \in snipers : j <= i) => outbox[i].value = row.extendedUntil
    BY DEF OutboxTellsTheRow
  <2>2. Told("sniper_extension")' = snipers /\ \A i \in snipers : outbox'[i] = outbox[i]
    BY <1>3, <1>5
  <2> HIDE DEF snipers
  <2> QED
    BY <2>1, <2>2
<1>8. CASE e.type = "auction_ending"
  <2>1. Told("auction_ending") = {} /\ Told("auction_ended") = {} /\ row'.status = "ending"
    BY <1>8 DEF OutboxTellsTheRow
  <2>2. Told("auction_ending")' = {Len(outbox')} /\ Told("auction_ended")' = {}
    BY <1>2, <1>3, <1>8, <2>1
  <2> QED
    BY <1>6, <1>7, <2>1, <2>2 DEF OutboxTellsTheRow, BidsTold
<1>9. CASE e.type = "auction_ended"
  <2>1. /\ Told("auction_ending") = {n} /\ Told("auction_ended") = {}
        /\ row'.status = "ended"
        /\ e = [type |-> "auction_ended", value |-> row'.finalPrice, bid |-> row'.winnerBid]
    BY <1>9 DEF OutboxTellsTheRow
  <2>2. Told("auction_ending")' = {Len(outbox') - 1} /\ Told("auction_ended")' = {Len(outbox')}
    BY <1>2, <1>3, <1>9, <2>1
  <2> QED
    BY <1>2, <1>6, <1>7, <2>1, <2>2 DEF OutboxTellsTheRow, BidsTold
<1> QED
  BY <1>8, <1>9

LEMMA StepTells ==
    ASSUME IInv, OutboxTellsTheRow, [Next]_vars
    PROVE  OutboxTellsTheRow'
<1>1. ASSUME UNCHANGED <<row, bids, outbox>>
      PROVE  OutboxTellsTheRow'
  <2>1. \A type : Told(type)' = Told(type)
    BY <1>1 DEF Told
  <2> QED
    BY <1>1, <2>1 DEF OutboxTellsTheRow
<1>2. ASSUME NEW r \in Requests, RequestStep(r), ~Place(r)
      PROVE  OutboxTellsTheRow'
  BY <1>1, <1>2 DEF RequestStep, Submit, TakeBidLock, Begin, Reject, RollBack,
                    ReleaseBidLock, Die
<1>3. ASSUME NEW w \in Workers, LiveToEnding(w)
      PROVE  OutboxTellsTheRow'
  <2> DEFINE e == [type |-> "auction_ending", value |-> None, bid |-> None]
  <2>1. CASE UNCHANGED <<row, outbox>>
    BY <1>1, <1>3, <2>1 DEF LiveToEnding
  <2>2. CASE /\ row.status = "live" /\ row' = [row EXCEPT !.status = "ending"]
             /\ outbox' = Append(outbox, e)
    <3>1. e \in Event /\ e.type = "auction_ending"
      BY DEF Event, Null
    <3> HIDE DEF e
    <3>2. /\ row'.extensionCount = row.extensionCount /\ row'.status = "ending"
          /\ row'.extendedUntil = row.extendedUntil
      BY <2>2 DEF IInv, TypeOK, Row
    <3>3. UNCHANGED bids
      BY <1>3 DEF LiveToEnding
    <3> QED
      BY <2>2, <3>1, <3>2, <3>3, EndingTells
  <2> QED
    BY <1>3, <2>1, <2>2 DEF LiveToEnding
<1>4. ASSUME NEW w \in Workers, EndingToEnded(w)
      PROVE  OutboxTellsTheRow'
  <2> DEFINE e == [type |-> "auction_ended", value |-> row'.finalPrice, bid |-> row'.winnerBid]
  <2>1. CASE UNCHANGED <<row, outbox>>
    BY <1>1, <1>4, <2>1 DEF EndingToEnded
  <2>2. CASE row.status = "ending" /\ row' = CloseRow(row) /\ outbox' = Append(outbox, e)
    <3>1. row' \in Row
      BY <1>4, EndingToEndedIInv DEF IInv, TypeOK
    <3>2. e \in Event /\ e.type = "auction_ended"
      BY <3>1 DEF Event, Row
    <3>3. /\ row'.extensionCount = row.extensionCount /\ row'.status = "ended"
          /\ row'.extendedUntil = row.extendedUntil
      BY <2>2 DEF CloseRow, IInv, TypeOK, Row
    <3>4. UNCHANGED bids
      BY <1>4 DEF EndingToEnded
    <3>5. e = [type |-> "auction_ended", value |-> row'.finalPrice, bid |-> row'.winnerBid]
      OBVIOUS
    <3> HIDE DEF e
    <3> QED
      BY <2>2, <3>2, <3>3, <3>4, <3>5, EndingTells
  <2> QED
    BY <1>4, <2>1, <2>2 DEF EndingToEnded
<1>5. ASSUME NEW w \in Workers, \/ Poll(w) \/ TakeEndLock(w) \/ ReleaseEndLock(w)
                                \/ WorkerError(w) \/ WorkerDies(w)
      PROVE  OutboxTellsTheRow'
  BY <1>1, <1>5 DEF Poll, TakeEndLock, ReleaseEndLock, WorkerError, WorkerDies
<1>6. CASE \/ ExpireBidLock \/ ExpireEndLock \/ RedisFails \/ RedisReturns \/ Tick
           \/ UNCHANGED vars
  BY <1>1, <1>6 DEF ExpireBidLock, ExpireEndLock, RedisFails, RedisReturns, Tick, vars
<1> QED
  BY <1>2, <1>3, <1>4, <1>5, <1>6, PlaceTells DEF Next, RequestStep, WorkerStep

(* A consumer of the outbox can rebuild the auction, for any number of     *)
(* bidders, workers and faults: one event per bid in bid order, the end of *)
(* the last extension, and each ending once, after every bid.              *)
THEOREM OutboxTellsTheRowAlways == Spec => []OutboxTellsTheRow
<1>1. Init => IInv /\ OutboxTellsTheRow
  BY InitIInv, InitTells
<1>2. (IInv /\ OutboxTellsTheRow) /\ [Next]_vars => (IInv /\ OutboxTellsTheRow)'
  BY StepIInv, StepTells
<1> QED
  BY <1>1, <1>2, PTL DEF Spec

-----------------------------------------------------------------------------
(* Refinement of EnglishAuction.                                           *)

LEMMA InitRefines == Init => EA!Init
<1> SUFFICES ASSUME Init PROVE EA!Init
  OBVIOUS
<1>1. now \in Nat /\ bids = <<>> /\ row.winnerBid = None
  BY DEF Init, FreshRow
<1>2. End \in Nat
  BY ConstantsAssumption DEF Init, End, EndOf, FreshRow
<1>3. Phase \in {"upcoming", "open"}
  BY ConstantsAssumption DEF Init, Phase, FreshRow
<1> QED
  BY <1>1, <1>2, <1>3 DEF EA!Init

(* A bid does not bring the end forward if an extension is at least as     *)
(* long as the window.                                                     *)
LEMMA ExtensionExtends ==
    ASSUME SniperExtension >= SniperWindow,
           IInv, NEW r \in Requests, Place(r)
    PROVE  End' >= End
<1> USE ConstantsAssumption DEF IInv
<1>1. End \in Nat /\ req[r].begin \in Nat
  BY DEF End, EndOf, TypeOK, Row, Null, BegunIsDated, Place
<1>2. CASE ~InSniperWindow(r)
  <2>1. row'.extendedUntil = row.extendedUntil
    BY <1>2 DEF Place, TypeOK, Row
  <2> QED
    BY <1>1, <2>1 DEF End, EndOf
<1>3. CASE InSniperWindow(r)
  <2>1. row'.extendedUntil = req[r].begin + SniperExtension
    BY <1>3 DEF Place, TypeOK, Row
  <2>2. End' = req[r].begin + SniperExtension
    BY <1>1, <2>1 DEF End, EndOf
  <2>3. End - req[r].begin <= SniperWindow
    BY <1>3 DEF InSniperWindow
  <2> QED
    BY <1>1, <2>2, <2>3
<1> QED
  BY <1>2, <1>3

(* A bid is an offer of its attempt, at most one per attempt, and leaves   *)
(* the deadline where it is or pushes it back.                             *)
LEMMA PlaceRefines ==
    ASSUME SniperExtension >= SniperWindow,
           IInv, NEW r \in Requests, Place(r)
    PROVE  EA!Offer(KeyOf[r], offer[KeyOf[r]])
<1> DEFINE amount == offer[KeyOf[r]]
<1> USE ConstantsAssumption DEF IInv
<1>1. row.status = "live" /\ row'.status = "live" /\ row'.winnerBid = row.winnerBid
  BY DEF Place, Valid, TypeOK, Row
<1>2. Phase = "open" /\ Phase' = "open"
  BY <1>1 DEF Phase
<1>3. \A i \in 1 .. Len(bids) : bids[i].key # KeyOf[r]
  BY DEF Place, Valid, BidsAreOffers
<1>4. amount >= EA!Asking + MinimumIncrement
  <2>1. amount >= Price + MinimumIncrement
    BY DEF Place, Valid
  <2> QED
    BY <2>1, PriceIsLastBid DEF EA!Asking, TypeOK
<1>5. End' >= End
  BY ExtensionExtends
<1>6. bids' = Append(bids, [key |-> KeyOf[r], amount |-> amount]) /\ now' = now
  BY DEF Place
<1> QED
  BY <1>1, <1>2, <1>3, <1>4, <1>5, <1>6 DEF EA!Offer

LEMMA LiveToEndingRefines ==
    ASSUME IInv, NEW w \in Workers, LiveToEnding(w)
    PROVE  [EA!Next]_(EA!vars)
<1>1. now' = now /\ bids' = bids
  BY DEF LiveToEnding
<1>2. CASE /\ row.status = "live" /\ End <= now
           /\ row' = [row EXCEPT !.status = "ending"]
  <2>1. /\ row'.status = "ending"
        /\ row'.extendedUntil = row.extendedUntil
        /\ row'.winnerBid = row.winnerBid
    BY <1>2 DEF IInv, TypeOK, Row
  <2>2. Phase = "open" /\ Phase' = "closing" /\ End' = End
    BY <1>2, <2>1 DEF Phase, End, EndOf
  <2>3. now >= End
    BY <1>2, ConstantsAssumption DEF IInv, TypeOK, Row, Null, End, EndOf
  <2> QED
    BY <1>1, <2>1, <2>2, <2>3 DEF EA!Next, EA!Stop
<1>3. CASE row' = row
  BY <1>1, <1>3 DEF EA!vars, Phase, End, EndOf
<1> QED
  BY <1>2, <1>3 DEF LiveToEnding

LEMMA EndingToEndedRefines ==
    ASSUME IInv, NEW w \in Workers, EndingToEnded(w)
    PROVE  [EA!Next]_(EA!vars)
<1>1. now' = now /\ bids' = bids
  BY DEF EndingToEnded
<1>2. CASE row.status = "ending" /\ row' = CloseRow(row)
  <2>1. row \in Row /\ bids \in Seq(Bid) /\ row.winnerBid = None
    BY <1>2 DEF IInv, TypeOK, RowMatchesBids, Ended
  <2>2. bids # <<>> => TopBid = Len(bids)
    BY TopBidIsLast DEF IInv, TypeOK
  <2>3. /\ row'.status = "ended"
        /\ row'.extendedUntil = row.extendedUntil
        /\ row'.winnerBid = IF bids = <<>> THEN None ELSE Len(bids)
    BY <1>2, <2>1, <2>2 DEF CloseRow, Row
  <2>4. Phase = "closing" /\ Phase' = "closed" /\ End' = End
    BY <1>2, <2>3 DEF Phase, End, EndOf
  <2> QED
    BY <1>1, <2>3, <2>4 DEF EA!Next, EA!Close
<1>3. CASE row' = row
  BY <1>1, <1>3 DEF EA!vars, Phase, End, EndOf
<1> QED
  BY <1>2, <1>3 DEF EndingToEnded

LEMMA StepRefines ==
    ASSUME SniperExtension >= SniperWindow, IInv, [Next]_vars
    PROVE  [EA!Next]_(EA!vars)
<1>1. ASSUME UNCHANGED <<now, row, bids>>
      PROVE  [EA!Next]_(EA!vars)
  BY <1>1 DEF EA!vars, Phase, End, EndOf
<1>2. ASSUME NEW r \in Requests, RequestStep(r)
      PROVE  [EA!Next]_(EA!vars)
  <2>1. CASE Place(r)
    <3>1. KeyOf[r] \in Keys /\ offer[KeyOf[r]] \in Amounts
      BY ConstantsAssumption DEF IInv, TypeOK
    <3> QED
      BY <2>1, <3>1, PlaceRefines DEF EA!Next
  <2>2. CASE ~Place(r)
    BY <1>1, <1>2, <2>2 DEF RequestStep, Submit, TakeBidLock, Begin, Reject,
       RollBack, ReleaseBidLock, Die
  <2> QED
    BY <2>1, <2>2
<1>3. ASSUME NEW w \in Workers, WorkerStep(w) \/ WorkerError(w) \/ WorkerDies(w)
      PROVE  [EA!Next]_(EA!vars)
  <2>1. CASE LiveToEnding(w) \/ EndingToEnded(w)
    BY <2>1, LiveToEndingRefines, EndingToEndedRefines
  <2>2. CASE ~(LiveToEnding(w) \/ EndingToEnded(w))
    BY <1>1, <1>3, <2>2 DEF WorkerStep, Poll, TakeEndLock, ReleaseEndLock,
       WorkerError, WorkerDies
  <2> QED
    BY <2>1, <2>2
<1>4. CASE Tick
  <2>1. now' > now
    BY <1>4 DEF Tick, IInv, TypeOK
  <2>2. UNCHANGED <<row, bids>>
    BY <1>4 DEF Tick
  <2> QED
    BY <2>1, <2>2 DEF EA!Next, EA!TimePasses, Phase, End, EndOf
<1>5. CASE ExpireBidLock \/ ExpireEndLock \/ RedisFails \/ RedisReturns
  BY <1>1, <1>5 DEF ExpireBidLock, ExpireEndLock, RedisFails, RedisReturns
<1>6. CASE UNCHANGED vars
  BY <1>1, <1>6 DEF vars
<1> QED
  BY <1>2, <1>3, <1>4, <1>5, <1>6 DEF Next

(* The bidding service is an English auction: with expiring locks, retried *)
(* calls, replicas of the worker and Redis outages, each attempt places at *)
(* most one bid, bids rise, none comes after the auction stopped, it stops *)
(* no earlier than a deadline that only moves back, and the last bid wins. *)
THEOREM Refinement ==
    ASSUME SniperExtension >= SniperWindow
    PROVE  Spec => ImplementsEnglishAuction
<1>1. Init => EA!Init
  BY InitRefines
<1>2. IInv /\ [Next]_vars => [EA!Next]_(EA!vars)
  BY StepRefines
<1> QED
  BY <1>1, <1>2, Invariance, PTL DEF Spec, ImplementsEnglishAuction, EA!Spec

(* Sniper protection only protects, if an extension is at least as long as *)
(* the window: no bid, worker or failure brings the end of an auction      *)
(* forward.                                                                *)
THEOREM SniperExtendsWhenLongEnough ==
    ASSUME SniperExtension >= SniperWindow
    PROVE  Spec => SniperExtends
<1>1. ASSUME IInv, UNCHANGED row
      PROVE  End' >= End
  <2>1. End \in Nat
    BY <1>1, ConstantsAssumption DEF IInv, TypeOK, End, EndOf, Row, Null
  <2> QED
    BY <1>1, <2>1 DEF End, EndOf
<1>2. ASSUME IInv, NEW w \in Workers, LiveToEnding(w) \/ EndingToEnded(w)
      PROVE  End' >= End
  <2>1. End \in Nat
    BY <1>2, ConstantsAssumption DEF IInv, TypeOK, End, EndOf, Row, Null
  <2>2. row'.extendedUntil = row.extendedUntil
    BY <1>2 DEF LiveToEnding, EndingToEnded, CloseRow, IInv, TypeOK, Row
  <2> QED
    BY <2>1, <2>2 DEF End, EndOf
<1>3. IInv /\ [Next]_vars => [End' >= End]_vars
  BY <1>1, <1>2, ExtensionExtends DEF Next, RequestStep, WorkerStep, Submit,
     TakeBidLock, Begin, Reject, RollBack, ReleaseBidLock, Die, Poll, TakeEndLock,
     ReleaseEndLock, WorkerError, WorkerDies, ExpireBidLock, ExpireEndLock,
     RedisFails, RedisReturns, Tick
<1> QED
  BY <1>3, Invariance, PTL DEF Spec, SniperExtends
=============================================================================
