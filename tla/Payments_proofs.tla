-------------------------- MODULE Payments_proofs ---------------------------
(***************************************************************************)
(* The provider is asked once, the books say what it has done, and places  *)
(* stand against money, for any number of payments, places, requests and   *)
(* reconciliation workers.                                                 *)
(*                                                                         *)
(* First, what any step may do to a row, to the provider's record and to a *)
(* deposit (RowMove, PosMove, DepositMove); the invariant follows from the *)
(* moves, and so does the trigger's silence.                               *)
(***************************************************************************)
EXTENDS Payments, TLAPS, SequenceTheorems

AtWork(r) == req[r].at \in {"call", "record"}

(* What a request knows of its payment.                                    *)
RequestKnows ==
    \A r \in Request :
        /\ req[r].at \in {"create", "call", "record"} => req[r].key \in Payment
        /\ AtWork(r) => row[req[r].key] # "none"
        /\ req[r].at = "call" => asked[req[r].key] = 0
        /\ req[r].at = "record" /\ req[r].got = "completed" => pos[req[r].key] \in Taken

(* Of the requests under one key, one goes on to the provider.             *)
OneCaller ==
    \A r, q \in Request :
        AtWork(r) /\ AtWork(q) /\ req[r].key = req[q].key => r = q

(* The provider knows only what it was asked for.                          *)
Unasked ==
    \A p \in Payment :
        /\ row[p] = "none" => asked[p] = 0
        /\ asked[p] = 0 => pos[p] = "none"

BookedIsPast == \A p \in booked : row[p] \in {"provisioned", "completed", "cancelled"}

(* "Paid" stays true however old the verdict is.                           *)
WorkerKnows ==
    \A w \in Worker :
        rec[w].at = "told" /\ rec[w].verdict = "paid" => pos[InHand(w).key] \in Taken

IInv ==
    /\ TypeOK
    /\ RequestKnows
    /\ OneCaller
    /\ Unasked
    /\ BookedIsPast
    /\ WorkerKnows
    /\ AskedAtMostOnce
    /\ BooksMatchProvider
    /\ SeatsMatchPayments

LEMMA InitInv == Init => IInv
<1> SUFFICES ASSUME Init PROVE IInv
  OBVIOUS
<1>1. TypeOK
  BY PaymentsAssumption
  DEF Init, TypeOK, Status, Unfinished, PosState, PostRequest, NewRequest, RequestAt,
      Answer, Tick, IdleTick, Verdict, Copy
<1>2. RequestKnows /\ OneCaller /\ WorkerKnows
  BY DEF Init, RequestKnows, OneCaller, WorkerKnows, AtWork, NewRequest, IdleTick
<1>3. Unasked /\ BookedIsPast /\ AskedAtMostOnce
  BY DEF Init, Unasked, BookedIsPast, AskedAtMostOnce
<1>4. BooksMatchProvider /\ SeatsMatchPayments
  BY DEF Init, BooksMatchProvider, SeatsMatchPayments
<1> QED
  BY <1>1, <1>2, <1>3, <1>4 DEF IInv

-----------------------------------------------------------------------------
(* The payment in hand, and what a tick becomes.                           *)
LEMMA InHandIsCopy ==
    ASSUME TypeOK, NEW w \in Worker, rec[w].at \in {"batch", "told"}
    PROVE  /\ rec[w] \in Tick /\ rec[w].batch \in Seq(Copy) /\ rec[w].batch # <<>>
           /\ InHand(w) \in Copy /\ InHand(w).key \in Payment /\ InHand(w).saw \in Unfinished
<1>1. rec[w] \in Tick /\ rec[w].batch \in Seq(Copy) /\ rec[w].batch # <<>>
  BY DEF TypeOK, Tick
<1>2. InHand(w) \in Copy
  BY <1>1, HeadTailProperties DEF InHand
<1> QED
  BY <1>1, <1>2 DEF Copy

FitTick(t) ==
    /\ t \in Tick
    /\ t.at \in {"batch", "told"} => t.batch # <<>>
    /\ t.at = "told" /\ t.verdict = "paid" => pos[Head(t.batch).key] \in Taken

LEMMA IdleIsFit ==
    ASSUME NEW place \in {"idle", "unlock"}
    PROVE  FitTick([IdleTick EXCEPT !.at = place])
<1>1. [IdleTick EXCEPT !.at = place] = [at |-> place, batch |-> <<>>, verdict |-> "none"]
  BY DEF IdleTick
<1> DEFINE t == [at |-> place, batch |-> <<>>, verdict |-> "none"]
<1>2. <<>> \in Seq(Copy)
  OBVIOUS
<1>3. t \in Tick /\ t.at = place
  BY <1>2 DEF Tick, Verdict
<1> HIDE DEF t
<1>4. FitTick(t)
  BY <1>3 DEF FitTick
<1> QED
  BY <1>1, <1>4 DEF t

LEMMA FoundIsTrue ==
    ASSUME TypeOK, NEW c \in Copy, NEW v \in Found(c)
    PROVE  v \in Verdict /\ (v = "paid" => pos[c.key] \in Taken)
<1>1. pos[c.key] \in PosState
  BY DEF TypeOK, Copy
<1> QED
  BY <1>1 DEF Found, Verdict, PosState, Taken

LEMMA ToldIsFit ==
    ASSUME TypeOK, NEW w \in Worker, rec[w].at = "batch", NEW v \in Verdict, Told(w, v),
           v = "paid" => pos[InHand(w).key] \in Taken
    PROVE  \E t : rec' = [rec EXCEPT ![w] = t] /\ FitTick(t)
<1> DEFINE t == [rec[w] EXCEPT !.at = "told", !.verdict = v]
<1>1. rec[w] \in Tick /\ rec[w].batch # <<>>
  BY InHandIsCopy
<1>2. rec' = [rec EXCEPT ![w] = t]
  BY DEF Told, TypeOK
<1>3. t \in Tick /\ t.batch = rec[w].batch /\ t.verdict = v
  BY <1>1 DEF Tick
<1> HIDE DEF t
<1>4. FitTick(t)
  BY <1>1, <1>3 DEF FitTick, InHand
<1> QED
  BY <1>2, <1>4

LEMMA ProceedIsFit ==
    ASSUME TypeOK, NEW w \in Worker, rec[w].at \in {"batch", "told"}, Proceed(w)
    PROVE  \E t : rec' = [rec EXCEPT ![w] = t] /\ FitTick(t)
<1> DEFINE b == rec[w].batch
           place == IF Len(b) = 1 THEN "unlock" ELSE "batch"
           t == [at |-> place, batch |-> Tail(b), verdict |-> "none"]
<1>1. b \in Seq(Copy) /\ b # <<>>
  BY InHandIsCopy
<1>2. Tail(b) \in Seq(Copy) /\ Len(Tail(b)) = Len(b) - 1 /\ Len(b) \in Nat
  BY <1>1, HeadTailProperties, LenProperties
<1>3. Len(b) # 1 => Tail(b) # <<>>
  <2>1. Len(<<>>) = 0
    BY EmptySeq
  <2> HIDE DEF b
  <2>2. Tail(b) = <<>> => Len(Tail(b)) = 0
    BY <2>1
  <2> QED
    BY <1>2, <2>2
<1>4. t \in Tick
  BY <1>2 DEF Tick, Verdict
<1>5. rec' = [rec EXCEPT ![w] = t]
  BY DEF Proceed
<1>6. FitTick(t)
  BY <1>3, <1>4 DEF FitTick
<1> QED
  BY <1>5, <1>6

LEMMA FindIsFit ==
    ASSUME TypeOK, NEW w \in Worker, NEW status \in Unfinished, NEW then \in {"waiting", "batch"},
           Find(w, status, then)
    PROVE  \E t : rec' = [rec EXCEPT ![w] = t] /\ FitTick(t)
<1> DEFINE pool == {p \in Payment : row[p] = status /\ Stale(p)}
<1>1. PICK some \in Oldest(pool) :
        LET batch == rec[w].batch \o [i \in DOMAIN some |-> [key |-> some[i], saw |-> status]]
        IN  rec' = [rec EXCEPT ![w].batch = batch,
                               ![w].at = IF then = "batch" /\ batch = <<>> THEN "unlock"
                                                                          ELSE then]
  BY DEF Find
<1> DEFINE copies == [i \in DOMAIN some |-> [key |-> some[i], saw |-> status]]
           batch == rec[w].batch \o copies
           place == IF then = "batch" /\ batch = <<>> THEN "unlock" ELSE then
           t == [rec[w] EXCEPT !.batch = batch, !.at = place]
<1>2. PICK n \in Nat : some \in [1..n -> pool]
  BY PaymentsAssumption DEF Oldest, Batches
<1>3. copies \in [1..n -> Copy]
  BY <1>2 DEF Copy
<1>4. copies \in Seq(Copy)
  BY <1>3
<1>5. rec[w] \in Tick /\ rec[w].batch \in Seq(Copy)
  BY DEF TypeOK, Tick
<1> HIDE DEF copies
<1>6. batch \in Seq(Copy)
  BY <1>4, <1>5, ConcatProperties
<1>7. rec' = [rec EXCEPT ![w] = t]
  BY <1>1 DEF TypeOK, copies
<1> HIDE DEF batch
<1>8. place \in {"waiting", "batch", "unlock"} /\ (place = "batch" => batch # <<>>)
  OBVIOUS
<1> HIDE DEF place
<1>9. t \in Tick /\ t.at = place /\ t.batch = batch
  BY <1>5, <1>6, <1>8 DEF Tick
<1> HIDE DEF t
<1>10. FitTick(t)
  BY <1>8, <1>9 DEF FitTick
<1> QED
  BY <1>7, <1>10

(* Whatever a worker's step does to its tick, the tick stays fit.          *)
LEMMA WorkerTick ==
    ASSUME TypeOK, \A x \in Worker : FitTick(rec[x]), NEW w \in Worker, WorkerStep(w)
    PROVE  \E t : rec' = [rec EXCEPT ![w] = t] /\ FitTick(t)
<1> DEFINE Goal == \E t : rec' = [rec EXCEPT ![w] = t] /\ FitTick(t)
<1>1. CASE TryLock(w)
  <2> DEFINE t == [rec[w] EXCEPT !.at = "pending"]
  <2>1. rec' = [rec EXCEPT ![w] = t]
    BY <1>1 DEF TryLock, TypeOK
  <2>2. t \in Tick /\ t.at = "pending"
    BY DEF TypeOK, Tick
  <2> HIDE DEF t
  <2> QED
    BY <2>1, <2>2 DEF FitTick
<1>2. CASE FindPending(w) \/ FindWaiting(w)
  BY <1>2, FindIsFit DEF FindPending, FindWaiting, Unfinished
<1>3. CASE AskStatus(w)
  <2>1. PICK v \in Found(InHand(w)) : Told(w, v)
    BY <1>3 DEF AskStatus
  <2>2. rec[w].at = "batch"
    BY <1>3 DEF AskStatus
  <2>3. v \in Verdict /\ (v = "paid" => pos[InHand(w).key] \in Taken)
    BY <2>2, InHandIsCopy, FoundIsTrue
  <2> QED
    BY <2>1, <2>2, <2>3, ToldIsFit
<1>4. CASE AskStatusInVain(w)
  <2>1. "unfound" \in Verdict
    BY DEF Verdict
  <2> QED
    BY <1>4, <2>1, ToldIsFit DEF AskStatusInVain
<1>5. CASE Resolve(w) \/ PaymentFails(w)
  BY <1>5, ProceedIsFit DEF Resolve, PaymentFails
<1>6. CASE Unlock(w) \/ FindFails(w) \/ WorkerDies(w)
  <2>1. IdleTick = [IdleTick EXCEPT !.at = "idle"]
    BY DEF IdleTick
  <2> QED
    BY <1>6, <2>1, IdleIsFit DEF Unlock, FindFails, WorkerDies
<1>7. CASE CloseIdle(w) \/ LoseLock(w)
  <2>1. rec' = [rec EXCEPT ![w] = rec[w]]
    BY <1>7 DEF CloseIdle, LoseLock, TypeOK
  <2> QED
    BY <2>1
<1> QED
  BY <1>1, <1>2, <1>3, <1>4, <1>5, <1>6, <1>7 DEF WorkerStep, TickStep

-----------------------------------------------------------------------------
(* What a step may do to a payment's row.                                  *)
RowMove(p) ==
    \/ row'[p] = row[p]
    \/ row[p] = "none" /\ row'[p] = "pending"
    \/ row[p] = "pending" /\ row'[p] = "awaiting_3ds"
    \/ row[p] \in Unfinished /\ row'[p] = "failed"
    \/ row[p] \in Unfinished /\ row'[p] = "provisioned" /\ pos'[p] \in Taken
    \/ row[p] = "pending" /\ row'[p] = "completed" /\ p \in Transfer
    \/ row[p] = "provisioned" /\ row'[p] = "completed" /\ pos'[p] = "captured"
    \/ row[p] = "provisioned" /\ row'[p] = "cancelled" /\ pos'[p] = "released"

(* What a step may do to the provider's record of it.                      *)
PosMove(p) ==
    \/ pos'[p] = pos[p]
    \/ pos[p] = "none" /\ pos'[p] \in PosState
    \/ pos[p] = "open" /\ pos'[p] \in PosState
    \/ row[p] = "provisioned" /\ pos[p] \in Taken /\ pos'[p] \in Taken

(* A place that was free may be taken by a payment for it.                 *)
DepositMove(s) ==
    \/ deposit'[s] = deposit[s]
    \/ /\ deposit[s] = NoOne
       /\ deposit'[s] \in Payment
       /\ SeatOf[deposit'[s]] = s
       /\ \/ pos'[deposit'[s]] \in Taken
          \/ deposit'[s] \in Transfer /\ row'[deposit'[s]] = "completed"

BookedMove(p) ==
    p \in booked' =>
        \/ p \in booked
        \/ /\ row[p] \in Unfinished
           /\ row'[p] = "provisioned"
           /\ SeatOf[p] \in Seat => deposit'[SeatOf[p]] = p

Moves ==
    /\ \A p \in Payment : RowMove(p) /\ PosMove(p) /\ BookedMove(p)
    /\ \A s \in Seat : DepositMove(s)

(* Most steps change no book, or no book and nothing at the provider.      *)
LEMMA StillMoves == UNCHANGED <<books, pos>> => Moves
  BY DEF Moves, RowMove, PosMove, DepositMove, BookedMove, books

(* Book, of a payment that is not finished and whose money is taken.       *)
LEMMA BookMoves ==
    ASSUME TypeOK, NEW p \in Payment, Book(p),
           row[p] \in Unfinished, pos[p] \in Taken, UNCHANGED pos
    PROVE  Moves
<1>1. CASE ~SeatIsFree(p)
  BY <1>1, StillMoves DEF Book, books
<1>2. CASE SeatIsFree(p)
  <2>1. row' = [row EXCEPT ![p] = "provisioned"] /\ booked' = booked \cup {p}
    BY <1>2 DEF Book, SetRow
  <2>2. \A s \in Seat : deposit'[s] = IF s = SeatOf[p] /\ deposit[s] = NoOne
                                      THEN p ELSE deposit[s]
    BY <1>2 DEF Book, Collect
  <2>3. \A q \in Payment : RowMove(q) /\ PosMove(q)
    BY <2>1 DEF RowMove, PosMove, TypeOK
  <2>4. \A s \in Seat : DepositMove(s)
    BY <2>2 DEF DepositMove, TypeOK
  <2>5. \A q \in Payment : BookedMove(q)
    BY <1>2, <2>1, <2>2 DEF BookedMove, SeatIsFree, TypeOK
  <2> QED
    BY <2>3, <2>4, <2>5 DEF Moves
<1> QED
  BY <1>1, <1>2

(* A step that changes one row and nothing else of the books.              *)
LEMMA RowAloneMoves ==
    ASSUME TypeOK, NEW p \in Payment, NEW s \in Status,
           row' = [row EXCEPT ![p] = s], UNCHANGED <<booked, deposit, pos>>,
           \/ row[p] = "none" /\ s = "pending"
           \/ row[p] = "pending" /\ s = "awaiting_3ds"
           \/ row[p] \in Unfinished /\ s = "failed"
           \/ row[p] \in Unfinished /\ s = "provisioned" /\ pos[p] \in Taken
    PROVE  Moves
<1>1. \A q \in Payment : RowMove(q)
  BY DEF RowMove, TypeOK
<1>2. \A q \in Payment : PosMove(q) /\ BookedMove(q)
  BY DEF PosMove, BookedMove
<1>3. \A q \in Seat : DepositMove(q)
  BY DEF DepositMove
<1> QED
  BY <1>1, <1>2, <1>3 DEF Moves

-----------------------------------------------------------------------------
LEMMA RequestMoves ==
    ASSUME IInv, NEW r \in Request, RequestStep(r)
    PROVE  Moves
<1> USE DEF IInv
<1>1. ASSUME NEW p \in Payment, Submit(r, p) PROVE Moves
  BY <1>1, StillMoves DEF Submit
<1>2. CASE Create(r)
  <2>1. req[r].key \in Payment
    BY <1>2 DEF Create, RequestKnows
  <2>2. CASE row[req[r].key] = "none"
    BY <1>2, <2>1, <2>2, RowAloneMoves DEF Create, SetRow, Status, Unfinished
  <2>3. CASE row[req[r].key] # "none"
    BY <1>2, <2>3, StillMoves DEF Create, books
  <2> QED
    BY <2>2, <2>3
<1>3. CASE CallProvider(r)
  <2> DEFINE p == req[r].key
  <2>1. p \in Payment /\ pos[p] = "none"
    BY <1>3 DEF CallProvider, RequestKnows, Unasked
  <2>2. UNCHANGED books
    BY <1>3 DEF CallProvider
  <2>3. PICK done \in {"none", "open", "held"} :
            pos' = [pos EXCEPT ![p] = IF done = "none" THEN @ ELSE done]
    BY <1>3 DEF CallProvider
  <2>4. \A q \in Payment : PosMove(q)
    BY <2>1, <2>3 DEF PosMove, TypeOK, PosState
  <2> QED
    BY <2>2, <2>4 DEF Moves, RowMove, BookedMove, DepositMove, books
<1>4. CASE RecordAnswer(r)
  <2> DEFINE p == req[r].key
  <2>1. p \in Payment /\ UNCHANGED pos
    BY <1>4 DEF RecordAnswer, RequestKnows
  <2>2. CASE row[p] # "pending"
    BY <1>4, <2>1, <2>2, StillMoves DEF RecordAnswer
  <2>3. CASE row[p] = "pending" /\ req[r].got = "completed"
    BY <1>4, <2>1, <2>3, BookMoves DEF RecordAnswer, RequestKnows, Unfinished
  <2>4. CASE row[p] = "pending" /\ req[r].got # "completed"
    BY <1>4, <2>1, <2>4, RowAloneMoves DEF RecordAnswer, SetRow, Fail, Status, Unfinished
  <2> QED
    BY <2>2, <2>3, <2>4
<1>5. CASE RequestDies(r)
  BY <1>5, StillMoves DEF RequestDies
<1> QED
  BY <1>1, <1>2, <1>3, <1>4, <1>5 DEF RequestStep

LEMMA PaymentMoves ==
    ASSUME IInv, NEW p \in Payment, PaymentStep(p)
    PROVE  Moves
<1> USE DEF IInv
<1>1. CASE BuyerAuthenticates(p)
  BY <1>1 DEF BuyerAuthenticates, Moves, RowMove, PosMove, BookedMove, DepositMove, books,
              TypeOK, PosState
<1>2. CASE Callback(p)
  <2>1. row[p] = "awaiting_3ds" /\ UNCHANGED pos
    BY <1>2 DEF Callback
  <2>2. CASE pos[p] = "held" /\ Book(p)
    BY <2>1, <2>2, BookMoves DEF Taken, Unfinished
  <2>3. CASE Fail(p)
    BY <2>1, <2>3, RowAloneMoves DEF Fail, SetRow, Status, Unfinished
  <2> QED
    BY <1>2, <2>2, <2>3 DEF Callback
<1>3. CASE VerifyTransfer(p)
  <2>1. /\ row' = [row EXCEPT ![p] = "completed"]
        /\ row[p] = "pending" /\ p \in Transfer
        /\ UNCHANGED <<booked, pos>>
    BY <1>3 DEF VerifyTransfer, SetRow
  <2>2. \A s \in Seat : deposit'[s] = IF s = SeatOf[p] /\ deposit[s] = NoOne
                                      THEN p ELSE deposit[s]
    BY <1>3 DEF VerifyTransfer, Collect
  <2>3. \A q \in Payment : RowMove(q) /\ PosMove(q) /\ BookedMove(q)
    BY <2>1 DEF RowMove, PosMove, BookedMove, TypeOK
  <2>4. \A s \in Seat : DepositMove(s)
    BY <2>1, <2>2 DEF DepositMove, TypeOK
  <2> QED
    BY <2>3, <2>4 DEF Moves
<1>4. CASE Capture(p) \/ Cancel(p)
  <2>1. row[p] = "provisioned" /\ pos[p] \in Taken
    BY <1>4 DEF Capture, Cancel, Taken
  <2>2. UNCHANGED <<booked, deposit>>
    BY <1>4 DEF Capture, Cancel, UnderLock
  <2>3. \/ /\ pos' = [pos EXCEPT ![p] = "captured"]
           /\ row' = [row EXCEPT ![p] = "completed"] \/ row' = row
        \/ /\ pos' = [pos EXCEPT ![p] = "released"]
           /\ row' = [row EXCEPT ![p] = "cancelled"] \/ row' = row
    BY <1>4 DEF Capture, Cancel, UnderLock, SetRow
  <2>4. \A q \in Payment : RowMove(q) /\ PosMove(q)
    BY <2>1, <2>3 DEF RowMove, PosMove, TypeOK, Taken
  <2> QED
    BY <2>2, <2>4 DEF Moves, BookedMove, DepositMove
<1> QED
  BY <1>1, <1>2, <1>3, <1>4 DEF PaymentStep

(* Of a worker's steps only Resolve touches the books.                     *)
LEMMA WorkerLeaves ==
    ASSUME NEW w \in Worker, WorkerStep(w)
    PROVE  /\ UNCHANGED <<line, booked, deposit, pos, asked, req>>
           /\ Resolve(w) \/ row' = row
  BY DEF WorkerStep, TickStep, TryLock, FindPending, FindWaiting, Find, AskStatus, Told, Unlock,
         CloseIdle, AskStatusInVain, PaymentFails, FindFails, LoseLock, WorkerDies, Resolve, books

LEMMA ResolveRow ==
    ASSUME IInv, NEW w \in Worker, Resolve(w)
    PROVE  /\ InHand(w).key \in Payment
           /\ \/ row' = row
              \/ /\ row[InHand(w).key] \in Unfinished
                 /\ \/ row' = [row EXCEPT ![InHand(w).key] = "failed"]
                    \/ /\ row' = [row EXCEPT ![InHand(w).key] = "provisioned"]
                       /\ pos[InHand(w).key] \in Taken
<1>1. InHand(w).key \in Payment
  BY InHandIsCopy DEF IInv, Resolve
<1> QED
  BY <1>1 DEF IInv, Resolve, SetRow, WorkerKnows

LEMMA WorkerMoves ==
    ASSUME IInv, NEW w \in Worker, WorkerStep(w)
    PROVE  Moves
<1>1. UNCHANGED <<booked, deposit, pos>> /\ (Resolve(w) \/ row' = row)
  BY WorkerLeaves
<1>2. CASE row' = row
  BY <1>1, <1>2, StillMoves DEF books
<1>3. CASE Resolve(w) /\ row' # row
  <2>1. TypeOK /\ "failed" \in Status /\ "provisioned" \in Status
    BY DEF IInv, Status
  <2> QED
    BY <1>1, <1>3, <2>1, ResolveRow, RowAloneMoves
<1> QED
  BY <1>1, <1>2, <1>3

LEMMA StepMoves == IInv /\ [Next]_vars => Moves
<1> SUFFICES ASSUME IInv, [Next]_vars PROVE Moves
  OBVIOUS
<1>1. CASE UNCHANGED vars
  BY <1>1, StillMoves DEF vars, books
<1> QED
  BY <1>1, RequestMoves, PaymentMoves, WorkerMoves DEF Next

-----------------------------------------------------------------------------
(* Consequences of the moves.                                              *)
LEMMA TakenForGood ==
    ASSUME Moves, NEW p \in Payment, pos[p] \in Taken
    PROVE  pos'[p] \in Taken
  BY DEF Moves, PosMove, Taken

LEMMA MovesBooked == BookedIsPast /\ TypeOK' /\ Moves => BookedIsPast'
  BY DEF BookedIsPast, Moves, BookedMove, RowMove, TypeOK, Unfinished

LEMMA MovesBooks ==
    ASSUME IInv, Moves
    PROVE  BooksMatchProvider'
<1> USE DEF IInv
<1> SUFFICES ASSUME NEW p \in Payment
             PROVE  /\ row'[p] = "completed" => pos'[p] = "captured" \/ p \in Transfer \ booked'
                    /\ row'[p] = "cancelled" => pos'[p] = "released"
                    /\ row'[p] = "provisioned" => pos'[p] \in Taken
  BY DEF BooksMatchProvider
<1>1. RowMove(p) /\ PosMove(p) /\ BookedMove(p)
  BY DEF Moves
<1>2. p \notin booked => p \notin booked' \/ row'[p] = "provisioned"
  BY <1>1 DEF BookedMove
<1>3. row'[p] = row[p] \/ row[p] \in Unfinished \cup {"none", "provisioned"}
  BY <1>1 DEF RowMove, Unfinished
<1>4. p \in booked => row[p] \notin Unfinished
  BY DEF BookedIsPast, Unfinished
<1> QED
  BY <1>1, <1>2, <1>3, <1>4 DEF RowMove, PosMove, BooksMatchProvider, Taken, Unfinished

LEMMA MovesSeats ==
    ASSUME IInv, TypeOK', Moves
    PROVE  SeatsMatchPayments'
<1> USE DEF IInv
<1>1. ASSUME NEW s \in Seat, deposit'[s] # NoOne
      PROVE  /\ SeatOf[deposit'[s]] = s
             /\ pos'[deposit'[s]] \in Taken
                \/ (deposit'[s] \in Transfer /\ row'[deposit'[s]] = "completed")
  <2>1. DepositMove(s)
    BY DEF Moves
  <2>2. CASE deposit'[s] = deposit[s]
    <3> DEFINE p == deposit[s]
    <3>1. p \in Payment /\ SeatOf[p] = s
      BY <1>1, <2>2 DEF SeatsMatchPayments, TypeOK
    <3>2. pos[p] \in Taken \/ (p \in Transfer /\ row[p] = "completed")
      BY <1>1, <2>2 DEF SeatsMatchPayments
    <3>3. row[p] = "completed" => row'[p] = "completed"
      BY <3>1 DEF Moves, RowMove, Unfinished
    <3> QED
      BY <2>2, <3>1, <3>2, <3>3, TakenForGood
  <2> QED
    BY <2>1, <2>2 DEF DepositMove
<1>2. ASSUME NEW p \in booked', SeatOf[p] \in Seat
      PROVE  deposit'[SeatOf[p]] = p
  <2>1. p \in Payment
    BY <1>2 DEF TypeOK
  <2> QED
    BY <1>2, <2>1, PaymentsAssumption DEF Moves, BookedMove, DepositMove, SeatsMatchPayments
<1> QED
  BY <1>1, <1>2 DEF SeatsMatchPayments

-----------------------------------------------------------------------------
(* Types, by the part of the state an action may write.                    *)
LEMMA BooksTyped ==
    ASSUME TypeOK, NEW p \in Payment, NEW s \in Status
    PROVE  /\ Book(p) => /\ row' \in [Payment -> Status]
                         /\ booked' \in SUBSET Payment
                         /\ deposit' \in [Seat -> Payment \cup {NoOne}]
           /\ SetRow(p, s) => row' \in [Payment -> Status]
           /\ Collect(p) => deposit' \in [Seat -> Payment \cup {NoOne}]
  BY DEF TypeOK, Book, SetRow, Collect, Status, Unfinished, books

LEMMA RequestTypeOK ==
    ASSUME IInv, NEW r \in Request, RequestStep(r)
    PROVE  TypeOK'
<1> USE DEF IInv
<1>1. ASSUME NEW p \in Payment, Submit(r, p) PROVE TypeOK'
  BY <1>1 DEF Submit, TypeOK, books, ticks, PostRequest, RequestAt, Answer
<1>2. CASE Create(r)
  <2>1. req[r].key \in Payment
    BY <1>2 DEF Create, RequestKnows
  <2>2. row' \in [Payment -> Status]
    BY <1>2, <2>1 DEF Create, TypeOK, SetRow, Status, Unfinished
  <2>3. req' \in [Request -> PostRequest]
    <3>1. req \in [Request -> PostRequest] /\ req[r] \in PostRequest
      BY DEF TypeOK
    <3>2. PICK place \in {"call", "dead"} : req' = [req EXCEPT ![r].at = place]
      BY <1>2 DEF Create
    <3> QED
      BY <3>1, <3>2 DEF PostRequest, RequestAt
  <2>4. line' \in Seq(Payment)
    <3>1. line \in Seq(Payment) /\ line' \in {line, Append(line, req[r].key)}
      BY <1>2 DEF Create, TypeOK
    <3> QED
      BY <2>1, <3>1, AppendProperties
  <2> QED
    BY <1>2, <2>2, <2>3, <2>4 DEF Create, TypeOK, ticks
<1>3. CASE CallProvider(r)
  <2>1. req[r].key \in Payment
    BY <1>3 DEF CallProvider, RequestKnows
  <2>2. PICK done \in {"none", "open", "held"} :
            /\ pos' = [pos EXCEPT ![req[r].key] = IF done = "none" THEN @ ELSE done]
            /\ \E got \in {"failed", CASE done = "open" -> "requires_3ds"
                                       [] done = "held" -> "completed"
                                       [] OTHER -> "failed"} :
                req' = [req EXCEPT ![r].at = "record", ![r].got = got]
    BY <1>3 DEF CallProvider
  <2>3. pos' \in [Payment -> PosState]
    BY <2>1, <2>2 DEF TypeOK, PosState
  <2>4. req' \in [Request -> PostRequest]
    <3>1. PICK got \in Answer : req' = [req EXCEPT ![r].at = "record", ![r].got = got]
      BY <2>2 DEF Answer
    <3> QED
      BY <3>1 DEF TypeOK, PostRequest, RequestAt
  <2>5. asked' \in [Payment -> Nat]
    BY <1>3, <2>1 DEF CallProvider, TypeOK
  <2> QED
    BY <1>3, <2>3, <2>4, <2>5 DEF CallProvider, TypeOK, books, ticks
<1>4. CASE RecordAnswer(r)
  <2>1. req[r].key \in Payment /\ UNCHANGED <<pos, asked, ticks>>
    BY <1>4 DEF RecordAnswer, RequestKnows
  <2>2. req' \in [Request -> PostRequest]
    BY <1>4 DEF RecordAnswer, TypeOK, PostRequest, RequestAt
  <2>3. \/ UNCHANGED books
        \/ SetRow(req[r].key, "awaiting_3ds") /\ UNCHANGED <<booked, deposit>>
        \/ Book(req[r].key)
        \/ SetRow(req[r].key, "failed") /\ UNCHANGED <<booked, deposit>>
    BY <1>4 DEF RecordAnswer, Fail
  <2>4. "awaiting_3ds" \in Status /\ "failed" \in Status
    BY DEF Status, Unfinished
  <2>5. /\ row' \in [Payment -> Status]
        /\ booked' \in SUBSET Payment
        /\ deposit' \in [Seat -> Payment \cup {NoOne}]
    BY <2>1, <2>3, <2>4, BooksTyped DEF TypeOK, books
  <2>6. line' \in Seq(Payment)
    <3>1. line \in Seq(Payment)
      BY DEF TypeOK
    <3>2. line' \in {line, Append(line, req[r].key)}
      BY <1>4 DEF RecordAnswer
    <3> QED
      BY <2>1, <3>1, <3>2, AppendProperties
  <2> QED
    BY <2>1, <2>2, <2>5, <2>6 DEF TypeOK, ticks
<1>5. CASE RequestDies(r)
  BY <1>5 DEF RequestDies, TypeOK, books, ticks, PostRequest, RequestAt
<1> QED
  BY <1>1, <1>2, <1>3, <1>4, <1>5 DEF RequestStep

LEMMA PaymentTypeOK ==
    ASSUME TypeOK, NEW p \in Payment, PaymentStep(p)
    PROVE  TypeOK'
<1>1. CASE BuyerAuthenticates(p)
  BY <1>1 DEF BuyerAuthenticates, TypeOK, books, ticks, PosState
<1>2. CASE Callback(p)
  <2>1. "failed" \in Status
    BY DEF Status
  <2> QED
    BY <1>2, <2>1, BooksTyped DEF Callback, Fail, TypeOK, ticks
<1>3. CASE VerifyTransfer(p)
  <2>1. "completed" \in Status
    BY DEF Status
  <2> QED
    BY <1>3, <2>1, BooksTyped DEF VerifyTransfer, TypeOK, ticks
<1>4. CASE Capture(p) \/ Cancel(p)
  <2>1. {"completed", "cancelled"} \subseteq Status /\ {"captured", "released"} \subseteq PosState
    BY DEF Status, PosState
  <2>2. PICK s \in Status, deed \in PosState : UnderLock(p, deed, s)
    BY <1>4, <2>1 DEF Capture, Cancel
  <2>3. row' \in [Payment -> Status]
    BY <2>2, BooksTyped DEF UnderLock, TypeOK
  <2>4. pos' \in [Payment -> PosState]
    BY <2>2 DEF UnderLock, TypeOK
  <2> QED
    BY <2>2, <2>3, <2>4 DEF UnderLock, TypeOK, ticks
<1> QED
  BY <1>1, <1>2, <1>3, <1>4 DEF PaymentStep

LEMMA WorkersFit == IInv => \A w \in Worker : FitTick(rec[w])
  BY DEF IInv, TypeOK, WorkerKnows, FitTick, InHand

LEMMA WorkerTypeOK ==
    ASSUME IInv, NEW w \in Worker, WorkerStep(w)
    PROVE  TypeOK'
<1> USE DEF IInv
<1>1. PICK t : rec' = [rec EXCEPT ![w] = t] /\ FitTick(t)
  BY WorkersFit, WorkerTick
<1>2. /\ rec' \in [Worker -> Tick]
      /\ \A x \in Worker : rec'[x].at \in {"batch", "told"} => rec'[x].batch # <<>>
  BY <1>1 DEF TypeOK, FitTick
<1>3. UNCHANGED <<line, booked, deposit, pos, asked, req>> /\ (Resolve(w) \/ row' = row)
  BY WorkerLeaves
<1>4. row' \in [Payment -> Status]
  <2>1. "failed" \in Status /\ "provisioned" \in Status
    BY DEF Status
  <2> QED
    BY <1>3, <2>1, ResolveRow DEF TypeOK
<1>5. lock' \in Worker \cup {NoOne}
  BY DEF WorkerStep, TickStep, TryLock, FindPending, FindWaiting, Find, AskStatus, Told, Unlock,
         CloseIdle, AskStatusInVain, PaymentFails, FindFails, LoseLock, WorkerDies, Resolve, TypeOK
<1>6. mishaps' = mishaps \/ Mishap
  BY DEF WorkerStep, TickStep, TryLock, FindPending, FindWaiting, Find, AskStatus, Told, Unlock,
         CloseIdle, AskStatusInVain, PaymentFails, FindFails, LoseLock, WorkerDies, Resolve
<1>7. mishaps' \in 0..MaxMishaps
  BY <1>6, PaymentsAssumption DEF TypeOK, Mishap
<1> QED
  BY <1>2, <1>3, <1>4, <1>5, <1>7 DEF TypeOK

LEMMA StepTypeOK == IInv /\ [Next]_vars => TypeOK'
<1>1. ASSUME IInv, UNCHANGED vars PROVE TypeOK'
  BY <1>1 DEF IInv, TypeOK, vars, ticks
<1> QED
  BY <1>1, RequestTypeOK, PaymentTypeOK, WorkerTypeOK DEF IInv, Next

-----------------------------------------------------------------------------
(* What the requests know, the callers and the provider's questions.       *)
Asking == RequestKnows /\ OneCaller /\ Unasked /\ AskedAtMostOnce

(* A step that leaves the requests and the questions alone.                *)
LEMMA AskingStays ==
    ASSUME IInv, TypeOK', Moves, UNCHANGED <<req, asked>>,
           \A p \in Payment : pos[p] = "none" => pos'[p] = "none"
    PROVE  Asking'
<1> USE DEF IInv
<1>1. \A p \in Payment : row'[p] = "none" => row[p] = "none"
  BY DEF Moves, RowMove
<1>2. \A p \in Payment : row[p] # "none" => row'[p] # "none"
  BY DEF Moves, RowMove
<1>3. RequestKnows'
  BY <1>2, TakenForGood DEF RequestKnows, AtWork
<1>4. OneCaller' /\ AskedAtMostOnce'
  BY DEF OneCaller, AtWork, AskedAtMostOnce
<1>5. Unasked'
  BY <1>1, <1>2 DEF Unasked, Moves, PosMove, RowMove
<1> QED
  BY <1>3, <1>4, <1>5 DEF Asking

(* A step after which a request is not at work any more, or not yet.       *)
LEMMA AskingRests ==
    ASSUME IInv, TypeOK', Moves, NEW r \in Request, NEW m \in PostRequest,
           req' = [req EXCEPT ![r] = m], UNCHANGED <<pos, asked>>,
           m.at \notin {"call", "record"},
           m.at = "create" => m.key \in Payment
    PROVE  Asking'
<1> USE DEF IInv
<1>1. \A q \in Request : req'[q] = IF q = r THEN m ELSE req[q]
  BY DEF TypeOK
<1>3. \A p \in Payment : row[p] # "none" => row'[p] # "none"
  BY DEF Moves, RowMove
<1>4. RequestKnows'
  <2> SUFFICES ASSUME NEW q \in Request
               PROVE  /\ req'[q].at \in {"create", "call", "record"} => req'[q].key \in Payment
                      /\ AtWork(q)' => row'[req'[q].key] # "none"
                      /\ req'[q].at = "call" => asked'[req'[q].key] = 0
                      /\ req'[q].at = "record" /\ req'[q].got = "completed"
                            => pos'[req'[q].key] \in Taken
    BY DEF RequestKnows
  <2>1. CASE q = r
    BY <1>1, <2>1 DEF AtWork
  <2>2. CASE q # r
    BY <1>1, <1>3, <2>2 DEF RequestKnows, AtWork
  <2> QED
    BY <2>1, <2>2
<1>5. OneCaller'
  BY <1>1 DEF OneCaller, AtWork
<1>6. Unasked' /\ AskedAtMostOnce'
  BY <1>3 DEF Unasked, AskedAtMostOnce
<1> QED
  BY <1>4, <1>5, <1>6 DEF Asking

LEMMA CreateAsking ==
    ASSUME IInv, TypeOK', Moves, NEW r \in Request, Create(r)
    PROVE  Asking'
<1> USE DEF IInv
<1> DEFINE p == req[r].key
<1>1. p \in Payment /\ UNCHANGED <<pos, asked>>
  BY DEF Create, RequestKnows
<1>2. CASE row[p] # "none"
  <2>1. req' = [req EXCEPT ![r] = [req[r] EXCEPT !.at = "dead"]]
    BY <1>2 DEF Create
  <2>2. req[r] \in PostRequest
    BY DEF TypeOK
  <2>3. [req[r] EXCEPT !.at = "dead"] \in PostRequest /\ [req[r] EXCEPT !.at = "dead"].at = "dead"
    BY <2>2 DEF PostRequest, RequestAt
  <2> QED
    BY <1>1, <2>1, <2>2, <2>3, AskingRests
<1>3. CASE row[p] = "none"
  <2>1. row'[p] = "pending" /\ \A q \in Payment : row[q] # "none" => row'[q] # "none"
    BY <1>1, <1>3 DEF Create, SetRow, TypeOK
  <2>2. /\ req'[r].at = "call" /\ req'[r].key = p
        /\ \A q \in Request : q # r => req'[q] = req[q]
    BY <1>3 DEF Create, TypeOK, PostRequest
  <2>3. asked[p] = 0
    BY <1>1, <1>3 DEF Unasked
  <2>4. \A q \in Request : AtWork(q) => req[q].key # p
    BY <1>3 DEF RequestKnows
  <2>5. RequestKnows'
    BY <1>1, <2>1, <2>2, <2>3 DEF RequestKnows, AtWork
  <2>6. OneCaller'
    BY <2>2, <2>4 DEF OneCaller, AtWork
  <2>7. Unasked' /\ AskedAtMostOnce'
    BY <1>1, <2>1 DEF Unasked, AskedAtMostOnce
  <2> QED
    BY <2>5, <2>6, <2>7 DEF Asking
<1> QED
  BY <1>2, <1>3

LEMMA CallAsking ==
    ASSUME IInv, TypeOK', Moves, NEW r \in Request, CallProvider(r)
    PROVE  Asking'
<1> USE DEF IInv
<1> DEFINE p == req[r].key
<1>1. /\ p \in Payment
      /\ row' = row
      /\ asked[p] = 0
      /\ row[p] # "none"
      /\ AtWork(r)
  BY DEF CallProvider, RequestKnows, AtWork, books
<1>2. \A q \in Payment : asked'[q] = IF q = p THEN 1 ELSE asked[q]
  BY <1>1 DEF CallProvider, TypeOK
<1>3. PICK done \in {"none", "open", "held"} :
          /\ pos' = [pos EXCEPT ![p] = IF done = "none" THEN @ ELSE done]
          /\ \E got \in {"failed", CASE done = "open" -> "requires_3ds"
                                     [] done = "held" -> "completed"
                                     [] OTHER -> "failed"} :
              req' = [req EXCEPT ![r].at = "record", ![r].got = got]
  BY DEF CallProvider
<1>4. PICK got \in Answer : /\ req' = [req EXCEPT ![r].at = "record", ![r].got = got]
                            /\ got = "completed" => done = "held"
  BY <1>3 DEF Answer
<1>5. /\ req'[r].at = "record" /\ req'[r].key = p /\ req'[r].got = got
      /\ \A q \in Request : q # r => req'[q] = req[q]
  BY <1>4 DEF TypeOK, PostRequest
<1>6. /\ done = "held" => pos'[p] = "held"
      /\ \A q \in Payment : q # p => pos'[q] = pos[q]
  BY <1>1, <1>3 DEF TypeOK
<1>7. \A q \in Request : q # r /\ AtWork(q) => req[q].key # p
  BY <1>1 DEF OneCaller
<1>8. RequestKnows'
  <2> SUFFICES ASSUME NEW q \in Request
               PROVE  /\ req'[q].at \in {"create", "call", "record"} => req'[q].key \in Payment
                      /\ AtWork(q)' => row'[req'[q].key] # "none"
                      /\ req'[q].at = "call" => asked'[req'[q].key] = 0
                      /\ req'[q].at = "record" /\ req'[q].got = "completed"
                            => pos'[req'[q].key] \in Taken
    BY DEF RequestKnows
  <2>1. CASE q = r
    BY <1>1, <1>4, <1>5, <1>6, <2>1 DEF AtWork, Taken
  <2>2. CASE q # r
    BY <1>1, <1>2, <1>5, <1>6, <1>7, <2>2 DEF RequestKnows, AtWork
  <2> QED
    BY <2>1, <2>2
<1>9. OneCaller'
  BY <1>5, <1>7 DEF OneCaller, AtWork
<1>10. Unasked' /\ AskedAtMostOnce'
  BY <1>1, <1>2, <1>6 DEF Unasked, AskedAtMostOnce
<1> QED
  BY <1>8, <1>9, <1>10 DEF Asking

LEMMA RequestAsking ==
    ASSUME IInv, TypeOK', Moves, NEW r \in Request, RequestStep(r)
    PROVE  Asking'
<1> USE DEF IInv
<1>1. ASSUME NEW p \in Payment, Submit(r, p) PROVE Asking'
  <2> DEFINE m == [at  |-> IF row[p] = "none" THEN "create" ELSE "dead",
                   key |-> p, got |-> "none"]
  <2>1. m \in PostRequest /\ m.at \in {"create", "dead"} /\ m.key \in Payment
    BY DEF PostRequest, RequestAt, Answer
  <2>2. req' = [req EXCEPT ![r] = m] /\ UNCHANGED <<pos, asked>>
    BY <1>1 DEF Submit
  <2> HIDE DEF m
  <2> QED
    BY <2>1, <2>2, AskingRests
<1>2. CASE RecordAnswer(r) \/ RequestDies(r)
  <2>1. PICK place \in {"served", "dead"} : req' = [req EXCEPT ![r].at = place]
    BY <1>2 DEF RecordAnswer, RequestDies
  <2> DEFINE m == [req[r] EXCEPT !.at = place]
  <2>2. m \in PostRequest /\ m.at = place /\ req' = [req EXCEPT ![r] = m]
    BY <2>1 DEF TypeOK, PostRequest, RequestAt
  <2>3. UNCHANGED <<pos, asked>>
    BY <1>2 DEF RecordAnswer, RequestDies
  <2> HIDE DEF m
  <2> QED
    BY <2>2, <2>3, AskingRests
<1> QED
  BY <1>1, <1>2, CreateAsking, CallAsking DEF RequestStep

LEMMA StepAsking == IInv /\ TypeOK' /\ Moves /\ [Next]_vars => Asking'
<1> SUFFICES ASSUME IInv, TypeOK', Moves, [Next]_vars PROVE Asking'
  OBVIOUS
<1>1. CASE UNCHANGED vars
  BY <1>1, AskingStays DEF vars
<1>2. ASSUME NEW p \in Payment, PaymentStep(p) PROVE Asking'
  <2>1. UNCHANGED <<req, asked>>
    BY <1>2 DEF PaymentStep, BuyerAuthenticates, Callback, VerifyTransfer, Capture, Cancel,
                UnderLock
  <2>2. pos' = pos \/ (pos[p] # "none" /\ \E s \in PosState : pos' = [pos EXCEPT ![p] = s])
    BY <1>2 DEF PaymentStep, BuyerAuthenticates, Callback, VerifyTransfer, Capture, Cancel,
                UnderLock, PosState, Taken
  <2>3. \A q \in Payment : pos[q] = "none" => pos'[q] = "none"
    BY <2>2 DEF IInv, TypeOK
  <2> QED
    BY <2>1, <2>3, AskingStays
<1>3. ASSUME NEW w \in Worker, WorkerStep(w) PROVE Asking'
  <2>1. UNCHANGED <<req, asked, pos>>
    BY <1>3, WorkerLeaves
  <2> QED
    BY <2>1, AskingStays
<1> QED
  BY <1>1, <1>2, <1>3, RequestAsking DEF Next

-----------------------------------------------------------------------------
(* A verdict is what the provider said of a payment it may have moved on   *)
(* with since, and money that was taken stays taken.                       *)
LEMMA StepWorkerKnows == IInv /\ Moves /\ [Next]_vars => WorkerKnows'
<1> SUFFICES ASSUME IInv, Moves, [Next]_vars PROVE WorkerKnows'
  OBVIOUS
<1> USE DEF IInv
<1>1. CASE UNCHANGED rec
  <2>1. ASSUME NEW w \in Worker, rec[w].at = "told" PROVE InHand(w).key \in Payment
    BY <2>1, InHandIsCopy
  <2> QED
    BY <1>1, <2>1, TakenForGood DEF WorkerKnows, InHand
<1>2. ASSUME NEW w \in Worker, WorkerStep(w) PROVE WorkerKnows'
  <2>1. PICK t : rec' = [rec EXCEPT ![w] = t] /\ FitTick(t)
    BY <1>2, WorkersFit, WorkerTick
  <2>2. UNCHANGED pos
    BY <1>2, WorkerLeaves
  <2> QED
    BY <2>1, <2>2, WorkersFit DEF WorkerKnows, FitTick, TypeOK, InHand
<1>3. ASSUME NEW r \in Request, RequestStep(r) PROVE UNCHANGED rec
  BY <1>3 DEF RequestStep, Submit, Create, CallProvider, RecordAnswer, RequestDies, ticks
<1>4. ASSUME NEW p \in Payment, PaymentStep(p) PROVE UNCHANGED rec
  BY <1>4 DEF PaymentStep, BuyerAuthenticates, Callback, VerifyTransfer, Capture, Cancel,
              UnderLock, ticks
<1> QED
  BY <1>1, <1>2, <1>3, <1>4 DEF Next, vars

LEMMA StepInv == IInv /\ [Next]_vars => IInv'
<1> SUFFICES ASSUME IInv, [Next]_vars PROVE IInv'
  OBVIOUS
<1>1. TypeOK' /\ Moves
  BY StepTypeOK, StepMoves
<1>2. Asking' /\ WorkerKnows'
  BY <1>1, StepAsking, StepWorkerKnows
<1>3. BookedIsPast' /\ BooksMatchProvider' /\ SeatsMatchPayments'
  BY <1>1, MovesBooked, MovesBooks, MovesSeats DEF IInv
<1> QED
  BY <1>1, <1>2, <1>3 DEF IInv, Asking

LEMMA Inductive == Spec => []IInv
<1>1. Init => IInv
  BY InitInv
<1>2. IInv /\ [Next]_vars => IInv'
  BY StepInv
<1> QED
  BY <1>1, <1>2, PTL DEF Spec

-----------------------------------------------------------------------------
(* Every reachable state is well typed.                                    *)
THEOREM PaymentTypesAlways == Spec => []TypeOK
<1>1. IInv => TypeOK
  BY DEF IInv
<1> QED
  BY <1>1, Inductive, PTL

(* However many requests race under one key, are retried or die, the       *)
(* provider is asked for its money at most once.                           *)
THEOREM AskedAtMostOnceAlways == Spec => []AskedAtMostOnce
<1>1. IInv => AskedAtMostOnce
  BY DEF IInv
<1> QED
  BY <1>1, Inductive, PTL

(* No lost reply, late callback or stale verdict makes the books say       *)
(* something the provider has not done.                                    *)
THEOREM BooksMatchProviderAlways == Spec => []BooksMatchProvider
<1>1. IInv => BooksMatchProvider
  BY DEF IInv
<1> QED
  BY <1>1, Inductive, PTL

(* Places in auctions stand against money that was taken for them, and no  *)
(* provision is half recorded.                                             *)
THEOREM SeatsMatchPaymentsAlways == Spec => []SeatsMatchPayments
<1>1. IInv => SeatsMatchPayments
  BY DEF IInv
<1> QED
  BY <1>1, Inductive, PTL

(* The database's transition trigger never refuses a write.                *)
THEOREM TriggerNeverFiresAlways == Spec => TriggerNeverFires
<1> DEFINE Quiet(p) ==
        \/ row'[p] = row[p]
        \/ row[p] = "none" /\ row'[p] = "pending"
        \/ <<row[p], row'[p]>> \in Transitions
        \/ \E s \in Status : <<row[p], s>> \in Transitions /\ <<s, row'[p]>> \in Transitions
<1>1. ASSUME NEW p \in Payment, RowMove(p) PROVE Quiet(p)
  <2>1. CASE row[p] = "pending" /\ row'[p] = "completed"
    <3>1. /\ "provisioned" \in Status
          /\ <<row[p], "provisioned">> \in Transitions
          /\ <<"provisioned", row'[p]>> \in Transitions
      BY <2>1 DEF Transitions, Status
    <3> QED
      BY <3>1
  <2>2. CASE ~(row[p] = "pending" /\ row'[p] = "completed")
    BY <1>1, <2>2 DEF RowMove, Transitions, Unfinished
  <2> QED
    BY <2>1, <2>2
<1>2. IInv /\ [Next]_vars => [\A p \in Payment : Quiet(p)]_row
  BY <1>1, StepMoves DEF Moves
<1> QED
  BY <1>2, Inductive, PTL DEF Spec, TriggerNeverFires
-----------------------------------------------------------------------------
(* Payments implements PaidPlaces.                                         *)
Money   == [p \in Payment |-> MoneyOf(p)]
Account == [p \in Payment |-> AccountOf(p)]

(* What a buyer sees of a payment is what its row and the provider say.    *)
LEMMA Seen ==
    ASSUME TypeOK, NEW p \in Payment
    PROVE  /\ Money[p] = MoneyOf(p) /\ Account[p] = AccountOf(p)
           /\ pos[p] \in {"none", "open", "declined"} <=> MoneyOf(p) = "buyers"
           /\ pos[p] = "held" <=> MoneyOf(p) = "held"
           /\ pos[p] = "captured" <=> MoneyOf(p) = "ours"
           /\ pos[p] = "released" <=> MoneyOf(p) = "returned"
           /\ row[p] \in Unfinished \cup {"none"} <=> AccountOf(p) = "open"
           /\ row[p] = "provisioned" <=> AccountOf(p) = "reserved"
           /\ row[p] = "completed" <=> AccountOf(p) = "paid"
           /\ row[p] = "cancelled" <=> AccountOf(p) = "given_up"
           /\ row[p] = "failed" <=> AccountOf(p) = "closed"
<1>1. row[p] \in Status /\ pos[p] \in PosState
  BY DEF TypeOK
<1>2. Money[p] = MoneyOf(p) /\ Account[p] = AccountOf(p)
  BY DEF Money, Account
<1> HIDE DEF Money, Account
<1> QED
  BY <1>1, <1>2 DEF MoneyOf, AccountOf, Status, PosState, Unfinished

(* A step on one payment changes what is seen of that one.                 *)
LEMMA SeenElsewhere ==
    ASSUME TypeOK, TypeOK', NEW p \in Payment,
           \A q \in Payment \ {p} : row'[q] = row[q] /\ pos'[q] = pos[q]
    PROVE  /\ Money' = [Money EXCEPT ![p] = MoneyOf(p)']
           /\ Account' = [Account EXCEPT ![p] = AccountOf(p)']
<1>1. ASSUME NEW q \in Payment \ {p}
      PROVE  MoneyOf(q)' = MoneyOf(q) /\ AccountOf(q)' = AccountOf(q)
  BY <1>1 DEF MoneyOf, AccountOf
<1> QED
  BY <1>1 DEF Money, Account

LEMMA SameRow ==
    ASSUME TypeOK, NEW p \in Payment, row'[p] = row[p]
    PROVE  AccountOf(p)' = AccountOf(p)
  BY DEF AccountOf

LEMMA SamePos ==
    ASSUME TypeOK, NEW p \in Payment, pos'[p] = pos[p]
    PROVE  MoneyOf(p)' = MoneyOf(p)
  BY DEF MoneyOf

(* Steps nobody sees.                                                      *)
LEMMA Unseen ==
    ASSUME UNCHANGED <<row, pos, deposit>>
    PROVE  UNCHANGED Places!vars
<1>1. ASSUME NEW p \in Payment
      PROVE  MoneyOf(p)' = MoneyOf(p) /\ AccountOf(p)' = AccountOf(p)
  BY DEF MoneyOf, AccountOf
<1>2. Money' = Money /\ Account' = Account
  BY <1>1 DEF Money, Account
<1> QED
  BY <1>2 DEF Places!vars, Money, Account

(* Steps on a row alone, the provider's record alone, or a reserved        *)
(* payment's both.                                                         *)
LEMMA RowRefines ==
    ASSUME TypeOK, TypeOK', NEW p \in Payment, NEW s \in Status,
           row' = [row EXCEPT ![p] = s], UNCHANGED <<pos, deposit>>,
           row[p] \in Unfinished \cup {"none"},
           \/ s \in Unfinished
           \/ s = "failed"
           \/ s = "provisioned" /\ pos[p] \in Taken
    PROVE  [Places!Next]_(Places!vars)
<1>1. row'[p] = s /\ MoneyOf(p)' = MoneyOf(p)
  BY SamePos DEF TypeOK
<1>2. /\ Money' = [Money EXCEPT ![p] = MoneyOf(p)']
      /\ Account' = [Account EXCEPT ![p] = AccountOf(p)']
  BY SeenElsewhere DEF TypeOK
<1>3. Money[p] = MoneyOf(p) /\ Account[p] = "open"
  BY Seen
<1>4. Money' = Money
  BY <1>1, <1>2, <1>3 DEF Money
<1>5. CASE s \in Unfinished
  <2>1. AccountOf(p)' = "open"
    BY <1>1, <1>5 DEF AccountOf, Unfinished
  <2>2. Account' = Account
    BY <1>2, <1>3, <2>1 DEF Account
  <2> QED
    BY <1>4, <2>2 DEF Places!vars, Money, Account
<1>6. CASE s = "failed"
  <2>1. AccountOf(p)' = "closed"
    BY <1>1, <1>6 DEF AccountOf
  <2>2. Places!Close(p)
    BY <1>2, <1>3, <1>4, <2>1 DEF Places!Close, Money, Account
  <2> QED
    BY <2>2 DEF Places!Next
<1>7. CASE s = "provisioned" /\ pos[p] \in Taken
  <2>1. AccountOf(p)' = "reserved"
    BY <1>1, <1>7 DEF AccountOf
  <2>2. Money[p] # "buyers"
    BY <1>3, <1>7, Seen DEF Taken
  <2>3. Places!Reserve(p)
    BY <1>2, <1>3, <1>4, <2>1, <2>2 DEF Places!Reserve, Money, Account
  <2> QED
    BY <2>3 DEF Places!Next
<1> QED
  BY <1>5, <1>6, <1>7

LEMMA BookRefines ==
    ASSUME TypeOK, TypeOK', NEW p \in Payment, Book(p),
           row[p] \in Unfinished, pos[p] \in Taken, UNCHANGED pos
    PROVE  [Places!Next]_(Places!vars)
<1>1. CASE ~SeatIsFree(p)
  BY <1>1, Unseen DEF Book, books
<1>2. CASE SeatIsFree(p)
  <2>1. row' = [row EXCEPT ![p] = "provisioned"] /\ Collect(p)
    BY <1>2 DEF Book, SetRow
  <2>2. row'[p] = "provisioned" /\ MoneyOf(p)' = MoneyOf(p)
    BY <2>1, SamePos DEF TypeOK
  <2>3. /\ Money' = [Money EXCEPT ![p] = MoneyOf(p)']
        /\ Account' = [Account EXCEPT ![p] = AccountOf(p)']
    BY <2>1, SeenElsewhere DEF TypeOK
  <2>4. /\ Money[p] = MoneyOf(p) /\ Account[p] = "open" /\ Money[p] # "buyers"
        /\ AccountOf(p)' = "reserved"
    BY <2>2, Seen DEF Taken, AccountOf
  <2>5. Money' = Money
    BY <2>2, <2>3, <2>4 DEF Money
  <2>6. Places!Gives(p)
    BY <2>1 DEF Places!Gives, Collect
  <2>7. Places!Reserve(p)
    BY <2>3, <2>4, <2>5, <2>6 DEF Places!Reserve, Money, Account
  <2> QED
    BY <2>7 DEF Places!Next
<1> QED
  BY <1>1, <1>2

LEMMA PosRefines ==
    ASSUME TypeOK, TypeOK', NEW p \in Payment, NEW s \in {"none", "open", "held", "declined"},
           pos[p] \in {"none", "open"}, pos' = [pos EXCEPT ![p] = s], UNCHANGED books
    PROVE  [Places!Next]_(Places!vars)
<1>1. pos'[p] = s /\ AccountOf(p)' = AccountOf(p) /\ UNCHANGED <<row, deposit>>
  BY SameRow DEF TypeOK, books
<1>2. /\ Money' = [Money EXCEPT ![p] = MoneyOf(p)']
      /\ Account' = [Account EXCEPT ![p] = AccountOf(p)']
  BY <1>1, SeenElsewhere DEF TypeOK
<1>3. Money[p] = "buyers" /\ Account[p] = AccountOf(p)
  BY Seen
<1>4. Account' = Account
  BY <1>1, <1>2, <1>3 DEF Account
<1>5. CASE s = "held"
  <2>1. MoneyOf(p)' = "held"
    BY <1>1, <1>5 DEF MoneyOf
  <2>2. Places!Hold(p)
    BY <1>1, <1>2, <1>3, <1>4, <2>1 DEF Places!Hold, Money, Account
  <2> QED
    BY <2>2 DEF Places!Next
<1>6. CASE s # "held"
  <2>1. MoneyOf(p)' = "buyers"
    BY <1>1, <1>6 DEF MoneyOf
  <2>2. Money' = Money
    BY <1>2, <1>3, <2>1 DEF Money
  <2> QED
    BY <1>1, <1>4, <2>2 DEF Places!vars, Money, Account
<1> QED
  BY <1>5, <1>6

LEMMA UnderLockRefines ==
    ASSUME TypeOK, TypeOK', NEW p \in Payment, Capture(p) \/ Cancel(p)
    PROVE  [Places!Next]_(Places!vars)
<1>1. row[p] = "provisioned" /\ pos[p] \in Taken /\ UNCHANGED deposit
  BY DEF Capture, Cancel, UnderLock, Taken
<1>2. Account[p] = "reserved" /\ Money[p] # "buyers" /\ Account[p] = AccountOf(p)
  BY <1>1, Seen DEF Taken
<1>3. ASSUME NEW s \in Status, row' = row \/ row' = [row EXCEPT ![p] = s],
             NEW d \in PosState, pos' = [pos EXCEPT ![p] = d]
      PROVE  /\ Money' = [Money EXCEPT ![p] = MoneyOf(p)']
             /\ Account' = [Account EXCEPT ![p] = AccountOf(p)']
             /\ pos'[p] = d /\ row'[p] \in {row[p], s}
  BY <1>3, SeenElsewhere DEF TypeOK
<1>4. CASE Capture(p)
  <2>1. /\ pos[p] \in {"held", "captured"}
        /\ pos' = [pos EXCEPT ![p] = "captured"]
        /\ row' = [row EXCEPT ![p] = "completed"] \/ row' = row
    BY <1>4 DEF Capture, UnderLock, SetRow
  <2>2. /\ Money' = [Money EXCEPT ![p] = MoneyOf(p)']
        /\ Account' = [Account EXCEPT ![p] = AccountOf(p)']
        /\ pos'[p] = "captured" /\ row'[p] \in {"provisioned", "completed"}
    BY <1>1, <1>3, <2>1 DEF Status, PosState
  <2>3. MoneyOf(p)' = "ours" /\ AccountOf(p)' \in {"reserved", "paid"}
    BY <2>2 DEF MoneyOf, AccountOf
  <2>4. Money[p] \in {"held", "ours"}
    BY <2>1, Seen
  <2>5. AccountOf(p)' = "reserved" => Account' = Account
    BY <1>2, <2>2 DEF Account
  <2>6. Places!Take(p)
    BY <1>1, <1>2, <2>2, <2>3, <2>4, <2>5 DEF Places!Take, Money, Account
  <2> QED
    BY <2>6 DEF Places!Next
<1>5. CASE Cancel(p)
  <2>1. /\ pos' = [pos EXCEPT ![p] = "released"]
        /\ row' = [row EXCEPT ![p] = "cancelled"] \/ row' = row
    BY <1>5 DEF Cancel, UnderLock, SetRow
  <2>2. /\ Money' = [Money EXCEPT ![p] = MoneyOf(p)']
        /\ Account' = [Account EXCEPT ![p] = AccountOf(p)']
        /\ pos'[p] = "released" /\ row'[p] \in {"provisioned", "cancelled"}
    BY <1>1, <1>3, <2>1 DEF Status, PosState
  <2>3. MoneyOf(p)' = "returned" /\ AccountOf(p)' \in {"reserved", "given_up"}
    BY <2>2 DEF MoneyOf, AccountOf
  <2>4. AccountOf(p)' = "reserved" => Account' = Account
    BY <1>2, <2>2 DEF Account
  <2>5. Places!Return(p)
    BY <1>1, <1>2, <2>2, <2>3, <2>4 DEF Places!Return, Money, Account
  <2> QED
    BY <2>5 DEF Places!Next
<1> QED
  BY <1>4, <1>5

LEMMA VerifyRefines ==
    ASSUME TypeOK, TypeOK', NEW p \in Payment, VerifyTransfer(p)
    PROVE  [Places!Next]_(Places!vars)
<1>1. /\ row' = [row EXCEPT ![p] = "completed"] /\ row[p] = "pending"
      /\ p \in Transfer /\ Collect(p) /\ UNCHANGED pos
  BY DEF VerifyTransfer, SetRow
<1>2. row'[p] = "completed" /\ MoneyOf(p)' = MoneyOf(p)
  BY <1>1, SamePos DEF TypeOK
<1>3. /\ Money' = [Money EXCEPT ![p] = MoneyOf(p)']
      /\ Account' = [Account EXCEPT ![p] = AccountOf(p)']
  BY <1>1, SeenElsewhere DEF TypeOK
<1>4. /\ Money[p] = MoneyOf(p) /\ Account[p] = "open" /\ AccountOf(p)' = "paid"
  BY <1>1, <1>2, Seen DEF Unfinished, AccountOf
<1>5. Money' = Money
  BY <1>2, <1>3, <1>4 DEF Money
<1>6. Places!Gives(p)
  BY <1>1 DEF Places!Gives, Collect
<1>7. Places!Confirm(p)
  BY <1>1, <1>3, <1>4, <1>5, <1>6 DEF Places!Confirm, Money, Account
<1> QED
  BY <1>7 DEF Places!Next

LEMMA RequestRefines ==
    ASSUME IInv, TypeOK', NEW r \in Request, RequestStep(r)
    PROVE  [Places!Next]_(Places!vars)
<1> USE DEF IInv
<1> DEFINE p == req[r].key
<1>1. CASE Create(r) /\ row[p] = "none"
  BY <1>1, RowRefines DEF Create, RequestKnows, SetRow, Status, Unfinished
<1>2. CASE CallProvider(r)
  <2>1. PICK done \in {"none", "open", "held"} :
            pos' = [pos EXCEPT ![p] = IF done = "none" THEN @ ELSE done]
    BY <1>2 DEF CallProvider
  <2>2. p \in Payment /\ pos[p] = "none" /\ UNCHANGED books
    BY <1>2 DEF CallProvider, RequestKnows, Unasked
  <2>3. pos' = [pos EXCEPT ![p] = done]
    BY <2>1, <2>2
  <2> QED
    BY <2>2, <2>3, PosRefines
<1>3. CASE RecordAnswer(r)
  <2>1. p \in Payment /\ UNCHANGED pos
    BY <1>3 DEF RecordAnswer, RequestKnows
  <2>2. CASE row[p] # "pending"
    BY <1>3, <2>1, <2>2, Unseen DEF RecordAnswer, books
  <2>3. CASE row[p] = "pending" /\ req[r].got = "completed"
    BY <1>3, <2>1, <2>3, BookRefines DEF RecordAnswer, RequestKnows, Unfinished
  <2>4. CASE row[p] = "pending" /\ req[r].got # "completed"
    BY <1>3, <2>1, <2>4, RowRefines DEF RecordAnswer, SetRow, Fail, Status, Unfinished
  <2> QED
    BY <2>2, <2>3, <2>4
<1>4. CASE UNCHANGED <<row, pos, deposit>>
  BY <1>4, Unseen
<1> QED
  BY <1>1, <1>2, <1>3, <1>4 DEF RequestStep, Submit, Create, RequestDies, books

LEMMA StepRefines ==
    ASSUME IInv, TypeOK', [Next]_vars
    PROVE  [Places!Next]_(Places!vars)
<1> USE DEF IInv
<1>1. ASSUME NEW p \in Payment, BuyerAuthenticates(p)
      PROVE  [Places!Next]_(Places!vars)
  BY <1>1, PosRefines DEF BuyerAuthenticates
<1>2. ASSUME NEW p \in Payment, Callback(p)
      PROVE  [Places!Next]_(Places!vars)
  <2>1. row[p] = "awaiting_3ds" /\ UNCHANGED pos
    BY <1>2 DEF Callback
  <2>2. CASE pos[p] = "held" /\ Book(p)
    BY <2>1, <2>2, BookRefines DEF Taken, Unfinished
  <2>3. CASE Fail(p)
    BY <2>1, <2>3, RowRefines DEF Fail, SetRow, Status, Unfinished
  <2> QED
    BY <1>2, <2>2, <2>3 DEF Callback
<1>3. ASSUME NEW w \in Worker, WorkerStep(w)
      PROVE  [Places!Next]_(Places!vars)
  <2>1. UNCHANGED <<booked, deposit, pos>> /\ (Resolve(w) \/ row' = row)
    BY <1>3, WorkerLeaves
  <2>2. CASE row' = row
    BY <2>1, <2>2, Unseen
  <2>3. CASE Resolve(w) /\ row' # row
    <3>1. "failed" \in Status /\ "provisioned" \in Status
      BY DEF Status
    <3> QED
      BY <2>1, <2>3, <3>1, ResolveRow, RowRefines
  <2> QED
    BY <2>1, <2>2, <2>3
<1>4. CASE UNCHANGED vars
  BY <1>4, Unseen DEF vars
<1> QED
  BY <1>1, <1>2, <1>3, <1>4, RequestRefines, VerifyRefines, UnderLockRefines
  DEF Next, PaymentStep

(* Whatever races, dies or is lost, on any number of payments, a step is   *)
(* one PaidPlaces allows on one of them: money moves only for an account   *)
(* that reserved it, and a place that was given stays where it is.         *)
THEOREM PaymentsArePaidPlaces == Spec => ImplementsPaidPlaces
<1>1. Init => Places!Init
  BY DEF Init, Places!Init, MoneyOf, AccountOf
<1>2. IInv /\ IInv' /\ [Next]_vars => [Places!Next]_(Places!vars)
  BY StepRefines DEF IInv
<1> QED
  BY <1>1, <1>2, Inductive, PTL DEF Spec, ImplementsPaidPlaces, Places!Spec
=============================================================================
