------------------------- MODULE Settlement_proofs -------------------------
(***************************************************************************)
(* Proofs about Settlement.  The inductive invariant IInv says of every    *)
(* copy of the manifest, however old, what is true of the row: what is     *)
(* acknowledged is done.  That survives any save because deposits only     *)
(* ever advance, which is what the deposit's row lock and the status check *)
(* under it buy.                                                           *)
(***************************************************************************)
EXTENDS Settlement, SequenceTheorems, TLAPS

(* An item of a manifest or copy tells the truth about the deposits dep.   *)
ItemsOK(m, dep) ==
    \A d \in Held :
        /\ m.items[d].status = "acknowledged" => dep[d] = DoneStatus(d)
        /\ m.items[d].status = "pending" => m.items[d].retries < MaxRetries

(* What a worker at v.pc relies on.                                        *)
ReplicaOK(v, dep, done) ==
    /\ v.copy # None => ItemsOK(v.copy, dep)
    /\ v.pc \in {"loaded", "givingup", "working", "refunding", "calling",
                 "recording", "saving"} => v.copy # None
    /\ v.pc \in {"refunding", "calling", "recording", "saving"} =>
          v.item \in Held /\ v.left > 0
    /\ v.pc \in {"refunding", "calling", "recording"} =>
          v.copy.items[v.item].retries < MaxRetries
    /\ v.pc = "refunding" => v.item # Winner
    /\ v.pc \in {"calling", "recording"} /\ v.item # Winner =>
          dep[v.item] \in {"refund_pending", "refunded"}
    /\ v.pc = "recording" => <<v.item, ActionOf(v.item)>> \in done

(* Every deposit goes one way: the winner's is captured, others refunded.  *)
OneWay ==
    /\ \A d \in Deposits :
          /\ deposit[d] = "collected" <=> d \in Collected
          /\ deposit[d] \in {"refund_pending", "refunded"} => d # Winner
          /\ deposit[d] = "captured" => d = Winner
    /\ \A d \in Deposits, a \in {"capture", "refund"} :
          <<d, a>> \in pos => a = ActionOf(d)

ReplicasOK == \A w \in Workers : ReplicaOK(worker[w], deposit, pos)

ManifestOK == manifest # None => ItemsOK(manifest, deposit)

(* Before there is a manifest no worker has a copy and no deposit moves.   *)
NothingYet ==
    manifest = None =>
        /\ \A d \in Held : deposit[d] = "held"
        /\ \A w \in Workers : worker[w].copy = None

IInv ==
    /\ TypeOK
    /\ MoneyMatchesBooks
    /\ OneWay
    /\ ReplicasOK
    /\ ManifestOK
    /\ NothingYet
    /\ SettledMeansPaid

(* Deposits and the provider's record only ever advance.                   *)
Advance(dep, done, dep2, done2) ==
    /\ \A d \in Held : dep[d] = DoneStatus(d) => dep2[d] = DoneStatus(d)
    /\ \A d \in Held : dep[d] \in {"refund_pending", "refunded"} =>
                          dep2[d] \in {"refund_pending", "refunded"}
    /\ done \subseteq done2

-----------------------------------------------------------------------------
LEMMA ItemsAdvance ==
    ASSUME NEW m, NEW dep, NEW done, NEW dep2, NEW done2,
           ItemsOK(m, dep), Advance(dep, done, dep2, done2)
    PROVE  ItemsOK(m, dep2)
BY DEF ItemsOK, Advance

LEMMA ReplicaAdvance ==
    ASSUME NEW v, NEW dep, NEW done, NEW dep2, NEW done2,
           ReplicaOK(v, dep, done), Advance(dep, done, dep2, done2)
    PROVE  ReplicaOK(v, dep2, done2)
BY ItemsAdvance DEF ReplicaOK, Advance

(* One worker moves to v while deposits stay or advance.                   *)
LEMMA WorkerMoves ==
    ASSUME IInv, NEW w \in Workers, NEW v \in Replica,
           worker' = [worker EXCEPT ![w] = v],
           Advance(deposit, pos, deposit', pos'), ReplicaOK(v, deposit', pos')
    PROVE  worker' \in [Workers -> Replica] /\ ReplicasOK'
<1>1. worker' \in [Workers -> Replica]
  BY DEF IInv, TypeOK
<1>2. ASSUME NEW x \in Workers PROVE ReplicaOK(worker'[x], deposit', pos')
  <2>1. CASE x = w
    BY <2>1 DEF IInv, TypeOK
  <2>2. CASE x # w
    <3>1. worker'[x] = worker[x]
      BY <2>2 DEF IInv, TypeOK
    <3>2. ReplicaOK(worker[x], deposit, pos)
      BY DEF IInv, ReplicasOK
    <3>3. QED
      BY <3>1, <3>2, ReplicaAdvance
  <2>3. QED
    BY <2>1, <2>2
<1>3. QED
  BY <1>1, <1>2 DEF ReplicasOK

LEMMA MarkedOK ==
    ASSUME NEW v \in Replica, NEW d \in Held, NEW ok \in BOOLEAN,
           NEW dep, NEW done, v.copy # None, ItemsOK(v.copy, dep), v.left > 0,
           v.copy.items[d].retries < MaxRetries,
           ok => dep[d] = DoneStatus(d)
    PROVE  Marked(v, d, ok) \in Replica /\ ReplicaOK(Marked(v, d, ok), dep, done)
<1> DEFINE i == MarkedItem(v.copy.items[d], ok)
           items == [v.copy.items EXCEPT ![d] = i]
           m == [v.copy EXCEPT !.items = items]
<1>1. v.copy \in Manifest(Held)
  BY DEF Replica
<1>2. v.copy.items \in [Held -> Item] /\ v.copy.items[d] \in Item
  BY <1>1 DEF Manifest
<1>3. i \in Item
  <2>1. CASE ok
    BY <2>1, <1>2 DEF Item, MarkedItem
  <2>2. CASE ~ok
    BY <2>2, <1>2, SettlementAssumption DEF Item, MarkedItem
  <2>3. QED
    BY <2>1, <2>2
<1>4. items \in [Held -> Item]
  BY <1>2, <1>3
<1>5. m \in Manifest(Held) /\ m.items = items
  BY <1>1, <1>4 DEF Manifest
<1>6. Marked(v, d, ok) = [v EXCEPT !.pc = "saving", !.item = d, !.copy = m]
  BY DEF Marked, Replica
<1>7. Marked(v, d, ok) \in Replica
  BY <1>5, <1>6 DEF Replica, WorkerPc
<1>8. /\ Marked(v, d, ok).copy = m
      /\ Marked(v, d, ok).pc = "saving"
      /\ Marked(v, d, ok).item = d
      /\ Marked(v, d, ok).left = v.left
  BY <1>6 DEF Replica
<1>9. ItemsOK(m, dep)
  <2>1. ASSUME NEW x \in Held
        PROVE  /\ m.items[x].status = "acknowledged" => dep[x] = DoneStatus(x)
               /\ m.items[x].status = "pending" => m.items[x].retries < MaxRetries
    <3>1. CASE x = d
      <4>1. m.items[x] = i
        BY <3>1, <1>5, <1>2
      <4>2. QED
        BY <4>1, <3>1, <1>2 DEF Item, MarkedItem
    <3>2. CASE x # d
      <4>1. m.items[x] = v.copy.items[x]
        BY <3>2, <1>5, <1>2
      <4>2. QED
        BY <4>1 DEF ItemsOK
    <3>3. QED
      BY <3>1, <3>2
  <2>2. QED
    BY <2>1 DEF ItemsOK
<1>10. m # None
  BY <1>5, NoManifestAssumption
<1>11. QED
  <2> HIDE DEF m
  <2>1. QED
    BY <1>7, <1>8, <1>9, <1>10 DEF ReplicaOK

(* Mark is what Marked says, and leaves every worker well placed.          *)
LEMMA MarkMoves ==
    ASSUME IInv, NEW w \in Workers, NEW d \in Held, NEW ok \in BOOLEAN,
           Mark(w, d, ok), Advance(deposit, pos, deposit', pos'),
           worker[w].copy # None, worker[w].left > 0,
           worker[w].copy.items[d].retries < MaxRetries,
           ok => deposit'[d] = DoneStatus(d)
    PROVE  worker' \in [Workers -> Replica] /\ ReplicasOK'
<1>1. worker[w] \in Replica
  BY DEF IInv, TypeOK
<1>2. worker' = [worker EXCEPT ![w] = Marked(worker[w], d, ok)]
  BY DEF Mark
<1>3. ItemsOK(worker[w].copy, deposit')
  BY ItemsAdvance DEF IInv, ReplicasOK, ReplicaOK
<1>4. /\ Marked(worker[w], d, ok) \in Replica
      /\ ReplicaOK(Marked(worker[w], d, ok), deposit', pos')
  BY <1>1, <1>3, MarkedOK
<1>5. QED
  BY <1>2, <1>4, WorkerMoves

-----------------------------------------------------------------------------
(* The books and the direction of every deposit, and the three kinds of    *)
(* step that touch them.                                                   *)
MoneyType ==
    /\ deposit \in [Deposits -> DepositStatus]
    /\ ledger \in [Deposits -> Seq(LedgerEvent)]
    /\ refund \in [Deposits -> {None, "pending", "completed"}]
    /\ pos \subseteq Deposits \X {"capture", "refund"}

MoneyInv == MoneyType /\ MoneyMatchesBooks /\ OneWay

MoneyGoesOn == MoneyInv' /\ Advance(deposit, pos, deposit', pos')

LEMMA MoneyStill ==
    ASSUME IInv, UNCHANGED money
    PROVE  MoneyGoesOn
BY DEF IInv, TypeOK, MoneyInv, MoneyType, MoneyMatchesBooks, OneWay, MoneyGoesOn,
       Advance, money

(* The provider acts on deposit d, for which there is a right time.        *)
LEMMA MoneyAtPos ==
    ASSUME IInv, NEW d \in Held, pos' = pos \cup {<<d, ActionOf(d)>>},
           UNCHANGED <<deposit, ledger, refund>>
    PROVE  MoneyGoesOn
<1>1. MoneyType'
  BY DEF IInv, TypeOK, MoneyType, ActionOf, Held
<1>2. OneWay'
  <2>1. ASSUME NEW e \in Deposits, NEW a \in {"capture", "refund"}, <<e, a>> \in pos'
        PROVE  a = ActionOf(e)
    BY <2>1 DEF IInv, OneWay
  <2>2. QED
    BY <2>1 DEF IInv, OneWay
<1>3. MoneyMatchesBooks'
  BY <1>2 DEF IInv, MoneyMatchesBooks, OneWay, ActionOf
<1>4. Advance(deposit, pos, deposit', pos')
  BY DEF Advance
<1>5. QED
  BY <1>1, <1>2, <1>3, <1>4 DEF MoneyGoesOn, MoneyInv

LEMMA AppendOne ==
    ASSUME NEW S, NEW x \in S, NEW e \in S
    PROVE  Append(<<>>, e) = <<e>> /\ Append(<<x>>, e) = <<x, e>>
<1>1. <<>> \in Seq(S) /\ <<x>> \in Seq(S)
  OBVIOUS
<1>2. /\ Append(<<>>, e) \in Seq(S) /\ Len(Append(<<>>, e)) = 1
      /\ Append(<<>>, e)[1] = e
      /\ Append(<<x>>, e) \in Seq(S) /\ Len(Append(<<x>>, e)) = 2
      /\ Append(<<x>>, e)[1] = x /\ Append(<<x>>, e)[2] = e
  BY <1>1, AppendProperties
<1>3. <<e>> \in Seq(S) /\ <<x, e>> \in Seq(S)
  OBVIOUS
<1>4. /\ Len(<<e>>) = 1 /\ <<e>>[1] = e
      /\ Len(<<x, e>>) = 2 /\ <<x, e>>[1] = x /\ <<x, e>>[2] = e
  OBVIOUS
<1>5. Append(<<>>, e) = <<e>>
  <2>1. \A i \in 1 .. 1 : Append(<<>>, e)[i] = <<e>>[i]
    BY <1>2, <1>4
  <2>2. QED
    BY <2>1, <1>2, <1>3, <1>4, SeqEqual
<1>6. Append(<<x>>, e) = <<x, e>>
  <2>1. \A i \in 1 .. 2 : Append(<<x>>, e)[i] = <<x, e>>[i]
    BY <1>2, <1>4
  <2>2. QED
    BY <2>1, <1>2, <1>3, <1>4, SeqEqual
<1>7. QED
  BY <1>5, <1>6

(* Deposit d goes from one status to the next, with its books.             *)
LEMMA MoneyAtDeposit ==
    ASSUME IInv, NEW d \in Held, NEW to, NEW e \in LedgerEvent,
           \/ deposit[d] = "held" /\ to = "captured" /\ d = Winner
              /\ e = "deposit_captured" /\ <<d, "capture">> \in pos
           \/ deposit[d] = "held" /\ to = "refund_pending" /\ d # Winner
              /\ e = "deposit_refund_initiated"
           \/ deposit[d] = "refund_pending" /\ to = "refunded" /\ d # Winner
              /\ e = "deposit_refunded" /\ <<d, "refund">> \in pos,
           deposit' = [deposit EXCEPT ![d] = to],
           ledger' = [ledger EXCEPT ![d] = Append(@, e)],
           refund' = [refund EXCEPT ![d] = RefundOf(to)],
           UNCHANGED pos
    PROVE  MoneyGoesOn
<1>1. d \in Deposits /\ d \notin Collected
  BY DEF Held
<1>2. to \in DepositStatus /\ RefundOf(to) \in {None, "pending", "completed"}
  BY DEF DepositStatus, RefundOf
<1>3. ledger[d] = LedgerOf(deposit[d])
  BY <1>1 DEF IInv, MoneyMatchesBooks
<1>4. ledger'[d] = LedgerOf(to)
  <2>1. ledger'[d] = Append(ledger[d], e)
    BY <1>1 DEF IInv, TypeOK
  <2>2. /\ Append(<<>>, e) = <<e>>
        /\ Append(<<"deposit_refund_initiated">>, e)
              = <<"deposit_refund_initiated", e>>
    BY AppendOne DEF LedgerEvent
  <2>3. CASE deposit[d] = "held" /\ to = "captured" /\ e = "deposit_captured"
    BY <2>1, <2>2, <2>3, <1>3 DEF LedgerOf
  <2>4. CASE deposit[d] = "held" /\ to = "refund_pending"
             /\ e = "deposit_refund_initiated"
    BY <2>1, <2>2, <2>4, <1>3 DEF LedgerOf
  <2>5. CASE deposit[d] = "refund_pending" /\ to = "refunded"
             /\ e = "deposit_refunded"
    BY <2>1, <2>2, <2>5, <1>3 DEF LedgerOf
  <2>6. QED
    BY <2>3, <2>4, <2>5
<1>5. ledger' \in [Deposits -> Seq(LedgerEvent)]
  <2>1. ledger[d] \in Seq(LedgerEvent)
    BY <1>1 DEF IInv, TypeOK
  <2>2. Append(ledger[d], e) \in Seq(LedgerEvent)
    BY <2>1, AppendProperties
  <2>3. QED
    BY <2>2 DEF IInv, TypeOK
<1>6. MoneyType'
  BY <1>2, <1>5 DEF IInv, TypeOK, MoneyType
<1>7. deposit'[d] = to /\ refund'[d] = RefundOf(to)
  BY <1>1 DEF IInv, TypeOK
<1>8. \A x \in Deposits : x # d => /\ deposit'[x] = deposit[x]
                                   /\ ledger'[x] = ledger[x]
                                   /\ refund'[x] = refund[x]
  BY DEF IInv, TypeOK
<1>9. MoneyMatchesBooks'
  <2>1. ASSUME NEW x \in Deposits
        PROVE  /\ ledger'[x] = LedgerOf(deposit'[x])
               /\ refund'[x] = RefundOf(deposit'[x])
               /\ deposit'[x] = "captured" => <<x, "capture">> \in pos'
               /\ deposit'[x] = "refunded" => <<x, "refund">> \in pos'
               /\ ~(<<x, "capture">> \in pos' /\ <<x, "refund">> \in pos')
    <3>1. CASE x = d
      <4>1. ~(<<d, "capture">> \in pos /\ <<d, "refund">> \in pos)
        BY <1>1 DEF IInv, MoneyMatchesBooks
      <4>2. QED
        BY <3>1, <4>1, <1>4, <1>7
    <3>2. CASE x # d
      BY <3>2, <1>8 DEF IInv, MoneyMatchesBooks
    <3>3. QED
      BY <3>1, <3>2
  <2>2. QED
    BY <2>1 DEF MoneyMatchesBooks
<1>10. OneWay'
  BY <1>1, <1>7, <1>8 DEF IInv, OneWay
<1>11. Advance(deposit, pos, deposit', pos')
  BY <1>1, <1>7, <1>8 DEF Advance, DoneStatus, Held
<1>12. QED
  BY <1>6, <1>9, <1>10, <1>11 DEF MoneyGoesOn, MoneyInv

-----------------------------------------------------------------------------
(* What a step leaves to be shown once the worker that moves and the money *)
(* are seen to.                                                            *)
Elsewhere ==
    /\ lock' \in Workers \cup {None}
    /\ expired' \in BOOLEAN
    /\ retried' \in {None, "accepted", "refused"}
    /\ faults' \in 0 .. MaxFaults /\ moves' \in 0 .. MaxMoves

(* The row and the auction stay as they are.                               *)
LEMMA QuietStep ==
    ASSUME IInv, MoneyGoesOn, Elsewhere, UNCHANGED <<auction, manifest, moves>>,
           NEW w \in Workers, NEW v \in Replica,
           worker' = [worker EXCEPT ![w] = v], ReplicaOK(v, deposit', pos'),
           manifest = None => v.copy = None /\ UNCHANGED deposit
    PROVE  IInv'
<1>1. worker' \in [Workers -> Replica] /\ ReplicasOK'
  BY WorkerMoves DEF MoneyGoesOn
<1>2. TypeOK'
  BY <1>1 DEF IInv, TypeOK, MoneyGoesOn, MoneyInv, MoneyType, Elsewhere
<1>3. ManifestOK'
  BY ItemsAdvance DEF IInv, ManifestOK, MoneyGoesOn
<1>4. NothingYet'
  <2>1. ASSUME manifest = None, NEW x \in Workers PROVE worker'[x].copy = None
    <3>1. worker'[x] = IF x = w THEN v ELSE worker[x]
      BY DEF IInv, TypeOK
    <3>2. QED
      BY <2>1, <3>1 DEF IInv, NothingYet
  <2>2. QED
    BY <2>1 DEF IInv, NothingYet
<1>5. SettledMeansPaid'
  BY DEF IInv, SettledMeansPaid, MoneyGoesOn, Advance, Decided
<1>6. QED
  BY <1>1, <1>2, <1>3, <1>4, <1>5 DEF IInv, MoneyGoesOn, MoneyInv

(* A worker only goes from one place to another.                           *)
LEMMA QuietGoto ==
    ASSUME IInv, MoneyGoesOn, Elsewhere, UNCHANGED <<auction, manifest, moves>>,
           NEW w \in Workers, NEW pc \in WorkerPc, Goto(w, pc),
           manifest = None => UNCHANGED deposit,
           ReplicaOK([worker[w] EXCEPT !.pc = pc], deposit', pos')
    PROVE  IInv'
<1>1. worker[w] \in Replica
  BY DEF IInv, TypeOK
<1>2. /\ [worker[w] EXCEPT !.pc = pc] \in Replica
      /\ [worker[w] EXCEPT !.pc = pc].copy = worker[w].copy
  BY <1>1 DEF Replica
<1>3. worker' = [worker EXCEPT ![w] = [worker[w] EXCEPT !.pc = pc]]
  BY DEF Goto
<1>4. manifest = None => worker[w].copy = None
  BY DEF IInv, NothingYet
<1>5. QED
  BY <1>2, <1>3, <1>4, QuietStep

LEMMA QuietMark ==
    ASSUME IInv, MoneyGoesOn, Elsewhere, UNCHANGED <<auction, manifest, moves>>,
           NEW w \in Workers, NEW d \in Held, NEW ok \in BOOLEAN, Mark(w, d, ok),
           worker[w].copy # None, worker[w].left > 0,
           worker[w].copy.items[d].retries < MaxRetries,
           ok => deposit'[d] = DoneStatus(d)
    PROVE  IInv'
<1>1. worker' \in [Workers -> Replica] /\ ReplicasOK'
  BY MarkMoves DEF MoneyGoesOn
<1>2. TypeOK'
  BY <1>1 DEF IInv, TypeOK, MoneyGoesOn, MoneyInv, MoneyType, Elsewhere
<1>3. ManifestOK'
  BY ItemsAdvance DEF IInv, ManifestOK, MoneyGoesOn
<1>4. NothingYet'
  BY DEF IInv, NothingYet
<1>5. SettledMeansPaid'
  BY DEF IInv, SettledMeansPaid, MoneyGoesOn, Advance, Decided
<1>6. QED
  BY <1>1, <1>2, <1>3, <1>4, <1>5 DEF IInv, MoneyGoesOn, MoneyInv

(* A worker goes home.                                                     *)
LEMMA QuietRest ==
    ASSUME IInv, UNCHANGED money, Elsewhere, UNCHANGED <<auction, manifest, moves>>,
           NEW w \in Workers, Rest(w)
    PROVE  IInv'
<1>1. MoneyGoesOn
  BY MoneyStill
<1>2. IdleWorker \in Replica /\ IdleWorker.copy = None
  BY SettlementAssumption DEF IdleWorker, Replica, WorkerPc
<1>3. ReplicaOK(IdleWorker, deposit', pos')
  BY DEF IdleWorker, ReplicaOK
<1>4. QED
  BY <1>1, <1>2, <1>3, QuietStep DEF Rest, money

(* The row becomes m, and the auction is settled only if all is decided.   *)
LEMMA RowStep ==
    ASSUME IInv, UNCHANGED money, Elsewhere, UNCHANGED moves,
           auction' \in {"ended", "settling", "settled", "settlement_failed"},
           auction' = "settled" => auction = "settled" \/ \A d \in Held : Decided(d),
           manifest' \in Manifest(Held), ItemsOK(manifest', deposit),
           NEW w \in Workers, NEW v \in Replica,
           worker' = [worker EXCEPT ![w] = v], ReplicaOK(v, deposit', pos')
    PROVE  IInv'
<1>1. MoneyGoesOn
  BY MoneyStill
<1>2. worker' \in [Workers -> Replica] /\ ReplicasOK'
  BY <1>1, WorkerMoves DEF MoneyGoesOn
<1>3. TypeOK'
  BY <1>1, <1>2 DEF TypeOK, MoneyGoesOn, MoneyInv, MoneyType, Elsewhere
<1>4. ManifestOK' /\ NothingYet'
  BY NoManifestAssumption DEF ManifestOK, NothingYet, money
<1>5. SettledMeansPaid'
  BY DEF IInv, SettledMeansPaid, Decided, money
<1>6. QED
  BY <1>1, <1>2, <1>3, <1>4, <1>5 DEF IInv, MoneyGoesOn, MoneyInv

(* No worker and no money moves.                                           *)
LEMMA StillStep ==
    ASSUME IInv, UNCHANGED <<money, worker, manifest>>, Elsewhere,
           auction' \in {"ended", "settling", "settled", "settlement_failed"},
           (auction' = auction /\ moves' = moves) \/ moves' > 0
    PROVE  IInv'
<1>1. MoneyGoesOn
  BY MoneyStill DEF money
<1>2. TypeOK'
  BY <1>1 DEF IInv, TypeOK, MoneyGoesOn, MoneyInv, MoneyType, Elsewhere
<1>3. ReplicasOK' /\ ManifestOK' /\ NothingYet'
  BY DEF IInv, ReplicasOK, ManifestOK, NothingYet, money
<1>4. SettledMeansPaid'
  <2>1. CASE auction' = auction /\ moves' = moves
    BY <2>1 DEF IInv, SettledMeansPaid, Decided, money
  <2>2. CASE moves' > 0
    BY <2>2 DEF SettledMeansPaid
  <2>3. QED
    BY <2>1, <2>2
<1>5. QED
  BY <1>1, <1>2, <1>3, <1>4 DEF IInv, MoneyGoesOn, MoneyInv

-----------------------------------------------------------------------------
(* The tick's first query.                                                 *)

LEMMA Unmoved ==
    ASSUME IInv, UNCHANGED <<lock, expired, retried, faults, moves>>
    PROVE  Elsewhere
BY DEF IInv, TypeOK, Elsewhere

LEMMA FindEndedKeeps ==
    ASSUME IInv, NEW w \in Workers, FindEnded(w) PROVE IInv'
<1>1. ReplicaOK([worker[w] EXCEPT !.pc = "found"], deposit', pos')
  BY DEF FindEnded, money, IInv, TypeOK, Replica, ReplicasOK, ReplicaOK
<1>2. MoneyGoesOn /\ Elsewhere
  BY MoneyStill, Unmoved DEF FindEnded
<1>3. QED
  BY <1>1, <1>2, QuietGoto DEF FindEnded, WorkerPc, money

LEMMA LockToInitiateKeeps ==
    ASSUME IInv, NEW w \in Workers, LockToInitiate(w) PROVE IInv'
<1>1. MoneyGoesOn /\ Elsewhere
  BY MoneyStill DEF LockToInitiate, IInv, TypeOK, Elsewhere
<1>2. CASE Goto(w, "initiating")
  <2>1. ReplicaOK([worker[w] EXCEPT !.pc = "initiating"], deposit', pos')
    BY DEF LockToInitiate, money, IInv, TypeOK, Replica, ReplicasOK, ReplicaOK
  <2>2. QED
    BY <1>1, <1>2, <2>1, QuietGoto DEF LockToInitiate, WorkerPc, money
<1>3. CASE Rest(w)
  BY <1>1, <1>3, QuietRest DEF LockToInitiate
<1>4. QED
  BY <1>2, <1>3 DEF LockToInitiate

(* The first manifest lists everything that is held, and that is Held.     *)
LEMMA FirstManifest ==
    ASSUME IInv, NEW w \in Workers, Initiate(w), auction = "ended", manifest = None
    PROVE  /\ manifest' \in Manifest(Held) /\ manifest' # None
           /\ manifest'.status = "active"
           /\ \A d \in Held : manifest'.items[d] = [status |-> "pending", retries |-> 0]
<1> DEFINE listed == {d \in Deposits : deposit[d] = "held"}
           fresh(o) == [status |-> "active", oversized |-> o,
                        items |-> [d \in listed |->
                                      [status |-> "pending", retries |-> 0]]]
<1>1. PICK o \in {FALSE, MayBeOversized} : manifest' = fresh(o)
  BY DEF Initiate
<1>2. listed = Held
  <2>1. \A d \in Held : deposit[d] = "held"
    BY DEF IInv, NothingYet
  <2>2. QED
    BY <2>1 DEF IInv, OneWay, Held
<1>3. [status |-> "pending", retries |-> 0] \in Item
  BY SettlementAssumption DEF Item
<1>4. o \in BOOLEAN
  BY SettlementAssumption
<1>5. manifest' = [status |-> "active", oversized |-> o,
                   items |-> [d \in Held |-> [status |-> "pending", retries |-> 0]]]
  BY <1>1, <1>2
<1>6. manifest' \in Manifest(Held)
  BY <1>3, <1>4, <1>5 DEF Manifest
<1>7. QED
  BY <1>5, <1>6, NoManifestAssumption

LEMMA InitiateKeeps ==
    ASSUME IInv, NEW w \in Workers, Initiate(w) PROVE IInv'
<1> DEFINE listed == {d \in Deposits : deposit[d] = "held"}
           pc == IF listed = {} THEN "working" ELSE "release"
           copy == IF listed = {} THEN manifest' ELSE None
           v == [worker[w] EXCEPT !.pc = pc, !.copy = copy]
<1>1. Elsewhere
  BY Unmoved DEF Initiate
<1>2. CASE auction = "ended" /\ manifest = None
  <2>1. /\ manifest' \in Manifest(Held) /\ manifest' # None
        /\ \A d \in Held : manifest'.items[d] = [status |-> "pending", retries |-> 0]
    BY <1>2, FirstManifest
  <2>2. ItemsOK(manifest', deposit)
    BY <2>1, SettlementAssumption DEF ItemsOK
  <2>3. worker[w] \in Replica
    BY DEF IInv, TypeOK
  <2>4. v \in Replica /\ v.pc = pc /\ v.copy = copy
    BY <2>1, <2>3 DEF Replica, WorkerPc
  <2>5. ReplicaOK(v, deposit', pos')
    <3> HIDE DEF v
    <3>1. QED
      BY <2>1, <2>2, <2>4 DEF ReplicaOK, Initiate, money
  <2>6. /\ worker' = [worker EXCEPT ![w] = v]
        /\ auction' = "settling"
    BY <1>2 DEF Initiate
  <2>7. QED
    BY <1>1, <2>1, <2>2, <2>4, <2>5, <2>6, RowStep DEF Initiate
<1>3. CASE Goto(w, "release") /\ UNCHANGED <<auction, manifest>>
  <2>1. ReplicaOK([worker[w] EXCEPT !.pc = "release"], deposit', pos')
    BY DEF Initiate, money, IInv, TypeOK, Replica, ReplicasOK, ReplicaOK
  <2>2. QED
    BY <1>1, <1>3, <2>1, MoneyStill, QuietGoto DEF Initiate, WorkerPc, money
<1>4. QED
  BY <1>2, <1>3 DEF Initiate

-----------------------------------------------------------------------------
(* The pass over a manifest.                                               *)

LEMMA LoadKeeps ==
    ASSUME IInv, NEW w \in Workers, Load(w) PROVE IInv'
<1> DEFINE v == [worker[w] EXCEPT !.pc = "loaded", !.copy = manifest]
<1>1. worker[w] \in Replica /\ manifest \in Manifest(Held) \cup {None}
  BY DEF IInv, TypeOK
<1>2. v \in Replica /\ v.pc = "loaded" /\ v.copy = manifest
  BY <1>1 DEF Replica, WorkerPc
<1>3. ReplicaOK(v, deposit', pos')
  <2> HIDE DEF v
  <2>1. QED
    BY <1>2 DEF ReplicaOK, IInv, ManifestOK, Load, money
<1>4. MoneyGoesOn /\ Elsewhere
  BY MoneyStill, Unmoved DEF Load
<1>5. worker' = [worker EXCEPT ![w] = v]
  BY DEF Load
<1>6. QED
  BY <1>2, <1>3, <1>4, <1>5, QuietStep DEF Load

LEMMA LockToProcessKeeps ==
    ASSUME IInv, NEW w \in Workers, LockToProcess(w) PROVE IInv'
<1>1. MoneyGoesOn /\ Elsewhere
  BY MoneyStill DEF LockToProcess, IInv, TypeOK, Elsewhere
<1>2. CASE lock = None
  <2> DEFINE pc == IF expired \/ Copy(w).oversized THEN "givingup" ELSE "working"
             v == [worker[w] EXCEPT !.pc = pc, !.todo = DOMAIN Copy(w).items,
                                    !.left = ItemsPerTick]
  <2>1. worker[w] \in Replica /\ ReplicaOK(worker[w], deposit, pos)
    BY DEF IInv, TypeOK, ReplicasOK
  <2>2. Copy(w) # None /\ Copy(w) \in Manifest(Held)
    BY <2>1 DEF LockToProcess, ReplicaOK, Replica, Copy
  <2>3. DOMAIN Copy(w).items = Held
    BY <2>2 DEF Manifest
  <2>4. /\ v \in Replica /\ v.copy = worker[w].copy
        /\ v.pc = pc
    <3>1. ItemsPerTick \in 0 .. ItemsPerTick /\ pc \in WorkerPc
      BY SettlementAssumption DEF WorkerPc
    <3> HIDE DEF pc
    <3>2. QED
      BY <2>1, <2>3, <3>1 DEF Replica
  <2>5. ReplicaOK(v, deposit', pos')
    <3>1. v.pc \in {"givingup", "working"}
      BY <2>4
    <3> HIDE DEF v
    <3>2. QED
      BY <2>1, <2>2, <2>4, <3>1 DEF ReplicaOK, Copy, LockToProcess, money
  <2>6. worker' = [worker EXCEPT ![w] = v]
    BY <1>2 DEF LockToProcess
  <2>7. manifest = None => v.copy = None
    BY <2>4 DEF IInv, NothingYet
  <2>8. QED
    BY <1>1, <2>4, <2>5, <2>6, <2>7, QuietStep DEF LockToProcess, money
<1>3. CASE Rest(w)
  BY <1>1, <1>3, QuietRest DEF LockToProcess
<1>4. QED
  BY <1>2, <1>3 DEF LockToProcess

(* The row becomes the worker's copy, with another status.                 *)
LEMMA CopyAsRow ==
    ASSUME IInv, NEW w \in Workers, Copy(w) # None
    PROVE  /\ Copy(w) \in Manifest(Held) /\ ItemsOK(Copy(w), deposit)
           /\ \A s \in {"active", "completed", "expired", "escalated"} :
                 /\ [Copy(w) EXCEPT !.status = s] \in Manifest(Held)
                 /\ ItemsOK([Copy(w) EXCEPT !.status = s], deposit)
<1>1. Copy(w) \in Manifest(Held) /\ ItemsOK(Copy(w), deposit)
  BY DEF IInv, TypeOK, Replica, ReplicasOK, ReplicaOK, Copy
<1>2. ASSUME NEW s \in {"active", "completed", "expired", "escalated"}
      PROVE  /\ [Copy(w) EXCEPT !.status = s] \in Manifest(Held)
             /\ [Copy(w) EXCEPT !.status = s].items = Copy(w).items
  BY <1>1 DEF Manifest
<1>3. QED
  BY <1>1, <1>2 DEF ItemsOK

LEMMA GiveUpKeeps ==
    ASSUME IInv, NEW w \in Workers, GiveUp(w) PROVE IInv'
<1> DEFINE v == [worker[w] EXCEPT !.pc = "release"]
<1>1. Copy(w) # None
  BY DEF IInv, ReplicasOK, ReplicaOK, GiveUp, Copy
<1>2. manifest' \in Manifest(Held) /\ ItemsOK(manifest', deposit)
  BY <1>1, CopyAsRow DEF GiveUp
<1>3. v \in Replica /\ ReplicaOK(v, deposit', pos')
  BY DEF GiveUp, money, IInv, TypeOK, Replica, WorkerPc, ReplicasOK, ReplicaOK
<1>4. auction' \in {"ended", "settling", "settled", "settlement_failed"}
      /\ (auction' = "settled" => auction = "settled")
  BY DEF GiveUp, IInv, TypeOK
<1>5. worker' = [worker EXCEPT ![w] = v]
  BY DEF GiveUp, Goto
<1>6. Elsewhere
  BY Unmoved DEF GiveUp
<1>7. QED
  BY <1>2, <1>3, <1>4, <1>5, <1>6, RowStep DEF GiveUp

-----------------------------------------------------------------------------
(* One item.                                                               *)

(* An item the loop comes to has a retry left.                             *)
LEMMA WorkableItem ==
    ASSUME IInv, NEW w \in Workers, worker[w].pc = "working", NEW d \in Workable(w)
    PROVE  d \in Held /\ Copy(w) # None /\ Copy(w).items[d].retries < MaxRetries
<1>1. worker[w] \in Replica /\ ReplicaOK(worker[w], deposit, pos)
  BY DEF IInv, TypeOK, ReplicasOK
<1>2. d \in Held
  BY <1>1 DEF Workable, Replica
<1>3. Copy(w) # None /\ ItemsOK(Copy(w), deposit)
  BY <1>1 DEF ReplicaOK, Copy
<1>4. Copy(w).items[d].retries < MaxRetries
  BY <1>2, <1>3 DEF ItemsOK, Workable
<1>5. QED
  BY <1>2, <1>3, <1>4

(* A worker at an item of its copy, not marked yet.                        *)
LEMMA AtItem ==
    ASSUME IInv, NEW w \in Workers,
           worker[w].pc \in {"refunding", "calling", "recording"}
    PROVE  /\ ItemOf(w) \in Held /\ worker[w].left > 0
           /\ worker[w].copy # None
           /\ worker[w].copy.items[ItemOf(w)].retries < MaxRetries
           /\ manifest # None
           /\ worker[w].pc = "refunding" => ItemOf(w) # Winner
           /\ worker[w].pc \in {"calling", "recording"} /\ ItemOf(w) # Winner =>
                 deposit[ItemOf(w)] \in {"refund_pending", "refunded"}
           /\ worker[w].pc = "recording" => <<ItemOf(w), ActionOf(ItemOf(w))>> \in pos
BY DEF IInv, ReplicasOK, ReplicaOK, NothingYet, ItemOf

LEMMA VisitKeeps ==
    ASSUME IInv, NEW w \in Workers, Visit(w) PROVE IInv'
<1>1. MoneyGoesOn /\ Elsewhere
  BY MoneyStill, Unmoved DEF Visit
<1>2. PICK d \in Workable(w) :
          \/ deposit[d] = DoneStatus(d) /\ Mark(w, d, TRUE)
          \/ /\ deposit[d] = ReadyStatus(d)
             /\ worker' = [worker EXCEPT ![w].pc = "calling", ![w].item = d]
          \/ /\ deposit[d] = "held" /\ d # Winner
             /\ worker' = [worker EXCEPT ![w].pc = "refunding", ![w].item = d]
  BY DEF Visit
<1>3. d \in Held /\ Copy(w) # None /\ Copy(w).items[d].retries < MaxRetries
  BY WorkableItem DEF Visit
<1>4. worker[w] \in Replica /\ ReplicaOK(worker[w], deposit, pos)
  BY DEF IInv, TypeOK, ReplicasOK
<1>5. CASE deposit[d] = DoneStatus(d) /\ Mark(w, d, TRUE)
  BY <1>1, <1>3, <1>5, QuietMark DEF Visit, Copy, money
<1>6. ASSUME NEW pc \in {"calling", "refunding"},
             pc = "refunding" => d # Winner,
             pc = "calling" => deposit[d] = ReadyStatus(d),
             worker' = [worker EXCEPT ![w].pc = pc, ![w].item = d]
      PROVE  IInv'
  <2> DEFINE v == [worker[w] EXCEPT !.pc = pc, !.item = d]
  <2>1. /\ v \in Replica /\ v.copy = worker[w].copy
        /\ v.pc = pc /\ v.item = d /\ v.left = worker[w].left
    BY <1>3, <1>4 DEF Replica, WorkerPc
  <2>2. worker' = [worker EXCEPT ![w] = v]
    BY <1>6
  <2>3. ReplicaOK(v, deposit', pos')
    <3> HIDE DEF v
    <3>1. ItemsOK(v.copy, deposit) /\ v.copy # None
      BY <1>3, <1>4, <2>1 DEF ReplicaOK, Copy
    <3>2. v.copy.items[v.item].retries < MaxRetries
      BY <1>3, <2>1 DEF Copy
    <3>3. pc = "calling" /\ d # Winner => deposit[d] \in {"refund_pending", "refunded"}
      BY <1>6 DEF ReadyStatus
    <3>4. QED
      BY <1>3, <1>6, <2>1, <3>1, <3>2, <3>3 DEF ReplicaOK, Visit, money
  <2>4. manifest = None => v.copy = None
    BY <2>1 DEF IInv, NothingYet
  <2>5. QED
    BY <1>1, <2>1, <2>2, <2>3, <2>4, QuietStep DEF Visit, money
<1>7. QED
  BY <1>2, <1>5, <1>6

LEMMA InitiateRefundKeeps ==
    ASSUME IInv, NEW w \in Workers, InitiateRefund(w) PROVE IInv'
<1> DEFINE d == ItemOf(w)
           v == [worker[w] EXCEPT !.pc = "calling"]
<1>1. worker[w].pc = "refunding"
  BY DEF InitiateRefund
<1>2. /\ d \in Held /\ worker[w].left > 0 /\ worker[w].copy # None
      /\ worker[w].copy.items[d].retries < MaxRetries /\ manifest # None
      /\ d # Winner
  BY <1>1, AtItem
<1>3. Elsewhere
  BY Unmoved DEF InitiateRefund
<1>4. worker[w] \in Replica /\ ReplicaOK(worker[w], deposit, pos)
  BY DEF IInv, TypeOK, ReplicasOK
<1>5. ASSUME MoneyGoesOn, deposit'[d] \in {"refund_pending", "refunded"},
             Goto(w, "calling")
      PROVE  IInv'
  <2>1. ReplicaOK(worker[w], deposit', pos')
    BY <1>4, <1>5, ReplicaAdvance DEF MoneyGoesOn
  <2>2. /\ v.copy = worker[w].copy /\ v.item = d
        /\ v.left = worker[w].left /\ v.pc = "calling"
    BY <1>4 DEF Replica, ItemOf
  <2>3. ReplicaOK(v, deposit', pos')
    <3> HIDE DEF v, d
    <3>1. QED
      BY <1>2, <1>5, <2>1, <2>2 DEF ReplicaOK
  <2>4. "calling" \in WorkerPc
    BY DEF WorkerPc
  <2>5. QED
    BY <1>2, <1>3, <1>5, <2>3, <2>4, QuietGoto DEF InitiateRefund
<1>6. CASE /\ deposit[d] = "held"
           /\ deposit' = [deposit EXCEPT ![d] = "refund_pending"]
           /\ ledger' = [ledger EXCEPT ![d] = Append(@, "deposit_refund_initiated")]
           /\ refund' = [refund EXCEPT ![d] = "pending"]
           /\ Goto(w, "calling")
  <2>1. RefundOf("refund_pending") = "pending"
    BY DEF RefundOf
  <2>2. MoneyGoesOn
    <3> HIDE DEF d
    <3>1. QED
      BY <1>2, <1>6, <2>1, MoneyAtDeposit DEF InitiateRefund, LedgerEvent
  <2>3. deposit'[d] = "refund_pending"
    BY <1>2, <1>6 DEF IInv, TypeOK, Held
  <2>4. QED
    BY <1>5, <1>6, <2>2, <2>3
<1>7. CASE /\ deposit[d] = "refund_pending" /\ Goto(w, "calling")
           /\ UNCHANGED <<deposit, ledger, refund>>
  <2>1. MoneyGoesOn
    BY <1>7, MoneyStill DEF InitiateRefund, money
  <2>2. QED
    BY <1>5, <1>7, <2>1
<1>8. CASE /\ deposit[d] = "refunded" /\ Mark(w, d, TRUE)
           /\ UNCHANGED <<deposit, ledger, refund>>
  <2>1. MoneyGoesOn
    BY <1>8, MoneyStill DEF InitiateRefund, money
  <2>2. deposit'[d] = DoneStatus(d)
    BY <1>2, <1>8 DEF DoneStatus
  <2>3. QED
    BY <1>2, <1>3, <1>8, <2>1, <2>2, QuietMark DEF InitiateRefund
<1>9. QED
  BY <1>6, <1>7, <1>8 DEF InitiateRefund

LEMMA CallPosKeeps ==
    ASSUME IInv, NEW w \in Workers, CallPos(w) PROVE IInv'
<1> DEFINE d == ItemOf(w)
           done == pos \cup {<<d, ActionOf(d)>>}
           v == [worker[w] EXCEPT !.pc = "recording"]
<1>1. worker[w].pc = "calling"
  BY DEF CallPos
<1>2. /\ d \in Held /\ worker[w].left > 0 /\ worker[w].copy # None
      /\ worker[w].copy.items[d].retries < MaxRetries /\ manifest # None
  BY <1>1, AtItem
<1>3. Elsewhere
  BY Unmoved DEF CallPos
<1>4. worker[w] \in Replica /\ ReplicaOK(worker[w], deposit, pos)
  BY DEF IInv, TypeOK, ReplicasOK
<1>5. pos' \in {pos, done}
  BY DEF CallPos
<1>6. MoneyGoesOn
  <2>1. CASE pos' = done
    <3> HIDE DEF d
    <3>1. QED
      BY <1>2, <2>1, MoneyAtPos DEF CallPos
  <2>2. CASE pos' = pos
    BY <2>2, MoneyStill DEF CallPos, money
  <2>3. QED
    BY <1>5, <2>1, <2>2
<1>7. CASE pos' = done /\ Goto(w, "recording")
  <2>1. ReplicaOK(worker[w], deposit', pos')
    BY <1>4, <1>6, ReplicaAdvance DEF MoneyGoesOn
  <2>2. /\ v.copy = worker[w].copy /\ v.item = d
        /\ v.left = worker[w].left /\ v.pc = "recording"
    BY <1>4 DEF Replica, ItemOf
  <2>3. <<d, ActionOf(d)>> \in pos'
    BY <1>7
  <2>4. worker[w].item = d
    BY DEF ItemOf
  <2>5. ReplicaOK(v, deposit', pos')
    <3> HIDE DEF v, d
    <3>1. QED
      BY <1>1, <1>2, <2>1, <2>2, <2>3, <2>4 DEF ReplicaOK
  <2>6. "recording" \in WorkerPc
    BY DEF WorkerPc
  <2>7. QED
    BY <1>2, <1>3, <1>6, <1>7, <2>5, <2>6, QuietGoto DEF CallPos
<1>8. CASE Mark(w, d, FALSE)
  BY <1>2, <1>3, <1>6, <1>8, QuietMark DEF CallPos
<1>9. CASE deposit[d] = DoneStatus(d) /\ Mark(w, d, TRUE)
  BY <1>2, <1>3, <1>6, <1>9, QuietMark DEF CallPos
<1>10. QED
  BY <1>7, <1>8, <1>9 DEF CallPos

(* A deposit that is not where the worker left it has reached its end.     *)
LEMMA RecordKeeps ==
    ASSUME IInv, NEW w \in Workers, Record(w) PROVE IInv'
<1> DEFINE d == ItemOf(w)
           e == IF d = Winner THEN "deposit_captured" ELSE "deposit_refunded"
<1>1. worker[w].pc = "recording"
  BY DEF Record
<1>2. /\ d \in Held /\ worker[w].left > 0 /\ worker[w].copy # None
      /\ worker[w].copy.items[d].retries < MaxRetries /\ manifest # None
      /\ d # Winner => deposit[d] \in {"refund_pending", "refunded"}
      /\ <<d, ActionOf(d)>> \in pos
  BY <1>1, AtItem
<1>3. Elsewhere
  BY Unmoved DEF Record
<1>4. d \in Deposits /\ d \notin Collected
  BY <1>2 DEF Held
<1>5. CASE /\ deposit[d] = ReadyStatus(d)
           /\ deposit' = [deposit EXCEPT ![d] = DoneStatus(d)]
           /\ ledger' = [ledger EXCEPT ![d] = Append(@, e)]
           /\ refund' = [refund EXCEPT ![d] = IF d = Winner THEN @ ELSE "completed"]
  <2>1. refund[d] = RefundOf(deposit[d])
    BY <1>4 DEF IInv, MoneyMatchesBooks
  <2>2. refund' = [refund EXCEPT ![d] = RefundOf(DoneStatus(d))]
    BY <1>5, <2>1 DEF RefundOf, DoneStatus, ReadyStatus
  <2>3. e \in LedgerEvent
    BY DEF LedgerEvent
  <2>4. MoneyGoesOn
    <3>1. CASE d = Winner
      <4> HIDE DEF d
      <4>1. QED
        BY <1>2, <1>5, <2>2, <2>3, <3>1, MoneyAtDeposit
        DEF Record, ReadyStatus, DoneStatus, ActionOf
    <3>2. CASE d # Winner
      <4> HIDE DEF d
      <4>1. QED
        BY <1>2, <1>5, <2>2, <2>3, <3>2, MoneyAtDeposit
        DEF Record, ReadyStatus, DoneStatus, ActionOf
    <3>3. QED
      BY <3>1, <3>2
  <2>5. deposit'[d] = DoneStatus(d)
    BY <1>4, <1>5 DEF IInv, TypeOK
  <2>6. QED
    BY <1>2, <1>3, <2>4, <2>5, QuietMark DEF Record
<1>6. CASE deposit[d] # ReadyStatus(d) /\ UNCHANGED <<deposit, ledger, refund>>
  <2>1. MoneyGoesOn
    BY <1>6, MoneyStill DEF Record, money
  <2>2. deposit[d] = DoneStatus(d)
    BY <1>2, <1>4, <1>6
    DEF DoneStatus, ReadyStatus, DepositStatus, IInv, TypeOK, OneWay
  <2>3. QED
    BY <1>2, <1>3, <1>6, <2>1, <2>2, QuietMark DEF Record
<1>7. QED
  BY <1>5, <1>6 DEF Record

LEMMA RecordFailsKeeps ==
    ASSUME IInv, NEW w \in Workers, RecordFails(w) PROVE IInv'
<1> DEFINE d == ItemOf(w)
<1>1. worker[w].pc = "recording"
  BY DEF RecordFails
<1>2. /\ d \in Held /\ worker[w].left > 0 /\ worker[w].copy # None
      /\ worker[w].copy.items[d].retries < MaxRetries
  BY <1>1, AtItem
<1>3. MoneyGoesOn
  BY MoneyStill DEF RecordFails
<1>4. Elsewhere
  BY SettlementAssumption DEF RecordFails, IInv, TypeOK, Elsewhere
<1>5. (deposit[d] = DoneStatus(d)) \in BOOLEAN
  OBVIOUS
<1>6. Mark(w, d, deposit[d] = DoneStatus(d))
  BY DEF RecordFails
<1>7. (deposit[d] = DoneStatus(d)) => deposit'[d] = DoneStatus(d)
  BY DEF RecordFails, money
<1>8. QED
  BY <1>2, <1>3, <1>4, <1>5, <1>6, <1>7, QuietMark DEF RecordFails

-----------------------------------------------------------------------------
(* Saving, finishing and failing.                                          *)

LEMMA SaveItemKeeps ==
    ASSUME IInv, NEW w \in Workers, SaveItem(w) PROVE IInv'
<1> DEFINE v == [worker[w] EXCEPT !.pc = "working", !.left = worker[w].left - 1,
                                  !.todo = worker[w].todo \ {ItemOf(w)},
                                  !.item = None]
<1>1. worker[w] \in Replica /\ ReplicaOK(worker[w], deposit, pos)
  BY DEF IInv, TypeOK, ReplicasOK
<1>2. worker[w].left > 0 /\ Copy(w) # None
  BY <1>1 DEF SaveItem, ReplicaOK, Copy
<1>3. worker[w].left - 1 \in 0 .. ItemsPerTick
  BY <1>1, <1>2, SettlementAssumption DEF Replica
<1>4. v \in Replica /\ v.pc = "working" /\ v.copy = worker[w].copy
  BY <1>1, <1>3 DEF Replica, WorkerPc
<1>5. ReplicaOK(v, deposit', pos')
  <2> HIDE DEF v
  <2>1. QED
    BY <1>1, <1>2, <1>4 DEF ReplicaOK, SaveItem, money, Copy
<1>6. manifest' \in Manifest(Held) /\ ItemsOK(manifest', deposit)
  BY <1>2, CopyAsRow DEF SaveItem
<1>7. worker' = [worker EXCEPT ![w] = v]
  BY DEF SaveItem
<1>8. Elsewhere /\ auction' = auction
      /\ auction \in {"ended", "settling", "settled", "settlement_failed"}
  BY Unmoved DEF SaveItem, IInv, TypeOK
<1>9. QED
  BY <1>4, <1>5, <1>6, <1>7, <1>8, RowStep DEF SaveItem

(* The auction is settled only on a copy whose every item is acknowledged, *)
(* and an acknowledgement is never wrong.                                  *)
LEMMA FinalizeKeeps ==
    ASSUME IInv, NEW w \in Workers, Finalize(w) PROVE IInv'
<1> DEFINE v == [worker[w] EXCEPT !.pc = "release"]
<1>1. worker[w] \in Replica /\ ReplicaOK(worker[w], deposit, pos)
  BY DEF IInv, TypeOK, ReplicasOK
<1>2. Copy(w) # None /\ manifest # None
  BY <1>1 DEF Finalize, ReplicaOK, Copy, IInv, NothingYet
<1>3. v \in Replica /\ v.pc = "release" /\ v.copy = worker[w].copy
  BY <1>1 DEF Replica, WorkerPc
<1>4. ReplicaOK(v, deposit', pos')
  <2> HIDE DEF v
  <2>1. QED
    BY <1>1, <1>3 DEF ReplicaOK, Finalize, money
<1>5. manifest' \in Manifest(Held) /\ ItemsOK(manifest', deposit)
  <2>1. manifest \in Manifest(Held) /\ ItemsOK(manifest, deposit)
    BY <1>2 DEF IInv, TypeOK, ManifestOK
  <2>2. QED
    BY <1>2, <2>1, CopyAsRow DEF Finalize
<1>6. AllAcknowledged(Copy(w)) => \A d \in Held : Decided(d)
  <2>1. DOMAIN Copy(w).items = Held
    BY <1>1, <1>2 DEF Replica, Manifest, Copy
  <2>2. QED
    BY <1>1, <1>2, <2>1 DEF AllAcknowledged, ReplicaOK, ItemsOK, Copy, Decided
<1>7. /\ auction' \in {"ended", "settling", "settled", "settlement_failed"}
      /\ auction' = "settled" => auction = "settled" \/ \A d \in Held : Decided(d)
  BY <1>6 DEF Finalize, IInv, TypeOK
<1>8. worker' = [worker EXCEPT ![w] = v] /\ Elsewhere
  BY Unmoved DEF Finalize, Goto
<1>9. QED
  BY <1>3, <1>4, <1>5, <1>7, <1>8, RowStep DEF Finalize

LEMMA ReleaseKeeps ==
    ASSUME IInv, NEW w \in Workers, Release(w) PROVE IInv'
<1>1. Elsewhere
  BY DEF Release, IInv, TypeOK, Elsewhere
<1>2. QED
  BY <1>1, QuietRest DEF Release

LEMMA AbortKeeps ==
    ASSUME IInv, NEW w \in Workers, Abort(w) PROVE IInv'
<1>1. Elsewhere
  BY SettlementAssumption DEF Abort, IInv, TypeOK, Elsewhere
<1>2. ReplicaOK([worker[w] EXCEPT !.pc = "release"], deposit', pos')
  BY DEF Abort, money, IInv, TypeOK, Replica, ReplicasOK, ReplicaOK
<1>3. QED
  BY <1>1, <1>2, MoneyStill, QuietGoto DEF Abort, WorkerPc, money

LEMMA DieKeeps ==
    ASSUME IInv, NEW w \in Workers, Die(w) PROVE IInv'
<1>1. Elsewhere
  BY SettlementAssumption DEF Die, IInv, TypeOK, Elsewhere
<1>2. QED
  BY <1>1, QuietRest DEF Die

LEMMA OthersKeep ==
    ASSUME IInv, ExpireLock \/ HoursPass \/ MoveStatus \/ Retry PROVE IInv'
<1>1. CASE ExpireLock
  BY <1>1, StillStep DEF ExpireLock, IInv, TypeOK, Elsewhere
<1>2. CASE HoursPass
  BY <1>2, StillStep DEF HoursPass, IInv, TypeOK, Elsewhere
<1>3. CASE MoveStatus
  <2>1. moves' \in 0 .. MaxMoves /\ moves' > 0
    BY <1>3, SettlementAssumption DEF MoveStatus, IInv, TypeOK
  <2>2. QED
    BY <1>3, <2>1, StillStep DEF MoveStatus, IInv, TypeOK, Elsewhere
<1>4. CASE Retry
  <2>1. moves' \in 0 .. MaxMoves /\ moves' > 0
    BY <1>4, SettlementAssumption DEF Retry, IInv, TypeOK
  <2>2. <<"settlement_failed", "settling">> \notin StatusMoves
    BY DEF StatusMoves
  <2>3. retried' = "refused" /\ auction' = auction /\ manifest' = manifest
    BY <1>4, <2>2 DEF Retry
  <2>4. QED
    BY <1>4, <2>1, <2>3, StillStep DEF Retry, IInv, TypeOK, Elsewhere
<1>5. QED
  BY <1>1, <1>2, <1>3, <1>4

-----------------------------------------------------------------------------
LEMMA InitHolds ==
    ASSUME Init PROVE IInv
<1>1. IdleWorker \in Replica /\ IdleWorker.copy = None
  BY SettlementAssumption DEF IdleWorker, Replica, WorkerPc
<1>2. ReplicaOK(IdleWorker, deposit, pos)
  BY DEF IdleWorker, ReplicaOK
<1>3. TypeOK
  <2>1. deposit \in [Deposits -> DepositStatus]
    BY DEF Init, DepositStatus
  <2>2. /\ ledger \in [Deposits -> Seq(LedgerEvent)]
        /\ refund \in [Deposits -> {None, "pending", "completed"}]
        /\ worker \in [Workers -> Replica]
    BY <1>1 DEF Init
  <2>3. faults \in 0 .. MaxFaults /\ moves \in 0 .. MaxMoves
    BY SettlementAssumption DEF Init
  <2>4. QED
    BY <2>1, <2>2, <2>3 DEF Init, TypeOK
<1>4. MoneyMatchesBooks
  BY DEF Init, MoneyMatchesBooks, LedgerOf, RefundOf
<1>5. OneWay
  BY SettlementAssumption DEF Init, OneWay
<1>6. ReplicasOK /\ ManifestOK /\ NothingYet
  BY <1>1, <1>2 DEF Init, ReplicasOK, ManifestOK, NothingYet, Held
<1>7. SettledMeansPaid
  BY DEF Init, SettledMeansPaid
<1>8. QED
  BY <1>3, <1>4, <1>5, <1>6, <1>7 DEF IInv

LEMMA StutterKeeps ==
    ASSUME IInv, UNCHANGED vars PROVE IInv'
BY StillStep DEF vars, money, IInv, TypeOK, Elsewhere

LEMMA StepKeeps ==
    ASSUME IInv, [Next]_vars PROVE IInv'
<1>1. ASSUME NEW w \in Workers, WorkerStep(w) PROVE IInv'
  BY <1>1, FindEndedKeeps, LockToInitiateKeeps, InitiateKeeps, LoadKeeps,
     LockToProcessKeeps, GiveUpKeeps, VisitKeeps, InitiateRefundKeeps, CallPosKeeps,
     RecordKeeps, SaveItemKeeps, FinalizeKeeps, ReleaseKeeps DEF WorkerStep
<1>2. ASSUME NEW w \in Workers, RecordFails(w) \/ Abort(w) \/ Die(w) PROVE IInv'
  BY <1>2, RecordFailsKeeps, AbortKeeps, DieKeeps
<1>3. CASE ExpireLock \/ HoursPass \/ MoveStatus \/ Retry
  BY <1>3, OthersKeep
<1>4. CASE UNCHANGED vars
  BY <1>4, StutterKeeps
<1>5. QED
  BY <1>1, <1>2, <1>3, <1>4 DEF Next

(* The invariant, for every number of deposits and replicas, every limit   *)
(* on retries and items, and every number of failures and manual moves.    *)
THEOREM SettlementInvariant == Spec => []IInv
<1>1. Init => IInv
  BY InitHolds
<1>2. IInv /\ [Next]_vars => IInv'
  BY StepKeeps
<1>3. QED
  BY <1>1, <1>2, PTL DEF Spec

(* Every variable and every worker's copy keeps its type: in particular no *)
(* item is ever tried more often than MAX_RETRIES.                         *)
THEOREM SettlementTypeCorrect == Spec => []TypeOK
<1>1. IInv => TypeOK
  BY DEF IInv
<1>2. QED
  BY <1>1, SettlementInvariant, PTL

(* Deposits, ledger, refund records and the provider agree, whatever       *)
(* replicas, crashes, lost locks and lost replies do.                      *)
THEOREM BooksAlwaysMatch == Spec => []MoneyMatchesBooks
<1>1. IInv => MoneyMatchesBooks
  BY DEF IInv
<1>2. QED
  BY <1>1, SettlementInvariant, PTL

(* No item of the manifest is acknowledged before its deposit is done,     *)
(* even when a copy that is out of date is saved over the row.             *)
THEOREM AcknowledgementsAreTrue == Spec => []AcknowledgedIsDone
<1>1. IInv => AcknowledgedIsDone
  BY DEF IInv, TypeOK, ManifestOK, ItemsOK, AcknowledgedIsDone, Manifest
<1>2. QED
  BY <1>1, SettlementInvariant, PTL

(* The worker calls an auction settled only when every deposit that was    *)
(* held when it ended is captured or refunded.                             *)
THEOREM SettledAuctionsArePaid == Spec => []SettledMeansPaid
<1>1. IInv => SettledMeansPaid
  BY DEF IInv
<1>2. QED
  BY <1>1, SettlementInvariant, PTL

-----------------------------------------------------------------------------
(* No settling auction is stranded.  A copy is read from an active         *)
(* manifest and its status is never changed, so whichever copy is saved    *)
(* over the row, and however old it is, the row is active afterwards; only *)
(* a step that also takes the auction out of 'settling' writes another     *)
(* status.                                                                 *)

CopyIsActive(v) == v.copy # None => v.copy.status = "active"

CopiesAreActive == \A w \in Workers : CopyIsActive(worker[w])

Watched == SettlingIsWatched /\ CopiesAreActive

LEMMA CopyStep ==
    ASSUME IInv, CopiesAreActive, NEW w \in Workers, NEW v, CopyIsActive(v),
           worker' = [worker EXCEPT ![w] = v]
    PROVE  CopiesAreActive'
<1>1. \A u \in Workers : worker'[u] = IF u = w THEN v ELSE worker[u]
  BY DEF IInv, TypeOK
<1>2. QED
  BY <1>1 DEF CopiesAreActive, CopyIsActive

(* Going on, marking an item and resting leave no copy that is not active. *)
LEMMA GotoWatches ==
    ASSUME IInv, CopiesAreActive, NEW w \in Workers, NEW pc, Goto(w, pc)
    PROVE  CopiesAreActive'
<1> DEFINE v == [worker[w] EXCEPT !.pc = pc]
<1>1. v.copy = worker[w].copy
  BY DEF IInv, TypeOK, Replica
<1>2. CopyIsActive(v)
  BY <1>1 DEF CopiesAreActive, CopyIsActive
<1>3. worker' = [worker EXCEPT ![w] = v]
  BY DEF Goto
<1>4. QED
  BY <1>2, <1>3, CopyStep

LEMMA MarkWatches ==
    ASSUME IInv, CopiesAreActive, NEW w \in Workers, NEW d, NEW ok,
           Copy(w) # None, Mark(w, d, ok)
    PROVE  CopiesAreActive'
<1> DEFINE v == Marked(worker[w], d, ok)
<1>1. Copy(w) \in Manifest(Held) /\ Copy(w).status = "active"
  BY CopyAsRow DEF CopiesAreActive, CopyIsActive, Copy
<1>2. worker[w] \in Replica /\ worker[w].copy = Copy(w)
  BY DEF IInv, TypeOK, Copy
<1>3. v.copy.status = "active"
  BY <1>1, <1>2 DEF Marked, Replica, Manifest
<1>4. CopyIsActive(v)
  BY <1>3 DEF CopyIsActive
<1>5. worker' = [worker EXCEPT ![w] = v]
  BY DEF Mark
<1>6. QED
  BY <1>4, <1>5, CopyStep

LEMMA RestWatches ==
    ASSUME IInv, CopiesAreActive, NEW w \in Workers, Rest(w)
    PROVE  CopiesAreActive'
<1>1. CopyIsActive(IdleWorker)
  BY DEF CopyIsActive, IdleWorker
<1>2. QED
  BY <1>1, CopyStep DEF Rest

(* A worker that has gone past the lock has a copy, and it is active.      *)
LEMMA CopyAtWork ==
    ASSUME IInv, CopiesAreActive, NEW w \in Workers,
           worker[w].pc \in {"loaded", "givingup", "working", "refunding", "calling",
                             "recording", "saving"}
    PROVE  /\ Copy(w) # None /\ Copy(w) \in Manifest(Held)
           /\ Copy(w).status = "active"
<1>1. Copy(w) # None
  BY DEF IInv, ReplicasOK, ReplicaOK, Copy
<1>2. QED
  BY <1>1, CopyAsRow DEF CopiesAreActive, CopyIsActive, Copy

(* A step that leaves the auction's status and the row alone.              *)
LEMMA RowStillWatched ==
    ASSUME SettlingIsWatched, CopiesAreActive', UNCHANGED <<auction, manifest, moves>>
    PROVE  Watched'
BY DEF SettlingIsWatched, Watched

LEMMA InitiateWatches ==
    ASSUME IInv, Watched, NEW w \in Workers, Initiate(w) PROVE Watched'
<1> USE DEF Watched
<1> DEFINE listed == {d \in Deposits : deposit[d] = "held"}
           copy == IF listed = {} THEN manifest' ELSE None
           v == [worker[w] EXCEPT !.pc = IF listed = {} THEN "working" ELSE "release",
                                  !.copy = copy]
<1>1. CASE auction = "ended" /\ manifest = None
  <2>1. manifest' # None /\ manifest'.status = "active"
    BY <1>1, FirstManifest
  <2>2. v.copy = copy
    BY DEF IInv, TypeOK, Replica
  <2>3. CopyIsActive(v)
    BY <2>1, <2>2 DEF CopyIsActive
  <2>4. worker' = [worker EXCEPT ![w] = v]
    BY <1>1 DEF Initiate
  <2>5. QED
    BY <2>1, <2>3, <2>4, CopyStep DEF SettlingIsWatched
<1>2. CASE Goto(w, "release") /\ UNCHANGED <<auction, manifest>>
  BY <1>2, GotoWatches, RowStillWatched DEF Initiate
<1>3. QED
  BY <1>1, <1>2 DEF Initiate

(* Taking a copy, and walking through it without saving it.                *)
LEMMA PassWatches ==
    ASSUME IInv, Watched, NEW w \in Workers,
           \/ FindEnded(w) \/ LockToInitiate(w) \/ Load(w) \/ LockToProcess(w)
           \/ Visit(w) \/ InitiateRefund(w) \/ CallPos(w) \/ Record(w) \/ RecordFails(w)
           \/ Release(w) \/ Abort(w) \/ Die(w)
    PROVE  Watched'
<1> USE DEF Watched
<1>1. SUFFICES CopiesAreActive'
  BY RowStillWatched DEF FindEnded, LockToInitiate, Load, LockToProcess, Visit,
     InitiateRefund, CallPos, Record, RecordFails, Release, Abort, Die
<1>2. worker[w] \in Replica
  BY DEF IInv, TypeOK
<1>3. CASE Load(w)
  <2> DEFINE v == [worker[w] EXCEPT !.pc = "loaded", !.copy = manifest]
  <2>1. v.copy = manifest
    BY <1>2 DEF Replica
  <2>2. CopyIsActive(v) /\ worker' = [worker EXCEPT ![w] = v]
    BY <1>3, <2>1 DEF Load, CopyIsActive
  <2>3. QED
    BY <2>2, CopyStep
<1>4. CASE LockToProcess(w) /\ lock = None
  <2> DEFINE v == [worker[w] EXCEPT
                      !.pc = IF expired \/ Copy(w).oversized THEN "givingup"
                                                             ELSE "working",
                      !.todo = DOMAIN Copy(w).items, !.left = ItemsPerTick]
  <2>1. v.copy = worker[w].copy
    BY <1>2 DEF Replica
  <2>2. CopyIsActive(v)
    BY <2>1 DEF CopiesAreActive, CopyIsActive
  <2>3. worker' = [worker EXCEPT ![w] = v]
    BY <1>4 DEF LockToProcess
  <2>4. QED
    BY <2>2, <2>3, CopyStep
<1>5. CASE Visit(w)
  <2>1. Copy(w) # None
    BY <1>5, CopyAtWork DEF Visit
  <2>2. PICK d \in Workable(w) :
           \/ Mark(w, d, TRUE)
           \/ \E pc \in {"calling", "refunding"} :
                 worker' = [worker EXCEPT ![w].pc = pc, ![w].item = d]
    BY <1>5 DEF Visit
  <2>3. CASE Mark(w, d, TRUE)
    BY <2>1, <2>3, MarkWatches
  <2>4. ASSUME NEW pc \in {"calling", "refunding"},
               worker' = [worker EXCEPT ![w].pc = pc, ![w].item = d]
        PROVE  CopiesAreActive'
    <3> DEFINE v == [worker[w] EXCEPT !.pc = pc, !.item = d]
    <3>1. v.copy = worker[w].copy
      BY <1>2 DEF Replica
    <3>2. CopyIsActive(v)
      BY <3>1 DEF CopiesAreActive, CopyIsActive
    <3>3. worker' = [worker EXCEPT ![w] = v]
      BY <2>4
    <3>4. QED
      BY <3>2, <3>3, CopyStep
  <2>5. QED
    BY <2>2, <2>3, <2>4
<1>6. CASE InitiateRefund(w) \/ CallPos(w) \/ Record(w) \/ RecordFails(w)
  <2>1. Copy(w) # None
    BY <1>6, CopyAtWork DEF InitiateRefund, CallPos, Record, RecordFails
  <2>2. \/ \E ok \in BOOLEAN : Mark(w, ItemOf(w), ok)
        \/ \E pc \in {"calling", "recording"} : Goto(w, pc)
    BY <1>6 DEF InitiateRefund, CallPos, Record, RecordFails
  <2>3. QED
    BY <2>1, <2>2, MarkWatches, GotoWatches
<1>7. CASE FindEnded(w) \/ LockToInitiate(w) \/ Abort(w)
  BY <1>7, GotoWatches, RestWatches DEF FindEnded, LockToInitiate, Abort
<1>8. CASE (LockToProcess(w) /\ lock # None) \/ Release(w) \/ Die(w)
  BY <1>8, RestWatches DEF LockToProcess, Release, Die
<1>9. QED
  BY <1>3, <1>4, <1>5, <1>6, <1>7, <1>8

(* The steps that write the row: a save keeps it active, and every other   *)
(* status is written together with the end of settling.                    *)
LEMMA SaveWatches ==
    ASSUME IInv, Watched, NEW w \in Workers, SaveItem(w) PROVE Watched'
<1> USE DEF Watched
<1> DEFINE v == [worker[w] EXCEPT !.pc = "working", !.left = @ - 1,
                                  !.todo = @ \ {ItemOf(w)}, !.item = None]
<1>1. Copy(w) # None /\ Copy(w).status = "active"
  BY CopyAtWork DEF SaveItem
<1>2. v.copy = worker[w].copy
  BY DEF IInv, TypeOK, Replica
<1>3. CopyIsActive(v)
  BY <1>2 DEF CopiesAreActive, CopyIsActive
<1>4. worker' = [worker EXCEPT ![w] = v]
  BY DEF SaveItem
<1>5. CopiesAreActive'
  BY <1>3, <1>4, CopyStep
<1>6. QED
  BY <1>1, <1>5 DEF SaveItem, SettlingIsWatched

LEMMA GiveUpWatches ==
    ASSUME IInv, Watched, NEW w \in Workers, GiveUp(w) PROVE Watched'
<1>1. auction' # "settling"
  BY DEF GiveUp
<1>2. CopiesAreActive'
  BY GotoWatches DEF GiveUp, Watched
<1>3. QED
  BY <1>1, <1>2 DEF Watched, SettlingIsWatched

LEMMA FinalizeWatches ==
    ASSUME IInv, Watched, NEW w \in Workers, Finalize(w) PROVE Watched'
<1>1. Copy(w) # None /\ Copy(w).status = "active"
  BY CopyAtWork DEF Finalize, Watched
<1>2. CopiesAreActive'
  BY GotoWatches DEF Finalize, Watched
<1>3. \/ auction' # "settling"
      \/ UNCHANGED <<auction, manifest>>
      \/ manifest' = Copy(w)
  BY DEF Finalize
<1>4. QED
  BY <1>1, <1>2, <1>3 DEF Watched, SettlingIsWatched, Finalize

LEMMA StepWatches ==
    ASSUME IInv, Watched, [Next]_vars PROVE Watched'
<1>1. ASSUME NEW w \in Workers, WorkerStep(w) \/ RecordFails(w) \/ Abort(w) \/ Die(w)
      PROVE  Watched'
  BY <1>1, InitiateWatches, PassWatches, SaveWatches, GiveUpWatches, FinalizeWatches
     DEF WorkerStep
<1>2. CASE ExpireLock \/ HoursPass \/ UNCHANGED vars
  <2>1. UNCHANGED <<auction, manifest, worker, moves>>
    BY <1>2 DEF ExpireLock, HoursPass, vars
  <2>2. QED
    BY <2>1 DEF Watched, SettlingIsWatched, CopiesAreActive
<1>3. CASE MoveStatus \/ Retry
  <2>1. moves' # 0 /\ UNCHANGED worker
    BY <1>3, SettlementAssumption DEF MoveStatus, Retry, IInv, TypeOK
  <2>2. QED
    BY <2>1 DEF Watched, SettlingIsWatched, CopiesAreActive
<1>4. QED
  BY <1>1, <1>2, <1>3 DEF Next

(* An auction that is settling has an active manifest for the workers'     *)
(* poll to find, for any number of replicas with stale copies, failures,   *)
(* lost locks and deposits, until an administrator moves it by hand.       *)
THEOREM SettlingIsWatchedAlways == Spec => []SettlingIsWatched
<1>1. Init => Watched
  BY DEF Init, Watched, SettlingIsWatched, CopiesAreActive, CopyIsActive, IdleWorker
<1>2. IInv /\ Watched /\ [Next]_vars => Watched'
  BY StepWatches
<1>3. Watched => SettlingIsWatched
  BY DEF Watched
<1>4. QED
  BY <1>1, <1>2, <1>3, SettlementInvariant, PTL DEF Spec

-----------------------------------------------------------------------------
(* Refinement.  The escrow sees a deposit as held, taken or returned, and  *)
(* the auction as pending, settled or failed.                              *)

Money(dep) == [d \in Held |-> CASE dep[d] = "captured" -> "taken"
                                [] dep[d] = "refunded" -> "returned"
                                [] OTHER               -> "held"]

Outcome(a) == CASE a = "settled"           -> "settled"
                [] a = "settlement_failed" -> "failed"
                [] OTHER                   -> "pending"

LEMMA EscrowStepMoney ==
    ASSUME IInv, NEW d \in Held, UNCHANGED auction,
           \/ deposit[d] = "held" /\ d = Winner
              /\ deposit' = [deposit EXCEPT ![d] = "captured"]
           \/ deposit[d] = "held" /\ d # Winner
              /\ deposit' = [deposit EXCEPT ![d] = "refund_pending"]
           \/ deposit[d] = "refund_pending" /\ d # Winner
              /\ deposit' = [deposit EXCEPT ![d] = "refunded"]
    PROVE  [Escrow!Next]_(Escrow!vars)
<1>1. deposit \in [Deposits -> DepositStatus] /\ Held \subseteq Deposits
  BY DEF IInv, TypeOK, Held
<1>2. Outcome(auction') = Outcome(auction)
  OBVIOUS
<1>3. CASE deposit[d] = "held" /\ d = Winner
           /\ deposit' = [deposit EXCEPT ![d] = "captured"]
  <2>1. Money(deposit)[Winner] = "held"
    BY <1>3 DEF Money
  <2>2. Money(deposit') = [Money(deposit) EXCEPT ![Winner] = "taken"]
    <3>1. \A x \in Held : deposit'[x] = IF x = Winner THEN "captured" ELSE deposit[x]
      BY <1>1, <1>3
    <3>2. \A x \in Held : Money(deposit')[x] = IF x = Winner THEN "taken"
                                                            ELSE Money(deposit)[x]
      BY <3>1 DEF Money
    <3>3. /\ Money(deposit') = [x \in Held |-> Money(deposit')[x]]
          /\ Money(deposit) = [x \in Held |-> Money(deposit)[x]]
      BY DEF Money
    <3>4. QED
      BY <3>2, <3>3, <1>3
  <2>3. Escrow!Take
    BY <1>2, <1>3, <2>1, <2>2 DEF Escrow!Take, Money, Outcome
  <2>4. QED
    BY <2>3 DEF Escrow!Next
<1>4. CASE deposit[d] = "held" /\ d # Winner
           /\ deposit' = [deposit EXCEPT ![d] = "refund_pending"]
  <2>1. \A x \in Held : deposit'[x] = IF x = d THEN "refund_pending" ELSE deposit[x]
    BY <1>1, <1>4
  <2>2. Money(deposit') = Money(deposit)
    BY <2>1, <1>4 DEF Money
  <2>3. QED
    BY <2>2, <1>2 DEF Escrow!vars, Money, Outcome
<1>5. CASE deposit[d] = "refund_pending" /\ d # Winner
           /\ deposit' = [deposit EXCEPT ![d] = "refunded"]
  <2>1. Money(deposit)[d] = "held"
    BY <1>5 DEF Money
  <2>2. Money(deposit') = [Money(deposit) EXCEPT ![d] = "returned"]
    <3>1. \A x \in Held : deposit'[x] = IF x = d THEN "refunded" ELSE deposit[x]
      BY <1>1, <1>5
    <3>2. \A x \in Held : Money(deposit')[x] = IF x = d THEN "returned"
                                                       ELSE Money(deposit)[x]
      BY <3>1 DEF Money
    <3>3. /\ Money(deposit') = [x \in Held |-> Money(deposit')[x]]
          /\ Money(deposit) = [x \in Held |-> Money(deposit)[x]]
      BY DEF Money
    <3>4. QED
      BY <3>2, <3>3
  <2>3. Escrow!Return(d)
    BY <1>2, <1>5, <2>1, <2>2 DEF Escrow!Return, Money, Outcome
  <2>4. QED
    BY <2>3 DEF Escrow!Next
<1>6. QED
  BY <1>3, <1>4, <1>5

LEMMA EscrowStepOutcome ==
    ASSUME UNCHANGED deposit,
           \/ auction' = auction
           \/ auction = "ended" /\ auction' = "settling"
           \/ auction = "settling" /\ auction' = "settlement_failed"
           \/ auction = "settling" /\ auction' = "settled" /\ \A d \in Held : Decided(d)
    PROVE  [Escrow!Next]_(Escrow!vars)
<1>1. Money(deposit') = Money(deposit)
  OBVIOUS
<1>2. CASE auction' = auction \/ (auction = "ended" /\ auction' = "settling")
  BY <1>1, <1>2 DEF Escrow!vars, Money
<1>3. CASE auction = "settling" /\ auction' = "settlement_failed"
  <2>1. Escrow!Fail
    BY <1>1, <1>3 DEF Escrow!Fail, Money
  <2>2. QED
    BY <2>1 DEF Escrow!Next
<1>4. CASE auction = "settling" /\ auction' = "settled" /\ \A d \in Held : Decided(d)
  <2>1. \A d \in Held : Money(deposit)[d] # "held"
    BY <1>4 DEF Money, Decided, DoneStatus
  <2>2. Escrow!Settle
    BY <1>1, <1>4, <2>1 DEF Escrow!Settle, Money
  <2>3. QED
    BY <2>2 DEF Escrow!Next
<1>5. QED
  BY <1>2, <1>3, <1>4

LEMMA EscrowInit ==
    ASSUME Init PROVE Escrow!Init
BY DEF Init, Escrow!Init, Held

LEMMA EscrowStep ==
    ASSUME MaxMoves = 0, IInv, [Next]_vars
    PROVE  [Escrow!Next]_(Escrow!vars)
<1>1. ~(moves < MaxMoves)
  BY DEF IInv, TypeOK
<1>2. CASE UNCHANGED vars
  BY <1>2, EscrowStepOutcome DEF vars, money
<1>3. CASE ExpireLock \/ HoursPass \/ MoveStatus \/ Retry
  BY <1>1, <1>3, EscrowStepOutcome DEF ExpireLock, HoursPass, MoveStatus, Retry, money
<1>4. ASSUME NEW w \in Workers, RecordFails(w) \/ Abort(w) \/ Die(w)
      PROVE  [Escrow!Next]_(Escrow!vars)
  BY <1>4, EscrowStepOutcome DEF RecordFails, Abort, Die, money
<1>5. ASSUME NEW w \in Workers, WorkerStep(w)
      PROVE  [Escrow!Next]_(Escrow!vars)
  <2>1. CASE FindEnded(w) \/ LockToInitiate(w) \/ Load(w) \/ LockToProcess(w)
             \/ Visit(w) \/ CallPos(w) \/ SaveItem(w) \/ Release(w)
    BY <2>1, EscrowStepOutcome
    DEF FindEnded, LockToInitiate, Load, LockToProcess, Visit, CallPos, SaveItem,
        Release, money
  <2>2. CASE Initiate(w)
    BY <2>2, EscrowStepOutcome DEF Initiate, money
  <2>3. CASE GiveUp(w)
    BY <2>3, EscrowStepOutcome DEF GiveUp, money
  <2>4. CASE InitiateRefund(w)
    <3>1. worker[w].pc = "refunding"
      BY <2>4 DEF InitiateRefund
    <3>2. ItemOf(w) \in Held /\ ItemOf(w) # Winner
      BY <3>1, AtItem
    <3>3. CASE UNCHANGED deposit
      BY <2>4, <3>3, EscrowStepOutcome DEF InitiateRefund
    <3>4. CASE deposit[ItemOf(w)] = "held"
               /\ deposit' = [deposit EXCEPT ![ItemOf(w)] = "refund_pending"]
      BY <2>4, <3>2, <3>4, EscrowStepMoney DEF InitiateRefund
    <3>5. QED
      BY <2>4, <3>3, <3>4 DEF InitiateRefund
  <2>5. CASE Record(w)
    <3>1. worker[w].pc = "recording"
      BY <2>5 DEF Record
    <3>2. ItemOf(w) \in Held
      BY <3>1, AtItem
    <3>3. CASE UNCHANGED deposit
      BY <2>5, <3>3, EscrowStepOutcome DEF Record
    <3>4. CASE deposit[ItemOf(w)] = ReadyStatus(ItemOf(w))
               /\ deposit' = [deposit EXCEPT ![ItemOf(w)] = DoneStatus(ItemOf(w))]
      BY <2>5, <3>2, <3>4, EscrowStepMoney DEF Record, ReadyStatus, DoneStatus
    <3>5. QED
      BY <2>5, <3>3, <3>4 DEF Record
  <2>6. CASE Finalize(w)
    <3>1. worker[w] \in Replica /\ ReplicaOK(worker[w], deposit, pos)
      BY DEF IInv, TypeOK, ReplicasOK
    <3>2. Copy(w) # None
      BY <2>6, <3>1 DEF Finalize, ReplicaOK, Copy
    <3>3. AllAcknowledged(Copy(w)) => \A d \in Held : Decided(d)
      <4>1. DOMAIN Copy(w).items = Held
        BY <3>1, <3>2 DEF Replica, Manifest, Copy
      <4>2. QED
        BY <3>1, <3>2, <4>1 DEF AllAcknowledged, ReplicaOK, ItemsOK, Copy, Decided
    <3>4. QED
      BY <2>6, <3>3, EscrowStepOutcome DEF Finalize, money
  <2>7. QED
    BY <1>5, <2>1, <2>2, <2>3, <2>4, <2>5, <2>6 DEF WorkerStep
<1>6. QED
  BY <1>2, <1>3, <1>4, <1>5 DEF Next

(* Without manual moves the whole machinery is an escrow: every deposit is *)
(* taken or returned once, by the right rule, and "settled" comes after.   *)
THEOREM SettlementIsAnEscrow == ASSUME MaxMoves = 0 PROVE Spec => ImplementsEscrow
<1>1. Init => Escrow!Init
  BY EscrowInit
<1>2. IInv /\ [Next]_vars => [Escrow!Next]_(Escrow!vars)
  BY EscrowStep
<1>3. QED
  BY <1>1, <1>2, SettlementInvariant, PTL DEF Spec, ImplementsEscrow, Escrow!Spec

(* What the failure analysis says of every deposit holds where each of     *)
(* them was held when the auction ended and nobody moves the status by     *)
(* hand; the runs show how a deposit that was still collected is left.     *)
THEOREM HeldDepositsAreAllSettled ==
    ASSUME MaxMoves = 0, Collected = {}
    PROVE  Spec => []EveryDepositSettled
<1>1. IInv => EveryDepositSettled
  <2> SUFFICES ASSUME IInv, auction = "settled", NEW d \in Deposits
               PROVE  deposit[d] \in {"captured", "refunded"}
    BY DEF EveryDepositSettled
  <2>1. moves = 0 /\ d \in Held
    BY DEF IInv, TypeOK, Held
  <2>2. deposit[d] = DoneStatus(d)
    BY <2>1 DEF IInv, SettledMeansPaid, Decided
  <2> QED
    BY <2>2 DEF DoneStatus
<1> QED
  BY <1>1, SettlementInvariant, PTL
=============================================================================
