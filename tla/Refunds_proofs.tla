--------------------------- MODULE Refunds_proofs ---------------------------
(***************************************************************************)
(* No refund is paid out twice, the refunds of a payment never exceed what *)
(* was captured, and together they are one budget, for any number of       *)
(* requests and keys.  At most one request is ever past the first          *)
(* transaction of a key, and it knows what the provider did.               *)
(*                                                                         *)
(* The totals are sums over sets.  An induction over finite sets is stated *)
(* as "of the sets that are counterexamples one is smallest".              *)
(***************************************************************************)
EXTENDS Refunds, FiniteSetTheorems, TLAPS

InHand(r) == req[r].at \in {"call", "record"}

(* The one request at work on a pending refund knows what was paid.        *)
WorkerKnows ==
    \A r \in Request :
        InHand(r) =>
            /\ req[r].key \in Key
            /\ refund[req[r].key].status = "pending"
            /\ req[r].at = "call" => given[req[r].key] = 0 /\ ~req[r].ok
            /\ req[r].at = "record" /\ req[r].ok => given[req[r].key] = 1

OneWorker ==
    \A r, q \in Request :
        InHand(r) /\ InHand(q) /\ req[r].key = req[q].key => r = q

(* A request has its key and amount, and no answer, before it takes the    *)
(* lock.                                                                   *)
HasKey ==
    \A r \in Request :
        req[r].at = "lock" => req[r].key \in Key /\ req[r].amount \in Amounts /\ ~req[r].ok

IInv == TypeOK /\ HasKey /\ WorkerKnows /\ OneWorker /\ PaidOutOnce

LEMMA InitInv == Init => IInv
<1> SUFFICES ASSUME Init PROVE IInv
  OBVIOUS
<1>1. TypeOK
  BY RefundsAssumption DEF Init, TypeOK, RefundRow, RefundStatus, PostRefund, NewRequest
<1>2. HasKey /\ WorkerKnows /\ OneWorker
  BY DEF Init, HasKey, WorkerKnows, OneWorker, InHand, NewRequest
<1>3. PaidOutOnce
  BY DEF Init, PaidOutOnce
<1> QED
  BY <1>1, <1>2, <1>3 DEF IInv

-----------------------------------------------------------------------------
(* Submit, Refuse and Die only move a request that is not at work, or stop *)
(* one that is.                                                            *)
LEMMA MoveInv ==
    ASSUME IInv, NEW r \in Request, NEW m \in PostRefund,
           UNCHANGED <<payment, refund, given>>,
           req' = [req EXCEPT ![r] = m],
           m.at \in {"lock", "done"},
           m.at = "lock" => m.key \in Key /\ m.amount \in Amounts /\ ~m.ok
    PROVE  IInv'
<1> USE DEF IInv
<1>1. TypeOK'
  BY DEF TypeOK, InHand
<1>2. \A q \in Request : q # r => req'[q] = req[q]
  BY DEF TypeOK
<1>3. req'[r] = m
  BY DEF TypeOK
<1>4. HasKey'
  BY <1>2, <1>3 DEF HasKey
<1>5. \A q \in Request : req'[q].at \in {"call", "record"} => q # r
  BY <1>3
<1>6. WorkerKnows'
  BY <1>2, <1>5 DEF WorkerKnows, InHand
<1>7. OneWorker'
  BY <1>2, <1>5 DEF OneWorker, InHand
<1>8. PaidOutOnce'
  BY DEF PaidOutOnce
<1> QED
  BY <1>1, <1>4, <1>6, <1>7, <1>8

LEMMA OpenInv ==
    ASSUME IInv, NEW r \in Request, Open(r)
    PROVE  IInv'
<1> USE DEF IInv
<1> DEFINE k == req[r].key
<1>1. /\ k \in Key
      /\ refund[k].status = "none"
      /\ given[k] = 0
      /\ UNCHANGED <<payment, given>>
  BY DEF Open, HasKey, PaidOutOnce
<1>2. refund' = [refund EXCEPT ![k] = [status |-> "pending", amount |-> req[r].amount]]
  BY DEF Open
<1>3. req' = [req EXCEPT ![r].at = "call"]
  BY DEF Open
<1>4. \A q \in Request : InHand(q) => req[q].key # k
  BY <1>1 DEF WorkerKnows
<1>5. /\ \A q \in Request : q # r => req'[q] = req[q]
      /\ req'[r].key = k /\ req'[r].at = "call" /\ ~req'[r].ok
  BY <1>3 DEF TypeOK, PostRefund, HasKey, Open
<1>6. \A j \in Key : j # k => refund'[j] = refund[j]
  BY <1>2 DEF TypeOK
<1>7. refund'[k].status = "pending"
  BY <1>1, <1>2 DEF TypeOK
<1>8. ASSUME NEW q \in Request, req'[q].at \in {"call", "record"}, q # r
      PROVE  req'[q] = req[q] /\ InHand(q) /\ req[q].key \in Key \ {k}
  BY <1>4, <1>5, <1>8 DEF InHand, WorkerKnows
<1>9. TypeOK'
  <2>1. refund' \in [Key -> RefundRow]
    BY <1>1, <1>2 DEF TypeOK, RefundRow, RefundStatus, PostRefund
  <2>2. req' \in [Request -> PostRefund]
    BY <1>3 DEF TypeOK, PostRefund
  <2>3. \A q \in Request :
            req'[q].at \in {"call", "record"} => refund'[req'[q].key].status = "pending"
    BY <1>5, <1>6, <1>7, <1>8 DEF WorkerKnows
  <2> QED
    BY <1>1, <2>1, <2>2, <2>3 DEF TypeOK
<1>10. HasKey'
  BY <1>5 DEF HasKey
<1>11. WorkerKnows'
  BY <1>1, <1>5, <1>6, <1>7, <1>8 DEF WorkerKnows, InHand
<1>12. OneWorker'
  BY <1>5, <1>8 DEF OneWorker, InHand
<1>13. PaidOutOnce'
  BY <1>1, <1>6, <1>7 DEF PaidOutOnce
<1> QED
  BY <1>9, <1>10, <1>11, <1>12, <1>13

LEMMA CallInv ==
    ASSUME IInv, NEW r \in Request, CallProvider(r)
    PROVE  IInv'
<1> USE DEF IInv
<1> DEFINE k == req[r].key
<1>1. /\ k \in Key
      /\ refund[k].status = "pending"
      /\ given[k] = 0
      /\ InHand(r)
      /\ UNCHANGED <<payment, refund>>
  BY DEF CallProvider, InHand, WorkerKnows
<1>2. /\ \A q \in Request : q # r => req'[q] = req[q]
      /\ req'[r].key = k /\ req'[r].at = "record"
      /\ req' \in [Request -> PostRefund]
  BY DEF CallProvider, TypeOK, PostRefund
<1>3. /\ \A j \in Key \ {k} : given'[j] = given[j]
      /\ given'[k] \in {0, 1}
      /\ given' \in [Key -> Nat]
      /\ req'[r].ok => given'[k] = 1
  <2>1. CASE /\ given' = given
             /\ req' = [req EXCEPT ![r].at = "record"]
    BY <1>1, <2>1 DEF TypeOK, PostRefund, WorkerKnows, CallProvider, InHand
  <2>2. CASE given' = [given EXCEPT ![k] = @ + 1]
    BY <1>1, <2>2 DEF TypeOK
  <2> QED
    BY <2>1, <2>2 DEF CallProvider
<1>4. ASSUME NEW q \in Request, req'[q].at \in {"call", "record"}, q # r
      PROVE  req'[q] = req[q] /\ InHand(q) /\ req[q].key \in Key \ {k}
  BY <1>1, <1>2, <1>4 DEF InHand, WorkerKnows, OneWorker
<1>5. TypeOK'
  <2>1. \A q \in Request :
            req'[q].at \in {"call", "record"} => refund'[req'[q].key].status = "pending"
    BY <1>1, <1>2, <1>4 DEF WorkerKnows
  <2> QED
    BY <1>1, <1>2, <1>3, <2>1 DEF TypeOK
<1>6. HasKey'
  BY <1>2 DEF HasKey
<1>7. WorkerKnows'
  BY <1>1, <1>2, <1>3, <1>4 DEF WorkerKnows, InHand
<1>8. OneWorker'
  BY <1>2, <1>4 DEF OneWorker, InHand
<1>9. PaidOutOnce'
  BY <1>1, <1>3 DEF PaidOutOnce
<1> QED
  BY <1>5, <1>6, <1>7, <1>8, <1>9

LEMMA RecordInv ==
    ASSUME IInv, NEW r \in Request, RecordAnswer(r)
    PROVE  IInv'
<1> USE DEF IInv
<1> DEFINE k == req[r].key
<1>1. /\ k \in Key
      /\ req[r].ok => given[k] = 1
      /\ InHand(r)
      /\ req[r].at = "record"
      /\ given' = given
  BY DEF RecordAnswer, InHand, WorkerKnows
<1>2. req' = [req EXCEPT ![r].at = "done"]
  BY DEF RecordAnswer
<1>3. /\ \A q \in Request : q # r => req'[q] = req[q]
      /\ req'[r].at = "done"
      /\ req' \in [Request -> PostRefund]
  BY <1>2 DEF TypeOK, PostRefund
<1>4. refund' = [refund EXCEPT ![k].status = IF req[r].ok THEN "completed" ELSE "failed"]
  BY DEF RecordAnswer
<1>5. /\ refund' \in [Key -> RefundRow]
      /\ \A j \in Key \ {k} : refund'[j] = refund[j]
      /\ refund'[k].status \in {"completed", "failed"}
      /\ refund'[k].status = "completed" => given[k] = 1
  BY <1>1, <1>4 DEF TypeOK, RefundRow, RefundStatus
<1>6. payment' \in {"completed", "partially_refunded", "refunded"}
  BY DEF RecordAnswer, TypeOK
<1>7. ASSUME NEW q \in Request, req'[q].at \in {"call", "record"}
      PROVE  q # r /\ req'[q] = req[q] /\ InHand(q) /\ req[q].key \in Key \ {k}
  BY <1>1, <1>3, <1>7 DEF InHand, WorkerKnows, OneWorker
<1>8. TypeOK'
  <2>1. \A q \in Request :
            req'[q].at \in {"call", "record"} => refund'[req'[q].key].status = "pending"
    BY <1>5, <1>7 DEF WorkerKnows
  <2> QED
    BY <1>1, <1>3, <1>5, <1>6, <2>1 DEF TypeOK
<1>9. HasKey'
  BY <1>3 DEF HasKey
<1>10. WorkerKnows'
  BY <1>1, <1>5, <1>7 DEF WorkerKnows, InHand
<1>11. OneWorker'
  BY <1>7 DEF OneWorker, InHand
<1>12. PaidOutOnce'
  BY <1>1, <1>5 DEF PaidOutOnce
<1> QED
  BY <1>8, <1>9, <1>10, <1>11, <1>12

LEMMA StepInv ==
    ASSUME IInv, [Next]_vars
    PROVE  IInv'
<1>1. CASE UNCHANGED vars
  BY <1>1 DEF IInv, TypeOK, HasKey, WorkerKnows, OneWorker, InHand, PaidOutOnce, vars
<1>2. ASSUME NEW r \in Request, NEW k \in Key, NEW a \in Amounts, Submit(r, k, a)
      PROVE  IInv'
  <2> DEFINE m == [at |-> IF refund[k].status = "none" THEN "lock" ELSE "done",
                   key |-> k, amount |-> a, ok |-> FALSE]
  <2>1. m \in PostRefund
    BY DEF PostRefund
  <2>2. /\ UNCHANGED <<payment, refund, given>>
        /\ req' = [req EXCEPT ![r] = m]
    BY <1>2 DEF Submit
  <2>3. m.at \in {"lock", "done"} /\ m.key \in Key /\ m.amount \in Amounts /\ ~m.ok
    OBVIOUS
  <2> HIDE DEF m
  <2> QED
    BY <2>1, <2>2, <2>3, MoveInv
<1>3. ASSUME NEW r \in Request, Refuse(r) \/ Die(r)
      PROVE  IInv'
  <2> DEFINE m == [req[r] EXCEPT !.at = "done"]
  <2>1. m \in PostRefund /\ m.at = "done"
    BY DEF IInv, TypeOK, PostRefund
  <2>2. /\ UNCHANGED <<payment, refund, given>>
        /\ req' = [req EXCEPT ![r] = m]
    BY <1>3 DEF Refuse, Die
  <2> HIDE DEF m
  <2> QED
    BY <2>1, <2>2, MoveInv
<1> QED
  BY <1>1, <1>2, <1>3, OpenInv, CallInv, RecordInv DEF Next

LEMMA Inductive == Spec => []IInv
<1>1. Init => IInv
  BY InitInv
<1>2. IInv /\ [Next]_vars => IInv'
  BY StepInv
<1> QED
  BY <1>1, <1>2, PTL DEF Spec

(* Every reachable state is well typed, and a request that talks to the    *)
(* provider has a pending refund of its own.                               *)
THEOREM RefundTypesAlways == Spec => []TypeOK
<1>1. IInv => TypeOK
  BY DEF IInv
<1> QED
  BY <1>1, Inductive, PTL

(* Whatever races, dies or times out, the provider pays a refund at most   *)
(* once, and what is recorded as completed was paid.                       *)
THEOREM PaidOutOnceAlways == Spec => []PaidOutOnce
<1>1. IInv => PaidOutOnce
  BY DEF IInv
<1> QED
  BY <1>1, Inductive, PTL

-----------------------------------------------------------------------------
(* Sums over finite sets.                                                  *)

(* The function that SumFunctionOnSet folds with.                          *)
Pick(s) == CHOOSE x \in s : TRUE

Adds(g, f, S) ==
    g = [s \in SUBSET S |-> IF s = {} THEN 0 ELSE f[Pick(s)] + g[s \ {Pick(s)}]]

Added(f, S) == CHOOSE g : Adds(g, f, S)

LEMMA SumIsAdded ==
    ASSUME NEW f, NEW S
    PROVE  SumFunctionOnSet(f, S) = Added(f, S)[S]
BY DEF SumFunctionOnSet, FoldFunctionOnSet, MapThenFoldSet, Added, Adds, Pick

(* Of the finite sets in a collection, one is minimal.                     *)
LEMMA SmallestSet ==
    ASSUME NEW S, IsFiniteSet(S), NEW C, C \subseteq SUBSET S, C # {}
    PROVE  \E T \in C : \A U \in C : U \subseteq T => U = T
<1> DEFINE R == StrictSubsetOrdering(S)
<1>1. IsWellFoundedOn(R, FiniteSubsetsOf(S))
  BY FS_StrictSubsetOrderingWellFounded
<1>2. FiniteSubsetsOf(S) = SUBSET S
  BY FS_FiniteSubsetsOfFinite
<1>3. \E T \in C : \A U \in C : <<U, T>> \notin R
  <2> HIDE DEF R
  <2> QED
    BY <1>1, <1>2, WFMin
<1> QED
  BY <1>3 DEF StrictSubsetOrdering

LEMMA PickIsIn == \A s : s # {} => Pick(s) \in s
BY DEF Pick

(* Two such functions agree wherever both are defined.                     *)
LEMMA AddsOnce ==
    ASSUME NEW f, NEW S, NEW T, NEW g, NEW h, Adds(g, f, S), Adds(h, f, T),
           NEW U, IsFiniteSet(U), U \subseteq S, U \subseteq T
    PROVE  g[U] = h[U]
<1> DEFINE C == {V \in SUBSET U : g[V] # h[V]}
<1> SUFFICES ASSUME C # {} PROVE FALSE
  OBVIOUS
<1>1. PICK V \in C : \A W \in C : W \subseteq V => W = V
  <2>1. C \subseteq SUBSET U
    OBVIOUS
  <2> HIDE DEF C
  <2> QED
    BY <2>1, SmallestSet
<1>2. /\ g[V] = IF V = {} THEN 0 ELSE f[Pick(V)] + g[V \ {Pick(V)}]
      /\ h[V] = IF V = {} THEN 0 ELSE f[Pick(V)] + h[V \ {Pick(V)}]
  BY DEF Adds
<1>3. CASE V = {}
  BY <1>2, <1>3
<1>4. CASE V # {}
  <2>1. V \ {Pick(V)} \notin C
    BY <1>1, <1>4, PickIsIn
  <2> QED
    BY <1>2, <1>4, <2>1
<1> QED
  BY <1>3, <1>4
(* There is such a function, if the set is finite.                         *)
LEMMA AddsExists ==
    ASSUME NEW f, NEW S, IsFiniteSet(S)
    PROVE  \E g : Adds(g, f, S)
<1> DEFINE C == {T \in SUBSET S : ~ \E g : Adds(g, f, T)}
<1> SUFFICES ASSUME C # {} PROVE FALSE
  OBVIOUS
<1>1. PICK T \in C : \A U \in C : U \subseteq T => U = T
  <2>1. C \subseteq SUBSET S
    OBVIOUS
  <2> HIDE DEF C
  <2> QED
    BY <2>1, SmallestSet
<1>2. \A U \in SUBSET T : U # T => Adds(Added(f, U), f, U)
  BY <1>1 DEF Added
<1> DEFINE below(s) == IF s = {} THEN 0
                       ELSE f[Pick(s)] + Added(f, s \ {Pick(s)})[s \ {Pick(s)}]
           h == [s \in SUBSET T |-> below(s)]
<1>3. ASSUME NEW s \in SUBSET T, s # {}
      PROVE  h[s \ {Pick(s)}] = Added(f, s \ {Pick(s)})[s \ {Pick(s)}]
  <2> DEFINE u == s \ {Pick(s)}
  <2>1. u \in SUBSET T /\ u # T /\ IsFiniteSet(u)
    BY <1>3, PickIsIn, FS_Subset
  <2>2. Adds(Added(f, u), f, u)
    BY <1>2, <2>1
  <2>3. CASE u = {}
    BY <2>1, <2>2, <2>3 DEF Adds
  <2>4. CASE u # {}
    <3> DEFINE v == u \ {Pick(u)}
    <3>1. v \in SUBSET T /\ v # T /\ v \subseteq u /\ IsFiniteSet(v)
      BY <2>1, <2>4, PickIsIn, FS_Subset
    <3>2. Adds(Added(f, v), f, v)
      BY <1>2, <3>1
    <3>3. Added(f, u)[v] = Added(f, v)[v]
      BY <2>2, <3>1, <3>2, AddsOnce
    <3>4. Added(f, u)[u] = f[Pick(u)] + Added(f, u)[v]
      BY <2>2, <2>4 DEF Adds
    <3> QED
      BY <2>1, <2>4, <3>3, <3>4
  <2> QED
    BY <2>3, <2>4
<1>4. h = [s \in SUBSET T |-> IF s = {} THEN 0 ELSE f[Pick(s)] + h[s \ {Pick(s)}]]
  BY <1>3
<1>5. Adds(h, f, T)
  BY <1>4 DEF Adds
<1> QED
  BY <1>1, <1>5

-----------------------------------------------------------------------------
(* A sum takes its elements one by one.                                    *)
LEMMA SumStep ==
    ASSUME NEW f, NEW S, IsFiniteSet(S), S # {}
    PROVE  SumFunctionOnSet(f, S)
              = f[Pick(S)] + SumFunctionOnSet(f, S \ {Pick(S)})
<1> DEFINE T == S \ {Pick(S)}
<1>1. IsFiniteSet(T)
  BY FS_Subset
<1>2. Adds(Added(f, S), f, S) /\ Adds(Added(f, T), f, T)
  BY <1>1, AddsExists DEF Added
<1>3. Added(f, S)[S] = f[Pick(S)] + Added(f, S)[T]
  BY <1>2 DEF Adds
<1>4. Added(f, S)[T] = Added(f, T)[T]
  BY <1>1, <1>2, AddsOnce
<1> QED
  BY <1>3, <1>4, SumIsAdded

LEMMA SumOfNone == \A f : SumFunctionOnSet(f, {}) = 0
<1> SUFFICES ASSUME NEW f PROVE SumFunctionOnSet(f, {}) = 0
  OBVIOUS
<1>1. Adds(Added(f, {}), f, {})
  BY AddsExists, FS_EmptySet DEF Added
<1> QED
  BY <1>1, SumIsAdded DEF Adds

LEMMA SumIsNat ==
    ASSUME NEW f, NEW S, IsFiniteSet(S), \A x \in S : f[x] \in Nat
    PROVE  SumFunctionOnSet(f, S) \in Nat
<1> DEFINE C == {T \in SUBSET S : SumFunctionOnSet(f, T) \notin Nat}
<1> SUFFICES ASSUME C # {} PROVE FALSE
  OBVIOUS
<1>1. PICK T \in C : \A U \in C : U \subseteq T => U = T
  <2>1. C \subseteq SUBSET S
    OBVIOUS
  <2> HIDE DEF C
  <2> QED
    BY <2>1, SmallestSet
<1>2. T # {}
  BY SumOfNone
<1>3. Pick(T) \in T /\ IsFiniteSet(T)
  BY <1>2, PickIsIn, FS_Subset
<1>4. T \ {Pick(T)} \notin C
  BY <1>1, <1>3
<1> QED
  BY <1>2, <1>3, <1>4, SumStep

(* The order does not matter.                                              *)
LEMMA SumLess ==
    ASSUME NEW f, NEW S, IsFiniteSet(S), \A x \in S : f[x] \in Nat, NEW x \in S
    PROVE  SumFunctionOnSet(f, S) = f[x] + SumFunctionOnSet(f, S \ {x})
<1> DEFINE C == {T \in SUBSET S :
                   \E y \in T : SumFunctionOnSet(f, T) # f[y] + SumFunctionOnSet(f, T \ {y})}
<1> SUFFICES ASSUME C # {} PROVE FALSE
  OBVIOUS
<1>1. PICK T \in C : \A U \in C : U \subseteq T => U = T
  <2>1. C \subseteq SUBSET S
    OBVIOUS
  <2> HIDE DEF C
  <2> QED
    BY <2>1, SmallestSet
<1>2. PICK y \in T : SumFunctionOnSet(f, T) # f[y] + SumFunctionOnSet(f, T \ {y})
  OBVIOUS
<1> DEFINE z == Pick(T)
<1>3. z \in T /\ IsFiniteSet(T)
  BY PickIsIn, FS_Subset
<1>4. SumFunctionOnSet(f, T) = f[z] + SumFunctionOnSet(f, T \ {z})
  BY <1>3, SumStep
<1>5. y # z
  BY <1>2, <1>4
<1>6. /\ SumFunctionOnSet(f, T \ {z}) = f[y] + SumFunctionOnSet(f, (T \ {z}) \ {y})
      /\ SumFunctionOnSet(f, T \ {y}) = f[z] + SumFunctionOnSet(f, (T \ {y}) \ {z})
  <2>1. T \ {z} \notin C /\ T \ {y} \notin C
    BY <1>1, <1>3
  <2>2. y \in T \ {z} /\ z \in T \ {y}
    BY <1>3, <1>5
  <2> HIDE DEF z
  <2> QED
    BY <2>1, <2>2
<1>7. (T \ {z}) \ {y} = (T \ {y}) \ {z}
  OBVIOUS
<1>8. SumFunctionOnSet(f, (T \ {z}) \ {y}) \in Nat /\ f[y] \in Nat /\ f[z] \in Nat
  BY <1>3, FS_Subset, SumIsNat
<1> QED
  BY <1>2, <1>4, <1>6, <1>7, <1>8

(* What is added is no more than what it is compared with.                 *)
LEMMA SumAtMost ==
    ASSUME NEW f, NEW g, NEW S, IsFiniteSet(S),
           \A x \in S : f[x] \in Nat /\ g[x] \in Nat /\ f[x] <= g[x]
    PROVE  SumFunctionOnSet(f, S) <= SumFunctionOnSet(g, S)
<1> DEFINE C == {T \in SUBSET S : ~(SumFunctionOnSet(f, T) <= SumFunctionOnSet(g, T))}
<1> SUFFICES ASSUME C # {} PROVE FALSE
  OBVIOUS
<1>1. PICK T \in C : \A U \in C : U \subseteq T => U = T
  <2>1. C \subseteq SUBSET S
    OBVIOUS
  <2> HIDE DEF C
  <2> QED
    BY <2>1, SmallestSet
<1>2. T # {}
  BY SumOfNone
<1> DEFINE z == Pick(T)
           U == T \ {z}
<1>3. z \in T /\ IsFiniteSet(T) /\ IsFiniteSet(U)
  BY <1>2, PickIsIn, FS_Subset
<1>4. SumFunctionOnSet(f, U) <= SumFunctionOnSet(g, U)
  BY <1>1, <1>3
<1>5. /\ SumFunctionOnSet(f, T) = f[z] + SumFunctionOnSet(f, U)
      /\ SumFunctionOnSet(g, T) = g[z] + SumFunctionOnSet(g, U)
  BY <1>2, <1>3, SumStep
<1>6. SumFunctionOnSet(f, U) \in Nat /\ SumFunctionOnSet(g, U) \in Nat
  BY <1>3, SumIsNat
<1> QED
  BY <1>3, <1>4, <1>5, <1>6

LEMMA SumIsSame ==
    ASSUME NEW f, NEW g, NEW S, IsFiniteSet(S),
           \A x \in S : f[x] \in Nat /\ g[x] = f[x]
    PROVE  SumFunctionOnSet(f, S) = SumFunctionOnSet(g, S)
<1>1. SumFunctionOnSet(f, S) <= SumFunctionOnSet(g, S)
  BY SumAtMost
<1>2. SumFunctionOnSet(g, S) <= SumFunctionOnSet(f, S)
  BY SumAtMost
<1> QED
  BY <1>1, <1>2, SumIsNat

LEMMA SumOfBoth ==
    ASSUME NEW f, NEW S, NEW T, IsFiniteSet(S), IsFiniteSet(T), S \cap T = {},
           \A x \in S \cup T : f[x] \in Nat
    PROVE  SumFunctionOnSet(f, S \cup T) = SumFunctionOnSet(f, S) + SumFunctionOnSet(f, T)
<1> DEFINE C == {U \in SUBSET T :
                   SumFunctionOnSet(f, S \cup U) # SumFunctionOnSet(f, S) + SumFunctionOnSet(f, U)}
<1> SUFFICES ASSUME C # {} PROVE FALSE
  OBVIOUS
<1>1. PICK U \in C : \A V \in C : V \subseteq U => V = U
  <2>1. C \subseteq SUBSET T
    OBVIOUS
  <2> HIDE DEF C
  <2> QED
    BY <2>1, SmallestSet
<1>2. SumFunctionOnSet(f, S) \in Nat
  BY SumIsNat
<1>3. U # {}
  <2>1. S \cup {} = S
    OBVIOUS
  <2> QED
    BY <1>2, <2>1, SumOfNone
<1>4. PICK x : x \in U
  BY <1>3
<1> DEFINE V == U \ {x}
<1>5. V \notin C
  BY <1>1, <1>4
<1>6. /\ IsFiniteSet(U) /\ IsFiniteSet(V) /\ IsFiniteSet(S \cup U)
      /\ (S \cup U) \ {x} = S \cup V
  BY <1>4, FS_Subset, FS_Union
<1>7. /\ SumFunctionOnSet(f, S \cup U) = f[x] + SumFunctionOnSet(f, S \cup V)
      /\ SumFunctionOnSet(f, U) = f[x] + SumFunctionOnSet(f, V)
  BY <1>4, <1>6, SumLess
<1>8. SumFunctionOnSet(f, V) \in Nat /\ f[x] \in Nat
  BY <1>4, <1>6, SumIsNat
<1> QED
  BY <1>2, <1>5, <1>7, <1>8

-----------------------------------------------------------------------------
(* Totals of refunds.                                                      *)
Rows == [Key -> RefundRow]

Begun(rows) == {k \in Key : rows[k].status # "none"}

InStatus(rows, statuses) == {k \in Key : rows[k].status \in statuses}

AmountIn(rows) == [k \in Key |-> rows[k].amount]

LEMMA TotalIs ==
    \A rows, statuses :
        TotalOf(rows, statuses) = SumFunctionOnSet(AmountIn(rows), InStatus(rows, statuses))
BY DEF TotalOf, AmountIn, InStatus

LEMMA AmountIsNat ==
    ASSUME NEW rows \in Rows, NEW k \in Key
    PROVE  AmountIn(rows)[k] = rows[k].amount /\ rows[k].amount \in Nat
<1>1. rows[k].amount \in Amounts \cup {0}
  BY DEF Rows, RefundRow
<1>2. Amounts \cup {0} \subseteq Nat
  BY RefundsAssumption
<1> QED
  BY <1>1, <1>2 DEF AmountIn

LEMMA InStatusIsFinite ==
    ASSUME NEW rows, IsFiniteSet(Begun(rows)), NEW statuses, "none" \notin statuses
    PROVE  IsFiniteSet(InStatus(rows, statuses))
<1>1. InStatus(rows, statuses) \in SUBSET Begun(rows)
  BY DEF InStatus, Begun
<1> QED
  BY <1>1, FS_Subset

LEMMA TotalIsNat ==
    ASSUME NEW rows \in Rows, IsFiniteSet(Begun(rows)), NEW statuses, "none" \notin statuses
    PROVE  TotalOf(rows, statuses) \in Nat
<1>1. \A k \in InStatus(rows, statuses) : AmountIn(rows)[k] \in Nat
  BY AmountIsNat DEF InStatus
<1> QED
  BY <1>1, InStatusIsFinite, SumIsNat, TotalIs

LEMMA TotalSplits ==
    ASSUME NEW rows \in Rows, IsFiniteSet(Begun(rows))
    PROVE  TotalOf(rows, {"pending", "completed"})
              = TotalOf(rows, {"pending"}) + TotalOf(rows, {"completed"})
<1> DEFINE S == InStatus(rows, {"pending"})
           T == InStatus(rows, {"completed"})
<1>1. IsFiniteSet(S) /\ IsFiniteSet(T)
  BY InStatusIsFinite
<1>2. S \cap T = {} /\ S \cup T = InStatus(rows, {"pending", "completed"})
  BY DEF InStatus
<1>3. \A k \in S \cup T : AmountIn(rows)[k] \in Nat
  BY AmountIsNat DEF InStatus
<1> HIDE DEF S, T
<1>4. SumFunctionOnSet(AmountIn(rows), S \cup T)
        = SumFunctionOnSet(AmountIn(rows), S) + SumFunctionOnSet(AmountIn(rows), T)
  BY <1>1, <1>2, <1>3, SumOfBoth
<1> QED
  BY <1>2, <1>4, TotalIs DEF S, T

(* What one row counts for in a total.                                     *)
Part(row, statuses) == IF row.status \in statuses THEN row.amount ELSE 0

(* A row that changes changes a total by its own part.                     *)
LEMMA OneRowMoves ==
    ASSUME NEW old \in Rows, NEW new \in Rows, NEW k \in Key,
           \A j \in Key \ {k} : new[j] = old[j],
           IsFiniteSet(Begun(old)), IsFiniteSet(Begun(new)),
           NEW statuses, "none" \notin statuses
    PROVE  TotalOf(new, statuses) + Part(old[k], statuses)
              = TotalOf(old, statuses) + Part(new[k], statuses)
<1> DEFINE Rest == {j \in Key \ {k} : old[j].status \in statuses}
           rest == SumFunctionOnSet(AmountIn(old), Rest)
<1>1. ASSUME NEW rows \in Rows, IsFiniteSet(Begun(rows)),
             \A j \in Key \ {k} : rows[j] = old[j]
      PROVE  TotalOf(rows, statuses) = rest + Part(rows[k], statuses) /\ rest \in Nat
  <2> DEFINE S == InStatus(rows, statuses)
  <2>1. IsFiniteSet(S)
    BY <1>1, InStatusIsFinite
  <2>2. S \ {k} = Rest
    BY <1>1 DEF InStatus
  <2>3. IsFiniteSet(Rest)
    BY <2>1, <2>2, FS_Subset
  <2>4. \A j \in Rest : AmountIn(rows)[j] \in Nat /\ AmountIn(old)[j] = AmountIn(rows)[j]
    BY <1>1, AmountIsNat DEF AmountIn
  <2>5. SumFunctionOnSet(AmountIn(rows), Rest) = rest /\ rest \in Nat
    <3> HIDE DEF Rest
    <3> QED
      BY <2>3, <2>4, SumIsSame, SumIsNat
  <2>6. rows[k].amount \in Nat /\ AmountIn(rows)[k] = rows[k].amount
    BY AmountIsNat
  <2>7. CASE rows[k].status \in statuses
    <3>1. k \in S /\ \A j \in S : AmountIn(rows)[j] \in Nat
      BY <1>1, <2>7, AmountIsNat DEF InStatus
    <3>2. SumFunctionOnSet(AmountIn(rows), S)
            = AmountIn(rows)[k] + SumFunctionOnSet(AmountIn(rows), S \ {k})
      <4> HIDE DEF S
      <4> QED
        BY <2>1, <3>1, SumLess
    <3>3. TotalOf(rows, statuses) = rows[k].amount + rest
      BY <2>2, <2>5, <2>6, <3>2, TotalIs
    <3>4. Part(rows[k], statuses) = rows[k].amount
      BY <2>7 DEF Part
    <3> HIDE DEF rest
    <3> QED
      BY <2>5, <2>6, <3>3, <3>4
  <2>8. CASE rows[k].status \notin statuses
    <3>1. S = Rest
      BY <2>2, <2>8 DEF InStatus
    <3>2. TotalOf(rows, statuses) = rest
      BY <2>5, <3>1, TotalIs
    <3>3. Part(rows[k], statuses) = 0
      BY <2>8 DEF Part
    <3> HIDE DEF rest
    <3> QED
      BY <2>5, <3>2, <3>3
  <2> QED
    BY <2>7, <2>8
<1>2. TotalOf(new, statuses) = rest + Part(new[k], statuses)
  BY <1>1
<1>3. TotalOf(old, statuses) = rest + Part(old[k], statuses) /\ rest \in Nat
  BY <1>1
<1>4. Part(old[k], statuses) \in Nat /\ Part(new[k], statuses) \in Nat
  BY AmountIsNat DEF Part
<1> QED
  BY <1>2, <1>3, <1>4

-----------------------------------------------------------------------------
(* The budget.  A refund that exists has an amount, only so many exist,    *)
(* and what they take fits.                                                *)
HasAmount == \A k \in Key : refund[k].status # "none" => refund[k].amount \in Amounts

Reserved == TotalOf(refund, {"pending"})
Refunded == TotalOf(refund, {"completed"})

BInv ==
    /\ HasAmount
    /\ IsFiniteSet(Begun(refund))
    /\ Reserved + Refunded <= Captured
    /\ StatusTellsTotal

LEMMA TotalsAreNat ==
    ASSUME IInv, BInv
    PROVE  /\ refund \in Rows
           /\ Reserved \in Nat /\ Refunded \in Nat
           /\ Captured \in Nat \ {0}
           /\ Amounts \subseteq Nat \ {0}
<1>1. refund \in Rows
  BY DEF IInv, TypeOK, Rows
<1> QED
  BY <1>1, TotalIsNat, RefundsAssumption DEF BInv, Reserved, Refunded

LEMMA InitBudget == Init => BInv /\ Reserved = 0 /\ Refunded = 0
<1> SUFFICES ASSUME Init PROVE BInv /\ Reserved = 0 /\ Refunded = 0
  OBVIOUS
<1>1. /\ Begun(refund) = {}
      /\ InStatus(refund, {"pending"}) = {}
      /\ InStatus(refund, {"completed"}) = {}
  BY DEF Init, Begun, InStatus
<1>2. Reserved = 0 /\ Refunded = 0
  BY <1>1, TotalIs, SumOfNone DEF Reserved, Refunded
<1>3. HasAmount /\ payment = "completed"
  BY DEF Init, HasAmount
<1> QED
  BY <1>1, <1>2, <1>3, FS_EmptySet, RefundsAssumption
  DEF BInv, StatusTellsTotal, Reserved, Refunded

(* What opening a refund does to the totals.                               *)
LEMMA OpenReserves ==
    ASSUME IInv, BInv, NEW r \in Request, Open(r)
    PROVE  \E a \in Amounts :
              /\ Reserved + Refunded + a <= Captured
              /\ Reserved' = Reserved + a
              /\ Refunded' = Refunded
              /\ payment' = payment
              /\ HasAmount' /\ IsFiniteSet(Begun(refund'))
<1> DEFINE k == req[r].key
           a == req[r].amount
<1>1. /\ k \in Key /\ a \in Amounts
      /\ refund[k].status = "none"
      /\ payment' = payment
      /\ TotalOf(refund, {"pending", "completed"}) + a <= Captured
  BY DEF Open, IInv, HasKey, Fits
<1>2. refund' = [refund EXCEPT ![k] = [status |-> "pending", amount |-> a]]
  BY DEF Open
<1>3. refund \in Rows /\ refund' \in Rows
  BY OpenInv DEF IInv, TypeOK, Rows
<1>4. /\ refund'[k] = [status |-> "pending", amount |-> a]
      /\ \A j \in Key \ {k} : refund'[j] = refund[j]
  BY <1>1, <1>2, <1>3 DEF Rows
<1>5. IsFiniteSet(Begun(refund'))
  <2>1. Begun(refund') = Begun(refund) \cup {k}
    BY <1>1, <1>4 DEF Begun
  <2> QED
    BY <2>1, FS_AddElement DEF BInv
<1>6. IsFiniteSet(Begun(refund))
  BY DEF BInv
<1>7. Reserved' + Part(refund[k], {"pending"}) = Reserved + Part(refund'[k], {"pending"})
  BY <1>1, <1>3, <1>4, <1>5, <1>6, OneRowMoves DEF Reserved
<1>8. Refunded' + Part(refund[k], {"completed"}) = Refunded + Part(refund'[k], {"completed"})
  BY <1>1, <1>3, <1>4, <1>5, <1>6, OneRowMoves DEF Refunded
<1>9. /\ Part(refund[k], {"pending"}) = 0 /\ Part(refund'[k], {"pending"}) = a
      /\ Part(refund[k], {"completed"}) = 0 /\ Part(refund'[k], {"completed"}) = 0
  BY <1>1, <1>4 DEF Part
<1>10. Reserved' \in Nat /\ Refunded' \in Nat
  BY <1>3, <1>5, TotalIsNat DEF Reserved, Refunded
<1>11. Reserved' = Reserved + a /\ Refunded' = Refunded
  BY <1>1, <1>7, <1>8, <1>9, <1>10, TotalsAreNat
<1>12. Reserved + Refunded + a <= Captured
  BY <1>1, <1>3, <1>6, TotalSplits DEF Reserved, Refunded
<1>13. HasAmount'
  BY <1>1, <1>4 DEF BInv, HasAmount
<1> QED
  BY <1>1, <1>5, <1>11, <1>12, <1>13

(* What recording the provider's answer does to them.                      *)
LEMMA RecordPays ==
    ASSUME IInv, BInv, NEW r \in Request, RecordAnswer(r)
    PROVE  \E a \in Amounts :
              /\ a <= Reserved
              /\ Reserved' = Reserved - a
              /\ \/ /\ Refunded' = Refunded + a
                    /\ payment' = IF Refunded' >= Captured THEN "refunded"
                                                           ELSE "partially_refunded"
                 \/ Refunded' = Refunded /\ payment' = payment
              /\ HasAmount' /\ IsFiniteSet(Begun(refund'))
<1> DEFINE k == req[r].key
           a == refund[k].amount
           to == IF req[r].ok THEN "completed" ELSE "failed"
<1>1. k \in Key /\ refund[k].status = "pending"
  BY DEF RecordAnswer, IInv, WorkerKnows, InHand
<1>2. a \in Amounts
  BY <1>1 DEF BInv, HasAmount
<1>3. refund' = [refund EXCEPT ![k].status = to]
  BY DEF RecordAnswer
<1>4. refund \in Rows /\ refund' \in Rows
  BY RecordInv DEF IInv, TypeOK, Rows
<1>5. /\ refund'[k].status = to /\ refund'[k].amount = a
      /\ \A j \in Key \ {k} : refund'[j] = refund[j]
  BY <1>1, <1>3, <1>4 DEF Rows, RefundRow
<1>6. Begun(refund') = Begun(refund) /\ IsFiniteSet(Begun(refund))
  BY <1>1, <1>5 DEF Begun, BInv
<1>7. Reserved' + Part(refund[k], {"pending"}) = Reserved + Part(refund'[k], {"pending"})
  BY <1>1, <1>4, <1>5, <1>6, OneRowMoves DEF Reserved
<1>8. Refunded' + Part(refund[k], {"completed"}) = Refunded + Part(refund'[k], {"completed"})
  BY <1>1, <1>4, <1>5, <1>6, OneRowMoves DEF Refunded
<1>9. /\ Part(refund[k], {"pending"}) = a /\ Part(refund'[k], {"pending"}) = 0
      /\ Part(refund[k], {"completed"}) = 0
      /\ Part(refund'[k], {"completed"}) = IF req[r].ok THEN a ELSE 0
  BY <1>1, <1>5 DEF Part
<1>10. Reserved' \in Nat /\ Refunded' \in Nat
  BY <1>4, <1>6, TotalIsNat DEF Reserved, Refunded
<1>11. /\ a <= Reserved /\ Reserved' = Reserved - a
       /\ Refunded' = Refunded + (IF req[r].ok THEN a ELSE 0)
  BY <1>2, <1>7, <1>8, <1>9, <1>10, TotalsAreNat
<1>12. HasAmount'
  BY <1>1, <1>2, <1>5 DEF BInv, HasAmount
<1>13. payment' = IF ~req[r].ok THEN payment
                  ELSE IF Refunded' >= Captured THEN "refunded" ELSE "partially_refunded"
  BY <1>3 DEF RecordAnswer, PaidOut, Refunded
<1>14. req[r].ok \in BOOLEAN
  BY DEF IInv, TypeOK, PostRefund
<1> QED
  BY <1>2, <1>6, <1>11, <1>12, <1>13, <1>14, TotalsAreNat

(* Everything else leaves the totals alone.                                *)
LEMMA OthersAreQuiet ==
    ASSUME [Next]_vars, \A r \in Request : ~Open(r) /\ ~RecordAnswer(r)
    PROVE  UNCHANGED <<refund, payment>>
BY DEF Next, vars, Submit, Refuse, CallProvider, Die

LEMMA StepBudget ==
    ASSUME IInv, BInv, [Next]_vars
    PROVE  BInv' /\ [Budget!Next]_(Budget!vars)
<1>1. CASE UNCHANGED <<refund, payment>>
  BY <1>1 DEF BInv, HasAmount, Begun, Reserved, Refunded, StatusTellsTotal, TotalOf, Budget!vars
<1>2. ASSUME NEW r \in Request, Open(r)
      PROVE  BInv' /\ Budget!Next
  <2>1. PICK a \in Amounts :
            /\ Reserved + Refunded + a <= Captured
            /\ Reserved' = Reserved + a
            /\ Refunded' = Refunded
            /\ payment' = payment
            /\ HasAmount' /\ IsFiniteSet(Begun(refund'))
    BY <1>2, OpenReserves
  <2>2. Budget!Reserve(a)
    BY <2>1 DEF Budget!Reserve, Reserved, Refunded
  <2>3. StatusTellsTotal'
    BY <2>1 DEF BInv, StatusTellsTotal, Refunded
  <2>4. Reserved' + Refunded' <= Captured
    BY <2>1, TotalsAreNat
  <2> QED
    BY <2>1, <2>2, <2>3, <2>4 DEF BInv, Budget!Next
<1>3. ASSUME NEW r \in Request, RecordAnswer(r)
      PROVE  BInv' /\ Budget!Next
  <2>1. PICK a \in Amounts :
            /\ a <= Reserved
            /\ Reserved' = Reserved - a
            /\ \/ /\ Refunded' = Refunded + a
                  /\ payment' = IF Refunded' >= Captured THEN "refunded"
                                                         ELSE "partially_refunded"
               \/ Refunded' = Refunded /\ payment' = payment
            /\ HasAmount' /\ IsFiniteSet(Begun(refund'))
    BY <1>3, RecordPays
  <2>2. Reserved' + Refunded' <= Captured
    BY <2>1, TotalsAreNat DEF BInv
  <2>3. CASE /\ Refunded' = Refunded + a
             /\ payment' = IF Refunded' >= Captured THEN "refunded" ELSE "partially_refunded"
    <3>1. 0 < Refunded' /\ Refunded' <= Captured
      BY <2>1, <2>3, TotalsAreNat DEF BInv
    <3>2. StatusTellsTotal'
      BY <2>3, <3>1, TotalsAreNat DEF StatusTellsTotal, Refunded
    <3>3. payment' = Budget!StatusOf(Refunded')
      BY <2>3, <3>1, TotalsAreNat DEF Budget!StatusOf
    <3>4. Budget!Pay(a)
      BY <2>1, <2>3, <3>3 DEF Budget!Pay, Reserved, Refunded
    <3> QED
      BY <2>1, <2>2, <3>2, <3>4 DEF BInv, Budget!Next
  <2>4. CASE Refunded' = Refunded /\ payment' = payment
    <3>1. StatusTellsTotal'
      BY <2>4 DEF BInv, StatusTellsTotal, Refunded
    <3>2. Budget!GiveBack(a)
      BY <2>1, <2>4 DEF Budget!GiveBack, Reserved, Refunded
    <3> QED
      BY <2>1, <2>2, <3>1, <3>2 DEF BInv, Budget!Next
  <2> QED
    BY <2>1, <2>3, <2>4
<1> QED
  BY <1>1, <1>2, <1>3, OthersAreQuiet

LEMMA BudgetInductive == Spec => [](IInv /\ BInv)
<1>1. Init => IInv /\ BInv
  BY InitInv, InitBudget
<1>2. IInv /\ BInv /\ [Next]_vars => (IInv /\ BInv)'
  BY StepInv, StepBudget
<1> QED
  BY <1>1, <1>2, PTL DEF Spec

(* However many refunds are asked for at once, what is promised and what   *)
(* the provider has paid on those not recorded as failed stay within what  *)
(* was captured.                                                           *)
THEOREM NeverOverCommittedAlways == Spec => []NeverOverCommitted
<1>1. ASSUME IInv, BInv
      PROVE  NeverOverCommitted
  <2> DEFINE S == InStatus(refund, {"pending", "completed"})
             paid == [k \in Key |-> given[k] * refund[k].amount]
  <2>1. refund \in Rows /\ IsFiniteSet(Begun(refund)) /\ IsFiniteSet(S)
    BY <1>1, TotalsAreNat, InStatusIsFinite DEF BInv
  <2>2. TotalOf(refund, {"pending", "completed"}) <= Captured
    BY <1>1, <2>1, TotalSplits DEF BInv, Reserved, Refunded
  <2>3. \A k \in S : /\ paid[k] \in Nat /\ AmountIn(refund)[k] \in Nat
                     /\ paid[k] <= AmountIn(refund)[k]
    <3> SUFFICES ASSUME NEW k \in S
                 PROVE  /\ paid[k] \in Nat /\ AmountIn(refund)[k] \in Nat
                        /\ paid[k] <= AmountIn(refund)[k]
      OBVIOUS
    <3>1. k \in Key /\ given[k] \in {0, 1}
      BY <1>1 DEF IInv, TypeOK, PaidOutOnce, InStatus
    <3>2. refund[k].amount \in Nat /\ AmountIn(refund)[k] = refund[k].amount
      BY <2>1, <3>1, AmountIsNat
    <3> QED
      BY <3>1, <3>2
  <2>4. SumFunctionOnSet(paid, S) <= SumFunctionOnSet(AmountIn(refund), S)
    <3> HIDE DEF paid, S
    <3> QED
      BY <2>1, <2>3, SumAtMost
  <2>5. SumFunctionOnSet(paid, S) \in Nat /\ SumFunctionOnSet(AmountIn(refund), S) \in Nat
    <3> HIDE DEF paid, S
    <3> QED
      BY <2>1, <2>3, SumIsNat
  <2>6. SumFunctionOnSet(paid, S) <= Captured
    BY <2>2, <2>4, <2>5, TotalIs, RefundsAssumption
  <2> QED
    BY <2>2, <2>6 DEF NeverOverCommitted, InStatus
<1> QED
  BY <1>1, BudgetInductive, PTL

(* The payment's status and the sum of its completed refunds never differ, *)
(* although each refund sums for itself.                                   *)
THEOREM StatusTellsTotalAlways == Spec => []StatusTellsTotal
<1>1. BInv => StatusTellsTotal
  BY DEF BInv
<1> QED
  BY <1>1, BudgetInductive, PTL

(* All the refunds of a payment together are one budget.                   *)
THEOREM RefundsAreABudget == Spec => ImplementsBudget
<1>1. Init => Budget!Init
  <2>1. Init => payment = "completed"
    BY DEF Init
  <2> QED
    BY <2>1, InitBudget DEF Budget!Init, Reserved, Refunded
<1>2. IInv /\ BInv /\ [Next]_vars => [Budget!Next]_(Budget!vars)
  BY StepBudget
<1> QED
  BY <1>1, <1>2, BudgetInductive, PTL DEF Spec, ImplementsBudget, Budget!Spec
=============================================================================
