------------------------------ MODULE Refunds -------------------------------
(***************************************************************************)
(* RefundService: the refunds of one captured payment.                     *)
(*                                                                         *)
(* A refund is known by its idempotency key.  One transaction, under the   *)
(* payment's row lock, checks the amount and writes the refund, the ledger *)
(* entry and the key; the provider is called with no lock held; a second   *)
(* transaction records the answer.  The process may die in between, the    *)
(* second transaction may fail, and the provider may have paid although    *)
(* the caller hears an error (a timeout, or a network error the adapters   *)
(* turn into success: false).                                              *)
(***************************************************************************)
EXTENDS Naturals, FiniteSets, Functions

CONSTANTS
    NoKey,             \* no refund in hand
    Key,               \* idempotency keys and the refunds made under them
    Request,           \* calls of POST /refunds
    Captured,          \* the payment's amount, in units
    Amounts            \* the amounts asked for

ASSUME RefundsAssumption ==
    /\ Captured \in Nat \ {0}
    /\ Amounts \subseteq Nat \ {0}
    /\ NoKey \notin Key

VARIABLES
    payment,           \* payments.payments.status
    refund,            \* payments.refunds: status and amount of every refund
    given,             \* history: times the provider paid each refund out
    req                \* where every POST /refunds is

vars == <<payment, refund, given, req>>

-----------------------------------------------------------------------------
RefundStatus == {"none", "pending", "completed", "failed"}

RefundRow == [status : RefundStatus, amount : Amounts \cup {0}]

PostRefund == [at : {"idle", "lock", "call", "record", "done"},
               key : Key \cup {NoKey}, amount : Amounts \cup {0}, ok : BOOLEAN]

NewRequest == [at |-> "idle", key |-> NoKey, amount |-> 0, ok |-> FALSE]

TypeOK ==
    /\ payment \in {"completed", "partially_refunded", "refunded"}
    /\ refund \in [Key -> RefundRow]
    /\ given \in [Key -> Nat]
    /\ req \in [Request -> PostRefund]
    /\ \A r \in Request : req[r].at \in {"call", "record"} => refund[req[r].key].status = "pending"

Init ==
    /\ payment = "completed"
    /\ refund = [k \in Key |-> [status |-> "none", amount |-> 0]]
    /\ given = [k \in Key |-> 0]
    /\ req = [r \in Request |-> NewRequest]

-----------------------------------------------------------------------------
(* The sum of the refunds of some statuses, in integer cents (toCents).    *)
TotalOf(rows, statuses) ==
    SumFunctionOnSet([k \in Key |-> rows[k].amount],
                     {k \in Key : rows[k].status \in statuses})

(* A seeded bug: only what has been paid out is taken off.                 *)
CompletedOnly(a) == a <= Captured - TotalOf(refund, {"completed"})

(* A pending refund takes its amount off what may still be refunded; a     *)
(* failed one gives it back.                                               *)
Fits(a) == TotalOf(refund, {"pending", "completed"}) + a <= Captured

(* The fast path returns the refund that exists under the key.             *)
Submit(r, k, a) ==
    /\ req[r].at = "idle"
    /\ req' = [req EXCEPT ![r] =
                  [at |-> IF refund[k].status = "none" THEN "lock" ELSE "done",
                   key |-> k, amount |-> a, ok |-> FALSE]]
    /\ UNCHANGED <<payment, refund, given>>

(* A seeded bug: the provider is called for a key another request holds.   *)
OpenAnyway(r) ==
    /\ req[r].at = "lock"
    /\ Fits(req[r].amount)
    /\ refund' = [refund EXCEPT ![req[r].key] =
                     [status |-> "pending", amount |-> req[r].amount]]
    /\ req' = [req EXCEPT ![r].at = "call"]
    /\ UNCHANGED <<payment, given>>

(* Phase 1, under the payment's lock.  A key that another request has used *)
(* meanwhile meets the unique constraint, and the request fails.           *)
Open(r) ==
    LET k == req[r].key
    IN  /\ req[r].at = "lock"
        /\ payment \in {"completed", "partially_refunded"}
        /\ Fits(req[r].amount)
        /\ refund[k].status = "none"
        /\ refund' = [refund EXCEPT ![k] = [status |-> "pending", amount |-> req[r].amount]]
        /\ req' = [req EXCEPT ![r].at = "call"]
        /\ UNCHANGED <<payment, given>>

Refuse(r) ==
    /\ req[r].at = "lock"
    /\ \/ payment = "refunded"
       \/ ~Fits(req[r].amount)
       \/ refund[req[r].key].status # "none"
    /\ req' = [req EXCEPT ![r].at = "done"]
    /\ UNCHANGED <<payment, refund, given>>

(* Phase 2: the provider pays or does not, and only "success" is believed. *)
CallProvider(r) ==
    LET k == req[r].key
    IN  /\ req[r].at = "call"
        /\ \/ /\ given' = [given EXCEPT ![k] = @ + 1]
              /\ \E ok \in BOOLEAN : req' = [req EXCEPT ![r].at = "record", ![r].ok = ok]
           \/ /\ given' = given
              /\ req' = [req EXCEPT ![r].at = "record"]
        /\ UNCHANGED <<payment, refund>>

(* A seeded bug: the total is that of this request's refund alone.         *)
OwnTotal(rows, k) == rows[k].amount

(* A seeded bug: the total is summed before the refund is saved.           *)
StaleTotal(rows, k) == TotalOf(refund, {"completed"})

PaidOut(rows, k) == TotalOf(rows, {"completed"})

(* Phase 3: a paid refund completes, and the payment's status follows from *)
(* the total, summed under the payment's lock; a failed one frees its      *)
(* amount.                                                                 *)
RecordAnswer(r) ==
    LET k    == req[r].key
        rows == [refund EXCEPT ![k].status = IF req[r].ok THEN "completed" ELSE "failed"]
    IN  /\ req[r].at = "record"
        /\ refund' = rows
        /\ payment' = IF ~req[r].ok THEN payment
                      ELSE IF PaidOut(rows, k) >= Captured THEN "refunded"
                                                           ELSE "partially_refunded"
        /\ req' = [req EXCEPT ![r].at = "done"]
        /\ UNCHANGED given

(* The process dies, or a transaction fails and its error is logged: what  *)
(* was committed stays, and a refund left pending stays pending            *)
(* (reconcileRefund only counts it).                                       *)
Die(r) ==
    /\ req[r].at \in {"lock", "call", "record"}
    /\ req' = [req EXCEPT ![r].at = "done"]
    /\ UNCHANGED <<payment, refund, given>>

-----------------------------------------------------------------------------
Next ==
    \E r \in Request :
        \/ \E k \in Key, a \in Amounts : Submit(r, k, a)
        \/ Open(r) \/ Refuse(r) \/ CallProvider(r) \/ RecordAnswer(r) \/ Die(r)

Spec == Init /\ [][Next]_vars

-----------------------------------------------------------------------------
(* What is refunded or may yet be refunded never exceeds what was captured,*)
(* so the money paid out beyond that is only that of refunds recorded as   *)
(* failed because the provider's answer was lost.                          *)
NeverOverCommitted ==
    /\ TotalOf(refund, {"pending", "completed"}) <= Captured
    /\ SumFunctionOnSet([k \in Key |-> given[k] * refund[k].amount],
                        {k \in Key : refund[k].status \in {"pending", "completed"}}) <= Captured

(* A refund is paid out at most once, whatever its requests go through,    *)
(* and one recorded as completed was paid out.                             *)
PaidOutOnce ==
    \A k \in Key :
        /\ given[k] <= 1
        /\ refund[k].status = "completed" => given[k] = 1
        /\ refund[k].status = "none" => given[k] = 0

(* The payment's status tells how much of it has been refunded, although   *)
(* refunds complete concurrently and each only looks once.                 *)
StatusTellsTotal ==
    LET total == TotalOf(refund, {"completed"})
    IN  /\ payment = "completed" <=> total = 0
        /\ payment = "refunded"  <=> total = Captured

Budget == INSTANCE RefundBudget
    WITH reserved <- TotalOf(refund, {"pending"}),
         refunded <- TotalOf(refund, {"completed"}),
         status   <- payment

(* Any number of refunds under any number of keys, racing and dying, are   *)
(* one budget: every step reserves one refund's part, pays it or gives it  *)
(* back, and the status follows in the same step.                          *)
ImplementsBudget == Budget!Spec
=============================================================================
