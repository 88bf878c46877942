---------------------------- MODULE RefundBudget ----------------------------
(***************************************************************************)
(* What refunding a payment promises, with no word of requests, keys or    *)
(* providers: a budget of the captured amount.  A refund first reserves    *)
(* its part, is then paid from it or gives it back, and the payment's      *)
(* status says at every moment how much has been paid back.                *)
(***************************************************************************)
EXTENDS Naturals

CONSTANTS
    Captured,          \* the payment's amount
    Amounts            \* what may be asked for

VARIABLES
    reserved,          \* refunds under way
    refunded,          \* refunds paid
    status             \* the payment's

vars == <<reserved, refunded, status>>

StatusOf(total) ==
    CASE total = 0        -> "completed"
      [] total = Captured -> "refunded"
      [] OTHER            -> "partially_refunded"

Init ==
    /\ reserved = 0
    /\ refunded = 0
    /\ status = "completed"

Reserve(a) ==
    /\ reserved + refunded + a <= Captured
    /\ reserved' = reserved + a
    /\ UNCHANGED <<refunded, status>>

Pay(a) ==
    /\ a <= reserved
    /\ reserved' = reserved - a
    /\ refunded' = refunded + a
    /\ status' = StatusOf(refunded')

GiveBack(a) ==
    /\ a <= reserved
    /\ reserved' = reserved - a
    /\ UNCHANGED <<refunded, status>>

Next == \E a \in Amounts : Reserve(a) \/ Pay(a) \/ GiveBack(a)

Spec == Init /\ [][Next]_vars
=============================================================================
