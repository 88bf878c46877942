--------------------------- MODULE DepositEscrow ---------------------------
(***************************************************************************)
(* What settling an auction promises the people whose deposits are held,   *)
(* with no word of manifests, ledgers, locks or payment providers: the     *)
(* winner's deposit is taken, everybody else's is returned, each once and  *)
(* neither undone; and the auction is called settled only when no deposit  *)
(* is left undecided.                                                      *)
(***************************************************************************)

CONSTANTS
    Depositors,
    Winner             \* one of the Depositors, or something else: no winner

VARIABLES
    money,             \* every deposit: "held", "taken" or "returned"
    outcome            \* "pending", "settled" or "failed"

vars == <<money, outcome>>

Init ==
    /\ money = [d \in Depositors |-> "held"]
    /\ outcome = "pending"

Take ==
    /\ Winner \in Depositors
    /\ money[Winner] = "held"
    /\ money' = [money EXCEPT ![Winner] = "taken"]
    /\ UNCHANGED outcome

Return(d) ==
    /\ d # Winner
    /\ money[d] = "held"
    /\ money' = [money EXCEPT ![d] = "returned"]
    /\ UNCHANGED outcome

Settle ==
    /\ outcome = "pending"
    /\ \A d \in Depositors : money[d] # "held"
    /\ outcome' = "settled"
    /\ UNCHANGED money

(* A person has to look at it; what can still be decided may be.           *)
Fail ==
    /\ outcome = "pending"
    /\ outcome' = "failed"
    /\ UNCHANGED money

Next == Take \/ (\E d \in Depositors : Return(d)) \/ Settle \/ Fail

Spec == Init /\ [][Next]_vars
=============================================================================
