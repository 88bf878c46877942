--------------------------- MODULE EnglishAuction ---------------------------
(***************************************************************************)
(* What one auction promises its bidders, with no word of Redis, rows,     *)
(* transactions or workers: offers only ever rise, each by at least the    *)
(* increment; a deadline that offers may push back and nothing may bring   *)
(* forward; no offer once the auction stops, which is never before the     *)
(* deadline; and the lot goes to the last, highest offer.                  *)
(***************************************************************************)
EXTENDS Naturals, Sequences

CONSTANTS
    None,              \* "no offer won"
    Keys,              \* the attempts bidders make, each counted at most once
    Amounts,           \* what can be offered
    StartingPrice,
    MinimumIncrement

VARIABLES
    clock,
    phase,             \* "upcoming", "open", "closing", "closed"
    offers,            \* accepted offers, in order: [key, amount]
    deadline,
    sold               \* index in offers of the winning one, or None

vars == <<clock, phase, offers, deadline, sold>>

Asking == IF offers = <<>> THEN StartingPrice ELSE offers[Len(offers)].amount

Init ==
    /\ clock \in Nat
    /\ phase \in {"upcoming", "open"}
    /\ offers = <<>>
    /\ deadline \in Nat
    /\ sold = None

TimePasses ==
    /\ clock' > clock
    /\ UNCHANGED <<phase, offers, deadline, sold>>

Offer(k, a) ==
    /\ phase = "open"
    /\ \A i \in 1 .. Len(offers) : offers[i].key # k
    /\ a >= Asking + MinimumIncrement
    /\ offers' = Append(offers, [key |-> k, amount |-> a])
    /\ deadline' >= deadline
    /\ UNCHANGED <<clock, phase, sold>>

Stop ==
    /\ phase = "open"
    /\ clock >= deadline
    /\ phase' = "closing"
    /\ UNCHANGED <<clock, offers, deadline, sold>>

Close ==
    /\ phase = "closing"
    /\ phase' = "closed"
    /\ sold' = IF offers = <<>> THEN None ELSE Len(offers)
    /\ UNCHANGED <<clock, offers, deadline>>

Next ==
    \/ TimePasses
    \/ \E k \in Keys, a \in Amounts : Offer(k, a)
    \/ Stop
    \/ Close

Spec == Init /\ [][Next]_vars
=============================================================================
