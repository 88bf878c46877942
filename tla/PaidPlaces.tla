----------------------------- MODULE PaidPlaces -----------------------------
(***************************************************************************)
(* What taking payments promises, with no word of requests, callbacks,     *)
(* sessions or workers: a payment's account moves only as the money it     *)
(* stands for does, money that left the buyer comes back only when the     *)
(* account is given up, and a place in an auction goes to the first of     *)
(* its payments that is paid for and never to another one.                 *)
(***************************************************************************)

CONSTANTS
    NoOne,             \* the owner of a place nobody has
    Payment,
    Transfer,          \* payments an administrator may confirm by hand
    Seat,
    SeatOf             \* the place a payment is for, or NoOne

VARIABLES
    money,             \* "buyers", "held", "ours" or "returned"
    account,           \* "open", "reserved", "paid", "given_up" or "closed"
    place              \* whose payment has the place

vars == <<money, account, place>>

Init ==
    /\ money = [p \in Payment |-> "buyers"]
    /\ account = [p \in Payment |-> "open"]
    /\ place = [s \in Seat |-> NoOne]

Gives(p) ==
    place' = [s \in Seat |-> IF s = SeatOf[p] /\ place[s] = NoOne THEN p ELSE place[s]]

(* The buyer's bank sets the money aside.                                  *)
Hold(p) ==
    /\ money[p] = "buyers"
    /\ money' = [money EXCEPT ![p] = "held"]
    /\ UNCHANGED <<account, place>>

(* We come to know of it: with the place, or late and without it.          *)
Reserve(p) ==
    /\ account[p] = "open"
    /\ money[p] # "buyers"
    /\ account' = [account EXCEPT ![p] = "reserved"]
    /\ Gives(p) \/ place' = place
    /\ UNCHANGED money

(* Money moves once it is reserved; the account may not hear of it.        *)
Take(p) ==
    /\ account[p] = "reserved"
    /\ money[p] \in {"held", "ours"}
    /\ money' = [money EXCEPT ![p] = "ours"]
    /\ account' = [account EXCEPT ![p] = "paid"] \/ account' = account
    /\ UNCHANGED place

Return(p) ==
    /\ account[p] = "reserved"
    /\ money[p] # "buyers"
    /\ money' = [money EXCEPT ![p] = "returned"]
    /\ account' = [account EXCEPT ![p] = "given_up"] \/ account' = account
    /\ UNCHANGED place

(* Money that came another way is somebody's word for it.                  *)
Confirm(p) ==
    /\ p \in Transfer
    /\ account[p] = "open"
    /\ account' = [account EXCEPT ![p] = "paid"]
    /\ Gives(p)
    /\ UNCHANGED money

Close(p) ==
    /\ account[p] = "open"
    /\ account' = [account EXCEPT ![p] = "closed"]
    /\ UNCHANGED <<money, place>>

Next == \E p \in Payment :
    Hold(p) \/ Reserve(p) \/ Take(p) \/ Return(p) \/ Confirm(p) \/ Close(p)

Spec == Init /\ [][Next]_vars
=============================================================================
