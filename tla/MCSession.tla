------------------------------ MODULE MCSession -----------------------------
(***************************************************************************)
(* A small instance of Session: one tab, whose page load refreshes beside  *)
(* its calls as another tab's would.                                       *)
(***************************************************************************)
EXTENDS Session

CONSTANT t1

MCTabOf == [c \in Call |-> t1]
=============================================================================
