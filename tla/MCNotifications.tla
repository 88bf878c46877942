--------------------------- MODULE MCNotifications --------------------------
(***************************************************************************)
(* A small instance of Notifications: two rows, of which a crash may cost  *)
(* one, and two dispatchers that contend for both.                         *)
(***************************************************************************)
EXTENDS Notifications
=============================================================================
