------------------------------ MODULE MCSandbox ------------------------------
(***************************************************************************)
(* An instance of Sandbox: root and an ordinary user run concurrently.     *)
(* The user's uid 2 shares a slot with 0, the value of an empty slot and   *)
(* the uid of root, and -1, which only root may name, has the slot -1,     *)
(* outside the array.  With INT = 6 a count of 3 is more than an int can   *)
(* hold.  The table has one entry, with the number 0, whose call matches   *)
(* before it is initialised; that a handler disturbs no other entry is     *)
(* the subject of the theorem BlocksOutlast.                               *)
(***************************************************************************)
EXTENDS Sandbox

CONSTANTS root, user

MCProc == {-1, 0, 2}

MCuid == [t \in Thread |-> IF t = root THEN 0 ELSE 2]
=============================================================================
