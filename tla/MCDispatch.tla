----------------------------- MODULE MCDispatch -----------------------------
(* self and other are two tasks of an ordinary user with uid 2, which is   *)
(* the int -2; 0 is the uid of somebody else.  permList and sys_call_table *)
(* have two entries: 0 is sbx421_unblock and 1 an ordinary call; the x32   *)
(* bit is that of 2.                                                       *)
EXTENDS Dispatch, TLC

CONSTANT other

MCuid == [t \in Thread |-> 2]

MCProc == {-2, 0}

MCsandboxCall == 0 :> "unblock"
=============================================================================
