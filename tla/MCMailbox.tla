----------------------------- MODULE MCMailbox -----------------------------
(* Two tasks of root and one of an ordinary user. *)
EXTENDS Mailbox

CONSTANTS root1, root2, user

MCuid == [t \in Task |-> IF t = user THEN 1 ELSE 0]
=============================================================================
