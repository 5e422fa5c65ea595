--------------------------- MODULE MCSandboxClaims ---------------------------
(* Instances of SandboxClaims: root and an ordinary user with uid 1. *)
EXTENDS SandboxClaims

CONSTANTS root, user

MCuid == [t \in Thread |-> IF t = root THEN 0 ELSE 1]
=============================================================================
