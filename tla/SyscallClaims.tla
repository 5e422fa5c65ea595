---------------------------- MODULE SyscallClaims ----------------------------
(***************************************************************************)
(* What the comments of the addition to do_syscall_64 say and the code     *)
(* does not do: a run finds it violated.                                   *)
(***************************************************************************)
EXTENDS SyscallEntry

(* "If the call was found in the table", "Set error for access"            *)
(* (common.c:303-304): a call findder denies returns -EACCES.  The         *)
(* function does not return there, so the call runs and its result         *)
(* replaces the error.                                                     *)
DeniedCallFails == pc = "iret" /\ checker = 1 => ax = "-EACCES"
=============================================================================
