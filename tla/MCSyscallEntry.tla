---------------------------- MODULE MCSyscallEntry ----------------------------
(* An instance of SyscallEntry for the exit work: two flags of the exit    *)
(* loop and one that is served once, on the slow path.                     *)
EXTENDS SyscallEntry

ExitFlags == {"NEED_RESCHED", "SIGPENDING", "SINGLESTEP"}
=============================================================================
