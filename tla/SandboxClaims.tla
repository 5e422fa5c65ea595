---------------------------- MODULE SandboxClaims ----------------------------
(***************************************************************************)
(* What the comments, messages and design of project 2 say of the sandbox  *)
(* and the code in proj2.c does not do.  Each formula is checked by a run  *)
(* that is expected to find it violated; the comment quotes the claim.     *)
(***************************************************************************)
EXTENDS Sandbox

(* "int started = 0; //Check if inialized" (proj2.h:39): the table is      *)
(* initialised once, so while no handler holds the mutex a block that was  *)
(* accepted stays in force.  Two tasks that both read started = 0 both run *)
(* initalizeHash, and the slower one wipes the block the faster one was    *)
(* told had been accepted.                                                 *)
AcceptedBlockStands ==
    [][\A p \in policy :
          lockTable = NoThread /\ Denies(p[1], p[2]) => Denies(p[1], p[2])']_vars

(* "Error: Proccess %d is already blocked for system call %ld"             *)
(* (proj2.c:56), with the comment "Update count" on the next line: a       *)
(* refused second block leaves the block in force.  The code adds one to   *)
(* call instead of count, and the entry no longer matches its nr.          *)
SecondBlockKeepsDenial ==
    [][\A t \in Thread :
          LET o == op[t] IN
          Bump(t) /\ Denies(o.proc, o.nr) => Denies(o.proc, o.nr)']_vars
==============================================================================
