------------------------------- MODULE Mailbox -------------------------------
(***************************************************************************)
(* The mailbox system calls of project 1 (project1.c), executed by tasks   *)
(* that run concurrently: no handler takes a lock.  The file is a          *)
(* prototype; where it does not compile (a missing semicolon, mail for     *)
(* &mail in the list macros) it is read as it is evidently meant.          *)
(*                                                                         *)
(* mbx421_init never succeeds, so MAILBOXC stays 0 and no mailbox is ever  *)
(* linked to the list.  What the handlers do behind a test of MAILBOXC, or *)
(* with an element of the list, is therefore left out.  What remains is    *)
(* the list head itself: mbx421_shutdown deletes it from its own list,     *)
(* which leaves poison in its pointers, and every later walk over the list *)
(* follows the poison.                                                     *)
(***************************************************************************)
EXTENDS Naturals

CONSTANTS Task,  \* the tasks that make the calls
          uid,   \* uid[t] is current_uid().val of task t
          Prob   \* the values passed for the argument prob

VARIABLES MAILBOXC,  \* the global counter MAILBOXC
          mail,      \* where the pointers of the list head lead: "mail" or "poison"
          place,     \* where each task is
          call,      \* the handler each task is executing
          ret,       \* what its last call returned
          poisoner   \* history: the uids that ran the last step of list_del(&mail)

local == <<place, call, ret>>
vars  == <<MAILBOXC, mail, local, poisoner>>

(* The handlers that walk the list of mailboxes. *)
Walkers == {"shutdown", "count", "length", "acl_add", "acl_remove"}

(* "prob != 2 || prob != 4 || prob != 8 || prob != 16". *)
ProbRejected(prob) == prob # 2 \/ prob # 4 \/ prob # 8 \/ prob # 16

Init ==
    /\ MAILBOXC = 0
    /\ mail = "mail"
    /\ place = [t \in Task |-> "user"]
    /\ call = [t \in Task |-> "none"]
    /\ ret = [t \in Task |-> "0"]
    /\ poisoner = {}

Return(t, result) ==
    /\ place' = [place EXCEPT ![t] = "user"]
    /\ call' = [call EXCEPT ![t] = "none"]
    /\ ret' = [ret EXCEPT ![t] = result]

(* The pointers of the list head are followed into poison: the task dies. *)
Oops(t) ==
    /\ place' = [place EXCEPT ![t] = "oops"]
    /\ UNCHANGED <<MAILBOXC, mail, call, ret, poisoner>>

(* The whole handler: it returns one of its errors, or counts up MAILBOXC. *)
mbx421_init(t, ptrs, prob) ==
    /\ place[t] = "user"
    /\ LET error == IF MAILBOXC # 0 THEN "EEXIST"
                    ELSE IF uid[t] # 0 THEN "EPERM"
                    ELSE IF ptrs = 0 \/ ProbRejected(prob) THEN "EINVAL"
                    ELSE "0"
       IN /\ MAILBOXC' = IF error = "0" THEN MAILBOXC + 1 ELSE MAILBOXC
          /\ Return(t, error)
    /\ UNCHANGED <<mail, poisoner>>

(* mbx421_create, mbx421_destroy, mbx421_send and mbx421_recv test MAILBOXC *)
(* before anything else.                                                   *)
NotStarted(t) ==
    /\ place[t] = "user"
    /\ MAILBOXC = 0
    /\ Return(t, "ENOENT")
    /\ UNCHANGED <<MAILBOXC, mail, poisoner>>

(* The handlers root alone may run. *)
Permitted(t, handler) == handler \in {"count", "length"} \/ uid[t] = 0

(* The other handlers do not test MAILBOXC, or only print a message. *)
Enter(t, handler) ==
    /\ place[t] = "user"
    /\ IF Permitted(t, handler)
       THEN /\ place' = [place EXCEPT ![t] = "walk"]
            /\ call' = [call EXCEPT ![t] = handler]
            /\ UNCHANGED ret
       ELSE Return(t, "EPERM")
    /\ UNCHANGED <<MAILBOXC, mail, poisoner>>

NotFound(handler) == CASE handler = "count" -> "EEXIST"
                       [] handler = "length" -> "0"
                       [] OTHER -> "EINVAL"

(* list_for_each(temp, &mail): no element, or a first element at LIST_POISON1. *)
Walk(t) ==
    /\ place[t] = "walk"
    /\ \/ mail = "poison" /\ Oops(t)
       \/ /\ mail = "mail" /\ call[t] = "shutdown"
          /\ place' = [place EXCEPT ![t] = "unlink"]
          /\ UNCHANGED <<MAILBOXC, mail, call, ret, poisoner>>
       \/ /\ mail = "mail" /\ call[t] # "shutdown"
          /\ Return(t, NotFound(call[t]))
          /\ UNCHANGED <<MAILBOXC, mail, poisoner>>

(* list_del(&mail): the neighbours of the head, itself, are linked to each *)
(* other ...                                                               *)
Unlink(t) ==
    /\ place[t] = "unlink"
    /\ \/ mail = "poison" /\ Oops(t)
       \/ /\ mail = "mail"
          /\ place' = [place EXCEPT ![t] = "poison"]
          /\ UNCHANGED <<MAILBOXC, mail, call, ret, poisoner>>

(* ... and its own pointers are poisoned; then "MAILBOXC = 0". *)
Poison(t) ==
    /\ place[t] = "poison"
    /\ mail' = "poison"
    /\ poisoner' = poisoner \cup {uid[t]}
    /\ MAILBOXC' = 0
    /\ Return(t, "0")

(* A new task takes the place of one that died. *)
Replace(t) ==
    /\ place[t] = "oops"
    /\ Return(t, "0")
    /\ UNCHANGED <<MAILBOXC, mail, poisoner>>

Next ==
    \E t \in Task :
        \/ \E ptrs \in {0, 1}, prob \in Prob : mbx421_init(t, ptrs, prob)
        \/ NotStarted(t)
        \/ \E handler \in Walkers : Enter(t, handler)
        \/ Walk(t) \/ Unlink(t) \/ Poison(t) \/ Replace(t)

Spec == Init /\ [][Next]_vars
-----------------------------------------------------------------------------
(* A task dies in a list walk only after root has shut the mailbox down;   *)
(* what a user other than root calls, in whatever interleaving, leaves the *)
(* list head linked to itself.                                             *)
OopsOnlyAfterShutdown ==
    /\ (\E t \in Task : place[t] = "oops") => mail = "poison"
    /\ mail = "poison" => poisoner = {0}

-----------------------------------------------------------------------------
(***************************************************************************)
(* What the message of mbx421_init says and the code does not do.          *)
(***************************************************************************)

(* "Error: Prob can only be 2, 4, 8, or 16" (project1.c:85) and "return 0; *)
(* //If successful" (94): the first call of root that names a number of    *)
(* pointers and one of these values of prob succeeds.  The test in line 84 *)
(* joins four inequalities with ||, and refuses them all.                  *)
InitSucceeds ==
    [][\A t \in Task, ptrs \in {0, 1}, prob \in Prob \cap {2, 4, 8, 16} :
          mbx421_init(t, ptrs, prob) /\ MAILBOXC = 0 /\ uid[t] = 0 /\ ptrs > 0
              => ret'[t] = "0"]_vars
=============================================================================
