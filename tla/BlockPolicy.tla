----------------------------- MODULE BlockPolicy -----------------------------
(***************************************************************************)
(* What the sandbox promises about denials, without its table, its lock or *)
(* its hash function.  A policy is a set of pairs <<uid, system call>>.    *)
(* Only root and the user concerned change it, and a user other than root  *)
(* is denied a system call only while the policy names that pair.          *)
(*                                                                         *)
(* The promise is one-sided: nothing here says that every pair of the      *)
(* policy is denied.  The code does not deliver that half; the violation   *)
(* runs of the Sandbox modules show where it is lost.                      *)
(***************************************************************************)
EXTENDS Integers

CONSTANTS Thread,  \* the tasks that enter the kernel
          uid,     \* uid[t] is the uid of task t, as an int
          User,    \* the users that can be named
          Call     \* the system call numbers that can be named

VARIABLES policy,  \* the pairs <<uid, nr>> that are blocked
          denial   \* denial[t] is the call t is being denied, NoDenial if none

vars == <<policy, denial>>

NoDenial == -1

Init ==
    /\ policy = {}
    /\ denial = [t \in Thread |-> NoDenial]

(* Task t is root or the user whose own calls are blocked or unblocked. *)
Entitled(t, user) == uid[t] \in {0, user}

Block(t, user, nr) ==
    /\ Entitled(t, user)
    /\ policy' = policy \cup {<<user, nr>>}
    /\ UNCHANGED denial

Unblock(t, user, nr) ==
    /\ Entitled(t, user)
    /\ policy' = policy \ {<<user, nr>>}
    /\ UNCHANGED denial

Deny(t, nr) ==
    /\ denial[t] = NoDenial
    /\ uid[t] = 0 \/ <<uid[t], nr>> \in policy
    /\ denial' = [denial EXCEPT ![t] = nr]
    /\ UNCHANGED policy

EndDenial(t) ==
    /\ denial' = [denial EXCEPT ![t] = NoDenial]
    /\ UNCHANGED policy

Next ==
    \E t \in Thread :
        \/ \E user \in User, nr \in Call :
               Block(t, user, nr) \/ Unblock(t, user, nr)
        \/ \E nr \in Call : Deny(t, nr)
        \/ EndDenial(t)

Spec == Init /\ [][Next]_vars
=============================================================================
