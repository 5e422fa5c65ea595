---------------------------- MODULE MailboxProofs ----------------------------
(***************************************************************************)
(* Proofs about Mailbox, for every set of tasks, every assignment of uids  *)
(* and every value of prob.                                                *)
(***************************************************************************)
EXTENDS Mailbox, TLAPS

TypeInv ==
    /\ place \in [Task -> {"user", "walk", "unlink", "poison", "oops"}]
    /\ call \in [Task -> Walkers \cup {"none"}]
    /\ mail \in {"mail", "poison"}
    /\ poisoner \in {{}, {0}}

(* Only root is inside mbx421_shutdown. *)
Entitled ==
    \A t \in Task :
        place[t] \in {"unlink", "poison"} \/ (place[t] = "walk" /\ call[t] = "shutdown")
            => uid[t] = 0

(* The mailbox is never started, which is why Mailbox leaves out what the  *)
(* handlers do behind a test of MAILBOXC.                                  *)
NeverStarted == MAILBOXC = 0

(* OopsOnlyAfterShutdown rests on Entitled, and is inductive with it. *)
IInv == TypeInv /\ Entitled /\ NeverStarted /\ OopsOnlyAfterShutdown

-----------------------------------------------------------------------------
(* The test of prob in mbx421_init refuses every value. *)
LEMMA EveryProbRejected == \A prob : ProbRejected(prob)
BY DEF ProbRejected

(* Initially there is no mailbox and the list head is linked to itself. *)
LEMMA InitInv == Init => IInv
BY DEF Init, IInv, TypeInv, Entitled, NeverStarted, OopsOnlyAfterShutdown

(* Every step of a task keeps the invariant. *)
LEMMA NextInv == IInv /\ [Next]_vars => IInv'
<1> SUFFICES ASSUME IInv, [Next]_vars PROVE IInv'
  OBVIOUS
<1> USE DEF IInv, TypeInv, Entitled, NeverStarted, OopsOnlyAfterShutdown
<1>1. ASSUME NEW t \in Task, NEW ptrs \in {0, 1}, NEW prob \in Prob, mbx421_init(t, ptrs, prob)
      PROVE  IInv'
  <2>1. ProbRejected(prob)
    BY EveryProbRejected
  <2>2. MAILBOXC' = 0
    BY <1>1, <2>1 DEF mbx421_init
  <2> QED
    BY <1>1, <2>2 DEF mbx421_init, Return
<1>2. ASSUME NEW t \in Task, NotStarted(t)
      PROVE  IInv'
  BY <1>2 DEF NotStarted, Return
<1>3. ASSUME NEW t \in Task, NEW handler \in Walkers, Enter(t, handler)
      PROVE  IInv'
  BY <1>3 DEF Enter, Return, Permitted, Walkers
<1>4. ASSUME NEW t \in Task, Walk(t)
      PROVE  IInv'
  BY <1>4 DEF Walk, Oops, Return, Walkers
<1>5. ASSUME NEW t \in Task, Unlink(t)
      PROVE  IInv'
  BY <1>5 DEF Unlink, Oops
<1>6. ASSUME NEW t \in Task, Poison(t)
      PROVE  IInv'
  <2>1. poisoner' = {0}
    BY <1>6 DEF Poison
  <2> QED
    BY <1>6, <2>1 DEF Poison, Return
<1>7. ASSUME NEW t \in Task, Replace(t)
      PROVE  IInv'
  BY <1>7 DEF Replace, Return
<1>8. CASE UNCHANGED vars
  BY <1>8 DEF vars, local
<1> QED
  BY <1>1, <1>2, <1>3, <1>4, <1>5, <1>6, <1>7, <1>8 DEF Next

(* IInv is an invariant of the mailbox calls. *)
THEOREM Invariance == Spec => []IInv
BY InitInv, NextInv, PTL DEF Spec

(* OopsOnlyAfterShutdown: a task dies in a walk over the list only when    *)
(* root has shut the mailbox down, however the calls are interleaved.      *)
THEOREM WalksAreSafe == Spec => []OopsOnlyAfterShutdown
<1>1. IInv => OopsOnlyAfterShutdown
  BY DEF IInv
<1> QED
  BY <1>1, Invariance, PTL
=============================================================================
