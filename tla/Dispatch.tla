------------------------------- MODULE Dispatch -------------------------------
(***************************************************************************)
(* The entry code and the sandbox put together, as do_syscall_64 does it:  *)
(* findder is called on the way in with the number of the call, its answer *)
(* decides whether exit work is done first, and sys_call_table leads to    *)
(* the three handlers of the sandbox like to any other call.               *)
(*                                                                         *)
(* The task self is followed through SyscallEntry and Sandbox at once.  It *)
(* makes 64-bit calls of any number, with no thread flag set: what flags   *)
(* do to a call is the subject of SyscallEntry.  The other tasks are tasks *)
(* of Sandbox alone: the calls of self race with their handlers and        *)
(* lookups.  After a wild access nothing is modelled.                      *)
(***************************************************************************)
EXTENDS Sandbox

CONSTANTS self,          \* the task whose entry into the kernel is followed
          sandboxCall,   \* the entries of sys_call_table that are handlers
          X32,           \* as in SyscallEntry
          MaxDenials     \* bound: lookups begin while no call was denied so often

ASSUME DispatchAssumption ==
    /\ self \in Thread
    /\ DOMAIN sandboxCall \subseteq Entry
    /\ \A n \in DOMAIN sandboxCall : sandboxCall[n] \in {"block", "unblock", "count"}
    /\ X32 \in Nat /\ NRS <= X32 /\ NRS < WORD - X32
    /\ MaxDenials \in Nat

VARIABLES
    place, kind, back, irq, ctx, ipi, flags, cached, item, compat, nr,
    orig_ax, ax, regs, checker, vetted, refused, owed, exits, raised,
                \* of self, as in SyscallEntry
    denials     \* history: denials[n] is how often findder has denied call n
                \* since count[n] was last reset with nobody adding to it

E == INSTANCE SyscallEntry
        WITH pc <- place, NR <- NRS, IA32_NR <- NRS, UINT <- WORD,
             Flag <- {}, MaxRaise <- 0

entry == <<place, kind, back, irq, ctx, ipi, flags, cached, item, compat, nr,
           orig_ax, ax, regs, checker, vetted, refused, owed, exits, raised>>
all   == <<vars, entry, denials>>

DispatchInit ==
    /\ Init
    /\ E!Init
    /\ denials = [n \in Entry |-> 0]

-----------------------------------------------------------------------------
(* Steps of one component alone. *)
InSandbox == UNCHANGED <<entry, denials>>
InEntry == UNCHANGED <<vars, denials>>

(* "permList[nr].count = 0", in a block or in initalizeHash. *)
Resets(t, n) ==
    pc[t] \in {"fill", "write"} /\ <<"count", n>> \in writes[t] \ writes'[t]

(* Somebody has loaded count[n] and is about to store it one higher. *)
Adding(n) == \E t \in Thread : pc[t] = "add" /\ op[t].nr = n

(* A step of a handler. *)
Handle(t) ==
    /\ Handler(t)
    /\ denials' = [n \in Entry |-> IF Resets(t, n) /\ ~Adding(n) THEN 0 ELSE denials[n]]
    /\ UNCHANGED entry

FewDenials == \A n \in Entry : denials[n] < MaxDenials

(* A step of findder; AddCount is where it decides to deny the call. *)
Lookup(t) ==
    /\ Findder(t)
    /\ denials' = IF pc[t] = "add" THEN [denials EXCEPT ![op[t].nr] = @ + 1] ELSE denials
    /\ UNCHANGED entry

(* "int checker = findder(ids, nr)", from the call to the test of the result. *)
CallFindder ==
    /\ place = "findder"
    /\ EnterFindder(self, nr)
    /\ InSandbox

FindderReturns ==
    /\ Leave(self)
    /\ E!FindderCheck(ret[self])
    /\ UNCHANGED denials

(* "regs->ax = sys_call_table[nr](regs)" for a call of the sandbox. *)
CallHandler(proc, n) ==
    /\ place = "dispatch" /\ E!InTable
    /\ E!Target \in DOMAIN sandboxCall
    /\ Enter(self, sandboxCall[E!Target], proc, n)
    /\ InSandbox

HandlerReturns ==
    /\ Leave(self)
    /\ E!RunCall
    /\ UNCHANGED denials

(* ... and for any other call. *)
OtherCall ==
    /\ E!Target \notin DOMAIN sandboxCall
    /\ E!RunCall
    /\ InEntry

(* The steps of do_syscall_64 that are open to a call without thread flags. *)
PlainSteps ==
    \/ E!enter_from_user_mode \/ E!EntryWork \/ E!NoCall \/ E!ReturnSlowpath
    \/ E!DisableIrq \/ E!Prepare \/ E!LeaveKernel \/ E!Iret

(* What self does in the kernel, in the two components. *)
SelfStep ==
    \/ CallFindder \/ Lookup(self) \/ FindderReturns
    \/ \E proc \in Proc, n \in Nr : CallHandler(proc, n)
    \/ Handle(self) \/ (WildAccess(self) /\ InSandbox)
    \/ HandlerReturns \/ OtherCall
    \/ PlainSteps /\ InEntry

OtherStep(t) ==
    \/ Lookup(t) \/ Handle(t)
    \/ (WildAccess(t) \/ Leave(t)) /\ InSandbox

(* New calls. *)
SelfArrives == \E n \in E!Words : E!Syscall64(n) /\ InEntry /\ FewDenials

OtherArrives(t) == Arrive(t) /\ InSandbox /\ FewDenials

Running ==
    \/ SelfStep \/ SelfArrives
    \/ \E t \in Thread \ {self} : OtherStep(t) \/ OtherArrives(t)

(* Nothing is left to do once a wild access has happened, or the bound on  *)
(* the lookups is reached and every task is back in user mode.             *)
Quiet ==
    /\ ub \/ (~FewDenials /\ place = "user" /\ \A t \in Thread : pc[t] = "idle")
    /\ UNCHANGED all

DispatchNext == (~ub /\ Running) \/ Quiet

DispatchSpec == DispatchInit /\ [][DispatchNext]_all

(* Every task in the kernel is scheduled, and the mutex is fair. *)
DispatchFairness ==
    /\ WF_all(~ub /\ SelfStep)
    /\ SF_all(Lock(self) /\ InSandbox)
    /\ \A t \in Thread \ {self} :
          WF_all(~ub /\ OtherStep(t)) /\ SF_all(Lock(t) /\ InSandbox)

DispatchFairSpec == DispatchSpec /\ DispatchFairness
-----------------------------------------------------------------------------
(* mutex_lock sleeps: self comes to it only inside the call it dispatched, *)
(* with interrupts on and in CONTEXT_KERNEL, although a denied call has    *)
(* been through prepare_exit_to_usermode, and it never leaves the dispatch *)
(* holding the mutex.  findder, which runs before enter_from_user_mode     *)
(* with interrupts off, takes no lock.                                     *)
MutexSleepsSafely ==
    /\ pc[self] \in {"lock", "check"} => place = "dispatch" /\ irq /\ ctx = "kernel"
    /\ lockTable = self => place = "dispatch"

(* The counter of an entry never exceeds the denials since a block (or     *)
(* initalizeHash) reset it: lookups add to it outside the mutex, and races *)
(* between them lose denials but invent none.  What was denied before the  *)
(* reset comes back in one way only, when a lookup had loaded the old      *)
(* count and stores it after the reset.                                    *)
CountIsDenials == \A n \in Entry : count[n] <= denials[n]

(* Every system call returns to user mode: the lookup, the wait for the    *)
(* mutex, the handler and the exit work all end, for a denied call too,    *)
(* and no return path of a handler leaves the others waiting.              *)
EveryCallReturns ==
    /\ (place # "user") ~> (place = "user" \/ ub)
    /\ \A t \in Thread \ {self} : (pc[t] # "idle") ~> (pc[t] = "idle" \/ ub)
=============================================================================
