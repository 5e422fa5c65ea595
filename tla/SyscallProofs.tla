---------------------------- MODULE SyscallProofs ----------------------------
(***************************************************************************)
(* Proofs about SyscallEntry, for every set of flags, every size of the    *)
(* tables and of a word, and any number of raised flags.                   *)
(***************************************************************************)
EXTENDS SyscallEntry, TLAPS

(* The places where a call has entered and its exit has not begun. *)
InKernel == {"get_user", "entry_work", "trace_read", "trace_enter", "seccomp",
             "seccomp_again", "audit", "dispatch", "slowpath", "slow_exit_work", "disable"}

(* prepare_exit_to_usermode and the loop it calls. *)
Leaving == {"prepare", "loop", "recheck", "leave"}

(* What holds at each place: the state of the interrupt flag and of the    *)
(* context tracking; and, from the last look at the flags on, that a work  *)
(* flag set since then has its interrupt pending.                          *)
PlaceInv ==
    /\ pc = "user" => ctx = "user" /\ ~compat /\ (HasWork(flags) => ipi)
    /\ pc \in {"findder", "enter"} => ctx = "user" /\ ~irq /\ ~compat
    /\ pc \in InKernel => ctx = "kernel" /\ irq
    /\ pc \in {"prepare", "recheck"} => ~irq
    /\ pc = "leave" => ~irq /\ (HasWork(flags) => ipi)
    /\ ReadyForUser

(* Before the call has run, prepare_exit_to_usermode is only entered for a *)
(* denied call, in CONTEXT_USER; otherwise it leaves CONTEXT_KERNEL and    *)
(* returns to user mode.                                                   *)
BackInv ==
    /\ pc \in Leaving /\ back = "enter" => checker = 1 /\ ctx = "user"
    /\ pc \in Leaving /\ back = "iret" => ctx = "kernel"
    /\ back \in {"enter", "iret"}

(* Until a call has run its registers are the caller's, unless denied. *)
RegsInv ==
    /\ pc = "findder" => regs = "call"
    /\ checker = 0 /\ pc \in {"enter"} \cup InKernel => regs = "call"

(* The places before seccomp has let the call through. *)
Unjudged == {"findder", "enter", "get_user", "entry_work", "trace_read", "trace_enter",
             "seccomp", "seccomp_again"}

(* Nothing is vetted before seccomp has been asked, and what it lets       *)
(* through is the number that goes to the dispatch.                        *)
VetInv ==
    /\ pc \in Unjudged \/ (pc \in Leaving /\ back = "enter") => vetted = None
    /\ pc = "audit" /\ vetted # None => vetted = orig_ax
    /\ pc = "dispatch" /\ vetted # None
          => nr = (IF kind = "64" THEN vetted ELSE vetted % UINT)

(* A refused call goes to the dispatch at once, with -1 for its number. *)
RefusalInv ==
    /\ pc \in Unjudged \cup {"audit"} \/ (pc \in Leaving /\ back = "enter") => ~refused
    /\ pc = "dispatch" /\ refused => nr = (IF kind = "64" THEN WORD - 1 ELSE UINT - 1)

(* The one-time work of a call is not done before the call has been        *)
(* dispatched, and is done once if it was owed then.                       *)
ExitInv ==
    /\ pc \in Unjudged \cup {"audit", "dispatch", "slowpath"} => exits = 0 /\ owed = 0
    /\ pc \in Leaving /\ back = "enter" => exits = 0
    /\ pc = "slow_exit_work" => exits = 0 /\ owed = 1
    /\ pc \in {"user", "disable", "iret"} \cup Leaving => exits = owed

(* The inductive invariant: none of its parts is inductive without the     *)
(* others, and ReadyForUser rests on what holds at "leave".                 *)
IInv == PlaceInv /\ BackInv /\ RegsInv /\ VetInv /\ RefusalInv /\ ExitInv

-----------------------------------------------------------------------------
(* Changing a mode flag is no work for the exit loop. *)
LEMMA ModeIsNoWork ==
    ASSUME NEW f \in Mode, SetMode(f)
    PROVE  HasWork(flags') = HasWork(flags)
BY DEF SetMode, HasWork, Mode

(* An idle task in user mode satisfies the invariant. *)
LEMMA InitInv == Init => IInv
BY DEF Init, IInv, PlaceInv, BackInv, RegsInv, VetInv, RefusalInv, ExitInv,
            ReadyForUser, HasWork, InKernel, Leaving, Unjudged

(* The steps of an entry, up to the call itself. *)
LEMMA EntryStep ==
    ASSUME IInv,
           (\E answer \in {0, 1} : FindderCheck(answer)) \/ EntrySteps \/ RunCall
    PROVE  IInv'
<1> USE DEF IInv, PlaceInv, BackInv, RegsInv, VetInv, RefusalInv, ExitInv,
            ReadyForUser, HasWork, InKernel, Leaving, Unjudged,
            cpu, local, pt_regs, history, verdict, once
<1>1. ASSUME NEW answer \in {0, 1}, FindderCheck(answer)
      PROVE  IInv'
  BY <1>1 DEF FindderCheck, Found, local_irq_disable
<1>2. CASE enter_from_user_mode
  BY <1>2 DEF enter_from_user_mode, local_irq_enable
<1>3. CASE GetUserFails \/ GetUserWorks
  BY <1>3 DEF GetUserFails, GetUserWorks, local_irq_disable
<1>4. CASE EntryWork \/ TraceRead
  BY <1>4 DEF EntryWork, TraceRead
<1>5. ASSUME NEW abort \in BOOLEAN, NEW n \in Words, NEW result, ReportEntry(abort, n, result)
      PROVE  IInv'
  BY <1>5 DEF ReportEntry, Refuses, Skip
<1>6. ASSUME NEW n \in Words, NEW result, SeccompTraces(n, result)
      PROVE  IInv'
  BY <1>6 DEF SeccompTraces
<1>7. ASSUME NEW result, SeccompRefuses(result)
      PROVE  IInv'
  BY <1>7 DEF SeccompRefuses, Skip
<1>8. CASE NoReport \/ NoSeccomp \/ SeccompAllows \/ EndTrace
  BY <1>8 DEF NoReport, NoSeccomp, SeccompAllows, EndTrace, Traced
<1>9. CASE RunCall \/ NoCall
  BY <1>9 DEF RunCall, NoCall
<1> QED
  BY <1>1, <1>2, <1>3, <1>4, <1>5, <1>6, <1>7, <1>8, <1>9 DEF EntrySteps

(* The steps of an exit, from syscall_return_slowpath to IRET. *)
LEMMA ExitStep ==
    ASSUME IInv, ExitSteps
    PROVE  IInv'
<1> USE DEF IInv, PlaceInv, BackInv, RegsInv, VetInv, RefusalInv, ExitInv, ReadyForUser,
            InKernel, Leaving, Unjudged,
            cpu, local, pt_regs, history, verdict, once
<1>1. CASE ReturnSlowpath
  BY <1>1 DEF ReturnSlowpath, OwesWork
<1>2. ASSUME NEW result, syscall_slow_exit_work(result)
      PROVE  IInv'
  BY <1>2 DEF syscall_slow_exit_work
<1>3. CASE DisableIrq
  BY <1>3 DEF DisableIrq, local_irq_disable
<1>4. CASE Prepare
  BY <1>4 DEF Prepare
<1>5. ASSUME NEW frame, LoopItem(frame)
      PROVE  IInv'
  BY <1>5 DEF LoopItem
<1>6. CASE LoopDisable
  BY <1>6 DEF LoopDisable, local_irq_disable
<1>7. CASE LoopRecheck
  BY <1>7 DEF LoopRecheck, Latest, GoesOn, Again, local_irq_enable
<1>8. CASE LeaveKernel
  BY <1>8 DEF LeaveKernel
<1>9. CASE Iret
  BY <1>9 DEF Iret
<1> QED
  BY <1>1, <1>2, <1>3, <1>4, <1>5, <1>6, <1>7, <1>8, <1>9 DEF ExitSteps

(* Interrupts, new calls and the other CPUs. *)
LEMMA OutsideStep ==
    ASSUME IInv, Environment \/ Interrupts
    PROVE  IInv'
<1> USE DEF IInv, PlaceInv, BackInv, RegsInv, VetInv, RefusalInv, ExitInv, ReadyForUser,
            InKernel, Leaving, Unjudged,
            cpu, local, pt_regs, history, verdict, once
<1>1. ASSUME NEW n \in Words, NEW how, NEW place \in {"findder", "enter"},
             EnterKernel(how, n, place)
      PROVE  IInv'
  BY <1>1 DEF EnterKernel
<1>2. CASE \/ \E n \in Words : Syscall64(n)
           \/ \E how \in {"int80", "fast"}, n \in Words : Syscall32(how, n)
  BY <1>1, <1>2 DEF Syscall64, Syscall32
<1>3. ASSUME NEW f \in Flag \cap EXIT_TO_USERMODE_LOOP_FLAGS, Raise(f)
      PROVE  IInv'
  BY <1>3 DEF Raise
<1>4. ASSUME NEW f \in Mode, SetMode(f)
      PROVE  IInv'
  BY <1>4, ModeIsNoWork DEF SetMode
<1>5. CASE Interrupt
  BY <1>5 DEF Interrupt
<1>6. CASE TakeInterrupt
  BY <1>6 DEF TakeInterrupt
<1> QED
  BY <1>2, <1>3, <1>4, <1>5, <1>6 DEF Environment, Interrupts

(* The invariant is inductive. *)
LEMMA NextInv == IInv /\ [Next]_vars => IInv'
<1> SUFFICES ASSUME IInv, [Next]_vars PROVE IInv'
  OBVIOUS
<1>1. CASE Next
  BY <1>1, EntryStep, ExitStep, OutsideStep DEF Next, Kernel
<1>2. CASE UNCHANGED vars
  BY <1>2 DEF vars, cpu, local, pt_regs, history, verdict, once, IInv, PlaceInv, BackInv, RegsInv,
              VetInv, RefusalInv, ExitInv, ReadyForUser
<1> QED
  BY <1>1, <1>2

-----------------------------------------------------------------------------
(* IInv is an invariant of the entry code. *)
THEOREM Invariance == Spec => []IInv
BY InitInv, NextInv, PTL DEF Spec

(* The exit path returns to user mode with interrupts off, in the user     *)
(* context and with no work it could have seen, whatever the flags are.    *)
THEOREM ReturnIsReady == Spec => []ReadyForUser
<1>1. IInv => ReadyForUser
  BY DEF IInv, PlaceInv
<1> QED
  BY <1>1, Invariance, PTL

(* No CT_WARN_ON or WARN of the entry code can fire, for denied calls too. *)
THEOREM WarningsSilent == Spec => []ContextWarningsSilent
<1>1. IInv => ContextWarningsSilent
  BY DEF IInv, PlaceInv, ContextWarningsSilent, InKernel
<1> QED
  BY <1>1, Invariance, PTL

(* Exit work precedes the call only for a call the sandbox denies. *)
THEOREM ExitWorkAfterEntry == Spec => []WorkAfterEntry
<1>1. IInv => WorkAfterEntry
  BY DEF IInv, BackInv, RegsInv, WorkAfterEntry, InKernel, Leaving
<1> QED
  BY <1>1, Invariance, PTL

(* Seccomp is asked about the call that runs, after a tracer had its say. *)
THEOREM SeccompIsLast == Spec => []SeccompSeesWhatRuns
<1>1. IInv => SeccompSeesWhatRuns
  BY DEF IInv, VetInv, SeccompSeesWhatRuns, Target
<1> QED
  BY <1>1, Invariance, PTL

(* The one-time work of syscall_slow_exit_work is done exactly once per    *)
(* call that owes it and with interrupts on, however often the exit loop   *)
(* runs, and not at all by the others.                                     *)
THEOREM OneTimeWorkOnce == Spec => []OneTimeWork
<1>1. IInv => OneTimeWork
  BY DEF IInv, PlaceInv, ExitInv, OneTimeWork, InKernel, Leaving
<1> QED
  BY <1>1, Invariance, PTL

(* -1, masked or truncated, is no index of either table. *)
LEMMA MinusOneIsNoIndex ==
    /\ ~(Masked(WORD - 1) < NR)
    /\ ~(UINT - 1 < IA32_NR)
BY EntryAssumption DEF Masked

(* A call that its tracer, the emulation flag or seccomp has refused is    *)
(* not run, whatever its number has become, for every size of the tables   *)
(* and of a word.                                                          *)
THEOREM RefusedCallsSkipped == Spec => []RefusedIsNeverRun
<1>1. IInv => RefusedIsNeverRun
  BY MinusOneIsNoIndex DEF IInv, RefusalInv, RefusedIsNeverRun, InTable, Target
<1> QED
  BY <1>1, Invariance, PTL

-----------------------------------------------------------------------------
(* The numbers a call can come to are words. *)
LEMMA NumbersAreWords ==
    /\ 0 \in Words /\ WORD - 1 \in Words /\ UINT - 1 \in Words
    /\ \A n \in Words : n % UINT \in Words
BY EntryAssumption DEF Words

(* The steps of an entry keep the types. *)
LEMMA EntryTypes ==
    ASSUME TypeOK,
           (\E answer \in {0, 1} : FindderCheck(answer)) \/ EntrySteps \/ RunCall
    PROVE  TypeOK'
<1> USE DEF TypeOK, Places, Results, cpu, local, pt_regs, history, verdict, once
<1>1. ASSUME NEW answer \in {0, 1}, FindderCheck(answer)
      PROVE  TypeOK'
  <2>1. irq' \in BOOLEAN /\ ipi' \in BOOLEAN /\ compat' \in BOOLEAN
    BY <1>1, Zenon DEF FindderCheck, Found, local_irq_disable
  <2> QED
    BY <1>1, <2>1 DEF FindderCheck, Found, local_irq_disable
<1>2. CASE enter_from_user_mode
  BY <1>2 DEF enter_from_user_mode, local_irq_enable
<1>3. CASE GetUserFails \/ GetUserWorks
  <2>1. irq' \in BOOLEAN /\ ipi' \in BOOLEAN /\ compat' \in BOOLEAN
    BY <1>3, Zenon DEF GetUserFails, GetUserWorks, local_irq_disable
  <2> QED
    BY <1>3, <2>1 DEF GetUserFails, GetUserWorks, local_irq_disable
<1>4. CASE EntryWork \/ TraceRead
  <2>1. irq' \in BOOLEAN /\ ipi' \in BOOLEAN /\ compat' \in BOOLEAN
    BY <1>4, Zenon DEF EntryWork, TraceRead
  <2> QED
    BY <1>4, <2>1 DEF EntryWork, TraceRead
<1>5. ASSUME NEW abort \in BOOLEAN, NEW n \in Words, NEW result \in {"-ENOSYS", "tracer"},
             ReportEntry(abort, n, result)
      PROVE  TypeOK'
  <2>1. refused' \in BOOLEAN
    BY <1>5, Zenon DEF ReportEntry
  <2> QED
    BY <1>5, <2>1, NumbersAreWords DEF ReportEntry, Refuses, Skip
<1>6. ASSUME NEW n \in Words, NEW result \in {"-ENOSYS", "tracer"}, SeccompTraces(n, result)
      PROVE  TypeOK'
  BY <1>6 DEF SeccompTraces
<1>7. ASSUME NEW result \in {ax, "seccomp"}, SeccompRefuses(result)
      PROVE  TypeOK'
  BY <1>7, NumbersAreWords DEF SeccompRefuses, Skip
<1>8. CASE NoReport \/ NoSeccomp \/ SeccompAllows \/ EndTrace
  BY <1>8, NumbersAreWords DEF NoReport, NoSeccomp, SeccompAllows, EndTrace, Traced
<1>9. CASE RunCall \/ NoCall
  BY <1>9 DEF RunCall, NoCall
<1> QED
  BY <1>1, <1>2, <1>3, <1>4, <1>5, <1>6, <1>7, <1>8, <1>9 DEF EntrySteps

(* The steps of an exit keep the types. *)
LEMMA ExitTypes ==
    ASSUME TypeOK, ExitSteps
    PROVE  TypeOK'
<1> USE DEF TypeOK, Places, Results, cpu, local, pt_regs, history, verdict, once
<1>1. CASE ReturnSlowpath
  BY <1>1 DEF ReturnSlowpath
<1>2. ASSUME NEW result \in {ax, "tracer"}, syscall_slow_exit_work(result)
      PROVE  TypeOK'
  BY <1>2 DEF syscall_slow_exit_work
<1>3. CASE DisableIrq
  <2>1. irq' \in BOOLEAN /\ ipi' \in BOOLEAN /\ compat' \in BOOLEAN
    BY <1>3, Zenon DEF DisableIrq, local_irq_disable
  <2> QED
    BY <1>3, <2>1 DEF DisableIrq, local_irq_disable
<1>4. CASE Prepare
  <2>1. irq' \in BOOLEAN /\ ipi' \in BOOLEAN /\ compat' \in BOOLEAN
    BY <1>4, Zenon DEF Prepare, local_irq_enable, LoopOrder
  <2> QED
    BY <1>4, <2>1 DEF Prepare, local_irq_enable, LoopOrder
<1>5. ASSUME NEW frame \in {regs, "handler"}, LoopItem(frame)
      PROVE  TypeOK'
  <2>1. flags' \subseteq flags
    BY <1>5 DEF LoopItem, Served
  <2> QED
    BY <1>5, <2>1 DEF LoopItem, LoopOrder
<1>6. CASE LoopDisable
  <2>1. irq' \in BOOLEAN /\ ipi' \in BOOLEAN /\ compat' \in BOOLEAN
    BY <1>6, Zenon DEF LoopDisable, local_irq_disable
  <2> QED
    BY <1>6, <2>1 DEF LoopDisable, local_irq_disable
<1>7. CASE LoopRecheck
  <2>1. irq' \in BOOLEAN /\ ipi' \in BOOLEAN /\ compat' \in BOOLEAN
    BY <1>7, Zenon DEF LoopRecheck, Again, local_irq_enable
  <2>2. item' \in 1 .. Len(LoopOrder) + 1
    BY <1>7 DEF LoopRecheck, Again, LoopOrder
  <2> QED
    BY <1>7, <2>1, <2>2 DEF LoopRecheck, Latest, Again
<1>8. CASE LeaveKernel
  <2>1. irq' \in BOOLEAN /\ ipi' \in BOOLEAN /\ compat' \in BOOLEAN
    BY <1>8, Zenon DEF LeaveKernel
  <2> QED
    BY <1>8, <2>1 DEF LeaveKernel
<1>9. CASE Iret
  BY <1>9 DEF Iret
<1> QED
  BY <1>1, <1>2, <1>3, <1>4, <1>5, <1>6, <1>7, <1>8, <1>9 DEF ExitSteps

(* Interrupts, new calls and the other CPUs keep the types. *)
LEMMA OutsideTypes ==
    ASSUME TypeOK, Environment \/ Interrupts
    PROVE  TypeOK'
<1> USE DEF TypeOK, Places, Results, cpu, local, pt_regs, history, verdict, once
<1>1. ASSUME NEW n \in Words, NEW how \in {"64", "int80", "fast"},
             NEW place \in {"findder", "enter"}, EnterKernel(how, n, place)
      PROVE  TypeOK'
  BY <1>1 DEF EnterKernel
<1>2. CASE \/ \E n \in Words : Syscall64(n)
           \/ \E how \in {"int80", "fast"}, n \in Words : Syscall32(how, n)
  BY <1>1, <1>2 DEF Syscall64, Syscall32
<1>3. ASSUME NEW f \in Flag \cap EXIT_TO_USERMODE_LOOP_FLAGS, Raise(f)
      PROVE  TypeOK'
  <2>1. raised' \in 0 .. MaxRaise
    BY <1>3, EntryAssumption DEF Raise
  <2> QED
    BY <1>3, <2>1 DEF Raise
<1>4. ASSUME NEW f \in Mode, SetMode(f)
      PROVE  TypeOK'
  BY <1>4 DEF SetMode, Mode
<1>5. CASE Interrupt
  BY <1>5 DEF Interrupt
<1>6. CASE TakeInterrupt
  <2>1. irq' \in BOOLEAN /\ ipi' \in BOOLEAN /\ compat' \in BOOLEAN
    BY <1>6, Zenon DEF TakeInterrupt
  <2> QED
    BY <1>6, <2>1 DEF TakeInterrupt
<1> QED
  BY <1>2, <1>3, <1>4, <1>5, <1>6 DEF Environment, Interrupts

(* Every variable of the entry code keeps its type; nr and orig_ax stay    *)
(* inside a word, also where -1 or a tracer's number is converted.         *)
THEOREM TypeCorrect == Spec => []TypeOK
<1>1. Init => TypeOK
  <2> SUFFICES ASSUME Init PROVE TypeOK
    OBVIOUS
  <2>1. irq \in BOOLEAN /\ ipi \in BOOLEAN /\ compat \in BOOLEAN
    BY Zenon DEF Init
  <2>2. raised \in 0 .. MaxRaise /\ item \in 1 .. Len(LoopOrder) + 1 /\ exits \in Nat
    BY EntryAssumption DEF Init, LoopOrder
  <2> QED
    BY <2>1, <2>2, NumbersAreWords DEF Init, TypeOK, Places, Results
<1>2. TypeOK /\ [Next]_vars => TypeOK'
  <2> SUFFICES ASSUME TypeOK, [Next]_vars PROVE TypeOK'
    OBVIOUS
  <2>1. CASE Next
    BY <2>1, EntryTypes, ExitTypes, OutsideTypes DEF Next, Kernel
  <2>2. CASE UNCHANGED vars
    BY <2>2 DEF vars, cpu, local, pt_regs, history, verdict, once, TypeOK
  <2> QED
    BY <2>1, <2>2
<1> QED
  BY <1>1, <1>2, PTL DEF Spec
=============================================================================
