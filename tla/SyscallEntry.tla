----------------------------- MODULE SyscallEntry -----------------------------
(***************************************************************************)
(* System call entry and exit (project 2/common.c), with the lookup of the *)
(* sandbox that project 2 adds at the top of do_syscall_64.                *)
(*                                                                         *)
(* One task runs on one CPU.  Around it, other CPUs raise work flags and   *)
(* send an interrupt for them, a tracer changes the mode flags, and,       *)
(* while the task is stopped for it, its registers.  An action is the code *)
(* between two points where one of them can be noticed: a change of the    *)
(* interrupt flag, a READ_ONCE of the thread flags, a stop.                *)
(*                                                                         *)
(* FoundAlways, EnableNothing, SkipSigned, RefusesAborted, TracedStale,    *)
(* OwesEntryWork, ServedLast, Stale and Never are faulty variants of the   *)
(* definition that follows them; no action uses them.  PROJECT.json names  *)
(* the property each one breaks.                                           *)
(***************************************************************************)
EXTENDS Integers, Sequences

CONSTANTS Flag,       \* the thread flags this kernel uses
          NR,         \* NR_syscalls
          IA32_NR,    \* IA32_NR_syscalls
          X32,        \* the x32 bit of a system call number
          WORD,       \* an unsigned long holds 0 .. WORD-1
          UINT,       \* an unsigned int holds 0 .. UINT-1
          MaxRaise    \* bound: how often a work flag is raised

ASSUME EntryAssumption ==
    /\ NR \in Nat /\ IA32_NR \in Nat /\ X32 \in Nat /\ WORD \in Nat /\ UINT \in Nat
    /\ 0 < NR /\ NR <= X32 /\ 0 < IA32_NR
    /\ NR < WORD - X32          \* -1 & __SYSCALL_MASK is no index of the table
    /\ IA32_NR < UINT /\ UINT <= WORD
    /\ MaxRaise \in Nat

VARIABLES
    pc,       \* where the task is; "user" is user mode
    kind,     \* how it entered: "64", "int80", "fast" or "irq"
    back,     \* where prepare_exit_to_usermode returns to
    irq,      \* interrupts are enabled on the CPU
    ctx,      \* ct_state(): "user" or "kernel"
    ipi,      \* an interrupt waits to be taken
    flags,    \* current_thread_info()->flags
    cached,   \* the local copy: work or cached_flags
    item,     \* position in the body of exit_to_usermode_loop
    compat,   \* TS_COMPAT is set in current_thread_info()->status
    nr,       \* the local variable nr
    orig_ax,  \* regs->orig_ax
    ax,       \* regs->ax
    regs,     \* whose registers regs holds: "call" or a signal's "handler"
    checker,  \* the local variable checker, the answer of findder
    vetted,   \* history: the number seccomp let through
    refused,  \* history: the tracer or seccomp has refused this call
    owed,     \* history: 1 when the call reached the slow path with exit work to do
    exits,    \* history: runs of syscall_slow_exit_work in this call
    raised    \* number of flags raised

cpu     == <<irq, ctx, ipi>>
local   == <<cached, item, compat>>
pt_regs == <<orig_ax, ax, regs>>
verdict == <<vetted, refused>>
once    == <<owed, exits>>
history == <<checker, verdict, once, raised>>

vars == <<pc, kind, back, cpu, flags, local, nr, pt_regs, history>>

Words  == 0 .. WORD - 1
None   == -1

-----------------------------------------------------------------------------
(***************************************************************************)
(* The flag masks, and the order in which exit_to_usermode_loop looks.     *)
(***************************************************************************)
LoopOrder == <<"NEED_RESCHED", "UPROBE", "PATCH_PENDING", "SIGPENDING",
               "NOTIFY_RESUME", "USER_RETURN_NOTIFY">>

EXIT_TO_USERMODE_LOOP_FLAGS ==
    {"SIGPENDING", "NOTIFY_RESUME", "UPROBE", "NEED_RESCHED",
     "USER_RETURN_NOTIFY", "PATCH_PENDING"}

SYSCALL_EXIT_WORK_FLAGS ==
    {"SYSCALL_TRACE", "SYSCALL_AUDIT", "SINGLESTEP", "SYSCALL_TRACEPOINT"}

(* _TIF_WORK_SYSCALL_ENTRY, defined in thread_info.h. *)
WORK_SYSCALL_ENTRY ==
    {"SYSCALL_TRACE", "SYSCALL_EMU", "SYSCALL_AUDIT", "SECCOMP", "SYSCALL_TRACEPOINT"}

Mode == Flag \ EXIT_TO_USERMODE_LOOP_FLAGS

(* nr & __SYSCALL_MASK: the x32 bit is cleared. *)
Masked(n) == IF (n \div X32) % 2 = 1 THEN n - X32 ELSE n

-----------------------------------------------------------------------------
Init ==
    /\ pc = "user" /\ kind = "irq" /\ back = "iret"
    /\ irq = TRUE /\ ctx = "user" /\ ipi = FALSE
    /\ flags = {} /\ cached = {} /\ item = 1 /\ compat = FALSE
    /\ nr = 0 /\ orig_ax = 0 /\ ax = "user" /\ regs = "call"
    /\ checker = 0 /\ vetted = None /\ refused = FALSE
    /\ owed = 0 /\ exits = 0 /\ raised = 0

local_irq_disable == irq' = FALSE

EnableNothing == UNCHANGED irq
local_irq_enable == irq' = TRUE

(***************************************************************************)
(* Entry.  The assembler stubs come with interrupts off, the call number   *)
(* in orig_ax and -ENOSYS in ax.                                           *)
(***************************************************************************)
EnterKernel(how, n, place) ==
    /\ pc = "user"
    /\ pc' = place /\ kind' = how
    /\ irq' = FALSE
    /\ nr' = n /\ orig_ax' = n /\ ax' = "-ENOSYS" /\ regs' = "call"
    /\ checker' = 0 /\ vetted' = None /\ refused' = FALSE
    /\ owed' = 0 /\ exits' = 0
    /\ UNCHANGED <<back, ctx, ipi, flags, local, raised>>

Syscall64(n) == EnterKernel("64", n, "findder")

(* int80 and the vDSO entry; nr is (unsigned int)regs->orig_ax. *)
Syscall32(how, n) == n < UINT /\ EnterKernel(how, n, "enter")

(* An interrupt that arrives in user mode is handled, and the stub returns *)
(* through prepare_exit_to_usermode like a system call.                    *)
Interrupt ==
    /\ pc = "user" /\ ipi
    /\ pc' = "prepare" /\ kind' = "irq" /\ back' = "iret"
    /\ irq' = FALSE /\ ipi' = FALSE /\ ctx' = "kernel"
    /\ checker' = 0
    /\ UNCHANGED <<flags, local, nr, pt_regs, verdict, once, raised>>

(* "checker == 1". *)
FoundAlways(answer) == answer \in {0, 1}
Found(answer) == answer = 1

(* The addition of project 2: findder(current_cred()->uid.val, nr).  Its   *)
(* answer is whatever the table says at that moment.  On 1 the exit work   *)
(* is done, and then the function goes on to enter_from_user_mode.         *)
FindderCheck(answer) ==
    /\ pc = "findder"
    /\ checker' = answer
    /\ IF Found(answer)
       THEN /\ ax' = "-EACCES"
            /\ local_irq_disable
            /\ pc' = "prepare" /\ back' = "enter"
       ELSE /\ pc' = "enter"
            /\ UNCHANGED <<ax, irq, back>>
    /\ UNCHANGED <<kind, ctx, ipi, flags, local, nr, orig_ax, regs, verdict,
                   once, raised>>

(* enter_from_user_mode and local_irq_enable. *)
enter_from_user_mode ==
    /\ pc = "enter"
    /\ ctx' = "kernel"
    /\ local_irq_enable
    /\ pc' = IF kind = "fast" THEN "get_user" ELSE "entry_work"
    /\ UNCHANGED <<kind, back, ipi, flags, local, nr, pt_regs, history>>

(* do_fast_syscall_32 fetches EBP from the user's stack, which may fault. *)
GetUserFails ==
    /\ pc = "get_user"
    /\ local_irq_disable
    /\ ax' = "-EFAULT"
    /\ pc' = "prepare" /\ back' = "iret"
    /\ UNCHANGED <<kind, ctx, ipi, flags, local, nr, orig_ax, regs, history>>

GetUserWorks ==
    /\ pc = "get_user"
    /\ pc' = "entry_work"
    /\ UNCHANGED <<kind, back, cpu, flags, local, nr, pt_regs, history>>

(* The test of the flags before syscall_trace_enter.  The 32-bit paths set *)
(* TS_COMPAT first.                                                        *)
EntryWork ==
    /\ pc = "entry_work"
    /\ compat' = (compat \/ kind # "64")
    /\ pc' = IF flags \cap WORK_SYSCALL_ENTRY = {} THEN "dispatch" ELSE "trace_read"
    /\ UNCHANGED <<kind, back, cpu, flags, cached, item, nr, pt_regs, history>>

-----------------------------------------------------------------------------
(***************************************************************************)
(* syscall_trace_enter.  It sets nr to the number to run or to -1.         *)
(***************************************************************************)

(* The flags are read a second time, and may have changed since the test. *)
TraceRead ==
    /\ pc = "trace_read"
    /\ cached' = flags \cap WORK_SYSCALL_ENTRY
    /\ pc' = "trace_enter"
    /\ UNCHANGED <<kind, back, cpu, flags, item, compat, nr, pt_regs, history>>

(* "return -1L", converted to the type of the caller's nr. *)
SkipSigned == nr' = -1 /\ pc' = "dispatch"
Skip == nr' = (IF kind = "64" THEN WORD - 1 ELSE UINT - 1) /\ pc' = "dispatch"

(* "return -1L": the tracer asks for the call to be skipped; an emulated   *)
(* call always is.                                                         *)
RefusesAborted(abort) == abort
Refuses(abort) == abort \/ "SYSCALL_EMU" \in cached

(* tracehook_report_syscall_entry stops the task; meanwhile the tracer may *)
(* change the call number and the result.                                  *)
ReportEntry(abort, n, result) ==
    /\ pc = "trace_enter"
    /\ cached \cap {"SYSCALL_EMU", "SYSCALL_TRACE"} # {}
    /\ orig_ax' = n /\ ax' = result
    /\ IF Refuses(abort) THEN Skip ELSE pc' = "seccomp" /\ UNCHANGED nr
    /\ refused' = (abort \/ "SYSCALL_EMU" \in cached)
    /\ UNCHANGED <<kind, back, cpu, flags, local, regs, checker, vetted, once, raised>>

NoReport ==
    /\ pc = "trace_enter"
    /\ cached \cap {"SYSCALL_EMU", "SYSCALL_TRACE"} = {}
    /\ pc' = "seccomp"
    /\ UNCHANGED <<kind, back, cpu, flags, local, nr, pt_regs, history>>

(* __secure_computing is asked about orig_ax.  It may first stop the task  *)
(* for a tracer (SECCOMP_RET_TRACE), who may change the number and the     *)
(* result; seccomp then judges the new number once more.                   *)
SeccompTraces(n, result) ==
    /\ pc = "seccomp" /\ "SECCOMP" \in cached
    /\ orig_ax' = n /\ ax' = result
    /\ pc' = "seccomp_again"
    /\ UNCHANGED <<kind, back, cpu, flags, local, nr, regs, history>>

(* It refuses the call, with a result of its choice. *)
SeccompRefuses(result) ==
    /\ pc \in {"seccomp", "seccomp_again"} /\ "SECCOMP" \in cached
    /\ ax' = result
    /\ Skip
    /\ refused' = TRUE
    /\ UNCHANGED <<kind, back, cpu, flags, local, orig_ax, regs, checker,
                   vetted, once, raised>>

SeccompAllows ==
    /\ pc \in {"seccomp", "seccomp_again"} /\ "SECCOMP" \in cached
    /\ vetted' = orig_ax
    /\ pc' = "audit"
    /\ UNCHANGED <<kind, back, cpu, flags, local, nr, pt_regs, checker,
                   refused, once, raised>>

NoSeccomp ==
    /\ pc = "seccomp" /\ "SECCOMP" \notin cached
    /\ pc' = "audit"
    /\ UNCHANGED <<kind, back, cpu, flags, local, nr, pt_regs, history>>

(* "return ret ?: regs->orig_ax", converted to the type of the caller's nr. *)
TracedStale == nr
Traced == IF kind = "64" THEN orig_ax ELSE orig_ax % UINT

(* The tracepoint and the audit record, and the return to the caller. *)
EndTrace ==
    /\ pc = "audit"
    /\ nr' = Traced
    /\ pc' = "dispatch"
    /\ UNCHANGED <<kind, back, cpu, flags, local, pt_regs, history>>

-----------------------------------------------------------------------------
(* The number a 64-bit or a 32-bit entry would run, and whether it does. *)
Target == IF kind = "64" THEN Masked(nr) ELSE nr
InTable == Target < (IF kind = "64" THEN NR ELSE IA32_NR)

(* regs->ax = sys_call_table[nr](regs), or its 32-bit twin. *)
RunCall ==
    /\ pc = "dispatch" /\ InTable
    /\ ax' = "result"
    /\ pc' = "slowpath"
    /\ UNCHANGED <<kind, back, cpu, flags, local, nr, orig_ax, regs, history>>

(* The number is out of the table: nothing runs. *)
NoCall ==
    /\ pc = "dispatch" /\ ~InTable
    /\ pc' = "slowpath"
    /\ UNCHANGED <<kind, back, cpu, flags, local, nr, pt_regs, history>>

(* The one-time work is to be done. *)
OwesEntryWork == flags \cap WORK_SYSCALL_ENTRY # {}
OwesWork == flags \cap SYSCALL_EXIT_WORK_FLAGS # {}

(* syscall_return_slowpath: the flags are read before rseq_syscall. *)
ReturnSlowpath ==
    /\ pc = "slowpath"
    /\ cached' = flags
    /\ pc' = IF OwesWork THEN "slow_exit_work" ELSE "disable"
    /\ owed' = IF flags \cap SYSCALL_EXIT_WORK_FLAGS = {} THEN 0 ELSE 1
    /\ UNCHANGED <<kind, back, cpu, flags, item, compat, nr, pt_regs,
                   checker, verdict, exits, raised>>

Stepping == cached \cap {"SINGLESTEP", "SYSCALL_EMU"} = {"SINGLESTEP"}

(* Audit, tracepoint, and the report to the tracer, who may change ax. *)
syscall_slow_exit_work(result) ==
    /\ pc = "slow_exit_work"
    /\ exits' = exits + 1
    /\ IF Stepping \/ "SYSCALL_TRACE" \in cached THEN ax' = result ELSE UNCHANGED ax
    /\ pc' = "disable"
    /\ UNCHANGED <<kind, back, cpu, flags, local, nr, orig_ax, regs,
                   checker, verdict, owed, raised>>

DisableIrq ==
    /\ pc = "disable"
    /\ local_irq_disable
    /\ pc' = "prepare" /\ back' = "iret"
    /\ UNCHANGED <<kind, ctx, ipi, flags, local, nr, pt_regs, history>>

-----------------------------------------------------------------------------
(***************************************************************************)
(* prepare_exit_to_usermode and exit_to_usermode_loop.                     *)
(***************************************************************************)
HasWork(f) == f \cap EXIT_TO_USERMODE_LOOP_FLAGS # {}

(* The flags are read; on work, the loop body starts with interrupts on. *)
Prepare ==
    /\ pc = "prepare"
    /\ cached' = flags
    /\ IF HasWork(flags)
       THEN pc' = "loop" /\ local_irq_enable /\ item' = 1
       ELSE pc' = "leave" /\ UNCHANGED <<irq, item>>
    /\ UNCHANGED <<kind, back, ctx, ipi, flags, compat, nr, pt_regs, history>>

(* The flags once the function called for flag f has cleared it. *)
ServedLast(f) == IF cached \cap EXIT_TO_USERMODE_LOOP_FLAGS = {f} THEN flags \ {f} ELSE flags
Served(f) == IF f \in cached THEN flags \ {f} ELSE flags

(* One "if" of the body.  The function it calls clears the flag (the code  *)
(* itself clears TIF_NOTIFY_RESUME first); do_signal may have set up a     *)
(* handler's frame in regs.                                                *)
LoopItem(frame) ==
    /\ pc = "loop" /\ item <= Len(LoopOrder)
    /\ item' = item + 1
    /\ LET f == LoopOrder[item] IN
       /\ flags' = Served(f)
       /\ regs' = IF f \in cached /\ f = "SIGPENDING" THEN frame ELSE regs
    /\ UNCHANGED <<pc, kind, back, cpu, cached, compat, nr, orig_ax, ax, history>>

(* "Disable IRQs and retry": the flags are read again, and the loop ends   *)
(* when none of its flags is set.                                          *)
Stale == cached
Latest == flags

Never(f) == FALSE
GoesOn(f) == HasWork(f)

(* The body of exit_to_usermode_loop starts, with interrupts on. *)
Again == pc' = "loop" /\ local_irq_enable /\ item' = 1

LoopDisable ==
    /\ pc = "loop" /\ item > Len(LoopOrder)
    /\ local_irq_disable
    /\ pc' = "recheck"
    /\ UNCHANGED <<kind, back, ctx, ipi, flags, local, nr, pt_regs, history>>

LoopRecheck ==
    /\ pc = "recheck"
    /\ cached' = Latest
    /\ IF GoesOn(cached')
       THEN Again
       ELSE pc' = "leave" /\ UNCHANGED <<irq, item>>
    /\ UNCHANGED <<kind, back, ctx, ipi, flags, compat, nr, pt_regs, history>>

(* The FPU state, ti->status and user_enter_irqoff. *)
LeaveKernel ==
    /\ pc = "leave"
    /\ cached' = flags
    /\ compat' = FALSE
    /\ ctx' = "user"
    /\ pc' = back
    /\ UNCHANGED <<kind, back, irq, ipi, flags, item, nr, pt_regs, history>>

(* IRET or SYSRET, which turns interrupts on again. *)
Iret ==
    /\ pc = "iret"
    /\ pc' = "user"
    /\ irq' = TRUE
    /\ UNCHANGED <<kind, back, ctx, ipi, flags, local, nr, pt_regs, history>>

-----------------------------------------------------------------------------
(***************************************************************************)
(* The rest of the machine.                                                *)
(***************************************************************************)

(* Another CPU, or an interrupt, raises a work flag and sends an           *)
(* interrupt so that the task notices.                                     *)
Raise(f) ==
    /\ raised < MaxRaise
    /\ raised' = raised + 1
    /\ flags' = flags \cup {f}
    /\ ipi' = TRUE
    /\ UNCHANGED <<pc, kind, back, irq, ctx, local, nr, pt_regs, checker, verdict, once>>

(* The interrupt is taken in the kernel: the flag is left to the exit path. *)
TakeInterrupt ==
    /\ pc # "user" /\ irq /\ ipi
    /\ ipi' = FALSE
    /\ UNCHANGED <<pc, kind, back, irq, ctx, flags, local, nr, pt_regs, history>>

(* Tracing and auditing are switched at any time; seccomp is only switched on. *)
SetMode(f) ==
    /\ \/ f \notin flags /\ flags' = flags \cup {f}
       \/ f \in flags \ {"SECCOMP"} /\ flags' = flags \ {f}
    /\ UNCHANGED <<pc, kind, back, cpu, local, nr, pt_regs, history>>

(* From enter_from_user_mode to the dispatch of a call; and the return. *)
EntrySteps ==
    \/ enter_from_user_mode \/ GetUserFails \/ GetUserWorks \/ EntryWork \/ TraceRead
    \/ \E abort \in BOOLEAN, n \in Words, result \in {"-ENOSYS", "tracer"} :
           ReportEntry(abort, n, result)
    \/ NoReport
    \/ \E n \in Words, result \in {"-ENOSYS", "tracer"} : SeccompTraces(n, result)
    \/ \E result \in {ax, "seccomp"} : SeccompRefuses(result)
    \/ SeccompAllows \/ NoSeccomp \/ EndTrace \/ NoCall

ExitSteps ==
    \/ ReturnSlowpath \/ DisableIrq \/ Prepare
    \/ \E result \in {ax, "tracer"} : syscall_slow_exit_work(result)
    \/ \E frame \in {regs, "handler"} : LoopItem(frame)
    \/ LoopDisable \/ LoopRecheck \/ LeaveKernel \/ Iret

Interrupts == Interrupt \/ TakeInterrupt

Kernel ==
    \/ \E answer \in {0, 1} : FindderCheck(answer)
    \/ EntrySteps \/ RunCall \/ ExitSteps \/ Interrupts

Environment ==
    \/ \E n \in Words : Syscall64(n)
    \/ \E how \in {"int80", "fast"}, n \in Words : Syscall32(how, n)
    \/ \E f \in Flag \cap EXIT_TO_USERMODE_LOOP_FLAGS : Raise(f)
    \/ \E f \in Mode : SetMode(f)

Next == Kernel \/ Environment

Spec == Init /\ [][Next]_vars

(* The kernel is never stopped for good: a stopped task is resumed by its  *)
(* tracer, and an interrupt that waits is taken.                           *)
FairSpec == Spec /\ WF_vars(Kernel) /\ WF_vars(Interrupt)
-----------------------------------------------------------------------------
(***************************************************************************)
(* Properties.                                                             *)
(***************************************************************************)
Places == {"user", "findder", "enter", "get_user", "entry_work", "trace_read",
           "trace_enter", "seccomp", "seccomp_again", "audit", "dispatch", "slowpath",
           "slow_exit_work", "disable", "prepare", "loop", "recheck", "leave", "iret"}

Results == {"user", "-ENOSYS", "-EACCES", "-EFAULT", "tracer", "seccomp", "result"}

TypeOK ==
    /\ pc \in Places
    /\ kind \in {"64", "int80", "fast", "irq"}
    /\ back \in {"enter", "iret"}
    /\ irq \in BOOLEAN /\ ipi \in BOOLEAN /\ compat \in BOOLEAN
    /\ ctx \in {"user", "kernel"}
    /\ flags \subseteq Flag /\ cached \subseteq Flag
    /\ item \in 1 .. Len(LoopOrder) + 1
    /\ nr \in Words /\ orig_ax \in Words
    /\ ax \in Results
    /\ regs \in {"call", "handler"}
    /\ checker \in {0, 1} /\ refused \in BOOLEAN /\ owed \in {0, 1}
    /\ vetted \in Words \cup {None}
    /\ exits \in Nat
    /\ raised \in 0 .. MaxRaise

(* "In order to return to user mode, we need to have IRQs off with none of *)
(* EXIT_TO_USERMODE_LOOP_FLAGS set": at the return every flag the exit     *)
(* path has not seen was raised by another CPU after the last look, and    *)
(* its interrupt is still to come; TS_COMPAT does not survive the call.    *)
ReadyForUser ==
    pc = "iret" =>
        /\ ~irq /\ ctx = "user" /\ ~compat
        /\ HasWork(flags) => ipi

(* The two CT_WARN_ONs and the WARN of the entry code stay silent: a call  *)
(* enters from CONTEXT_USER with interrupts off, and reaches               *)
(* syscall_return_slowpath in CONTEXT_KERNEL with interrupts on, even      *)
(* after prepare_exit_to_usermode has been run for a denied call.          *)
ContextWarningsSilent ==
    /\ pc = "enter" => ctx = "user" /\ ~irq
    /\ pc \in {"slowpath", "slow_exit_work"} => ctx = "kernel" /\ irq

(* The exit work (rescheduling, signals, notifiers) runs in CONTEXT_KERNEL *)
(* and the registers of a call are its caller's until it has run: only a   *)
(* call the sandbox denies does its exit work before it enters.            *)
WorkAfterEntry ==
    checker = 0 =>
        /\ pc = "loop" => ctx = "kernel"
        /\ pc \in {"entry_work", "dispatch"} => regs = "call"

(* "Do seccomp after ptrace, to catch any tracer changes": the call that   *)
(* runs under seccomp is the one seccomp let through last, a tracer that   *)
(* seccomp itself has stopped the task for included.                       *)
SeccompSeesWhatRuns ==
    vetted # None /\ pc = "dispatch" /\ InTable =>
        Target = (IF kind = "64" THEN Masked(vetted) ELSE vetted % UINT)

(* "or -1 to skip the syscall": a call that its tracer asked to abort, that *)
(* is emulated or that seccomp refused does not run: by whichever path it  *)
(* was refused, and with the number the tracer left in orig_ax, what       *)
(* reaches the dispatch is no index of the table.                          *)
RefusedIsNeverRun == refused /\ pc = "dispatch" => ~InTable

(* "If these work items are enabled, we want to run them exactly once per  *)
(* syscall exit with IRQs on": a call that reached the slow path with one  *)
(* of the exit flags set has run the work once when it leaves, any other   *)
(* has not run it, however the flags change under the exit and however     *)
(* often the exit loop goes round.                                         *)
OneTimeWork ==
    /\ pc = "slow_exit_work" => irq /\ exits = 0
    /\ pc \in {"disable", "prepare", "loop", "recheck", "leave", "iret"} => exits = owed

(* A work flag that is raised is eventually handled, even when it is       *)
(* raised with interrupts off after the last look of the exit path.        *)
FlagsAreServed ==
    \A f \in Flag \cap EXIT_TO_USERMODE_LOOP_FLAGS :
        (f \in flags) ~> (f \notin flags)

(* Every entry into the kernel returns to user mode, however the flags     *)
(* change under the exit loop.                                             *)
EveryEntryReturns == (pc # "user") ~> (pc = "user")
=============================================================================
