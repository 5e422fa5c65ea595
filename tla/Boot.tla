--------------------------------- MODULE Boot ---------------------------------
(***************************************************************************)
(* How the kernel of project 2 boots (project 2/main.c): start_kernel and  *)
(* rest_init on the boot thread, kernel_init on the thread they start, and *)
(* the asynchronous functions that initcalls schedule, with the command    *)
(* line of BootArgs.  The subsystems start_kernel sets up one after the    *)
(* other are left out; what is kept is what a second thread can notice.    *)
(*                                                                         *)
(* RestInitInlined, PublishAndComplete, NotWaited, BlacklistNobody,        *)
(* IrqsKept, NotFinished, FallBack and TryAgain are faulty variants of the *)
(* definition that follows each; no action uses them.  PROJECT.json names  *)
(* the property each one breaks.                                           *)
(***************************************************************************)
EXTENDS BootArgs, Sequences

CONSTANTS initcalls,  \* initcalls[l]: the functions of level l - 2; the first
                      \* are the early ones, run before the other CPUs start
          MaxAsync    \* bound: asynchronous functions scheduled at once

ASSUME BootAssumption ==
    /\ initcalls \in Seq(Seq(Fn)) /\ Len(initcalls) >= 1
    /\ MaxAsync \in Nat

VARIABLES boot,           \* where the boot thread is
          init,           \* where kernel_init is; "none" before it exists
          early_boot_irqs_disabled,
          irqs,           \* interrupts are enabled on the CPU of the thread that runs
          preempt,        \* preempt_count() of kernel_init is off balance
          system_state,
          kthreadd_task,  \* kthreadd_task points to the thread kthreadd
          kthreadd_done,  \* the completion: how often it may be waited for
          level, next,    \* the initcall to run is initcalls[level][next]
          ran,            \* history: the places <<level, next>> of the initcalls run
          async,          \* asynchronous functions scheduled and not finished
          initmem,        \* the memory of __init code and data: "live" or "freed"
          failed,         \* history: the programs that could not be executed
          process,        \* what runs as process 1: "none", "panic" or a program
          oops            \* a thread was created without kthreadd, or freed
                          \* memory was used

irqVars  == <<early_boot_irqs_disabled, irqs, preempt>>
kthreads == <<kthreadd_task, kthreadd_done>>
callVars == <<level, next, ran, async>>
endVars  == <<initmem, failed, process, oops>>
vars     == <<argVars, boot, init, irqVars, system_state, kthreads, callVars, endVars>>

Defaults == <<"/sbin/init", "/etc/init", "/bin/init", "/bin/sh">>

Init ==
    /\ ArgsInit
    /\ boot = "start" /\ init = "none"
    /\ early_boot_irqs_disabled = FALSE /\ irqs = FALSE /\ preempt = FALSE
    /\ system_state = "BOOTING"
    /\ kthreadd_task = FALSE /\ kthreadd_done = 0
    /\ level = 1 /\ next = 1 /\ ran = <<>> /\ async = 0
    /\ initmem = "live" /\ failed = {} /\ process = "none" /\ oops = FALSE

(* Where the boot thread is before start_kernel enables interrupts.        *)
Early == {"start", "arch", "parse", "setup", "fix", "late", "check", "enable"}

(* The kernel has not panicked, and the thread is at the given place. *)
BootAt(where) == process # "panic" /\ boot = where
InitAt(where) == process # "panic" /\ init = where

-----------------------------------------------------------------------------
(***************************************************************************)
(* start_kernel and rest_init.                                             *)
(***************************************************************************)
StartKernel ==
    /\ BootAt("start")
    /\ irqs' = FALSE /\ early_boot_irqs_disabled' = TRUE
    /\ boot' = "arch"
    /\ UNCHANGED <<argVars, init, preempt, system_state, kthreads, callVars, endVars>>

(* setup_command_line: one of its three allocations fails. *)
NoMemory ==
    /\ BootAt("arch")
    /\ process' = "panic"
    /\ UNCHANGED <<argVars, boot, init, irqVars, system_state, kthreads, callVars,
                   initmem, failed, oops>>

ParseArgs ==
    /\ BootAt("parse")
    /\ Parse
    /\ process' = IF stage' = "panic" THEN "panic" ELSE process
    /\ boot' = IF stage' = "parsed" THEN "setup" ELSE "parse"
    /\ UNCHANGED <<init, irqVars, system_state, kthreads, callVars, initmem, failed, oops>>

(* The three stretches of functions that set the kernel up: setup_arch to  *)
(* jump_label_init, setup_log_buf to sched_init, radix_tree_init to        *)
(* call_function_init.  Each is meant to keep interrupts off and may leave *)
(* them on.                                                                *)
Stretch == [arch |-> "parse", setup |-> "fix", late |-> "check"]

SetUp(on) ==
    /\ process # "panic" /\ boot \in DOMAIN Stretch
    /\ irqs' = on
    /\ boot' = Stretch[boot]
    /\ UNCHANGED <<argVars, init, early_boot_irqs_disabled, preempt, system_state, kthreads,
                   callVars, endVars>>

(* "Interrupts were enabled *very* early, fixing it". *)
FixIrqs ==
    /\ BootAt("fix")
    /\ irqs' = FALSE
    /\ boot' = "late"
    /\ UNCHANGED <<argVars, init, early_boot_irqs_disabled, preempt, system_state, kthreads,
                   callVars, endVars>>

(* "Interrupts were enabled early" is a warning and no more. *)
EndEarlyBoot ==
    /\ BootAt("check")
    /\ early_boot_irqs_disabled' = FALSE
    /\ boot' = "enable"
    /\ UNCHANGED <<argVars, init, irqs, preempt, system_state, kthreads, callVars, endVars>>

EnableIrqs ==
    /\ BootAt("enable")
    /\ irqs' = TRUE
    /\ boot' = "console"
    /\ UNCHANGED <<argVars, init, early_boot_irqs_disabled, preempt, system_state, kthreads,
                   callVars, endVars>>

(* console_init, and the panic that was put off until now. *)
Console ==
    /\ BootAt("console")
    /\ PanicLater
    /\ process' = IF stage' = "panic" THEN "panic" ELSE process
    /\ boot' = "rest_init"
    /\ UNCHANGED <<init, irqVars, system_state, kthreads, callVars, initmem, failed, oops>>

(* rest_init: kernel_thread(kernel_init), which may run from now on. *)
SpawnInit ==
    /\ BootAt("rest_init")
    /\ init' = "wait"
    /\ boot' = "spawn"
    /\ UNCHANGED <<argVars, irqVars, system_state, kthreads, callVars, endVars>>

(* "kthreadd_task = find_task_by_pid_ns(...)". *)
PublishAndComplete == kthreadd_task' = TRUE /\ kthreadd_done' = kthreadd_done + 1
Publish == kthreadd_task' = TRUE /\ UNCHANGED kthreadd_done

(* kernel_thread(kthreadd), and the assignment of kthreadd_task. *)
SpawnKthreadd ==
    /\ BootAt("spawn")
    /\ Publish
    /\ boot' = "scheduling"
    /\ UNCHANGED <<argVars, init, irqVars, system_state, callVars, endVars>>

SetScheduling ==
    /\ BootAt("scheduling")
    /\ system_state' = "SCHEDULING"
    /\ boot' = "complete"
    /\ UNCHANGED <<argVars, init, irqVars, kthreads, callVars, endVars>>

(* complete(&kthreadd_done); the completion is __initdata. *)
Complete ==
    /\ BootAt("complete")
    /\ kthreadd_done' = kthreadd_done + 1
    /\ oops' = (oops \/ initmem = "freed")
    /\ boot' = "schedule"
    /\ UNCHANGED <<argVars, init, irqVars, system_state, kthreadd_task, callVars, initmem,
                   failed, process>>

(* The boot thread is in __init code: in start_kernel, but no longer in    *)
(* rest_init, which is __ref and not inlined.                              *)
RestInitInlined == boot # "idle"
InInitCode == boot \in Early \cup {"console"}

(* schedule_preempt_disabled returns to rest_init, after other threads     *)
(* have run, and cpu_startup_entry makes the boot thread the idle thread.  *)
Idle ==
    /\ BootAt("schedule")
    /\ oops' = (oops \/ (initmem = "freed" /\ InInitCode))
    /\ boot' = "idle"
    /\ UNCHANGED <<argVars, init, irqVars, system_state, kthreads, callVars, initmem, failed,
                   process>>

-----------------------------------------------------------------------------
(***************************************************************************)
(* kernel_init_freeable.                                                   *)
(***************************************************************************)
(* wait_for_completion(&kthreadd_done). *)
NotWaited == TRUE
Completed == kthreadd_done > 0

WaitForKthreadd ==
    /\ InitAt("wait")
    /\ Completed
    /\ kthreadd_done' = kthreadd_done - 1
    /\ init' = "workqueue"
    /\ UNCHANGED <<argVars, boot, irqVars, system_state, kthreadd_task, callVars, endVars>>

(* workqueue_init creates the first worker threads, through kthreadd. *)
WorkqueueInit ==
    /\ InitAt("workqueue")
    /\ oops' = (oops \/ ~kthreadd_task)
    /\ init' = "initcall"
    /\ UNCHANGED <<argVars, boot, irqVars, system_state, kthreads, callVars, initmem, failed,
                   process>>

Section == initcalls[level]

(* initcall_blacklisted. *)
BlacklistNobody(fn) == FALSE
IsBlacklisted(fn) == fn \in blacklisted

(* do_one_initcall.  The function may leave interrupts off or the          *)
(* preemption count changed, and may schedule an asynchronous one.         *)
RunInitcall(off, unbalanced, scheduled) ==
    /\ InitAt("initcall") /\ next <= Len(Section)
    /\ ~IsBlacklisted(Section[next])
    /\ async + scheduled <= MaxAsync
    /\ ran' = Append(ran, <<level, next>>)
    /\ irqs' = ~off /\ preempt' = unbalanced
    /\ async' = async + scheduled
    /\ next' = next + 1
    /\ init' = "restore"
    /\ UNCHANGED <<argVars, boot, early_boot_irqs_disabled, system_state, kthreads, level,
                   endVars>>

SkipInitcall ==
    /\ InitAt("initcall") /\ next <= Len(Section)
    /\ IsBlacklisted(Section[next])
    /\ next' = next + 1
    /\ UNCHANGED <<argVars, boot, init, irqVars, system_state, kthreads, level, ran, async,
                   endVars>>

(* "if (irqs_disabled()) ... local_irq_enable()". *)
IrqsKept == UNCHANGED irqs
IrqsRestored == irqs' = TRUE

(* The end of do_one_initcall. *)
Restore ==
    /\ InitAt("restore")
    /\ preempt' = FALSE /\ IrqsRestored
    /\ init' = "initcall"
    /\ UNCHANGED <<argVars, boot, early_boot_irqs_disabled, system_state, kthreads, callVars,
                   endVars>>

(* The end of a level.  After the early ones the other CPUs are started,   *)
(* after the last level /dev/console is opened.                            *)
NextLevel ==
    /\ InitAt("initcall") /\ next > Len(Section)
    /\ IF level < Len(initcalls)
       THEN level' = level + 1 /\ next' = 1 /\ UNCHANGED init
       ELSE init' = "ramdisk" /\ UNCHANGED <<level, next>>
    /\ UNCHANGED <<argVars, boot, irqVars, system_state, kthreads, ran, async, endVars>>

(* An asynchronous function of an initcall runs to its end. *)
AsyncRuns ==
    /\ process # "panic" /\ async > 0
    /\ async' = async - 1
    /\ oops' = (oops \/ initmem = "freed")
    /\ UNCHANGED <<argVars, boot, init, irqVars, system_state, kthreads, level, next, ran,
                   initmem, failed, process>>

(* The early user space: rdinit=, or "/init" (place 0), if it is there. *)
CheckRamdisk(found) ==
    /\ InitAt("ramdisk")
    /\ ramdisk_execute_command' =
           IF ~found THEN NULL
           ELSE IF ramdisk_execute_command = NULL THEN 0 ELSE ramdisk_execute_command
    /\ init' = "synchronize"
    /\ UNCHANGED <<stage, argv_init, envp_init, panic_later, execute_command, blacklisted,
                   place, history, boot, irqVars, system_state, kthreads, callVars, endVars>>

-----------------------------------------------------------------------------
(***************************************************************************)
(* kernel_init, once kernel_init_freeable has returned.                    *)
(***************************************************************************)
(* What async_synchronize_full waits for. *)
NotFinished == TRUE
Finished == async = 0

Synchronize ==
    /\ InitAt("synchronize") /\ Finished
    /\ init' = "free"
    /\ UNCHANGED <<argVars, boot, irqVars, system_state, kthreads, callVars, endVars>>

FreeInitmem ==
    /\ InitAt("free")
    /\ initmem' = "freed"
    /\ init' = "running"
    /\ UNCHANGED <<argVars, boot, irqVars, system_state, kthreads, callVars, failed, process,
                   oops>>

SetRunning ==
    /\ InitAt("running")
    /\ system_state' = "RUNNING"
    /\ init' = "run"
    /\ UNCHANGED <<argVars, boot, irqVars, kthreads, callVars, endVars>>

(* The programs to try, in order; an init= that fails ends in a panic. *)
FallBack == Defaults
DefaultsTried == IF execute_command = NULL THEN Defaults ELSE <<>>

Programs ==
    (IF ramdisk_execute_command # NULL THEN <<"ramdisk">> ELSE <<>>)
        \o (IF execute_command # NULL THEN <<"requested">> ELSE <<>>)
        \o DefaultsTried

(* run_init_process and try_to_run_init_process: do_execve works or fails. *)
(* argv_init[0], which becomes the name of the program, stays place 0.     *)
Execute(n) ==
    /\ InitAt("run")
    /\ n \in 1 .. Len(Programs) /\ Programs[n] \notin failed
    /\ \A k \in 1 .. n - 1 : Programs[k] \in failed
    /\ \/ process' = Programs[n] /\ init' = "exec" /\ UNCHANGED failed
       \/ failed' = failed \cup {Programs[n]} /\ UNCHANGED <<process, init>>
    /\ UNCHANGED <<argVars, boot, irqVars, system_state, kthreads, callVars, initmem, oops>>

(* "No working init found", or "Requested init failed". *)
TryAgain == failed' = {} /\ UNCHANGED process
Panic == process' = "panic" /\ UNCHANGED failed

NothingWorks ==
    /\ InitAt("run")
    /\ \A n \in 1 .. Len(Programs) : Programs[n] \in failed
    /\ Panic
    /\ UNCHANGED <<argVars, boot, init, irqVars, system_state, kthreads, callVars, initmem,
                   oops>>

-----------------------------------------------------------------------------
BootThread ==
    \/ StartKernel \/ NoMemory \/ ParseArgs
    \/ \E on \in BOOLEAN : SetUp(on)
    \/ FixIrqs \/ EndEarlyBoot \/ EnableIrqs \/ Console
    \/ SpawnInit \/ SpawnKthreadd \/ SetScheduling \/ Complete \/ Idle

InitThread ==
    \/ WaitForKthreadd \/ WorkqueueInit
    \/ \E off, unbalanced \in BOOLEAN, scheduled \in {0, 1} :
           RunInitcall(off, unbalanced, scheduled)
    \/ SkipInitcall \/ Restore \/ NextLevel
    \/ \E found \in BOOLEAN : CheckRamdisk(found)
    \/ Synchronize \/ FreeInitmem \/ SetRunning
    \/ \E n \in 1 .. Len(Defaults) + 2 : Execute(n)
    \/ NothingWorks

Booted == process # "none" /\ UNCHANGED vars

Next == BootThread \/ InitThread \/ AsyncRuns \/ Booted

Spec == Init /\ [][Next]_vars

(* Every thread is scheduled, asynchronous functions and initcalls end.    *)
FairSpec == Spec /\ WF_vars(BootThread) /\ WF_vars(InitThread) /\ WF_vars(AsyncRuns)
-----------------------------------------------------------------------------
(***************************************************************************)
(* Properties.                                                             *)
(***************************************************************************)
(* The places of the initcalls, and the order of the levels and the link. *)
Initcalls == UNION {{l} \X (DOMAIN initcalls[l]) : l \in DOMAIN initcalls}
Before(c, d) == c[1] < d[1] \/ (c[1] = d[1] /\ c[2] < d[2])

TypeOK ==
    /\ ArgsTypeOK
    /\ boot \in Early \cup {"console", "rest_init", "spawn", "scheduling", "complete", "schedule",
                            "idle"}
    /\ init \in {"none", "wait", "workqueue", "initcall", "restore", "ramdisk", "synchronize",
                 "free", "running", "run", "exec"}
    /\ early_boot_irqs_disabled \in BOOLEAN /\ irqs \in BOOLEAN /\ preempt \in BOOLEAN
    /\ system_state \in {"BOOTING", "SCHEDULING", "RUNNING"}
    /\ kthreadd_task \in BOOLEAN /\ kthreadd_done \in Nat
    /\ level \in 1 .. Len(initcalls) /\ next \in Nat
    /\ ran \in Seq(Initcalls) /\ async \in 0 .. MaxAsync
    /\ initmem \in {"live", "freed"} /\ oops \in BOOLEAN
    /\ failed \subseteq {"ramdisk", "requested"} \cup {Defaults[i] : i \in DOMAIN Defaults}
    /\ process \in {"none", "panic", "ramdisk", "requested"}
                     \cup {Defaults[i] : i \in DOMAIN Defaults}

(* "the init task will end up wanting to create kthreads, which, if we     *)
(* schedule it before we create kthreadd, will OOPS", and "need to finish  *)
(* all async __init code before freeing the memory": neither happens,      *)
(* however the three kinds of threads are scheduled.                       *)
NoOops == ~oops

(* When the __init memory is freed nothing uses it any more: the boot      *)
(* thread has left start_kernel and completed the __initdata completion,   *)
(* although it may still be on its way to cpu_idle; and the initcalls and  *)
(* the asynchronous functions they scheduled have ended.                   *)
InitmemInUse ==
    initmem = "freed" =>
        /\ ~InInitCode /\ boot # "complete"
        /\ async = 0
        /\ init \notin {"wait", "workqueue", "initcall", "restore"}

(* The initcalls run in the order of the levels and of the link, none of   *)
(* them twice; and when the levels are done exactly those have run that    *)
(* the command line does not blacklist.                                    *)
InLinkOrder ==
    /\ \A i, j \in DOMAIN ran : i < j => Before(ran[i], ran[j])
    /\ init \in {"ramdisk", "synchronize", "free", "running", "run", "exec"} =>
           {ran[i] : i \in DOMAIN ran}
               = {c \in Initcalls : initcalls[c[1]][c[2]] \notin blacklisted}

(* Whatever the setup functions did before, and whatever an initcall       *)
(* leaves behind: from local_irq_enable on interrupts are enabled, the     *)
(* preemption count is balanced and early_boot_irqs_disabled is cleared,   *)
(* except between an initcall and the end of its do_one_initcall.  So      *)
(* every initcall, and all that comes after the last, starts that way.     *)
IrqsAsExpected ==
    boot \notin Early /\ init # "restore" => irqs /\ ~preempt /\ ~early_boot_irqs_disabled

(* system_state only advances: the SYSTEM_SCHEDULING of the boot thread    *)
(* never overwrites the SYSTEM_RUNNING of kernel_init.                     *)
Rank(state) == IF state = "BOOTING" THEN 1 ELSE IF state = "SCHEDULING" THEN 2 ELSE 3

StateAdvances == [][Rank(system_state) <= Rank(system_state')]_vars

(* "We try each of these until one succeeds": what runs as process 1 is    *)
(* preceded only by programs that failed, and a program asked for with     *)
(* init= is never replaced by one of the defaults.                         *)
InitAsRequested ==
    /\ process \in {Defaults[i] : i \in DOMAIN Defaults} =>
           /\ execute_command = NULL
           /\ \A i, j \in DOMAIN Defaults :
                  Defaults[j] = process /\ i < j => Defaults[i] \in failed
    /\ ramdisk_execute_command # NULL /\ process \notin {"none", "panic", "ramdisk"} =>
           "ramdisk" \in failed

(* The boot ends with a process 1 or a panic. *)
BootEnds == <>(process # "none")
=============================================================================
