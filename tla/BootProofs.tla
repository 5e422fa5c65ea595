----------------------------- MODULE BootProofs -----------------------------
(***************************************************************************)
(* Proofs about Boot, for every command line, every list of initcalls and  *)
(* any number of asynchronous functions.                                   *)
(***************************************************************************)
EXTENDS Boot, BootArgsProofs

(* Where kernel_init is before, in and after the initcalls.                *)
Unborn  == {"none", "wait"}
Calling == {"initcall", "restore", "ramdisk", "synchronize"}
Freed   == {"running", "run", "exec"}

(* Where the boot thread is when it has completed kthreadd_done.           *)
Handed == {"schedule", "idle"}

(* kernel_init exists once the boot thread has created it, and gets past   *)
(* its first wait only after the boot thread has completed, once, what it  *)
(* waits for; by then kthreadd_task is set.                                *)
HandOver ==
    /\ init = "none" <=> boot \notin {"spawn", "scheduling", "complete", "schedule", "idle"}
    /\ boot \notin Handed => init \in Unborn
    /\ kthreadd_done = IF boot \in Handed /\ init = "wait" THEN 1 ELSE 0
    /\ boot \in {"scheduling", "complete", "schedule", "idle"} => kthreadd_task

(* __init memory is freed after the initcalls, and what they scheduled     *)
(* asynchronously has ended by then.                                       *)
Lifetimes ==
    /\ initmem = "freed" <=> init \in Freed
    /\ async > 0 => init \in Calling

(* The state of the system follows the two threads.                        *)
States ==
    /\ system_state = "BOOTING" <=> boot \notin {"complete", "schedule", "idle"}
    /\ system_state = "RUNNING" <=> init \in {"run", "exec"}

(* The interrupt flag and the preemption count at each place.              *)
Interrupts ==
    /\ early_boot_irqs_disabled => boot \in Early
    /\ boot = "enable" => ~early_boot_irqs_disabled
    /\ boot \notin Early /\ init # "restore" => irqs
    /\ preempt => init = "restore"

(* The types the steps above rest on.                                      *)
BootTypes ==
    /\ boot \in Early \cup {"console", "rest_init", "spawn", "scheduling", "complete", "schedule",
                            "idle"}
    /\ init \in {"none", "wait", "workqueue", "initcall", "restore", "ramdisk", "synchronize",
                 "free", "running", "run", "exec"}
    /\ system_state \in {"BOOTING", "SCHEDULING", "RUNNING"}
    /\ early_boot_irqs_disabled \in BOOLEAN /\ irqs \in BOOLEAN /\ preempt \in BOOLEAN
    /\ kthreadd_task \in BOOLEAN /\ oops \in BOOLEAN
    /\ initmem \in {"live", "freed"}
    /\ async \in Nat

(* The inductive invariant: NoOops by itself says nothing about who may    *)
(* still run when the memory is freed, which is what the other parts do.   *)
BootInv == BootTypes /\ HandOver /\ Lifetimes /\ States /\ Interrupts /\ NoOops

-----------------------------------------------------------------------------
(* The kernel starts with interrupts off and one thread. *)
LEMMA BootInitInv == Init => BootInv
  <1> SUFFICES ASSUME Init PROVE BootInv
    OBVIOUS
  <1>1. BootTypes /\ NoOops
    BY DEF Init, BootTypes, NoOops, Early
  <1>2. HandOver /\ Lifetimes
    BY DEF Init, HandOver, Lifetimes, Unborn, Calling, Freed, Handed
  <1>3. States /\ Interrupts
    BY DEF Init, States, Interrupts, Early
  <1> QED  BY <1>1, <1>2, <1>3 DEF BootInv

(* The boot thread. *)
LEMMA BootThreadInv ==
    ASSUME BootInv, BootThread
    PROVE  BootInv'
  <1> USE DEF BootInv, BootTypes, HandOver, Lifetimes, States, Interrupts, NoOops, Unborn,
              Calling, Freed, Handed, Early, BootAt, irqVars, kthreads, callVars, endVars
  <1>1. CASE StartKernel
    BY <1>1 DEF StartKernel
  <1>2. CASE NoMemory
    BY <1>2 DEF NoMemory
  <1>3. CASE ParseArgs
    BY <1>3 DEF ParseArgs
  <1>4. ASSUME NEW on \in BOOLEAN, SetUp(on) PROVE BootInv'
    BY <1>4 DEF SetUp, Stretch
  <1>5. CASE FixIrqs
    BY <1>5 DEF FixIrqs
  <1>6. CASE EndEarlyBoot
    BY <1>6 DEF EndEarlyBoot
  <1>7. CASE EnableIrqs
    BY <1>7 DEF EnableIrqs
  <1>8. CASE Console
    BY <1>8 DEF Console
  <1>9. CASE SpawnInit
    BY <1>9 DEF SpawnInit
  <1>10. CASE SpawnKthreadd
    BY <1>10 DEF SpawnKthreadd, Publish
  <1>11. CASE SetScheduling
    BY <1>11 DEF SetScheduling
  <1>12. CASE Complete
    BY <1>12 DEF Complete
  <1>13. CASE Idle
    BY <1>13 DEF Idle, InInitCode
  <1> QED  BY <1>1, <1>2, <1>3, <1>4, <1>5, <1>6, <1>7, <1>8, <1>9, <1>10, <1>11, <1>12, <1>13
           DEF BootThread

(* kernel_init, up to the end of kernel_init_freeable. *)
LEMMA FreeableInv ==
    ASSUME BootInv,
           \/ WaitForKthreadd \/ WorkqueueInit \/ SkipInitcall \/ Restore \/ NextLevel
           \/ \E off, unbalanced \in BOOLEAN, scheduled \in {0, 1} :
                  RunInitcall(off, unbalanced, scheduled)
           \/ \E found \in BOOLEAN : CheckRamdisk(found)
    PROVE  BootInv'
  <1> USE DEF BootInv, BootTypes, HandOver, Lifetimes, States, Interrupts, NoOops, Unborn,
              Calling, Freed, Handed, Early, InitAt, irqVars, kthreads, callVars, endVars
  <1>1. CASE WaitForKthreadd
    BY <1>1 DEF WaitForKthreadd, Completed
  <1>2. CASE WorkqueueInit
    BY <1>2 DEF WorkqueueInit
  <1>3. CASE SkipInitcall
    BY <1>3 DEF SkipInitcall
  <1>4. CASE Restore
    BY <1>4 DEF Restore, IrqsRestored
  <1>5. CASE NextLevel
    BY <1>5 DEF NextLevel
  <1>6. ASSUME NEW off \in BOOLEAN, NEW unbalanced \in BOOLEAN, NEW scheduled \in {0, 1},
               RunInitcall(off, unbalanced, scheduled)
        PROVE  BootInv'
    BY <1>6 DEF RunInitcall
  <1>7. ASSUME NEW found \in BOOLEAN, CheckRamdisk(found) PROVE BootInv'
    BY <1>7 DEF CheckRamdisk
  <1> QED  BY <1>1, <1>2, <1>3, <1>4, <1>5, <1>6, <1>7

(* The rest of kernel_init, and the asynchronous functions. *)
LEMMA KernelInitInv ==
    ASSUME BootInv,
           \/ Synchronize \/ FreeInitmem \/ SetRunning \/ NothingWorks \/ AsyncRuns
           \/ \E n \in 1 .. Len(Defaults) + 2 : Execute(n)
    PROVE  BootInv'
  <1> USE DEF BootInv, BootTypes, HandOver, Lifetimes, States, Interrupts, NoOops, Unborn,
              Calling, Freed, Handed, Early, InitAt, irqVars, kthreads, callVars, endVars
  <1>1. CASE Synchronize
    BY <1>1 DEF Synchronize, Finished
  <1>2. CASE FreeInitmem
    BY <1>2 DEF FreeInitmem
  <1>3. CASE SetRunning
    BY <1>3 DEF SetRunning
  <1>4. CASE NothingWorks
    BY <1>4 DEF NothingWorks, Panic
  <1>5. CASE AsyncRuns
    BY <1>5 DEF AsyncRuns
  <1>6. ASSUME NEW n \in 1 .. Len(Defaults) + 2, Execute(n) PROVE BootInv'
    BY <1>6 DEF Execute
  <1> QED  BY <1>1, <1>2, <1>3, <1>4, <1>5, <1>6

(* A step of something else. *)
LEMMA BootStutter == BootInv /\ UNCHANGED vars => BootInv'
  BY DEF BootInv, BootTypes, HandOver, Lifetimes, States, Interrupts, NoOops, vars, irqVars,
         kthreads, callVars, endVars

(* Every step of the boot keeps the invariant. *)
LEMMA BootNextInv == BootInv /\ [Next]_vars => BootInv'
  BY BootThreadInv, FreeableInv, KernelInitInv, BootStutter DEF Next, InitThread, Booted

(* BootInv holds however the threads are scheduled. *)
THEOREM BootInvariance == Spec => []BootInv
  BY BootInitInv, BootNextInv, PTL DEF Spec

(* NoOops: no thread is created before kthreadd_task is set, and the       *)
(* memory of __init code is not used after it has been freed.              *)
THEOREM BootNeverOopses == Spec => []NoOops
  BY BootInvariance, PTL DEF BootInv

(* InitmemInUse: the boot thread has left start_kernel and completed what  *)
(* kernel_init waits for, and the initcalls and what they scheduled have   *)
(* ended, before the memory of __init code is freed.                       *)
THEOREM InitmemOutlivesUse == Spec => []InitmemInUse
  <1>1. BootInv => InitmemInUse
    BY DEF BootInv, BootTypes, HandOver, Lifetimes, InitmemInUse, InInitCode, Unborn, Calling,
           Freed, Handed, Early
  <1> QED  BY <1>1, BootInvariance, PTL

(* IrqsAsExpected: whatever the setup functions and the initcalls do to    *)
(* them, interrupts are on, the early flag is cleared and the preemption   *)
(* count balanced when an initcall, or what follows the last one, starts.  *)
THEOREM IrqsExpected == Spec => []IrqsAsExpected
  <1>1. BootInv => IrqsAsExpected
    BY DEF BootInv, BootTypes, Interrupts, IrqsAsExpected
  <1> QED  BY <1>1, BootInvariance, PTL

(* StateAdvances: the boot thread and kernel_init both write system_state, *)
(* and no write takes it back.                                             *)
THEOREM StatesAdvance == Spec => StateAdvances
  <1>1. ASSUME BootInv, BootInv', [Next]_vars
        PROVE  system_state' = system_state \/ SetScheduling \/ SetRunning
    BY <1>1 DEF Next, BootThread, InitThread, Booted, vars, endVars,
                StartKernel, NoMemory, ParseArgs, SetUp, FixIrqs, EndEarlyBoot, EnableIrqs,
                Console, SpawnInit, SpawnKthreadd, Complete, Idle, WaitForKthreadd, WorkqueueInit,
                RunInitcall, SkipInitcall, Restore, NextLevel, CheckRamdisk, Synchronize,
                FreeInitmem, Execute, NothingWorks, AsyncRuns
  <1>2. ASSUME BootInv, SetScheduling
        PROVE  Rank(system_state) <= Rank(system_state')
    <2>1. system_state = "BOOTING" /\ system_state' = "SCHEDULING"
      BY <1>2 DEF SetScheduling, BootAt, BootInv, States
    <2> QED  BY <2>1 DEF Rank
  <1>3. ASSUME BootInv, SetRunning
        PROVE  Rank(system_state) <= Rank(system_state')
    <2>1. system_state \in {"BOOTING", "SCHEDULING", "RUNNING"} /\ system_state' = "RUNNING"
      BY <1>3 DEF SetRunning, BootInv, BootTypes
    <2> QED  BY <2>1 DEF Rank
  <1>4. BootInv => Rank(system_state) <= Rank(system_state)
    BY DEF BootInv, BootTypes, Rank
  <1>5. BootInv /\ BootInv' /\ [Next]_vars
            => [Rank(system_state) <= Rank(system_state')]_vars
    BY <1>1, <1>2, <1>3, <1>4
  <1> QED  BY <1>5, BootInvariance, PTL DEF Spec, StateAdvances

-----------------------------------------------------------------------------
(***************************************************************************)
(* The type invariant.                                                     *)
(***************************************************************************)

(* The initcall to run next, when there is one, is an element of its level. *)
Types == TypeOK /\ ArgsInv /\ next \in Nat \ {0} /\ BootInv

Program == {"ramdisk", "requested"} \cup {Defaults[i] : i \in DOMAIN Defaults}

(* kernel_init tries nothing but the programs named in main.c. *)
LEMMA ProgramsTyped == \A n \in 1 .. Len(Programs) : Programs[n] \in Program
  <1>1. Defaults \in Seq(Program)
    BY DEF Defaults, Program
  <1>2. <<"ramdisk">> \in Seq(Program) /\ <<"requested">> \in Seq(Program) /\ <<>> \in Seq(Program)
    BY DEF Program
  <1>3. Programs \in Seq(Program)
    BY <1>1, <1>2 DEF Programs, DefaultsTried
  <1> QED  BY <1>3

(* The types hold before start_kernel. *)
LEMMA TypesInit == Init => Types
  <1> SUFFICES ASSUME Init PROVE Types
    OBVIOUS
  <1>1. ArgsInv /\ BootInv
    BY BootInitInv, ArgsInitInv DEF Init
  <1>2. level \in 1 .. Len(initcalls) /\ next \in Nat \ {0} /\ ran \in Seq(Initcalls)
    BY BootAssumption DEF Init
  <1>3. async \in 0 .. MaxAsync /\ kthreadd_done \in Nat
    BY BootAssumption DEF Init
  <1>4. failed = {} /\ process = "none"
    BY DEF Init
  <1> QED  BY <1>1, <1>2, <1>3, <1>4 DEF Types, TypeOK, ArgsInv, BootInv, BootTypes

(* The steps of Boot that change what BootArgs keeps. *)
LEMMA CommandLineSteps ==
    ASSUME [Next]_vars
    PROVE  \/ ParseArgs \/ Console \/ UNCHANGED argVars
           \/ \E found \in BOOLEAN : CheckRamdisk(found)
  BY DEF Next, BootThread, InitThread, Booted, vars, StartKernel, NoMemory, SetUp, FixIrqs,
         EndEarlyBoot, EnableIrqs, SpawnInit, SpawnKthreadd, SetScheduling, Complete, Idle,
         WaitForKthreadd, WorkqueueInit, RunInitcall, SkipInitcall, Restore, NextLevel,
         Synchronize, FreeInitmem, SetRunning, Execute, NothingWorks, AsyncRuns

(* The command line of BootArgs is typed in every step of the boot. *)
LEMMA CommandLineTyped == ArgsInv /\ [Next]_vars => ArgsInv'
  <1> SUFFICES ASSUME ArgsInv, [Next]_vars PROVE ArgsInv'
    OBVIOUS
  <1>1. CASE ParseArgs
    BY <1>1, ParseInv DEF ParseArgs
  <1>2. CASE Console
    BY <1>2, PanicLaterInv DEF Console
  <1>3. ASSUME NEW found \in BOOLEAN, CheckRamdisk(found) PROVE ArgsInv'
    <2>1. ramdisk_execute_command' \in Place \cup {NULL}
      BY <1>3, BootArgsAssumption DEF CheckRamdisk, ArgsInv, ArgsTypeOK, Place
    <2> QED  BY <1>3, <2>1 DEF CheckRamdisk, ArgsInv, ArgsTypeOK, SpareElement, history
  <1>4. CASE UNCHANGED argVars
    BY <1>4, ArgsStutter
  <1> QED  BY <1>1, <1>2, <1>3, <1>4, CommandLineSteps

(* Every level is a sequence of functions. *)
LEMMA LevelTyped ==
    /\ DOMAIN initcalls = 1 .. Len(initcalls) /\ Len(initcalls) \in Nat \ {0}
    /\ \A l \in 1 .. Len(initcalls) :
           /\ initcalls[l] \in Seq(Fn) /\ Len(initcalls[l]) \in Nat
           /\ DOMAIN initcalls[l] = 1 .. Len(initcalls[l])
  <1>1. initcalls \in Seq(Seq(Fn)) /\ Len(initcalls) >= 1
    BY BootAssumption
  <1>2. \A l \in 1 .. Len(initcalls) : initcalls[l] \in Seq(Fn)
    BY <1>1
  <1> QED  BY <1>1, <1>2

(* The position in the list of initcalls, and what has run. *)
LEMMA InitcallsTyped ==
    ASSUME Types, [Next]_vars
    PROVE  /\ level' \in 1 .. Len(initcalls) /\ next' \in Nat \ {0}
           /\ ran' \in Seq(Initcalls) /\ async' \in 0 .. MaxAsync
  <1>0. /\ level \in 1 .. Len(initcalls) /\ next \in Nat \ {0}
        /\ ran \in Seq(Initcalls) /\ async \in 0 .. MaxAsync
    BY DEF Types, TypeOK
  <1>1. ASSUME NEW off \in BOOLEAN, NEW unbalanced \in BOOLEAN, NEW scheduled \in {0, 1},
               RunInitcall(off, unbalanced, scheduled)
        PROVE  /\ level' \in 1 .. Len(initcalls) /\ next' \in Nat \ {0}
               /\ ran' \in Seq(Initcalls) /\ async' \in 0 .. MaxAsync
    <2>1. next \in DOMAIN initcalls[level]
      BY <1>0, <1>1, LevelTyped DEF RunInitcall, Section
    <2>2. <<level, next>> \in Initcalls
      <3>1. level \in DOMAIN initcalls /\ next \in DOMAIN initcalls[level]
        BY <1>0, <2>1, LevelTyped
      <3> QED  BY <3>1 DEF Initcalls
    <2>3. ran' \in Seq(Initcalls)
      BY <1>0, <1>1, <2>2 DEF RunInitcall
    <2>4. async' \in 0 .. MaxAsync
      BY <1>0, <1>1, BootAssumption DEF RunInitcall
    <2> QED  BY <1>0, <1>1, <2>3, <2>4 DEF RunInitcall
  <1>2. CASE SkipInitcall
    BY <1>0, <1>2 DEF SkipInitcall
  <1>3. CASE NextLevel
    BY <1>0, <1>3, BootAssumption DEF NextLevel
  <1>4. CASE AsyncRuns
    BY <1>0, <1>4, BootAssumption DEF AsyncRuns
  <1>5. CASE UNCHANGED callVars
    BY <1>0, <1>5 DEF callVars
  <1>6. \/ SkipInitcall \/ NextLevel \/ AsyncRuns \/ UNCHANGED callVars
        \/ \E off, unbalanced \in BOOLEAN, scheduled \in {0, 1} :
               RunInitcall(off, unbalanced, scheduled)
    BY DEF Next, BootThread, InitThread, Booted, vars, StartKernel, NoMemory, ParseArgs, SetUp,
           FixIrqs, EndEarlyBoot, EnableIrqs, Console, SpawnInit, SpawnKthreadd, SetScheduling,
           Complete, Idle, WaitForKthreadd, WorkqueueInit, Restore, CheckRamdisk, Synchronize,
           FreeInitmem, SetRunning, Execute, NothingWorks
  <1> QED  BY <1>1, <1>2, <1>3, <1>4, <1>5, <1>6

(* What has been tried as process 1, and what runs. *)
LEMMA ProcessTyped ==
    ASSUME Types, [Next]_vars
    PROVE  failed' \subseteq Program /\ process' \in {"none", "panic"} \cup Program
  <1>1. failed \subseteq Program /\ process \in {"none", "panic"} \cup Program
    BY DEF Types, TypeOK, Program
  <1>2. ASSUME NEW n \in 1 .. Len(Defaults) + 2, Execute(n)
        PROVE  failed' \subseteq Program /\ process' \in {"none", "panic"} \cup Program
    BY <1>1, <1>2, ProgramsTyped DEF Execute
  <1>3. \/ \E n \in 1 .. Len(Defaults) + 2 : Execute(n)
        \/ failed' = failed /\ process' \in {process, "panic"}
    BY DEF Next, BootThread, InitThread, Booted, vars, endVars, StartKernel, NoMemory, ParseArgs,
           SetUp, FixIrqs, EndEarlyBoot, EnableIrqs, Console, SpawnInit, SpawnKthreadd,
           SetScheduling, Complete, Idle, WaitForKthreadd, WorkqueueInit, RunInitcall, SkipInitcall,
           Restore, NextLevel, CheckRamdisk, Synchronize, FreeInitmem, SetRunning, NothingWorks,
           Panic, AsyncRuns
  <1> QED  BY <1>1, <1>2, <1>3

(* Every step of the boot keeps the types. *)
LEMMA TypesNext == Types /\ [Next]_vars => Types'
  <1> SUFFICES ASSUME Types, [Next]_vars PROVE Types'
    OBVIOUS
  <1>1. ArgsInv' /\ BootInv'
    BY CommandLineTyped, BootNextInv DEF Types
  <1>2. kthreadd_done' \in Nat
    BY <1>1 DEF BootInv, HandOver
  <1> QED  BY <1>1, <1>2, InitcallsTyped, ProcessTyped
           DEF Types, TypeOK, ArgsInv, BootInv, BootTypes, Program

(* TypeOK: every variable keeps its type; in particular the completion is  *)
(* never waited for more often than it was completed, and no initcall is   *)
(* taken from behind the end of its level.                                 *)
THEOREM BootTypeCorrect == Spec => []TypeOK
  <1>1. Types => TypeOK
    BY DEF Types
  <1> QED  BY TypesInit, TypesNext, <1>1, PTL DEF Spec

-----------------------------------------------------------------------------
(***************************************************************************)
(* The initcalls.                                                          *)
(***************************************************************************)

(* The initcalls that come before the one to run next have run, but for    *)
(* the blacklisted ones.  Until kernel_init comes to the first of them,    *)
(* and so as long as the command line is read, there are none.             *)
Due(c) == Before(c, <<level, next>>) /\ initcalls[c[1]][c[2]] \notin blacklisted

OnlyDue == \A i \in DOMAIN ran : Due(ran[i])
AllDue  == \A c \in Initcalls : Due(c) => \E i \in DOMAIN ran : ran[i] = c
Ordered == \A i, j \in DOMAIN ran : i < j => Before(ran[i], ran[j])

Position ==
    /\ level \in 1 .. Len(initcalls) /\ next \in Nat \ {0}
    /\ init \in {"none", "wait", "workqueue"} => level = 1 /\ next = 1
    /\ init \notin {"none", "wait", "workqueue", "initcall", "restore"} =>
           level = Len(initcalls) /\ next > Len(initcalls[level])
    /\ next <= Len(initcalls[level]) + 1

CallsInv == ran \in Seq(Initcalls) /\ Position /\ OnlyDue /\ AllDue /\ Ordered

(* A place is a pair of the number of a level and a number in it. *)
LEMMA PlaceOfInitcall ==
    ASSUME NEW c \in Initcalls
    PROVE  /\ c = <<c[1], c[2]>> /\ c[1] \in 1 .. Len(initcalls)
           /\ c[2] \in Nat \ {0} /\ c[2] <= Len(initcalls[c[1]])
  <1>1. PICK l \in DOMAIN initcalls : c \in {l} \X (DOMAIN initcalls[l])
    BY DEF Initcalls
  <1> QED  BY <1>1, LevelTyped

(* Before kernel_init there is nothing to run yet. *)
LEMMA NothingDue ==
    ASSUME level = 1, next = 1, NEW c \in Initcalls
    PROVE  ~Due(c)
  BY PlaceOfInitcall DEF Due, Before

LEMMA CallsInit == Init => CallsInv
  <1> SUFFICES ASSUME Init PROVE CallsInv
    OBVIOUS
  <1>1. level = 1 /\ next = 1 /\ ran = <<>> /\ init = "none"
    BY DEF Init
  <1>2. Position
    BY <1>1, LevelTyped DEF Position
  <1>3. AllDue
    BY <1>1, NothingDue DEF AllDue
  <1> QED  BY <1>1, <1>2, <1>3 DEF CallsInv, OnlyDue, Ordered

(* One more element at the end of a history. *)
LEMMA Appended ==
    ASSUME NEW S, NEW s \in Seq(S), NEW e \in S, NEW t, t = Append(s, e)
    PROVE  /\ DOMAIN t = DOMAIN s \cup {Len(s) + 1} /\ t[Len(s) + 1] = e
           /\ \A i \in DOMAIN s : t[i] = s[i] /\ i < Len(s) + 1 /\ s[i] \in S
           /\ DOMAIN s \subseteq Nat /\ Len(s) \in Nat /\ t \in Seq(S)
  OBVIOUS

(* One more initcall has been run or skipped. *)
LEMMA OneFurther ==
    ASSUME NEW c \in Initcalls, level \in Nat, next \in Nat,
           level' = level, next' = next + 1, blacklisted' = blacklisted
    PROVE  Due(c)' <=> Due(c) \/ (c = <<level, next>> /\ initcalls[level][next] \notin blacklisted)
  <1>1. c = <<c[1], c[2]>> /\ c[1] \in Nat /\ c[2] \in Nat
    BY PlaceOfInitcall, LevelTyped
  <1>2. Before(c, <<level, next + 1>>) <=> Before(c, <<level, next>>) \/ c = <<level, next>>
    BY <1>1 DEF Before
  <1> QED  BY <1>2 DEF Due

(* A level is done: what comes before the next one has been run or skipped. *)
LEMMA LevelDone ==
    ASSUME NEW c \in Initcalls, level \in Nat, next > Len(initcalls[level]), next \in Nat,
           level' = level + 1, next' = 1, blacklisted' = blacklisted
    PROVE  Due(c)' <=> Due(c)
  <1>1. /\ c[1] \in Nat /\ c[2] \in Nat \ {0}
        /\ c[1] = level => c[2] < next
    BY PlaceOfInitcall, LevelTyped
  <1>2. Before(c, <<level + 1, 1>>) <=> Before(c, <<level, next>>)
    BY <1>1 DEF Before
  <1> QED  BY <1>2 DEF Due

(* Steps that touch neither the position nor, once it is used, the list. *)
LEMMA CallsFrame ==
    ASSUME CallsInv, UNCHANGED <<level, next, ran>>,
           init = "none" \/ blacklisted' = blacklisted,
           init' \in {"none", "wait", "workqueue"} => init \in {"none", "wait", "workqueue"},
           init' \notin {"none", "wait", "workqueue", "initcall", "restore"} =>
               init \notin {"none", "wait", "workqueue", "initcall", "restore"}
    PROVE  CallsInv'
  <1>1. Position' /\ Ordered' /\ ran' \in Seq(Initcalls)
    BY DEF CallsInv, Position, Ordered
  <1>2. CASE blacklisted' = blacklisted
    <2>1. OnlyDue' /\ AllDue'
      BY <1>2 DEF CallsInv, OnlyDue, AllDue, Due
    <2> QED  BY <1>1, <2>1 DEF CallsInv
  <1>3. CASE init = "none"
    <2>1. level = 1 /\ next = 1
      BY <1>3 DEF CallsInv, Position
    <2>2. \A c \in Initcalls : ~Due(c) /\ ~Due(c)'
      <3>1. \A c \in Initcalls : ~Before(c, <<level, next>>)
        BY <2>1, PlaceOfInitcall DEF Before
      <3> QED  BY <3>1 DEF Due
    <2>3. DOMAIN ran = {}
      BY <2>2 DEF CallsInv, OnlyDue
    <2> QED  BY <1>1, <2>2, <2>3 DEF CallsInv, OnlyDue, AllDue
  <1> QED  BY <1>2, <1>3

(* An initcall runs, is skipped, or its level ends. *)
LEMMA CallsStep ==
    ASSUME CallsInv,
           \/ \E off, unbalanced \in BOOLEAN, scheduled \in {0, 1} :
                  RunInitcall(off, unbalanced, scheduled)
           \/ SkipInitcall \/ NextLevel
    PROVE  CallsInv'
  <1>0. /\ level \in Nat /\ level \in 1 .. Len(initcalls) /\ next \in Nat \ {0}
        /\ ran \in Seq(Initcalls) /\ OnlyDue /\ AllDue /\ Ordered
        /\ Len(initcalls[level]) \in Nat /\ next <= Len(initcalls[level]) + 1
    <2>1. Position /\ ran \in Seq(Initcalls) /\ OnlyDue /\ AllDue /\ Ordered
      BY DEF CallsInv
    <2>2. /\ level \in 1 .. Len(initcalls) /\ next \in Nat \ {0}
          /\ next <= Len(initcalls[level]) + 1
      BY <2>1 DEF Position
    <2>3. level \in Nat /\ Len(initcalls[level]) \in Nat
      BY <2>2, LevelTyped
    <2> QED  BY <2>1, <2>2, <2>3
  <1>1. ASSUME NEW off \in BOOLEAN, NEW unbalanced \in BOOLEAN, NEW scheduled \in {0, 1},
               RunInitcall(off, unbalanced, scheduled)
        PROVE  CallsInv'
    <2>1. /\ next <= Len(initcalls[level]) /\ initcalls[level][next] \notin blacklisted
          /\ ran' = Append(ran, <<level, next>>) /\ next' = next + 1 /\ level' = level
          /\ blacklisted' = blacklisted /\ init' = "restore"
      BY <1>1 DEF RunInitcall, IsBlacklisted, Section, argVars
    <2>2. <<level, next>> \in Initcalls
      <3>1. level \in DOMAIN initcalls /\ next \in DOMAIN initcalls[level]
        BY <1>0, <2>1, LevelTyped
      <3> QED  BY <3>1 DEF Initcalls
    <2>3. /\ DOMAIN ran' = DOMAIN ran \cup {Len(ran) + 1} /\ ran'[Len(ran) + 1] = <<level, next>>
          /\ \A i \in DOMAIN ran : ran'[i] = ran[i] /\ i < Len(ran) + 1 /\ ran[i] \in Initcalls
          /\ DOMAIN ran \subseteq Nat /\ Len(ran) \in Nat /\ ran' \in Seq(Initcalls)
      <3>1. ran \in Seq(Initcalls) /\ ran' = Append(ran, <<level, next>>)
        BY <1>0, <2>1
      <3> QED  BY <2>2, <3>1, Appended
    <2>4. \A c \in Initcalls : Due(c)' <=> Due(c) \/ c = <<level, next>>
      BY <1>0, <2>1, OneFurther
    <2>5. OnlyDue' /\ AllDue'
      BY <1>0, <2>2, <2>3, <2>4 DEF OnlyDue, AllDue
    <2>6. \A i \in DOMAIN ran : Before(ran[i], <<level, next>>)
      BY <1>0 DEF OnlyDue, Due
    <2>7. Ordered'
      <3> SUFFICES ASSUME NEW i \in DOMAIN ran', NEW j \in DOMAIN ran', i < j
                   PROVE  Before(ran'[i], ran'[j])
        BY DEF Ordered, Before
      <3>1. i \in DOMAIN ran
        BY <2>3
      <3>2. CASE j \in DOMAIN ran
        BY <1>0, <2>3, <3>1, <3>2 DEF Ordered
      <3>3. CASE j = Len(ran) + 1
        BY <2>3, <2>6, <3>1, <3>3
      <3> QED  BY <2>3, <3>2, <3>3
    <2>8. Position'
      BY <1>0, <2>1 DEF Position
    <2> QED  BY <2>3, <2>5, <2>7, <2>8 DEF CallsInv
  <1>2. CASE SkipInitcall
    <2>1. /\ next <= Len(initcalls[level]) /\ initcalls[level][next] \in blacklisted
          /\ ran' = ran /\ next' = next + 1 /\ level' = level
          /\ blacklisted' = blacklisted /\ init' = init /\ init = "initcall"
      BY <1>2 DEF SkipInitcall, IsBlacklisted, Section, argVars, InitAt
    <2>2. \A c \in Initcalls : Due(c)' <=> Due(c)
      BY <1>0, <2>1, OneFurther
    <2>3. \A i \in DOMAIN ran : ran[i] \in Initcalls
      BY <1>0
    <2>4. OnlyDue' /\ AllDue' /\ Ordered'
      BY <1>0, <2>1, <2>2, <2>3 DEF OnlyDue, AllDue, Ordered
    <2>5. Position'
      BY <1>0, <2>1 DEF Position
    <2> QED  BY <1>0, <2>1, <2>4, <2>5 DEF CallsInv
  <1>3. CASE NextLevel
    <2>1. /\ next > Len(initcalls[level]) /\ ran' = ran /\ blacklisted' = blacklisted
          /\ init = "initcall"
      BY <1>3 DEF NextLevel, Section, argVars, InitAt
    <2>2. \A i \in DOMAIN ran : ran[i] \in Initcalls
      BY <1>0
    <2>3. CASE level < Len(initcalls)
      <3>1. level' = level + 1 /\ next' = 1 /\ init' = init
        BY <1>3, <2>3 DEF NextLevel
      <3>2. \A c \in Initcalls : Due(c)' <=> Due(c)
        BY <1>0, <2>1, <3>1, LevelDone
      <3>3. OnlyDue' /\ AllDue' /\ Ordered'
        BY <1>0, <2>1, <2>2, <3>2 DEF OnlyDue, AllDue, Ordered
      <3>4. level' \in 1 .. Len(initcalls)
        BY <1>0, <2>3, <3>1, LevelTyped
      <3>5. Position'
        BY <2>1, <3>1, <3>4, LevelTyped DEF Position
      <3> QED  BY <1>0, <2>1, <3>3, <3>5 DEF CallsInv
    <2>4. CASE ~(level < Len(initcalls))
      <3>1. level' = level /\ next' = next /\ init' = "ramdisk"
        BY <1>3, <2>4 DEF NextLevel
      <3>2. OnlyDue' /\ AllDue' /\ Ordered'
        BY <1>0, <2>1, <3>1 DEF OnlyDue, AllDue, Ordered, Due
      <3>3. level = Len(initcalls)
        <4>1. Len(initcalls) \in Nat /\ level \in 1 .. Len(initcalls)
          BY <1>0, LevelTyped
        <4> QED  BY <2>4, <4>1
      <3>4. Position'
        BY <1>0, <2>1, <3>1, <3>3 DEF Position
      <3> QED  BY <1>0, <2>1, <3>2, <3>4 DEF CallsInv
    <2> QED  BY <2>3, <2>4
  <1> QED  BY <1>1, <1>2, <1>3

(* Every other step is of the framed kind. *)
LEMMA CallsNext == CallsInv /\ BootInv /\ [Next]_vars => CallsInv'
  <1> SUFFICES ASSUME CallsInv, BootInv, [Next]_vars PROVE CallsInv'
    OBVIOUS
  <1>1. CASE ParseArgs
    <2>1. init = "none"
      BY <1>1 DEF ParseArgs, BootAt, BootInv, HandOver
    <2> QED  BY <1>1, <2>1, CallsFrame DEF ParseArgs, callVars
  <1>2. CASE Console
    BY <1>2, CallsFrame DEF Console, PanicLater, callVars
  <1>3. ASSUME NEW found \in BOOLEAN, CheckRamdisk(found)
        PROVE  CallsInv'
    BY <1>3, CallsFrame DEF CheckRamdisk, InitAt, callVars
  <1>4. CASE \/ StartKernel \/ NoMemory \/ FixIrqs \/ EndEarlyBoot \/ EnableIrqs
             \/ SpawnKthreadd \/ SetScheduling \/ Complete \/ Idle
             \/ \E on \in BOOLEAN : SetUp(on)
    BY <1>4, CallsFrame
       DEF StartKernel, NoMemory, FixIrqs, EndEarlyBoot, EnableIrqs, SpawnKthreadd, SetScheduling,
           Complete, Idle, SetUp, argVars, callVars
  <1>5. CASE SpawnInit
    <2>1. init = "none"
      BY <1>5 DEF SpawnInit, BootAt, BootInv, HandOver
    <2> QED  BY <1>5, <2>1, CallsFrame DEF SpawnInit, argVars, callVars
  <1>6. CASE WaitForKthreadd \/ WorkqueueInit \/ Restore \/ Synchronize \/ FreeInitmem
    BY <1>6, CallsFrame
       DEF WaitForKthreadd, WorkqueueInit, Restore, Synchronize, FreeInitmem, InitAt, argVars,
           callVars
  <1>7. CASE \/ SetRunning \/ NothingWorks \/ AsyncRuns
             \/ \E n \in 1 .. Len(Defaults) + 2 : Execute(n)
    BY <1>7, CallsFrame DEF SetRunning, NothingWorks, AsyncRuns, Execute, InitAt, argVars, callVars
  <1>8. CASE UNCHANGED vars
    BY <1>8, CallsFrame DEF vars, argVars, callVars
  <1> QED  BY <1>1, <1>2, <1>3, <1>4, <1>5, <1>6, <1>7, <1>8, CallsStep
           DEF Next, BootThread, InitThread, Booted

(* InLinkOrder: the initcalls run in the order of the levels and the link, *)
(* none twice, and all of them but the blacklisted ones.                   *)
THEOREM InitcallsInOrder == Spec => []InLinkOrder
  <1>1. CallsInv => InLinkOrder
    <2> SUFFICES ASSUME CallsInv,
                        init \in {"ramdisk", "synchronize", "free", "running", "run", "exec"}
                 PROVE  {ran[i] : i \in DOMAIN ran}
                            = {c \in Initcalls : initcalls[c[1]][c[2]] \notin blacklisted}
      BY DEF InLinkOrder, CallsInv, Ordered
    <2>1. /\ level = Len(initcalls) /\ next > Len(initcalls[level]) /\ next \in Nat
          /\ \A i \in DOMAIN ran : ran[i] \in Initcalls
      BY DEF CallsInv, Position
    <2>2. ASSUME NEW c \in Initcalls PROVE Before(c, <<level, next>>)
      <3>1. c[1] \in 1 .. level /\ c[2] \in Nat /\ (c[1] = level => c[2] < next)
        BY <2>1, PlaceOfInitcall, LevelTyped
      <3> QED  BY <2>1, <3>1, LevelTyped DEF Before
    <2>3. \A c \in Initcalls : Due(c) <=> initcalls[c[1]][c[2]] \notin blacklisted
      BY <2>2 DEF Due
    <2> QED  BY <2>1, <2>3 DEF CallsInv, OnlyDue, AllDue
  <1> QED  BY CallsInit, CallsNext, BootInvariance, <1>1, PTL DEF Spec

-----------------------------------------------------------------------------
(***************************************************************************)
(* The choice of process 1.                                                *)
(***************************************************************************)

(* Nothing is tried before kernel_init comes to it, and then the programs  *)
(* to choose from stay the same.                                           *)
ChoiceInv ==
    /\ init \notin {"run", "exec"} => process \in {"none", "panic"}
    /\ InitAsRequested

(* What the list of programs is, for each kind of command line. *)
LEMMA ProgramList ==
    /\ ramdisk_execute_command = NULL /\ execute_command = NULL => Programs = Defaults
    /\ ramdisk_execute_command # NULL /\ execute_command = NULL
           => Programs = <<"ramdisk">> \o Defaults
    /\ ramdisk_execute_command = NULL /\ execute_command # NULL => Programs = <<"requested">>
    /\ ramdisk_execute_command # NULL /\ execute_command # NULL
           => Programs = <<"ramdisk">> \o <<"requested">>
  <1>1. (<<>> \o <<>>) \o Defaults = Defaults
    BY DEF Defaults
  <1>2. (<<"ramdisk">> \o <<>>) \o Defaults = <<"ramdisk">> \o Defaults
    BY DEF Defaults
  <1>3. (<<>> \o <<"requested">>) \o <<>> = <<"requested">>
    OBVIOUS
  <1>4. (<<"ramdisk">> \o <<"requested">>) \o <<>> = <<"ramdisk">> \o <<"requested">>
    OBVIOUS
  <1> QED  BY <1>1, <1>2, <1>3, <1>4 DEF Programs, DefaultsTried

(* The first program that can be executed is the one that was asked for.   *)
LEMMA ExecuteAsRequested ==
    ASSUME NEW n \in 1 .. Len(Programs),
           \A k \in 1 .. n - 1 : Programs[k] \in failed
    PROVE  /\ Programs[n] \in {Defaults[i] : i \in DOMAIN Defaults} =>
                 /\ execute_command = NULL
                 /\ \A i, j \in DOMAIN Defaults :
                        Defaults[j] = Programs[n] /\ i < j => Defaults[i] \in failed
           /\ ramdisk_execute_command # NULL /\ Programs[n] # "ramdisk" => "ramdisk" \in failed
  <1>1. CASE ramdisk_execute_command = NULL /\ execute_command = NULL
    BY <1>1, ProgramList DEF Defaults
  <1>2. CASE ramdisk_execute_command # NULL /\ execute_command = NULL
    <2>1. /\ Len(Programs) = 5 /\ Programs[1] = "ramdisk"
          /\ \A i \in DOMAIN Defaults : Programs[i + 1] = Defaults[i]
      BY <1>2, ProgramList DEF Defaults
    <2>2. \A i, j \in DOMAIN Defaults : Defaults[i] = Defaults[j] => i = j
      BY DEF Defaults
    <2>3. CASE n = 1
      BY <1>2, <2>1, <2>3 DEF Defaults
    <2>4. CASE n # 1
      <3>1. n - 1 \in DOMAIN Defaults /\ Programs[n] = Defaults[n - 1] /\ "ramdisk" \in failed
        BY <2>1, <2>4 DEF Defaults
      <3>2. \A i \in DOMAIN Defaults : i < n - 1 => Defaults[i] \in failed
        BY <2>1 DEF Defaults
      <3> QED  BY <1>2, <2>2, <3>1, <3>2
    <2> QED  BY <2>3, <2>4
  <1>3. \A i \in DOMAIN Defaults : Defaults[i] \notin {"ramdisk", "requested"}
    BY DEF Defaults
  <1>4. CASE ramdisk_execute_command = NULL /\ execute_command # NULL
    <2>1. Len(Programs) = 1 /\ Programs[1] = "requested"
      BY <1>4, ProgramList
    <2> QED  BY <1>3, <1>4, <2>1
  <1>5. CASE ramdisk_execute_command # NULL /\ execute_command # NULL
    <2>1. Len(Programs) = 2 /\ Programs[1] = "ramdisk" /\ Programs[2] = "requested"
      BY <1>5, ProgramList
    <2> QED  BY <1>3, <1>5, <2>1
  <1> QED  BY <1>1, <1>2, <1>4, <1>5

(* do_execve of a program. *)
LEMMA ChoiceExecute ==
    ASSUME ChoiceInv, NEW n \in 1 .. Len(Defaults) + 2, Execute(n)
    PROVE  ChoiceInv'
  <1>1. /\ n \in 1 .. Len(Programs) /\ \A k \in 1 .. n - 1 : Programs[k] \in failed
        /\ init = "run" /\ UNCHANGED <<execute_command, ramdisk_execute_command>>
    BY DEF Execute, InitAt, argVars, commands
  <1>2. CASE process' = Programs[n] /\ init' = "exec" /\ failed' = failed
    BY <1>1, <1>2, ExecuteAsRequested DEF ChoiceInv, InitAsRequested
  <1>3. CASE failed' = failed \cup {Programs[n]} /\ process' = process /\ init' = init
    BY <1>1, <1>3 DEF ChoiceInv, InitAsRequested
  <1> QED  BY <1>2, <1>3 DEF Execute

(* A step that executes nothing, and changes the commands only before any  *)
(* program is tried.                                                       *)
LEMMA ChoiceFrame ==
    ASSUME ChoiceInv, failed' = failed, process' \in {process, "panic"},
           process' = process =>
               \/ process \in {"none", "panic"}
               \/ UNCHANGED <<execute_command, ramdisk_execute_command>>,
           init' \notin {"run", "exec"} => init \notin {"run", "exec"}
    PROVE  ChoiceInv'
  <1>1. CASE process' \in {"none", "panic"}
    BY <1>1 DEF ChoiceInv, InitAsRequested, Defaults
  <1>2. CASE process' \notin {"none", "panic"}
    BY <1>2 DEF ChoiceInv, InitAsRequested
  <1> QED  BY <1>1, <1>2

(* Every step keeps the choice. *)
LEMMA ChoiceNext == ChoiceInv /\ BootInv /\ [Next]_vars => ChoiceInv'
  <1> SUFFICES ASSUME ChoiceInv, BootInv, [Next]_vars PROVE ChoiceInv'
    OBVIOUS
  <1> USE DEF endVars, argVars, commands
  <1>1. CASE ParseArgs \/ Console
    <2>1. init = "none" /\ init' = "none"
      BY <1>1 DEF ParseArgs, Console, BootAt, BootInv, HandOver
    <2> QED  BY <1>1, <2>1, ChoiceFrame DEF ParseArgs, Console, ChoiceInv
  <1>2. ASSUME NEW found \in BOOLEAN, CheckRamdisk(found)
        PROVE  ChoiceInv'
    BY <1>2, ChoiceFrame DEF CheckRamdisk, InitAt, ChoiceInv
  <1>3. CASE \/ StartKernel \/ NoMemory \/ FixIrqs \/ EndEarlyBoot \/ EnableIrqs
             \/ SpawnKthreadd \/ SetScheduling \/ Complete \/ Idle
             \/ \E on \in BOOLEAN : SetUp(on)
    BY <1>3, ChoiceFrame
       DEF StartKernel, NoMemory, FixIrqs, EndEarlyBoot, EnableIrqs, SpawnKthreadd, SetScheduling,
           Complete, Idle, SetUp
  <1>4. CASE SpawnInit
    <2>1. init = "none"
      BY <1>4 DEF SpawnInit, BootAt, BootInv, HandOver
    <2> QED  BY <1>4, <2>1, ChoiceFrame DEF SpawnInit
  <1>5. CASE \/ WaitForKthreadd \/ WorkqueueInit \/ SkipInitcall \/ Restore \/ NextLevel
             \/ \E off, unbalanced \in BOOLEAN, scheduled \in {0, 1} :
                    RunInitcall(off, unbalanced, scheduled)
    BY <1>5, ChoiceFrame
       DEF WaitForKthreadd, WorkqueueInit, SkipInitcall, Restore, NextLevel, RunInitcall, InitAt
  <1>6. CASE Synchronize \/ FreeInitmem \/ SetRunning \/ NothingWorks \/ AsyncRuns
    BY <1>6, ChoiceFrame
       DEF Synchronize, FreeInitmem, SetRunning, NothingWorks, Panic, AsyncRuns, InitAt
  <1>7. CASE UNCHANGED vars
    BY <1>7, ChoiceFrame DEF vars
  <1> QED  BY <1>1, <1>2, <1>3, <1>4, <1>5, <1>6, <1>7, ChoiceExecute
           DEF Next, BootThread, InitThread, Booted

(* InitAsRequested: a default runs as process 1 only when no program was   *)
(* asked for with init= and the defaults before it have failed, and        *)
(* nothing else runs in place of the ramdisk's init that works.            *)
THEOREM InitChosenAsRequested == Spec => []InitAsRequested
  <1>1. Init => ChoiceInv
    BY DEF Init, ChoiceInv, InitAsRequested, Defaults
  <1>2. ChoiceInv => InitAsRequested
    BY DEF ChoiceInv
  <1> QED  BY <1>1, <1>2, ChoiceNext, BootInvariance, PTL DEF Spec

-----------------------------------------------------------------------------
(***************************************************************************)
(* The command line, from the parsing to the program it is given to.       *)
(***************************************************************************)

(* console_init is passed by a kernel that boots only, and so is the start *)
(* of the program.                                                         *)
Past == {"rest_init", "spawn", "scheduling", "complete", "schedule", "idle"}

Parsing ==
    /\ boot \in Past /\ process # "panic" => stage = "booting"
    /\ process \notin {"none", "panic"} => stage = "booting"

GivenInv == OrderInv /\ EnvInv /\ Parsing

(* Nothing is parsed, nothing is run. *)
LEMMA GivenInit == Init => GivenInv
  BY OrderInit, EnvInit DEF Init, GivenInv, Parsing, Past

(* Looking for the ramdisk changes no vector. *)
LEMMA GivenRamdisk ==
    ASSUME OrderInv, EnvInv, NEW found \in BOOLEAN, CheckRamdisk(found)
    PROVE  OrderInv' /\ EnvInv'
  <1>1. ArgsInv'
    BY CommandLineTyped DEF OrderInv, Next, InitThread
  <1> QED
    BY <1>1 DEF OrderInv, EnvInv, ArgsOrder, EnvOrder, NoGaps, NamedOnce, CheckRamdisk, history

(* What BootArgs promises is kept by all the steps of the boot. *)
LEMMA GivenNext == GivenInv /\ BootInv /\ [Next]_vars => GivenInv'
  <1> SUFFICES ASSUME GivenInv, BootInv, [Next]_vars PROVE GivenInv'
    OBVIOUS
  <1>1. OrderInv' /\ EnvInv'
    <2>1. CASE \E found \in BOOLEAN : CheckRamdisk(found)
      BY <2>1, GivenRamdisk DEF GivenInv
    <2>2. CASE ParseArgs \/ Console \/ UNCHANGED argVars
      <3>1. [ArgsNext]_argVars
        BY <2>2 DEF ParseArgs, Console, ArgsNext
      <3> QED  BY <3>1, OrderNext, EnvNext DEF GivenInv
    <2> QED  BY <2>1, <2>2, CommandLineSteps
  <1>2. Parsing'
    <2> USE DEF GivenInv, Parsing, Past
    <2>1. CASE ParseArgs
      <3>1. stage # "booting"
        BY <2>1 DEF ParseArgs, Parse, Word, Consumed, SetRodata, InitSetup, RdinitSetup, Dashes,
                    set_init_arg, Setting, BlacklistInitcall, BlacklistPanics, Parsed, NextOption
      <3> QED  BY <2>1, <3>1 DEF ParseArgs, endVars
    <2>2. CASE Console
      BY <2>2 DEF Console, PanicLater
    <2>3. ASSUME NEW n \in 1 .. Len(Defaults) + 2, Execute(n) PROVE Parsing'
      <3>1. stage = "booting"
        BY <2>3 DEF Execute, InitAt, BootInv, HandOver
      <3> QED  BY <2>3, <3>1 DEF Execute, argVars
    <2>4. CASE UNCHANGED <<stage, process>> /\ (boot' \in Past => boot \in Past)
      BY <2>4
    <2>5. CASE NoMemory \/ NothingWorks
      BY <2>5 DEF NoMemory, NothingWorks, Panic, argVars
    <2>6. \/ ParseArgs \/ Console \/ NoMemory \/ NothingWorks
          \/ \E n \in 1 .. Len(Defaults) + 2 : Execute(n)
          \/ UNCHANGED <<stage, process>> /\ (boot' \in Past => boot \in Past)
      BY DEF Next, BootThread, InitThread, Booted, vars, argVars, endVars, BootAt, StartKernel,
             SetUp, Stretch, FixIrqs, EndEarlyBoot, EnableIrqs, SpawnInit, SpawnKthreadd,
             SetScheduling,
             Complete, Idle, WaitForKthreadd, WorkqueueInit, RunInitcall, SkipInitcall, Restore,
             NextLevel, CheckRamdisk, Synchronize, FreeInitmem, SetRunning, AsyncRuns
    <2> QED  BY <2>1, <2>2, <2>3, <2>4, <2>5, <2>6
  <1> QED  BY <1>1, <1>2 DEF GivenInv

(* VectorsEnd, ArgumentsAsTyped and LastValueWins when the program runs:   *)
(* from the parsing to the execve nothing disturbs what init is given.     *)
THEOREM ProgramIsGiven ==
    Spec => []( /\ process \notin {"none", "panic"} => stage = "booting"
                /\ VectorsEnd /\ ArgumentsAsTyped /\ LastValueWins )
  <1>1. GivenInv => /\ process \notin {"none", "panic"} => stage = "booting"
                    /\ VectorsEnd /\ ArgumentsAsTyped /\ LastValueWins
    BY SpareEnds, OrderSuffices, EnvSuffices DEF GivenInv, Parsing, OrderInv
  <1> QED  BY <1>1, GivenInit, GivenNext, BootInvariance, PTL DEF Spec
=============================================================================
