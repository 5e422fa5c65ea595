# TLA+ specifications of the CS421 projects

The repository holds three operating-system projects: a small shell (project 0),
mailbox system calls for the kernel (project 1), and a system call sandbox that is
hooked into a Linux 4.20-style kernel (project 2, with its copies of the kernel
files `common.c` and `main.c`). This directory holds TLA+ models of the parts that
have behaviour worth checking, TLC configurations for small instances, and TLAPS
proofs for every instance.

Files:

| module | what it is |
| --- | --- |
| `Sandbox` | `proj2.c`, `proj2.h`: the table, the three handlers, `findder` |
| `BlockPolicy` | what the sandbox promises, without its table and lock |
| `SandboxProofs` | proofs about `Sandbox`, the refinement of `BlockPolicy` included |
| `SandboxClaims` | what the sandbox's comments say and its code does not do |
| `Dispatch` | the sandbox and `do_syscall_64` together: lookup, dispatch, handlers |
| `DispatchProofs` | proofs about `Dispatch` |
| `DispatchRefines` | proof that `Dispatch` implements its two components, and what follows |
| `SyscallEntry` | `common.c`: system call entry and exit, with the call of `findder` |
| `SyscallProofs` | proofs about `SyscallEntry` |
| `SyscallClaims` | what the comment of the added lines says and they do not do |
| `BootArgs` | `main.c`: the kernel command line and the vectors given to init |
| `Boot` | `main.c`: `rest_init`, `kernel_init`, initcalls, freeing `__init` memory |
| `BootArgsProofs`, `BootProofs` | proofs about them |
| `Shell` | `simple_shell.c` |
| `ShellProofs` | proofs about `Shell` |
| `Mailbox` | `project1.c`: the mailbox system calls, as far as the code can get |
| `MailboxProofs` | proofs about `Mailbox` |
| `MC*`, `*.cfg` | instances for TLC |

`tlc -config X.cfg M` runs a configuration, `tlapm M.tla` checks the proofs of
`DispatchRefines` or of a `*Proofs` module. PROJECT.json lists the runs, the source
lines each definition stands for, the hazards the properties are aimed at and, for
each property, a faulty variant of a definition that the property catches.

## Inventory

### System call sandbox (`project 2/proj2/kernel/proj2.c`, `project 2/proj2.h`)

*State*: `permList`, an array of 437 entries, each with `call` (999 for "nothing
blocked", the entry's own number when it is armed), `count` (how often a call was
denied) and `hash`, 32 slots that hold uids; `lockTable`, a mutex; `started`.

*Operations*: `sbx421_block`, `sbx421_unblock` and `sbx421_count` (system calls 434 to
436), `initalizeHash`, which the first of them calls, and `findder`, which
`do_syscall_64` calls at the start of every 64-bit system call.

*Interaction*: tasks run on several CPUs. The handlers change the table under
`lockTable`; `initalizeHash` and `findder` touch it without any lock. So what is
hard is the interleaving: a lookup in the middle of a critical section, a second
initialisation over a table in use, increments of `count` that race with its reset.

*Correctness*: the mutex is released on every path; a slot is changed only by root
or a user of that slot; a user other than root is denied a call only while a block
somebody entitled has made stands; a block is not lost but in known ways; `count`
never says more than happened; every call returns.

### System call entry and exit (`project 2/common.c`)

*State*: the interrupt flag of the CPU, the context-tracking state, the thread
flags, `TS_COMPAT`, the saved registers, the local copies of flags and number.

*Operations*: `do_syscall_64`, `do_int80_syscall_32`, `do_fast_syscall_32`,
`syscall_trace_enter`, `syscall_return_slowpath`, `syscall_slow_exit_work`,
`prepare_exit_to_usermode`, `exit_to_usermode_loop`.

*Interaction*: other CPUs raise work flags and send an interrupt; a tracer stops the
task, rewrites its number and result and asks for the call to be skipped; seccomp
refuses or accepts; project 2 adds the call of `findder`.

*Correctness*: no work flag is missed on the way out; the context and interrupt
warnings stay silent; seccomp judges the number that is run; a refused call never
runs; one-time exit work runs once when it is owed; every entry returns. Together
with the sandbox: the mutex is waited for only where the task may sleep, and no count
says more than was denied.

### Kernel boot (`project 2/main.c`)

*State*: the command line's `argv_init`, `envp_init`, `panic_later`, `execute_command`,
`ramdisk_execute_command`, the list of blacklisted initcalls; `system_state`,
`early_boot_irqs_disabled`, `kthreadd_task`, the completion `kthreadd_done`, the
`__init` memory.

*Operations*: `unknown_bootoption`, `set_init_arg`, `init_setup`, `rdinit_setup`,
`initcall_blacklist` and the deferred panic; `rest_init`, `kernel_init`,
`kernel_init_freeable`, `do_one_initcall`, `free_initmem`, `run_init_process`.

*Interaction*: the boot thread and `kernel_init` run concurrently from
`rest_init` on and synchronise by one completion; initcalls schedule functions that
run asynchronously.

*Correctness*: the loops over the vectors end in the arrays and the vectors are
terminated; the arguments are those that follow `init=`; no thread is created
before kthreadd; `__init` memory is not used once freed; initcalls run in order,
each with interrupts on, whatever a setup function or another initcall has left behind;
the requested init is not replaced by another.

### Shell (`project 0/simple_shell.c`)

*State*: the buffer size, the line, the two heap blocks, the argument vector, the
child. *Operations*: the loop of `main` with its doubling of the buffer, `process`
(`strtok`), `run` (`fork`, `execvp`, `wait`). *Hard*: allocations that fail or move,
a buffer that fills exactly, more than one doubling, the end of the input, a `wait` that
answers with something else than the child.
*Correctness*: the arguments are the words of the line, everything fits and is
freed, a child is waited for before the next prompt.

### Mailbox system calls (`project1/prototype/project1.c`)

*State*: the counter `MAILBOXC` and the list head `mail`. *Operations*: `mbx421_init`,
`mbx421_shutdown`, `mbx421_create`, `mbx421_destroy`, `mbx421_count`, `mbx421_send`,
`mbx421_recv`, `mbx421_length`, `mbx421_acl_add`, `mbx421_acl_remove`. *Hard*: no handler
takes a lock, and not all of them test whether the mailbox has been started.
*Correctness*: what the guards in front of the list promise; a list walk meets a
valid list head.

The guard of `mbx421_init` (line 84, `prob != 2 || prob != 4 || ...`) is true for every
`prob`, against the message in the next line and against the tests, so `MAILBOXC` stays
0 and no mailbox is ever created: the run `mailbox_init` shows it. `Mailbox` models every
handler up to where that leaves it; what lies behind the guard (mailboxes, messages,
access lists) has no reachable behaviour and is left out.

### Parts that are not modelled

* **Skip list** (`skipList.c`, `skipList.h`): does not compile (`createNode` is declared
  to return `slist` and used as `node`, and `slist` has no `next`); its `main` is empty and
  nothing else calls it, so there is no program to read a behaviour from.
* **`proj2_copy.c`**: an earlier implementation that nothing builds; its first call
  dereferences a null `permList` in `initalizeHash`.
* **`misc/hash.h`, `testing/hash.h`**: two copies of an abandoned prototype.
* **User programs** (`userland/test*.c`, `proj1tests/test.c`): straight-line clients,
  read for what they expect of the system calls.
* Of `main.c`, what the subsystem initialisers in `start_kernel` do beyond leaving
  interrupts on, early parameters, the parameters parsed once per initcall level,
  `mark_readonly` and the tracing of initcalls: external code or output.

## How the code is read

Much of projects 1 and 2 does not build as committed, and the project READMEs say
so. The models take the code as written and these positions:

* `proj2.h` is guarded by `#ifdef` where `#ifndef` is meant; its definitions are taken
  to be in effect, with one copy of `permList`, `lockTable` and `started` for the
  kernel. `findder` calls `getHash`, which is taken to be `getHashs`. The local
  variable in `getTableMain` that hides `permList` has no effect.
* Static storage is zero before initialisation, so before the first handler runs
  entry 0 has `call = 0`, its own number, and all its slots hold 0, the uid of root.
* The stores of the handlers and of `initalizeHash` are plain ones that other tasks
  read in a data race. `Sandbox` makes those between two calls of the kernel in any
  order: the stores of a critical section, and the 874 of `initalizeHash` together with
  the `started = 1` behind it. It lets the compiler load `call` once or twice for
  `call = call + 1`. A load stays behind the test that guards it.
* An index outside `permList` or `hash` ends what the model says (`ub`).
* `wait` returns the child once it is dead, a child the process had before it became the
  shell, or -1 when no child is left; with SIGCHLD ignored a dead child leaves nothing
  behind to wait for.
* In `project1.c` a missing semicolon and `mail` for `&mail` in the list macros are read
  as they are evidently meant; `list_del` poisons the pointers of what it deletes.

## Modules and the code

**`Sandbox`.** A task is at a place (`pc`) of a handler or of `findder`; an action is
one access to shared memory, or a run of accesses nobody else can see between.
`Enter` and `EnterFindder` begin a call, `CheckStarted`, `Fill` (`FillCall`, `FillCount` and
`SetStarted`, one store each) and `EndFill` are the initialisation, `CheckOwner` and `CheckRoot` the credential tests, `Lock` to `Unlock`
the critical section, `FindCall` to `AddCount` the four accesses of `findder`. The
history variable `policy` records the blocks that were accepted and not yet taken
back, `hasty` that `started` was 1 before `call` was 999 everywhere. Words are
`0 .. WORD-1` with wrap-around, a returned count and the uid of the caller (`ids`) are
converted to an `int` of `INT` values, and the remainder has C's sign.

**`BlockPolicy`.** State: the policy and the call each task is being denied. `Sandbox`
implements it (`DenialsFollowPolicy`) with the mapping "a task is being denied its
call from the moment `findder` has found it until it returns 1". The promise has one
side only, and excepts root: see the disagreements below.

**`Dispatch`.** The step function of `do_syscall_64` with the sandbox behind it. One
task, `self`, is followed through `SyscallEntry` (imported as `E`) and `Sandbox` at once:
`CallFindder` and `FindderReturns` are the call of `findder` and the test of its result,
`CallHandler` and `HandlerReturns` the call through `sys_call_table` when the number is one
of the sandbox's, `OtherCall` every other call. The other tasks take steps of `Sandbox`
only. `self` has no thread flags, since what they do is the subject of `SyscallEntry`
alone. The history variable `denials` counts what `findder` has denied since `count` was
last reset, unless a lookup is half way through its increment at the reset: such a lookup
stores the old count back.

**`SyscallEntry`.** One task on one CPU. An action reaches from one point where
interrupts, other CPUs or a tracer can be noticed to the next. The thread flags are
read where the code reads them: `EntryWork` for the test, `TraceRead` for the second
`READ_ONCE` in `syscall_trace_enter`, `ReturnSlowpath`, `Prepare`, `LoopRecheck`,
`LeaveKernel`. `LoopItem` is one `if` of the loop's body. A tracer can rewrite the number
at its own stop (`ReportEntry`) and at the one seccomp makes for it (`SeccompTraces`), after
which seccomp judges again. The histories `refused` and `owed` say that the call was
refused and that it came to the slow path with one-time work to do. Words have a parameterised
width, with the x32 bit and the conversion of -1 to `unsigned int`. `findder` answers
0 or 1 freely here, as its table may say at that moment; `Dispatch` supplies the table.

**`BootArgs` and `Boot`.** `BootArgs` has an action for each function that the
command line reaches. An option is known by its place on the line, which is enough to
state order; `initcall_blacklist=` gives a list of names, and panics when there is no
memory for one. `Boot` extends it and adds the boot thread, `kernel_init` and asynchronous
functions. The functions that set the kernel up are three stretches (`SetUp`: before the
command line is parsed, from there to the repair at line 649, and from there to the warning
at line 704), each of which may leave interrupts on; `Complete` and `Idle` are apart, so that
`kernel_init` can free the `__init` memory while the boot thread is between them. Failing
allocations, failing `execve`s, initcalls that leave interrupts
off or the preemption count changed, and blacklisted initcalls are all possible. The
history variable `ran` holds the places `<<level, next>>` of the initcalls run, so that
their order can be stated for any list of them.

**`Shell`.** `Read`, `Grow`, `Compare` and `EndLine` are the loop that reads a line,
`Fork`, `ForkFails` and `Wait` the function `run`, `process` the loop around `strtok`
(`Tokens`, a recursive function over the places of the line; `txt` is its separator).
`Words` and `Lists` say without recursion what the words of a line are and that a vector
lists them in order.
`Grow` has every outcome of the two `realloc`s: fails, keeps the block, moves it. `Wait` is
one turn of the loop around `wait`: it answers with the child (`"pid"`), with one of the
`others` the process had before, or with -1 once no child is left; a shell started with
SIGCHLD `ignored` never gets the first answer.

**`Mailbox`.** `mbx421_init` and the handlers that test `MAILBOXC` first are one action
each; the others are an entry (`Enter`), a walk over the list (`Walk`) and, for
`mbx421_shutdown`, the two halves of `list_del(&mail)` (`Unlink`, `Poison`), between which
other tasks run.

## Runs

Passing runs:

| run | question | bounds and why they are enough |
| --- | --- | --- |
| `sandbox` | Do the handlers and `findder`, interleaved, keep the lock, the slots and the policy in step? | Root and a user with uid 2; arguments 0 and 2, which share a slot, and -1, whose slot is negative; the one entry 0, whose `call` matches before it is initialised (that no handler disturbs another entry is the theorem `BlocksOutlast`); words of 4 values so that `call` passes 999 (here 3) and wraps, and an `int` of 6 values, so that a count of 3 does not fit. Two tasks are enough for every race of two sections. |
| `entry` | Is what a tracer and seccomp decide what runs? | Three-bit words, a two-bit `unsigned int`, the x32 bit, numbers outside the table for each kind of entry; trace, emulation and seccomp flags change at any time; no work flags. |
| `exit` | Does the way out miss work, warn, repeat one-time work or get stuck? | Two kinds of work flags raised up to twice, so that one is raised during every stage of the loop for the other; single stepping for the one-time work. |
| `dispatch` | Do the lookup, the dispatch and the handlers fit together? | Two tasks of one user, whose uid 2 is the `int` -2; a system call table of two entries, `sbx421_unblock` and an ordinary call, and the number of the latter as the argument; the other task calls any handler; all numbers of a word of five, so inside and outside of the table and of the x32 bit; lookups begin while no entry has been denied since its last reset, and two can be under way, so an increment can be lost or outlive a reset. |
| `shell` | Are the arguments the words typed, does everything fit, is each child awaited? | A buffer of 2 and lines of 5: two doublings; the letters of `exit` and the blank; two commands; one child from before, SIGCHLD ignored or not. |
| `bootargs` | Are the vectors of init bounded, terminated and as typed? | Arrays that overflow with the five options of the longest line; a name that is already in the environment and one that is not; lists of none and of one blacklisted initcall. |
| `boot` | Do the threads of the boot keep their order, and does the boot end? | Three initcalls in three levels, the early one, an empty one and one of two; two asynchronous functions; three options, any of the initcalls blacklisted. |

What the properties say:

* `sandbox`: `TypeOK`; `LockDiscipline`, the mutex is held exactly between lock and
  unlock and by one task; `SlotJustified`, a uid in a slot is in its own slot and has
  a block that stands; `ArmedHasOwner`, after an initialisation whose stores arrived in
  order an entry that is not 999 has a blocked user, even though block-again counts
  `call` up and a second initialisation may come late and in any order;
  `SlotChangeEntitled`, a slot is changed by the holder of the mutex, for root or for a
  user who names himself and whose slot it is; `LossesExplained`, a block in force is
  lost only to a second initialisation, to an unblock of the same call, to the same
  block repeated or to a block of a uid with the same remainder, so never to the order
  in which the three stores of a block arrive or to work on another entry;
  `DenialsFollowPolicy`, the refinement.
* `entry`: `TypeOK`; `SeccompSeesWhatRuns`, the number run is the one seccomp judged
  last; `RefusedIsNeverRun`, a call that its tracer, the emulation or seccomp has refused
  reaches the dispatch with no index of a table, whatever the tracer left in `orig_ax`.
* `exit`: `ReadyForUser`, `ContextWarningsSilent`, `WorkAfterEntry`, `OneTimeWork` (exactly
  once when it is owed, not at all otherwise), `FlagsAreServed`, `EveryEntryReturns`.
  `ContextWarningsSilent` is the remarkable one: a denied call runs
  `prepare_exit_to_usermode` and then enters, and the warnings still cannot fire.
* `dispatch`: `MutexSleepsSafely`, the task comes to `mutex_lock` with interrupts on and
  in `CONTEXT_KERNEL`, a denied call too, and leaves the dispatch without the mutex;
  `CountIsDenials`, `count` loses denials to races but never exceeds those since its reset,
  except when a lookup was half way at the reset and stores the old count back;
  `EveryCallReturns`, lookup, mutex, handler and exit work all end.
* `shell`: `ArgumentsFit`; `BlocksAreFreed`, the two blocks are live while in use and freed
  before the prompt, at `exit` and when `input` cannot be made bigger (the outcomes in which
  the code uses or frees a block that has moved are `Wild`: nothing is said after them);
  `OneChildAtATime`; `ArgvIsWords` (`strtok` against a declarative definition of words);
  `LinesComplete`, whatever `wait` answers, unless SIGCHLD is ignored.
* `bootargs`: `ArgsTypeOK`, `LoopsEnd`, `VectorsEnd`, `ArgumentsAsTyped`, `LastValueWins`.
* `boot`: `TypeOK`; `NoOops` and `InitmemInUse`, in every interleaving of the two threads and
  the asynchronous functions; `InLinkOrder`; `IrqsAsExpected`, from `local_irq_enable` on
  nothing that a setup function or an initcall does to the interrupt state lasts beyond
  the end of its `do_one_initcall`; `InitAsRequested`, `StateAdvances`, `BootEnds`.

Runs that end in a violation, because a comment and the code disagree:

| run | what it shows |
| --- | --- |
| `init_race` | Two first callers both see `started == 0`; the slower one's initialisation wipes a block the faster one was told had been accepted. |
| `second_block` | "already blocked ... Update count": the code adds one to `call`, not `count`, and thereby lifts the block. |
| `denied_runs` | "Set error for access": `do_syscall_64` goes on after the exit work, the call runs and its result replaces `-EACCES`. |
| `long_line` | The second doubling writes a zero at the default size, and the line ends there. |
| `mailbox_init` | "Prob can only be 2, 4, 8, or 16": the test joins four inequalities with \|\| where && is meant, and refuses these values too, so no mailbox is ever started. Two tasks of root and one of a user, `prob` 2 and 3. |

Disagreements met while modelling that have no run of their own:

* Unblocking one user resets `call`, which all users of the entry share, and so lifts
  the blocks of the others; blocking one overwrites the slot of another with the
  same remainder. `LossesExplained` names both.
* An empty slot holds 0, which is root's uid, so root is denied every armed call (and
  call 0 before initialisation) unless another uid is in slot 0. `BlockPolicy` excepts
  root for this reason.
* Neither the handlers nor `findder` test `nr` against the 437 entries, and a negative
  `proc` gives a negative slot. `WildAccess` is reachable for both.
* There is one `count` per entry, so the calls of one user are counted for all, and a
  repeated block does not add to it: `userland/test3.c` counts on both.
* `findder` is asked before the x32 bit is removed and before a tracer may change
  the number, so for a traced or an x32 call what is checked is not what runs.
* `started = 1` may be seen before the stores of `initalizeHash`: a handler that comes
  then works on an entry whose `call` is still 0. `ArmedHasOwner` leaves such tables out.
* `mbx421_shutdown` deletes the list head itself, and the next walk of the list follows
  its poisoned pointers.
* The shell tests `malloc` after writing through the pointer, and `realloc` after
  clearing the new half; when one `realloc` moves a block and the other fails, the
  moved block is freed twice; when `input` moves, the clearing loop writes to the old
  block. At the end of the input `main` runs empty commands for ever, and in a shell that
  is started with SIGCHLD ignored the loop around `wait` does not end.
* "Interrupts were enabled early" (`main.c`, line 704) is only a warning: the interrupts
  stay on, while line 649 repairs the same for the functions before it. `Boot` lets the
  setup functions do both.
* `init_setup` clears `argv_init` up to, not including, `MAX_INIT_ARGS`, so one argument
  from before `init=` may remain; `initcall_blacklist=` and `rodata=` return 0 and
  are handed to init's environment too; a quoted value makes `strncmp` compare one
  character too many, so a repeated quoted setting may appear twice; setting the
  variable at index `MAX_INIT_ENVS` again panics.

## Fairness

* `Dispatch`: weak fairness of each task's steps while it is in the kernel (the
  scheduler runs every runnable task) and strong fairness of `Lock` (the wait queue of
  a Linux mutex hands the lock over, so no waiter starves). No task is obliged to make
  a call. `Sandbox` by itself is checked for safety only.
* `SyscallEntry`: weak fairness of the kernel's steps, which includes that a tracer
  resumes a stopped task, and of the interrupt in user mode. Raising flags is not
  fair and is bounded by `MaxRaise`: with flags raised for ever the loop need not end,
  which the code accepts.
* `Shell`: the shell is scheduled, lines end and commands end. Typing is not fair.
* `Boot`: each thread is scheduled, initcalls and asynchronous functions end.

## Proofs

Assumptions are the named `ASSUME`s of the modules; TLC evaluates them in every run.

**`SandboxProofs`**, for any set of tasks, uids and arguments, any table, hash and word
sizes. The properties are not inductive by themselves. `IInv` conjoins `TypeOK`;
`LocalInv`, which ties the place of a task to its call, its checked indices, its
checked credentials and the stores it still has to make; `LockDiscipline`; `PendingInv`,
what a task inside its critical section has stored so far; `SlotJustified`; and `OwnerInv`,
`ArmedHasOwner` together with its counterpart for the entries whose `call` a running
initialisation has stored (`ArmedHasOwner` speaks of initialised tables, and a second
`initalizeHash` runs over one), both for tables initialised before `started` was 1. `StepFrame` says that a step of one task leaves the locals of the others alone,
`CriticalKept` and `OutsideStep` what a task outside the critical section can do to
the table (reset `call`, nothing else), so each part is proved by one lemma for the
task's own step and one for the others. From `IInv`: `TypeCorrect`, `MutexHeldExactly`,
`SlotsAreJustified`, `ArmedEntriesHaveOwners`, `SlotsChangeByRight`, `BlocksOutlast` (by
`FieldsKept`, only three actions touch what a lookup compares) and `ImplementsPolicy`, that `Sandbox` implements `BlockPolicy`. The last rests on
`SlotJustified` at the second read of `findder`: although the two reads are not atomic,
the slot alone justifies the denial.

**`SyscallProofs`**, for any set of flags, table sizes, word widths and any number of
raised flags. `IInv` conjoins `PlaceInv` (interrupts and context at each place; from
the last look on, a work flag has its interrupt pending), `BackInv` (who runs the exit
work, and in which context), `RegsInv`, `VetInv`, `RefusalInv` (a refused call goes to
the dispatch at once, and with -1 for its number; no call that is not refused yet carries
the history of one) and `ExitInv` (before the dispatch nothing is done or owed, after the
slow path what was owed is done). From it: `ReturnIsReady`,
`WarningsSilent`, `ExitWorkAfterEntry`, `SeccompIsLast`, `OneTimeWorkOnce` and, with the
assumption that -1 with the x32 bit cleared is beyond the table, `RefusedCallsSkipped`;
`TypeCorrect` follows from the types alone.

**`DispatchProofs`**, for any set of tasks, any layout of the table, any x32 bit not below
the table's length. `HandlerStep` and `FindderStep` say which places a step of the
sandbox leads between and that other tasks are left alone; `StepKind` sorts every step
of `Dispatch` by them. `CountInv` adds to `CountIsDenials` that a task about to store a
count holds one that is not above the denials since the last reset (`Tallying`), which is
what makes lost updates harmless, and a reset with a lookup half way the exception:
`CountsNeverTooHigh`. `PlaceInv` relates the place of `self` in the
entry code to its place in the sandbox (`SelfInv`), and the interrupt flag and the context
to each place (`EntryInv`): from it `SleepsSafely`.

**`DispatchRefines`**, under the same assumptions and one more that the table of the
system calls justifies (437 is below the largest number without the x32 bit, so -1 is
in no table). `ImplementsEntry` is the refinement of `SyscallEntry`, `ImplementsSandbox` that
of `Sandbox`. For the first, every step of `self` is a step of the entry code or leaves its
variables alone; the one step that does not map by its shape is the return of `findder`,
since `SyscallEntry` expects an answer of 0 or 1 and `ret` holds the results of the handlers
too. `Answer` says so for the moment of the return, and needs `PlaceInv`: at that place no
handler can have run. For the second, `self` asks about any number, so the instance `S` of
`Sandbox` has the numbers of a word among its `Nr`, and `NrTyped` says that `nr` is one. Both
instances are taken of the modules with the proofs, whose theorems therefore hold
of `Dispatch`: `TableStaysSound` (lock, slots, armed entries), `DenialsStayJustified` (the
policy) and `WarningsStaySilent` (the context warnings, for the calls the table denies). The
other properties of `SyscallEntry` are about flags, of which `Dispatch` has none.

**`BootArgsProofs`**, for all lengths of the arrays and of the command line. `ArgsInv` is
the types and `SpareElement`, that the last element of each array is free until
something has overflowed: `ArgsTypeCorrect`, `LoopsStop` (a least free index exists by
well-foundedness) and `VectorsTerminated`. `OrderInv` adds that the elements before
`MAX_INIT_ARGS` are filled from the left, in order, with what followed the last `init=`,
and that no word is missing: `ArgumentsInOrder`. `EnvInv` adds that `envp_init` has no gap and
that a name which was never quoted is in it once, with its last value: `LastValueStays`.
Both speak of the time before an overflow only; after one the kernel panics, as it does
when `initcall_blacklist` finds no memory.

**`BootProofs`**, for any list of initcalls and any number of asynchronous functions.
`BootInv` conjoins where each thread can be when (`HandOver`, with the completion),
`Lifetimes` of the `__init` memory, which the boot thread has left before `kernel_init` can
pass the completion, `States` and `Interrupts`; `NoOops` by itself says
nothing about who may still run when the memory is freed. From it: `BootNeverOopses`,
`InitmemOutlivesUse`, `IrqsExpected`, `StatesAdvance`, and with `ArgsInv` `BootTypeCorrect`.
`CallsInv` follows the loop over the levels: the counters stand at a place of the list or
at the end of a level (`Position`), what has run lies before that place and is not
blacklisted (`OnlyDue`), everything before it that is not blacklisted has run (`AllDue`),
and the places of `ran` increase (`Ordered`); at the last level this is
`InitcallsInOrder`. `ChoiceInv` adds to `InitAsRequested` that nothing runs as process 1
before `kernel_init` has come to the list of programs; the rest is which programs have
failed when one of that list is executed: `InitChosenAsRequested`. `GivenInv` carries `OrderInv` and `EnvInv` through
the boot: `ProgramIsGiven`, that the program the kernel executes finds the vectors the
command line has left.

**`ShellProofs`**, for any alphabet and sizes. `ChildrenReaped` and `BlocksFreed` come from an
invariant of the places; `ArgumentsInBlocks` from `FitInv`, by which the vector is empty
while a line is read, and from `EndLineFits`, that a line in its buffer leaves room for
its words and the final NULL. `WordsAreArguments` says that
`process`, a recursive function, finds exactly the words of any line. Its solution exists
and is unique by well-foundedness (`TokensExist`, `TokensAgree`); what it returns from a
place on is right if it is right from every later place (`RightFromHere`), and the
induction that goes with this, from the end of the line, is `FromTheEnd`: among the places
where a claim fails there would be a last one, and from there it holds.

**`MailboxProofs`**, for any tasks and arguments: `WalksAreSafe`, that a walk is fatal only
once root has shut the mailbox down (`OopsOnlyAfterShutdown`, which no run checks). The
invariant includes that `MAILBOXC` stays 0, which is why `Mailbox` may leave out the rest.

Every invariant and every action property of the runs is a theorem. Only model-checked
is liveness (`EveryCallReturns`, `FlagsAreServed`, `EveryEntryReturns`, `LinesComplete`,
`BootEnds`), which is beyond the prover. Not transferred to `Dispatch` are the remaining
theorems of `Sandbox` and `SyscallEntry`: with no thread flag set, seccomp, tracing, work
flags and one-time work do not occur in it.

## What is left

* Early parameters in `Boot` (`parse_early_param` runs once over the same line).
* A second followed task in `Dispatch`: its state space grows beyond what is useful,
  and the other tasks already make every access to the table that a second one would.
