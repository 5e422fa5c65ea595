------------------------------- MODULE Sandbox -------------------------------
(***************************************************************************)
(* The system call sandbox of project 2 (proj2.c, proj2.h): the handlers   *)
(* sbx421_block, sbx421_unblock and sbx421_count and the lookup findder    *)
(* that do_syscall_64 makes on every 64-bit system call, executed by tasks *)
(* that run concurrently.                                                  *)
(*                                                                         *)
(* One action is one access to shared memory, or a run of accesses nobody  *)
(* else can observe in between.  lockTable is held from the mutex_lock to  *)
(* the mutex_unlock of a handler, but initalizeHash and findder take no    *)
(* lock, so their accesses interleave with a handler's critical section.   *)
(* All stores are plain ones that others read in a data race, so those     *)
(* between two calls of the kernel reach memory in any order: the stores   *)
(* of a critical section, and those of initalizeHash together with the     *)
(* "started = 1" behind it.  A load stays behind the test that guards it.  *)
(*                                                                         *)
(* IncUnbounded, InitStoresShort, MayChangeAny, FreeOrTaken,               *)
(* StoresOfCallOnly, CountField and KeptOnError are faulty variants of the *)
(* definition that follows each; no action uses them.  PROJECT.json names  *)
(* the property each one breaks.                                           *)
(***************************************************************************)
EXTENDS Integers

CONSTANTS Thread,   \* the tasks that enter the kernel
          uid,      \* uid[t] is current_cred()->uid.val of task t
          Proc,     \* the values passed for the argument proc (a pid_t)
          Nr,       \* the values passed for the system call number nr
          NRS,      \* length of permList (437)
          SIZE,     \* length of the array hash of each entry (32)
          FREE,     \* the value of call that says "nothing blocked" (999)
          WORD,     \* an unsigned long holds 0 .. WORD-1
          INT,      \* an int holds -(INT \div 2) .. (INT \div 2) - 1
          NoThread  \* lockTable when it is not held

(* An unsigned value converted to int, as in "int ids =                    *)
(* current_cred()->uid.val" and "int temp = permList[nr].count".           *)
AsInt(n) == IF n % INT < INT \div 2 THEN n % INT ELSE (n % INT) - INT

(* The uid of each task as findder is given it and as it compares with a   *)
(* proc: an unsigned int and an int are equal when they have the same bits. *)
ids == [t \in Thread |-> AsInt(uid[t])]

ASSUME SandboxAssumption ==
    /\ NoThread \notin Thread
    /\ INT \in Nat /\ INT > 2 /\ INT % 2 = 0
    /\ uid \in [Thread -> 0 .. INT - 1]
    /\ Proc \subseteq Int
    /\ {ids[t] : t \in Thread} \subseteq Proc
    /\ Nr \subseteq Nat
    /\ NRS \in Nat \ {0}
    /\ SIZE \in Nat \ {0}
    /\ FREE \in Nat /\ NRS <= FREE
    /\ WORD \in Nat /\ FREE < WORD

EPERM  == 1
EEXIST == 17
EINVAL == 22

Entry == 0 .. NRS - 1    \* the indices of permList
Slot  == 0 .. SIZE - 1   \* the indices of permList[nr].hash
Word  == 0 .. WORD - 1   \* the values of an unsigned long
Ints  == -(INT \div 2) .. (INT \div 2) - 1  \* the values of an int

VARIABLES
    started,    \* the global flag started
    call,       \* call[nr]  is permList[nr].call
    count,      \* count[nr] is permList[nr].count
    hash,       \* hash[nr]  is permList[nr].hash
    lockTable,  \* the task that holds the mutex
    pc,         \* where each task is
    op,         \* the call each task is executing, with its arguments
    temp,       \* a value each task has read and works on
    writes,     \* the stores each task still has to make: <<field, entry>>
    ret,        \* the value each task is about to return
    policy,     \* history: pairs <<proc, nr>> blocked and not since unblocked
    hasty,      \* history: started was 1 before a call was 999 for the first time
    ub          \* an array was indexed out of its bounds

table   == <<started, call, count, hash>>
local   == <<pc, op, temp, writes, ret>>
history == <<policy, hasty>>
vars    == <<table, lockTable, local, history, ub>>

NoOp == [kind |-> "none", proc |-> 0, nr |-> 0]

-----------------------------------------------------------------------------
(***************************************************************************)
(* The helpers of the C code.                                              *)
(***************************************************************************)

(* key % SIZE.  The remainder of C has the sign of the dividend. *)
getHashs(key) == IF key >= 0 THEN key % SIZE ELSE -((-key) % SIZE)

(* Unsigned addition, as in "permList[nr].count + 1". *)
IncUnbounded(n) == n + 1
Inc(n) == (n + 1) % WORD

(* "permList[nr].hash[index] == uid", index being the slot of the user. *)
Matches(user, nr) == hash[nr][getHashs(user)] = user

(* The condition of findder, sbx421_unblock and sbx421_count. *)
Denies(user, nr) == call[nr] = nr /\ Matches(user, nr)

(* The arguments index both arrays inside their bounds. *)
InBounds(user, nr) == nr \in Entry /\ getHashs(user) \in Slot

(* Task t returns v to its caller, the dispatcher or do_syscall_64. *)
Return(t, v) ==
    /\ pc'     = [pc     EXCEPT ![t] = "return"]
    /\ op'     = [op     EXCEPT ![t] = NoOp]
    /\ temp'   = [temp   EXCEPT ![t] = 0]
    /\ ret'    = [ret    EXCEPT ![t] = v]
    /\ UNCHANGED writes

(* Task t is at the given place, and no wild access has happened. *)
At(t, place) == ~ub /\ pc[t] = place

Goto(t, place) == pc' = [pc EXCEPT ![t] = place]

-----------------------------------------------------------------------------
Init ==
    /\ started   = 0
    /\ call      = [nr \in Entry |-> 0]
    /\ count     = [nr \in Entry |-> 0]
    /\ hash      = [nr \in Entry |-> [i \in Slot |-> 0]]
    /\ lockTable = NoThread
    /\ pc        = [t \in Thread |-> "idle"]
    /\ op        = [t \in Thread |-> NoOp]
    /\ temp      = [t \in Thread |-> 0]
    /\ writes    = [t \in Thread |-> {}]
    /\ ret       = [t \in Thread |-> 0]
    /\ policy    = {}
    /\ hasty     = FALSE
    /\ ub        = FALSE

(* A task enters one of the three handlers with arguments of its choice. *)
Enter(t, kind, proc, nr) ==
    /\ At(t, "idle")
    /\ Goto(t, "start")
    /\ op' = [op EXCEPT ![t] = [kind |-> kind, proc |-> proc, nr |-> nr]]
    /\ UNCHANGED <<table, lockTable, temp, writes, ret, history, ub>>

(* A task makes system call nr: do_syscall_64 calls findder(ids, nr). *)
EnterFindder(t, nr) ==
    /\ At(t, "idle")
    /\ Goto(t, "find")
    /\ op' = [op EXCEPT ![t] = [kind |-> "find", proc |-> ids[t], nr |-> nr]]
    /\ UNCHANGED <<table, lockTable, temp, writes, ret, history, ub>>

(* The stores of initalizeHash, which leaves hash as it is, and "started = 1". *)
InitStoresShort == ({"call", "count"} \X (0 .. NRS - 2)) \cup {<<"started", 0>>}
InitStores == ({"call", "count"} \X Entry) \cup {<<"started", 0>>}

(* "if(started == 0)", read without the lock at the top of every handler. *)
CheckStarted(t) ==
    /\ At(t, "start")
    /\ IF started = 0
       THEN Goto(t, "fill") /\ writes' = [writes EXCEPT ![t] = InitStores]
       ELSE Goto(t, "auth") /\ UNCHANGED writes
    /\ UNCHANGED <<table, lockTable, op, temp, ret, history, ub>>

(* Task t makes one of the stores it still has to make. *)
Made(t, store) ==
    /\ store \in writes[t]
    /\ writes' = [writes EXCEPT ![t] = @ \ {store}]

(* One store of the loop of initalizeHash. *)
FillCall(t, nr) ==
    /\ Made(t, <<"call", nr>>)
    /\ call' = [call EXCEPT ![nr] = FREE]
    /\ UNCHANGED <<started, count, hash, lockTable, pc, op, temp, ret, history, ub>>

FillCount(t, nr) ==
    /\ Made(t, <<"count", nr>>)
    /\ count' = [count EXCEPT ![nr] = 0]
    /\ UNCHANGED <<started, call, hash, lockTable, pc, op, temp, ret, history, ub>>

(* "started = 1". *)
SetStarted(t) ==
    /\ Made(t, <<"started", 0>>)
    /\ started' = 1
    /\ hasty' = (hasty \/ (started = 0 /\ \E nr \in Entry : <<"call", nr>> \in writes[t]))
    /\ UNCHANGED <<call, count, hash, lockTable, pc, op, temp, ret, policy, ub>>

Fill(t) ==
    /\ At(t, "fill")
    /\ \/ SetStarted(t)
       \/ \E nr \in Entry : FillCall(t, nr) \/ FillCount(t, nr)

(* All stores are made before the next call of the kernel. *)
EndFill(t) ==
    /\ At(t, "fill")
    /\ writes[t] = {}
    /\ Goto(t, "auth")
    /\ UNCHANGED <<table, lockTable, op, temp, writes, ret, history, ub>>

(* Whose calls may be changed: one's own, or anybody's by root. *)
MayChangeAny(t) == op[t].proc \in Proc
MayChange(t) == ids[t] = op[t].proc \/ uid[t] = 0

(* The credential check of sbx421_block and sbx421_unblock. *)
CheckOwner(t) ==
    /\ At(t, "auth")
    /\ op[t].kind \in {"block", "unblock"}
    /\ IF MayChange(t)
       THEN Goto(t, "lock") /\ UNCHANGED <<op, temp, writes, ret>>
       ELSE Return(t, -EPERM)
    /\ UNCHANGED <<table, lockTable, history, ub>>

(* The credential and argument checks of sbx421_count. *)
CheckRoot(t) ==
    /\ At(t, "auth")
    /\ op[t].kind = "count"
    /\ \/ uid[t] # 0 /\ Return(t, -EPERM)
       \/ uid[t] = 0 /\ op[t].proc <= 0 /\ Return(t, -EINVAL)
       \/ /\ uid[t] = 0 /\ op[t].proc > 0
          /\ Goto(t, "lock")
          /\ UNCHANGED <<op, temp, writes, ret>>
    /\ UNCHANGED <<table, lockTable, history, ub>>

(* mutex_lock waits for this. *)
FreeOrTaken == lockTable \in Thread \cup {NoThread}
Free == lockTable = NoThread

(* mutex_lock. *)
Lock(t) ==
    /\ At(t, "lock")
    /\ Free
    /\ lockTable' = t
    /\ Goto(t, "check")
    /\ UNCHANGED <<table, op, temp, writes, ret, history, ub>>

(* The first use of the arguments as indices, when one is out of bounds. *)
(* What the kernel does from here on is not defined.                     *)
WildAccess(t) ==
    /\ At(t, "check") \/ At(t, "find")
    /\ ~InBounds(op[t].proc, op[t].nr)
    /\ ub' = TRUE
    /\ UNCHANGED <<table, lockTable, local, history>>

(* Task t is in its critical section, about to test the entry of its call. *)
Checking(t, kind) ==
    /\ At(t, "check")
    /\ op[t].kind = kind
    /\ InBounds(op[t].proc, op[t].nr)

(* The stores of sbx421_block and sbx421_unblock. *)
StoresOfCallOnly(o) ==
    (IF o.kind = "block" THEN {"hash", "call", "count"} ELSE {"call"}) \X {o.nr}
StoresOf(o) ==
    (IF o.kind = "block" THEN {"hash", "call", "count"} ELSE {"hash", "call"}) \X {o.nr}

(* "Check if uid is already blocked"; if so the call goes on to Bump. *)
BlockAgain(t) ==
    LET o == op[t] IN
    /\ Checking(t, "block")
    /\ call[o.nr] # FREE /\ Matches(o.proc, o.nr)
    /\ temp' = [temp EXCEPT ![t] = call[o.nr]]
    /\ ret'  = [ret  EXCEPT ![t] = -EEXIST]
    /\ Goto(t, "bump")
    /\ UNCHANGED <<table, lockTable, op, writes, history, ub>>

(* "permList[nr].call = permList[nr].call + 1". *)
(* The value added to is the one of the test above or one loaded again. *)
Bump(t) ==
    /\ At(t, "bump")
    /\ \E old \in {temp[t], call[op[t].nr]} : call' = [call EXCEPT ![op[t].nr] = Inc(old)]
    /\ temp' = [temp EXCEPT ![t] = 0]
    /\ Goto(t, "unlock")
    /\ UNCHANGED <<started, count, hash, lockTable, op, writes, ret, history, ub>>

(* The block is accepted; three stores are to be made. *)
BlockNew(t) ==
    LET o == op[t] IN
    /\ Checking(t, "block")
    /\ ~(call[o.nr] # FREE /\ Matches(o.proc, o.nr))
    /\ writes' = [writes EXCEPT ![t] = StoresOf(o)]
    /\ ret'    = [ret    EXCEPT ![t] = 0]
    /\ policy' = policy \cup {<<o.proc, o.nr>>}
    /\ Goto(t, "write")
    /\ UNCHANGED <<table, lockTable, op, temp, hasty, ub>>

(* "Check if uid is blocked"; if so two stores are to be made. *)
UnblockFound(t) ==
    /\ Checking(t, "unblock")
    /\ Denies(op[t].proc, op[t].nr)
    /\ writes' = [writes EXCEPT ![t] = StoresOf(op[t])]
    /\ ret'    = [ret    EXCEPT ![t] = 0]
    /\ Goto(t, "write")
    /\ UNCHANGED <<table, lockTable, op, temp, history, ub>>

(* sbx421_unblock or sbx421_count found no block of proc for nr. *)
NotFound(t) ==
    /\ Checking(t, "unblock") \/ Checking(t, "count")
    /\ ~Denies(op[t].proc, op[t].nr)
    /\ ret' = [ret EXCEPT ![t] = -EEXIST]
    /\ Goto(t, "unlock")
    /\ UNCHANGED <<table, lockTable, op, temp, writes, history, ub>>

(* "int temp = permList[nr].count", returned once the lock is released. *)
ReadCount(t) ==
    /\ Checking(t, "count")
    /\ Denies(op[t].proc, op[t].nr)
    /\ ret' = [ret EXCEPT ![t] = AsInt(count[op[t].nr])]
    /\ Goto(t, "unlock")
    /\ UNCHANGED <<table, lockTable, op, temp, writes, history, ub>>

(* The stores of a critical section. *)
StoreHash(t) ==
    LET o == op[t] IN
    /\ Made(t, <<"hash", o.nr>>)
    /\ hash' = [hash EXCEPT ![o.nr][getHashs(o.proc)] =
                                IF o.kind = "block" THEN o.proc ELSE 0]
    /\ UNCHANGED <<started, call, count, lockTable, pc, op, temp, ret, history, ub>>

StoreCall(t) ==
    LET o == op[t] IN
    /\ Made(t, <<"call", o.nr>>)
    /\ call' = [call EXCEPT ![o.nr] = IF o.kind = "block" THEN o.nr ELSE FREE]
    /\ UNCHANGED <<started, count, hash, lockTable, pc, op, temp, ret, history, ub>>

(* "permList[nr].count = 0". *)
CountField(nr) == call' = [call EXCEPT ![nr] = 0] /\ UNCHANGED count
ResetCount(nr) == count' = [count EXCEPT ![nr] = 0] /\ UNCHANGED call

StoreCount(t) ==
    /\ Made(t, <<"count", op[t].nr>>)
    /\ ResetCount(op[t].nr)
    /\ UNCHANGED <<started, hash, lockTable, pc, op, temp, ret, history, ub>>

Store(t) ==
    /\ At(t, "write")
    /\ StoreHash(t) \/ StoreCall(t) \/ StoreCount(t)

(* What lockTable is on the return path of the handler of task t. *)
KeptOnError(t) == IF ret[t] = -EEXIST THEN t ELSE NoThread
Released(t) == NoThread

(* mutex_unlock and return.  An unblock that succeeded takes effect here. *)
Unlock(t) ==
    /\ \/ At(t, "unlock")
       \/ At(t, "write") /\ writes[t] = {}
    /\ lockTable' = Released(t)
    /\ policy' = IF op[t].kind = "unblock" /\ ret[t] = 0
                 THEN policy \ {<<op[t].proc, op[t].nr>>}
                 ELSE policy
    /\ Return(t, ret[t])
    /\ UNCHANGED <<table, hasty, ub>>

(* findder: "permList[nr].call == nr", without the lock. *)
FindCall(t) ==
    /\ At(t, "find")
    /\ InBounds(op[t].proc, op[t].nr)
    /\ IF call[op[t].nr] = op[t].nr
       THEN Goto(t, "probe") /\ UNCHANGED <<op, temp, writes, ret>>
       ELSE Return(t, 0)
    /\ UNCHANGED <<table, lockTable, history, ub>>

(* findder: "permList[nr].hash[index] == uid". *)
FindHash(t) ==
    LET o == op[t] IN
    /\ At(t, "probe")
    /\ IF Matches(o.proc, o.nr)
       THEN Goto(t, "tally") /\ UNCHANGED <<op, temp, writes, ret>>
       ELSE Return(t, 0)
    /\ UNCHANGED <<table, lockTable, history, ub>>

(* findder: the load and the store of "count = count + 1", then return 1. *)
LoadCount(t) ==
    /\ At(t, "tally")
    /\ temp' = [temp EXCEPT ![t] = count[op[t].nr]]
    /\ Goto(t, "add")
    /\ UNCHANGED <<table, lockTable, op, writes, ret, history, ub>>

AddCount(t) ==
    /\ At(t, "add")
    /\ count' = [count EXCEPT ![op[t].nr] = Inc(temp[t])]
    /\ Return(t, 1)
    /\ UNCHANGED <<started, call, hash, lockTable, history, ub>>

(* The caller takes the value. *)
Leave(t) ==
    /\ At(t, "return")
    /\ Goto(t, "idle")
    /\ ret' = [ret EXCEPT ![t] = 0]
    /\ UNCHANGED <<table, lockTable, op, temp, writes, history, ub>>

-----------------------------------------------------------------------------
Handler(t) ==
    \/ CheckStarted(t) \/ Fill(t) \/ EndFill(t)
    \/ CheckOwner(t) \/ CheckRoot(t) \/ Lock(t)
    \/ BlockAgain(t) \/ Bump(t) \/ BlockNew(t)
    \/ UnblockFound(t) \/ NotFound(t) \/ ReadCount(t)
    \/ Store(t) \/ Unlock(t)

Findder(t) == FindCall(t) \/ FindHash(t) \/ LoadCount(t) \/ AddCount(t)

(* The steps a task takes once it has entered the kernel. *)
Step(t) == Handler(t) \/ Findder(t) \/ WildAccess(t) \/ Leave(t)

Arrive(t) ==
    \/ \E kind \in {"block", "unblock", "count"}, proc \in Proc, nr \in Nr :
           Enter(t, kind, proc, nr)
    \/ \E nr \in Nr : EnterFindder(t, nr)

(* After a wild access no behaviour is modelled. *)
Halted == ub /\ UNCHANGED vars

Next ==
    \/ \E t \in Thread : Arrive(t) \/ Step(t)
    \/ Halted

Spec == Init /\ [][Next]_vars
-----------------------------------------------------------------------------
(***************************************************************************)
(* Properties.                                                             *)
(***************************************************************************)

Kinds  == {"block", "unblock", "count", "find"}
Places == {"idle", "start", "fill", "auth", "lock", "check", "bump", "write",
           "unlock", "find", "probe", "tally", "add", "return"}

Requests == [kind : Kinds, proc : Proc, nr : Nr]
Stores   == {"started", "hash", "call", "count"} \X Entry
Results  == Ints \cup {-EPERM, -EEXIST, -EINVAL}

TableTypeOK ==
    /\ started \in {0, 1}
    /\ call \in [Entry -> Word]
    /\ count \in [Entry -> Word]
    /\ hash \in [Entry -> [Slot -> Proc \cup {0}]]
    /\ lockTable \in Thread \cup {NoThread}
    /\ policy \subseteq Proc \X Entry
    /\ hasty \in BOOLEAN
    /\ ub \in BOOLEAN

TaskTypeOK ==
    /\ pc \in [Thread -> Places]
    /\ op \in [Thread -> Requests \cup {NoOp}]
    /\ temp \in [Thread -> Word]
    /\ writes \in [Thread -> SUBSET Stores]
    /\ ret \in [Thread -> Results]

(* Every variable keeps its type; in particular call, count and what is    *)
(* added up to store in them never leave the range of an unsigned long,    *)
(* and sbx421_count returns an int.                                        *)
TypeOK == TableTypeOK /\ TaskTypeOK

(* Task t is between mutex_lock and mutex_unlock. *)
Critical(t) == pc[t] \in {"check", "bump", "write", "unlock"}

(* lockTable is held exactly by the task between mutex_lock and            *)
(* mutex_unlock: no return path of a handler keeps the mutex, no two tasks *)
(* update the table under it.                                              *)
LockDiscipline == \A t \in Thread : Critical(t) <=> lockTable = t

(* A user found in a slot of permList[nr].hash is in the one slot getHashs *)
(* gives it, and was put there by an accepted sbx421_block that no         *)
(* successful sbx421_unblock has undone, whatever the interleaving.        *)
SlotJustified ==
    \A nr \in Entry, i \in Slot :
        hash[nr][i] # 0 =>
            /\ getHashs(hash[nr][i]) = i
            /\ <<hash[nr][i], nr>> \in policy

(* Once initalizeHash has run, an entry whose call is not 999 belongs to a *)
(* system call somebody is blocked from: neither a late second pass of     *)
(* initalizeHash nor the counting up of call by repeated blocks arms an    *)
(* entry nobody asked for.  It is said of tables that were initialised     *)
(* before started was 1: nothing in the code keeps the two stores in order, *)
(* and out of order a handler may count up a call that is still 0.         *)
ArmedHasOwner ==
    started = 1 /\ ~hasty =>
        \A nr \in Entry : call[nr] # FREE => \E p \in policy : p[2] = nr

(* A slot is changed only by the holder of the mutex, and only for root or *)
(* for a user who names his own uid in the call, to which the slot belongs *)
(* by its hash, whichever branch of the handler checked the credentials.   *)
SlotChange ==
    \A nr \in Entry, i \in Slot :
        hash[nr][i]' # hash[nr][i] =>
            \E t \in Thread :
                /\ lockTable = t
                /\ uid[t] = 0 \/ (op[t].proc = ids[t] /\ getHashs(ids[t]) = i)

SlotChangeEntitled == [][SlotChange]_vars

(* A block that is in force is lost in four ways only: the entry is        *)
(* initialised once more, somebody is unblocked from the same call, the    *)
(* same block is repeated, or a block for a uid with the same remainder    *)
(* overwrites the slot.  In particular the three stores of an accepted     *)
(* block, in any order, never cancel each other, and a handler disturbs no *)
(* entry but its own.                                                      *)
Lost(p) == Denies(p[1], p[2]) /\ ~(Denies(p[1], p[2])')

LossExplained(p) ==
    \E t \in Thread :
        LET o == op[t] IN
        \/ pc[t] = "fill"
        \/ /\ lockTable = t /\ o.nr = p[2]
           /\ \/ o.kind = "unblock" \/ pc[t] = "bump"
              \/ o.proc # p[1] /\ getHashs(o.proc) = getHashs(p[1])

LossesExplained == [][\A p \in policy : Lost(p) => LossExplained(p)]_vars

(* The denial findder is giving task t, once it has compared both fields. *)
BP == INSTANCE BlockPolicy
        WITH uid <- ids, User <- Proc, Call <- Entry,
             denial <- [t \in Thread |-> IF pc[t] \in {"tally", "add"}
                                        THEN op[t].nr ELSE -1]

(* The sandbox implements BlockPolicy: only root and the user concerned    *)
(* change who is blocked, and findder denies a user other than root only   *)
(* what an accepted block of that user still names.                        *)
DenialsFollowPolicy == BP!Spec
=============================================================================
