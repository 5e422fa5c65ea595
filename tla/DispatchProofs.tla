---------------------------- MODULE DispatchProofs ----------------------------
(***************************************************************************)
(* Proofs about Dispatch, for every set of tasks, every layout of          *)
(* sys_call_table and every length of permList.                            *)
(***************************************************************************)
EXTENDS Dispatch, TLAPS

InHandler == {"start", "fill", "auth", "lock", "check", "bump", "write", "unlock"}
InFindder == {"find", "probe", "tally", "add"}

(* The types the proofs need.  Unlike in Sandbox, a task may be asking     *)
(* findder about any number.                                               *)
IsFunction(f) == f = [u \in Thread |-> f[u]]

Shape ==
    /\ pc \in [Thread -> Places] /\ IsFunction(op) /\ IsFunction(temp) /\ IsFunction(writes)
    /\ count \in [Entry -> Nat] /\ denials \in [Entry -> Nat]

-----------------------------------------------------------------------------
(***************************************************************************)
(* The steps of the sandbox, of any task.                                  *)
(***************************************************************************)
Typed ==
    /\ pc' \in [Thread -> Places]
    /\ IsFunction(op') /\ IsFunction(temp') /\ IsFunction(writes')

(* A step of task t leaves what the other tasks are doing alone. *)
Others(t) ==
    \A u \in Thread \ {t} : pc'[u] = pc[u] /\ op'[u] = op[u] /\ temp'[u] = temp[u]

(* A handler stays in its own places. *)
LEMMA HandlerStep ==
    ASSUME Shape, NEW t \in Thread, Handler(t)
    PROVE  /\ Typed /\ Others(t)
           /\ pc[t] \in InHandler /\ pc'[t] \in InHandler \cup {"return"}
  <1> USE DEF Shape, IsFunction, Typed, Others, InHandler, Places, At
  <1>1. CASE CheckStarted(t) \/ EndFill(t)
    BY <1>1 DEF CheckStarted, EndFill, Goto
  <1>2. CASE Fill(t)
    <2>1. CASE SetStarted(t)
      BY <1>2, <2>1 DEF Fill, SetStarted, Made
    <2>2. ASSUME NEW n \in Entry, FillCall(t, n) \/ FillCount(t, n) PROVE Typed /\ Others(t)
      BY <2>2 DEF FillCall, FillCount, Made
    <2>3. pc[t] = "fill" /\ pc' = pc
      BY <1>2 DEF Fill, SetStarted, FillCall, FillCount
    <2> QED  BY <1>2, <2>1, <2>2, <2>3 DEF Fill
  <1>3. CASE CheckOwner(t)
    BY <1>3 DEF CheckOwner, Return, Goto
  <1>4. CASE CheckRoot(t)
    BY <1>4 DEF CheckRoot, Return, Goto
  <1>5. CASE BlockAgain(t)
    BY <1>5 DEF BlockAgain, Checking, Goto
  <1>6. CASE Bump(t) \/ BlockNew(t) \/ Lock(t)
    BY <1>6 DEF Bump, BlockNew, Lock, Checking, Goto
  <1>7. CASE UnblockFound(t) \/ NotFound(t) \/ ReadCount(t)
    BY <1>7 DEF UnblockFound, NotFound, ReadCount, Checking, Goto
  <1>8. CASE Store(t)
    BY <1>8 DEF Store, StoreHash, StoreCall, StoreCount, Made
  <1>9. CASE Unlock(t)
    BY <1>9 DEF Unlock, Return
  <1> QED  BY <1>1, <1>2, <1>3, <1>4, <1>5, <1>6, <1>7, <1>8, <1>9 DEF Handler

(* No handler raises a counter: it resets it or leaves it alone. *)
LEMMA HandlerCount ==
    ASSUME Shape, NEW t \in Thread, Handler(t)
    PROVE  /\ count' \in [Entry -> Nat]
           /\ \A n \in Entry : count'[n] = 0 \/ (count'[n] = count[n] /\ ~Resets(t, n))
  <1> USE DEF Shape, IsFunction
  <1>1. ASSUME NEW m \in Entry, FillCount(t, m) \/ (StoreCount(t) /\ m = op[t].nr)
        PROVE  /\ count' \in [Entry -> Nat]
               /\ \A n \in Entry : count'[n] = 0 \/ (count'[n] = count[n] /\ ~Resets(t, n))
    <2>1. count' = [count EXCEPT ![m] = 0]
      BY <1>1 DEF FillCount, StoreCount, ResetCount
    <2>2. writes' = [writes EXCEPT ![t] = @ \ {<<"count", m>>}]
      BY <1>1 DEF FillCount, StoreCount, Made
    <2> QED  BY <2>1, <2>2 DEF Resets
  <1>2. ASSUME count' = count, \A n \in Entry : ~Resets(t, n)
        PROVE  /\ count' \in [Entry -> Nat]
               /\ \A n \in Entry : count'[n] = 0 \/ (count'[n] = count[n] /\ ~Resets(t, n))
    BY <1>2
  <1>3. CASE Fill(t)
    <2>1. ASSUME NEW store, Made(t, store), \A n \in Entry : store # <<"count", n>>
          PROVE  \A n \in Entry : ~Resets(t, n)
      BY <2>1 DEF Made, Resets
    <2>2. CASE SetStarted(t)
      <3>1. Made(t, <<"started", 0>>) /\ count' = count
        BY <2>2 DEF SetStarted
      <3>2. \A n \in Entry : ~Resets(t, n)
        BY <2>1, <3>1
      <3> QED  BY <1>2, <3>1, <3>2
    <2>3. ASSUME NEW m \in Entry, FillCall(t, m)
          PROVE  count' = count /\ \A n \in Entry : ~Resets(t, n)
      BY <2>1, <2>3 DEF FillCall
    <2> QED  BY <1>1, <1>2, <1>3, <2>2, <2>3 DEF Fill
  <1>4. CASE Store(t)
    <2>1. CASE StoreHash(t) \/ StoreCall(t)
      <3>1. count' = count
        BY <2>1 DEF StoreHash, StoreCall
      <3>2. \A n \in Entry : ~Resets(t, n)
        BY <2>1 DEF StoreHash, StoreCall, Made, Resets
      <3> QED  BY <1>2, <3>1, <3>2
    <2>2. CASE StoreCount(t) /\ op[t].nr \in Entry
      BY <1>1, <2>2
    <2>3. CASE StoreCount(t) /\ op[t].nr \notin Entry
      <3>1. count' = count
        BY <2>3 DEF StoreCount, ResetCount
      <3>2. \A n \in Entry : ~Resets(t, n)
        BY <2>3 DEF StoreCount, Made, Resets
      <3> QED  BY <1>2, <3>1, <3>2
    <2> QED  BY <1>4, <2>1, <2>2, <2>3 DEF Store
  <1>5. CASE ~Fill(t) /\ ~Store(t)
    <2>1. count' = count
      BY <1>5 DEF Handler, CheckStarted, EndFill, CheckOwner, CheckRoot, Lock, BlockAgain,
                  Bump, BlockNew, UnblockFound, NotFound, ReadCount, Unlock, table
    <2>2. pc[t] \in {"fill", "write"} => writes' = writes
      BY <1>5 DEF Handler, CheckStarted, EndFill, CheckOwner, CheckRoot, Lock, BlockAgain,
                  Bump, BlockNew, UnblockFound, NotFound, ReadCount, Unlock, At, Checking, Return
    <2>3. \A n \in Entry : ~Resets(t, n)
      BY <2>2 DEF Resets
    <2> QED  BY <1>2, <2>1, <2>3
  <1> QED  BY <1>3, <1>4, <1>5

(* findder keeps its arguments from one access to the next. *)
LEMMA FindderStep ==
    ASSUME Shape, NEW t \in Thread, Findder(t)
    PROVE  /\ Typed /\ Others(t)
           /\ pc[t] \in InFindder /\ pc'[t] \in InFindder \cup {"return"}
           /\ pc'[t] \in InFindder => pc'[t] # "find" /\ op'[t] = op[t]
           /\ pc[t] = "find" => op[t].nr \in Entry
  <1> USE DEF Shape, IsFunction, Typed, Others, InFindder, Places, At
  <1>1. CASE FindCall(t)
    BY <1>1 DEF FindCall, InBounds, Return, Goto
  <1>2. CASE FindHash(t)
    BY <1>2 DEF FindHash, Return, Goto
  <1>3. CASE LoadCount(t)
    BY <1>3 DEF LoadCount, Goto
  <1>4. CASE AddCount(t)
    BY <1>4 DEF AddCount, Return
  <1> QED  BY <1>1, <1>2, <1>3, <1>4 DEF Findder

(* A task enters the kernel. *)
Enters(t) ==
    /\ Typed /\ Others(t)
    /\ pc[t] = "idle" /\ pc'[t] \in {"start", "find"}
    /\ count' = count /\ lockTable' = lockTable

(* A call begins in either of the two ways. *)
LEMMA EnterStep ==
    ASSUME Shape, NEW t \in Thread, NEW k, NEW proc, NEW n,
           Enter(t, k, proc, n) \/ EnterFindder(t, n)
    PROVE  Enters(t) /\ op'[t].nr = n
  BY DEF Enters, Enter, EnterFindder, Goto, At, Shape, IsFunction, Typed, Others, Places, table

(* The caller of a handler or of findder takes the result. *)
LEMMA LeaveStep ==
    ASSUME Shape, NEW t \in Thread, Leave(t)
    PROVE  /\ Typed /\ Others(t) /\ pc[t] = "return" /\ pc'[t] = "idle"
           /\ count' = count /\ lockTable' = lockTable /\ op' = op
  BY DEF Leave, Goto, At, Shape, IsFunction, Typed, Others, Places, table

(* What a step of Dispatch is to the sandbox. *)
LEMMA StepKind ==
    ASSUME Shape, [DispatchNext]_all
    PROVE  \/ \E t \in Thread : Lookup(t)
           \/ \E t \in Thread : Handle(t)
           \/ denials' = denials /\ \E t \in Thread : Enters(t) \/ Leave(t)
           \/ UNCHANGED <<pc, op, temp, writes, count, lockTable, denials>>
  <1> USE DispatchAssumption DEF InSandbox, InEntry
  <1>1. CASE Quiet \/ UNCHANGED all
    BY <1>1 DEF Quiet, all, vars, local, table
  <1>2. CASE SelfStep
    <2>1. CASE CallFindder
      BY <2>1, EnterStep DEF CallFindder
    <2>2. ASSUME NEW proc \in Proc, NEW n \in Nr, CallHandler(proc, n)
          PROVE  denials' = denials /\ Enters(self)
      BY <2>2, EnterStep DEF CallHandler
    <2>3. CASE FindderReturns \/ HandlerReturns
      BY <2>3 DEF FindderReturns, HandlerReturns
    <2>4. CASE OtherCall \/ (PlainSteps /\ InEntry) \/ (WildAccess(self) /\ InSandbox)
      BY <2>4 DEF OtherCall, vars, local, table, WildAccess
    <2> QED  BY <1>2, <2>1, <2>2, <2>3, <2>4 DEF SelfStep
  <1>3. CASE SelfArrives
    BY <1>3 DEF SelfArrives, vars, local, table
  <1>4. ASSUME NEW t \in Thread \ {self}, OtherStep(t)
        PROVE  \/ Lookup(t)
               \/ Handle(t)
               \/ denials' = denials /\ Leave(t)
               \/ UNCHANGED <<pc, op, temp, writes, count, lockTable, denials>>
    <2>1. CASE WildAccess(t) /\ InSandbox
      BY <2>1 DEF WildAccess, local, table
    <2> QED  BY <1>4, <2>1 DEF OtherStep
  <1>5. ASSUME NEW t \in Thread \ {self}, OtherArrives(t)
        PROVE  denials' = denials /\ Enters(t)
    <2>1. denials' = denials /\ Arrive(t)
      BY <1>5 DEF OtherArrives
    <2> QED  BY <2>1, EnterStep DEF Arrive
  <1> QED  BY <1>1, <1>2, <1>3, <1>4, <1>5 DEF DispatchNext, Running

-----------------------------------------------------------------------------
(***************************************************************************)
(* The counters.                                                           *)
(***************************************************************************)

(* A task about to store a count has loaded one that is not above the      *)
(* denials since the last reset, its own not yet among them.               *)
Tallying(t) ==
    /\ pc[t] \in {"probe", "tally", "add"} => op[t].nr \in Entry
    /\ pc[t] = "add" => temp[t] \in Nat /\ temp[t] <= denials[op[t].nr]

CountInv == Shape /\ CountIsDenials /\ \A t \in Thread : Tallying(t)

(* The addition does not exceed its unbounded form. *)
LEMMA IncBound ==
    ASSUME NEW n \in Nat
    PROVE  Inc(n) \in Nat /\ Inc(n) <= n + 1
  BY SandboxAssumption DEF Inc

(* findder adds one denial and stores a count that is not above them. *)
LEMMA CountLookup ==
    ASSUME CountInv, NEW t \in Thread, Lookup(t)
    PROVE  CountInv'
  <1> USE DEF CountInv
  <1>1. Typed /\ Others(t)
    BY FindderStep DEF Lookup
  <1>2. CASE AddCount(t)
    <2>1. op[t].nr \in Entry /\ temp[t] \in Nat /\ temp[t] <= denials[op[t].nr]
      BY <1>2 DEF AddCount, At, Tallying
    <2>2. /\ count' = [count EXCEPT ![op[t].nr] = Inc(temp[t])]
          /\ denials' = [denials EXCEPT ![op[t].nr] = @ + 1]
          /\ pc'[t] = "return"
      BY <1>2 DEF AddCount, At, Lookup, Return, Shape
    <2>3. Shape' /\ CountIsDenials'
      BY <2>1, <2>2, <1>1, IncBound DEF Shape, CountIsDenials, Typed
    <2>4. \A n \in Entry : denials[n] <= denials'[n]
      BY <2>2 DEF Shape
    <2>5. ASSUME NEW u \in Thread PROVE Tallying(u)'
      <3>1. CASE u = t
        BY <3>1, <2>2 DEF Tallying
      <3>2. CASE u # t
        <4>1. pc'[u] = pc[u] /\ op'[u] = op[u] /\ temp'[u] = temp[u] /\ Tallying(u)
          BY <3>2, <1>1 DEF Others
        <4>2. pc[u] = "add" => temp[u] <= denials'[op[u].nr]
          BY <4>1, <2>3, <2>4 DEF Tallying, Shape
        <4> QED  BY <4>1, <4>2 DEF Tallying
      <3> QED  BY <3>1, <3>2
    <2> QED  BY <2>3, <2>5
  <1>3. CASE ~AddCount(t)
    <2>1. count' = count /\ denials' = denials
      BY <1>3 DEF Lookup, Findder, FindCall, FindHash, LoadCount, At, table
    <2>2. Tallying(t)'
      <3>1. CASE FindCall(t) \/ FindHash(t)
        BY <3>1, <1>1, <2>1 DEF FindCall, FindHash, At, Goto, Return, InBounds, Tallying, Shape
      <3>2. CASE LoadCount(t)
        BY <3>2, <2>1 DEF LoadCount, At, Goto, Tallying, Shape, CountIsDenials, IsFunction
      <3> QED  BY <3>1, <3>2, <1>3 DEF Lookup, Findder
    <2> QED  BY <1>1, <2>1, <2>2 DEF Shape, CountIsDenials, Tallying, Others, Typed
  <1> QED  BY <1>2, <1>3

(* A handler resets a count, and the denials unless a lookup is adding.    *)
LEMMA CountHandle ==
    ASSUME CountInv, NEW t \in Thread, Handle(t)
    PROVE  CountInv'
  <1> USE DEF CountInv
  <1>1. Handler(t) /\ Typed /\ Others(t) /\ pc'[t] \notin {"probe", "tally", "add"}
    BY HandlerStep DEF Handle, InHandler
  <1>2. /\ count' \in [Entry -> Nat]
        /\ \A n \in Entry : count'[n] = 0 \/ (count'[n] = count[n] /\ ~Resets(t, n))
    BY <1>1, HandlerCount
  <1>3. denials' = [n \in Entry |-> IF Resets(t, n) /\ ~Adding(n) THEN 0 ELSE denials[n]]
    BY DEF Handle
  <1>4. Shape' /\ CountIsDenials'
    <2>1. denials' \in [Entry -> Nat]
      BY <1>3 DEF Shape
    <2>2. ASSUME NEW n \in Entry PROVE count'[n] <= denials'[n]
      BY <1>2, <1>3 DEF Shape, CountIsDenials
    <2> QED  BY <1>1, <1>2, <2>1, <2>2 DEF Shape, Typed, CountIsDenials
  <1>5. ASSUME NEW u \in Thread PROVE Tallying(u)'
    <2>1. CASE u = t
      BY <1>1, <2>1 DEF Tallying
    <2>2. CASE u # t
      <3>1. pc'[u] = pc[u] /\ op'[u] = op[u] /\ temp'[u] = temp[u] /\ Tallying(u)
        BY <1>1, <2>2 DEF Others
      <3>2. ASSUME pc[u] = "add" PROVE denials'[op[u].nr] = denials[op[u].nr]
        BY <1>3, <3>1, <3>2 DEF Tallying, Adding
      <3> QED  BY <3>1, <3>2 DEF Tallying
    <2> QED  BY <2>1, <2>2
  <1> QED  BY <1>4, <1>5

(* No other step changes a counter. *)
LEMMA CountNext == CountInv /\ [DispatchNext]_all => CountInv'
  <1> SUFFICES ASSUME CountInv, [DispatchNext]_all PROVE CountInv'
    OBVIOUS
  <1> USE DEF CountInv
  <1>1. ASSUME NEW t \in Thread, denials' = denials, Enters(t) \/ Leave(t)
        PROVE  CountInv'
    <2>1. /\ Typed /\ Others(t) /\ pc'[t] \notin {"probe", "tally", "add"}
          /\ count' = count
      BY <1>1, LeaveStep DEF Enters
    <2>2. Shape' /\ CountIsDenials'
      BY <1>1, <2>1 DEF Shape, CountIsDenials, Typed
    <2> QED  BY <1>1, <2>1, <2>2 DEF Tallying, Others
  <1>2. CASE UNCHANGED <<pc, op, temp, writes, count, lockTable, denials>>
    BY <1>2 DEF Shape, CountIsDenials, Tallying, IsFunction
  <1> QED  BY <1>1, <1>2, StepKind, CountLookup, CountHandle

(* The table is zero and nothing has been denied. *)
LEMMA CountInit == DispatchInit => CountInv
  BY DEF DispatchInit, Init, CountInv, Shape, IsFunction, CountIsDenials, Tallying, Places

(* The invariant of the counters, for all interleavings. *)
THEOREM CountInvariance == DispatchSpec => []CountInv
  BY CountInit, CountNext, PTL DEF DispatchSpec

(* CountIsDenials: races lose denials and invent none, and a reset leaves  *)
(* only what a lookup had already loaded.                                  *)
THEOREM CountsNeverTooHigh == DispatchSpec => []CountIsDenials
  BY CountInvariance, PTL DEF CountInv

-----------------------------------------------------------------------------
(***************************************************************************)
(* Where the task self is in the two components at once.                   *)
(***************************************************************************)

(* findder has answered about the number of the call. *)
Answered ==
    \/ place \in {"enter", "entry_work", "dispatch"}
    \/ place \in {"prepare", "leave"} /\ back = "enter"

EntryInv ==
    /\ place \in {"user", "findder", "enter", "entry_work", "dispatch", "slowpath",
                  "disable", "prepare", "leave", "iret"}
    /\ back \in {"enter", "iret"} /\ flags = {}
    /\ place # "user" => kind = "64"
    /\ place \in {"entry_work", "dispatch"} => irq /\ ctx = "kernel"
    /\ Answered => nr \in Entry

(* Outside the lookup and the dispatch the task is in no code of the       *)
(* sandbox; in them it is where the entry code has called it.              *)
InLookup ==
    /\ pc[self] \in InFindder \cup {"idle", "return"}
    /\ pc[self] \in InFindder => op[self].nr = nr
    /\ pc[self] \in {"probe", "tally", "add", "return"} => nr \in Entry

InCall ==
    /\ pc[self] \in InHandler \cup {"idle", "return"}
    /\ pc[self] # "idle" => E!Target \in DOMAIN sandboxCall

SelfInv ==
    /\ place \notin {"findder", "dispatch"} => pc[self] = "idle"
    /\ place = "findder" => InLookup
    /\ place = "dispatch" => InCall

OwnLock == lockTable = self => Critical(self)

PlaceInv == Shape /\ EntryInv /\ SelfInv /\ OwnLock

(* The task self is in user mode. *)
LEMMA PlaceInit == DispatchInit => PlaceInv
  <1> SUFFICES ASSUME DispatchInit PROVE PlaceInv
    OBVIOUS
  <1>1. Shape
    BY CountInit DEF CountInv
  <1>2. EntryInv
    BY DEF DispatchInit, E!Init, EntryInv, Answered
  <1>3. SelfInv /\ OwnLock
    BY DispatchAssumption, SandboxAssumption DEF DispatchInit, E!Init, Init, SelfInv, OwnLock
  <1> QED  BY <1>1, <1>2, <1>3 DEF PlaceInv

(* mutex_lock and mutex_unlock of any task. *)
LEMMA HandlerLock ==
    ASSUME Shape, OwnLock, NEW t \in Thread, Handler(t)
    PROVE  OwnLock'
  <1> USE SandboxAssumption, DispatchAssumption DEF OwnLock, Critical
  <1>1. CASE Lock(t)
    BY <1>1 DEF Lock, Goto, Shape
  <1>2. CASE Unlock(t)
    BY <1>2 DEF Unlock, Released
  <1>3. CASE ~Lock(t) /\ ~Unlock(t)
    <2>1. lockTable' = lockTable
      BY <1>3 DEF Handler, CheckStarted, Fill, SetStarted, FillCall, FillCount, EndFill,
                  CheckOwner, CheckRoot, BlockAgain, Bump, BlockNew, UnblockFound, NotFound,
                  ReadCount, Store, StoreHash, StoreCall, StoreCount
    <2>2. CASE t = self
      <3>1. CASE BlockAgain(t) \/ Bump(t) \/ BlockNew(t) \/ UnblockFound(t) \/ NotFound(t)
                 \/ ReadCount(t)
        BY <3>1, <2>1, <2>2 DEF BlockAgain, Bump, BlockNew, UnblockFound, NotFound, ReadCount,
                                Goto, Shape
      <3>2. CASE Store(t)
        BY <3>2, <2>1 DEF Store, StoreHash, StoreCall, StoreCount
      <3>3. CASE CheckStarted(t) \/ Fill(t) \/ EndFill(t) \/ CheckOwner(t) \/ CheckRoot(t)
        BY <3>3, <2>1, <2>2 DEF CheckStarted, Fill, EndFill, CheckOwner, CheckRoot, At
      <3> QED  BY <3>1, <3>2, <3>3, <1>3 DEF Handler
    <2>3. CASE t # self
      BY <2>1, <2>3, HandlerStep DEF Others
    <2> QED  BY <2>2, <2>3
  <1> QED  BY <1>1, <1>2, <1>3

(* A step of the sandbox that the entry code does not see. *)
LEMMA PlaceSandbox ==
    ASSUME PlaceInv, UNCHANGED entry, Typed, Shape', OwnLock',
           pc'[self] = pc[self] /\ op'[self] = op[self]
    PROVE  PlaceInv'
  <1>1. EntryInv' /\ E!Target' = E!Target
    BY DEF PlaceInv, EntryInv, Answered, entry, E!Target, E!Masked
  <1> QED  BY <1>1 DEF PlaceInv, SelfInv, InLookup, InCall, entry

(* A step of the entry code alone. *)
LEMMA PlaceEntry ==
    ASSUME PlaceInv, InEntry, OtherCall \/ PlainSteps \/ \E n \in E!Words : E!Syscall64(n)
    PROVE  PlaceInv'
  <1> USE DEF PlaceInv
  <1>1. pc' = pc /\ op' = op /\ lockTable' = lockTable /\ Shape'
    BY DEF InEntry, vars, local, table, Shape, IsFunction
  <1>2. OwnLock'
    BY <1>1 DEF OwnLock, Critical
  <1>3. CASE \E n \in E!Words : E!Syscall64(n)
    BY <1>1, <1>2, <1>3 DEF E!Syscall64, E!EnterKernel, EntryInv, Answered, SelfInv, InLookup,
                                InFindder
  <1>4. CASE E!enter_from_user_mode
    BY <1>1, <1>2, <1>4
       DEF E!enter_from_user_mode, E!local_irq_enable, E!pt_regs, E!history, EntryInv, Answered,
           SelfInv
  <1>5. CASE E!EntryWork
    BY <1>1, <1>2, <1>5
       DEF E!EntryWork, E!cpu, E!pt_regs, E!history, EntryInv, Answered, SelfInv, InCall
  <1>6. CASE OtherCall \/ E!NoCall
    <2>1. pc[self] = "idle"
      <3>1. /\ place = "dispatch" /\ kind = "64"
            /\ pc[self] # "idle" => E!Target \in DOMAIN sandboxCall
        BY <1>6 DEF OtherCall, E!RunCall, E!NoCall, EntryInv, SelfInv, InCall
      <3>2. E!Target \in DOMAIN sandboxCall => E!Target < NRS
        BY DispatchAssumption, SandboxAssumption DEF Entry
      <3>3. E!Target < NRS => E!InTable
        BY <3>1 DEF E!InTable
      <3> QED  BY <1>6, <3>1, <3>2, <3>3 DEF OtherCall, E!NoCall
    <2>2. /\ place' = "slowpath" /\ kind' = kind /\ back' = back /\ flags' = flags
          /\ place # "user"
      BY <1>6 DEF OtherCall, E!RunCall, E!NoCall
    <2> QED  BY <1>1, <1>2, <2>1, <2>2 DEF EntryInv, Answered, SelfInv
  <1>7. CASE E!ReturnSlowpath \/ E!DisableIrq
    BY <1>1, <1>2, <1>7
       DEF E!ReturnSlowpath, E!OwesWork, E!DisableIrq, EntryInv, Answered, SelfInv
  <1>8. CASE E!Prepare
    BY <1>1, <1>2, <1>8
       DEF E!Prepare, E!HasWork, E!pt_regs, E!history, EntryInv, Answered, SelfInv
  <1>9. CASE E!LeaveKernel \/ E!Iret
    BY <1>1, <1>2, <1>9
       DEF E!LeaveKernel, E!Iret, E!pt_regs, E!history, EntryInv, Answered, SelfInv
  <1> QED  BY <1>3, <1>4, <1>5, <1>6, <1>7, <1>8, <1>9 DEF PlainSteps

(* findder and the handlers return to the entry code. *)
LEMMA PlaceReturns ==
    ASSUME PlaceInv, FindderReturns \/ HandlerReturns
    PROVE  PlaceInv'
  <1> USE DEF PlaceInv
  <1>1. /\ pc[self] = "return" /\ pc'[self] = "idle" /\ lockTable' = lockTable /\ Shape'
    BY LeaveStep, DispatchAssumption DEF FindderReturns, HandlerReturns, Shape, Typed
  <1>2. OwnLock'
    BY <1>1 DEF OwnLock, Critical
  <1>3. CASE FindderReturns
    BY <1>1, <1>2, <1>3
       DEF FindderReturns, E!FindderCheck, E!Found, EntryInv, Answered, SelfInv, InLookup
  <1>4. CASE HandlerReturns
    BY <1>1, <1>2, <1>4 DEF HandlerReturns, E!RunCall, EntryInv, Answered, SelfInv
  <1> QED  BY <1>3, <1>4

(* The entry code calls findder or a handler. *)
LEMMA PlaceCalls ==
    ASSUME PlaceInv, CallFindder \/ \E proc \in Proc, n \in Nr : CallHandler(proc, n)
    PROVE  PlaceInv'
  <1> USE DispatchAssumption DEF PlaceInv, InSandbox
  <1>1. EntryInv' /\ E!Target' = E!Target /\ place' = place /\ nr' = nr
    BY DEF CallFindder, CallHandler, EntryInv, Answered, entry, E!Target, E!Masked
  <1>2. CASE CallFindder
    <2>1. Enters(self) /\ op'[self].nr = nr /\ pc'[self] = "find" /\ place = "findder"
      BY <1>2, EnterStep DEF CallFindder, EnterFindder, Goto, At, Shape
    <2>2. Shape' /\ OwnLock'
      BY <1>2, <2>1 DEF Enters, Typed, Shape, OwnLock, Critical, CallFindder
    <2> QED  BY <1>1, <2>1, <2>2 DEF SelfInv, InLookup, InFindder
  <1>3. ASSUME NEW proc \in Proc, NEW n \in Nr, CallHandler(proc, n) PROVE PlaceInv'
    <2>1. Enters(self) /\ pc'[self] = "start" /\ place = "dispatch"
      BY <1>3, EnterStep DEF CallHandler, Enter, Goto, At, Shape
    <2>2. Shape' /\ OwnLock'
      BY <1>3, <2>1 DEF Enters, Typed, Shape, OwnLock, Critical, CallHandler
    <2> QED  BY <1>1, <1>3, <2>1, <2>2 DEF SelfInv, InCall, InHandler, CallHandler
  <1> QED  BY <1>2, <1>3

(* self runs findder or a handler, which leaves the entry code alone. *)
LEMMA PlaceRuns ==
    ASSUME PlaceInv, Shape', Lookup(self) \/ Handle(self)
    PROVE  PlaceInv'
  <1> USE DispatchAssumption DEF PlaceInv, InSandbox
  <1>1. EntryInv' /\ E!Target' = E!Target /\ place' = place /\ nr' = nr
    BY DEF Lookup, Handle, EntryInv, Answered, entry, E!Target, E!Masked
  <1>2. CASE Lookup(self)
    <2>1. /\ pc[self] \in InFindder /\ pc'[self] \in InFindder \cup {"return"}
          /\ pc'[self] \in InFindder => pc'[self] # "find" /\ op'[self] = op[self]
          /\ pc[self] = "find" => op[self].nr \in Entry
      BY <1>2, FindderStep DEF Lookup
    <2>2. lockTable' = lockTable /\ ~Critical(self)
      BY <1>2, <2>1 DEF Lookup, Findder, FindCall, FindHash, LoadCount, AddCount, Critical,
                        InFindder
    <2>3. place = "findder"
      BY <2>1 DEF SelfInv, InCall, InFindder, InHandler
    <2>4. OwnLock'
      BY <2>2 DEF OwnLock
    <2> QED  BY <1>1, <2>1, <2>3, <2>4 DEF SelfInv, InLookup, InFindder
  <1>3. CASE Handle(self)
    <2>1. pc[self] \in InHandler /\ pc'[self] \in InHandler \cup {"return"} /\ OwnLock'
      BY <1>3, HandlerStep, HandlerLock DEF Handle
    <2>2. place = "dispatch"
      BY <2>1 DEF SelfInv, InLookup, InFindder, InHandler
    <2> QED  BY <1>1, <2>1, <2>2 DEF SelfInv, InCall, InHandler
  <1> QED  BY <1>2, <1>3

(* Every step of self or of another task keeps the two components in step. *)
LEMMA PlaceNext == PlaceInv /\ CountInv' /\ [DispatchNext]_all => PlaceInv'
  <1> SUFFICES ASSUME PlaceInv, CountInv', [DispatchNext]_all PROVE PlaceInv'
    OBVIOUS
  <1>1. Shape /\ Shape' /\ OwnLock
    BY DEF PlaceInv, CountInv
  <1>2. ASSUME UNCHANGED <<pc, op, temp, writes, lockTable, entry>> PROVE PlaceInv'
    BY <1>1, <1>2, PlaceSandbox DEF Shape, Typed, OwnLock, Critical, IsFunction
  <1>3. CASE Quiet \/ UNCHANGED all
    BY <1>2, <1>3 DEF Quiet, all, vars, local
  <1>4. CASE SelfStep
    <2>1. CASE WildAccess(self) /\ InSandbox
      BY <1>2, <2>1 DEF WildAccess, local, InSandbox
    <2> QED
      BY <1>1, <1>4, <2>1, PlaceEntry, PlaceReturns, PlaceCalls, PlaceRuns
         DEF SelfStep, OtherCall
  <1>5. CASE SelfArrives
    BY <1>5, PlaceEntry DEF SelfArrives
  <1>6. ASSUME NEW t \in Thread \ {self}, OtherStep(t) \/ OtherArrives(t)
        PROVE  PlaceInv'
    <2>1. CASE WildAccess(t) /\ InSandbox
      BY <1>2, <2>1 DEF WildAccess, local, InSandbox
    <2>2. CASE Handle(t)
      <3>1. Typed /\ Others(t) /\ OwnLock'
        BY <1>1, <2>2, HandlerStep, HandlerLock DEF Handle
      <3> QED  BY <1>1, <2>2, <3>1, PlaceSandbox, DispatchAssumption DEF Others, Handle
    <2>3. CASE Lookup(t) \/ ((Leave(t) \/ Arrive(t)) /\ InSandbox)
      <3>1. Typed /\ Others(t)
        BY <1>1, <2>3, FindderStep, LeaveStep, EnterStep DEF Lookup, Arrive, Enters
      <3>2. lockTable' = lockTable /\ UNCHANGED entry
        BY <2>3 DEF Lookup, Findder, FindCall, FindHash, LoadCount, AddCount, Leave, Arrive,
                    Enter, EnterFindder, InSandbox
      <3>3. pc'[self] = pc[self] /\ op'[self] = op[self]
        BY <3>1, DispatchAssumption DEF Others
      <3>4. OwnLock'
        BY <1>1, <3>2, <3>3 DEF OwnLock, Critical
      <3> QED  BY <1>1, <3>1, <3>2, <3>3, <3>4, PlaceSandbox
    <2> QED  BY <1>6, <2>1, <2>2, <2>3 DEF OtherStep, OtherArrives
  <1> QED  BY <1>3, <1>4, <1>5, <1>6 DEF DispatchNext, Running

(* Where the entry code and the sandbox have the task agrees, always. *)
THEOREM PlaceInvariance == DispatchSpec => []PlaceInv
  BY PlaceInit, PlaceNext, CountInvariance, PTL DEF DispatchSpec

(* MutexSleepsSafely: the mutex is taken with interrupts on, in the call,  *)
(* and given back before the call returns.                                 *)
THEOREM SleepsSafely == DispatchSpec => []MutexSleepsSafely
  <1>1. PlaceInv => MutexSleepsSafely
    BY DEF PlaceInv, EntryInv, SelfInv, InLookup, InFindder, OwnLock, Critical,
           MutexSleepsSafely
  <1> QED  BY <1>1, PlaceInvariance, PTL
=============================================================================
