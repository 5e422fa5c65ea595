--------------------------- MODULE DispatchRefines ---------------------------
(***************************************************************************)
(* Dispatch put together from its components: whatever the two do to each  *)
(* other, the entry code does what SyscallEntry allows, and the table is   *)
(* used as Sandbox says.                                                   *)
(***************************************************************************)
EXTENDS DispatchProofs

(* The two components with what is proved about them: Sandbox, where a     *)
(* task asks findder about any number, and the entry code of self.         *)
S == INSTANCE SandboxProofs WITH Nr <- Nr \cup E!Words

EP == INSTANCE SyscallProofs
        WITH pc <- place, NR <- NRS, IA32_NR <- NRS, UINT <- WORD,
             Flag <- {}, MaxRaise <- 0

(* What findder returns to the entry code: SyscallEntry counts on an       *)
(* answer of 0 or 1, and ret holds the values of the handlers too.         *)
Answer ==
    /\ IsFunction(ret)
    /\ place = "findder" /\ pc[self] = "return" => ret[self] \in {0, 1}

(* A task changes no return value but its own. *)
OthersRet(t) == IsFunction(ret') /\ \A u \in Thread \ {t} : ret'[u] = ret[u]

(* A handler sets its own return value only. *)
LEMMA HandlerRet ==
    ASSUME IsFunction(ret), NEW t \in Thread, Handler(t)
    PROVE  OthersRet(t)
  <1> USE DEF IsFunction, OthersRet
  <1>1. CASE CheckStarted(t) \/ Fill(t) \/ EndFill(t) \/ Lock(t) \/ Bump(t)
    BY <1>1 DEF CheckStarted, Fill, SetStarted, FillCall, FillCount, EndFill, Lock, Bump
  <1>2. CASE CheckOwner(t) \/ CheckRoot(t)
    BY <1>2 DEF CheckOwner, CheckRoot, Return
  <1>3. CASE BlockAgain(t) \/ BlockNew(t) \/ UnblockFound(t) \/ NotFound(t) \/ ReadCount(t)
    BY <1>3 DEF BlockAgain, BlockNew, UnblockFound, NotFound, ReadCount
  <1>4. CASE Store(t)
    BY <1>4 DEF Store, StoreHash, StoreCall, StoreCount
  <1>5. CASE Unlock(t)
    BY <1>5 DEF Unlock, Return
  <1> QED  BY <1>1, <1>2, <1>3, <1>4, <1>5 DEF Handler

(* findder returns 0 or 1. *)
LEMMA FindderRet ==
    ASSUME Shape, IsFunction(ret), NEW t \in Thread, Findder(t)
    PROVE  OthersRet(t) /\ (pc'[t] = "return" => ret'[t] \in {0, 1})
  <1> USE DEF IsFunction, OthersRet, Shape
  <1>1. CASE FindCall(t)
    BY <1>1 DEF FindCall, Return, Goto
  <1>2. CASE FindHash(t)
    BY <1>2 DEF FindHash, Return, Goto
  <1>3. CASE LoadCount(t)
    BY <1>3 DEF LoadCount, Goto
  <1>4. CASE AddCount(t)
    BY <1>4 DEF AddCount, Return
  <1> QED  BY <1>1, <1>2, <1>3, <1>4 DEF Findder

(* Nothing has been answered. *)
LEMMA AnswerInit == DispatchInit => Answer
  BY DEF DispatchInit, Init, E!Init, Answer, IsFunction

(* A step of self. *)
LEMMA AnswerSelf ==
    ASSUME Answer, PlaceInv, SelfStep
    PROVE  Answer'
  <1> USE DispatchAssumption DEF Answer, PlaceInv, InSandbox
  <1>1. CASE CallFindder
    <2>1. Enters(self) /\ ret' = ret
      BY <1>1, EnterStep DEF CallFindder, EnterFindder
    <2> QED  BY <2>1 DEF Enters, IsFunction
  <1>2. CASE Lookup(self)
    BY <1>2, FindderRet DEF Lookup, OthersRet
  <1>3. CASE FindderReturns \/ HandlerReturns
    <2>1. pc'[self] = "idle" /\ IsFunction(ret')
      BY <1>3, LeaveStep DEF FindderReturns, HandlerReturns, Leave, IsFunction
    <2> QED  BY <2>1
  <1>4. ASSUME NEW proc \in Proc, NEW n \in Nr, CallHandler(proc, n) PROVE Answer'
    <2>1. Enters(self) /\ ret' = ret
      BY <1>4, EnterStep DEF CallHandler, Enter
    <2> QED  BY <2>1 DEF Enters, IsFunction
  <1>5. CASE Handle(self)
    <2>1. pc[self] \in InHandler /\ place' = place /\ IsFunction(ret')
      BY <1>5, HandlerStep, HandlerRet DEF Handle, entry, OthersRet
    <2>2. place # "findder"
      BY <2>1 DEF SelfInv, InLookup, InHandler, InFindder
    <2> QED  BY <2>1, <2>2
  <1>6. CASE WildAccess(self) /\ InSandbox
    BY <1>6 DEF WildAccess, local, entry, IsFunction
  <1>7. CASE OtherCall \/ (PlainSteps /\ InEntry)
    <2>1. pc' = pc /\ ret' = ret
      BY <1>7 DEF OtherCall, InEntry, vars, local
    <2>2. place' # "findder"
      <3>1. CASE OtherCall
        BY <3>1 DEF OtherCall, E!RunCall
      <3>2. CASE PlainSteps
        BY <3>2 DEF PlainSteps, E!enter_from_user_mode, E!EntryWork, E!NoCall, E!LeaveKernel,
                    E!ReturnSlowpath, E!DisableIrq, E!Prepare, E!Iret, EntryInv
      <3> QED  BY <1>7, <3>1, <3>2
    <2> QED  BY <2>1, <2>2 DEF IsFunction
  <1> QED  BY <1>1, <1>2, <1>3, <1>4, <1>5, <1>6, <1>7 DEF SelfStep

(* The answer of findder is 0 or 1 when the entry code reads it. *)
LEMMA AnswerNext == Answer /\ PlaceInv /\ [DispatchNext]_all => Answer'
  <1> SUFFICES ASSUME Answer, PlaceInv, [DispatchNext]_all PROVE Answer'
    OBVIOUS
  <1> USE DispatchAssumption DEF PlaceInv, Answer
  <1>1. CASE Quiet \/ UNCHANGED all
    BY <1>1 DEF Quiet, all, vars, local, entry, IsFunction
  <1>2. CASE SelfArrives
    <2>1. pc' = pc /\ ret' = ret /\ place = "user"
      BY <1>2 DEF SelfArrives, InEntry, vars, local, E!Syscall64, E!EnterKernel
    <2> QED  BY <2>1 DEF SelfInv, IsFunction
  <1>3. ASSUME NEW t \in Thread \ {self}, OtherStep(t) \/ OtherArrives(t)
        PROVE  Answer'
    <2>1. CASE WildAccess(t) /\ InSandbox
      BY <2>1 DEF WildAccess, local, entry, InSandbox, IsFunction
    <2>2. CASE Handle(t) \/ Lookup(t)
      <3>1. place' = place
        BY <2>2 DEF Handle, Lookup, entry
      <3>2. Others(t) /\ OthersRet(t)
        BY <2>2, HandlerStep, HandlerRet, FindderStep, FindderRet DEF Handle, Lookup
      <3> QED  BY <3>1, <3>2 DEF Others, OthersRet
    <2>3. CASE (Leave(t) \/ Arrive(t)) /\ InSandbox
      <3>1. place' = place
        BY <2>3 DEF InSandbox, entry
      <3>2. Others(t)
        BY <2>3, LeaveStep, EnterStep DEF Arrive, Enters
      <3>3. IsFunction(ret') /\ ret'[self] = ret[self]
        BY <2>3 DEF Leave, Arrive, Enter, EnterFindder, IsFunction
      <3> QED  BY <3>1, <3>2, <3>3 DEF Others
    <2> QED  BY <1>3, <2>1, <2>2, <2>3 DEF OtherStep, OtherArrives
  <1> QED  BY <1>1, <1>2, <1>3, AnswerSelf DEF DispatchNext, Running

-----------------------------------------------------------------------------
(***************************************************************************)
(* The entry code.                                                         *)
(***************************************************************************)

(* A step of self is one of the entry code or leaves it where it is. *)
LEMMA EntrySelf ==
    ASSUME Answer, SelfStep
    PROVE  [E!Next]_E!vars
  <1> USE DEF E!Next, E!Kernel
  <1>1. CASE FindderReturns
    BY <1>1 DEF FindderReturns, Leave, At, E!FindderCheck, Answer
  <1>2. CASE HandlerReturns \/ OtherCall
    BY <1>2 DEF HandlerReturns, OtherCall
  <1>3. CASE PlainSteps
    BY <1>3 DEF PlainSteps, E!EntrySteps, E!ExitSteps
  <1>4. CASE UNCHANGED entry
    BY <1>4 DEF entry, E!vars, E!cpu, E!local, E!pt_regs, E!history, E!verdict, E!once
  <1>5. \/ FindderReturns \/ HandlerReturns \/ OtherCall \/ PlainSteps \/ UNCHANGED entry
    BY DEF SelfStep, CallFindder, Lookup, Handle, CallHandler, InSandbox
  <1> QED  BY <1>1, <1>2, <1>3, <1>4, <1>5

(* The other tasks leave the entry of self alone. *)
LEMMA EntryNext == Answer /\ [DispatchNext]_all => [E!Next]_E!vars
  <1> SUFFICES ASSUME Answer, [DispatchNext]_all PROVE [E!Next]_E!vars
    OBVIOUS
  <1>1. CASE SelfArrives
    BY <1>1 DEF SelfArrives, E!Next, E!Environment
  <1>2. ASSUME UNCHANGED entry PROVE [E!Next]_E!vars
    BY <1>2 DEF entry, E!vars, E!cpu, E!local, E!pt_regs, E!history, E!verdict, E!once
  <1>3. ASSUME NEW t \in Thread \ {self}, OtherStep(t) \/ OtherArrives(t)
        PROVE  UNCHANGED entry
    BY <1>3 DEF OtherStep, OtherArrives, Lookup, Handle, InSandbox
  <1>4. CASE Quiet \/ UNCHANGED all
    BY <1>2, <1>4 DEF Quiet, all
  <1> QED  BY <1>1, <1>2, <1>3, <1>4, EntrySelf DEF DispatchNext, Running

(* With the lookup and the handlers it calls in the place of an arbitrary  *)
(* answer and of an arbitrary call, the entry code of do_syscall_64 does   *)
(* only what SyscallEntry allows it: every safety property of SyscallEntry *)
(* is one of the composition.                                              *)
THEOREM ImplementsEntry == DispatchSpec => E!Spec
  <1>1. DispatchInit => E!Init
    BY DEF DispatchInit
  <1> QED
    BY <1>1, AnswerInit, AnswerNext, EntryNext, PlaceInvariance, PTL DEF DispatchSpec, E!Spec

-----------------------------------------------------------------------------
(***************************************************************************)
(* The table.                                                              *)
(***************************************************************************)

(* The two instances of Sandbox differ in the numbers a call may have, so  *)
(* a step of a handler is the same in both.                                *)
LEMMA SameHandler ==
    ASSUME NEW t \in Thread, Handler(t)
    PROVE  S!Handler(t)
  <1> USE DEF Goto, S!Goto, At, S!At, Return, S!Return, NoOp, S!NoOp, table, S!table,
              history, S!history,
              local, S!local, Checking, S!Checking, InBounds, S!InBounds, Entry, S!Entry,
              Slot, S!Slot, getHashs, S!getHashs, Matches, S!Matches, Denies, S!Denies
  <1>1. CASE CheckStarted(t)
    BY <1>1 DEF CheckStarted, S!CheckStarted, InitStores, S!InitStores, history, S!history,
                S!Handler
  <1>2. CASE Fill(t)
    BY <1>2 DEF Fill, S!Fill, SetStarted, S!SetStarted, FillCall, S!FillCall, FillCount,
                S!FillCount, Made, S!Made, S!Handler
  <1>3. CASE EndFill(t)
    BY <1>3 DEF EndFill, S!EndFill, history, S!history, S!Handler
  <1>4. CASE CheckOwner(t)
    BY <1>4 DEF CheckOwner, S!CheckOwner, MayChange, S!MayChange, ids, S!ids, AsInt, S!AsInt,
                EPERM, S!EPERM, S!Handler
  <1>5. CASE CheckRoot(t)
    BY <1>5 DEF CheckRoot, S!CheckRoot, EPERM, S!EPERM, EINVAL, S!EINVAL, S!Handler
  <1>6. CASE Lock(t)
    BY <1>6 DEF Lock, S!Lock, Free, S!Free, S!Handler
  <1>7. CASE BlockAgain(t)
    BY <1>7 DEF BlockAgain, S!BlockAgain, EEXIST, S!EEXIST, S!Handler
  <1>8. CASE Bump(t)
    BY <1>8 DEF Bump, S!Bump, Inc, S!Inc, S!Handler
  <1>9. CASE BlockNew(t)
    BY <1>9 DEF BlockNew, S!BlockNew, StoresOf, S!StoresOf, S!Handler
  <1>10. CASE UnblockFound(t)
    BY <1>10 DEF UnblockFound, S!UnblockFound, StoresOf, S!StoresOf, S!Handler
  <1>11. CASE NotFound(t)
    BY <1>11 DEF NotFound, S!NotFound, EEXIST, S!EEXIST, S!Handler
  <1>12. CASE ReadCount(t)
    BY <1>12 DEF ReadCount, S!ReadCount, AsInt, S!AsInt, S!Handler
  <1>13. CASE Store(t)
    BY <1>13 DEF Store, S!Store, StoreHash, S!StoreHash, StoreCall, S!StoreCall, StoreCount,
                 S!StoreCount, ResetCount, S!ResetCount, Made, S!Made, S!Handler
  <1>14. CASE Unlock(t)
    BY <1>14 DEF Unlock, S!Unlock, Released, S!Released, S!Handler
  <1> QED  BY <1>1, <1>2, <1>3, <1>4, <1>5, <1>6, <1>7, <1>8, <1>9, <1>10, <1>11, <1>12, <1>13,
              <1>14 DEF Handler

(* A step of findder. *)
LEMMA SameFindder ==
    ASSUME NEW t \in Thread, Findder(t)
    PROVE  S!Findder(t)
  <1> USE DEF Goto, S!Goto, At, S!At, Return, S!Return, NoOp, S!NoOp, table, S!table,
              history, S!history,
              InBounds, S!InBounds, Entry, S!Entry, Slot, S!Slot, getHashs, S!getHashs,
              Matches, S!Matches
  <1>1. CASE FindCall(t)
    BY <1>1 DEF FindCall, S!FindCall, S!Findder
  <1>2. CASE FindHash(t)
    BY <1>2 DEF FindHash, S!FindHash, S!Findder
  <1>3. CASE LoadCount(t)
    BY <1>3 DEF LoadCount, S!LoadCount, S!Findder
  <1>4. CASE AddCount(t)
    BY <1>4 DEF AddCount, S!AddCount, Inc, S!Inc, S!Findder
  <1> QED  BY <1>1, <1>2, <1>3, <1>4 DEF Findder

(* A wild access, and the return to the caller. *)
LEMMA SameEnds ==
    ASSUME NEW t \in Thread, WildAccess(t) \/ Leave(t)
    PROVE  S!Step(t)
  <1> USE DEF Goto, S!Goto, At, S!At, table, S!table, local, S!local, history, S!history, S!Step,
              InBounds, S!InBounds, Entry, S!Entry, Slot, S!Slot, getHashs, S!getHashs
  <1>1. CASE WildAccess(t)
    BY <1>1 DEF WildAccess, S!WildAccess
  <1>2. CASE Leave(t)
    BY <1>2 DEF Leave, S!Leave
  <1> QED  BY <1>1, <1>2

(* Every step of a task inside the kernel. *)
LEMMA SameStep ==
    ASSUME NEW t \in Thread, Step(t)
    PROVE  S!Next
  BY SameHandler, SameFindder, SameEnds DEF Step, S!Step, S!Next

(* A call made with any number; the handlers get arguments of Nr. *)
LEMMA SameArrival ==
    ASSUME NEW t \in Thread,
           \/ Arrive(t)
           \/ \E n \in E!Words : EnterFindder(t, n)
           \/ \E kind0 \in {"block", "unblock", "count"}, proc \in Proc, n \in Nr :
                  Enter(t, kind0, proc, n)
    PROVE  S!Next
  <1> USE DEF Goto, S!Goto, At, S!At, table, S!table, history, S!history, S!Next, S!Arrive
  <1>1. ASSUME NEW k \in {"block", "unblock", "count"}, NEW proc \in Proc, NEW n \in Nr,
               Enter(t, k, proc, n)
        PROVE  S!Next
    BY <1>1 DEF Enter, S!Enter
  <1>2. ASSUME NEW n \in Nr \cup E!Words, EnterFindder(t, n) PROVE S!Next
    BY <1>2 DEF EnterFindder, S!EnterFindder, ids, S!ids, AsInt, S!AsInt
  <1> QED  BY <1>1, <1>2 DEF Arrive

(* The number in nr is that of the last call. *)
NrTyped == nr \in E!Words

(* The number is 0 before the first call. *)
LEMMA NrInit == DispatchInit => NrTyped
  BY SandboxAssumption DEF DispatchInit, E!Init, NrTyped, E!Words

(* A call brings a number of its own, and no other step changes it. *)
LEMMA NrNext == NrTyped /\ [DispatchNext]_all => NrTyped'
  <1> SUFFICES ASSUME NrTyped, [DispatchNext]_all PROVE NrTyped'
    OBVIOUS
  <1> USE DEF NrTyped, E!Words
  <1>1. CASE SelfArrives
    BY <1>1 DEF SelfArrives, E!Syscall64, E!EnterKernel
  <1>2. CASE SelfStep
    <2>1. CASE UNCHANGED entry
      BY <2>1 DEF entry
    <2>2. CASE FindderReturns \/ HandlerReturns \/ OtherCall
      BY <2>2 DEF FindderReturns, HandlerReturns, OtherCall, E!FindderCheck, E!RunCall
    <2>3. CASE PlainSteps
      BY <2>3 DEF PlainSteps, E!enter_from_user_mode, E!EntryWork, E!NoCall, E!LeaveKernel,
                  E!ReturnSlowpath, E!DisableIrq, E!Prepare, E!Iret
    <2>4. \/ FindderReturns \/ HandlerReturns \/ OtherCall \/ PlainSteps \/ UNCHANGED entry
      BY <1>2 DEF SelfStep, CallFindder, Lookup, Handle, CallHandler, InSandbox
    <2> QED  BY <2>1, <2>2, <2>3, <2>4
  <1>3. CASE Quiet \/ UNCHANGED all
    BY <1>3 DEF Quiet, all, entry
  <1>4. ASSUME NEW t \in Thread \ {self}, OtherStep(t) \/ OtherArrives(t) PROVE NrTyped'
    BY <1>4 DEF OtherStep, OtherArrives, Lookup, Handle, InSandbox, entry
  <1> QED  BY <1>1, <1>2, <1>3, <1>4 DEF DispatchNext, Running

(* A step of Dispatch is one of Sandbox, or leaves the table and the tasks *)
(* in its handlers as they are.                                            *)
LEMMA SandboxNext == NrTyped /\ [DispatchNext]_all => [S!Next]_S!vars
  <1> SUFFICES ASSUME NrTyped, [DispatchNext]_all PROVE [S!Next]_S!vars
    OBVIOUS
  <1>1. ASSUME UNCHANGED vars PROVE [S!Next]_S!vars
    BY <1>1 DEF vars, table, local, history, S!vars, S!table, S!local, S!history
  <1>2. CASE SelfStep
    <2> USE DispatchAssumption
    <2>1. CASE CallFindder
      BY <2>1, SameArrival DEF CallFindder, NrTyped
    <2>2. ASSUME NEW proc \in Proc, NEW n \in Nr, CallHandler(proc, n) PROVE S!Next
      <3> DEFINE k == sandboxCall[E!Target]
      <3>1. k \in {"block", "unblock", "count"} /\ Enter(self, k, proc, n)
        BY <2>2 DEF CallHandler
      <3> HIDE DEF k
      <3> QED  BY <3>1, SameArrival
    <2>3. CASE \/ Lookup(self) \/ FindderReturns \/ HandlerReturns \/ Handle(self)
               \/ WildAccess(self) /\ InSandbox
      BY <2>3, SameStep DEF Lookup, Handle, FindderReturns, HandlerReturns, Step
    <2>4. CASE OtherCall \/ (PlainSteps /\ InEntry)
      BY <1>1, <2>4 DEF OtherCall, InEntry
    <2> QED  BY <1>2, <2>1, <2>2, <2>3, <2>4 DEF SelfStep
  <1>3. ASSUME NEW t \in Thread \ {self}, OtherStep(t) \/ OtherArrives(t) PROVE S!Next
    BY <1>3, SameStep, SameArrival DEF OtherStep, OtherArrives, Lookup, Handle, Step
  <1>4. CASE SelfArrives \/ Quiet \/ UNCHANGED all
    BY <1>1, <1>4 DEF SelfArrives, InEntry, Quiet, all
  <1> QED  BY <1>1, <1>2, <1>3, <1>4 DEF DispatchNext, Running

(* However the calls of self reach the handlers, through findder and       *)
(* sys_call_table, the table and its mutex are used as in Sandbox, where   *)
(* calls begin at any time: the entry code adds no behaviour of its own.   *)
THEOREM ImplementsSandbox == DispatchSpec => S!Spec
  <1>1. DispatchInit => S!Init
    BY DEF DispatchInit, Init, S!Init, Entry, S!Entry, Slot, S!Slot, NoOp, S!NoOp
  <1> QED
    BY <1>1, NrInit, NrNext, SandboxNext, PTL DEF DispatchSpec, S!Spec

-----------------------------------------------------------------------------
(***************************************************************************)
(* What the components promise holds in the composition.                   *)
(***************************************************************************)
(* What Sandbox assumes of the numbers a call may have. *)
LEMMA SandboxAssumed == S!SandboxAssumption
  <1>1. S!ids = ids
    BY DEF S!ids, ids, S!AsInt, AsInt
  <1>2. {S!ids[t] : t \in Thread} \subseteq Proc
    BY <1>1, SandboxAssumption
  <1>3. Nr \cup E!Words \subseteq Nat
    BY SandboxAssumption DEF E!Words
  <1> DEFINE Fixed == /\ NoThread \notin Thread
                      /\ INT \in Nat /\ INT > 2 /\ INT % 2 = 0
                      /\ uid \in [Thread -> 0 .. INT - 1]
                      /\ Proc \subseteq Int
                      /\ NRS \in Nat \ {0}
                      /\ SIZE \in Nat \ {0}
                      /\ FREE \in Nat /\ NRS <= FREE
                      /\ WORD \in Nat /\ FREE < WORD
  <1>4. Fixed
    BY SandboxAssumption, Zenon
  <1> QED  BY <1>2, <1>3, <1>4, Zenon DEF S!SandboxAssumption

(* LockDiscipline, SlotJustified, ArmedHasOwner: also with the handlers    *)
(* reached through the entry code, no call returns with the mutex, every   *)
(* slot in use has its block, and no entry is armed that nobody asked for. *)
THEOREM TableStaysSound ==
    DispatchSpec => [](LockDiscipline /\ SlotJustified /\ ArmedHasOwner)
  <1>1. S!Spec => [](S!LockDiscipline /\ S!SlotJustified /\ S!ArmedHasOwner)
    <2>1. S!Spec => []S!LockDiscipline
      BY SandboxAssumed, S!MutexHeldExactly
    <2>2. S!Spec => []S!SlotJustified
      BY SandboxAssumed, S!SlotsAreJustified
    <2>3. S!Spec => []S!ArmedHasOwner
      BY SandboxAssumed, S!ArmedEntriesHaveOwners
    <2> QED  BY <2>1, <2>2, <2>3, PTL
  <1>2. S!LockDiscipline /\ S!SlotJustified /\ S!ArmedHasOwner
            => LockDiscipline /\ SlotJustified /\ ArmedHasOwner
    BY DEF S!LockDiscipline, LockDiscipline, S!Critical, Critical, S!SlotJustified, SlotJustified,
           S!ArmedHasOwner, ArmedHasOwner, S!Entry, Entry, S!Slot, Slot, S!getHashs, getHashs
  <1> QED  BY <1>1, <1>2, ImplementsSandbox, PTL

(* DenialsFollowPolicy: a call of self that do_syscall_64 denies, and one  *)
(* of any other task, is a call some accepted block still names.           *)
THEOREM DenialsStayJustified == DispatchSpec => DenialsFollowPolicy
  <1>1. S!Spec => S!DenialsFollowPolicy
    BY SandboxAssumed, S!ImplementsPolicy
  <1>2. S!BP!Init <=> BP!Init
    BY DEF S!BP!Init, BP!Init, S!BP!NoDenial, BP!NoDenial
  <1>3. [S!BP!Next]_S!BP!vars <=> [BP!Next]_BP!vars
    <2>1. S!BP!Next <=> BP!Next
      BY DEF S!BP!Next, BP!Next, S!BP!Block, BP!Block, S!BP!Unblock, BP!Unblock, S!BP!Deny,
             BP!Deny, S!BP!EndDenial, BP!EndDenial, S!BP!Entitled, BP!Entitled, S!BP!NoDenial,
             BP!NoDenial, S!Entry, Entry, S!ids, ids, S!AsInt, AsInt
    <2> QED  BY <2>1 DEF S!BP!vars, BP!vars
  <1> QED
    BY <1>1, <1>2, <1>3, ImplementsSandbox, PTL
       DEF S!DenialsFollowPolicy, DenialsFollowPolicy, S!BP!Spec, BP!Spec

(* The steps of EP are those of E, which is the same module. *)
LEMMA SameInit == E!Init => EP!Init
  BY DEF EP!Init, E!Init, EP!None, E!None

(* Inside the kernel. *)
LEMMA SameKernel == E!Kernel => EP!Kernel
  <1> USE DEF EP!Kernel, EP!cpu, E!cpu, EP!local, E!local, EP!pt_regs, E!pt_regs, EP!history,
              E!history, EP!verdict, E!verdict, EP!once, E!once,
              EP!local_irq_disable, E!local_irq_disable, EP!local_irq_enable,
              E!local_irq_enable, EP!Masked, E!Masked
  <1>1. ASSUME NEW answer \in {0, 1}, E!FindderCheck(answer) PROVE EP!Kernel
    BY <1>1 DEF EP!FindderCheck, E!FindderCheck, EP!Found, E!Found
  <1>2. CASE E!EntrySteps
    BY <1>2 DEF EP!EntrySteps, E!EntrySteps, EP!enter_from_user_mode, E!enter_from_user_mode,
                EP!GetUserFails, E!GetUserFails, EP!GetUserWorks, E!GetUserWorks, EP!EntryWork,
                E!EntryWork, EP!TraceRead, E!TraceRead, EP!ReportEntry, E!ReportEntry,
                EP!Refuses, E!Refuses, EP!NoReport, E!NoReport, EP!SeccompTraces,
                E!SeccompTraces, EP!SeccompRefuses, E!SeccompRefuses, EP!SeccompAllows,
                E!SeccompAllows, EP!NoSeccomp, E!NoSeccomp, EP!EndTrace, E!EndTrace, EP!NoCall,
                E!NoCall, EP!Skip, E!Skip, EP!Traced, E!Traced,
                EP!WORK_SYSCALL_ENTRY, E!WORK_SYSCALL_ENTRY, EP!None, E!None, EP!Words, E!Words,
                EP!Target, E!Target, EP!InTable, E!InTable
  <1>3. CASE E!RunCall
    BY <1>3 DEF EP!RunCall, E!RunCall, EP!Target, E!Target, EP!InTable, E!InTable
  <1>4. CASE E!ExitSteps
    BY <1>4 DEF EP!ExitSteps, E!ExitSteps, EP!ReturnSlowpath, E!ReturnSlowpath, EP!OwesWork,
                E!OwesWork, EP!DisableIrq,
                E!DisableIrq, EP!Prepare, E!Prepare, EP!syscall_slow_exit_work,
                E!syscall_slow_exit_work, EP!LoopItem, E!LoopItem, EP!LoopDisable, E!LoopDisable,
                EP!LoopRecheck, E!LoopRecheck, EP!LeaveKernel, E!LeaveKernel, EP!Iret, E!Iret,
                EP!Stepping, E!Stepping, EP!HasWork, E!HasWork, EP!Served, E!Served, EP!Latest,
                E!Latest, EP!GoesOn, E!GoesOn, EP!Again, E!Again, EP!LoopOrder, E!LoopOrder,
                EP!EXIT_TO_USERMODE_LOOP_FLAGS, E!EXIT_TO_USERMODE_LOOP_FLAGS,
                EP!SYSCALL_EXIT_WORK_FLAGS, E!SYSCALL_EXIT_WORK_FLAGS
  <1>5. CASE E!Interrupts
    BY <1>5 DEF EP!Interrupts, E!Interrupts, EP!Interrupt, E!Interrupt, EP!TakeInterrupt,
                E!TakeInterrupt, EP!None, E!None
  <1> QED  BY <1>1, <1>2, <1>3, <1>4, <1>5 DEF E!Kernel

(* Around it. *)
LEMMA SameNext == [E!Next]_E!vars => [EP!Next]_EP!vars
  <1>1. E!Environment => EP!Environment
    BY DEF EP!Environment, E!Environment, EP!Syscall64, E!Syscall64, EP!Syscall32, E!Syscall32,
           EP!EnterKernel, E!EnterKernel, EP!Raise, E!Raise, EP!SetMode, E!SetMode, EP!Mode,
           E!Mode, EP!EXIT_TO_USERMODE_LOOP_FLAGS, E!EXIT_TO_USERMODE_LOOP_FLAGS, EP!Words,
           E!Words, EP!None, E!None, EP!verdict, E!verdict, EP!once, E!once, EP!cpu,
           E!cpu, EP!local, E!local,
           EP!pt_regs, E!pt_regs, EP!history, E!history
  <1>2. UNCHANGED E!vars => UNCHANGED EP!vars
    BY DEF EP!vars, E!vars, EP!cpu, E!cpu, EP!local, E!local, EP!pt_regs, E!pt_regs, EP!history,
           E!history, EP!verdict, E!verdict, EP!once, E!once
  <1> QED  BY <1>1, <1>2, SameKernel DEF E!Next, EP!Next

(* What SyscallEntry assumes of the lengths of its tables. *)
LEMMA EntryAssumed == EP!EntryAssumption
  BY DispatchAssumption, SandboxAssumption DEF EP!EntryAssumption

(* ContextWarningsSilent: also with findder for the answer, a call comes   *)
(* to enter_from_user_mode in CONTEXT_USER with interrupts off, and to     *)
(* syscall_return_slowpath in CONTEXT_KERNEL with interrupts on, the calls *)
(* that the table denies and that pass prepare_exit_to_usermode on their   *)
(* way in included.                                                        *)
THEOREM WarningsStaySilent == DispatchSpec => []E!ContextWarningsSilent
  <1>1. EP!Spec => []EP!ContextWarningsSilent
    BY EntryAssumed, EP!WarningsSilent
  <1>2. EP!ContextWarningsSilent => E!ContextWarningsSilent
    BY DEF EP!ContextWarningsSilent, E!ContextWarningsSilent
  <1> QED
    BY <1>1, <1>2, SameInit, SameNext, ImplementsEntry, PTL DEF E!Spec, EP!Spec
=============================================================================
