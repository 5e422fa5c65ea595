---------------------------- MODULE SandboxProofs ----------------------------
(***************************************************************************)
(* Proofs about Sandbox, for every set of tasks, of users and of system    *)
(* calls and every length of the two arrays.                               *)
(***************************************************************************)
EXTENDS Sandbox, TLAPS

-----------------------------------------------------------------------------
(***************************************************************************)
(* Facts about the helpers.                                                *)
(***************************************************************************)

(* Half of the values of an int are negative. *)
LEMMA HalfInt == INT \div 2 \in Nat /\ INT \div 2 >= 2 /\ INT = 2 * (INT \div 2)
BY SandboxAssumption

(* Every value converted to int is an int. *)
LEMMA AsIntType ==
    ASSUME NEW n \in Nat
    PROVE  AsInt(n) \in Ints
<1> DEFINE half == INT \div 2
<1>1. half \in Nat /\ INT = 2 * half /\ INT \in Nat \ {0}
  BY HalfInt, SandboxAssumption
<1>2. n % INT \in 0 .. INT - 1
  BY <1>1
<1> HIDE DEF half
<1> QED
  BY <1>1, <1>2 DEF AsInt, Ints, half

(* Root, and nobody else, is 0 to findder. *)
LEMMA RootId ==
    ASSUME NEW t \in Thread
    PROVE  uid[t] = 0 <=> ids[t] = 0
<1>1. uid[t] \in 0 .. INT - 1 /\ INT \in Nat \ {0}
  BY SandboxAssumption
<1>2. uid[t] % INT = uid[t]
  BY <1>1
<1>3. ids[t] = IF uid[t] < INT \div 2 THEN uid[t] ELSE uid[t] - INT
  BY <1>2 DEF ids, AsInt
<1> QED
  BY <1>1, <1>3, HalfInt

(* The values a system call returns fit in an int. *)
LEMMA ReturnValues == {0, 1, -EPERM, -EEXIST, -EINVAL} \subseteq Results
BY HalfInt DEF Results, Ints

(* The unsigned addition of findder and of sbx421_block stays in a word. *)
LEMMA WordSum ==
    ASSUME NEW n \in Nat
    PROVE  Inc(n) \in Word
BY SandboxAssumption DEF Word, Inc

(* 0 and 999, the values initalizeHash stores, fit in a word. *)
LEMMA WordConstants == 0 \in Word /\ FREE \in Word
BY SandboxAssumption DEF Word

(* A request has the three fields its handler reads. *)
LEMMA RequestFields ==
    ASSUME NEW r \in Requests
    PROVE  r.kind \in Kinds /\ r.proc \in Proc /\ r.nr \in Nr
BY DEF Requests

(* The two ways to enter the kernel make a request. *)
LEMMA EnterRequest ==
    ASSUME NEW kind \in Kinds, NEW proc \in Proc, NEW nr \in Nr
    PROVE  LET r == [kind |-> kind, proc |-> proc, nr |-> nr]
           IN  r \in Requests /\ r.kind = kind /\ r.proc = proc /\ r.nr = nr
BY DEF Requests

(* A word is a natural number. *)
LEMMA WordNat == Word \subseteq Nat
BY SandboxAssumption DEF Word

(* A return of an int keeps the types of a task's own variables. *)
LEMMA ReturnType ==
    ASSUME TaskTypeOK, NEW t \in Thread, NEW v \in Results, Return(t, v)
    PROVE  TaskTypeOK'
BY WordConstants DEF TaskTypeOK, Return, Places

(* So does a move to another place. *)
LEMMA GotoType ==
    ASSUME TaskTypeOK, NEW t \in Thread, NEW place \in Places, Goto(t, place),
           UNCHANGED <<op, temp, writes, ret>>
    PROVE  TaskTypeOK'
BY DEF TaskTypeOK, Goto

-----------------------------------------------------------------------------
(***************************************************************************)
(* The inductive invariant.  LocalInv ties the place of a task to the call *)
(* it is executing.                                                        *)
(***************************************************************************)

HandlerPlaces == {"start", "fill", "auth", "lock", "check", "bump", "write", "unlock"}
FindderPlaces == {"find", "probe", "tally", "add"}

(* Where a task is says what it is executing: a place of a handler or of   *)
(* findder belongs to a call of that kind, indices have been checked       *)
(* against the bounds before they are used, credentials before the lock is *)
(* taken, and started is set before initalizeHash is left.                 *)
LocalOK(t) ==
    /\ pc[t] \in HandlerPlaces =>
          op[t] \in Requests /\ op[t].kind \in {"block", "unblock", "count"}
    /\ pc[t] \in FindderPlaces =>
          op[t] \in Requests /\ op[t].kind = "find" /\ op[t].proc = ids[t]
    /\ pc[t] \in {"bump", "write", "unlock", "probe", "tally", "add"} =>
          InBounds(op[t].proc, op[t].nr)
    /\ pc[t] = "bump" => op[t].kind = "block"
    /\ pc[t] = "write" => op[t].kind \in {"block", "unblock"}
    /\ pc[t] \in {"lock", "check", "bump", "write", "unlock"} =>
          op[t].kind = "count" \/ MayChange(t)
    /\ pc[t] \in {"auth", "lock", "check", "bump", "write", "unlock"} => started = 1
    /\ pc[t] = "fill" => <<"started", 0>> \in writes[t] \/ started = 1
    /\ writes[t] # {} => pc[t] \in {"fill", "write"}

LocalInv == \A t \in Thread : LocalOK(t)

(* Every step keeps the types. *)
LEMMA TypeStep ==
    ASSUME TypeOK, LocalInv, [Next]_vars
    PROVE  TypeOK'
<1> USE DEF TypeOK, history
<1>1. ASSUME NEW t \in Thread, NEW kind \in {"block", "unblock", "count"},
             NEW proc \in Proc, NEW nr \in Nr, Enter(t, kind, proc, nr)
      PROVE  TypeOK'
  BY <1>1, EnterRequest, SandboxAssumption
     DEF Enter, At, Goto, TableTypeOK, TaskTypeOK, table, Places, Kinds
<1>2. ASSUME NEW t \in Thread, NEW nr \in Nr, EnterFindder(t, nr)
      PROVE  TypeOK'
  <2>1. ids[t] \in Proc
    BY SandboxAssumption
  <2>2. [kind |-> "find", proc |-> ids[t], nr |-> nr] \in Requests
    BY <2>1 DEF Requests, Kinds
  <2> QED
    BY <1>2, <2>2 DEF EnterFindder, Goto, TableTypeOK, TaskTypeOK, table, Places
<1>3. ASSUME NEW t \in Thread, CheckStarted(t)
      PROVE  TypeOK'
  <2>1. InitStores \subseteq Stores
    BY SandboxAssumption DEF InitStores, Stores, Entry
  <2> QED
    BY <1>3, <2>1 DEF CheckStarted, Goto, TableTypeOK, TaskTypeOK, table, Places
<1>4. ASSUME NEW t \in Thread, Fill(t)
      PROVE  TypeOK'
  <2>1. CASE SetStarted(t)
    BY <2>1 DEF SetStarted, Made, TableTypeOK, TaskTypeOK
  <2>2. ASSUME NEW nr \in Entry, FillCall(t, nr)
        PROVE  TypeOK'
    BY <2>2, WordConstants DEF FillCall, Made, TableTypeOK, TaskTypeOK
  <2>3. ASSUME NEW nr \in Entry, FillCount(t, nr)
        PROVE  TypeOK'
    BY <2>3, WordConstants DEF FillCount, Made, TableTypeOK, TaskTypeOK
  <2> QED
    BY <1>4, <2>1, <2>2, <2>3 DEF Fill
<1>5. ASSUME NEW t \in Thread, EndFill(t)
      PROVE  TypeOK'
  BY <1>5 DEF EndFill, Goto, TableTypeOK, TaskTypeOK, table, history, Places
<1>6. ASSUME NEW t \in Thread, CheckOwner(t)
      PROVE  TypeOK'
  <2>1. TaskTypeOK'
    BY <1>6, ReturnType, ReturnValues, GotoType DEF CheckOwner, Places
  <2> QED
    BY <1>6, <2>1 DEF CheckOwner, TableTypeOK, table
<1>7. ASSUME NEW t \in Thread, CheckRoot(t)
      PROVE  TypeOK'
  <2>1. TaskTypeOK'
    BY <1>7, ReturnType, ReturnValues, GotoType DEF CheckRoot, Places
  <2> QED
    BY <1>7, <2>1 DEF CheckRoot, TableTypeOK, table
<1>8. ASSUME NEW t \in Thread, Lock(t)
      PROVE  TypeOK'
  BY <1>8 DEF Lock, At, Goto, TableTypeOK, TaskTypeOK, table, Places
<1>9. ASSUME NEW t \in Thread, BlockAgain(t)
      PROVE  TypeOK'
  <2>1. call[op[t].nr] \in Word
    BY <1>9 DEF BlockAgain, Checking, InBounds, TableTypeOK
  <2> QED
    BY <1>9, <2>1, ReturnValues
       DEF BlockAgain, Goto, TableTypeOK, TaskTypeOK, table, Places
<1>10. ASSUME NEW t \in Thread, Bump(t)
      PROVE  TypeOK'
  <2>1. op[t].nr \in Entry /\ temp[t] \in Nat /\ call[op[t].nr] \in Nat
    BY <1>10, WordNat
       DEF Bump, At, LocalInv, LocalOK, InBounds, TableTypeOK, TaskTypeOK
  <2> QED
    BY <1>10, <2>1, WordSum, WordConstants
       DEF Bump, Goto, TableTypeOK, TaskTypeOK, Places
<1>11. ASSUME NEW t \in Thread, BlockNew(t)
      PROVE  TypeOK'
  <2>1. LocalOK(t)
    BY DEF LocalInv
  <2>2. op[t].proc \in Proc
    BY <1>11, <2>1, RequestFields DEF LocalOK, HandlerPlaces, At, BlockNew, Checking
  <2>3. op[t].nr \in Entry /\ StoresOf(op[t]) \subseteq Stores
    BY <1>11 DEF BlockNew, Checking, InBounds, StoresOf, Stores
  <2> QED
    BY <1>11, <2>2, <2>3, ReturnValues
       DEF BlockNew, Goto, TableTypeOK, TaskTypeOK, table, Places
<1>12. ASSUME NEW t \in Thread, UnblockFound(t)
      PROVE  TypeOK'
  <2>1. StoresOf(op[t]) \subseteq Stores
    BY <1>12 DEF UnblockFound, Checking, InBounds, StoresOf, Stores
  <2> QED
    BY <1>12, <2>1, ReturnValues
       DEF UnblockFound, Goto, TableTypeOK, TaskTypeOK, table, Places
<1>13. ASSUME NEW t \in Thread, NotFound(t)
      PROVE  TypeOK'
  BY <1>13, ReturnValues
     DEF NotFound, Goto, TableTypeOK, TaskTypeOK, table, Places
<1>14. ASSUME NEW t \in Thread, ReadCount(t)
      PROVE  TypeOK'
  <2>1. AsInt(count[op[t].nr]) \in Results
    BY <1>14, WordNat, AsIntType DEF ReadCount, Checking, InBounds, TableTypeOK, Results
  <2> QED
    BY <1>14, <2>1 DEF ReadCount, Goto, TableTypeOK, TaskTypeOK, table, Places
<1>15. ASSUME NEW t \in Thread, At(t, "write"), StoreHash(t)
      PROVE  TypeOK'
  <2>1. LocalOK(t)
    BY DEF LocalInv
  <2>2. op[t].proc \in Proc
    BY <1>15, <2>1, RequestFields DEF LocalOK, HandlerPlaces, At, StoreHash
  <2> QED
    BY <1>15, <2>1, <2>2
       DEF StoreHash, Made, At, TableTypeOK, TaskTypeOK, InBounds, LocalOK
<1>16. ASSUME NEW t \in Thread, At(t, "write"), StoreCall(t)
      PROVE  TypeOK'
  <2>1. op[t].kind = "block" => op[t].nr \in Word
    BY <1>16, SandboxAssumption DEF LocalInv, LocalOK, InBounds, At, Entry, Word
  <2>2. op[t].kind # "block" => op[t].kind = "unblock"
    BY <1>16 DEF LocalInv, LocalOK, At
  <2> QED
    BY <1>16, <2>1, <2>2, WordConstants DEF StoreCall, Made, TableTypeOK, TaskTypeOK
<1>17. ASSUME NEW t \in Thread, At(t, "write"), StoreCount(t)
      PROVE  TypeOK'
  <2>1. LocalOK(t)
    BY DEF LocalInv
  <2> QED
    BY <1>17, WordConstants, <2>1
       DEF StoreCount, ResetCount, Made, At, TableTypeOK, TaskTypeOK, InBounds, LocalOK
<1>18. ASSUME NEW t \in Thread, Unlock(t)
      PROVE  TypeOK'
  BY <1>18, WordConstants DEF Unlock, Released, TableTypeOK, TaskTypeOK, table, Return, Places
<1>19. ASSUME NEW t \in Thread, FindCall(t)
      PROVE  TypeOK'
  <2>1. TaskTypeOK'
    BY <1>19, ReturnType, ReturnValues, GotoType DEF FindCall, Places
  <2> QED
    BY <1>19, <2>1 DEF FindCall, TableTypeOK, table
<1>20. ASSUME NEW t \in Thread, FindHash(t)
      PROVE  TypeOK'
  <2>1. TaskTypeOK'
    BY <1>20, ReturnType, ReturnValues, GotoType DEF FindHash, Places
  <2> QED
    BY <1>20, <2>1 DEF FindHash, TableTypeOK, table
<1>21. ASSUME NEW t \in Thread, LoadCount(t)
      PROVE  TypeOK'
  <2>1. count[op[t].nr] \in Word
    BY <1>21 DEF LoadCount, At, LocalInv, LocalOK, InBounds, TableTypeOK
  <2> QED
    BY <1>21, <2>1 DEF LoadCount, Goto, TableTypeOK, TaskTypeOK, table, Places
<1>22. ASSUME NEW t \in Thread, AddCount(t)
      PROVE  TypeOK'
  <2>1. op[t].nr \in Entry /\ temp[t] \in Nat
    BY <1>22, WordNat DEF AddCount, At, LocalInv, LocalOK, InBounds, TaskTypeOK
  <2> QED
    BY <1>22, <2>1, WordSum, WordConstants, ReturnValues
       DEF AddCount, TableTypeOK, TaskTypeOK, Return, Places
<1>23. ASSUME NEW t \in Thread, WildAccess(t)
      PROVE  TypeOK'
  BY <1>23 DEF WildAccess, At, Goto, TableTypeOK, TaskTypeOK, table, local, Places
<1>24. ASSUME NEW t \in Thread, Leave(t)
      PROVE  TypeOK'
  BY <1>24, ReturnValues DEF Leave, Goto, TableTypeOK, TaskTypeOK, table, Places
<1>25. CASE UNCHANGED vars
  BY <1>25 DEF vars, table, history, local, TableTypeOK, TaskTypeOK
<1> QED
  BY <1>1, <1>2, <1>3, <1>4, <1>5, <1>6, <1>7, <1>8, <1>9, <1>10, <1>11, <1>12,
     <1>13, <1>14, <1>15, <1>16, <1>17, <1>18, <1>19, <1>20, <1>21, <1>22, <1>23,
     <1>24, <1>25
     DEF Next, Arrive, Step, Handler, Findder, Store, Halted

(* A step of task t leaves what the other tasks are doing alone. *)
Frame(t) ==
    \A u \in Thread \ {t} :
        /\ pc'[u] = pc[u] /\ op'[u] = op[u] /\ temp'[u] = temp[u]
        /\ writes'[u] = writes[u] /\ ret'[u] = ret[u]

(* No handler and no step of findder touches another task's locals. *)
LEMMA StepFrame ==
    ASSUME TaskTypeOK, NEW t \in Thread, Arrive(t) \/ Step(t)
    PROVE  Frame(t)
<1> USE DEF TaskTypeOK, Frame
<1>1. CASE Arrive(t)
  BY <1>1 DEF Arrive, Enter, EnterFindder, Goto
<1>2. CASE CheckStarted(t) \/ Fill(t) \/ EndFill(t) \/ Lock(t)
  BY <1>2
     DEF CheckStarted, Fill, SetStarted, FillCall, FillCount, Made, EndFill, Lock, Goto
<1>3. CASE CheckOwner(t) \/ CheckRoot(t)
  BY <1>3 DEF CheckOwner, CheckRoot, Return, Goto
<1>4. CASE BlockAgain(t) \/ Bump(t) \/ BlockNew(t)
  BY <1>4 DEF BlockAgain, Bump, BlockNew, Goto
<1>5. CASE UnblockFound(t) \/ NotFound(t) \/ ReadCount(t)
  BY <1>5 DEF UnblockFound, NotFound, ReadCount, Goto
<1>6. CASE Store(t) \/ Unlock(t)
  BY <1>6 DEF Store, StoreHash, StoreCall, StoreCount, Made, Unlock, Return
<1>7. CASE Findder(t)
  BY <1>7 DEF Findder, FindCall, FindHash, LoadCount, AddCount, Return, Goto
<1>8. CASE WildAccess(t) \/ Leave(t)
  BY <1>8 DEF WildAccess, Leave, Goto, local
<1> QED
  BY <1>1, <1>2, <1>3, <1>4, <1>5, <1>6, <1>7, <1>8 DEF Step, Handler

(* Only the store after the loop of initalizeHash changes started. *)
LEMMA StartedKept ==
    ASSUME NEW t \in Thread, Arrive(t) \/ Step(t), ~(Fill(t) /\ SetStarted(t))
    PROVE  started' = started
<1> USE DEF table
<1>1. CASE Arrive(t)
  BY <1>1 DEF Arrive, Enter, EnterFindder
<1>2. CASE CheckStarted(t) \/ Fill(t) \/ EndFill(t) \/ CheckOwner(t) \/ CheckRoot(t) \/ Lock(t)
  BY <1>2 DEF CheckStarted, Fill, FillCall, FillCount, EndFill, CheckOwner, CheckRoot, Lock
<1>3. CASE BlockAgain(t) \/ Bump(t) \/ BlockNew(t)
  BY <1>3 DEF BlockAgain, Bump, BlockNew
<1>4. CASE UnblockFound(t) \/ NotFound(t) \/ ReadCount(t) \/ Unlock(t)
  BY <1>4 DEF UnblockFound, NotFound, ReadCount, Unlock
<1>5. CASE Store(t)
  BY <1>5 DEF Store, StoreHash, StoreCall, StoreCount
<1>6. CASE Findder(t)
  BY <1>6 DEF Findder, FindCall, FindHash, LoadCount, AddCount
<1>7. CASE WildAccess(t) \/ Leave(t)
  BY <1>7 DEF WildAccess, Leave
<1> QED
  BY <1>1, <1>2, <1>3, <1>4, <1>5, <1>6, <1>7 DEF Step, Handler

(* Once set, started stays set. *)
LEMMA StartedStays ==
    ASSUME started = 1, [Next]_vars
    PROVE  started' = 1
<1>1. ASSUME NEW t \in Thread, Arrive(t) \/ Step(t)
      PROVE  started' = 1
  BY <1>1, StartedKept DEF SetStarted
<1> QED
  BY <1>1 DEF Next, Halted, vars, table

(* A task that returns has nothing left to do. *)
LEMMA ReturnLocal ==
    ASSUME TaskTypeOK, NEW t \in Thread, NEW v, Return(t, v), writes[t] = {}
    PROVE  LocalOK(t)'
BY DEF TaskTypeOK, Return, LocalOK, HandlerPlaces, FindderPlaces

(* Every step keeps LocalInv. *)
LEMMA LocalStep ==
    ASSUME TypeOK, LocalInv, [Next]_vars
    PROVE  LocalInv'
<1>0. TaskTypeOK /\ started \in {0, 1} /\ \A t \in Thread : LocalOK(t)
  BY DEF TypeOK, TableTypeOK, LocalInv
<1>1. ASSUME NEW t \in Thread, NEW kind \in {"block", "unblock", "count"},
             NEW proc \in Proc, NEW nr \in Nr, Enter(t, kind, proc, nr)
      PROVE  LocalOK(t)'
  BY <1>1, <1>0, EnterRequest, SandboxAssumption
     DEF Enter, At, Goto, TaskTypeOK, table, Kinds, LocalOK, HandlerPlaces,
         FindderPlaces, InBounds, MayChange
<1>2. ASSUME NEW t \in Thread, NEW nr \in Nr, EnterFindder(t, nr)
      PROVE  LocalOK(t)'
  <2>1. [kind |-> "find", proc |-> ids[t], nr |-> nr] \in Requests
    BY SandboxAssumption DEF Requests, Kinds
  <2> QED
    BY <1>2, <1>0, <2>1
       DEF EnterFindder, At, Goto, TaskTypeOK, LocalOK, HandlerPlaces, FindderPlaces
<1>3. ASSUME NEW t \in Thread, CheckStarted(t)
      PROVE  LocalOK(t)'
  BY <1>3, <1>0
     DEF CheckStarted, InitStores, At, Goto, TaskTypeOK, table, LocalOK, HandlerPlaces,
         FindderPlaces
<1>4. ASSUME NEW t \in Thread, Fill(t)
      PROVE  LocalOK(t)'
  <2>1. pc' = pc /\ op' = op /\ pc[t] = "fill"
    BY <1>4 DEF Fill, SetStarted, FillCall, FillCount, At
  <2>2. <<"started", 0>> \in writes'[t] \/ started' = 1
    <3>1. <<"started", 0>> \in writes[t] \/ started = 1
      BY <1>0, <2>1 DEF LocalOK
    <3>2. CASE SetStarted(t)
      BY <3>2 DEF SetStarted
    <3>3. ASSUME NEW nr \in Entry, FillCall(t, nr) \/ FillCount(t, nr)
          PROVE  <<"started", 0>> \in writes'[t] \/ started' = 1
      BY <1>0, <3>1, <3>3 DEF FillCall, FillCount, Made, TaskTypeOK
    <3> QED
      BY <1>4, <3>2, <3>3 DEF Fill
  <2> QED
    BY <1>0, <2>1, <2>2 DEF LocalOK, HandlerPlaces, FindderPlaces
<1>5. ASSUME NEW t \in Thread, EndFill(t)
      PROVE  LocalOK(t)'
  BY <1>5, <1>0
     DEF EndFill, At, Goto, TaskTypeOK, table, LocalOK, HandlerPlaces,
         FindderPlaces
<1>6. ASSUME NEW t \in Thread, CheckOwner(t)
      PROVE  LocalOK(t)'
  BY <1>6, <1>0, ReturnLocal
     DEF CheckOwner, At, Goto, TaskTypeOK, table, LocalOK, HandlerPlaces,
         FindderPlaces, InBounds, MayChange
<1>7. ASSUME NEW t \in Thread, CheckRoot(t)
      PROVE  LocalOK(t)'
  BY <1>7, <1>0, ReturnLocal
     DEF CheckRoot, At, Goto, TaskTypeOK, table, LocalOK, HandlerPlaces,
         FindderPlaces, InBounds, MayChange
<1>8. ASSUME NEW t \in Thread, Lock(t)
      PROVE  LocalOK(t)'
  BY <1>8, <1>0
     DEF Lock, At, Goto, TaskTypeOK, table, LocalOK, HandlerPlaces,
         FindderPlaces, InBounds, MayChange
<1>9. ASSUME NEW t \in Thread, BlockAgain(t)
      PROVE  LocalOK(t)'
  BY <1>9, <1>0
     DEF BlockAgain, At, Goto, TaskTypeOK, table, Checking, LocalOK,
         HandlerPlaces, FindderPlaces, InBounds, MayChange
<1>10. ASSUME NEW t \in Thread, Bump(t)
      PROVE  LocalOK(t)'
  BY <1>10, <1>0
     DEF Bump, At, Goto, TaskTypeOK, table, LocalOK, HandlerPlaces,
         FindderPlaces, InBounds, MayChange
<1>11. ASSUME NEW t \in Thread, BlockNew(t)
      PROVE  LocalOK(t)'
  BY <1>11, <1>0
     DEF BlockNew, At, Goto, TaskTypeOK, table, Checking, LocalOK,
         HandlerPlaces, FindderPlaces, InBounds, MayChange
<1>12. ASSUME NEW t \in Thread, UnblockFound(t)
      PROVE  LocalOK(t)'
  BY <1>12, <1>0
     DEF UnblockFound, At, Goto, TaskTypeOK, table, Checking, LocalOK,
         HandlerPlaces, FindderPlaces, InBounds, MayChange
<1>13. ASSUME NEW t \in Thread, NotFound(t)
      PROVE  LocalOK(t)'
  BY <1>13, <1>0
     DEF NotFound, At, Goto, TaskTypeOK, table, Checking, LocalOK,
         HandlerPlaces, FindderPlaces, InBounds, MayChange
<1>14. ASSUME NEW t \in Thread, ReadCount(t)
      PROVE  LocalOK(t)'
  BY <1>14, <1>0
     DEF ReadCount, At, Goto, TaskTypeOK, table, Checking, LocalOK,
         HandlerPlaces, FindderPlaces, InBounds, MayChange
<1>15. ASSUME NEW t \in Thread, At(t, "write"), StoreHash(t)
      PROVE  LocalOK(t)'
  BY <1>15, <1>0
     DEF StoreHash, Made, At, Goto, TaskTypeOK, table, LocalOK, HandlerPlaces,
         FindderPlaces, InBounds, MayChange
<1>16. ASSUME NEW t \in Thread, At(t, "write"), StoreCall(t)
      PROVE  LocalOK(t)'
  BY <1>16, <1>0
     DEF StoreCall, Made, At, Goto, TaskTypeOK, table, LocalOK, HandlerPlaces,
         FindderPlaces, InBounds, MayChange
<1>17. ASSUME NEW t \in Thread, At(t, "write"), StoreCount(t)
      PROVE  LocalOK(t)'
  BY <1>17, <1>0
     DEF StoreCount, Made, At, Goto, TaskTypeOK, table, LocalOK, HandlerPlaces,
         FindderPlaces, InBounds, MayChange
<1>18. ASSUME NEW t \in Thread, Unlock(t)
      PROVE  LocalOK(t)'
  BY <1>18, <1>0, ReturnLocal
     DEF Unlock, At, Goto, TaskTypeOK, table, LocalOK, HandlerPlaces,
         FindderPlaces, InBounds, MayChange
<1>19. ASSUME NEW t \in Thread, FindCall(t)
      PROVE  LocalOK(t)'
  BY <1>19, <1>0, ReturnLocal
     DEF FindCall, At, Goto, TaskTypeOK, table, LocalOK, HandlerPlaces,
         FindderPlaces, InBounds, MayChange
<1>20. ASSUME NEW t \in Thread, FindHash(t)
      PROVE  LocalOK(t)'
  BY <1>20, <1>0, ReturnLocal
     DEF FindHash, At, Goto, TaskTypeOK, table, LocalOK, HandlerPlaces,
         FindderPlaces, InBounds, MayChange
<1>21. ASSUME NEW t \in Thread, LoadCount(t)
      PROVE  LocalOK(t)'
  BY <1>21, <1>0
     DEF LoadCount, At, Goto, TaskTypeOK, table, LocalOK, HandlerPlaces,
         FindderPlaces, InBounds, MayChange
<1>22. ASSUME NEW t \in Thread, AddCount(t)
      PROVE  LocalOK(t)'
  BY <1>22, <1>0, ReturnLocal
     DEF AddCount, At, Goto, TaskTypeOK, table, LocalOK, HandlerPlaces,
         FindderPlaces, InBounds, MayChange
<1>23. ASSUME NEW t \in Thread, WildAccess(t)
      PROVE  LocalOK(t)'
  BY <1>23, <1>0
     DEF WildAccess, At, Goto, TaskTypeOK, table, local, LocalOK,
         HandlerPlaces, FindderPlaces, InBounds, MayChange
<1>24. ASSUME NEW t \in Thread, Leave(t)
      PROVE  LocalOK(t)'
  BY <1>24, <1>0
     DEF Leave, At, Goto, TaskTypeOK, table, LocalOK, HandlerPlaces,
         FindderPlaces, InBounds, MayChange
<1>25. ASSUME NEW t \in Thread, Arrive(t) \/ Step(t)
       PROVE  LocalOK(t)'
  BY <1>1, <1>2, <1>3, <1>4, <1>5, <1>6, <1>7, <1>8, <1>9, <1>10, <1>11, <1>12,
     <1>13, <1>14, <1>15, <1>16, <1>17, <1>18,
     <1>19, <1>20, <1>21, <1>22, <1>23, <1>24, <1>25
     DEF Arrive, Step, Handler, Findder, Store
<1>26. ASSUME NEW t \in Thread, Arrive(t) \/ Step(t), NEW u \in Thread \ {t}
       PROVE  LocalOK(u)'
  <2>1. Frame(t) /\ LocalOK(u)
    BY <1>0, <1>26, StepFrame
  <2>2. started = 1 => started' = 1
    BY StartedStays
  <2> QED
    BY <2>1, <2>2 DEF Frame, LocalOK, MayChange, InBounds
<1>27. CASE UNCHANGED vars
  BY <1>0, <1>27 DEF vars, table, history, local, LocalInv, LocalOK, MayChange
<1> QED
  BY <1>25, <1>26, <1>27 DEF Next, Halted, LocalInv

-----------------------------------------------------------------------------
(***************************************************************************)
(* The mutex.                                                              *)
(***************************************************************************)

(* Only Lock and Unlock enter or leave the critical section. *)
LEMMA CriticalKept ==
    ASSUME TaskTypeOK, NEW t \in Thread, Arrive(t) \/ Step(t), ~Lock(t), ~Unlock(t)
    PROVE  Critical(t)' = Critical(t) /\ lockTable' = lockTable
<1> USE DEF TaskTypeOK, Critical, At
<1>1. CASE Arrive(t)
  BY <1>1 DEF Arrive, Enter, EnterFindder, Goto
<1>2. CASE CheckStarted(t) \/ EndFill(t)
  BY <1>2 DEF CheckStarted, EndFill, Goto
<1>3. CASE Fill(t)
  BY <1>3 DEF Fill, SetStarted, FillCall, FillCount
<1>9. CASE CheckOwner(t) \/ CheckRoot(t)
  BY <1>9 DEF CheckOwner, CheckRoot, Return, Goto
<1>4. CASE BlockAgain(t) \/ Bump(t) \/ BlockNew(t)
  BY <1>4 DEF BlockAgain, Bump, BlockNew, Checking, Goto
<1>5. CASE UnblockFound(t) \/ NotFound(t) \/ ReadCount(t)
  BY <1>5 DEF UnblockFound, NotFound, ReadCount, Checking, Goto
<1>6. CASE Store(t)
  BY <1>6 DEF Store, StoreHash, StoreCall, StoreCount
<1>7. CASE Findder(t)
  BY <1>7 DEF Findder, FindCall, FindHash, LoadCount, AddCount, Return, Goto
<1>8. CASE WildAccess(t) \/ Leave(t)
  BY <1>8 DEF WildAccess, Leave, Goto, local
<1> QED
  BY <1>1, <1>2, <1>3, <1>4, <1>5, <1>6, <1>7, <1>8, <1>9 DEF Step, Handler

(* mutex_lock admits one task, and every path through a handler unlocks. *)
LEMMA LockStep ==
    ASSUME TypeOK, LockDiscipline, [Next]_vars
    PROVE  LockDiscipline'
<1>0. TaskTypeOK
  BY DEF TypeOK
<1>1. ASSUME NEW t \in Thread, Arrive(t) \/ Step(t)
      PROVE  LockDiscipline'
  <2>1. \A u \in Thread \ {t} : Critical(u)' = Critical(u)
    BY <1>0, <1>1, StepFrame DEF Frame, Critical
  <2>2. CASE Lock(t)
    BY <2>1, <2>2, <1>0, SandboxAssumption
       DEF LockDiscipline, Lock, Free, Goto, Critical, TaskTypeOK
  <2>3. CASE Unlock(t)
    <3>1. lockTable = t
      BY <2>3 DEF Unlock, At, LockDiscipline, Critical
    <3>2. ~Critical(t)' /\ lockTable' = NoThread
      BY <2>3, <1>0 DEF Unlock, Released, Return, Critical, TaskTypeOK
    <3> QED
      BY <3>1, <3>2, <2>1, SandboxAssumption DEF LockDiscipline
  <2>4. CASE ~Lock(t) /\ ~Unlock(t)
    BY <2>1, <2>4, <1>0, <1>1, CriticalKept DEF LockDiscipline
  <2> QED
    BY <2>2, <2>3, <2>4
<1>2. CASE UNCHANGED vars
  BY <1>2 DEF vars, local, LockDiscipline, Critical
<1> QED
  BY <1>1, <1>2 DEF Next, Halted

(* Outside the critical section nothing changes a slot or the policy, and  *)
(* call changes only to 999, in initalizeHash.                             *)
LEMMA OutsideStep ==
    ASSUME TypeOK, LocalInv, NEW t \in Thread, Arrive(t) \/ Step(t), ~Critical(t)
    PROVE  /\ hash' = hash /\ policy' = policy
           /\ \A nr \in Entry : call'[nr] \in {call[nr], FREE}
<1> USE DEF Critical, At, table, history
<1>1. CASE Fill(t)
  BY <1>1 DEF Fill, SetStarted, FillCall, FillCount, TypeOK, TableTypeOK
<1>2. CASE Arrive(t)
  BY <1>2 DEF Arrive, Enter, EnterFindder
<1>3. CASE CheckStarted(t) \/ EndFill(t) \/ CheckOwner(t) \/ CheckRoot(t) \/ Lock(t)
  BY <1>3 DEF CheckStarted, EndFill, CheckOwner, CheckRoot, Lock
<1>4. ~(BlockAgain(t) \/ Bump(t) \/ BlockNew(t) \/ Store(t) \/ Unlock(t))
  BY DEF BlockAgain, Bump, BlockNew, Checking, Store, Unlock
<1>5. ~(UnblockFound(t) \/ NotFound(t) \/ ReadCount(t))
  BY DEF UnblockFound, NotFound, ReadCount, Checking
<1>6. CASE Findder(t) \/ WildAccess(t) \/ Leave(t)
  BY <1>6 DEF Findder, FindCall, FindHash, LoadCount, AddCount, WildAccess, Leave
<1> QED
  BY <1>1, <1>2, <1>3, <1>4, <1>5, <1>6 DEF Step, Handler

-----------------------------------------------------------------------------
(***************************************************************************)
(* The slots and the policy.  SlotJustified is inductive together with     *)
(* what a task inside its critical section has done so far.                *)
(***************************************************************************)

(* A block being written is already in the policy; an unblock being        *)
(* written has emptied what it has stored to; a refused unblock is not     *)
(* taken for a successful one.                                             *)
PendingOK(t) ==
    LET o == op[t] IN
    /\ pc[t] = "write" /\ o.kind = "block" => <<o.proc, o.nr>> \in policy
    /\ pc[t] = "write" /\ o.kind = "unblock" =>
          /\ <<"hash", o.nr>> \notin writes[t] => hash[o.nr][getHashs(o.proc)] = 0
          /\ <<"call", o.nr>> \notin writes[t] => call[o.nr] = FREE
    /\ pc[t] = "unlock" /\ o.kind = "unblock" => ret[t] # 0

PendingInv == \A t \in Thread : PendingOK(t)

(* A task's own steps keep the record of its critical section. *)
LEMMA PendingOwnStep ==
    ASSUME TypeOK, LocalInv, PendingInv, NEW t \in Thread, Arrive(t) \/ Step(t)
    PROVE  PendingOK(t)'
<1>0. /\ TableTypeOK /\ TaskTypeOK /\ LocalOK(t) /\ PendingOK(t)
  BY DEF TypeOK, LocalInv, PendingInv
<1>1. CASE Arrive(t)
  BY <1>0, <1>1 DEF Arrive, Enter, EnterFindder, Goto, TaskTypeOK, PendingOK
<1>2. CASE CheckStarted(t) \/ Fill(t) \/ EndFill(t) \/ Lock(t)
  BY <1>0, <1>2
     DEF CheckStarted, Fill, SetStarted, FillCall, FillCount, EndFill, Lock, Goto, At,
         TaskTypeOK, PendingOK
<1>3. CASE CheckOwner(t) \/ CheckRoot(t)
  BY <1>0, <1>3 DEF CheckOwner, CheckRoot, Return, Goto, TaskTypeOK, PendingOK
<1>4. CASE BlockAgain(t) \/ Bump(t) \/ NotFound(t) \/ ReadCount(t)
  BY <1>0, <1>4
     DEF BlockAgain, Bump, NotFound, ReadCount, Checking, Goto, At, EEXIST,
                    TaskTypeOK, PendingOK, LocalOK
<1>5. CASE BlockNew(t)
  BY <1>0, <1>5 DEF BlockNew, Checking, Goto, TaskTypeOK, PendingOK
<1>6. CASE UnblockFound(t)
  BY <1>0, <1>6 DEF UnblockFound, StoresOf, Checking, Goto, TaskTypeOK, PendingOK
<1>7. CASE Store(t)
  <2> USE <1>0 DEF history
  <2>0. pc[t] = "write" /\ InBounds(op[t].proc, op[t].nr)
    BY <1>7 DEF Store, At, LocalOK
  <2>1. CASE StoreHash(t)
    BY <2>0, <2>1 DEF StoreHash, Made, InBounds, TableTypeOK, TaskTypeOK, PendingOK
  <2>2. CASE StoreCall(t)
    BY <2>0, <2>2 DEF StoreCall, Made, InBounds, TableTypeOK, TaskTypeOK, PendingOK
  <2>3. CASE StoreCount(t)
    BY <2>0, <2>3 DEF StoreCount, Made, ResetCount, TaskTypeOK, PendingOK
  <2> QED
    BY <1>7, <2>1, <2>2, <2>3 DEF Store
<1>8. CASE Unlock(t) \/ Findder(t)
  BY <1>0, <1>8
     DEF Unlock, Findder, FindCall, FindHash, LoadCount, AddCount, Return,
         Goto,
                    TaskTypeOK, PendingOK
<1>9. CASE WildAccess(t) \/ Leave(t)
  BY <1>0, <1>9 DEF WildAccess, Leave, Goto, At, local, table, TaskTypeOK, PendingOK
<1> QED
  BY <1>1, <1>2, <1>3, <1>4, <1>5, <1>6, <1>7, <1>8, <1>9 DEF Step, Handler

(* At most one task is in its critical section, and what the others do     *)
(* leaves its progress alone.                                              *)
LEMMA PendingStep ==
    ASSUME TypeOK, LocalInv, LockDiscipline, PendingInv, [Next]_vars
    PROVE  PendingInv'
<1>1. ASSUME NEW t \in Thread, Arrive(t) \/ Step(t), NEW u \in Thread \ {t}
      PROVE  PendingOK(u)'
  <2>1. Frame(t) /\ PendingOK(u) /\ LocalOK(u)
    BY <1>1, StepFrame DEF TypeOK, PendingInv, LocalInv
  <2>2. CASE Critical(u)
    <3>1. ~Critical(t)
      BY <2>2 DEF LockDiscipline
    <3>2. /\ hash' = hash /\ policy' = policy
          /\ \A nr \in Entry : call'[nr] \in {call[nr], FREE}
      BY <1>1, <3>1, OutsideStep
    <3> QED
      BY <2>1, <3>2 DEF Frame, PendingOK, LocalOK, InBounds
  <2>3. CASE ~Critical(u)
    BY <2>1, <2>3 DEF Frame, Critical, PendingOK
  <2> QED
    BY <2>2, <2>3
<1>2. CASE UNCHANGED vars
  BY <1>2 DEF vars, table, history, local, PendingInv, PendingOK
<1> QED
  BY <1>1, <1>2, PendingOwnStep DEF Next, Halted, PendingInv

(* A slot is written by StoreHash alone, the policy by BlockNew and Unlock. *)
LEMMA HashPolicyKept ==
    ASSUME NEW t \in Thread, Arrive(t) \/ Step(t),
           ~BlockNew(t), ~(Store(t) /\ StoreHash(t)), ~Unlock(t)
    PROVE  hash' = hash /\ policy' = policy
<1> USE DEF table, history
<1>1. CASE Arrive(t)
  BY <1>1 DEF Arrive, Enter, EnterFindder
<1>2. CASE CheckStarted(t) \/ Fill(t) \/ EndFill(t) \/ CheckOwner(t) \/ CheckRoot(t) \/ Lock(t)
  BY <1>2
     DEF CheckStarted, Fill, SetStarted, FillCall, FillCount, EndFill, CheckOwner,
         CheckRoot, Lock
<1>3. CASE BlockAgain(t) \/ Bump(t) \/ UnblockFound(t) \/ NotFound(t) \/ ReadCount(t)
  BY <1>3 DEF BlockAgain, Bump, UnblockFound, NotFound, ReadCount
<1>4. CASE Store(t)
  BY <1>4 DEF Store, StoreCall, StoreCount
<1>5. CASE Findder(t) \/ WildAccess(t) \/ Leave(t)
  BY <1>5 DEF Findder, FindCall, FindHash, LoadCount, AddCount, WildAccess, Leave
<1> QED
  BY <1>1, <1>2, <1>3, <1>4, <1>5 DEF Step, Handler

(* Every step keeps SlotJustified: StoreHash writes a user of the policy   *)
(* or 0, and an unblock leaves the policy only with its slot emptied.      *)
LEMMA SlotStep ==
    ASSUME TypeOK, LocalInv, PendingInv, SlotJustified, [Next]_vars
    PROVE  SlotJustified'
<1>1. ASSUME NEW t \in Thread, Arrive(t) \/ Step(t)
      PROVE  SlotJustified'
  <2>0. /\ TableTypeOK /\ TaskTypeOK /\ LocalOK(t) /\ PendingOK(t)
    BY DEF TypeOK, LocalInv, PendingInv
  <2>1. CASE BlockNew(t)
    BY <2>1 DEF BlockNew, table, SlotJustified
  <2>2. CASE Store(t) /\ StoreHash(t)
    <3>1. /\ InBounds(op[t].proc, op[t].nr)
          /\ op[t].kind = "block" => <<op[t].proc, op[t].nr>> \in policy
      BY <2>0, <2>2 DEF Store, At, LocalOK, PendingOK
    <3> QED
      BY <2>0, <2>2, <3>1 DEF StoreHash, history, InBounds, TableTypeOK, SlotJustified
  <2>3. CASE Unlock(t)
    <3>1. CASE op[t].kind = "unblock" /\ ret[t] = 0
      <4>1. pc[t] = "write" /\ writes[t] = {} /\ InBounds(op[t].proc, op[t].nr)
        BY <2>0, <2>3, <3>1 DEF Unlock, At, PendingOK, LocalOK
      <4>2. hash[op[t].nr][getHashs(op[t].proc)] = 0
        BY <2>0, <3>1, <4>1 DEF PendingOK
      <4> QED
        BY <2>3, <3>1, <4>2 DEF Unlock, table, SlotJustified
    <3>2. CASE ~(op[t].kind = "unblock" /\ ret[t] = 0)
      BY <2>3, <3>2 DEF Unlock, table, SlotJustified
    <3> QED
      BY <3>1, <3>2
  <2>4. CASE ~BlockNew(t) /\ ~(Store(t) /\ StoreHash(t)) /\ ~Unlock(t)
    BY <1>1, <2>4, HashPolicyKept DEF SlotJustified
  <2> QED
    BY <2>1, <2>2, <2>3, <2>4
<1>2. CASE UNCHANGED vars
  BY <1>2 DEF vars, table, history, SlotJustified
<1> QED
  BY <1>1, <1>2 DEF Next, Halted

-----------------------------------------------------------------------------
(***************************************************************************)
(* Armed entries.  While initalizeHash runs, the entries whose call it has *)
(* stored satisfy what ArmedHasOwner says of the whole table.              *)
(***************************************************************************)

(* Somebody is blocked from nr. *)
Owned(nr) == \E p \in policy : p[2] = nr

Settled(nr) == call[nr] = FREE \/ Owned(nr)

OwnerOK(t) ==
    ~hasty =>
        /\ pc[t] = "bump" => Owned(op[t].nr)
        /\ pc[t] = "fill" => \A nr \in Entry : <<"call", nr>> \notin writes[t] => Settled(nr)

OwnerInv ==
    /\ ArmedHasOwner
    /\ \A t \in Thread : OwnerOK(t)

(* A pair is removed from the policy only with the entry set back to 999,  *)
(* and an entry is armed only for an owner: settled entries stay settled.  *)
LEMMA SettledStays ==
    ASSUME TypeOK, LocalInv, PendingInv, OwnerInv, ~hasty,
           NEW nr \in Entry, Settled(nr), [Next]_vars
    PROVE  Settled(nr)'
<1>1. ASSUME NEW t \in Thread, Arrive(t) \/ Step(t)
      PROVE  Settled(nr)'
  <2>0. /\ TableTypeOK /\ TaskTypeOK /\ LocalOK(t) /\ PendingOK(t) /\ OwnerOK(t)
    BY DEF TypeOK, LocalInv, PendingInv, OwnerInv
  <2>1. CASE ~Critical(t)
    <3>1. policy' = policy /\ call'[nr] \in {call[nr], FREE}
      BY <1>1, <2>1, OutsideStep
    <3> QED
      BY <3>1 DEF Settled, Owned
  <2>2. CASE BlockNew(t)
    BY <2>2 DEF BlockNew, table, Settled, Owned
  <2>3. CASE Bump(t)
    <3>1. Owned(op[t].nr)
      BY <2>0, <2>3 DEF Bump, At, OwnerOK
    <3>2. policy' = policy /\ (nr # op[t].nr => call'[nr] = call[nr])
      BY <2>0, <2>3 DEF Bump, history, TableTypeOK
    <3> QED
      BY <3>1, <3>2 DEF Settled, Owned
  <2>4. CASE Store(t)
    <3>1. op[t].kind \in {"block", "unblock"}
      BY <2>0, <2>4 DEF Store, At, LocalOK
    <3>2. op[t].kind = "block" => Owned(op[t].nr)
      BY <2>0, <2>4 DEF Store, At, PendingOK, Owned
    <3>3. policy' = policy /\ (call'[nr] = call[nr] \/ nr = op[t].nr)
      BY <2>0, <2>4 DEF Store, history, StoreHash, StoreCall, StoreCount, ResetCount, TableTypeOK
    <3>4. op[t].kind = "unblock" => call'[nr] \in {call[nr], FREE}
      BY <2>0, <2>4 DEF Store, StoreHash, StoreCall, StoreCount, ResetCount, TableTypeOK
    <3> QED
      BY <3>1, <3>2, <3>3, <3>4 DEF Settled, Owned
  <2>5. CASE Unlock(t)
    <3>1. CASE op[t].kind = "unblock" /\ ret[t] = 0 /\ op[t].nr = nr
      <4>1. call[nr] = FREE
        BY <2>0, <2>5, <3>1 DEF Unlock, At, PendingOK
      <4> QED
        BY <2>5, <4>1 DEF Unlock, table, Settled
    <3>2. CASE ~(op[t].kind = "unblock" /\ ret[t] = 0 /\ op[t].nr = nr)
      <4>1. call' = call
        BY <2>5 DEF Unlock, table
      <4>2. ASSUME NEW p \in policy, p[2] = nr
            PROVE  p \in policy'
        BY <2>5, <3>2, <4>2 DEF Unlock
      <4> QED
        BY <4>1, <4>2 DEF Settled, Owned
    <3> QED
      BY <3>1, <3>2
  <2>6. CASE /\ Critical(t) /\ ~BlockNew(t) /\ ~Bump(t) /\ ~Store(t) /\ ~Unlock(t)
    <3>1. \/ BlockAgain(t) \/ UnblockFound(t) \/ NotFound(t) \/ ReadCount(t) \/ WildAccess(t)
      BY <1>1, <2>6
         DEF Critical, At, Arrive, Enter, EnterFindder, Step, Handler,
             Findder,
             CheckStarted, Fill, EndFill, CheckOwner, CheckRoot, Lock, FindCall, FindHash,
             LoadCount, AddCount, Leave
    <3> QED
      BY <3>1 DEF BlockAgain, UnblockFound, NotFound, ReadCount, WildAccess, table,
                  history, Settled, Owned
  <2> QED
    BY <2>1, <2>2, <2>3, <2>4, <2>5, <2>6
<1>2. CASE UNCHANGED vars
  BY <1>2 DEF vars, table, history, Settled, Owned
<1> QED
  BY <1>1, <1>2 DEF Next, Halted

(* Once started was 1 too early, it stays so recorded. *)
LEMMA HastyStays ==
    ASSUME hasty, [Next]_vars
    PROVE  hasty'
<1> USE DEF history
<1>1. ASSUME NEW t \in Thread, Arrive(t)
      PROVE  hasty'
  BY <1>1 DEF Arrive, Enter, EnterFindder
<1>2. ASSUME NEW t \in Thread, Handler(t)
      PROVE  hasty'
  <2>1. CASE CheckStarted(t) \/ Fill(t) \/ EndFill(t) \/ CheckOwner(t) \/ CheckRoot(t) \/ Lock(t)
    BY <2>1
       DEF CheckStarted, Fill, SetStarted, FillCall, FillCount, EndFill, CheckOwner,
           CheckRoot, Lock
  <2>2. CASE BlockAgain(t) \/ Bump(t) \/ BlockNew(t) \/ UnblockFound(t)
    BY <2>2 DEF BlockAgain, Bump, BlockNew, UnblockFound
  <2>3. CASE NotFound(t) \/ ReadCount(t) \/ Store(t) \/ Unlock(t)
    BY <2>3 DEF NotFound, ReadCount, Store, StoreHash, StoreCall, StoreCount, Unlock
  <2> QED
    BY <1>2, <2>1, <2>2, <2>3 DEF Handler
<1>3. ASSUME NEW t \in Thread, Findder(t) \/ WildAccess(t) \/ Leave(t)
      PROVE  hasty'
  BY <1>3 DEF Findder, FindCall, FindHash, LoadCount, AddCount, WildAccess, Leave
<1> QED
  BY <1>1, <1>2, <1>3 DEF Next, Step, Halted, vars

(* A task reaches Bump only for an entry somebody owns, and each store of  *)
(* its pass of initalizeHash settles one entry.                            *)
LEMMA OwnerOwnStep ==
    ASSUME TypeOK, LocalInv, PendingInv, OwnerInv, NEW t \in Thread, Arrive(t) \/ Step(t)
    PROVE  OwnerOK(t)'
<1>0. /\ TableTypeOK /\ TaskTypeOK /\ LocalOK(t) /\ OwnerOK(t)
  BY DEF TypeOK, LocalInv, OwnerInv
<1>1. CASE Arrive(t)
  BY <1>0, <1>1 DEF Arrive, Enter, EnterFindder, Goto, TaskTypeOK, OwnerOK
<1>2. CASE CheckStarted(t)
  BY <1>0, <1>2 DEF CheckStarted, InitStores, Goto, TaskTypeOK, OwnerOK
<1>3. CASE Fill(t)
  <2>1. SUFFICES ASSUME ~hasty', NEW nr \in Entry, <<"call", nr>> \notin writes'[t]
                 PROVE  Settled(nr)'
    BY <1>3 DEF Fill, SetStarted, FillCall, FillCount, At, OwnerOK
  <2>2. ~hasty /\ pc[t] = "fill" /\ [Next]_vars
    BY <1>3, <2>1, HastyStays DEF Fill, At, Next, Step, Handler
  <2>3. CASE <<"call", nr>> \in writes[t]
    <3>1. FillCall(t, nr)
      <4>1. \A store : Made(t, store) => store = <<"call", nr>>
        <5>1. SUFFICES ASSUME NEW store, Made(t, store) PROVE store = <<"call", nr>>
          OBVIOUS
        <5>2. writes'[t] = writes[t] \ {store}
          BY <1>0, <5>1 DEF Made, TaskTypeOK
        <5> QED
          BY <2>1, <2>3, <5>2
      <4>2. ~SetStarted(t)
        BY <4>1 DEF SetStarted
      <4>3. \A n \in Entry : ~FillCount(t, n)
        BY <4>1 DEF FillCount
      <4>4. \A n \in Entry : FillCall(t, n) => n = nr
        BY <4>1 DEF FillCall
      <4> QED
        BY <1>3, <4>2, <4>3, <4>4 DEF Fill
    <3> QED
      BY <1>0, <3>1 DEF FillCall, TableTypeOK, Settled
  <2>4. CASE <<"call", nr>> \notin writes[t]
    BY <1>0, <2>2, <2>4, SettledStays DEF OwnerOK
  <2> QED
    BY <2>3, <2>4
<1>4. CASE BlockAgain(t)
  <2>1. started = 1 /\ op[t].nr \in Entry /\ call[op[t].nr] # FREE
    BY <1>0, <1>4 DEF BlockAgain, Checking, At, InBounds, LocalOK
  <2>2. ~hasty => Owned(op[t].nr)
    BY <2>1 DEF OwnerInv, ArmedHasOwner, Owned
  <2> QED
    BY <1>0, <1>4, <2>2 DEF BlockAgain, history, Goto, TaskTypeOK, OwnerOK, Owned
<1>5. CASE EndFill(t) \/ Lock(t) \/ CheckOwner(t) \/ CheckRoot(t)
  BY <1>0, <1>5
     DEF EndFill, Lock, CheckOwner, CheckRoot, Return, Goto, TaskTypeOK, OwnerOK
<1>6. CASE Bump(t) \/ BlockNew(t) \/ UnblockFound(t) \/ NotFound(t) \/ ReadCount(t)
  BY <1>0, <1>6
     DEF Bump, BlockNew, UnblockFound, NotFound, ReadCount, Goto, TaskTypeOK, OwnerOK
<1>7. CASE Store(t)
  BY <1>0, <1>7 DEF Store, StoreHash, StoreCall, StoreCount, At, OwnerOK
<1>8. CASE Unlock(t) \/ Findder(t)
  BY <1>0, <1>8
     DEF Unlock, Findder, FindCall, FindHash, LoadCount, AddCount, Return, Goto,
         TaskTypeOK, OwnerOK
<1>9. CASE WildAccess(t) \/ Leave(t)
  BY <1>0, <1>9 DEF WildAccess, Leave, Goto, At, local, TaskTypeOK, OwnerOK
<1> QED
  BY <1>1, <1>2, <1>3, <1>4, <1>5, <1>6, <1>7, <1>8, <1>9 DEF Step, Handler

(* Every step keeps OwnerInv, a second pass of initalizeHash included. *)
LEMMA OwnerStep ==
    ASSUME TypeOK, LocalInv, LockDiscipline, PendingInv, OwnerInv, [Next]_vars
    PROVE  OwnerInv'
<1>1. ASSUME NEW t \in Thread, Arrive(t) \/ Step(t), NEW u \in Thread \ {t}
      PROVE  OwnerOK(u)'
  <2>1. Frame(t) /\ OwnerOK(u) /\ (~hasty' => ~hasty)
    BY <1>1, StepFrame, HastyStays DEF TypeOK, OwnerInv
  <2>2. CASE pc[u] = "bump"
    <3>1. ~Critical(t)
      BY <2>2 DEF LockDiscipline, Critical
    <3>2. policy' = policy
      BY <1>1, <3>1, OutsideStep
    <3> QED
      BY <2>1, <2>2, <3>2 DEF Frame, OwnerOK, Owned
  <2>3. CASE pc[u] = "fill"
    BY <2>1, <2>3, SettledStays DEF Frame, OwnerOK
  <2> QED
    BY <2>1, <2>2, <2>3 DEF Frame, OwnerOK
<1>2. CASE UNCHANGED vars
  BY <1>2 DEF vars, table, history, local, OwnerInv, OwnerOK, ArmedHasOwner, Settled, Owned
<1>3. ASSUME started' = 1, ~hasty'
      PROVE  \A nr \in Entry : Settled(nr)'
  <2>0. ~hasty
    BY <1>3, HastyStays
  <2>1. CASE started = 1
    <3>1. \A nr \in Entry : Settled(nr)
      BY <2>0, <2>1 DEF OwnerInv, ArmedHasOwner, Settled, Owned
    <3> QED
      BY <2>0, <3>1, SettledStays
  <2>2. CASE started # 1
    <3>1. PICK t \in Thread : Fill(t) /\ SetStarted(t)
      BY <1>3, <2>2, StartedKept DEF vars, table, Next, Halted
    <3>2. pc[t] = "fill" /\ started = 0
      BY <2>2, <3>1 DEF Fill, At, TypeOK, TableTypeOK
    <3>3. \A nr \in Entry : <<"call", nr>> \notin writes[t]
      BY <1>3, <3>1, <3>2 DEF SetStarted
    <3>4. \A nr \in Entry : Settled(nr)
      BY <2>0, <3>2, <3>3 DEF OwnerInv, OwnerOK
    <3> QED
      BY <2>0, <3>4, SettledStays
  <2> QED
    BY <2>1, <2>2
<1>4. ArmedHasOwner'
  BY <1>3 DEF ArmedHasOwner, Settled, Owned
<1> QED
  BY <1>1, <1>2, <1>4, OwnerOwnStep DEF Next, Halted, OwnerInv

-----------------------------------------------------------------------------
(***************************************************************************)
(* The theorems.                                                           *)
(***************************************************************************)

(* The inductive invariant: the four safety properties and what their proofs *)
(* need to know of a task in the middle of a call.                           *)
IInv ==
    /\ TypeOK
    /\ LocalInv
    /\ LockDiscipline
    /\ PendingInv
    /\ SlotJustified
    /\ OwnerInv

(* The zeroed table and the idle tasks satisfy the invariant. *)
LEMMA InitInv == Init => IInv
<1> SUFFICES ASSUME Init PROVE IInv
  OBVIOUS
<1>1. TypeOK
  <2>1. TableTypeOK
    BY WordConstants DEF Init, TableTypeOK
  <2>2. TaskTypeOK
    BY WordConstants, ReturnValues DEF Init, TaskTypeOK, Places
  <2> QED
    BY <2>1, <2>2 DEF TypeOK
<1>2. LocalInv
  BY DEF Init, LocalInv, LocalOK, HandlerPlaces, FindderPlaces
<1>3. LockDiscipline
  BY SandboxAssumption DEF Init, LockDiscipline, Critical
<1>4. PendingInv
  BY DEF Init, PendingInv, PendingOK
<1>5. SlotJustified
  BY DEF Init, SlotJustified
<1>6. OwnerInv
  BY DEF Init, OwnerInv, OwnerOK, ArmedHasOwner
<1> QED
  BY <1>1, <1>2, <1>3, <1>4, <1>5, <1>6 DEF IInv

(* The invariant is inductive: one lemma above per conjunct. *)
LEMMA NextInv == IInv /\ [Next]_vars => IInv'
BY TypeStep, LocalStep, LockStep, PendingStep, SlotStep, OwnerStep DEF IInv

(* IInv is an invariant of the sandbox. *)
THEOREM Invariance == Spec => []IInv
BY InitInv, NextInv, PTL DEF Spec

(* Every variable keeps its type, whatever the arguments of the handlers   *)
(* and however the tasks interleave.                                       *)
THEOREM TypeCorrect == Spec => []TypeOK
BY Invariance, PTL DEF IInv

(* lockTable is held exactly between mutex_lock and mutex_unlock, for any  *)
(* number of tasks.                                                        *)
THEOREM MutexHeldExactly == Spec => []LockDiscipline
BY Invariance, PTL DEF IInv

(* Every occupied slot belongs to a block that is still in force.          *)
THEOREM SlotsAreJustified == Spec => []SlotJustified
BY Invariance, PTL DEF IInv

(* Once the table is initialised an entry is armed only for somebody who   *)
(* is blocked, even when initalizeHash runs a second time, unless the      *)
(* store of started overtook one of the stores of the loop.                *)
THEOREM ArmedEntriesHaveOwners == Spec => []ArmedHasOwner
<1>1. IInv => ArmedHasOwner
  BY DEF IInv, OwnerInv
<1> QED
  BY <1>1, Invariance, PTL

(* A slot changes only under the mutex and only for root or for a user     *)
(* who names his own uid, which hashes to it.                              *)
THEOREM SlotsChangeByRight == Spec => SlotChangeEntitled
<1>1. ASSUME IInv, [Next]_vars, hash' # hash
      PROVE  SlotChange
  <2>1. PICK t \in Thread : Store(t) /\ StoreHash(t)
    BY <1>1, HashPolicyKept DEF Next, Halted, vars, table, BlockNew, Unlock
  <2>2. LocalOK(t) /\ TableTypeOK /\ lockTable = t
    BY <1>1, <2>1 DEF IInv, TypeOK, LocalInv, LockDiscipline, Critical, Store, At
  <2>3. \A nr \in Entry, i \in Slot :
           hash[nr][i]' # hash[nr][i] => i = getHashs(op[t].proc)
    BY <2>1, <2>2 DEF StoreHash, TableTypeOK
  <2>4. uid[t] = 0 \/ op[t].proc = ids[t]
    BY <2>1, <2>2 DEF Store, At, LocalOK, MayChange
  <2> QED
    BY <2>2, <2>3, <2>4 DEF SlotChange
<1>2. IInv /\ [Next]_vars => [SlotChange]_vars
  <2>1. hash' = hash => SlotChange
    BY DEF SlotChange
  <2> QED
    BY <1>1, <2>1
<1> QED
  BY <1>2, Invariance, PTL DEF Spec, SlotChangeEntitled

(* The fields a lookup compares change in three places of the code. *)
LEMMA FieldsKept ==
    ASSUME NEW t \in Thread, Arrive(t) \/ Step(t), ~Fill(t), ~Bump(t), ~Store(t)
    PROVE  call' = call /\ hash' = hash
<1> USE DEF table
<1>1. CASE Arrive(t)
  BY <1>1 DEF Arrive, Enter, EnterFindder
<1>2. CASE CheckStarted(t) \/ EndFill(t) \/ CheckOwner(t) \/ CheckRoot(t) \/ Lock(t)
  BY <1>2 DEF CheckStarted, EndFill, CheckOwner, CheckRoot, Lock
<1>3. CASE BlockAgain(t) \/ BlockNew(t) \/ UnblockFound(t)
  BY <1>3 DEF BlockAgain, BlockNew, UnblockFound
<1>4. CASE NotFound(t) \/ ReadCount(t) \/ Unlock(t)
  BY <1>4 DEF NotFound, ReadCount, Unlock
<1>5. CASE Findder(t)
  BY <1>5 DEF Findder, FindCall, FindHash, LoadCount, AddCount
<1>6. CASE WildAccess(t) \/ Leave(t)
  BY <1>6 DEF WildAccess, Leave
<1> QED
  BY <1>1, <1>2, <1>3, <1>4, <1>5, <1>6 DEF Step, Handler

(* A block in force is lost only to a second initialisation, to an unblock *)
(* of the same call, to the same block made again, or to a block of a uid  *)
(* with the same remainder.                                                *)
THEOREM BlocksOutlast == Spec => LossesExplained
<1>1. ASSUME IInv, [Next]_vars, NEW p \in policy, Lost(p)
      PROVE  LossExplained(p)
  <2>1. PICK t \in Thread : (Arrive(t) \/ Step(t)) /\ (Fill(t) \/ Bump(t) \/ Store(t))
    BY <1>1, FieldsKept DEF Next, Halted, vars, table, Lost, Denies, Matches
  <2>2. LocalOK(t) /\ TableTypeOK /\ (Critical(t) => lockTable = t)
    BY <1>1 DEF IInv, TypeOK, LocalInv, LockDiscipline
  <2>3. CASE Fill(t)
    BY <2>3 DEF Fill, At, LossExplained
  <2>4. CASE Bump(t)
    <3>1. call'[p[2]] # call[p[2]]
      BY <1>1, <2>4 DEF Bump, Lost, Denies, Matches
    <3>2. op[t].nr = p[2]
      BY <2>2, <2>4, <3>1 DEF Bump, TableTypeOK
    <3> QED
      BY <2>2, <2>4, <3>2 DEF Bump, At, Critical, LossExplained
  <2>5. CASE Store(t)
    <3>1. lockTable = t /\ op[t].kind \in {"block", "unblock"}
      BY <2>2, <2>5 DEF Store, At, Critical, LocalOK
    <3>2. op[t].nr = p[2] /\ (op[t].kind = "block" =>
              op[t].proc # p[1] /\ getHashs(op[t].proc) = getHashs(p[1]))
      <4>1. call[p[2]] = p[2] /\ hash[p[2]][getHashs(p[1])] = p[1]
        BY <1>1 DEF Lost, Denies, Matches
      <4>2. CASE StoreHash(t)
        <5>1. hash'[p[2]][getHashs(p[1])] # p[1]
          BY <1>1, <4>1, <4>2 DEF StoreHash, Lost, Denies, Matches
        <5> QED
          BY <2>2, <4>1, <4>2, <5>1 DEF StoreHash, TableTypeOK
      <4>3. CASE StoreCall(t)
        <5>1. call'[p[2]] # p[2]
          BY <1>1, <4>1, <4>3 DEF StoreCall, Lost, Denies, Matches
        <5> QED
          BY <2>2, <4>1, <4>3, <5>1 DEF StoreCall, TableTypeOK
      <4>4. CASE StoreCount(t)
        BY <1>1, <4>1, <4>4 DEF StoreCount, ResetCount, Lost, Denies, Matches
      <4> QED
        BY <2>5, <4>2, <4>3, <4>4 DEF Store
    <3> QED
      BY <3>1, <3>2 DEF LossExplained
  <2> QED
    BY <2>1, <2>3, <2>4, <2>5
<1>2. IInv /\ [Next]_vars => [\A p \in policy : Lost(p) => LossExplained(p)]_vars
  BY <1>1
<1> QED
  BY <1>2, Invariance, PTL DEF Spec, LossesExplained

-----------------------------------------------------------------------------
(***************************************************************************)
(* The refinement of BlockPolicy.                                          *)
(***************************************************************************)

(* The denial of the refinement mapping. *)
Denial == [t \in Thread |-> IF pc[t] \in {"tally", "add"} THEN op[t].nr ELSE -1]

(* A task that is not denied anything before or after a step leaves all    *)
(* denials alone.                                                          *)
LEMMA DenialKept ==
    ASSUME TaskTypeOK, NEW t \in Thread, Arrive(t) \/ Step(t),
           pc[t] \notin {"tally", "add"}, pc'[t] \notin {"tally", "add"}
    PROVE  Denial' = Denial
BY StepFrame DEF Frame, Denial

(* Every step of the sandbox is a step of the policy or leaves it alone.   *)
LEMMA RefineStep ==
    ASSUME IInv, [Next]_vars
    PROVE  [BP!Next]_(BP!vars)
<1>0. TableTypeOK /\ TaskTypeOK
  BY DEF IInv, TypeOK
<1>1. ASSUME NEW t \in Thread, BlockNew(t)
      PROVE  BP!Next
  <2>1. /\ op[t].proc \in Proc /\ op[t].nr \in Entry /\ BP!Entitled(t, op[t].proc)
    BY <1>1, RequestFields, RootId
       DEF BlockNew, Checking, At, InBounds, IInv, LocalInv, LocalOK,
       HandlerPlaces, MayChange, BP!Entitled
  <2>2. Denial' = Denial
    BY <1>0, <1>1, DenialKept
       DEF BlockNew, Checking, At, Goto, TaskTypeOK, Step, Handler
  <2>3. BP!Block(t, op[t].proc, op[t].nr)
    BY <1>1, <2>1, <2>2 DEF BlockNew, Denial, BP!Block
  <2> QED
    BY <2>1, <2>3 DEF BP!Next
<1>2. ASSUME NEW t \in Thread, Unlock(t)
      PROVE  [BP!Next]_(BP!vars)
  <2>1. Denial' = Denial
    BY <1>0, <1>2, DenialKept DEF Unlock, At, Return, TaskTypeOK, Step, Handler
  <2>2. CASE op[t].kind = "unblock" /\ ret[t] = 0
    <3>1. /\ op[t].proc \in Proc /\ op[t].nr \in Entry /\ BP!Entitled(t, op[t].proc)
      BY <1>2, <2>2, RequestFields, RootId
         DEF Unlock, At, InBounds, IInv, LocalInv, LocalOK,
         HandlerPlaces, MayChange, BP!Entitled
    <3>2. BP!Unblock(t, op[t].proc, op[t].nr)
      BY <1>2, <2>1, <2>2, <3>1 DEF Unlock, Denial, BP!Unblock
    <3> QED
      BY <3>1, <3>2 DEF BP!Next
  <2>3. CASE ~(op[t].kind = "unblock" /\ ret[t] = 0)
    BY <1>2, <2>1, <2>3 DEF Unlock, Denial, BP!vars
  <2> QED
    BY <2>2, <2>3
<1>3. ASSUME NEW t \in Thread, FindHash(t)
      PROVE  [BP!Next]_(BP!vars)
  <2>1. CASE Matches(op[t].proc, op[t].nr)
    <3>1. /\ op[t].nr \in Entry /\ getHashs(ids[t]) \in Slot /\ op[t].proc = ids[t]
      BY <1>3 DEF FindHash, At, IInv, LocalInv, LocalOK, FindderPlaces, InBounds
    <3>2. ids[t] = 0 \/ <<ids[t], op[t].nr>> \in policy
      BY <2>1, <3>1 DEF IInv, SlotJustified, Matches
    <3>3. /\ Denial[t] = -1 /\ Denial' = [Denial EXCEPT ![t] = op[t].nr]
          /\ policy' = policy
      BY <1>0, <1>3, <2>1 DEF FindHash, history, At, Goto, TaskTypeOK, Denial
    <3>4. PICK nr \in Entry : nr = op[t].nr
      BY <3>1
    <3>5. BP!Deny(t, nr)
      BY <3>2, <3>3, <3>4 DEF Denial, BP!Deny, BP!NoDenial
    <3> QED
      BY <3>5 DEF BP!Next
  <2>2. CASE ~Matches(op[t].proc, op[t].nr)
    <3>1. Denial' = Denial
      BY <1>0, <1>3, <2>2, DenialKept
         DEF FindHash, At, Return, TaskTypeOK, Step, Findder
    <3> QED
      BY <1>3, <3>1 DEF FindHash, history, Denial, BP!vars
  <2> QED
    BY <2>1, <2>2
<1>4. ASSUME NEW t \in Thread, AddCount(t)
      PROVE  BP!Next
  <2>1. Denial' = [Denial EXCEPT ![t] = -1] /\ policy' = policy
    BY <1>0, <1>4 DEF AddCount, history, Return, TaskTypeOK, Denial
  <2>2. BP!EndDenial(t)
    BY <2>1 DEF Denial, BP!EndDenial, BP!NoDenial
  <2> QED
    BY <2>2 DEF BP!Next
<1>5. ASSUME NEW t \in Thread, LoadCount(t)
      PROVE  UNCHANGED <<policy, Denial>>
  BY <1>0, <1>5 DEF LoadCount, history, At, Goto, TaskTypeOK, Denial
<1>6. ASSUME NEW t \in Thread, Arrive(t) \/ Step(t), ~BlockNew(t), ~Unlock(t),
             ~FindHash(t), ~AddCount(t), ~LoadCount(t)
      PROVE  UNCHANGED <<policy, Denial>>
  <2>1. policy' = policy
    BY <1>6, HashPolicyKept DEF Store, StoreHash, history
  <2>2. \/ pc[t] \notin {"tally", "add"} /\ pc'[t] \notin {"tally", "add"}
        \/ UNCHANGED local
    <3> USE <1>0 DEF TaskTypeOK, At
    <3>1. CASE Arrive(t)
      BY <3>1 DEF Arrive, Enter, EnterFindder, Goto
    <3>2. CASE CheckStarted(t) \/ Fill(t) \/ EndFill(t) \/ Lock(t)
      BY <3>2
         DEF CheckStarted, Fill, SetStarted, FillCall, FillCount, EndFill, Lock, Goto
    <3>3. CASE CheckOwner(t) \/ CheckRoot(t)
      BY <3>3 DEF CheckOwner, CheckRoot, Return, Goto
    <3>4. CASE BlockAgain(t) \/ Bump(t) \/ UnblockFound(t) \/ NotFound(t) \/ ReadCount(t)
      BY <3>4
         DEF BlockAgain, Bump, UnblockFound, NotFound, ReadCount, Checking,
             Goto
    <3>5. CASE Store(t)
      BY <3>5 DEF Store, StoreHash, StoreCall, StoreCount
    <3>6. CASE FindCall(t) \/ Leave(t)
      BY <3>6 DEF FindCall, Leave, Return, Goto
    <3>7. CASE WildAccess(t)
      BY <3>7 DEF WildAccess
    <3> QED
      BY <1>6, <3>1, <3>2, <3>3, <3>4, <3>5, <3>6, <3>7 DEF Step, Handler, Findder
  <2>3. UNCHANGED local => Denial' = Denial
    BY DEF local, Denial
  <2> QED
    BY <1>0, <1>6, <2>1, <2>2, <2>3, DenialKept
<1>7. CASE UNCHANGED vars
  BY <1>7 DEF vars, history, local, BP!vars
<1>8. UNCHANGED <<policy, Denial>> => UNCHANGED BP!vars
  BY DEF Denial, BP!vars
<1> QED
  BY <1>1, <1>2, <1>3, <1>4, <1>5, <1>6, <1>7, <1>8 DEF Next, Halted

(* The sandbox implements BlockPolicy for every instance: findder denies a *)
(* user other than root only what a block still in force names.            *)
THEOREM ImplementsPolicy == Spec => DenialsFollowPolicy
<1>1. Init => BP!Init
  BY DEF Init, BP!Init, BP!NoDenial
<1>2. IInv /\ [Next]_vars => [BP!Next]_(BP!vars)
  BY RefineStep
<1> QED
  BY <1>1, <1>2, Invariance, PTL DEF Spec, DenialsFollowPolicy, BP!Spec
=============================================================================
