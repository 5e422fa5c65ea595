---------------------------- MODULE BootArgsProofs ----------------------------
(***************************************************************************)
(* Proofs about BootArgs, for every length of the two arrays, every set of *)
(* names and values and every number of options.                           *)
(***************************************************************************)
EXTENDS BootArgs, WellFoundedInduction, TLAPS

(* As long as nothing has overflowed the last element of each array is     *)
(* free, which the loops stop at; and the kernel goes on booting only then. *)
SpareElement ==
    /\ panic_later = "no" =>
           /\ argv_init[MAX_INIT_ARGS + 1] = NULL
           /\ envp_init[MAX_INIT_ENVS + 1] = NoEnv
    /\ stage = "booting" => panic_later = "no"

(* The inductive invariant. *)
ArgsInv == ArgsTypeOK /\ SpareElement

-----------------------------------------------------------------------------
(* The element behind the last usable one is in its array. *)
LEMMA SpareIndex == MAX_INIT_ARGS + 1 \in ArgIndex /\ MAX_INIT_ENVS + 1 \in EnvIndex
  BY BootArgsAssumption DEF ArgIndex, EnvIndex

(* The arrays of main.c as they are before parse_args. *)
LEMMA ArgsInitInv == ArgsInit => ArgsInv
  <1> SUFFICES ASSUME ArgsInit PROVE ArgsInv
    OBVIOUS
  <1>1. ArgsTypeOK
    BY BootArgsAssumption DEF ArgsInit, ArgsTypeOK, Names, Place, Env, NoEnv, NULL, ArgIndex
  <1>2. SpareElement
    BY BootArgsAssumption, SpareIndex DEF ArgsInit, SpareElement, NoEnv, NULL, ArgIndex, EnvIndex
  <1> QED  BY <1>1, <1>2 DEF ArgsInv

(* The next option has a place. *)
LEMMA PlaceOfNext ==
    ASSUME ArgsTypeOK, NEW where, NextOption(where)
    PROVE  place' \in Place
  <1>1. place \in 0 .. MaxOption
    BY DEF ArgsTypeOK, Place
  <1> QED  BY <1>1, BootArgsAssumption DEF NextOption, Place

(* Storing an option without a value keeps the invariant of argv_init. *)
LEMMA StoreWordKeeps ==
    ASSUME ArgsInv, place' \in Place, StoreWord
    PROVE  /\ argv_init' \in [ArgIndex -> Place \cup {NULL}]
           /\ panic_later' \in {"no", "init", "env"}
           /\ panic_later' = "no" => panic_later = "no" /\ argv_init'[MAX_INIT_ARGS + 1] = NULL
  <1> USE SpareIndex DEF ArgsInv, ArgsTypeOK, SpareElement
  <1>1. CASE panic_later # "no"
    BY <1>1 DEF StoreWord
  <1>2. CASE panic_later = "no"
    <2>1. PICK i \in ArgIndex :
              /\ argv_init' = [argv_init EXCEPT ![i] = place']
              /\ panic_later' = IF TooMany(i) THEN "init" ELSE panic_later
      BY <1>2 DEF StoreWord
    <2>2. panic_later' = "no" => i # MAX_INIT_ARGS + 1
      BY <2>1, BootArgsAssumption DEF TooMany
    <2> QED  BY <1>2, <2>1, <2>2
  <1> QED  BY <1>1, <1>2

(* Storing an environment string keeps the invariant of envp_init: when it *)
(* lands in the last element, the one before it was taken.                 *)
LEMMA StoreEnvKeeps ==
    ASSUME ArgsInv, place' \in Place,
           NEW name \in Names, NEW first \in Char \cup {"/", "l", "none"}, NEW quoted \in BOOLEAN,
           StoreEnv(name, first, quoted)
    PROVE  /\ envp_init' \in [EnvIndex -> [name : Names, first : Char \cup {"/", "l", "none"},
                                           at : Place \cup {NULL}]]
           /\ panic_later' \in {"no", "init", "env"}
           /\ panic_later' = "no" => panic_later = "no" /\ envp_init'[MAX_INIT_ENVS + 1] = NoEnv
  <1> USE SpareIndex DEF ArgsInv, ArgsTypeOK, SpareElement
  <1>1. CASE panic_later # "no"
    BY <1>1 DEF StoreEnv
  <1>2. CASE panic_later = "no"
    <2>1. PICK i \in EnvIndex :
              /\ EnvEnd(i, name, first, quoted)
              /\ envp_init' = [envp_init EXCEPT ![i] = Env(name, first, place')]
              /\ panic_later' = IF i >= MAX_INIT_ENVS /\ envp_init[MAX_INIT_ENVS] # NoEnv
                                THEN "env" ELSE panic_later
      BY <1>2 DEF StoreEnv
    <2>2. panic_later' = "no" => i # MAX_INIT_ENVS + 1
      <3> SUFFICES ASSUME i = MAX_INIT_ENVS + 1 PROVE panic_later' # "no"
        OBVIOUS
      <3>1. MAX_INIT_ENVS \in 0 .. i - 1
        BY BootArgsAssumption
      <3>2. envp_init[MAX_INIT_ENVS] # NoEnv
        BY <2>1, <3>1 DEF EnvEnd
      <3> QED  BY <2>1, <3>2, BootArgsAssumption
    <2>3. Env(name, first, place') \in [name : Names, first : Char \cup {"/", "l", "none"},
                                        at : Place \cup {NULL}]
      BY DEF Env
    <2> QED  BY <1>2, <2>1, <2>2, <2>3
  <1> QED  BY <1>1, <1>2

(* A set of natural numbers that is not empty has a smallest element.      *)
LEMMA Smallest ==
    ASSUME NEW S \in SUBSET Nat, S # {}
    PROVE  \E i \in S : \A j \in S : i <= j
  <1> DEFINE Less == {ss \in Nat \X Nat : ss[1] < ss[2]}
  <1>1. IsWellFoundedOn(Less, Nat)
    BY NatLessThanWellFounded, Zenon DEF OpToRel
  <1> HIDE DEF Less
  <1>2. PICK i \in S : \A j \in S : ~(<<j, i>> \in Less)
    BY <1>1, WFMin
  <1>3. \A j \in S : ~(j < i)
    BY <1>2 DEF Less
  <1> QED  BY <1>3

-----------------------------------------------------------------------------
(* The two facts above, for the steps that store. *)
LEMMA ParseInv == ArgsInv /\ Parse => ArgsInv'
  <1> SUFFICES ASSUME ArgsInv, Parse PROVE ArgsInv'
    OBVIOUS
  <1> USE DEF ArgsInv
  <1>1. CASE Word
    <2>1. place' \in Place /\ StoreWord
      BY <1>1, PlaceOfNext DEF Word
    <2> QED  BY <1>1, <2>1, StoreWordKeeps DEF Word, NextOption, ArgsTypeOK, SpareElement, commands
  <1>2. CASE Consumed
    BY <1>2, PlaceOfNext DEF Consumed, NextOption, ArgsTypeOK, SpareElement, commands, history
  <1>3. CASE SetRodata
    <2>1. place' \in Place /\ StoreEnv("rodata", "none", FALSE)
      BY <1>3, PlaceOfNext DEF SetRodata
    <2>2. "rodata" \in Names
      BY DEF Names
    <2> QED  BY <1>3, <2>1, <2>2, StoreEnvKeeps
             DEF SetRodata, NextOption, ArgsTypeOK, SpareElement, commands, history
  <1>4. CASE InitSetup \/ RdinitSetup
    <2>1. place' \in Place
      BY <1>4, PlaceOfNext DEF InitSetup, RdinitSetup
    <2>2. Cleared \in [ArgIndex -> Place \cup {NULL}]
      BY DEF Cleared, ArgsTypeOK
    <2>3. Cleared[MAX_INIT_ARGS + 1] = argv_init[MAX_INIT_ARGS + 1]
      BY SpareIndex, BootArgsAssumption DEF Cleared
    <2> QED  BY <1>4, <2>1, <2>2, <2>3
             DEF InitSetup, RdinitSetup, NextOption, ArgsTypeOK, SpareElement
  <1>5. CASE Dashes \/ Parsed
    BY <1>5 DEF Dashes, Parsed, ArgsTypeOK, SpareElement, commands, history
  <1>6. CASE set_init_arg
    <2> USE <1>6, SpareIndex DEF set_init_arg
    <2>1. place' \in Place
      BY PlaceOfNext
    <2>2. /\ argv_init' \in [ArgIndex -> Place \cup {NULL}]
          /\ panic_later' \in {"no", "init", "env"}
          /\ panic_later' = "no" =>
                 panic_later = "no" /\ argv_init'[MAX_INIT_ARGS + 1] = NULL
      <3>1. CASE panic_later # "no"
        BY <3>1 DEF ArgsTypeOK
      <3>2. CASE panic_later = "no"
        <4>1. PICK i \in ArgIndex :
                  IF TooMany(i)
                  THEN panic_later' = "init" /\ UNCHANGED argv_init
                  ELSE argv_init' = [argv_init EXCEPT ![i] = place'] /\ UNCHANGED panic_later
          BY <3>2
        <4> QED  BY <2>1, <3>2, <4>1, BootArgsAssumption DEF TooMany, ArgsTypeOK, SpareElement
      <3> QED  BY <3>1, <3>2
    <2> QED  BY <2>1, <2>2 DEF NextOption, ArgsTypeOK, SpareElement, commands
  <1>7. ASSUME NEW name \in Name, NEW first \in Char, NEW quoted \in BOOLEAN,
               Setting(name, first, quoted)
        PROVE  ArgsInv'
    <2>1. place' \in Place /\ StoreEnv(name, first, quoted)
      BY <1>7, PlaceOfNext DEF Setting
    <2>2. name \in Names
      BY DEF Names
    <2>3. last' \in [Name -> [at : Place \cup {NULL}, quoted : BOOLEAN]]
      BY <1>7, <2>1 DEF Setting, ArgsTypeOK
    <2> QED  BY <1>7, <2>1, <2>2, <2>3, StoreEnvKeeps
             DEF Setting, NextOption, ArgsTypeOK, SpareElement, commands
  <1>8. ASSUME NEW list \in SUBSET Fn, BlacklistInitcall(list)
        PROVE  ArgsInv'
    <2>1. place' \in Place /\ StoreEnv("initcall_blacklist", "none", FALSE)
      BY <1>8, PlaceOfNext DEF BlacklistInitcall
    <2>2. "initcall_blacklist" \in Names
      BY DEF Names
    <2> QED  BY <1>8, <2>1, <2>2, StoreEnvKeeps
             DEF BlacklistInitcall, NextOption, ArgsTypeOK, SpareElement, commands, history
  <1>9. CASE BlacklistPanics
    BY <1>9, PlaceOfNext
       DEF BlacklistPanics, NextOption, ArgsTypeOK, SpareElement, commands, history
  <1> QED  BY <1>1, <1>2, <1>3, <1>4, <1>5, <1>6, <1>7, <1>8, <1>9 DEF Parse

(* The deferred panic stores nothing. *)
LEMMA PanicLaterInv == ArgsInv /\ PanicLater => ArgsInv'
  BY DEF ArgsInv, PanicLater, Refused, ArgsTypeOK, SpareElement, commands, history

(* A step of something else. *)
LEMMA ArgsStutter == ArgsInv /\ UNCHANGED argVars => ArgsInv'
  BY DEF ArgsInv, ArgsTypeOK, SpareElement, argVars, commands, history

(* ArgsInv holds of every command line. *)
THEOREM ArgsInvariance == ArgsSpec => []ArgsInv
  <1>1. ArgsInv /\ [ArgsNext]_argVars => ArgsInv'
    BY ParseInv, PanicLaterInv, ArgsStutter DEF ArgsNext, ArgsDone
  <1> QED  BY ArgsInitInv, <1>1, PTL DEF ArgsSpec

(* ArgsTypeOK: every element of argv_init and envp_init stays a place or   *)
(* an environment string, and no store leaves the arrays.                  *)
THEOREM ArgsTypeCorrect == ArgsSpec => []ArgsTypeOK
  BY ArgsInvariance, PTL DEF ArgsInv

(* LoopsEnd: the loops over the two arrays meet a free element.            *)
THEOREM LoopsStop == ArgsSpec => []LoopsEnd
  <1>1. ArgsInv => LoopsEnd
    <2> SUFFICES ASSUME ArgsInv, panic_later = "no" PROVE
                     /\ \E i \in ArgIndex : ArgEnd(i)
                     /\ \E i \in EnvIndex : envp_init[i] = NoEnv
      BY DEF LoopsEnd
    <2> DEFINE Free == {i \in ArgIndex : argv_init[i] = NULL}
    <2>1. Free \subseteq Nat /\ MAX_INIT_ARGS + 1 \in Free
      BY SpareIndex DEF ArgsInv, SpareElement, ArgIndex
    <2>2. PICK i \in Free : \A j \in Free : i <= j
      BY <2>1, Smallest
    <2>3. ArgEnd(i)
      BY <2>1, <2>2, BootArgsAssumption DEF ArgEnd, ArgIndex
    <2> QED  BY <2>3, SpareIndex DEF ArgsInv, SpareElement
  <1> QED  BY <1>1, ArgsInvariance, PTL

(* No option is stored in the element that ends an array. *)
LEMMA SpareEnds == ArgsInv => VectorsEnd
  BY DEF ArgsInv, SpareElement, VectorsEnd

(* VectorsEnd: a kernel that boots hands init two terminated vectors.      *)
THEOREM VectorsTerminated == ArgsSpec => []VectorsEnd
  BY ArgsInvariance, SpareEnds, PTL

-----------------------------------------------------------------------------
(***************************************************************************)
(* What init is given: the arguments.                                      *)
(***************************************************************************)

(* Until the array overflows, the elements before MAX_INIT_ARGS are filled *)
(* from the left with what followed the last init=, in order, and element  *)
(* MAX_INIT_ARGS follows them or is older than that init=.                 *)
ArgsOrder ==
    /\ argv_init[0] = 0 /\ cut <= place /\ words \subseteq 0 .. place
    /\ \A i \in 1 .. MAX_INIT_ARGS : argv_init[i] <= place
    /\ \A i \in 1 .. MAX_INIT_ARGS - 1 : argv_init[i] # NULL => cut < argv_init[i]
    /\ \A i, j \in 1 .. MAX_INIT_ARGS :
           i < j /\ argv_init[i] # NULL /\ cut < argv_init[j] => argv_init[i] < argv_init[j]
    /\ \A i, j \in 1 .. MAX_INIT_ARGS :
           i < j /\ argv_init[i] = NULL => argv_init[j] = NULL \/ argv_init[j] <= cut
    /\ \A w \in words : cut < w => \E i \in 1 .. MAX_INIT_ARGS : argv_init[i] = w

OrderInv == ArgsInv /\ (panic_later = "no" => ArgsOrder)

(* Nothing has been typed: argv_init holds "init" alone. *)
LEMMA OrderInit == ArgsInit => OrderInv
  <1> SUFFICES ASSUME ArgsInit PROVE ArgsOrder
    BY ArgsInitInv DEF OrderInv
  <1>1. MAX_INIT_ARGS \in Nat \ {0}
    BY BootArgsAssumption
  <1>2. /\ argv_init = [i \in ArgIndex |-> IF i = 0 THEN 0 ELSE NULL]
        /\ cut = 0 /\ place = 0 /\ words = {}
    BY DEF ArgsInit
  <1>3. ASSUME NEW i \in ArgIndex PROVE argv_init[i] = IF i = 0 THEN 0 ELSE NULL
    BY <1>2
  <1>4. argv_init[0] = 0 /\ \A i \in 1 .. MAX_INIT_ARGS : argv_init[i] = -1
    BY <1>1, <1>3 DEF ArgIndex, NULL
  <1>5. cut = 0 /\ place = 0 /\ words = {}
    BY <1>2
  <1> QED  BY <1>1, <1>4, <1>5 DEF ArgsOrder, NULL

(* One more word at the end of the list. *)
LEMMA WordKeepsOrder ==
    ASSUME ArgsInv, ArgsOrder, NEW i \in 1 .. MAX_INIT_ARGS, ArgEnd(i),
           place' = place + 1, cut' = cut, words' = words \cup {place'},
           argv_init' = [argv_init EXCEPT ![i] = place']
    PROVE  ArgsOrder'
  <1> DEFINE Index == 1 .. MAX_INIT_ARGS
  <1>1. /\ place \in Nat /\ cut \in Nat /\ MAX_INIT_ARGS \in Nat \ {0}
        /\ \A j \in Index : argv_init[j] \in Int
        /\ 0 \in ArgIndex /\ Index \subseteq ArgIndex
    BY BootArgsAssumption DEF ArgsInv, ArgsTypeOK, Place, ArgIndex, NULL
  <1>2. argv_init'[i] = place + 1 /\ \A j \in Index \cup {0} : j # i => argv_init'[j] = argv_init[j]
    BY <1>1 DEF ArgsInv, ArgsTypeOK
  <1>3. argv_init[i] = NULL /\ \A j \in Index : j < i => argv_init[j] # NULL
    BY <1>1 DEF ArgEnd
  <1>4. argv_init'[0] = 0 /\ cut' <= place' /\ words' \subseteq 0 .. place'
    BY <1>1, <1>2 DEF ArgsOrder
  <1>5. \A j \in Index : argv_init'[j] <= place'
    BY <1>1, <1>2 DEF ArgsOrder
  <1>6. \A j \in 1 .. MAX_INIT_ARGS - 1 : argv_init'[j] # NULL => cut' < argv_init'[j]
    BY <1>1, <1>2 DEF ArgsOrder
  <1>7. \A j, k \in Index :
            j < k /\ argv_init'[j] # NULL /\ cut' < argv_init'[k] => argv_init'[j] < argv_init'[k]
    BY <1>1, <1>2, <1>3 DEF ArgsOrder, NULL
  <1>8. \A j, k \in Index :
            j < k /\ argv_init'[j] = NULL => argv_init'[k] = NULL \/ argv_init'[k] <= cut'
    BY <1>1, <1>2, <1>3 DEF ArgsOrder, NULL
  <1>9. \A w \in words' : cut' < w => \E j \in Index : argv_init'[j] = w
    <2> SUFFICES ASSUME NEW w \in words', cut' < w PROVE \E j \in Index : argv_init'[j] = w
      OBVIOUS
    <2>1. CASE w = place'
      BY <2>1, <1>2
    <2>2. CASE w # place'
      <3>1. PICK j \in Index : argv_init[j] = w
        BY <2>2 DEF ArgsOrder
      <3>2. w # NULL
        BY <1>1 DEF NULL
      <3> QED  BY <3>1, <3>2, <1>2, <1>3
    <2> QED  BY <2>1, <2>2
  <1> QED  BY <1>4, <1>5, <1>6, <1>7, <1>8, <1>9 DEF ArgsOrder

(* init= and rdinit= drop every word but the one at MAX_INIT_ARGS. *)
LEMMA InitKeepsOrder ==
    ASSUME ArgsInv, ArgsOrder, place' = place + 1, cut' = place', words' = words,
           argv_init' = Cleared
    PROVE  ArgsOrder'
  <1>1. /\ place \in Nat /\ MAX_INIT_ARGS \in Nat \ {0}
        /\ \A j \in 1 .. MAX_INIT_ARGS : argv_init[j] \in Int
    BY BootArgsAssumption DEF ArgsInv, ArgsTypeOK, Place, ArgIndex, NULL
  <1>2. /\ argv_init'[0] = argv_init[0]
        /\ argv_init'[MAX_INIT_ARGS] = argv_init[MAX_INIT_ARGS]
        /\ \A j \in 1 .. MAX_INIT_ARGS - 1 : argv_init'[j] = NULL
    BY <1>1 DEF Cleared, ArgIndex
  <1> QED  BY <1>1, <1>2 DEF ArgsOrder, NULL

(* An option that changes neither the arguments nor what the history says. *)
LEMMA OtherKeepsOrder ==
    ASSUME ArgsInv, ArgsOrder, place' \in {place, place + 1}, cut' = cut, words' = words,
           argv_init' = argv_init
    PROVE  ArgsOrder'
  <1>1. /\ place \in Nat /\ MAX_INIT_ARGS \in Nat \ {0}
        /\ \A j \in 1 .. MAX_INIT_ARGS : argv_init[j] \in Int
    BY BootArgsAssumption DEF ArgsInv, ArgsTypeOK, Place, ArgIndex, NULL
  <1>2. cut' <= place' /\ words' \subseteq 0 .. place'
    BY <1>1 DEF ArgsOrder, ArgsInv, ArgsTypeOK, Place
  <1>3. \A i \in 1 .. MAX_INIT_ARGS : argv_init[i] <= place'
    BY <1>1 DEF ArgsOrder
  <1> QED  BY <1>2, <1>3 DEF ArgsOrder

(* Every option keeps the order, or overflows the array. *)
LEMMA OrderNext == OrderInv /\ [ArgsNext]_argVars => OrderInv'
  <1> SUFFICES ASSUME OrderInv, [ArgsNext]_argVars PROVE OrderInv'
    OBVIOUS
  <1>1. ArgsInv'
    BY ParseInv, PanicLaterInv, ArgsStutter DEF OrderInv, ArgsNext, ArgsDone
  <1> SUFFICES ASSUME panic_later' = "no" PROVE ArgsOrder'
    BY <1>1 DEF OrderInv
  <1>2. CASE Word
    <2>1. panic_later = "no"
      BY <1>2 DEF Word, StoreWord, TooMany
    <2>2. PICK i \in ArgIndex :
              /\ ArgEnd(i) /\ ~TooMany(i)
              /\ argv_init' = [argv_init EXCEPT ![i] = place']
      BY <1>2, <2>1 DEF Word, StoreWord
    <2>3. i \in 1 .. MAX_INIT_ARGS
      BY <2>1, <2>2, BootArgsAssumption DEF ArgEnd, TooMany, ArgIndex, OrderInv, ArgsOrder, NULL
    <2> QED  BY <1>2, <2>1, <2>2, <2>3, WordKeepsOrder DEF Word, NextOption, OrderInv
  <1>3. CASE set_init_arg
    <2>1. panic_later = "no"
      BY <1>3 DEF set_init_arg
    <2>2. PICK i \in ArgIndex :
              /\ ArgEnd(i) /\ ~TooMany(i)
              /\ argv_init' = [argv_init EXCEPT ![i] = place']
      BY <1>3, <2>1 DEF set_init_arg
    <2>3. i \in 1 .. MAX_INIT_ARGS
      BY <2>1, <2>2, BootArgsAssumption DEF ArgEnd, TooMany, ArgIndex, OrderInv, ArgsOrder, NULL
    <2> QED  BY <1>3, <2>1, <2>2, <2>3, WordKeepsOrder DEF set_init_arg, NextOption, OrderInv
  <1>4. CASE InitSetup \/ RdinitSetup
    BY <1>4, InitKeepsOrder DEF InitSetup, RdinitSetup, NextOption, OrderInv
  <1>5. \/ Word \/ set_init_arg \/ InitSetup \/ RdinitSetup
        \/ /\ panic_later = "no" /\ place' \in {place, place + 1}
           /\ cut' = cut /\ words' = words /\ argv_init' = argv_init
    <2>1. CASE Consumed \/ BlacklistPanics \/ Dashes \/ Parsed \/ PanicLater \/ UNCHANGED argVars
      BY <2>1 DEF Consumed, BlacklistPanics, Dashes, Parsed, PanicLater, argVars, history,
                  NextOption
    <2>2. \A name, first, quoted : StoreEnv(name, first, quoted) => panic_later = "no"
      BY DEF StoreEnv
    <2>3. CASE SetRodata \/ \E list \in SUBSET Fn : BlacklistInitcall(list)
      BY <2>2, <2>3 DEF SetRodata, BlacklistInitcall, history, NextOption
    <2>4. ASSUME NEW name \in Name, NEW first \in Char, NEW quoted \in BOOLEAN,
                 Setting(name, first, quoted)
          PROVE  /\ panic_later = "no" /\ place' \in {place, place + 1}
                 /\ cut' = cut /\ words' = words /\ argv_init' = argv_init
      BY <2>2, <2>4 DEF Setting, NextOption
    <2> QED  BY <2>1, <2>3, <2>4 DEF ArgsNext, Parse, ArgsDone
  <1> QED  BY <1>2, <1>3, <1>4, <1>5, OtherKeepsOrder DEF OrderInv

(* The order holds of every command line that does not overflow. *)
THEOREM OrderInvariance == ArgsSpec => []OrderInv
  BY OrderInit, OrderNext, PTL DEF ArgsSpec

(* Arrays filled in order are what ArgumentsAsTyped asks for. *)
LEMMA OrderSuffices == OrderInv => ArgumentsAsTyped
  <1>1. ASSUME OrderInv, stage = "booting"
        PROVE  /\ \A w \in words : w > cut => \E i \in ArgIndex : Passed(i) /\ argv_init[i] = w
               /\ \A i \in ArgIndex : Passed(i) /\ i # MAX_INIT_ARGS => cut < argv_init[i]
               /\ \A i, j \in ArgIndex :
                      Passed(i) /\ Passed(j) /\ i < j /\ cut < argv_init[j]
                          => argv_init[i] < argv_init[j]
    <2>1. ArgsOrder /\ argv_init[MAX_INIT_ARGS + 1] = NULL
      BY <1>1 DEF OrderInv, ArgsInv, SpareElement
    <2>2. /\ MAX_INIT_ARGS \in Nat \ {0} /\ cut \in Nat
          /\ \A i \in ArgIndex : argv_init[i] \in Int
          /\ words \subseteq Nat
      BY <1>1, BootArgsAssumption DEF OrderInv, ArgsInv, ArgsTypeOK, Place, NULL
    <2>3. \A i \in ArgIndex : Passed(i) => i \in 1 .. MAX_INIT_ARGS /\ argv_init[i] # NULL
      BY <2>1, <2>2 DEF Passed, ArgIndex
    <2>4. ASSUME NEW w \in words, w > cut
          PROVE  \E i \in ArgIndex : Passed(i) /\ argv_init[i] = w
      <3>1. PICK i \in 1 .. MAX_INIT_ARGS : argv_init[i] = w
        BY <2>1, <2>2, <2>4 DEF ArgsOrder
      <3>2. w # NULL
        BY <2>2 DEF NULL
      <3>3. \A j \in 1 .. i : argv_init[j] # NULL
        BY <2>1, <2>2, <2>4, <3>1, <3>2 DEF ArgsOrder
      <3>4. argv_init[0] # NULL
        BY <2>1 DEF ArgsOrder, NULL
      <3> QED  BY <2>2, <3>1, <3>3, <3>4 DEF Passed, ArgIndex
    <2> QED  BY <2>1, <2>2, <2>3, <2>4 DEF ArgsOrder
  <1> QED  BY <1>1 DEF ArgumentsAsTyped

(* ArgumentsAsTyped: init is given what followed the last init=, in order. *)
THEOREM ArgumentsInOrder == ArgsSpec => []ArgumentsAsTyped
  BY OrderSuffices, OrderInvariance, PTL

-----------------------------------------------------------------------------
(***************************************************************************)
(* What init is given: the environment.                                    *)
(***************************************************************************)

(* Until the array overflows, envp_init has no gaps, and a name that was   *)
(* never quoted is in it once at most, with the value given last.          *)
NoGaps == \A i, j \in EnvIndex : i < j /\ envp_init[i] = NoEnv => envp_init[j] = NoEnv

NamedOnce(n) ==
    ~last[n].quoted =>
        /\ \A i, j \in EnvIndex : envp_init[i].name = n /\ envp_init[j].name = n => i = j
        /\ last[n].at # NULL =>
               \E i \in EnvIndex : envp_init[i].name = n /\ envp_init[i].at = last[n].at

EnvOrder == NoGaps /\ \A n \in Name : NamedOnce(n)
EnvInv   == ArgsInv /\ (panic_later = "no" => EnvOrder)

(* The environment holds HOME and TERM. *)
LEMMA EnvInit == ArgsInit => EnvInv
  <1> SUFFICES ASSUME ArgsInit PROVE EnvOrder
    BY ArgsInitInv DEF EnvInv
  <1>1. \A i \in EnvIndex :
            /\ i \in Nat
            /\ envp_init[i] = IF i = 0 THEN Env("HOME", "/", 0)
                              ELSE IF i = 1 THEN Env("TERM", "l", 0) ELSE NoEnv
    BY BootArgsAssumption DEF ArgsInit, EnvIndex
  <1>2. NoGaps
    BY <1>1 DEF NoGaps, Env, NoEnv
  <1>3. ASSUME NEW n \in Name PROVE NamedOnce(n)
    <2>1. n # "none" /\ last[n].at = NULL
      BY BootArgsAssumption DEF ArgsInit
    <2> QED  BY <1>1, <2>1 DEF NamedOnce, Env, NoEnv
  <1> QED  BY <1>2, <1>3 DEF EnvOrder

(* Where the loop over envp_init stops there is the same name, or nothing. *)
LEMMA EnvStops ==
    ASSUME NEW i \in EnvIndex, NEW name, NEW first, NEW quoted, EnvEnd(i, name, first, quoted)
    PROVE  /\ envp_init[i] = NoEnv \/ envp_init[i].name = name
           /\ \A j \in EnvIndex : j < i =>
                  envp_init[j] # NoEnv /\ (~quoted => envp_init[j].name # name)
  <1>1. \A j \in EnvIndex : j < i => j \in 0 .. i - 1
    BY BootArgsAssumption DEF EnvIndex
  <1> QED  BY <1>1 DEF EnvEnd, SameEnv

(* Storing one more string leaves no gap, and leaves the strings of other  *)
(* names where they are.                                                   *)
LEMMA EnvStored ==
    ASSUME ArgsInv, NoGaps, NEW i \in EnvIndex, NEW name, NEW first, NEW quoted,
           EnvEnd(i, name, first, quoted), name # "none",
           envp_init' = [envp_init EXCEPT ![i] = Env(name, first, place')]
    PROVE  /\ NoGaps'
           /\ envp_init'[i].name = name /\ envp_init'[i].at = place'
           /\ \A j \in EnvIndex : j # i => envp_init'[j] = envp_init[j]
  <1>1. /\ envp_init'[i] = Env(name, first, place')
        /\ \A j \in EnvIndex : j # i => envp_init'[j] = envp_init[j]
    BY DEF ArgsInv, ArgsTypeOK
  <1>2. envp_init'[i].name = name /\ envp_init'[i].at = place' /\ envp_init'[i] # NoEnv
    BY <1>1 DEF Env, NoEnv
  <1>3. envp_init[i] # NoEnv => envp_init[i].name = name
    BY EnvStops
  <1>4. \A j, k \in EnvIndex : j < k /\ envp_init'[j] = NoEnv => envp_init'[k] = NoEnv
    <2> SUFFICES ASSUME NEW j \in EnvIndex, NEW k \in EnvIndex, j < k, envp_init'[j] = NoEnv
                 PROVE  envp_init'[k] = NoEnv
      OBVIOUS
    <2>1. envp_init[j] = NoEnv
      BY <1>1, <1>2
    <2>2. k # i
      BY <2>1, EnvStops
    <2> QED  BY <1>1, <2>1, <2>2 DEF NoGaps
  <1> QED  BY <1>1, <1>2, <1>4 DEF NoGaps

(* The names other than the one stored are where they were. *)
LEMMA OthersStay ==
    ASSUME ArgsInv, NoGaps, NEW i \in EnvIndex, NEW name, NEW first, NEW quoted,
           EnvEnd(i, name, first, quoted), name # "none",
           envp_init' = [envp_init EXCEPT ![i] = Env(name, first, place')],
           NEW n \in Name, n # name, NamedOnce(n), last'[n] = last[n]
    PROVE  NamedOnce(n)'
  <1>1. n # "none"
    BY BootArgsAssumption
  <1>2. /\ envp_init'[i].name = name
        /\ \A j \in EnvIndex : j # i => envp_init'[j] = envp_init[j]
    BY EnvStored
  <1>3. envp_init[i] = NoEnv \/ envp_init[i].name = name
    BY EnvStops
  <1>4. \A j \in EnvIndex : (envp_init'[j].name = n) = (envp_init[j].name = n)
    BY <1>1, <1>2, <1>3 DEF NoEnv
  <1>5. \A j \in EnvIndex : envp_init[j].name = n => envp_init'[j].at = envp_init[j].at
    BY <1>1, <1>2, <1>3 DEF NoEnv
  <1> QED  BY <1>4, <1>5 DEF NamedOnce

(* An option that init sees as a string, but whose name is not followed.   *)
LEMMA SettingKeepsEnv ==
    ASSUME ArgsInv, EnvOrder, panic_later' = "no", NEW name, NEW first, NEW quoted,
           name \notin Name \cup {"none"}, last' = last, StoreEnv(name, first, quoted)
    PROVE  EnvOrder'
  <1>1. PICK i \in EnvIndex :
            /\ EnvEnd(i, name, first, quoted)
            /\ envp_init' = [envp_init EXCEPT ![i] = Env(name, first, place')]
    BY DEF StoreEnv
  <1>2. NoGaps /\ \A n \in Name : NamedOnce(n)
    BY DEF EnvOrder
  <1>3. NoGaps'
    BY <1>1, <1>2, EnvStored
  <1>4. ASSUME NEW n \in Name PROVE NamedOnce(n)'
    BY <1>1, <1>2, OthersStay
  <1> QED  BY <1>3, <1>4 DEF EnvOrder

(* NAME=value, quoted or not. *)
LEMMA SettingNamed ==
    ASSUME ArgsInv, EnvOrder, panic_later' = "no", NEW name \in Name, NEW first \in Char,
           NEW quoted \in BOOLEAN, Setting(name, first, quoted)
    PROVE  EnvOrder'
  <1>1. PICK i \in EnvIndex :
            /\ EnvEnd(i, name, first, quoted)
            /\ envp_init' = [envp_init EXCEPT ![i] = Env(name, first, place')]
    BY DEF Setting, StoreEnv
  <1>2. NoGaps /\ \A n \in Name : NamedOnce(n)
    BY DEF EnvOrder
  <1>3. name # "none"
    BY BootArgsAssumption
  <1>4. NoGaps'
    BY <1>1, <1>2, <1>3, EnvStored
  <1>5. /\ last'[name].at = place' /\ last'[name].quoted = (last[name].quoted \/ quoted)
        /\ \A n \in Name : n # name => last'[n] = last[n]
    BY DEF Setting, ArgsInv, ArgsTypeOK
  <1>6. ASSUME NEW n \in Name, n # name PROVE NamedOnce(n)'
    BY <1>1, <1>2, <1>3, <1>5, <1>6, OthersStay
  <1>7. NamedOnce(name)'
    <2> SUFFICES ASSUME ~last[name].quoted, ~quoted PROVE NamedOnce(name)'
      BY <1>5 DEF NamedOnce
    <2>1. /\ envp_init'[i].name = name /\ envp_init'[i].at = place'
          /\ \A j \in EnvIndex : j # i => envp_init'[j] = envp_init[j]
      BY <1>1, <1>2, <1>3, EnvStored
    <2>2. ASSUME NEW j \in EnvIndex, j # i PROVE envp_init[j].name # name
      <3>1. CASE j < i
        BY <1>1, <3>1, EnvStops
      <3>2. CASE i < j
        <4>1. CASE envp_init[i] = NoEnv
          BY <1>2, <1>3, <3>2, <4>1 DEF NoGaps, NoEnv
        <4>2. CASE envp_init[i].name = name
          BY <1>2, <2>2, <4>2 DEF NamedOnce
        <4> QED  BY <1>1, <4>1, <4>2, EnvStops
      <3> QED  BY <2>2, <3>1, <3>2, BootArgsAssumption DEF EnvIndex
    <2> QED  BY <1>5, <2>1, <2>2 DEF NamedOnce
  <1> QED  BY <1>4, <1>6, <1>7 DEF EnvOrder

(* Every option keeps the environment so, or overflows the array. *)
LEMMA EnvNext == EnvInv /\ [ArgsNext]_argVars => EnvInv'
  <1> SUFFICES ASSUME EnvInv, [ArgsNext]_argVars PROVE EnvInv'
    OBVIOUS
  <1>1. ArgsInv /\ ArgsInv'
    BY ParseInv, PanicLaterInv, ArgsStutter DEF EnvInv, ArgsNext, ArgsDone
  <1> SUFFICES ASSUME panic_later' = "no" PROVE EnvOrder'
    BY <1>1 DEF EnvInv
  <1>2. \A name, first, quoted : StoreEnv(name, first, quoted) => panic_later = "no"
    BY DEF StoreEnv
  <1>3. ASSUME NEW name \in Name, NEW first \in Char, NEW quoted \in BOOLEAN,
               Setting(name, first, quoted)
        PROVE  EnvOrder'
    BY <1>1, <1>2, <1>3, SettingNamed DEF Setting, EnvInv
  <1>4. {"rodata", "initcall_blacklist"} \cap Name = {}
    BY BootArgsAssumption
  <1>5. CASE SetRodata \/ \E list \in SUBSET Fn : BlacklistInitcall(list)
    BY <1>1, <1>2, <1>4, <1>5, SettingKeepsEnv DEF SetRodata, BlacklistInitcall, history, EnvInv
  <1>6. CASE \/ Word \/ Consumed \/ InitSetup \/ RdinitSetup \/ Dashes \/ set_init_arg \/ Parsed
             \/ BlacklistPanics \/ PanicLater \/ UNCHANGED argVars
    <2>1. panic_later = "no" /\ envp_init' = envp_init /\ last' = last
      BY <1>6 DEF Word, StoreWord, Consumed, InitSetup, RdinitSetup, Dashes, set_init_arg, Parsed,
                  BlacklistPanics, PanicLater, argVars, history
    <2> QED  BY <2>1 DEF EnvInv, EnvOrder, NoGaps, NamedOnce
  <1> QED  BY <1>3, <1>5, <1>6 DEF ArgsNext, Parse, ArgsDone

(* The environment is kept so for every command line. *)
THEOREM EnvInvariance == ArgsSpec => []EnvInv
  BY EnvInit, EnvNext, PTL DEF ArgsSpec

(* A name held once is held with its last value. *)
LEMMA EnvSuffices == EnvInv => LastValueWins
  <1>1. ASSUME EnvInv, stage = "booting", NEW n \in Name, last[n].at # NULL, ~last[n].quoted
        PROVE  {envp_init[i].at : i \in {k \in EnvIndex : envp_init[k].name = n}} = {last[n].at}
    <2>1. NamedOnce(n)
      BY <1>1 DEF EnvInv, ArgsInv, SpareElement, EnvOrder
    <2>2. PICK i \in EnvIndex : envp_init[i].name = n /\ envp_init[i].at = last[n].at
      BY <1>1, <2>1 DEF NamedOnce
    <2>3. {k \in EnvIndex : envp_init[k].name = n} = {i}
      BY <1>1, <2>1, <2>2 DEF NamedOnce
    <2> QED  BY <2>2, <2>3
  <1> QED  BY <1>1 DEF LastValueWins

(* LastValueWins: a name that was never quoted is in the environment of    *)
(* init once, with the value given last.                                   *)
THEOREM LastValueStays == ArgsSpec => []LastValueWins
  BY EnvSuffices, EnvInvariance, PTL
=============================================================================
