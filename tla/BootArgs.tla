------------------------------- MODULE BootArgs -------------------------------
(***************************************************************************)
(* The kernel command line (project 2/main.c): how the options no kernel   *)
(* parameter claims end up in argv_init and envp_init, the arguments and   *)
(* the environment of the init process.                                    *)
(*                                                                         *)
(* An option is known by the place it has on the command line, counted     *)
(* from 1: argv_init holds places, 0 being the "init" it starts with.      *)
(* parse_args, a library function, hands the options over one by one.      *)
(*                                                                         *)
(* TooManyLate, AlwaysAppend, ClearNothing, ClearPastEnd, RefusedForInit   *)
(* are faulty variants of the definition that follows each; no action uses *)
(* them.  PROJECT.json names the property each one breaks.                 *)
(***************************************************************************)
EXTENDS Integers

CONSTANTS MAX_INIT_ARGS,  \* length of argv_init, less two
          MAX_INIT_ENVS,  \* length of envp_init, less two
          Name,           \* the names of environment options
          Char,           \* the first characters of their values
          Fn,             \* the names of initcalls that may be blacklisted
          MaxOption       \* bound: options on the command line

ASSUME BootArgsAssumption ==
    /\ MAX_INIT_ARGS \in Nat \ {0}
    /\ MAX_INIT_ENVS \in Nat \ {0}
    /\ MaxOption \in Nat
    /\ Name \cap {"none", "initcall_blacklist", "rodata"} = {}

VARIABLES stage,         \* "options", "args" (after "--"), "parsed", "booting", "panic"
          argv_init,
          envp_init,
          panic_later,   \* "no", "init" or "env"
          execute_command,
          ramdisk_execute_command,
          blacklisted,   \* the names on the list blacklisted_initcalls
          place,         \* how many options have been handed over
          cut,           \* history: the place of the last init= or rdinit=
          words,         \* history: the places of the options without a value
          last           \* history: the last value given to a name, and whether
                         \* the name has ever had a quoted value

commands == <<execute_command, ramdisk_execute_command>>
history  == <<cut, words, last>>
argVars  == <<stage, argv_init, envp_init, panic_later, commands, blacklisted, place, history>>

NULL == -1
ArgIndex == 0 .. MAX_INIT_ARGS + 1
EnvIndex == 0 .. MAX_INIT_ENVS + 1

(* An environment string: its name, the first character and its place. *)
NoEnv == [name |-> "none", first |-> "none", at |-> NULL]
Env(name, first, at) == [name |-> name, first |-> first, at |-> at]

ArgsInit ==
    /\ stage = "options"
    /\ argv_init = [i \in ArgIndex |-> IF i = 0 THEN 0 ELSE NULL]
    /\ envp_init = [i \in EnvIndex |-> IF i = 0 THEN Env("HOME", "/", 0)
                                       ELSE IF i = 1 THEN Env("TERM", "l", 0) ELSE NoEnv]
    /\ panic_later = "no"
    /\ execute_command = NULL /\ ramdisk_execute_command = NULL
    /\ blacklisted = {} /\ place = 0
    /\ cut = 0 /\ words = {} /\ last = [n \in Name |-> [at |-> NULL, quoted |-> FALSE]]

-----------------------------------------------------------------------------
(* The index at which "for (i = 0; argv_init[i]; i++)" stops. *)
ArgEnd(i) ==
    /\ i \in ArgIndex /\ argv_init[i] = NULL
    /\ \A j \in 0 .. i - 1 : argv_init[j] # NULL

(* The loop over argv_init has met "i == MAX_INIT_ARGS". *)
TooManyLate(i) == i > MAX_INIT_ARGS + 1
TooMany(i) == i > MAX_INIT_ARGS

(* strncmp(param, envp_init[i], val - param): the name and the "=".  The   *)
(* caller's val still points behind the quote that repair_env_string has   *)
(* removed, so for a quoted value its first character is compared too.     *)
SameEnv(e, name, first, quoted) == e.name = name /\ (quoted => e.first = first)

(* The index at which the loop over envp_init stops. *)
AlwaysAppend(i, name, first, quoted) ==
    /\ i \in EnvIndex /\ envp_init[i] = NoEnv
    /\ \A j \in 0 .. i - 1 : envp_init[j] # NoEnv

EnvEnd(i, name, first, quoted) ==
    LET Stops(j) == envp_init[j] = NoEnv \/ SameEnv(envp_init[j], name, first, quoted) IN
    /\ i \in EnvIndex /\ Stops(i)
    /\ \A j \in 0 .. i - 1 : ~Stops(j)

(* The next option is handed over. *)
NextOption(where) ==
    /\ stage = where /\ place < MaxOption
    /\ place' = place + 1

(* The end of unknown_bootoption, for an option without a value.  When the *)
(* array is full the option is stored all the same, in its last element.   *)
StoreWord ==
    IF panic_later # "no" THEN UNCHANGED <<argv_init, panic_later>>
    ELSE \E i \in ArgIndex :
             /\ ArgEnd(i)
             /\ argv_init' = [argv_init EXCEPT ![i] = place']
             /\ panic_later' = IF TooMany(i) THEN "init" ELSE panic_later

(* The same for an option with a value; "i == MAX_INIT_ENVS" is tested     *)
(* before the names are compared.                                          *)
StoreEnv(name, first, quoted) ==
    IF panic_later # "no" THEN UNCHANGED <<envp_init, panic_later>>
    ELSE \E i \in EnvIndex :
             /\ EnvEnd(i, name, first, quoted)
             /\ envp_init' = [envp_init EXCEPT ![i] = Env(name, first, place')]
             /\ panic_later' = IF i >= MAX_INIT_ENVS /\ envp_init[MAX_INIT_ENVS] # NoEnv
                               THEN "env" ELSE panic_later

(* unknown_bootoption: an option without a value. *)
Word ==
    /\ NextOption("options")
    /\ StoreWord
    /\ words' = words \cup {place'}
    /\ UNCHANGED <<stage, envp_init, commands, blacklisted, cut, last>>

(* unknown_bootoption: an option with a value. *)
Setting(name, first, quoted) ==
    /\ NextOption("options")
    /\ StoreEnv(name, first, quoted)
    /\ last' = [last EXCEPT ![name] = [at |-> place', quoted |-> @.quoted \/ quoted]]
    /\ UNCHANGED <<stage, argv_init, commands, blacklisted, cut, words>>

(* obsolete_checksetup returns true (an early parameter, an obsolete one,  *)
(* a __setup function that returns 1, such as reset_devices), or the       *)
(* option has a dot: a parameter of a module that is not loaded yet.       *)
Consumed ==
    /\ NextOption("options")
    /\ UNCHANGED <<stage, argv_init, envp_init, panic_later, commands, blacklisted, history>>

(* initcall_blacklist and set_debug_rodata return 0 when they have done    *)
(* their work, so obsolete_checksetup goes on and returns false, and the   *)
(* option is an environment string of init as well.  The value of the      *)
(* first is a list of names; names of no initcall add nothing to it.       *)
BlacklistInitcall(list) ==
    /\ NextOption("options")
    /\ blacklisted' = blacklisted \cup list
    /\ StoreEnv("initcall_blacklist", "none", FALSE)
    /\ UNCHANGED <<stage, argv_init, commands, history>>

(* There is no memory for a name of the list. *)
BlacklistPanics ==
    /\ NextOption("options")
    /\ stage' = "panic"
    /\ UNCHANGED <<argv_init, envp_init, panic_later, commands, blacklisted, history>>

SetRodata ==
    /\ NextOption("options")
    /\ StoreEnv("rodata", "none", FALSE)
    /\ UNCHANGED <<stage, argv_init, commands, blacklisted, history>>

(* "for (i = 1; i < MAX_INIT_ARGS; i++) argv_init[i] = NULL". *)
ClearNothing == argv_init
ClearPastEnd == [i \in 0 .. MAX_INIT_ARGS + 2 |-> IF i \in 1 .. MAX_INIT_ARGS - 1 THEN NULL
                                                  ELSE IF i \in ArgIndex THEN argv_init[i]
                                                  ELSE NULL]
Cleared == [i \in ArgIndex |-> IF i \in 1 .. MAX_INIT_ARGS - 1 THEN NULL ELSE argv_init[i]]

(* init_setup and rdinit_setup. *)
InitSetup ==
    /\ NextOption("options")
    /\ execute_command' = place'
    /\ argv_init' = Cleared /\ cut' = place'
    /\ UNCHANGED <<stage, envp_init, panic_later, ramdisk_execute_command, blacklisted,
                   words, last>>

RdinitSetup ==
    /\ NextOption("options")
    /\ ramdisk_execute_command' = place'
    /\ argv_init' = Cleared /\ cut' = place'
    /\ UNCHANGED <<stage, envp_init, panic_later, execute_command, blacklisted, words, last>>

(* "--": what follows goes to set_init_arg. *)
Dashes ==
    /\ stage = "options"
    /\ stage' = "args"
    /\ UNCHANGED <<argv_init, envp_init, panic_later, commands, blacklisted, place, history>>

(* set_init_arg; when the array is full the option is not stored. *)
set_init_arg ==
    /\ NextOption("args")
    /\ IF panic_later # "no" THEN UNCHANGED <<argv_init, panic_later>>
       ELSE \E i \in ArgIndex :
                /\ ArgEnd(i)
                /\ IF TooMany(i)
                   THEN panic_later' = "init" /\ UNCHANGED argv_init
                   ELSE argv_init' = [argv_init EXCEPT ![i] = place'] /\ UNCHANGED panic_later
    /\ words' = words \cup {place'}
    /\ UNCHANGED <<stage, envp_init, commands, blacklisted, cut, last>>

(* The command line has been read. *)
Parsed ==
    /\ stage \in {"options", "args"}
    /\ stage' = "parsed"
    /\ UNCHANGED <<argv_init, envp_init, panic_later, commands, blacklisted, place, history>>

(* "if (panic_later) panic(...)", once the console can show it. *)
RefusedForInit == panic_later = "init"
Refused == panic_later # "no"

PanicLater ==
    /\ stage = "parsed"
    /\ stage' = IF Refused THEN "panic" ELSE "booting"
    /\ UNCHANGED <<argv_init, envp_init, panic_later, commands, blacklisted, place, history>>

Parse ==
    \/ Word \/ Consumed \/ SetRodata \/ InitSetup \/ RdinitSetup \/ Dashes \/ set_init_arg
    \/ \E name \in Name, first \in Char, quoted \in BOOLEAN : Setting(name, first, quoted)
    \/ \E list \in SUBSET Fn : BlacklistInitcall(list)
    \/ BlacklistPanics \/ Parsed

ArgsDone == stage \in {"booting", "panic"} /\ UNCHANGED argVars

ArgsNext == Parse \/ PanicLater \/ ArgsDone

ArgsSpec == ArgsInit /\ [][ArgsNext]_argVars
-----------------------------------------------------------------------------
(***************************************************************************)
(* Properties.                                                             *)
(***************************************************************************)
Names == Name \cup {"HOME", "TERM", "initcall_blacklist", "rodata", "none"}
Place == 0 .. MaxOption

ArgsTypeOK ==
    /\ stage \in {"options", "args", "parsed", "booting", "panic"}
    /\ argv_init \in [ArgIndex -> Place \cup {NULL}]
    /\ envp_init \in [EnvIndex -> [name : Names, first : Char \cup {"/", "l", "none"},
                                   at : Place \cup {NULL}]]
    /\ panic_later \in {"no", "init", "env"}
    /\ execute_command \in Place \cup {NULL}
    /\ ramdisk_execute_command \in Place \cup {NULL}
    /\ blacklisted \subseteq Fn
    /\ place \in Place /\ cut \in Place /\ words \subseteq Place
    /\ last \in [Name -> [at : Place \cup {NULL}, quoted : BOOLEAN]]

(* The loops over argv_init and envp_init end inside the arrays: as long   *)
(* as an option may still be stored there is an element for it.            *)
LoopsEnd ==
    panic_later = "no" =>
        /\ \E i \in ArgIndex : ArgEnd(i)
        /\ \E i \in EnvIndex : envp_init[i] = NoEnv

(* A kernel that goes on booting hands init arrays that end with NULL:     *)
(* the element an overflow uses is never part of them.                     *)
VectorsEnd ==
    stage = "booting" =>
        argv_init[MAX_INIT_ARGS + 1] = NULL /\ envp_init[MAX_INIT_ENVS + 1] = NoEnv

(* What execve takes from argv_init: the places before the first NULL. *)
Passed(i) == i \in ArgIndex \ {0} /\ \A j \in 0 .. i : argv_init[j] # NULL

(* "So we ignore all arguments entered _before_ init=...": init is given   *)
(* every option without a value that follows the last init= or rdinit=, in *)
(* order, and no earlier one, except that init_setup leaves the element    *)
(* MAX_INIT_ARGS as it is, so one earlier option may follow at that index. *)
ArgumentsAsTyped ==
    stage = "booting" =>
        /\ \A w \in words : w > cut => \E i \in ArgIndex : Passed(i) /\ argv_init[i] = w
        /\ \A i \in ArgIndex : Passed(i) /\ i # MAX_INIT_ARGS => cut < argv_init[i]
        /\ \A i, j \in ArgIndex :
               Passed(i) /\ Passed(j) /\ i < j /\ cut < argv_init[j]
                   => argv_init[i] < argv_init[j]

(* A name whose values were never quoted is in the environment of init     *)
(* once, with the value given last.                                        *)
LastValueWins ==
    stage = "booting" =>
        \A n \in Name :
            last[n].at # NULL /\ ~last[n].quoted =>
                {envp_init[i].at : i \in {k \in EnvIndex : envp_init[k].name = n}} = {last[n].at}
=============================================================================
