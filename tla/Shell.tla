-------------------------------- MODULE Shell --------------------------------
(***************************************************************************)
(* The shell of project 0 (simple_shell.c): main reads a line into a       *)
(* buffer that doubles when it is full, process splits it with strtok, and *)
(* run forks a child for it and waits.  The heap may refuse or move a      *)
(* block; after a write through a null or a stale pointer nothing is       *)
(* modelled.                                                               *)
(*                                                                         *)
(* NoSkip, FullLate, InputFreed, AnyChild and OldPid are faulty variants  *)
(* of the definition that follows them; no action uses them.  PROJECT.json *)
(* names the property each one breaks.                                     *)
(***************************************************************************)
EXTENDS Integers, Sequences, FiniteSets, SequencesExt

CONSTANTS Char,     \* the characters that are typed, " " among them
          BUFFER,   \* the default buffer size (1024)
          MaxLine,  \* bound: length of a line
          MaxFork,  \* bound: commands run before the input stops
          MaxOther  \* bound: children the process has when it becomes the shell

txt == " "  \* what strtok takes for a blank

ASSUME ShellAssumption ==
    /\ txt \in Char
    /\ BUFFER \in Nat /\ BUFFER >= 2
    /\ MaxLine \in Nat /\ MaxFork \in Nat /\ MaxOther \in Nat

VARIABLES pc,       \* where main or run is
          buffer,   \* the local variable buffer
          line,     \* the characters in input; Len(line) is count
          input,    \* the block input points to: "none", "live" or "freed"
          command,  \* the same of command
          argv,     \* the entries of command that process has set
          ended,    \* getchar has returned EOF
          child,    \* the child: "none", "running" or "dead", not waited for
          ignored,  \* the shell was started with SIGCHLD ignored
          others,   \* children from before the exec of the shell, not waited for
          forks,    \* number of children so far
          exit      \* how the shell ended: "no", "exit", "grow", "fork" or wildly

family == <<child, ignored, others>>
vars   == <<pc, buffer, line, input, command, argv, ended, family, forks, exit>>

NULL == "NULL"
NUL  == "\\0"
EXIT == <<"e", "x", "i", "t">>

(* A write through a null pointer after malloc or realloc, a write to a    *)
(* block that has moved away, a block freed twice.                         *)
Wild == {"malloc", "realloc", "stale", "double_free"}

(* free(input), free(command). *)
InputFreed == input' = "freed" /\ UNCHANGED command
Freed == input' = "freed" /\ command' = "freed"

(* The string in input ends at the first zero byte. *)
Text(s) ==
    LET i == SelectInSeq(s, LAMBDA c : c = NUL) IN
    IF i = 0 THEN s ELSE SubSeq(s, 1, i - 1)

-----------------------------------------------------------------------------
(***************************************************************************)
(* strtok(input, " "): the tokens are the maximal runs without a blank.    *)
(***************************************************************************)

(* The index of the first character from i on that is, or is not, a blank. *)
NextBlank(s, i)    == SelectInSubSeq(s, i, Len(s), LAMBDA c : c = txt)
NoSkip(s, i)       == IF i <= Len(s) THEN i ELSE 0
NextNonBlank(s, i) == SelectInSubSeq(s, i, Len(s), LAMBDA c : c # txt)

(* What process stores when strtok goes on at index i; then[j] is what it  *)
(* stores when strtok goes on at j.                                        *)
Tokens(s, i, then) ==
    LET from == NextNonBlank(s, i)
        stop == NextBlank(s, from)
    IN  IF from = 0 THEN <<NULL>>
        ELSE IF stop = 0 THEN <<SubSeq(s, from, Len(s)), NULL>>
        ELSE <<SubSeq(s, from, stop - 1)>> \o then[stop + 1]

(* process: command[0], command[1], ... until strtok returns NULL. *)
process(s) == LET tok[i \in 1 .. Len(s) + 1] == Tokens(s, i, tok) IN tok[1]

-----------------------------------------------------------------------------
Init ==
    /\ pc = "prompt" /\ buffer = BUFFER /\ line = <<>>
    /\ input = "none" /\ command = "none" /\ argv = <<>>
    /\ ended = FALSE /\ forks = 0 /\ exit = "no"
    /\ child = "none" /\ ignored \in BOOLEAN /\ others \in 0 .. MaxOther

(* malloc of command and input.  Both are written to before input is       *)
(* compared with NULL.                                                     *)
Prompt(gotCommand, gotInput) ==
    /\ pc = "prompt" /\ forks < MaxFork
    /\ buffer' = BUFFER /\ line' = <<>> /\ argv' = <<>>
    /\ command' = (IF gotCommand THEN "live" ELSE "none")
    /\ input' = (IF gotInput THEN "live" ELSE "none")
    /\ IF gotCommand /\ gotInput
       THEN pc' = "read" /\ UNCHANGED exit
       ELSE pc' = "end" /\ exit' = "malloc"
    /\ UNCHANGED <<ended, family, forks>>

(* "count == buffer". *)
FullLate(n) == n > buffer
Full(n) == n = buffer

(* input[count++] = temp, when that does not fill the buffer. *)
Read(c) ==
    /\ pc = "read" /\ ~ended
    /\ Len(line) < MaxLine /\ ~Full(Len(line) + 1)
    /\ line' = Append(line, c)
    /\ pc' = "compare"
    /\ UNCHANGED <<buffer, input, command, argv, ended, family, forks, exit>>

(* The character fills the buffer, and both blocks are doubled; realloc    *)
(* fails, keeps the block where it is or moves it.  The loop that clears   *)
(* the new half of tempArr also writes a zero to input[tester], tester     *)
(* being the default size, before either result is tested.                 *)
Grow(c, getInput, getCommand) ==
    /\ pc = "read" /\ ~ended
    /\ Len(line) < MaxLine /\ Full(Len(line) + 1)
    /\ line' = LET full == Append(line, c) IN
               IF BUFFER < buffer THEN [full EXCEPT ![BUFFER + 1] = NUL] ELSE full
    /\ buffer' = buffer * 2
    /\ \/ /\ getCommand = "fails"
          /\ pc' = "end" /\ exit' = "realloc"
          /\ UNCHANGED <<input, command>>
       \/ /\ getCommand # "fails" /\ getInput = "moved"
          /\ pc' = "end" /\ exit' = "stale"
          /\ UNCHANGED <<input, command>>
       \/ /\ getCommand # "fails" /\ getInput = "fails"
          /\ Freed
          /\ pc' = "end"
          /\ exit' = IF getCommand = "moved" THEN "double_free" ELSE "grow"
       \/ /\ getCommand # "fails" /\ getInput = "kept"
          /\ pc' = "compare"
          /\ UNCHANGED <<input, command, exit>>
    /\ UNCHANGED <<argv, ended, family, forks>>

(* input[count] = '\0', and the comparison made after every character. *)
Compare ==
    /\ pc = "compare"
    /\ IF Text(line) = EXIT
       THEN pc' = "end" /\ exit' = "exit" /\ Freed
       ELSE pc' = "read" /\ UNCHANGED <<exit, input, command>>
    /\ UNCHANGED <<buffer, line, argv, ended, family, forks>>

(* A newline, or the end of the input, which every later getchar returns   *)
(* again: the line is processed in both cases.                             *)
EndLine(eof) ==
    /\ pc = "read"
    /\ ended => eof
    /\ ended' = eof
    /\ argv' = process(Text(line))
    /\ pc' = "fork"
    /\ UNCHANGED <<buffer, line, input, command, family, forks, exit>>

(* run: fork.  In the child execvp does not return or exit(1) follows, so  *)
(* the child ends either way; command is never NULL, command[0] may be.    *)
Fork ==
    /\ pc = "fork"
    /\ child' = "running" /\ forks' = forks + 1
    /\ pc' = "wait"
    /\ UNCHANGED <<buffer, line, input, command, argv, ended, ignored, others, exit>>

ForkFails ==
    /\ pc = "fork"
    /\ pc' = "end" /\ exit' = "fork"
    /\ UNCHANGED <<buffer, line, input, command, argv, ended, family, forks>>

(* When SIGCHLD is ignored nothing is left of the child to wait for. *)
ChildEnds ==
    /\ child = "running"
    /\ child' = IF ignored THEN "none" ELSE "dead"
    /\ UNCHANGED <<pc, buffer, line, input, command, argv, ended, ignored, others, forks, exit>>

(* wait(&status) returns the child, once it is dead; a child from before   *)
(* the exec; or -1, when there is no child left.                           *)
Returned(who) ==
    /\ who = "pid" => child = "dead"
    /\ who = "other" => others > 0
    /\ who = "-1" => child = "none" /\ others = 0
    /\ child' = IF who = "pid" THEN "none" ELSE child
    /\ others' = IF who = "other" THEN others - 1 ELSE others

(* The loop "while(wait(&status) != pid)" ends. *)
AnyChild(who) == who # "-1"
OldPid(who) == who = "other"
IsPid(who) == who = "pid"

(* One turn of the loop, which goes on for any other answer; and when it   *)
(* ends, the end of run and of the iteration of main.                      *)
Wait(who) ==
    /\ pc = "wait"
    /\ Returned(who)
    /\ IF IsPid(who)
       THEN pc' = "prompt" /\ Freed
       ELSE UNCHANGED <<pc, input, command>>
    /\ UNCHANGED <<buffer, line, argv, ended, ignored, forks, exit>>

(* The shell has ended, or the bound on its commands is reached. *)
Done == (pc = "end" \/ (pc = "prompt" /\ forks = MaxFork)) /\ UNCHANGED vars

Typing == \E c \in Char : \/ Read(c)
                          \/ \E i, k \in {"fails", "kept", "moved"} : Grow(c, i, k)

Working ==
    \/ \E c, i \in BOOLEAN : Prompt(c, i)
    \/ Compare \/ Fork \/ ForkFails
    \/ \E who \in {"pid", "other", "-1"} : Wait(who)

Next == Typing \/ Working \/ ChildEnds \/ Done \/ \E eof \in BOOLEAN : EndLine(eof)

Spec == Init /\ [][Next]_vars

(* The shell is scheduled, lines end, and so do the commands it runs. *)
FairSpec ==
    Spec /\ WF_vars(Working) /\ WF_vars(ChildEnds) /\ WF_vars(\E e \in BOOLEAN : EndLine(e))
-----------------------------------------------------------------------------
(***************************************************************************)
(* Properties.                                                             *)
(***************************************************************************)
(* Whatever is typed, the terminating zero and every entry of command that *)
(* process sets, the NULL included, are inside the blocks: count and the   *)
(* number of tokens stay below buffer however often it has doubled.        *)
ArgumentsFit ==
    exit \notin Wild /\ pc # "prompt" => Len(line) < buffer /\ Len(argv) <= buffer

(* The blocks are allocated while they are in use, and freed on the way    *)
(* back to the prompt, at "exit" and when the shell ends because input     *)
(* could not be made bigger.  A failed fork leaves them to the end of the  *)
(* process; the ways in which a doubling uses or frees a block that has    *)
(* moved, or does not exist, are those of Wild, after which nothing is     *)
(* said.                                                                   *)
BlocksAreFreed ==
    /\ pc \in {"read", "compare", "fork", "wait"} => input = "live" /\ command = "live"
    /\ pc = "prompt" \/ exit \in {"exit", "grow"} => input # "live" /\ command # "live"

(* The shell prompts for the next line only when the child of the last one *)
(* has been waited for, and never has two, although wait may answer with a *)
(* child the process had before.                                           *)
OneChildAtATime == child # "none" => pc = "wait"

(* The words of a command line are the places <<first, last>> of the       *)
(* pieces between blanks, none of them empty or containing a blank.        *)
IsWord(s, first, last) ==
    /\ first <= last /\ \A i \in first .. last : s[i] # txt
    /\ first = 1 \/ s[first - 1] = txt
    /\ last = Len(s) \/ s[last + 1] = txt

Words(s) == {w \in (DOMAIN s) \X (DOMAIN s) : IsWord(s, w[1], w[2])}

(* args are the given words of s, all of them and in order, and a NULL. *)
Lists(args, s, words) ==
    \E word \in [1 .. Len(args) - 1 -> words] :
        /\ \A w \in words : \E n \in DOMAIN word : word[n] = w
        /\ \A m, n \in DOMAIN word : m < n => word[m][2] < word[n][1]
        /\ \A n \in DOMAIN word : args[n] = SubSeq(s, word[n][1], word[n][2])
        /\ args[Len(args)] = NULL

(* strtok called until it returns NULL yields exactly the words of the     *)
(* line, leading, trailing and repeated blanks included.                   *)
ArgvIsWords == pc = "fork" => Lists(argv, Text(line), Words(Text(line)))

(* A line that has been read leads back to the prompt or ends the shell,   *)
(* whatever wait answers in between.  In a shell that was started with     *)
(* SIGCHLD ignored the loop never sees the pid and goes on for ever.       *)
LinesComplete == (pc = "fork" /\ ~ignored) ~> (pc \in {"prompt", "end"})
-----------------------------------------------------------------------------
(***************************************************************************)
(* What the shell's README says and the code does not do.                  *)
(***************************************************************************)

(* "account for small commands as well as crazy large ones" (README.txt,   *)
(* line 7 of project 0): a line of any length is run as typed.  The second *)
(* doubling writes a zero into the middle of it.                           *)
LongLinesAreKept == pc = "fork" => \A i \in DOMAIN line : line[i] # NUL
=============================================================================
