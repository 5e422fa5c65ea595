----------------------------- MODULE ShellProofs -----------------------------
(***************************************************************************)
(* Proofs about Shell, for every alphabet, buffer size and line length.    *)
(***************************************************************************)
EXTENDS Shell, SequenceTheorems, WellFoundedInduction, TLAPS

Places == {"prompt", "read", "compare", "fork", "wait", "end"}

(* Where the shell is, what it has allocated and what it waits for.  The   *)
(* exit is decided where the blocks are: a shell that has not ended has    *)
(* none, and one that ends by "exit" or "grow" has freed both.             *)
ShellInv ==
    /\ pc \in Places
    /\ pc # "end" <=> exit = "no"
    /\ child # "none" => pc = "wait"
    /\ pc \in {"read", "compare", "fork", "wait"} => input = "live" /\ command = "live"
    /\ pc = "prompt" \/ exit \in {"exit", "grow"} => input # "live" /\ command # "live"

(* The shell starts without blocks and without a child. *)
LEMMA ShellInitInv == Init => ShellInv
  BY DEF Init, ShellInv, Places

(* Every step of main, of run and of the child keeps the invariant. *)
LEMMA ShellNextInv == ShellInv /\ [Next]_vars => ShellInv'
  <1> SUFFICES ASSUME ShellInv, [Next]_vars PROVE ShellInv'
    OBVIOUS
  <1> USE DEF ShellInv, Places
  <1>1. ASSUME NEW c \in BOOLEAN, NEW i \in BOOLEAN, Prompt(c, i) PROVE ShellInv'
    BY <1>1 DEF Prompt, family
  <1>2. ASSUME NEW c \in Char, Read(c) PROVE ShellInv'
    BY <1>2 DEF Read, family
  <1>3. ASSUME NEW c \in Char, NEW i \in {"fails", "kept", "moved"},
               NEW k \in {"fails", "kept", "moved"}, Grow(c, i, k)
        PROVE  ShellInv'
    BY <1>3 DEF Grow, Freed, family
  <1>4. CASE Compare
    BY <1>4 DEF Compare, Freed, family
  <1>5. ASSUME NEW eof \in BOOLEAN, EndLine(eof) PROVE ShellInv'
    BY <1>5 DEF EndLine, family
  <1>6. CASE Fork \/ ForkFails \/ ChildEnds
    BY <1>6 DEF Fork, ForkFails, ChildEnds, family
  <1>7. ASSUME NEW who \in {"pid", "other", "-1"}, Wait(who) PROVE ShellInv'
    BY <1>7 DEF Wait, Returned, IsPid, Freed
  <1>8. CASE UNCHANGED vars
    BY <1>8 DEF vars, family
  <1> QED  BY <1>1, <1>2, <1>3, <1>4, <1>5, <1>6, <1>7, <1>8 DEF Next, Typing, Working, Done

(* The invariant of the shell, for every input. *)
THEOREM ShellInvariance == Spec => []ShellInv
  BY ShellInitInv, ShellNextInv, PTL DEF Spec

(* OneChildAtATime: every child is waited for before the next prompt.      *)
THEOREM ChildrenReaped == Spec => []OneChildAtATime
  <1>1. ShellInv => OneChildAtATime
    BY DEF ShellInv, OneChildAtATime
  <1> QED  BY <1>1, ShellInvariance, PTL

(* BlocksAreFreed: input and command are allocated while they are used,    *)
(* and freed on the way back to the prompt, at "exit" and when input could *)
(* not be made bigger.                                                     *)
THEOREM BlocksFreed == Spec => []BlocksAreFreed
  <1>1. ShellInv => BlocksAreFreed
    BY DEF ShellInv, BlocksAreFreed
  <1> QED  BY <1>1, ShellInvariance, PTL

-----------------------------------------------------------------------------
(***************************************************************************)
(* What strtok and process compute, for every line.                        *)
(***************************************************************************)

(* A nonempty set of natural numbers has a least element. *)
LEMMA Smallest ==
    ASSUME NEW S \in SUBSET Nat, S # {}
    PROVE  \E i \in S : \A j \in S : i <= j
  <1> DEFINE Less == {ss \in Nat \X Nat : ss[1] < ss[2]}
  <1>1. IsWellFoundedOn(Less, Nat)
    BY NatLessThanWellFounded, Zenon DEF OpToRel
  <1> HIDE DEF Less
  <1>2. PICK i \in S : \A j \in S : ~(<<j, i>> \in Less)
    BY <1>1, WFMin
  <1>3. \A j \in S : ~(j < i)
    BY <1>2 DEF Less
  <1> QED  BY <1>3

(* A set that has every index the indices above it imply has all of them:  *)
(* the induction, from the end of the line to its start, that follows.     *)
LEMMA FromTheEnd ==
    ASSUME NEW n \in Nat, NEW S,
           \A i \in 1 .. n : (\A j \in i + 1 .. n : j \in S) => i \in S
    PROVE  \A i \in 1 .. n : i \in S
  <1> DEFINE Missing == {k \in 0 .. n - 1 : n - k \notin S}
  <1> SUFFICES ASSUME Missing # {} PROVE FALSE
    <2>1. \A i \in 1 .. n : n - i \in 0 .. n - 1 /\ n - (n - i) = i
      OBVIOUS
    <2> QED  BY <2>1
  <1>1. Missing \in SUBSET Nat
    OBVIOUS
  <1>2. PICK k \in Missing : \A j \in Missing : k <= j
    BY <1>1, Smallest
  <1>3. k \in 0 .. n - 1 /\ n - k \notin S
    OBVIOUS
  <1>4. ASSUME NEW j \in n - k + 1 .. n PROVE j \in S
    <2>1. n - j \in 0 .. n - 1 /\ n - j < k /\ n - (n - j) = j
      BY <1>3
    <2> QED  BY <1>2, <2>1
  <1> QED  BY <1>3, <1>4

(* The first element of a set of natural numbers. *)
LEMMA MinIs ==
    ASSUME NEW S \in SUBSET Nat, S # {}
    PROVE  Min(S) \in S /\ \A j \in S : Min(S) <= j
  BY Smallest DEF Min

(* What input may hold. *)
Byte == Char \cup {NUL}

(* The next blank is the first one from i on, if there is one. *)
LEMMA NextBlankIs ==
    ASSUME NEW s \in Seq(Byte), NEW i \in Nat \ {0}
    PROVE  \/ NextBlank(s, i) = 0 /\ \A k \in i .. Len(s) : s[k] # txt
           \/ /\ NextBlank(s, i) \in i .. Len(s) /\ s[NextBlank(s, i)] = txt
              /\ \A k \in i .. NextBlank(s, i) - 1 : s[k] # txt
  <1> DEFINE I == {k \in i .. Len(s) : s[k] = txt}
  <1>1. NextBlank(s, i) = IF I # {} THEN Min(I) ELSE 0
    BY DEF NextBlank, SelectInSubSeq
  <1>2. I \in SUBSET Nat
    OBVIOUS
  <1>3. CASE I = {}
    BY <1>1, <1>3
  <1>4. CASE I # {}
    <2>1. NextBlank(s, i) \in I /\ \A j \in I : NextBlank(s, i) <= j
      BY <1>1, <1>2, <1>4, MinIs
    <2> QED  BY <2>1
  <1> QED  BY <1>3, <1>4

(* The next character that is not a blank is the first one from i on. *)
LEMMA NextNonBlankIs ==
    ASSUME NEW s \in Seq(Byte), NEW i \in Nat \ {0}
    PROVE  \/ NextNonBlank(s, i) = 0 /\ \A k \in i .. Len(s) : s[k] = txt
           \/ /\ NextNonBlank(s, i) \in i .. Len(s) /\ s[NextNonBlank(s, i)] # txt
              /\ \A k \in i .. NextNonBlank(s, i) - 1 : s[k] = txt
  <1> DEFINE I == {k \in i .. Len(s) : s[k] # txt}
  <1>1. NextNonBlank(s, i) = IF I # {} THEN Min(I) ELSE 0
    BY DEF NextNonBlank, SelectInSubSeq
  <1>2. I \in SUBSET Nat
    OBVIOUS
  <1>3. CASE I = {}
    BY <1>1, <1>3
  <1>4. CASE I # {}
    <2>1. NextNonBlank(s, i) \in I /\ \A j \in I : NextNonBlank(s, i) <= j
      BY <1>1, <1>2, <1>4, MinIs
    <2> QED  BY <2>1
  <1> QED  BY <1>3, <1>4

(* What is stored at i depends on what is stored further on alone. *)
LEMMA TokensAgree ==
    ASSUME NEW s \in Seq(Byte), NEW i \in 1 .. Len(s) + 1, NEW g, NEW h,
           \A j \in i + 1 .. Len(s) + 1 : g[j] = h[j]
    PROVE  Tokens(s, i, g) = Tokens(s, i, h)
  <1> DEFINE from == NextNonBlank(s, i)
             stop == NextBlank(s, from)
  <1>1. CASE from = 0 \/ stop = 0
    BY <1>1 DEF Tokens
  <1>2. CASE from # 0 /\ stop # 0
    <2>1. from \in i .. Len(s)
      BY <1>2, NextNonBlankIs
    <2>2. stop \in from .. Len(s)
      BY <1>2, <2>1, NextBlankIs
    <2>3. g[stop + 1] = h[stop + 1]
      BY <2>1, <2>2
    <2> QED  BY <2>3 DEF Tokens
  <1> QED  BY <1>1, <1>2

(* The recursion of process has a solution. *)
LEMMA TokensExist ==
    ASSUME NEW s \in Seq(Byte)
    PROVE  \E tok : tok = [i \in 1 .. Len(s) + 1 |-> Tokens(s, i, tok)]
  <1> DEFINE n == Len(s) + 1
             Solves(g, k) == \A i \in k .. n : g[i] = Tokens(s, i, g)
             Solved == {k \in 1 .. n : \E g : Solves(g, k)}
  <1>1. ASSUME NEW k \in 1 .. n, \A j \in k + 1 .. n : j \in Solved PROVE k \in Solved
    <2>1. PICK g : Solves(g, k + 1)
      <3>1. CASE k = n
        BY <3>1
      <3>2. CASE k # n
        <4>1. k + 1 \in k + 1 .. n
          BY <3>2
        <4>2. k + 1 \in Solved
          <5> HIDE DEF Solved, n
          <5> QED  BY <1>1, <4>1
        <4> QED  BY <4>2
      <3> QED  BY <3>1, <3>2
    <2> DEFINE h == [i \in k .. n |-> IF i = k THEN Tokens(s, k, g) ELSE g[i]]
    <2>2. \A i \in k + 1 .. n : h[i] = g[i]
      OBVIOUS
    <2>3. h[k] = Tokens(s, k, g)
      OBVIOUS
    <2> HIDE DEF h
    <2>4. ASSUME NEW i \in k .. n PROVE h[i] = Tokens(s, i, h)
      <3>1. i \in 1 .. n /\ \A j \in i + 1 .. n : g[j] = h[j]
        BY <2>2
      <3>2. Tokens(s, i, g) = Tokens(s, i, h)
        BY <3>1, TokensAgree
      <3> QED  BY <2>1, <2>2, <2>3, <3>2
    <2> QED  BY <2>4
  <1>2. n \in Nat
    OBVIOUS
  <1>3. \A i \in 1 .. n : i \in Solved
    <2> HIDE DEF Solved, n
    <2> QED  BY <1>1, <1>2, FromTheEnd
  <1>4. PICK g : Solves(g, 1)
    BY <1>3
  <1> DEFINE tok == [i \in 1 .. n |-> g[i]]
  <1>5. ASSUME NEW i \in 1 .. n PROVE tok[i] = Tokens(s, i, tok)
    <2>1. \A j \in i + 1 .. n : g[j] = tok[j]
      OBVIOUS
    <2> HIDE DEF tok
    <2>2. Tokens(s, i, g) = Tokens(s, i, tok)
      BY <2>1, TokensAgree
    <2> QED  BY <1>4, <2>2 DEF tok
  <1>6. tok = [i \in 1 .. n |-> Tokens(s, i, tok)]
    BY <1>5
  <1> QED  BY <1>6

(* process is that solution, at the start of the line. *)
LEMMA ProcessIs ==
    ASSUME NEW s \in Seq(Byte)
    PROVE  \E tok : /\ process(s) = tok[1]
                    /\ \A i \in 1 .. Len(s) + 1 : tok[i] = Tokens(s, i, tok)
  <1> DEFINE Solution(g) == g = [i \in 1 .. Len(s) + 1 |-> Tokens(s, i, g)]
             tok == CHOOSE g : Solution(g)
  <1>1. process(s) = tok[1]
    BY DEF process
  <1>2. Solution(tok)
    BY TokensExist
  <1>3. \A i \in 1 .. Len(s) + 1 : tok[i] = Tokens(s, i, tok)
    <2> HIDE DEF tok
    <2> QED  BY <1>2
  <1> QED  BY <1>1, <1>3

-----------------------------------------------------------------------------
(***************************************************************************)
(* The tokens are the words.                                               *)
(***************************************************************************)

(* The words from index i on. *)
WordsFrom(s, i) == {w \in Words(s) : w[1] >= i}

(* strtok goes on at the start of the line or behind a blank. *)
Boundary(s, i) == i = 1 \/ s[i - 1] = txt

(* What process may store: a piece of the line, or NULL. *)
Pieces == Seq(Byte) \cup {NULL}

(* Only blanks are left. *)
LEMMA NoMoreWords ==
    ASSUME NEW s \in Seq(Byte), NEW i \in 1 .. Len(s) + 1, NextNonBlank(s, i) = 0
    PROVE  WordsFrom(s, i) = {}
  <1>1. \A k \in i .. Len(s) : s[k] = txt
    BY NextNonBlankIs
  <1>2. ASSUME NEW w \in WordsFrom(s, i) PROVE FALSE
    <2>1. w[1] \in i .. Len(s) /\ w[2] \in 1 .. Len(s) /\ w[1] <= w[2] /\ s[w[1]] # txt
      BY DEF WordsFrom, Words, IsWord
    <2> QED  BY <1>1, <2>1
  <1> QED  BY <1>2

(* No blank follows the word that starts next. *)
LEMMA LastWord ==
    ASSUME NEW s \in Seq(Byte), NEW i \in 1 .. Len(s) + 1, Boundary(s, i),
           NEW from, from = NextNonBlank(s, i), from # 0, NextBlank(s, from) = 0
    PROVE  WordsFrom(s, i) = {<<from, Len(s)>>}
  <1>1. /\ from \in i .. Len(s) /\ s[from] # txt
        /\ \A k \in i .. from - 1 : s[k] = txt
    BY NextNonBlankIs
  <1>2. \A k \in from .. Len(s) : s[k] # txt
    BY <1>1, NextBlankIs
  <1>3. <<from, Len(s)>> \in WordsFrom(s, i)
    <2>1. from = 1 \/ s[from - 1] = txt
      BY <1>1 DEF Boundary
    <2> QED  BY <1>1, <1>2, <2>1 DEF WordsFrom, Words, IsWord
  <1>4. ASSUME NEW a \in 1 .. Len(s), NEW b \in 1 .. Len(s), a >= i, IsWord(s, a, b)
        PROVE  a = from /\ b = Len(s)
    <2>1. a <= b /\ s[a] # txt /\ (a = 1 \/ s[a - 1] = txt) /\ (b = Len(s) \/ s[b + 1] = txt)
      BY <1>4 DEF IsWord
    <2>2. a >= from
      BY <1>1, <1>4, <2>1
    <2>3. a = from
      <3>1. a # from => a - 1 \in from .. Len(s) /\ a # 1
        BY <1>1, <2>2
      <3> QED  BY <1>2, <2>1, <3>1
    <2>4. b = Len(s)
      <3>1. b # Len(s) => b + 1 \in from .. Len(s)
        BY <1>1, <2>1, <2>3
      <3> QED  BY <1>2, <2>1, <3>1
    <2> QED  BY <2>3, <2>4
  <1> QED  BY <1>3, <1>4 DEF WordsFrom, Words

(* The word that starts next ends before a blank, and the others follow.   *)
LEMMA FirstWord ==
    ASSUME NEW s \in Seq(Byte), NEW i \in 1 .. Len(s) + 1, Boundary(s, i),
           NEW from, from = NextNonBlank(s, i), from # 0,
           NEW stop, stop = NextBlank(s, from), stop # 0
    PROVE  WordsFrom(s, i) = {<<from, stop - 1>>} \cup WordsFrom(s, stop + 1)
  <1>1. /\ from \in i .. Len(s) /\ s[from] # txt
        /\ \A k \in i .. from - 1 : s[k] = txt
    BY NextNonBlankIs
  <1>2. /\ stop \in from .. Len(s) /\ s[stop] = txt
        /\ \A k \in from .. stop - 1 : s[k] # txt
    BY <1>1, NextBlankIs
  <1>3. from < stop
    BY <1>1, <1>2
  <1>4. <<from, stop - 1>> \in WordsFrom(s, i)
    <2>1. from = 1 \/ s[from - 1] = txt
      BY <1>1 DEF Boundary
    <2> QED  BY <1>1, <1>2, <1>3, <2>1 DEF WordsFrom, Words, IsWord
  <1>5. ASSUME NEW a \in 1 .. Len(s), NEW b \in 1 .. Len(s), a >= i, IsWord(s, a, b),
               ~(a >= stop + 1)
        PROVE  a = from /\ b = stop - 1
    <2>1. /\ a <= b /\ s[a] # txt /\ (a = 1 \/ s[a - 1] = txt) /\ (b = Len(s) \/ s[b + 1] = txt)
          /\ \A k \in a .. b : s[k] # txt
      BY <1>5 DEF IsWord
    <2>2. a >= from /\ a # stop
      <3>1. a < from => a \in i .. from - 1
        BY <1>1, <1>5
      <3>2. ~(a < from)
        BY <1>1, <2>1, <3>1
      <3> QED  BY <1>1, <1>2, <2>1, <3>2
    <2>3. a < stop
      BY <1>1, <1>2, <1>5, <2>2
    <2>4. a = from
      <3>1. a > from => a - 1 \in from .. stop - 1 /\ a # 1
        BY <1>1, <1>2, <2>3
      <3>2. ~(a > from)
        BY <1>2, <2>1, <3>1
      <3> QED  BY <1>1, <2>2, <3>2
    <2>5. b < stop
      <3>1. b >= stop => stop \in a .. b
        BY <1>1, <1>2, <2>3
      <3> QED  BY <1>1, <1>2, <2>1, <3>1
    <2>6. b = stop - 1
      <3>1. b # stop - 1 => b # Len(s) /\ b + 1 \in from .. stop - 1
        BY <1>1, <1>2, <2>1, <2>4, <2>5
      <3> QED  BY <1>2, <2>1, <3>1
    <2> QED  BY <2>4, <2>6
  <1>6. stop + 1 \in Nat /\ \A a \in 1 .. Len(s) : a >= stop + 1 => a >= i
    BY <1>1, <1>2
  <1>7. WordsFrom(s, stop + 1) \subseteq WordsFrom(s, i)
    BY <1>6 DEF WordsFrom, Words
  <1>8. \A w \in WordsFrom(s, i) : w \in {<<from, stop - 1>>} \cup WordsFrom(s, stop + 1)
    BY <1>5 DEF WordsFrom, Words
  <1> QED  BY <1>4, <1>7, <1>8

(* A list of two. *)
LEMMA PairIs == ASSUME NEW x, NEW y PROVE <<x>> \o <<y>> = <<x, y>>
  <1> DEFINE p == <<x>> \o <<y>>
             q == <<x, y>>
  <1>1. <<x>> \in Seq({x, y}) /\ <<y>> \in Seq({x, y}) /\ q \in Seq({x, y})
    OBVIOUS
  <1>2. p \in Seq({x, y}) /\ Len(p) = 2 /\ p[1] = x /\ p[2] = y
    BY <1>1
  <1>3. Len(q) = 2 /\ q[1] = x /\ q[2] = y
    OBVIOUS
  <1> HIDE DEF p, q
  <1>4. p = q
    BY <1>1, <1>2, <1>3, SeqEqual
  <1> QED  BY <1>4 DEF p, q

(* No word: the list is NULL alone. *)
LEMMA ListsNone == ASSUME NEW s PROVE Lists(<<NULL>>, s, {})
  <1> DEFINE word == [n \in 1 .. 0 |-> <<1, 1>>]
  <1>1. word \in [1 .. Len(<<NULL>>) - 1 -> {}]
    OBVIOUS
  <1> QED  BY <1>1 DEF Lists

(* One word in front of a list of words that follow it. *)
LEMMA ListsOneMore ==
    ASSUME NEW s \in Seq(Byte), NEW a \in 1 .. Len(s), NEW b \in 1 .. Len(s),
           NEW args \in Seq(Pieces), Len(args) >= 1,
           NEW rest \in SUBSET (Nat \X Nat), \A w \in rest : b < w[1],
           Lists(args, s, rest)
    PROVE  Lists(<<SubSeq(s, a, b)>> \o args, s, {<<a, b>>} \cup rest)
  <1> DEFINE more == <<SubSeq(s, a, b)>> \o args
             words == {<<a, b>>} \cup rest
  <1>1. PICK word \in [1 .. Len(args) - 1 -> rest] :
            /\ \A w \in rest : \E n \in 1 .. Len(args) - 1 : word[n] = w
            /\ \A m, n \in 1 .. Len(args) - 1 : m < n => word[m][2] < word[n][1]
            /\ \A n \in 1 .. Len(args) - 1 : args[n] = SubSeq(s, word[n][1], word[n][2])
            /\ args[Len(args)] = NULL
    BY DEF Lists
  <1>2. /\ Len(more) = Len(args) + 1 /\ more[1] = SubSeq(s, a, b)
        /\ \A n \in 2 .. Len(args) + 1 : more[n] = args[n - 1]
    <2>1. SubSeq(s, a, b) \in Pieces
      BY DEF Pieces
    <2> QED  BY <2>1
  <1> DEFINE with == [n \in 1 .. Len(args) |-> IF n = 1 THEN <<a, b>> ELSE word[n - 1]]
  <1>3. /\ with[1] = <<a, b>> /\ DOMAIN with = 1 .. Len(args)
        /\ \A n \in 2 .. Len(args) : with[n] = word[n - 1] /\ with[n] \in rest
    <2>1. \A n \in 2 .. Len(args) : n # 1 /\ n \in 1 .. Len(args) /\ n - 1 \in 1 .. Len(args) - 1
      OBVIOUS
    <2>2. \A n \in 2 .. Len(args) : with[n] = word[n - 1]
      BY <2>1
    <2>3. \A n \in 1 .. Len(args) - 1 : word[n] \in rest
      OBVIOUS
    <2>4. with[1] = <<a, b>> /\ DOMAIN with = 1 .. Len(args)
      OBVIOUS
    <2> HIDE DEF with
    <2> QED  BY <2>1, <2>2, <2>3, <2>4
  <1> HIDE DEF with, more
  <1>4. with \in [1 .. Len(more) - 1 -> words]
    <2>1. \A n \in 1 .. Len(args) : n = 1 \/ n \in 2 .. Len(args)
      OBVIOUS
    <2>2. \A n \in 1 .. Len(args) : with[n] \in words
      BY <1>3, <2>1
    <2>3. with = [n \in 1 .. Len(args) |-> with[n]]
      BY DEF with
    <2> QED  BY <1>2, <2>2, <2>3
  <1>5. \A w \in words : \E n \in 1 .. Len(args) : with[n] = w
    <2>1. ASSUME NEW w \in rest PROVE \E n \in 1 .. Len(args) : with[n] = w
      <3>1. PICK n \in 1 .. Len(args) - 1 : word[n] = w
        BY <1>1
      <3>2. n + 1 \in 2 .. Len(args) /\ with[n + 1] = w
        BY <1>3, <3>1
      <3> QED  BY <3>2
    <2>2. 1 \in 1 .. Len(args)
      OBVIOUS
    <2> QED  BY <1>3, <2>1, <2>2
  <1>6. ASSUME NEW m \in 1 .. Len(args), NEW n \in 1 .. Len(args), m < n
        PROVE  with[m][2] < with[n][1]
    <2>1. n \in 2 .. Len(args) /\ with[n] = word[n - 1] /\ with[n] \in rest
      BY <1>3, <1>6
    <2>2. CASE m = 1
      BY <1>3, <2>1, <2>2
    <2>3. CASE m # 1
      BY <1>1, <1>3, <1>6, <2>1, <2>3
    <2> QED  BY <2>2, <2>3
  <1>7. ASSUME NEW n \in 1 .. Len(args) PROVE more[n] = SubSeq(s, with[n][1], with[n][2])
    <2>1. CASE n = 1
      <3>1. with[n][1] = a /\ with[n][2] = b
        BY <1>3, <2>1
      <3> QED  BY <1>2, <2>1, <3>1
    <2>2. CASE n # 1
      <3>1. n - 1 \in 1 .. Len(args) - 1 /\ n \in 2 .. Len(args) /\ n \in 2 .. Len(args) + 1
        BY <2>2
      <3>2. more[n] = args[n - 1]
        BY <1>2, <3>1
      <3>3. args[n - 1] = SubSeq(s, word[n - 1][1], word[n - 1][2])
        BY <1>1, <3>1
      <3>4. with[n] = word[n - 1]
        BY <1>3, <3>1
      <3> QED  BY <3>2, <3>3, <3>4, Zenon
    <2> QED  BY <2>1, <2>2
  <1>8. more[Len(more)] = NULL
    <2>1. Len(more) \in 2 .. Len(args) + 1 /\ Len(more) - 1 = Len(args)
      BY <1>2
    <2> QED  BY <1>1, <1>2, <2>1
  <1> HIDE DEF words
  <1>9. /\ \A w \in words : \E n \in DOMAIN with : with[n] = w
        /\ \A m, n \in DOMAIN with : m < n => with[m][2] < with[n][1]
        /\ \A n \in DOMAIN with : more[n] = SubSeq(s, with[n][1], with[n][2])
    BY <1>3, <1>5, <1>6, <1>7
  <1>10. Lists(more, s, words)
    BY <1>4, <1>8, <1>9, Zenon DEF Lists
  <1> QED  BY <1>10 DEF more, words

(* What process stores when strtok goes on at i: the words from i on, and  *)
(* not more entries than there are characters, and the NULL.               *)
Right(s, i, args) ==
    /\ args \in Seq(Pieces) /\ Len(args) \in 1 .. Len(s) + 2 - i
    /\ Boundary(s, i) => Lists(args, s, WordsFrom(s, i))

LEMMA RightFromHere ==
    ASSUME NEW s \in Seq(Byte), NEW tok, NEW i \in 1 .. Len(s) + 1,
           \A j \in i + 1 .. Len(s) + 1 : Right(s, j, tok[j])
    PROVE  Right(s, i, Tokens(s, i, tok))
  <1> DEFINE from == NextNonBlank(s, i)
             stop == NextBlank(s, from)
  <1>1. NULL \in Pieces /\ \A a, b \in 1 .. Len(s) : SubSeq(s, a, b) \in Pieces
    BY DEF Pieces
  <1> HIDE DEF from, stop
  <1>2. CASE from = 0
    <2>1. Tokens(s, i, tok) = <<NULL>>
      BY <1>2 DEF Tokens, from
    <2>2. Lists(<<NULL>>, s, WordsFrom(s, i))
      BY <1>2, NoMoreWords, ListsNone DEF from
    <2> QED  BY <1>1, <2>1, <2>2 DEF Right
  <1>3. CASE from # 0
    <2>1. from \in i .. Len(s)
      BY <1>3, NextNonBlankIs DEF from
    <2>2. CASE stop = 0
      <3>1. Tokens(s, i, tok) = <<SubSeq(s, from, Len(s)), NULL>>
        BY <1>3, <2>2 DEF Tokens, from, stop
      <3>2. <<SubSeq(s, from, Len(s)), NULL>> = <<SubSeq(s, from, Len(s))>> \o <<NULL>>
        BY PairIs
      <3>3. Lists(<<SubSeq(s, from, Len(s))>> \o <<NULL>>, s, {<<from, Len(s)>>} \cup {})
        <4>1. <<NULL>> \in Seq(Pieces) /\ Len(<<NULL>>) >= 1
          BY <1>1
        <4>2. from \in 1 .. Len(s) /\ Len(s) \in 1 .. Len(s)
          BY <2>1
        <4>3. {} \in SUBSET (Nat \X Nat) /\ Lists(<<NULL>>, s, {})
          BY ListsNone
        <4> QED  BY <4>1, <4>2, <4>3, ListsOneMore
      <3>4. Boundary(s, i) => WordsFrom(s, i) = {<<from, Len(s)>>}
        BY <1>3, <2>2, LastWord DEF from, stop
      <3>5. Tokens(s, i, tok) \in Seq(Pieces) /\ Len(Tokens(s, i, tok)) = 2
        BY <1>1, <2>1, <3>1
      <3>6. Boundary(s, i) => Lists(Tokens(s, i, tok), s, WordsFrom(s, i))
        BY <3>1, <3>2, <3>3, <3>4
      <3> QED  BY <2>1, <3>5, <3>6 DEF Right
    <2>3. CASE stop # 0
      <3>1. stop \in from .. Len(s) /\ s[stop] = txt
        BY <2>1, <2>3, NextBlankIs DEF stop
      <3>2. s[from] # txt
        BY <1>3, <2>1, NextNonBlankIs DEF from
      <3>3. Tokens(s, i, tok) = <<SubSeq(s, from, stop - 1)>> \o tok[stop + 1]
        BY <1>3, <2>3 DEF Tokens, from, stop
      <3>4. Right(s, stop + 1, tok[stop + 1])
        BY <2>1, <3>1
      <3>5. Lists(tok[stop + 1], s, WordsFrom(s, stop + 1))
        BY <2>1, <3>1, <3>4 DEF Right, Boundary
      <3>6. Boundary(s, i) =>
                WordsFrom(s, i) = {<<from, stop - 1>>} \cup WordsFrom(s, stop + 1)
        BY <1>3, <2>3, FirstWord DEF from, stop
      <3>7. /\ tok[stop + 1] \in Seq(Pieces)
            /\ Len(tok[stop + 1]) \in 1 .. Len(s) + 2 - (stop + 1)
        BY <3>4 DEF Right
      <3>8. /\ from \in 1 .. Len(s) /\ stop - 1 \in 1 .. Len(s)
            /\ SubSeq(s, from, stop - 1) \in Pieces
        BY <1>1, <2>1, <3>1, <3>2
      <3>9. WordsFrom(s, stop + 1) \in SUBSET (Nat \X Nat)
        BY DEF WordsFrom, Words
      <3>10. \A w \in WordsFrom(s, stop + 1) : stop - 1 < w[1]
        BY <2>1, <3>1 DEF WordsFrom, Words
      <3>11. Lists(Tokens(s, i, tok), s, {<<from, stop - 1>>} \cup WordsFrom(s, stop + 1))
        <4>1. Len(tok[stop + 1]) >= 1
          BY <3>7
        <4> DEFINE rest == WordsFrom(s, stop + 1)
                   args == tok[stop + 1]
        <4>2. /\ args \in Seq(Pieces) /\ Len(args) >= 1
              /\ rest \in SUBSET (Nat \X Nat) /\ (\A w \in rest : stop - 1 < w[1])
              /\ Lists(args, s, rest)
          BY <3>5, <3>7, <3>9, <3>10, <4>1
        <4> HIDE DEF rest, args
        <4>3. Lists(<<SubSeq(s, from, stop - 1)>> \o args, s, {<<from, stop - 1>>} \cup rest)
          BY <3>8, <4>2, ListsOneMore
        <4> QED  BY <3>3, <4>3 DEF rest, args
      <3>12. /\ Tokens(s, i, tok) \in Seq(Pieces)
             /\ Len(Tokens(s, i, tok)) = 1 + Len(tok[stop + 1])
        <4> DEFINE args == tok[stop + 1]
                   piece == SubSeq(s, from, stop - 1)
        <4>1. args \in Seq(Pieces) /\ piece \in Pieces
          BY <3>7, <3>8
        <4> HIDE DEF args, piece
        <4>2. <<piece>> \in Seq(Pieces) /\ Len(<<piece>>) = 1
          BY <4>1
        <4>3. <<piece>> \o args \in Seq(Pieces) /\ Len(<<piece>> \o args) = 1 + Len(args)
          BY <4>1, <4>2, ConcatProperties
        <4> QED  BY <3>3, <4>3, Zenon DEF args, piece
      <3>13. Len(Tokens(s, i, tok)) \in 1 .. Len(s) + 2 - i
        BY <2>1, <3>1, <3>7, <3>12
      <3> QED  BY <3>6, <3>11, <3>12, <3>13 DEF Right
    <2> QED  BY <2>2, <2>3
  <1> QED  BY <1>2, <1>3

(* process stores the words of the line and a NULL, in at most one entry   *)
(* more than the line has characters.                                      *)
LEMMA ProcessRight ==
    ASSUME NEW s \in Seq(Byte)
    PROVE  Len(process(s)) \in 1 .. Len(s) + 1 /\ Lists(process(s), s, Words(s))
  <1>1. PICK tok : /\ process(s) = tok[1]
                   /\ \A i \in 1 .. Len(s) + 1 : tok[i] = Tokens(s, i, tok)
    BY ProcessIs
  <1> DEFINE n == Len(s) + 1
             Finished == {i \in 1 .. n : Right(s, i, tok[i])}
  <1>2. ASSUME NEW i \in 1 .. n, \A j \in i + 1 .. n : j \in Finished PROVE i \in Finished
    <2>1. \A j \in i + 1 .. Len(s) + 1 : Right(s, j, tok[j])
      BY <1>2
    <2>2. Right(s, i, Tokens(s, i, tok))
      BY <2>1, RightFromHere
    <2> QED  BY <1>1, <2>2
  <1>3. n \in Nat /\ 1 \in 1 .. n
    OBVIOUS
  <1>4. 1 \in Finished
    <2> HIDE DEF Finished, n
    <2> QED  BY <1>2, <1>3, FromTheEnd
  <1>5. Right(s, 1, process(s))
    BY <1>1, <1>4
  <1>6. WordsFrom(s, 1) = Words(s)
    BY DEF WordsFrom, Words
  <1> QED  BY <1>5, <1>6 DEF Right, Boundary

-----------------------------------------------------------------------------
(***************************************************************************)
(* What is stored is inside the blocks, and is what was typed.             *)
(***************************************************************************)

(* The string in input is no longer than what was typed. *)
LEMMA TextIs ==
    ASSUME NEW s \in Seq(Byte)
    PROVE  Text(s) \in Seq(Byte) /\ Len(Text(s)) <= Len(s)
  <1> DEFINE I == {i \in 1 .. Len(s) : s[i] = NUL}
             i == SelectInSeq(s, LAMBDA c : c = NUL)
  <1>1. i = IF I # {} THEN Min(I) ELSE 0
    BY DEF SelectInSeq
  <1>2. i \in 0 .. Len(s)
    <2>1. CASE I = {}
      BY <1>1, <2>1
    <2>2. CASE I # {}
      <3>1. I \in SUBSET Nat
        OBVIOUS
      <3>2. Min(I) \in I
        BY <2>2, <3>1, MinIs
      <3> QED  BY <1>1, <2>2, <3>2
    <2> QED  BY <2>1, <2>2
  <1>3. Text(s) = IF i = 0 THEN s ELSE SubSeq(s, 1, i - 1)
    BY DEF Text
  <1> HIDE DEF i
  <1>4. CASE i = 0
    BY <1>3, <1>4
  <1>5. CASE i # 0
    <2>1. SubSeq(s, 1, i - 1) \in Seq(Byte) /\ Len(SubSeq(s, 1, i - 1)) = i - 1
      BY <1>2, <1>5
    <2> QED  BY <1>2, <1>3, <1>5, <2>1
  <1> QED  BY <1>4, <1>5

(* Until process runs, argv is empty; and while nothing has gone wild the  *)
(* line and the arguments leave room in the blocks.                        *)
FitInv ==
    /\ buffer \in Nat /\ line \in Seq(Byte)
    /\ pc \in {"read", "compare"} => argv = <<>>
    /\ ArgumentsFit

(* A line leaves room for its words and the NULL. *)
LEMMA EndLineFits ==
    ASSUME ShellInv, FitInv, NEW eof \in BOOLEAN, EndLine(eof)
    PROVE  FitInv' /\ ArgvIsWords'
  <1>1. Text(line) \in Seq(Byte) /\ Len(Text(line)) <= Len(line)
    BY TextIs DEF FitInv
  <1>2. /\ Len(process(Text(line))) \in 1 .. Len(Text(line)) + 1
        /\ Lists(process(Text(line)), Text(line), Words(Text(line)))
    BY <1>1, ProcessRight
  <1>3. /\ pc = "read" /\ pc' = "fork" /\ argv' = process(Text(line))
        /\ buffer' = buffer /\ line' = line /\ exit' = exit /\ exit = "no"
    BY DEF EndLine, ShellInv
  <1>4. Len(line) < buffer /\ Len(line) \in Nat /\ buffer \in Nat
    BY <1>3 DEF FitInv, ArgumentsFit, Wild
  <1>5. Len(argv') <= buffer
    BY <1>1, <1>2, <1>3, <1>4
  <1>6. Lists(argv', Text(line'), Words(Text(line')))
    BY <1>2, <1>3
  <1>7. FitInv'
    BY <1>3, <1>4, <1>5 DEF FitInv, ArgumentsFit
  <1>8. ArgvIsWords'
    BY <1>3, <1>6 DEF ArgvIsWords
  <1> QED  BY <1>7, <1>8

(* Every step of the shell stays inside the blocks. *)
LEMMA FitNext == ShellInv /\ FitInv /\ [Next]_vars => FitInv'
  <1> SUFFICES ASSUME ShellInv, FitInv, [Next]_vars PROVE FitInv'
    OBVIOUS
  <1>1. /\ buffer \in Nat /\ line \in Seq(Byte) /\ Len(line) \in Nat
        /\ BUFFER \in Nat /\ BUFFER >= 2
    BY ShellAssumption DEF FitInv
  <1>2. ASSUME NEW c \in BOOLEAN, NEW i \in BOOLEAN, Prompt(c, i) PROVE FitInv'
    BY <1>1, <1>2 DEF Prompt, FitInv, ArgumentsFit
  <1>3. ASSUME NEW c \in Char, pc = "read"
        PROVE  /\ argv = <<>> /\ Len(line) < buffer
               /\ Append(line, c) \in Seq(Byte) /\ Len(Append(line, c)) = Len(line) + 1
    BY <1>1, <1>3 DEF FitInv, ArgumentsFit, ShellInv, Wild, Byte
  <1>4. ASSUME NEW c \in Char, Read(c) PROVE FitInv'
    <2>1. /\ pc = "read" /\ line' = Append(line, c) /\ argv' = argv /\ buffer' = buffer
          /\ Len(line) + 1 # buffer
      BY <1>4 DEF Read, Full
    <2> QED  BY <1>1, <1>3, <2>1 DEF FitInv, ArgumentsFit
  <1>5. ASSUME NEW c \in Char, NEW i \in {"fails", "kept", "moved"},
               NEW k \in {"fails", "kept", "moved"}, Grow(c, i, k)
        PROVE  FitInv'
    <2> DEFINE full == Append(line, c)
    <2>1. /\ pc = "read" /\ buffer' = buffer * 2 /\ argv' = argv /\ Len(line) + 1 = buffer
          /\ line' = IF BUFFER < buffer THEN [full EXCEPT ![BUFFER + 1] = NUL] ELSE full
      BY <1>5 DEF Grow, Full
    <2>2. argv = <<>> /\ full \in Seq(Byte) /\ Len(full) = buffer
      BY <1>1, <1>3, <2>1
    <2> HIDE DEF full
    <2>3. line' \in Seq(Byte) /\ Len(line') = buffer
      <3>1. CASE BUFFER < buffer
        <4>1. BUFFER + 1 \in 1 .. Len(full) /\ NUL \in Byte
          BY <1>1, <2>2, <3>1 DEF Byte
        <4>2. line' = [full EXCEPT ![BUFFER + 1] = NUL]
          BY <2>1, <3>1
        <4> QED  BY <2>2, <4>1, <4>2, ExceptSeq
      <3> QED  BY <2>1, <2>2, <3>1
    <2>4. buffer' \in Nat /\ Len(line') < buffer' /\ Len(argv') <= buffer'
      BY <1>1, <2>1, <2>2, <2>3
    <2> QED  BY <2>1, <2>2, <2>3, <2>4 DEF FitInv, ArgumentsFit
  <1>6. CASE Compare
    <2>1. exit = "no"
      BY <1>6 DEF Compare, ShellInv
    <2> QED  BY <1>6, <2>1 DEF Compare, FitInv, ArgumentsFit, Wild
  <1>7. ASSUME NEW eof \in BOOLEAN, EndLine(eof) PROVE FitInv'
    BY <1>7, EndLineFits
  <1>8. CASE Fork \/ ForkFails
    <2>1. exit = "no" /\ pc = "fork"
      BY <1>8 DEF Fork, ForkFails, ShellInv
    <2> QED  BY <1>8, <2>1 DEF Fork, ForkFails, FitInv, ArgumentsFit, Wild
  <1>9. ASSUME NEW who \in {"pid", "other", "-1"}, Wait(who) PROVE FitInv'
    BY <1>9 DEF Wait, IsPid, FitInv, ArgumentsFit
  <1>10. CASE ChildEnds \/ UNCHANGED vars
    BY <1>10 DEF ChildEnds, vars, FitInv, ArgumentsFit
  <1> QED  BY <1>2, <1>4, <1>5, <1>6, <1>7, <1>8, <1>9, <1>10 DEF Next, Typing, Working, Done

(* The invariant of the blocks, for every input. *)
THEOREM FitInvariance == Spec => []FitInv
  <1>1. Init => FitInv
    BY ShellAssumption DEF Init, FitInv, ArgumentsFit
  <1> QED  BY <1>1, FitNext, ShellInvariance, PTL DEF Spec

(* ArgumentsFit: the terminating zero and every entry of command that      *)
(* process sets are inside the blocks, however long the line is and        *)
(* however often the buffer has doubled.                                   *)
THEOREM ArgumentsInBlocks == Spec => []ArgumentsFit
  <1>1. FitInv => ArgumentsFit
    BY DEF FitInv
  <1> QED  BY <1>1, FitInvariance, PTL

(* Every step that is not the end of a line leaves the words alone. *)
LEMMA WordsNext == ShellInv /\ FitInv /\ ArgvIsWords /\ [Next]_vars => ArgvIsWords'
  <1> SUFFICES ASSUME ShellInv, FitInv, ArgvIsWords, [Next]_vars PROVE ArgvIsWords'
    OBVIOUS
  <1>1. CASE \E eof \in BOOLEAN : EndLine(eof)
    BY <1>1, EndLineFits
  <1>2. CASE \/ Typing
             \/ \E c, i \in BOOLEAN : Prompt(c, i)
             \/ Compare \/ Fork \/ ForkFails
    <2>1. \A c \in Char : Read(c) => pc' # "fork"
      BY DEF Read
    <2>2. \A c \in Char : \A i, k \in {"fails", "kept", "moved"} : Grow(c, i, k) => pc' # "fork"
      BY DEF Grow
    <2>3. \A c, i \in BOOLEAN : Prompt(c, i) => pc' # "fork"
      BY DEF Prompt
    <2>4. Compare \/ Fork \/ ForkFails => pc' # "fork"
      BY DEF Compare, Fork, ForkFails
    <2> QED  BY <1>2, <2>1, <2>2, <2>3, <2>4 DEF Typing, ArgvIsWords
  <1>3. CASE ChildEnds \/ UNCHANGED vars
    <2>1. pc' = pc /\ line' = line /\ argv' = argv
      BY <1>3 DEF ChildEnds, vars
    <2> QED  BY <2>1 DEF ArgvIsWords
  <1>4. ASSUME NEW who \in {"pid", "other", "-1"}, Wait(who) PROVE ArgvIsWords'
    BY <1>4 DEF Wait, ArgvIsWords
  <1> QED  BY <1>1, <1>2, <1>3, <1>4 DEF Next, Working, Done

(* ArgvIsWords: whatever is typed, execvp is given the words of the line,  *)
(* all of them and in order, and a NULL.                                   *)
THEOREM WordsAreArguments == Spec => []ArgvIsWords
  <1>1. Init => ArgvIsWords
    BY DEF Init, ArgvIsWords
  <1> QED  BY <1>1, WordsNext, ShellInvariance, FitInvariance, PTL DEF Spec
=============================================================================
