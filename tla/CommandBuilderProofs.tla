------------------------ MODULE CommandBuilderProofs ------------------------
(***************************************************************************)
(* Theorems about CommandBuilder, and about CommandLine on the way.        *)
(*                                                                         *)
(* The recursive functions of the models (the parser, Escaping, Follow,    *)
(* Layer, FlattenSeq) are reasoned about by induction over sets: a set of  *)
(* numbers has a least element (Least), so a property of 0 that goes from  *)
(* m - 1 to m holds up to n (Induction), and one that survives Append      *)
(* holds of every sequence (SeqInduction). The first part proves what the  *)
(* program's parser makes of an escaped argument and so of a whole command *)
(* line. The second is the inductive invariant BuilderInv of the builder,  *)
(* one lemma per action, with what follows from it of the arguments and    *)
(* the program. The third reads an environment block, follows the base     *)
(* environment variable by variable and proves the invariant EnvInv, from  *)
(* which follows what a child sees of its environment.                     *)
(***************************************************************************)
EXTENDS CommandBuilder, SequenceTheorems, FiniteSetTheorems, WellFoundedInduction,
        TLAPS

-----------------------------------------------------------------------------
(* Induction over a set of numbers, from its least element.                *)

\* A set of numbers that has an element has a least one.
LEMMA Least ==
  ASSUME NEW T \in SUBSET Nat, T # {}
  PROVE  \E x \in T: \A y \in T: x <= y
<1> DEFINE R == {ss \in Nat \X Nat : ss[1] < ss[2]}
<1>1. IsWellFoundedOn(R, Nat)
  BY NatLessThanWellFounded DEF OpToRel
<1> HIDE DEF R
<1>2. PICK x \in T: \A y \in T: ~ (<<y, x>> \in R)
  BY <1>1, WFMin
<1>3. ASSUME NEW y \in T PROVE x <= y
  <2>1. <<y, x>> \in Nat \X Nat /\ ~ (<<y, x>> \in R)
    BY <1>2
  <2>2. ~(y < x)
    BY <2>1 DEF R
  <2> QED
    BY <2>2
<1> QED
  BY <1>3

\* What holds of 0 and goes from m - 1 to m holds up to n.
LEMMA Induction ==
  ASSUME NEW n \in Nat, NEW T, 0 \in T, \A i \in 1..n: i - 1 \in T => i \in T
  PROVE  \A i \in 0..n: i \in T
<1> SUFFICES ASSUME NEW m \in 0..n, m \notin T PROVE FALSE
  OBVIOUS
<1> DEFINE Not == {i \in 0..n: i \notin T}
<1>1. Not \in SUBSET Nat /\ m \in Not
  OBVIOUS
<1>2. PICK x \in Not: \A y \in Not: x <= y
  BY <1>1, Least
<1>3. x \in 1..n /\ x - 1 \in 0..n /\ ~(x <= x - 1)
  BY <1>2
<1>4. x - 1 \in T
  BY <1>2, <1>3
<1> QED
  BY <1>2, <1>3, <1>4

\* What holds of the empty sequence and survives Append holds of all.
LEMMA SeqInduction ==
  ASSUME NEW C, NEW T, <<>> \in T, \A s \in Seq(C), c \in C: s \in T => Append(s, c) \in T
  PROVE  \A s \in Seq(C): s \in T
<1> SUFFICES ASSUME NEW s \in Seq(C) PROVE s \in T
  OBVIOUS
<1> DEFINE U == {i \in 0..Len(s): SubSeq(s, 1, i) \in T}
<1>1. Len(s) \in Nat
  OBVIOUS
<1>2. 0 \in U
  <2>1. SubSeq(s, 1, 0) = <<>> /\ 0 \in 0..Len(s)
    BY <1>1, SubSeqEmpty
  <2> QED
    BY <2>1
<1>3. ASSUME NEW i \in 1..Len(s), i - 1 \in U PROVE i \in U
  <2>1. SubSeq(s, 1, i) = Append(SubSeq(s, 1, i - 1), s[i])
    <3>1. SubSeq(s, 1, i - 1) \in Seq(C) /\ s[i] \in C
      BY <1>1
    <3>2. SubSeq(s, 1, i) = SubSeq(s, 1, i - 1) \o <<s[i]>>
      BY <1>1, SubSeqRecursiveSecond
    <3> QED
      BY <3>1, <3>2, AppendIsConcat
  <2>2. SubSeq(s, 1, i - 1) \in Seq(C) /\ s[i] \in C
    BY <1>1
  <2>3. SubSeq(s, 1, i - 1) \in T
    BY <1>3
  <2>4. SubSeq(s, 1, i) \in T
    BY <2>1, <2>2, <2>3
  <2> QED
    BY <2>4
<1> HIDE DEF U
<1>4. \A i \in 0..Len(s): i \in U
  BY <1>1, <1>2, <1>3, Induction
<1>5. SubSeq(s, 1, Len(s)) = s
  BY SubSeqFull
<1>6. SubSeq(s, 1, Len(s)) \in T
  <2>1. Len(s) \in 0..Len(s)
    BY <1>1
  <2> QED
    BY <1>4, <2>1 DEF U
<1> QED
  BY <1>5, <1>6

\* A fold over n items is a function of how far it has got.
Folds(f, n, base, step) == f[0] = base /\ \A i \in 1..n: f[i] = step[i][f[i - 1]]

\* There is such a function.
LEMMA FoldExists ==
  ASSUME NEW n \in Nat, NEW S, NEW base \in S, NEW step \in [1..n -> [S -> S]]
  PROVE  \E f \in [0..n -> S]: Folds(f, n, base, step)
<1> DEFINE T == {m \in 0..n: \E f \in [0..m -> S]: Folds(f, m, base, step)}
<1>1. 0 \in T
  <2> DEFINE g == [i \in 0..0 |-> base]
  <2>1. g \in [0..0 -> S] /\ g[0] = base
    OBVIOUS
  <2> HIDE DEF g
  <2>2. Folds(g, 0, base, step)
    BY <2>1 DEF Folds
  <2> QED
    BY <2>1, <2>2
<1>2. ASSUME NEW m \in 1..n, m - 1 \in T PROVE m \in T
  <2>1. PICK f \in [0..(m - 1) -> S]: Folds(f, m - 1, base, step)
    BY <1>2
  <2> DEFINE g == [i \in 0..m |-> IF i = m THEN step[m][f[m - 1]] ELSE f[i]]
  <2>2. step[m][f[m - 1]] \in S
    <3>1. f[m - 1] \in S
      BY <2>1
    <3>2. step[m] \in [S -> S]
      OBVIOUS
    <3> QED
      BY <3>1, <3>2
  <2>3. g \in [0..m -> S]
    <3>1. ASSUME NEW i \in 0..m PROVE (IF i = m THEN step[m][f[m - 1]] ELSE f[i]) \in S
      <4>1. CASE i = m
        BY <2>2, <4>1
      <4>2. CASE i \in 0..(m - 1)
        BY <4>2
      <4> QED
        BY <4>1, <4>2
    <3> QED
      BY <3>1
  <2>4. g[m] = step[m][f[m - 1]] /\ \A i \in 0..(m - 1): g[i] = f[i]
    OBVIOUS
  <2> HIDE DEF g
  <2>5. g[0] = base
    BY <2>1, <2>4 DEF Folds
  <2>6. ASSUME NEW i \in 1..m PROVE g[i] = step[i][g[i - 1]]
    <3>1. i - 1 \in 0..(m - 1) /\ (i = m \/ i \in 1..(m - 1)) /\ (i \in 1..(m - 1) => i \in 0..(m - 1))
      OBVIOUS
    <3>2. g[i - 1] = f[i - 1]
      BY <2>4, <3>1
    <3>3. CASE i = m
      BY <2>4, <3>2, <3>3
    <3>4. CASE i \in 1..(m - 1)
      BY <2>1, <2>4, <3>1, <3>2, <3>4 DEF Folds
    <3> QED
      BY <3>1, <3>3, <3>4
  <2>7. Folds(g, m, base, step) /\ m \in 0..n
    BY <2>5, <2>6 DEF Folds
  <2> QED
    BY <2>3, <2>7
<1> HIDE DEF T
<1>3. \A m \in 0..n: m \in T
  BY <1>1, <1>2, Induction
<1>4. n \in 0..n
  OBVIOUS
<1> QED
  BY <1>3, <1>4 DEF T

\* Two functions that go on alike are alike.
GoOnAlike(n, f, g) ==
  f[0] = g[0] /\ \A i \in 1..n: f[i - 1] = g[i - 1] => f[i] = g[i]

Alike(n, f, g) == \A i \in 0..n: f[i] = g[i]

\* There is only one.
LEMMA SameFold ==
  ASSUME NEW n \in Nat, NEW f, NEW g, GoOnAlike(n, f, g)
  PROVE  Alike(n, f, g)
<1> DEFINE T == {i \in 0..n: f[i] = g[i]}
<1>1. 0 \in T
  BY DEF GoOnAlike
<1>2. ASSUME NEW i \in 1..n, i - 1 \in T PROVE i \in T
  BY <1>2 DEF GoOnAlike
<1> HIDE DEF T
<1>3. \A i \in 0..n: i \in T
  BY <1>1, <1>2, Induction
<1> QED
  BY <1>3 DEF T, Alike

-----------------------------------------------------------------------------
(* The program's parser, character by character.                           *)

\* Characters of arguments that Refused lets through.
Char == Chars \ {"nul"}

\* The parser's own characters are among them.
LEMMA CharHas == {"quote", "slash", "space"} \subseteq Char
BY CharsAssumption DEF Char

\* A run of backslashes.
Slash(n) == Repeat(n, "slash")

\* It is a text, and as long as it should be.
LEMMA SlashSeq ==
  ASSUME NEW n \in Nat
  PROVE  Slash(n) \in Seq(Char) /\ Len(Slash(n)) = n /\ \A i \in 1..n: Slash(n)[i] = "slash"
<1>1. "slash" \in Char
  BY CharHas
<1> QED
  BY <1>1 DEF Slash, Repeat

\* None of them is the empty text.
LEMMA NoSlash == Slash(0) = <<>>
<1>1. Slash(0) \in Seq(Char) /\ Len(Slash(0)) = 0
  BY SlashSeq
<1> QED
  BY <1>1, EmptySeq

\* One more is appended.
LEMMA SlashMore ==
  ASSUME NEW n \in Nat
  PROVE  Append(Slash(n), "slash") = Slash(n + 1)
<1>3. /\ Slash(n) \in Seq(Char) /\ Len(Slash(n)) = n /\ \A i \in 1..n: Slash(n)[i] = "slash"
      /\ Slash(n + 1) \in Seq(Char) /\ Len(Slash(n + 1)) = n + 1
      /\ \A i \in 1..(n + 1): Slash(n + 1)[i] = "slash"
  BY SlashSeq
<1>4. /\ Append(Slash(n), "slash") \in Seq(Char) /\ Len(Append(Slash(n), "slash")) = n + 1
      /\ \A i \in 1..(n + 1): Append(Slash(n), "slash")[i] = "slash"
  BY <1>3, CharHas
<1>5. Append(Slash(n), "slash") = Slash(n + 1)
  BY <1>3, <1>4, SeqEqual
<1> QED
  BY <1>5

\* Parser states.
State == [argv: Seq(Seq(Char)), arg: Seq(Char), inArg: BOOLEAN, quoted: BOOLEAN, slashes: Nat]
At(v, a, q, k) == [argv |-> v, arg |-> a, inArg |-> TRUE, quoted |-> q, slashes |-> k]
Fresh(v) == [argv |-> v, arg |-> <<>>, inArg |-> FALSE, quoted |-> FALSE, slashes |-> 0]

\* The parser's states by their kind.
LEMMA StatesAre ==
  ASSUME NEW v \in Seq(Seq(Char)), NEW a \in Seq(Char), NEW k \in Nat
  PROVE  At(v, a, TRUE, k) \in State /\ At(v, a, FALSE, k) \in State /\ Fresh(v) \in State
<1>1. <<>> \in Seq(Char)
  OBVIOUS
<1> QED
BY <1>1 DEF At, Fresh, State

\* A backslash is only counted.
LEMMA TakeSlash ==
  ASSUME NEW v, NEW a, NEW k
  PROVE  /\ TakeChar(At(v, a, TRUE, k), "slash") = At(v, a, TRUE, k + 1)
         /\ TakeChar(At(v, a, FALSE, k), "slash") = At(v, a, FALSE, k + 1)
BY DEF At, TakeChar

\* A quote after an odd number of them is a character.
LEMMA TakeOddQuote ==
  ASSUME NEW v, NEW a, NEW n \in Nat
  PROVE  TakeChar(At(v, a, TRUE, 2 * n + 1), "quote") =
           At(v, Append(a \o Slash(n), "quote"), TRUE, 0)
<1>1. (2 * n + 1) \div 2 = n /\ (2 * n + 1) % 2 = 1
  OBVIOUS
<1> QED
  BY <1>1 DEF At, TakeChar, TakeQuote, Slash

\* After an even number it opens or closes.
LEMMA TakeEvenQuote ==
  ASSUME NEW v, NEW a, NEW n \in Nat
  PROVE  TakeChar(At(v, a, TRUE, 2 * n), "quote") = At(v, a \o Slash(n), FALSE, 0)
<1>1. (2 * n) \div 2 = n /\ ~((2 * n) % 2 = 1)
  OBVIOUS
<1>2. TakeChar(At(v, a, TRUE, 2 * n), "quote") = TakeQuote(At(v, a, TRUE, 2 * n))
  BY DEF TakeChar
<1> QED
  BY <1>1, <1>2 DEF At, TakeQuote, Slash

\* Inside quotes every other character is one of the argument.
LEMMA TakeQuoted ==
  ASSUME NEW v, NEW a, NEW k, NEW c, c \notin {"slash", "quote"}
  PROVE  TakeChar(At(v, a, TRUE, k), c) = At(v, Append(a \o Slash(k), c), TRUE, 0)
BY DEF At, TakeChar, Flush, Slash

\* Outside, one that is not white space is.
LEMMA TakeOther ==
  ASSUME NEW v, NEW a, NEW k, NEW c, c \notin {"slash", "quote", "space"}
  PROVE  TakeChar(At(v, a, FALSE, k), c) = At(v, Append(a \o Slash(k), c), FALSE, 0)
BY DEF At, TakeChar, Flush, Slash

\* White space ends the argument.
LEMMA TakeSpace ==
  ASSUME NEW v, NEW a, NEW k
  PROVE  TakeChar(At(v, a, FALSE, k), "space") = Fresh(Append(v, a \o Slash(k)))
BY DEF At, TakeChar, EndArg, Flush, Slash, Fresh, Start

\* So does the end of the line.
LEMMA EndArgAt ==
  ASSUME NEW v, NEW a, NEW k
  PROVE  EndArg(At(v, a, FALSE, k)) = Fresh(Append(v, a \o Slash(k)))
BY DEF At, EndArg, Flush, Slash, Fresh, Start

\* A character begins an argument.
LEMMA TakeFirst ==
  ASSUME NEW v
  PROVE  /\ TakeChar(Fresh(v), "space") = Fresh(v)
         /\ TakeChar(Fresh(v), "slash") = At(v, <<>>, FALSE, 1)
         /\ TakeChar(Fresh(v), "quote") = At(v, <<>>, TRUE, 0)
         /\ \A c: c \notin {"slash", "quote", "space"} => TakeChar(Fresh(v), c) = At(v, <<c>>, FALSE, 0)
<1>1. TakeChar(Fresh(v), "space") = Fresh(v)
  BY DEF Fresh, TakeChar, EndArg
<1>2. TakeChar(Fresh(v), "slash") = At(v, <<>>, FALSE, 1)
  <2>1. 0 + 1 = 1
    OBVIOUS
  <2> QED
    BY <2>1 DEF Fresh, At, TakeChar
<1>3. TakeChar(Fresh(v), "quote") = At(v, <<>>, TRUE, 0)
  <2>1. ~(0 % 2 = 1) /\ 0 \div 2 = 0
    OBVIOUS
  <2>2. TakeChar(Fresh(v), "quote") = TakeQuote(Fresh(v))
    BY DEF TakeChar
  <2>3. TakeQuote(Fresh(v)) = At(v, <<>> \o Slash(0), TRUE, 0)
    BY <2>1 DEF Fresh, At, TakeQuote, Slash
  <2>4. <<>> \o <<>> = <<>> /\ Slash(0) = <<>>
    BY NoSlash
  <2> QED
    BY <2>2, <2>3, <2>4
<1>4. ASSUME NEW c, c \notin {"slash", "quote", "space"}
      PROVE  TakeChar(Fresh(v), c) = At(v, <<c>>, FALSE, 0)
  <2>1. <<>> \o <<>> = <<>> /\ Append(<<>>, c) = <<c>> /\ Slash(0) = <<>>
    BY NoSlash
  <2> QED
  BY <1>4, <2>1 DEF Fresh, At, TakeChar, Flush, Slash
<1> QED
  BY <1>1, <1>2, <1>3, <1>4

-----------------------------------------------------------------------------
(* Runs of the parser.                                                     *)

\* Types: the end of an argument ...
LEMMA EndArgType ==
  ASSUME NEW p \in State
  PROVE  EndArg(p) \in State
<1>1. Slash(p.slashes) \in Seq(Char)
  BY SlashSeq DEF State
<1>2. p.arg \o Slash(p.slashes) \in Seq(Char) /\ p.argv \in Seq(Seq(Char))
  BY <1>1 DEF State
<1>3. Append(p.argv, p.arg \o Slash(p.slashes)) \in Seq(Seq(Char))
  BY <1>2
<1>4. CASE p.inArg
  <2>1. EndArg(p) = Fresh(Append(p.argv, p.arg \o Slash(p.slashes)))
    BY <1>4 DEF EndArg, Flush, Slash, Fresh, Start, State
  <2> QED
    BY <1>3, <2>1 DEF Fresh, State
<1>5. CASE ~p.inArg
  BY <1>5 DEF EndArg
<1> QED
  BY <1>4, <1>5

\* ... a quote ...
LEMMA TakeQuoteType ==
  ASSUME NEW p \in State
  PROVE  TakeQuote(p) \in State
<1>1. p.slashes \in Nat
  BY DEF State
<1>0. p.slashes \div 2 \in Nat
  BY <1>1
<1>2. Slash(p.slashes \div 2) \in Seq(Char)
  BY <1>0, SlashSeq
<1> DEFINE a == p.arg \o Slash(p.slashes \div 2)
<1>3. a \in Seq(Char) /\ Append(a, "quote") \in Seq(Char)
  BY <1>2, CharHas DEF State
<1> HIDE DEF a
<1>4. CASE p.slashes % 2 = 1
  BY <1>3, <1>4 DEF TakeQuote, State, a, Slash
<1>5. CASE ~(p.slashes % 2 = 1)
  BY <1>3, <1>5 DEF TakeQuote, State, a, Slash
<1> QED
  BY <1>4, <1>5

\* ... and every character.
LEMMA TakeCharType ==
  ASSUME NEW p \in State, NEW c \in Char
  PROVE  TakeChar(p, c) \in State
<1>1. Slash(p.slashes) \in Seq(Char)
  BY SlashSeq DEF State
<1>2. Append(p.arg \o Slash(p.slashes), c) \in Seq(Char)
  BY <1>1 DEF State
<1>3. CASE c = "slash"
  <2>1. TakeChar(p, c) = [p EXCEPT !.slashes = @ + 1, !.inArg = TRUE]
    BY <1>3 DEF TakeChar
  <2>2. p.slashes + 1 \in Nat
    BY DEF State
  <2> QED
    BY <2>1, <2>2 DEF State
<1>4. CASE c = "quote"
  BY <1>4, TakeQuoteType DEF TakeChar
<1>5. CASE c = "space" /\ ~p.quoted
  BY <1>5, EndArgType DEF TakeChar
<1> DEFINE a == Append(p.arg \o Slash(p.slashes), c)
<1> HIDE DEF a
<1>6. CASE c \notin {"slash", "quote"} /\ ~(c = "space" /\ ~p.quoted)
  <2>1. TakeChar(p, c) = [Flush(p) EXCEPT !.arg = Append(@, c), !.inArg = TRUE]
    BY <1>6 DEF TakeChar
  <2>2. TakeChar(p, c) = [p EXCEPT !.arg = a, !.slashes = 0, !.inArg = TRUE]
    BY <2>1 DEF Flush, State, Slash, a
  <2>3. a \in Seq(Char)
    BY <1>2 DEF a
  <2>4. [p EXCEPT !.arg = a, !.slashes = 0, !.inArg = TRUE] \in State
    BY <2>3 DEF State
  <2> QED
    BY <2>2, <2>4
<1> QED
  BY <1>3, <1>4, <1>5, <1>6

\* The recursive function of the parser, unfolded.
LEMMA StepsAre ==
  ASSUME NEW p \in State, NEW s \in Seq(Char)
  PROVE  /\ Steps(p, s) \in [0..Len(s) -> State] /\ Steps(p, s)[0] = p
         /\ \A i \in 1..Len(s): Steps(p, s)[i] = TakeChar(Steps(p, s)[i - 1], s[i])
<1> DEFINE n == Len(s)
           step == [i \in 1..n |-> [q \in State |-> TakeChar(q, s[i])]]
<1>1. n \in Nat /\ \A i \in 1..n: s[i] \in Char
  OBVIOUS
<1> HIDE DEF n
<1>2. step \in [1..n -> [State -> State]]
  BY <1>1, TakeCharType
<1>3. \A i \in 1..n, q \in State: step[i][q] = TakeChar(q, s[i])
  OBVIOUS
<1> HIDE DEF step
<1>4. PICK f \in [0..n -> State]: Folds(f, n, p, step)
  BY <1>1, <1>2, FoldExists
<1>5. ASSUME NEW i \in 0..n
      PROVE  f[i] = IF i = 0 THEN p ELSE TakeChar(f[i - 1], s[i])
  <2>1. CASE i = 0
    BY <1>4, <2>1 DEF Folds
  <2>2. CASE i # 0
    <3>1. i \in 1..n /\ i - 1 \in 0..n
      BY <1>1, <2>2
    <3>2. f[i] = step[i][f[i - 1]] /\ f[i - 1] \in State
      BY <1>4, <3>1 DEF Folds
    <3> QED
      BY <1>3, <2>2, <3>1, <3>2
  <2> QED
    BY <2>1, <2>2
<1>6. f = [i \in 0..n |-> IF i = 0 THEN p ELSE TakeChar(f[i - 1], s[i])]
  BY <1>5
<1> DEFINE g == Steps(p, s)
<1>7. g = [i \in 0..n |-> IF i = 0 THEN p ELSE TakeChar(g[i - 1], s[i])]
  BY <1>6 DEF Steps, n
<1> HIDE DEF g
<1>8. g[0] = p /\ \A i \in 1..n: g[i] = TakeChar(g[i - 1], s[i])
  BY <1>1, <1>7
<1>9. \A i \in 0..n: g[i] = f[i]
  <2>1. GoOnAlike(n, f, g)
    BY <1>1, <1>5, <1>8 DEF GoOnAlike
  <2>2. Alike(n, f, g)
    BY <1>1, <2>1, SameFold
  <2> QED
    BY <2>2 DEF Alike
<1>10. g \in [0..n -> State]
  BY <1>4, <1>7, <1>9
<1> QED
  BY <1>8, <1>10 DEF g, n

\* An empty text changes nothing.
LEMMA RunEmpty ==
  ASSUME NEW p \in State
  PROVE  Run(p, <<>>) = p
<1>1. <<>> \in Seq(Char) /\ Len(<<>>) = 0
  OBVIOUS
<1> QED
  BY <1>1, StepsAre DEF Run

\* A text takes a state to a state.
LEMMA RunType ==
  ASSUME NEW p \in State, NEW s \in Seq(Char)
  PROVE  Run(p, s) \in State
<1>1. Steps(p, s) \in [0..Len(s) -> State]
  BY StepsAre
<1>2. Len(s) \in 0..Len(s)
  OBVIOUS
<1> QED
  BY <1>1, <1>2 DEF Run

\* The last character is taken last.
LEMMA RunAppend ==
  ASSUME NEW p \in State, NEW s \in Seq(Char), NEW c \in Char
  PROVE  Run(p, Append(s, c)) = TakeChar(Run(p, s), c)
<1> DEFINE t == Append(s, c)
           n == Len(s)
           f == Steps(p, t)
           g == Steps(p, s)
<1>1. n \in Nat /\ t \in Seq(Char) /\ Len(t) = n + 1 /\ t[n + 1] = c /\ \A i \in 1..n: t[i] = s[i]
  OBVIOUS
<1> HIDE DEF t
<1>2. f[0] = p /\ \A i \in 1..(n + 1): f[i] = TakeChar(f[i - 1], t[i])
  <2>1. Steps(p, t)[0] = p /\ \A i \in 1..Len(t): Steps(p, t)[i] = TakeChar(Steps(p, t)[i - 1], t[i])
    BY <1>1, StepsAre, Zenon
  <2> HIDE DEF n
  <2> QED
    BY <1>1, <2>1, Zenon
<1>3. g[0] = p /\ \A i \in 1..n: g[i] = TakeChar(g[i - 1], s[i])
  BY StepsAre, Zenon
<1> HIDE DEF n, f, g
<1>4. GoOnAlike(n, f, g)
  <2>1. \A i \in 1..n: f[i] = TakeChar(f[i - 1], s[i])
    BY <1>1, <1>2
  <2> QED
    BY <1>2, <1>3, <2>1 DEF GoOnAlike
<1>5. f[n] = g[n]
  <2>1. Alike(n, f, g)
    BY <1>1, <1>4, SameFold
  <2> QED
    BY <1>1, <2>1 DEF Alike
<1>6. f[n + 1] = TakeChar(f[n], c)
  <2>1. n + 1 \in 1..(n + 1) /\ (n + 1) - 1 = n
    BY <1>1
  <2> QED
    BY <1>1, <1>2, <2>1
<1> QED
  BY <1>1, <1>5, <1>6 DEF Run, f, g, t, n

\* A text in two parts is taken part by part.
LEMMA RunConcat ==
  ASSUME NEW p \in State, NEW s \in Seq(Char), NEW t \in Seq(Char)
  PROVE  Run(p, s \o t) = Run(Run(p, s), t)
<1> DEFINE T == {u \in Seq(Char): Run(p, s \o u) = Run(Run(p, s), u)}
<1>1. <<>> \in T
  <2>1. s \o <<>> = s /\ <<>> \in Seq(Char)
    OBVIOUS
  <2>2. Run(p, s) \in State
    BY RunType
  <2> QED
    BY <2>1, <2>2, RunEmpty
<1>2. ASSUME NEW u \in Seq(Char), NEW c \in Char, u \in T PROVE Append(u, c) \in T
  <2>1. s \o Append(u, c) = Append(s \o u, c) /\ s \o u \in Seq(Char) /\ Append(u, c) \in Seq(Char)
    OBVIOUS
  <2>2. Run(p, s) \in State
    BY RunType
  <2>3. Run(p, Append(s \o u, c)) = TakeChar(Run(p, s \o u), c)
    BY <2>1, RunAppend
  <2>4. Run(Run(p, s), Append(u, c)) = TakeChar(Run(Run(p, s), u), c)
    BY <2>2, RunAppend
  <2> QED
    BY <1>2, <2>1, <2>3, <2>4
<1> HIDE DEF T
<1>3. \A u \in Seq(Char): u \in T
  BY <1>1, <1>2, SeqInduction
<1> QED
  BY <1>3 DEF T

\* Backslashes are counted.
LEMMA RunSlashes ==
  ASSUME NEW v \in Seq(Seq(Char)), NEW a \in Seq(Char), NEW k \in Nat,
         NEW n \in Nat
  PROVE  Run(At(v, a, TRUE, k), Slash(n)) = At(v, a, TRUE, k + n)
<1> DEFINE T == {m \in 0..n: Run(At(v, a, TRUE, k), Slash(m)) = At(v, a, TRUE, k + m)}
<1>0. At(v, a, TRUE, k) \in State
  BY StatesAre
<1>1. 0 \in T
  <2>1. k + 0 = k /\ 0 \in 0..n
    OBVIOUS
  <2>2. Run(At(v, a, TRUE, k), Slash(0)) = At(v, a, TRUE, k)
    BY <1>0, NoSlash, RunEmpty
  <2> QED
    BY <2>1, <2>2
<1>2. ASSUME NEW m \in 1..n, m - 1 \in T PROVE m \in T
  <2>1. m - 1 \in Nat /\ (m - 1) + 1 = m /\ (k + (m - 1)) + 1 = k + m /\ m \in 0..n
    OBVIOUS
  <2>2. Slash(m) = Append(Slash(m - 1), "slash") /\ Slash(m - 1) \in Seq(Char)
    BY <2>1, SlashMore, SlashSeq
  <2>3. Run(At(v, a, TRUE, k), Slash(m)) = TakeChar(Run(At(v, a, TRUE, k), Slash(m - 1)), "slash")
    <3> DEFINE f == At(v, a, TRUE, k)
               x == Slash(m - 1)
    <3>1. x \in Seq(Char) /\ f \in State /\ "slash" \in Char
      BY <1>0, <2>2, CharHas
    <3>2. Slash(m) = Append(x, "slash")
      BY <2>2
    <3> HIDE DEF x, f
    <3>3. Run(f, Append(x, "slash")) = TakeChar(Run(f, x), "slash")
      BY <3>1, RunAppend
    <3>4. Run(f, Slash(m)) = TakeChar(Run(f, x), "slash")
      BY <3>2, <3>3, Zenon
    <3> QED
      BY <3>4 DEF f, x
  <2> DEFINE j == k + (m - 1)
  <2>5. Run(At(v, a, TRUE, k), Slash(m - 1)) = At(v, a, TRUE, j) /\ j + 1 = k + m
    BY <1>2, <2>1
  <2> HIDE DEF j
  <2>4. TakeChar(At(v, a, TRUE, j), "slash") = At(v, a, TRUE, j + 1)
    BY TakeSlash, Zenon
  <2> QED
    BY <2>1, <2>3, <2>4, <2>5
<1> HIDE DEF T
<1>3. \A m \in 0..n: m \in T
  BY <1>1, <1>2, Induction
<1>4. n \in 0..n
  OBVIOUS
<1> QED
  BY <1>3, <1>4 DEF T

-----------------------------------------------------------------------------
(* What escaping does to an argument, and what the parser makes of it.     *)

\* An escaped text with the backslashes held back.
Escape == [text: Seq(Char), slashes: Nat]
NoText == [text |-> <<>>, slashes |-> 0]
Esc(arg) == Escaping(arg)[Len(arg)]

\* Escaping keeps to the characters.
LEMMA EscapeCharType ==
  ASSUME NEW e \in Escape, NEW c \in Char
  PROVE  EscapeChar(e, c) \in Escape
<1>1. e.slashes \in Nat /\ 2 * e.slashes + 1 \in Nat /\ e.slashes + 1 \in Nat /\ e.text \in Seq(Char)
  BY DEF Escape
<1>2. \A n \in Nat: Append(e.text \o Repeat(n, "slash"), c) \in Seq(Char)
  BY <1>1, SlashSeq DEF Slash
<1>3. CASE c = "slash"
  <2>1. EscapeChar(e, c) = [e EXCEPT !.slashes = @ + 1]
    BY <1>3 DEF EscapeChar
  <2> QED
    BY <1>1, <2>1 DEF Escape
<1>4. CASE c = "quote"
  <2>1. EscapeChar(e, c) = [text |-> Append(e.text \o Repeat(2 * e.slashes + 1, "slash"), c), slashes |-> 0]
    BY <1>4 DEF EscapeChar
  <2>2. Append(e.text \o Repeat(2 * e.slashes + 1, "slash"), c) \in Seq(Char)
    BY <1>1, <1>2
  <2> QED
    BY <2>1, <2>2 DEF Escape
<1>5. CASE c \notin {"slash", "quote"}
  <2>1. EscapeChar(e, c) = [text |-> Append(e.text \o Repeat(e.slashes, "slash"), c), slashes |-> 0]
    BY <1>5 DEF EscapeChar
  <2>2. Append(e.text \o Repeat(e.slashes, "slash"), c) \in Seq(Char)
    BY <1>1, <1>2
  <2> QED
    BY <2>1, <2>2 DEF Escape
<1> QED
  BY <1>3, <1>4, <1>5

\* The recursive function that escapes, unfolded.
LEMMA EscapingIs ==
  ASSUME NEW s \in Seq(Char)
  PROVE  /\ Escaping(s) \in [0..Len(s) -> Escape] /\ Escaping(s)[0] = NoText
         /\ \A i \in 1..Len(s): Escaping(s)[i] = EscapeChar(Escaping(s)[i - 1], s[i])
<1> DEFINE n == Len(s)
           step == [i \in 1..n |-> [q \in Escape |-> EscapeChar(q, s[i])]]
<1>1. n \in Nat /\ \A i \in 1..n: s[i] \in Char
  OBVIOUS
<1> HIDE DEF n
<1>2. step \in [1..n -> [Escape -> Escape]]
  BY <1>1, EscapeCharType
<1>3. \A i \in 1..n, q \in Escape: step[i][q] = EscapeChar(q, s[i])
  OBVIOUS
<1>0. NoText \in Escape
  BY DEF NoText, Escape
<1> HIDE DEF step
<1>4. PICK f \in [0..n -> Escape]: Folds(f, n, NoText, step)
  BY <1>0, <1>1, <1>2, FoldExists
<1>5. ASSUME NEW i \in 0..n
      PROVE  f[i] = IF i = 0 THEN NoText ELSE EscapeChar(f[i - 1], s[i])
  <2>1. CASE i = 0
    BY <1>4, <2>1 DEF Folds
  <2>2. CASE i # 0
    <3>1. i \in 1..n /\ i - 1 \in 0..n
      BY <1>1, <2>2
    <3>2. f[i] = step[i][f[i - 1]] /\ f[i - 1] \in Escape
      BY <1>4, <3>1 DEF Folds
    <3> QED
      BY <1>3, <2>2, <3>1, <3>2
  <2> QED
    BY <2>1, <2>2
<1>6. f = [i \in 0..n |-> IF i = 0 THEN NoText ELSE EscapeChar(f[i - 1], s[i])]
  BY <1>5
<1> DEFINE g == Escaping(s)
<1>7. g = [i \in 0..n |-> IF i = 0 THEN NoText ELSE EscapeChar(g[i - 1], s[i])]
  BY <1>6 DEF Escaping, n, NoText
<1> HIDE DEF g
<1>8. g[0] = NoText /\ \A i \in 1..n: g[i] = EscapeChar(g[i - 1], s[i])
  BY <1>1, <1>7
<1>9. \A i \in 0..n: g[i] = f[i]
  <2>1. GoOnAlike(n, f, g)
    BY <1>1, <1>5, <1>8 DEF GoOnAlike
  <2>2. Alike(n, f, g)
    BY <1>1, <2>1, SameFold
  <2> QED
    BY <2>2 DEF Alike
<1>10. g \in [0..n -> Escape]
  BY <1>4, <1>7, <1>9
<1> QED
  BY <1>8, <1>10 DEF g, n

\* No text escapes to no text.
LEMMA EscEmpty == Esc(<<>>) = NoText
<1>1. <<>> \in Seq(Char) /\ Len(<<>>) = 0
  OBVIOUS
<1> QED
  BY <1>1, EscapingIs DEF Esc

\* Types.
LEMMA EscType ==
  ASSUME NEW s \in Seq(Char)
  PROVE  Esc(s) \in Escape
<1>1. Escaping(s) \in [0..Len(s) -> Escape]
  BY EscapingIs
<1>2. Len(s) \in 0..Len(s)
  OBVIOUS
<1> QED
  BY <1>1, <1>2 DEF Esc

\* The last character is escaped last.
LEMMA EscAppend ==
  ASSUME NEW s \in Seq(Char), NEW c \in Char
  PROVE  Esc(Append(s, c)) = EscapeChar(Esc(s), c)
<1> DEFINE t == Append(s, c)
           n == Len(s)
           f == Escaping(t)
           g == Escaping(s)
<1>1. n \in Nat /\ t \in Seq(Char) /\ Len(t) = n + 1 /\ t[n + 1] = c /\ \A i \in 1..n: t[i] = s[i]
  OBVIOUS
<1> HIDE DEF t
<1>2. f[0] = NoText /\ \A i \in 1..(n + 1): f[i] = EscapeChar(f[i - 1], t[i])
  BY <1>1, EscapingIs
<1>3. g[0] = NoText /\ \A i \in 1..n: g[i] = EscapeChar(g[i - 1], s[i])
  BY EscapingIs
<1> HIDE DEF n, f, g
<1>4. GoOnAlike(n, f, g)
  <2>1. \A i \in 1..n: f[i] = EscapeChar(f[i - 1], s[i])
    BY <1>1, <1>2
  <2> QED
    BY <1>2, <1>3, <2>1 DEF GoOnAlike
<1>5. f[n] = g[n]
  <2>1. Alike(n, f, g)
    BY <1>1, <1>4, SameFold
  <2> QED
    BY <1>1, <2>1 DEF Alike
<1>6. f[n + 1] = EscapeChar(f[n], c)
  <2>1. n + 1 \in 1..(n + 1) /\ (n + 1) - 1 = n
    BY <1>1
  <2> QED
    BY <1>1, <1>2, <2>1
<1> QED
  BY <1>1, <1>5, <1>6 DEF Esc, f, g, t, n

----
\* What an escaped text means to the parser inside quotes: the characters
\* up to the backslashes that are held back.
ReadsAs(text, d) ==
  \A v \in Seq(Seq(Char)): Run(At(v, <<>>, TRUE, 0), text) = At(v, d, TRUE, 0)

\* An escaped argument e reads as d, and d with what is held back is arg.
Reads(d, e, arg) ==
  /\ arg = d \o Slash(e.slashes)
  /\ ReadsAs(e.text, d)

Means(arg) == \E d \in Seq(Char): Reads(d, Esc(arg), arg)

\* So it is for the empty argument.
LEMMA MeansEmpty == Means(<<>>)
<1>1. Esc(<<>>) = NoText /\ NoText.text = <<>> /\ NoText.slashes = 0
  BY EscEmpty DEF NoText
<1>2. <<>> = <<>> \o Slash(0) /\ <<>> \in Seq(Char)
  BY NoSlash
<1>3. \A v \in Seq(Seq(Char)): Run(At(v, <<>>, TRUE, 0), <<>>) = At(v, <<>>, TRUE, 0)
  BY <1>2, StatesAre, RunEmpty
<1> QED
  BY <1>1, <1>2, <1>3 DEF Means, Reads, ReadsAs

\* A character after its backslashes.
LEMMA AppendAssoc ==
  ASSUME NEW d \in Seq(Char), NEW b \in Seq(Char), NEW c \in Char
  PROVE  Append(d \o b, c) = d \o Append(b, c)
OBVIOUS

\* Twice as many backslashes and one before a quote make it a character.
LEMMA RunEscaped ==
  ASSUME NEW v \in Seq(Seq(Char)), NEW d \in Seq(Char), NEW text \in Seq(Char),
         NEW m \in Nat, NEW c \in Char, Run(At(v, <<>>, TRUE, 0), text) = At(v, d, TRUE, 0)
  PROVE  Run(At(v, <<>>, TRUE, 0), Append(text \o Slash(m), c)) = TakeChar(At(v, d, TRUE, m), c)
<1>0. <<>> \in Seq(Char)
  OBVIOUS
<1>1. At(v, <<>>, TRUE, 0) \in State /\ Slash(m) \in Seq(Char)
  BY <1>0, StatesAre, SlashSeq
<1> DEFINE p == At(v, <<>>, TRUE, 0)
           q == At(v, d, TRUE, 0)
           b == Slash(m)
           z == text \o b
<1>2. p \in State /\ b \in Seq(Char) /\ Run(p, text) = q
  BY <1>1
<1>3. Run(q, b) = At(v, d, TRUE, m)
  <2>1. 0 + m = m
    OBVIOUS
  <2>2. Run(q, b) = At(v, d, TRUE, 0 + m)
    BY RunSlashes
  <2> QED
    BY <2>1, <2>2
<1> HIDE DEF p, q, b
<1>4. z \in Seq(Char)
  BY <1>2
<1>5. Run(p, z) = Run(Run(p, text), b)
  BY <1>2, RunConcat
<1> HIDE DEF z
<1>6. Run(p, Append(z, c)) = TakeChar(Run(p, z), c)
  BY <1>2, <1>4, RunAppend
<1> QED
  BY <1>2, <1>3, <1>5, <1>6 DEF p, z, b

\* How the meaning grows with a character.
LEMMA NewMeaning ==
  ASSUME NEW arg, NEW x, NEW f \in Seq(Char), Esc(arg) = [text |-> x, slashes |-> 0],
         arg = f, ReadsAs(x, f)
  PROVE  Means(arg)
<1> DEFINE e == [text |-> x, slashes |-> 0]
<1>1. e.text = x /\ e.slashes = 0
  OBVIOUS
<1>2. f \o Slash(0) = f
  <2>1. f \o <<>> = f
    OBVIOUS
  <2> QED
    BY <2>1, NoSlash
<1> HIDE DEF e
<1>3. Esc(arg) = e
  BY DEF e
<1>4. Reads(f, e, arg)
  BY <1>1, <1>2 DEF Reads
<1> QED
  BY <1>3, <1>4 DEF Means

\* So it is for one more character.
LEMMA MeansAppend ==
  ASSUME NEW arg \in Seq(Char), NEW c \in Char, Means(arg)
  PROVE  Means(Append(arg, c))
<1> DEFINE e == Esc(arg)
           m == e.slashes
           x == e.text
<1>1. PICK d \in Seq(Char): arg = d \o Slash(m) /\ ReadsAs(x, d)
  BY DEF Means, Reads
<1>2. m \in Nat /\ x \in Seq(Char) /\ Esc(Append(arg, c)) = EscapeChar(e, c)
  BY EscType, EscAppend DEF Escape
<1>3. Slash(m) \in Seq(Char) /\ Slash(0) = <<>> /\ Append(Slash(m), "slash") = Slash(m + 1)
  BY <1>2, SlashSeq, SlashMore, NoSlash
<1>0. d \in Seq(Char)
  BY <1>1
<1>4. Append(arg, c) = d \o Append(Slash(m), c)
  <2> DEFINE b == Slash(m)
  <2>1. b \in Seq(Char)
    BY <1>3
  <2> HIDE DEF b
  <2>3. Append(d \o b, c) = d \o Append(b, c)
    BY <1>0, <2>1, AppendAssoc
  <2> QED
    BY <1>1, <2>3 DEF b
<1> DEFINE f == Append(d \o Slash(m), c)
<1>5. f \in Seq(Char) /\ Append(arg, c) = f
  BY <1>0, <1>1, <1>3
<1>8. CASE c = "slash"
  <2>1. EscapeChar(e, c).slashes = m + 1 /\ EscapeChar(e, c).text = x
    BY <1>8, EscType DEF EscapeChar, Escape
  <2>2. Append(arg, c) = d \o Slash(m + 1)
    BY <1>3, <1>4, <1>8
  <2>3. Reads(d, EscapeChar(e, c), Append(arg, c))
    BY <1>1, <2>1, <2>2 DEF Reads
  <2> QED
    BY <1>0, <1>2, <2>3 DEF Means
<1>6. CASE c = "quote"
  <2> DEFINE y == Append(x \o Slash(2 * m + 1), c)
  <2>1. Esc(Append(arg, c)) = [text |-> y, slashes |-> 0]
    BY <1>2, <1>6 DEF EscapeChar, Slash
  <2>2. ASSUME NEW v \in Seq(Seq(Char))
        PROVE  Run(At(v, <<>>, TRUE, 0), y) = At(v, f, TRUE, 0)
    <3>1. 2 * m + 1 \in Nat
      BY <1>2
    <3>2. Run(At(v, <<>>, TRUE, 0), x) = At(v, d, TRUE, 0)
      BY <1>1 DEF ReadsAs
    <3>3. Run(At(v, <<>>, TRUE, 0), y) = TakeChar(At(v, d, TRUE, 2 * m + 1), c)
      BY <1>0, <1>2, <3>1, <3>2, RunEscaped
    <3> QED
      BY <1>2, <1>6, <3>3, TakeOddQuote
  <2>3. ReadsAs(y, f)
    BY <2>2 DEF ReadsAs
  <2> HIDE DEF y, f
  <2> QED
    BY <1>5, <2>1, <2>3, NewMeaning
<1>7. CASE c \notin {"slash", "quote"}
  <2> DEFINE y == Append(x \o Slash(m), c)
  <2>1. Esc(Append(arg, c)) = [text |-> y, slashes |-> 0]
    BY <1>2, <1>7 DEF EscapeChar, Slash
  <2>2. ASSUME NEW v \in Seq(Seq(Char))
        PROVE  Run(At(v, <<>>, TRUE, 0), y) = At(v, f, TRUE, 0)
    <3>2. Run(At(v, <<>>, TRUE, 0), x) = At(v, d, TRUE, 0)
      BY <1>1 DEF ReadsAs
    <3>3. Run(At(v, <<>>, TRUE, 0), y) = TakeChar(At(v, d, TRUE, m), c)
      BY <1>0, <1>2, <3>2, RunEscaped
    <3>4. TakeChar(At(v, d, TRUE, m), c) = At(v, f, TRUE, 0)
      BY <1>7 DEF At, TakeChar, Flush, Slash
    <3> QED
      BY <3>3, <3>4
  <2>3. ReadsAs(y, f)
    BY <2>2 DEF ReadsAs
  <2> HIDE DEF y, f
  <2> QED
    BY <1>5, <2>1, <2>3, NewMeaning
<1> QED
  BY <1>6, <1>7, <1>8

\* An escaped argument means the argument.
LEMMA AllMean ==
  ASSUME NEW arg \in Seq(Char)
  PROVE  Means(arg)
<1> DEFINE T == {s \in Seq(Char): Means(s)}
<1>1. <<>> \in T
  BY MeansEmpty
<1>2. ASSUME NEW s \in Seq(Char), NEW c \in Char, s \in T
      PROVE  Append(s, c) \in T
  BY <1>2, MeansAppend
<1> HIDE DEF T
<1>3. \A s \in Seq(Char): s \in T
  BY <1>1, <1>2, SeqInduction
<1> QED
  BY <1>3 DEF T

-----------------------------------------------------------------------------
(* One argument of a command line.                                         *)

\* A text of one character.
LEMMA RunOne ==
  ASSUME NEW p \in State, NEW c \in Char
  PROVE  Run(p, <<c>>) = TakeChar(p, c)
<1>1. <<c>> = Append(<<>>, c) /\ <<>> \in Seq(Char)
  OBVIOUS
<1>2. Run(p, Append(<<>>, c)) = TakeChar(Run(p, <<>>), c)
  BY <1>1, RunAppend
<1> QED
  BY <1>1, <1>2, RunEmpty

\* The parser is in the word that follows the arguments v.
InWord(p, v, word) ==
  \E a \in Seq(Char), k \in Nat: p = At(v, a, FALSE, k) /\ word = a \o Slash(k)

\* A word that is ended is an argument.
LEMMA WordEnds ==
  ASSUME NEW p, NEW v, NEW word, InWord(p, v, word)
  PROVE  TakeChar(p, "space") = Fresh(Append(v, word)) /\ EndArg(p) = Fresh(Append(v, word))
<1>1. PICK a \in Seq(Char), k \in Nat: p = At(v, a, FALSE, k) /\ word = a \o Slash(k)
  BY DEF InWord
<1>2. TakeChar(At(v, a, FALSE, k), "space") = Fresh(Append(v, a \o Slash(k)))
  BY TakeSpace, Zenon
<1>3. EndArg(At(v, a, FALSE, k)) = Fresh(Append(v, a \o Slash(k)))
  BY EndArgAt, Zenon
<1> QED
  BY <1>1, <1>2, <1>3, Zenon

\* A quoted argument is a text.
LEMMA QuotedType ==
  ASSUME NEW arg \in Seq(Char)
  PROVE  Escaped(arg) \in Seq(Char) /\ Quoted(arg) \in Seq(Char)
<1>1. Esc(arg).text \in Seq(Char) /\ 2 * Esc(arg).slashes \in Nat
  BY EscType DEF Escape
<1>2. Escaped(arg) = Esc(arg).text \o Slash(2 * Esc(arg).slashes)
  BY DEF Escaped, Esc, Slash
<1>3. Slash(2 * Esc(arg).slashes) \in Seq(Char)
  BY <1>1, SlashSeq
<1>4. Escaped(arg) \in Seq(Char)
  BY <1>1, <1>2, <1>3
<1>5. <<"quote">> \in Seq(Char)
  BY CharHas
<1>6. (<<"quote">> \o Escaped(arg)) \o <<"quote">> \in Seq(Char)
  BY <1>4, <1>5
<1> QED
  BY <1>4, <1>6 DEF Quoted

\* An argument in quotes is read as itself.
LEMMA ReadsQuoted ==
  ASSUME NEW v \in Seq(Seq(Char)), NEW arg \in Seq(Char)
  PROVE  InWord(Run(Fresh(v), (<<"quote">> \o Escaped(arg)) \o <<"quote">>), v, arg)
<1> DEFINE m == Esc(arg).slashes
           x == Esc(arg).text
           q == <<"quote">>
           z == Slash(2 * m)
           r == At(v, <<>>, TRUE, 0)
<1>1. PICK d \in Seq(Char): arg = d \o Slash(m) /\ ReadsAs(x, d)
  BY AllMean DEF Means, Reads
<1>0. d \in Seq(Char)
  BY <1>1
<1>2. m \in Nat /\ 2 * m \in Nat /\ x \in Seq(Char)
  BY EscType DEF Escape
<1>3. z \in Seq(Char) /\ q \in Seq(Char) /\ "quote" \in Char /\ <<>> \in Seq(Char)
  BY <1>2, SlashSeq, CharHas
<1>4. Escaped(arg) = x \o z
  BY DEF Escaped, Esc, Slash
<1>5. Fresh(v) \in State /\ r \in State
  BY <1>3, StatesAre
<1>6. Run(Fresh(v), q) = r
  BY <1>3, <1>5, RunOne, TakeFirst
<1>7. Run(r, x) = At(v, d, TRUE, 0)
  BY <1>1 DEF ReadsAs
<1>8. Run(At(v, d, TRUE, 0), z) = At(v, d, TRUE, 2 * m)
  <2> DEFINE e == 2 * m
             e0 == 0 + 2 * m
  <2>1. e \in Nat /\ e0 = e /\ 0 \in Nat
    BY <1>2
  <2> HIDE DEF m
  <2>2. Run(At(v, d, TRUE, 0), Slash(e)) = At(v, d, TRUE, 0 + e)
    BY <1>0, <2>1, RunSlashes, Zenon
  <2> QED
    BY <2>1, <2>2, Zenon
<1>9. Run(r, x \o z) = At(v, d, TRUE, 2 * m)
  <2> HIDE DEF x, z, r
  <2>1. Run(r, x \o z) = Run(Run(r, x), z)
    BY <1>2, <1>3, <1>5, RunConcat, Zenon
  <2> QED
    BY <1>7, <1>8, <2>1
<1>10. Run(Fresh(v), q \o (x \o z)) = At(v, d, TRUE, 2 * m)
  <2>1. x \o z \in Seq(Char)
    BY <1>2, <1>3
  <2>2. Run(Fresh(v), q \o (x \o z)) = Run(Run(Fresh(v), q), x \o z)
    <3> DEFINE y == x \o z
               f == Fresh(v)
    <3>1. y \in Seq(Char) /\ f \in State
      BY <1>5, <2>1
    <3> HIDE DEF y, f, q
    <3>2. q \in Seq(Char)
      BY <1>3
    <3>3. Run(f, q \o y) = Run(Run(f, q), y)
      BY <3>1, <3>2, RunConcat
    <3> QED
      BY <3>3 DEF f, y
  <2> QED
    BY <1>6, <1>9, <2>2
<1>11. Run(Fresh(v), (q \o (x \o z)) \o q) = At(v, arg, FALSE, 0)
  <2> DEFINE s == q \o (x \o z)
  <2>1. s \in Seq(Char)
    BY <1>2, <1>3
  <2> HIDE DEF s
  <2>2. s \o q = Append(s, "quote")
    BY <1>3, <2>1, AppendIsConcat
  <2> USE DEF s
  <2>0. Run(Fresh(v), s) = At(v, d, TRUE, 2 * m)
    BY <1>10
  <2> HIDE DEF s, q
  <2>3. Run(Fresh(v), Append(s, "quote")) = TakeChar(Run(Fresh(v), s), "quote")
    BY <1>3, <1>5, <2>1, RunAppend
  <2>4. TakeChar(At(v, d, TRUE, 2 * m), "quote") = At(v, d \o Slash(m), FALSE, 0)
    BY <1>2, TakeEvenQuote
  <2>5. Run(Fresh(v), s \o q) = At(v, arg, FALSE, 0)
    BY <1>1, <2>0, <2>2, <2>3, <2>4
  <2> QED
    BY <2>5 DEF s
<1>12. arg = arg \o Slash(0) /\ 0 \in Nat
  <2>1. arg \o <<>> = arg
    OBVIOUS
  <2> QED
    BY <2>1, NoSlash
<1>13. InWord(At(v, arg, FALSE, 0), v, arg)
  BY <1>12 DEF InWord
<1> QED
  BY <1>4, <1>11, <1>13

\* Text without white space and quotes.
Plain(s) == \A i \in 1..Len(s): s[i] \notin {"space", "quote"}

\* An argument that needs none is, too.
LEMMA ReadsPlain ==
  ASSUME NEW v \in Seq(Seq(Char)), NEW arg \in Seq(Char), arg # <<>>, Plain(arg)
  PROVE  InWord(Run(Fresh(v), arg), v, arg)
<1> DEFINE T == {s \in Seq(Char): s # <<>> /\ Plain(s) => InWord(Run(Fresh(v), s), v, s)}
<1>0. Fresh(v) \in State /\ <<>> \in Seq(Char)
  <2>1. <<>> \in Seq(Char) /\ 0 \in Nat
    OBVIOUS
  <2> QED
    BY <2>1, StatesAre
<1>1. <<>> \in T
  BY <1>0
<1>2. ASSUME NEW s \in Seq(Char), NEW c \in Char, s \in T
      PROVE  Append(s, c) \in T
  <2> DEFINE t == Append(s, c)
  <2> SUFFICES ASSUME Plain(t) PROVE InWord(Run(Fresh(v), t), v, t)
    OBVIOUS
  <2>1. Len(t) = Len(s) + 1 /\ t[Len(s) + 1] = c /\ (\A i \in 1..Len(s): t[i] = s[i]) /\ Len(s) \in Nat
    OBVIOUS
  <2> HIDE DEF t
  <2>2. c \notin {"space", "quote"}
    BY <2>1 DEF Plain
  <2>3. Plain(s)
    BY <2>1 DEF Plain
  <2>4. Run(Fresh(v), t) = TakeChar(Run(Fresh(v), s), c)
    BY <1>0, RunAppend DEF t
  <2>5. CASE s = <<>> /\ c = "slash"
    <3>1. Run(Fresh(v), t) = At(v, <<>>, FALSE, 1)
      BY <1>0, <2>4, <2>5, RunEmpty, TakeFirst
    <3>2. t = <<>> \o Slash(1)
      <4>0. 0 \in Nat /\ 0 + 1 = 1
        OBVIOUS
      <4>1. Append(Slash(0), "slash") = Slash(1) /\ Slash(0) = <<>>
        BY <4>0, SlashMore, NoSlash
      <4>2. Slash(1) \in Seq(Char)
        BY SlashSeq
      <4>3. <<>> \o Slash(1) = Slash(1)
        BY <4>2
      <4> QED
        BY <2>5, <4>1, <4>3 DEF t
    <3> QED
      BY <1>0, <3>1, <3>2 DEF InWord
  <2>6. CASE s = <<>> /\ c # "slash"
    <3>1. Run(Fresh(v), t) = At(v, <<c>>, FALSE, 0)
      BY <1>0, <2>2, <2>4, <2>6, RunEmpty, TakeFirst
    <3>2. t = <<c>> \o Slash(0) /\ <<c>> \in Seq(Char)
      <4>1. <<c>> \o <<>> = <<c>> /\ Append(<<>>, c) = <<c>> /\ <<c>> \in Seq(Char)
        OBVIOUS
      <4> QED
        BY <2>6, <4>1, NoSlash DEF t
    <3> QED
      BY <3>1, <3>2 DEF InWord
  <2>7. CASE s # <<>>
    <3>1. PICK a \in Seq(Char), k \in Nat: Run(Fresh(v), s) = At(v, a, FALSE, k) /\ s = a \o Slash(k)
      BY <1>2, <2>3, <2>7 DEF InWord
    <3>2. a \in Seq(Char) /\ k \in Nat /\ Slash(k) \in Seq(Char)
      BY <3>1, SlashSeq
    <3> DEFINE b == Slash(k)
    <3>3. Append(a \o b, c) = a \o Append(b, c)
      <4>1. b \in Seq(Char)
        BY <3>2
      <4> HIDE DEF b
      <4> QED
        BY <3>2, <4>1, AppendAssoc
    <3>4. CASE c = "slash"
      <4>1. Run(Fresh(v), t) = At(v, a, FALSE, k + 1)
        BY <2>4, <3>1, <3>4, TakeSlash
      <4>2. t = a \o Slash(k + 1)
        BY <3>1, <3>2, <3>3, <3>4, SlashMore DEF t
      <4>3. k + 1 \in Nat
        BY <3>2
      <4> QED
        BY <3>2, <4>1, <4>2, <4>3 DEF InWord
    <3>5. CASE c # "slash"
      <4>1. Run(Fresh(v), t) = At(v, Append(a \o Slash(k), c), FALSE, 0)
        <5>1. c \notin {"slash", "quote", "space"}
          BY <2>2, <3>5
        <5>2. TakeChar(At(v, a, FALSE, k), c) = At(v, Append(a \o Slash(k), c), FALSE, 0)
          BY <5>1 DEF At, TakeChar, Flush, Slash
        <5> QED
          BY <2>4, <3>1, <5>2
      <4>2. t = Append(a \o Slash(k), c)
        BY <3>1 DEF t
      <4>3. t \in Seq(Char)
        BY DEF t
      <4>4. t = t \o Slash(0) /\ 0 \in Nat
        <5>1. t \o <<>> = t
          BY <4>3
        <5> QED
          BY <5>1, NoSlash
      <4>5. Run(Fresh(v), t) = At(v, t, FALSE, 0)
        BY <4>1, <4>2
      <4> QED
        BY <4>3, <4>4, <4>5 DEF InWord
    <3> QED
      BY <3>4, <3>5
  <2> QED
    BY <2>5, <2>6, <2>7
<1> HIDE DEF T
<1>3. \A s \in Seq(Char): s \in T
  BY <1>1, <1>2, SeqInduction
<1> QED
  BY <1>3 DEF T

\* The code's test for it.
LEMMA BareIsPlain ==
  ASSUME NEW arg \in Seq(Char), IsBare(arg)
  PROVE  arg # <<>> /\ Plain(arg)
BY DEF IsBare, Plain, ToSet

\* Either way the parser reads the argument.
LEMMA ReadsArg ==
  ASSUME NEW v \in Seq(Seq(Char)), NEW arg \in Seq(Char)
  PROVE  InWord(Run(Fresh(v), Quoted(arg)), v, arg)
<1>1. CASE IsBare(arg)
  BY <1>1, BareIsPlain, ReadsPlain DEF Quoted
<1>2. CASE ~IsBare(arg)
  BY <1>2, ReadsQuoted DEF Quoted
<1> QED
  BY <1>1, <1>2

-----------------------------------------------------------------------------
(* All arguments.                                                          *)

\* Arguments as they are given.
Args == Seq(Seq(Char))
Text == Seq(Char)
Blank(arg) == <<"space">> \o Quoted(arg)

\* A blank and an argument are text.
LEMMA BlankType ==
  ASSUME NEW arg \in Text
  PROVE  Blank(arg) \in Text
<1>1. <<"space">> \in Text /\ Quoted(arg) \in Text
  BY CharHas, QuotedType DEF Text
<1> QED
  BY <1>1 DEF Blank, Text

With(q, arg) == q \o Blank(arg)

\* The recursive function that joins arguments, unfolded.
LEMMA FollowIs ==
  ASSUME NEW s \in Args
  PROVE  /\ Follow(s) \in [0..Len(s) -> Text] /\ Follow(s)[0] = <<>>
         /\ \A i \in 1..Len(s): Follow(s)[i] = With(Follow(s)[i - 1], s[i])
<1> DEFINE n == Len(s)
           step == [i \in 1..n |-> [q \in Text |-> With(q, s[i])]]
<1>1. n \in Nat /\ \A i \in 1..n: s[i] \in Text
  BY DEF Args, Text
<1> HIDE DEF n
<1>2. step \in [1..n -> [Text -> Text]]
  <2>1. ASSUME NEW i \in 1..n, NEW q \in Text PROVE With(q, s[i]) \in Text
    <3>1. Blank(s[i]) \in Text
      BY <1>1, BlankType
    <3> QED
      BY <3>1 DEF Text, With
  <2> QED
    BY <2>1
<1>3. \A i \in 1..n, q \in Text: step[i][q] = With(q, s[i])
  OBVIOUS
<1>0. <<>> \in Text
  BY DEF Text
<1> HIDE DEF step
<1>4. PICK f \in [0..n -> Text]: Folds(f, n, <<>>, step)
  BY <1>0, <1>1, <1>2, FoldExists
<1>5. ASSUME NEW i \in 0..n
      PROVE  f[i] = IF i = 0 THEN <<>> ELSE With(f[i - 1], s[i])
  <2>1. CASE i = 0
    BY <1>4, <2>1 DEF Folds
  <2>2. CASE i # 0
    <3>1. i \in 1..n /\ i - 1 \in 0..n
      BY <1>1, <2>2
    <3>2. f[i] = step[i][f[i - 1]] /\ f[i - 1] \in Text
      BY <1>4, <3>1 DEF Folds
    <3> QED
      BY <1>3, <2>2, <3>1, <3>2
  <2> QED
    BY <2>1, <2>2
<1>6. f = [i \in 0..n |-> IF i = 0 THEN <<>> ELSE With(f[i - 1], s[i])]
  BY <1>5
<1> DEFINE g == Follow(s)
<1>7. g = [i \in 0..n |-> IF i = 0 THEN <<>> ELSE With(g[i - 1], s[i])]
  BY <1>6 DEF Follow, n, Blank, With
<1> HIDE DEF g
<1>8. g[0] = <<>> /\ \A i \in 1..n: g[i] = With(g[i - 1], s[i])
  BY <1>1, <1>7
<1>9. \A i \in 0..n: g[i] = f[i]
  <2>1. GoOnAlike(n, f, g)
    BY <1>1, <1>5, <1>8 DEF GoOnAlike
  <2>2. Alike(n, f, g)
    BY <1>1, <2>1, SameFold
  <2> QED
    BY <2>2 DEF Alike
<1>10. g \in [0..n -> Text]
  BY <1>4, <1>7, <1>9
<1> QED
  BY <1>8, <1>10 DEF g, n

Line(s) == Follow(s)[Len(s)]

\* No arguments make no line.
LEMMA LineEmpty == Line(<<>>) = <<>>
<1>1. <<>> \in Args /\ Len(<<>>) = 0
  BY DEF Args
<1> QED
  BY <1>1, FollowIs DEF Line

\* A line is text.
LEMMA LineType ==
  ASSUME NEW s \in Args
  PROVE  Line(s) \in Text
<1>1. Follow(s) \in [0..Len(s) -> Text]
  BY FollowIs
<1>2. Len(s) \in 0..Len(s)
  BY DEF Args
<1> QED
  BY <1>1, <1>2 DEF Line

\* The last argument is joined last.
LEMMA LineAppend ==
  ASSUME NEW s \in Args, NEW c \in Text
  PROVE  Line(Append(s, c)) = With(Line(s), c)
<1> DEFINE t == Append(s, c)
           n == Len(s)
           f == Follow(t)
           g == Follow(s)
<1>1. n \in Nat /\ t \in Args /\ Len(t) = n + 1 /\ t[n + 1] = c /\ \A i \in 1..n: t[i] = s[i]
  BY DEF Args, Text
<1> HIDE DEF t
<1>2. f[0] = <<>> /\ \A i \in 1..(n + 1): f[i] = With(f[i - 1], t[i])
  BY <1>1, FollowIs
<1>3. g[0] = <<>> /\ \A i \in 1..n: g[i] = With(g[i - 1], s[i])
  BY FollowIs
<1> HIDE DEF n, f, g
<1>4. GoOnAlike(n, f, g)
  <2>1. \A i \in 1..n: f[i] = With(f[i - 1], s[i])
    BY <1>1, <1>2
  <2> QED
    BY <1>2, <1>3, <2>1 DEF GoOnAlike
<1>5. f[n] = g[n]
  <2>1. Alike(n, f, g)
    BY <1>1, <1>4, SameFold
  <2> QED
    BY <1>1, <2>1 DEF Alike
<1>6. f[n + 1] = With(f[n], c)
  <2>1. n + 1 \in 1..(n + 1) /\ (n + 1) - 1 = n
    BY <1>1
  <2> QED
    BY <1>1, <1>2, <2>1
<1> QED
  BY <1>1, <1>5, <1>6 DEF Line, f, g, t, n

\* Between two words: those so far are taken, at a blank as at the end.
Taken(rest) ==
  /\ TakeChar(Run(Fresh(<<>>), Line(rest)), "space") = Fresh(rest)
  /\ EndArg(Run(Fresh(<<>>), Line(rest))).argv = rest

\* So it is without arguments.
LEMMA TakesNothing == Taken(<<>>)
<1>1. <<>> \in Args /\ <<>> \in Text /\ 0 \in Nat
  BY DEF Args, Text
<1>2. Fresh(<<>>) \in State
  BY <1>1, StatesAre DEF Args, Text
<1>3. Run(Fresh(<<>>), <<>>) = Fresh(<<>>)
  BY <1>2, RunEmpty
<1>4. TakeChar(Fresh(<<>>), "space") = Fresh(<<>>)
  BY TakeFirst
<1>5. EndArg(Fresh(<<>>)).argv = <<>>
  BY DEF EndArg, Fresh
<1> QED
  BY <1>3, <1>4, <1>5, LineEmpty DEF Taken

\* So it is with one more.
LEMMA TakesOneMore ==
  ASSUME NEW rest \in Args, NEW arg \in Text, Taken(rest)
  PROVE  Taken(Append(rest, arg))
<1> DEFINE p == Fresh(<<>>)
           s == Line(rest)
           q == Quoted(arg)
           t == <<"space">> \o q
<1>1. rest \in Seq(Seq(Char)) /\ arg \in Seq(Char)
  BY DEF Args, Text
<1>2. s \in Seq(Char) /\ q \in Seq(Char) /\ <<"space">> \in Seq(Char) /\ "space" \in Char
  BY <1>1, LineType, QuotedType, CharHas DEF Text
<1>3. <<>> \in Seq(Seq(Char)) /\ <<>> \in Seq(Char) /\ 0 \in Nat
  OBVIOUS
<1>4. p \in State /\ Fresh(rest) \in State
  BY <1>1, <1>3, StatesAre
<1>5. TakeChar(Run(p, s), "space") = Fresh(rest)
  BY DEF Taken
<1> HIDE DEF p, s, q
<1>6. t \in Seq(Char)
  BY <1>2
<1>7. Run(p, s) \in State
  BY <1>2, <1>4, RunType
<1>8. Run(p, s \o t) = Run(Run(p, s), t)
  BY <1>2, <1>4, <1>6, RunConcat
<1>9. Run(Run(p, s), t) = Run(Run(Run(p, s), <<"space">>), q)
  BY <1>2, <1>7, RunConcat
<1>10. Run(Run(p, s), <<"space">>) = Fresh(rest)
  BY <1>2, <1>5, <1>7, RunOne
<1>11. InWord(Run(Fresh(rest), q), rest, arg)
  BY <1>1, ReadsArg DEF q
<1>12. Run(p, s \o t) = Run(Fresh(rest), q)
  BY <1>8, <1>9, <1>10
<1>13. Line(Append(rest, arg)) = s \o t
  BY LineAppend DEF Blank, With, s, q
<1> HIDE DEF t
<1>14. /\ TakeChar(Run(p, s \o t), "space") = Fresh(Append(rest, arg))
       /\ EndArg(Run(p, s \o t)) = Fresh(Append(rest, arg))
  BY <1>11, <1>12, WordEnds
<1>15. Fresh(Append(rest, arg)).argv = Append(rest, arg)
  BY DEF Fresh
<1> QED
  BY <1>13, <1>14, <1>15 DEF Taken, p

\* So it is with all.
LEMMA TakesAll ==
  ASSUME NEW rest \in Args
  PROVE  Taken(rest)
<1> DEFINE T == {s \in Args: Taken(s)}
<1>1. <<>> \in T
  BY TakesNothing DEF Args
<1>2. ASSUME NEW s \in Seq(Text), NEW c \in Text, s \in T
      PROVE  Append(s, c) \in T
  <2>1. s \in Args /\ Append(s, c) \in Args
    BY DEF Args, Text
  <2> QED
    BY <1>2, <2>1, TakesOneMore
<1> HIDE DEF T
<1>3. \A s \in Seq(Text): s \in T
  BY <1>1, <1>2, SeqInduction
<1> QED
  BY <1>3 DEF T, Args, Text

\* A line reads as its arguments.
LEMMA LineReads ==
  ASSUME NEW rest \in Args
  PROVE  ParsedArguments(Line(rest)) = rest
<1>1. Start = Fresh(<<>>)
  BY DEF Start, Fresh
<1> QED
  BY <1>1, TakesAll DEF Taken, ParsedArguments

\* A blank at the beginning is skipped.
LEMMA BlankSkipped ==
  ASSUME NEW z \in Text
  PROVE  ParsedArguments(<<"space">> \o z) = ParsedArguments(z)
<1>1. Start = Fresh(<<>>)
  BY DEF Start, Fresh
<1>2. <<>> \in Seq(Seq(Char)) /\ <<>> \in Seq(Char) /\ 0 \in Nat
  OBVIOUS
<1>3. Start \in State
  BY <1>1, <1>2, StatesAre
<1>4. "space" \in Char /\ <<"space">> \in Seq(Char) /\ z \in Seq(Char)
  BY CharHas DEF Text
<1>5. Run(Start, <<"space">> \o z) = Run(Run(Start, <<"space">>), z)
  BY <1>3, <1>4, RunConcat
<1>6. Run(Start, <<"space">>) = Start
  BY <1>1, <1>3, <1>4, RunOne, TakeFirst
<1> QED
  BY <1>5, <1>6 DEF ParsedArguments

-----------------------------------------------------------------------------
(* The program's name at the beginning, and the NUL at the end.            *)

\* Min is the least element of a set of numbers.
LEMMA MinIs ==
  ASSUME NEW T \in SUBSET Nat, T # {}
  PROVE  Min(T) \in T /\ \A y \in T: Min(T) <= y
BY Least DEF Min

\* The least element is Min.
LEMMA MinIsThe ==
  ASSUME NEW T \in SUBSET Nat, NEW x \in T, \A y \in T: x <= y
  PROVE  Min(T) = x
<1>1. Min(T) \in T /\ Min(T) <= x /\ x <= Min(T)
  BY MinIs
<1>2. Min(T) \in Nat /\ x \in Nat
  BY <1>1
<1> QED
  BY <1>1, <1>2

\* The first part of a concatenation, cut out.
LEMMA CutLeft ==
  ASSUME NEW C, NEW s \in Seq(C), NEW t \in Seq(C)
  PROVE  SubSeq(s \o t, 1, Len(s)) = s
<1> DEFINE n == Len(s)
           u == SubSeq(s \o t, 1, n)
<1>1. n \in Nat /\ Len(t) \in Nat /\ s \o t \in Seq(C) /\ Len(s \o t) = n + Len(t)
  OBVIOUS
<1>2. u \in Seq(C) /\ Len(u) = n /\ \A i \in 1..n: u[i] = (s \o t)[i]
  BY <1>1
<1>3. \A i \in 1..n: (s \o t)[i] = s[i]
  OBVIOUS
<1> HIDE DEF u
<1>4. \A i \in 1..n: u[i] = s[i]
  BY <1>2, <1>3
<1>5. u = s
  BY <1>2, <1>4, SeqEqual
<1> QED
  BY <1>5 DEF u

\* The second part.
LEMMA CutRight ==
  ASSUME NEW C, NEW s \in Seq(C), NEW t \in Seq(C)
  PROVE  SubSeq(s \o t, Len(s) + 1, Len(s \o t)) = t
<1> DEFINE n == Len(s)
           m == Len(t)
           w == s \o t
           u == SubSeq(w, n + 1, Len(w))
<1>1. n \in Nat /\ m \in Nat /\ w \in Seq(C) /\ Len(w) = n + m
  OBVIOUS
<1>3. \A i \in 1..m: w[i + n] = t[i]
  OBVIOUS
<1> HIDE DEF w, n, m
<1>2. u \in Seq(C) /\ Len(u) = m /\ \A i \in 1..m: u[i] = w[i + n]
  <2>1. u = SubSeq(w, n + 1, n + m)
    BY <1>1
  <2>2. u \in Seq(C)
    BY <1>1, <2>1
  <2>3. Len(u) = m
    BY <1>1, <2>1
  <2>4. ASSUME NEW i \in 1..m PROVE u[i] = w[i + n]
    <3>1. u[i] = w[(n + 1) + i - 1]
      BY <1>1, <2>1
    <3>2. (n + 1) + i - 1 = i + n
      BY <1>1
    <3> QED
      BY <3>1, <3>2
  <2> QED
    BY <2>2, <2>3, <2>4
<1> HIDE DEF u
<1>4. \A i \in 1..m: u[i] = t[i]
  BY <1>2, <1>3
<1>5. u = t
  BY <1>2, <1>4, SeqEqual DEF m
<1> QED
  BY <1>5 DEF u, w, n

\* A C string without a NUL is itself.
LEMMA EndsAtNul ==
  ASSUME NEW s \in Text
  PROVE  CString(s \o <<"nul">>) = s
<1> DEFINE t == s \o <<"nul">>
           Nuls == {i \in DOMAIN t: t[i] = "nul"}
           n == Len(s)
<1>0. "nul" \in Chars /\ "nul" \notin Char /\ s \in Seq(Chars) /\ <<"nul">> \in Seq(Chars)
  BY CharsAssumption DEF Char, Text
<1>1. n \in Nat /\ t \in Seq(Chars) /\ Len(t) = n + 1 /\ DOMAIN t = 1..(n + 1)
  BY <1>0
<1>2. t[n + 1] = "nul"
  BY <1>0
<1>3. \A i \in 1..n: t[i] = s[i] /\ s[i] \in Char
  BY DEF Text
<1> HIDE DEF t
<1>4. Nuls = {n + 1}
  BY <1>0, <1>1, <1>2, <1>3
<1>5. Min(Nuls) = n + 1
  <2>1. Nuls \in SUBSET Nat /\ n + 1 \in Nuls /\ \A y \in Nuls: n + 1 <= y
    BY <1>1, <1>4
  <2> HIDE DEF Nuls
  <2> QED
    BY <2>1, MinIsThe
<1>6. CString(t) = SubSeq(t, 1, n)
  <2>1. Nuls # {} /\ (n + 1) - 1 = n
    BY <1>1, <1>4
  <2>2. CString(t) = SubSeq(t, 1, Min(Nuls) - 1)
    BY <2>1 DEF CString
  <2> HIDE DEF Nuls
  <2> QED
    BY <1>5, <2>1, <2>2
<1> QED
  BY <1>0, <1>6, CutLeft DEF t

\* A line begins with the program.
LEMMA LineBegins ==
  ASSUME NEW rest \in Args
  PROVE  Line(rest) = <<>> \/ \E y \in Text: Line(rest) = <<"space">> \o y
<1> DEFINE Begins(z) == z = <<>> \/ \E y \in Text: z = <<"space">> \o y
           T == {s \in Args: Begins(Line(s))}
<1>1. <<>> \in T
  BY LineEmpty DEF Args
<1>2. ASSUME NEW s \in Seq(Text), NEW c \in Text, s \in T
      PROVE  Append(s, c) \in T
  <2>1. s \in Args /\ Append(s, c) \in Args
    BY DEF Args, Text
  <2>2. Line(Append(s, c)) = Line(s) \o (<<"space">> \o Quoted(c))
    BY <2>1, LineAppend DEF Blank, With
  <2>3. Quoted(c) \in Text /\ <<"space">> \in Text
    BY QuotedType, CharHas DEF Text
  <2>4. CASE Line(s) = <<>>
    <3>1. <<>> \o (<<"space">> \o Quoted(c)) = <<"space">> \o Quoted(c)
      BY <2>3 DEF Text
    <3> QED
      BY <2>1, <2>2, <2>3, <2>4, <3>1
  <2>5. CASE Line(s) # <<>>
    <3>1. PICK y \in Text: Line(s) = <<"space">> \o y
      BY <1>2, <2>5
    <3>2. (<<"space">> \o y) \o (<<"space">> \o Quoted(c)) = <<"space">> \o (y \o (<<"space">> \o Quoted(c)))
      BY <2>3 DEF Text
    <3>3. y \o (<<"space">> \o Quoted(c)) \in Text
      BY <2>3 DEF Text
    <3> QED
      BY <2>1, <2>2, <3>1, <3>2, <3>3
  <2> QED
    BY <2>4, <2>5
<1> HIDE DEF T
<1>3. \A s \in Seq(Text): s \in T
  BY <1>1, <1>2, SeqInduction
<1> QED
  BY <1>3 DEF T, Args, Text

\* A bare program name ends at the blank.
LEMMA BareProgram ==
  ASSUME NEW prog \in Text, prog # <<>>, Plain(prog), NEW rest \in Args
  PROVE  Parsed(prog \o Line(rest)) = <<prog>> \o rest
<1> DEFINE n == Len(prog)
           z == Line(rest)
           s == prog \o z
           m == Len(z)
           E == {i \in 1..Len(s): s[i] = "space"} \cup {Len(s) + 1}
<1>1. z \in Text /\ prog \in Seq(Char) /\ z \in Seq(Char)
  BY LineType DEF Text
<1>2. n \in Nat /\ n >= 1 /\ m \in Nat /\ s \in Seq(Char) /\ Len(s) = n + m
  BY <1>1
<1>3. (\A i \in 1..n: s[i] = prog[i]) /\ (\A i \in 1..m: s[n + i] = z[i])
  BY <1>1
<1>0. s[1] # "quote" /\ \A i \in 1..n: s[i] # "space"
  BY <1>2, <1>3 DEF Plain
<1> HIDE DEF s, z, n, m
<1>4. E \in SUBSET Nat /\ \A y \in E: n + 1 <= y
  BY <1>0, <1>2
<1>5. z = <<>> \/ \E y \in Text: z = <<"space">> \o y
  BY LineBegins DEF z
<1>6. n + 1 \in E
  <2>1. CASE z = <<>>
    <3>1. m = 0
      BY <2>1 DEF m
    <3> QED
      BY <1>2, <3>1
  <2>2. ASSUME NEW y \in Text, z = <<"space">> \o y
        PROVE  n + 1 \in E
    <3>1. z[1] = "space" /\ Len(z) >= 1
      BY <2>2 DEF Text
    <3>2. m >= 1
      BY <3>1 DEF m
    <3>3. s[n + 1] = "space"
      BY <1>2, <1>3, <3>1, <3>2
    <3> QED
      BY <1>2, <3>2, <3>3
  <2> QED
    BY <1>5, <2>1, <2>2
<1>7. ProgramEnd(s) = n + 1
  <2>1. ProgramEnd(s) = Min(E)
    BY <1>0 DEF ProgramEnd
  <2> HIDE DEF E
  <2> QED
    BY <1>4, <1>6, <2>1, MinIsThe
<1>8. ProgramName(s) = prog
  <2>1. ProgramName(s) = SubSeq(s, 1, (n + 1) - 1) /\ (n + 1) - 1 = n
    BY <1>0, <1>2, <1>7 DEF ProgramName
  <2> QED
    BY <1>1, <2>1, CutLeft DEF s, n
<1>9. ParsedArguments(SubSeq(s, (n + 1) + 1, Len(s))) = rest
  <2>1. CASE z = <<>>
    <3>1. m = 0 /\ Len(s) < (n + 1) + 1
      BY <1>2, <2>1 DEF m
    <3>2. SubSeq(s, (n + 1) + 1, Len(s)) = <<>>
      BY <1>2, <3>1, SubSeqEmpty
    <3> QED
      BY <2>1, <3>2, LineReads DEF z
  <2>2. ASSUME NEW y \in Text, z = <<"space">> \o y
        PROVE  ParsedArguments(SubSeq(s, (n + 1) + 1, Len(s))) = rest
    <3>1. y \in Seq(Char) /\ <<"space">> \in Seq(Char)
      BY CharHas DEF Text
    <3> DEFINE h == prog \o <<"space">>
    <3>2. s = h \o y
      BY <1>1, <2>2, <3>1 DEF s
    <3>3. h \in Seq(Char) /\ Len(h) = n + 1
      BY <1>1, <3>1 DEF n
    <3> HIDE DEF h
    <3>4. SubSeq(s, (n + 1) + 1, Len(s)) = y
      BY <3>1, <3>2, <3>3, CutRight
    <3> QED
      BY <2>2, <3>4, BlankSkipped, LineReads DEF z
  <2> QED
    BY <1>5, <2>1, <2>2
<1> QED
  BY <1>7, <1>8, <1>9 DEF Parsed, s, z

\* No quotes.
Unquoted(s) == \A i \in 1..Len(s): s[i] # "quote"

\* So is a program in quotes, which ends at the next quote.
LEMMA QuotedProgram ==
  ASSUME NEW prog \in Text, Unquoted(prog), NEW rest \in Args
  PROVE  Parsed(((<<"quote">> \o prog) \o <<"quote">>) \o Line(rest)) = <<prog>> \o rest
<1> DEFINE n == Len(prog)
           z == Line(rest)
           q == <<"quote">>
           a == q \o prog
           h == a \o q
           s == h \o z
           E == {i \in 2..Len(s): s[i] = "quote"} \cup {Len(s) + 1}
<1>1. z \in Seq(Char) /\ prog \in Seq(Char) /\ q \in Seq(Char) /\ n \in Nat /\ Len(q) = 1 /\ q[1] = "quote"
  BY LineType, CharHas DEF Text
<1>2. a \in Seq(Char) /\ Len(a) = n + 1 /\ a[1] = "quote" /\ \A i \in 1..n: a[i + 1] = prog[i]
  BY <1>1
<1> HIDE DEF a, z, n
<1>3. h \in Seq(Char) /\ Len(h) = n + 2 /\ h[n + 2] = "quote" /\ \A i \in 1..(n + 1): h[i] = a[i]
  BY <1>1, <1>2
<1> HIDE DEF h, q
<1>4. s \in Seq(Char) /\ Len(s) >= n + 2 /\ \A i \in 1..(n + 2): s[i] = h[i]
  BY <1>1, <1>3
<1>5. Len(s) \in Nat
  BY <1>4
<1> HIDE DEF s
<1>6. s[1] = "quote" /\ s[n + 2] = "quote" /\ \A i \in 2..(n + 1): s[i] # "quote"
  <2>1. s[1] = "quote" /\ s[n + 2] = "quote"
    BY <1>1, <1>2, <1>3, <1>4
  <2>2. ASSUME NEW i \in 2..(n + 1) PROVE s[i] # "quote"
    <3>1. i - 1 \in 1..n /\ (i - 1) + 1 = i /\ i \in 1..(n + 1) /\ i \in 1..(n + 2)
      BY <1>1
    <3>2. s[i] = prog[i - 1]
      BY <1>2, <1>3, <1>4, <3>1
    <3> QED
      BY <3>1, <3>2 DEF Unquoted, n
  <2> QED
    BY <2>1, <2>2
<1>7. E \in SUBSET Nat /\ n + 2 \in E /\ \A y \in E: n + 2 <= y
  <2>1. E \in SUBSET Nat
    BY <1>5
  <2>2. n + 2 \in E
    BY <1>1, <1>4, <1>5, <1>6
  <2>3. ASSUME NEW y \in E PROVE n + 2 <= y
    BY <1>1, <1>4, <1>5, <1>6
  <2> QED
    BY <2>1, <2>2, <2>3
<1>8. ProgramEnd(s) = n + 2
  <2>1. ProgramEnd(s) = Min(E)
    BY <1>6 DEF ProgramEnd
  <2> HIDE DEF E
  <2> QED
    BY <1>1, <1>7, <2>1, MinIsThe
<1>9. ProgramName(s) = prog
  <2>1. ProgramName(s) = SubSeq(s, 2, n + 1)
    <3>1. (n + 2) - 1 = n + 1
      BY <1>1
    <3> QED
      BY <1>6, <1>8, <3>1 DEF ProgramName
  <2> DEFINE u == SubSeq(s, 2, n + 1)
  <2>2. n + 1 \in Nat /\ n + 1 <= Len(s)
    BY <1>1, <1>4, <1>5
  <2>3. u \in Seq(Char) /\ Len(u) = n
    BY <1>1, <1>4, <2>2
  <2>4. ASSUME NEW i \in 1..n PROVE u[i] = prog[i]
    <3>1. u[i] = s[2 + i - 1]
      BY <1>1, <1>4, <2>2
    <3>2. 2 + i - 1 = i + 1 /\ i + 1 \in 1..(n + 1) /\ i + 1 \in 1..(n + 2)
      BY <1>1
    <3> QED
      BY <1>2, <1>3, <1>4, <3>1, <3>2
  <2> HIDE DEF u
  <2>5. u = prog
    BY <1>1, <2>3, <2>4, SeqEqual DEF n
  <2> QED
    BY <2>1, <2>5 DEF u
<1>10. SubSeq(s, (n + 2) + 1, Len(s)) = z
  BY <1>1, <1>3, CutRight DEF s
<1> QED
  BY <1>8, <1>9, <1>10, LineReads DEF Parsed, s, h, a, q, z

-----------------------------------------------------------------------------
(* The command line is read as it was written.                             *)

\* Without quotes nothing is added but for backslashes at the end.
Verbatim(s) == s = Esc(s).text \o Slash(Esc(s).slashes)

\* A text without quotes is escaped to itself.
LEMMA EscapesNothing ==
  ASSUME NEW s \in Text, Unquoted(s)
  PROVE  Verbatim(s)
<1> DEFINE T == {t \in Text: Unquoted(t) => Verbatim(t)}
<1>1. <<>> \in T
  <2>1. NoText.text = <<>> /\ NoText.slashes = 0
    BY DEF NoText
  <2>2. <<>> \in Text /\ <<>> \o <<>> = <<>>
    BY DEF Text
  <2>3. Verbatim(<<>>)
    BY <2>1, <2>2, EscEmpty, NoSlash DEF Verbatim
  <2> QED
    BY <2>2, <2>3
<1>2. ASSUME NEW t \in Seq(Char), NEW c \in Char, t \in T
      PROVE  Append(t, c) \in T
  <2> DEFINE u == Append(t, c)
             e == Esc(t)
             m == e.slashes
             x == e.text
  <2>1. Len(u) = Len(t) + 1 /\ u[Len(t) + 1] = c /\ (\A i \in 1..Len(t): u[i] = t[i]) /\ Len(t) \in Nat
        /\ u \in Text
    BY DEF Text
  <2> SUFFICES ASSUME Unquoted(u) PROVE Verbatim(u)
    BY <2>1
  <2>2. m \in Nat /\ x \in Seq(Char)
    BY EscType DEF Escape
  <2>3. Slash(m) \in Seq(Char) /\ Append(Slash(m), "slash") = Slash(m + 1)
    BY <2>2, SlashSeq, SlashMore
  <2>4. Esc(u) = EscapeChar(e, c)
    BY EscAppend
  <2> HIDE DEF u
  <2>5. c # "quote" /\ Unquoted(t)
    BY <2>1 DEF Unquoted
  <2>6. t = x \o Slash(m)
    BY <1>2, <2>5 DEF Verbatim
  <2>7. u = x \o Append(Slash(m), c)
    <3> DEFINE b == Slash(m)
    <3>1. b \in Seq(Char)
      BY <2>3
    <3> HIDE DEF b, x
    <3>2. Append(x \o b, c) = x \o Append(b, c)
      BY <2>2, <3>1, AppendAssoc
    <3> QED
      BY <2>6, <3>2 DEF b, u
  <2>8. CASE c = "slash"
    <3>1. EscapeChar(e, c).slashes = m + 1 /\ EscapeChar(e, c).text = x
      BY <2>8, EscType DEF EscapeChar, Escape
    <3> QED
      BY <2>3, <2>4, <2>7, <2>8, <3>1 DEF Verbatim
  <2>9. CASE c # "slash"
    <3>1. EscapeChar(e, c) = [text |-> Append(x \o Slash(m), c), slashes |-> 0]
      BY <2>5, <2>9 DEF EscapeChar, Slash
    <3>4. Append(x \o Slash(m), c) = u
      BY <2>6 DEF u
    <3> HIDE DEF x, m
    <3>5. Esc(u) = [text |-> u, slashes |-> 0]
      BY <2>4, <3>1, <3>4
    <3>2. Esc(u).text = u /\ Esc(u).slashes = 0
      BY <3>5
    <3>3. u \o Slash(0) = u
      <4>1. u \o <<>> = u
        BY <2>1 DEF Text
      <4> QED
        BY <4>1, NoSlash
    <3> QED
      BY <3>2, <3>3 DEF Verbatim
  <2> QED
    BY <2>8, <2>9
<1> HIDE DEF T
<1>3. \A t \in Seq(Char): t \in T
  BY <1>1, <1>2, SeqInduction
<1> QED
  BY <1>3 DEF T, Text

\* What a file name looks like: no quotes, no backslash at the end.
Nameable(s) == Unquoted(s) /\ (s = <<>> \/ s[Len(s)] # "slash")

\* None is held back where the last character is another.
LEMMA NoSlashHeld ==
  ASSUME NEW s \in Text, s = <<>> \/ s[Len(s)] # "slash"
  PROVE  Esc(s).slashes = 0
<1>1. CASE s = <<>>
  BY <1>1, EscEmpty DEF NoText
<1>2. CASE s # <<>>
  <2> DEFINE n == Len(s)
  <2>1. n \in 1..n /\ s[n] # "slash" /\ s \in Seq(Char)
    BY <1>2 DEF Text
  <2>2. Escaping(s)[n] = EscapeChar(Escaping(s)[n - 1], s[n])
    BY <2>1, EscapingIs
  <2>3. EscapeChar(Escaping(s)[n - 1], s[n]).slashes = 0
    BY <2>1 DEF EscapeChar
  <2> QED
    BY <2>2, <2>3 DEF Esc
<1> QED
  BY <1>1, <1>2

\* A file name is escaped to itself.
LEMMA NameEscaped ==
  ASSUME NEW s \in Text, Nameable(s)
  PROVE  Escaped(s) = s
<1>1. Esc(s).slashes = 0 /\ s = Esc(s).text \o Slash(Esc(s).slashes)
  BY EscapesNothing, NoSlashHeld DEF Nameable, Verbatim
<1>2. Escaped(s) = Esc(s).text \o Slash(2 * Esc(s).slashes)
  BY DEF Escaped, Esc, Slash
<1>3. 2 * 0 = 0
  OBVIOUS
<1> QED
  BY <1>1, <1>2, <1>3

\* The arguments come out of the program's parser as they went in.
THEOREM LineRoundTrips ==
  ASSUME NEW words \in Args, words # <<>>, Nameable(words[1])
  PROVE  Parsed(CString(Joined(words))) = words
<1> DEFINE prog == words[1]
           rest == Tail(words)
           p == Quoted(prog)
<1>1. prog \in Text /\ rest \in Args /\ Len(rest) = Len(words) - 1 /\ words = <<prog>> \o rest
  BY DEF Args, Text
<1>2. p \in Text /\ Line(rest) \in Text
  BY <1>1, QuotedType, LineType DEF Text
<1>3. Joined(words) = (p \o Line(rest)) \o <<"nul">>
  BY <1>1 DEF Joined, Line
<1>4. CString(Joined(words)) = p \o Line(rest)
  <2>1. p \o Line(rest) \in Text
    BY <1>2 DEF Text
  <2> QED
    BY <1>3, <2>1, EndsAtNul
<1>5. CASE IsBare(prog)
  <2>1. p = prog /\ prog # <<>> /\ Plain(prog)
    BY <1>1, <1>5, BareIsPlain DEF Quoted, Text
  <2> QED
    BY <1>1, <1>4, <2>1, BareProgram
<1>6. CASE ~IsBare(prog)
  <2>1. p = (<<"quote">> \o prog) \o <<"quote">>
    BY <1>1, <1>6, NameEscaped DEF Quoted
  <2> QED
    BY <1>1, <1>4, <2>1, QuotedProgram DEF Nameable
<1> QED
  BY <1>5, <1>6

-----------------------------------------------------------------------------
(* Concatenation.                                                          *)

\* The wholes of the pieces so far.
Wholes(f, n, ss, S) ==
  /\ f \in [0..n -> Seq(S)] /\ f[n] = FlattenSeq(ss) /\ f[0] = <<>>
  /\ \A i \in 1..n: f[i] = f[i - 1] \o ss[i]

\* FlattenSeq, unfolded.
LEMMA FlatFold ==
  ASSUME NEW S, NEW ss \in Seq(Seq(S)), ss # <<>>, NEW n, n = Len(ss)
  PROVE  \E f: Wholes(f, n, ss, S)
<1> DEFINE Step(q, t) == q \o t
           step == [i \in 1..n |-> [q \in Seq(S) |-> Step(q, ss[i])]]
<1>1. n \in Nat /\ n >= 1 /\ \A i \in 1..n: ss[i] \in Seq(S)
  OBVIOUS
<1>2. \A q, t \in Seq(S): Step(q, t) \in Seq(S)
  OBVIOUS
<1>3. \A t \in Seq(S): Step(<<>>, t) = t
  OBVIOUS
<1> HIDE DEF Step
<1>4. step \in [1..n -> [Seq(S) -> Seq(S)]]
  BY <1>1, <1>2
<1>5. \A i \in 1..n, q \in Seq(S): step[i][q] = Step(q, ss[i])
  OBVIOUS
<1>0. <<>> \in Seq(S)
  OBVIOUS
<1> HIDE DEF step
<1>6. PICK f \in [0..n -> Seq(S)]: Folds(f, n, <<>>, step)
  BY <1>0, <1>1, <1>4, FoldExists
<1>7. f[0] = <<>> /\ \A i \in 1..n: f[i] = Step(f[i - 1], ss[i])
  <2>1. ASSUME NEW i \in 1..n PROVE f[i] = Step(f[i - 1], ss[i])
    <3>1. i - 1 \in 0..n
      BY <1>1
    <3>2. f[i] = step[i][f[i - 1]] /\ f[i - 1] \in Seq(S)
      BY <1>6, <3>1 DEF Folds
    <3> QED
      BY <1>5, <3>2
  <2> QED
    BY <1>6, <2>1 DEF Folds
<1> DEFINE h == [i \in 1..n |-> f[i]]
<1>8. ASSUME NEW i \in 1..n
      PROVE  h[i] = IF i = 1 THEN ss[i] ELSE Step(h[i - 1], ss[i])
  <2>1. CASE i = 1
    <3>1. f[1] = Step(f[0], ss[1]) /\ f[0] = <<>> /\ ss[1] \in Seq(S)
      BY <1>1, <1>7
    <3> QED
      BY <1>3, <2>1, <3>1
  <2>2. CASE i # 1
    <3>1. i - 1 \in 1..n
      BY <1>1, <2>2
    <3> QED
      BY <1>7, <2>2, <3>1
  <2> QED
    BY <2>1, <2>2
<1>9. h = [i \in 1..n |-> IF i = 1 THEN ss[i] ELSE Step(h[i - 1], ss[i])]
  BY <1>8
<1> DEFINE g == CHOOSE g : g = [i \in 1..n |-> IF i = 1 THEN ss[i] ELSE Step(g[i - 1], ss[i])]
<1> HIDE DEF h
<1>10. g = [i \in 1..n |-> IF i = 1 THEN ss[i] ELSE Step(g[i - 1], ss[i])]
  BY <1>9
<1>11. FlattenSeq(ss) = g[n]
  BY <1>1 DEF FlattenSeq, Step
<1> HIDE DEF g
<1> DEFINE k == [i \in 0..n |-> IF i = 0 THEN <<>> ELSE g[i]]
<1>12. k[0] = f[0] /\ \A i \in 1..n: k[i] = Step(k[i - 1], ss[i])
  <2>1. k[0] = <<>>
    BY <1>1
  <2>2. ASSUME NEW i \in 1..n PROVE k[i] = Step(k[i - 1], ss[i])
    <3>1. CASE i = 1
      <4>1. k[1] = ss[1] /\ ss[1] \in Seq(S)
        BY <1>1, <1>10
      <4> QED
        BY <1>3, <2>1, <3>1, <4>1
    <3>2. CASE i # 1
      <4>1. i - 1 \in 1..n /\ i - 1 \in 0..n /\ i - 1 # 0 /\ i \in 0..n /\ i # 0
        BY <1>1, <3>2
      <4>2. k[i] = g[i] /\ k[i - 1] = g[i - 1]
        BY <4>1
      <4> QED
        BY <1>10, <3>2, <4>2
    <3> QED
      BY <3>1, <3>2
  <2> QED
    BY <1>7, <2>1, <2>2
<1>14. k[n] = g[n]
  BY <1>1
<1> HIDE DEF k
<1>13. k[n] = f[n]
  <2>1. GoOnAlike(n, k, f)
    BY <1>7, <1>12 DEF GoOnAlike
  <2>2. Alike(n, k, f)
    BY <1>1, <2>1, SameFold
  <2> QED
    BY <1>1, <2>2 DEF Alike
<1> QED
  BY <1>6, <1>7, <1>11, <1>13, <1>14 DEF Step, Wholes

\* Of no pieces.
LEMMA FlatNone == FlattenSeq(<<>>) = <<>>
BY DEF FlattenSeq

\* Of pieces over S.
LEMMA FlatType ==
  ASSUME NEW S, NEW ss \in Seq(Seq(S))
  PROVE  FlattenSeq(ss) \in Seq(S)
<1>1. CASE ss = <<>>
  <2>1. <<>> \in Seq(S)
    OBVIOUS
  <2> QED
    BY <1>1, <2>1, FlatNone
<1>2. CASE ss # <<>>
  <2> DEFINE n == Len(ss)
  <2>1. n \in 0..n /\ n = Len(ss)
    OBVIOUS
  <2> HIDE DEF n
  <2>2. PICK f: Wholes(f, n, ss, S)
    BY <1>2, <2>1, FlatFold
  <2> QED
    BY <2>1, <2>2 DEF Wholes
<1> QED
  BY <1>1, <1>2

\* The last piece comes last.
LEMMA FlatAppend ==
  ASSUME NEW S, NEW ss \in Seq(Seq(S)), NEW t \in Seq(S)
  PROVE  FlattenSeq(Append(ss, t)) = FlattenSeq(ss) \o t
<1> DEFINE tt == Append(ss, t)
           n == Len(ss)
           Put(q, x) == q \o x
<1>1. n \in Nat /\ tt \in Seq(Seq(S)) /\ Len(tt) = n + 1 /\ tt[n + 1] = t /\ (\A i \in 1..n: tt[i] = ss[i])
      /\ tt # <<>>
  OBVIOUS
<1> HIDE DEF tt
<1>2. PICK f: Wholes(f, n + 1, tt, S)
  <2>1. n + 1 = Len(tt) /\ tt # <<>> /\ tt \in Seq(Seq(S))
    BY <1>1
  <2> QED
    BY <2>1, FlatFold
<1>6. f[n + 1] = FlattenSeq(tt) /\ f[0] = <<>> /\ \A i \in 1..(n + 1): f[i] = Put(f[i - 1], tt[i])
  BY <1>2 DEF Wholes
<1>3. f[n + 1] = Put(f[n], t)
  <2>1. n + 1 \in 1..(n + 1) /\ (n + 1) - 1 = n
    BY <1>1
  <2> HIDE DEF Put
  <2> QED
    BY <1>1, <1>6, <2>1
<1>4. CASE ss = <<>>
  <2>1. n = 0 /\ FlattenSeq(ss) = <<>>
    BY <1>4, FlatNone
  <2> QED
    BY <1>3, <1>6, <2>1 DEF tt
<1>5. CASE ss # <<>>
  <2>0. n = Len(ss)
    OBVIOUS
  <2> HIDE DEF n
  <2>7. PICK g: Wholes(g, n, ss, S)
    BY <1>5, <2>0, FlatFold
  <2>1. g[n] = FlattenSeq(ss) /\ g[0] = <<>> /\ \A i \in 1..n: g[i] = Put(g[i - 1], ss[i])
    BY <2>7 DEF Wholes
  <2> HIDE DEF Put
  <2>2. \A i \in 1..n: f[i] = Put(f[i - 1], ss[i])
    BY <1>1, <1>6
  <2>3. GoOnAlike(n, f, g)
    BY <1>6, <2>1, <2>2 DEF GoOnAlike
  <2>4. Alike(n, f, g)
    BY <1>1, <2>3, SameFold
  <2>5. f[n] = g[n]
    BY <1>1, <2>4 DEF Alike
  <2>6. FlattenSeq(tt) = Put(FlattenSeq(ss), t)
    BY <1>3, <1>6, <2>1, <2>5
  <2> QED
    BY <2>6 DEF tt, Put
<1> QED
  BY <1>4, <1>5

\* What is in a piece is in the whole.
Elements(s) == {s[i]: i \in 1..Len(s)}
Holds(ss, whole) == \A i \in 1..Len(ss): Elements(ss[i]) \subseteq Elements(whole)

\* The elements of a concatenation.
LEMMA ConcatElements ==
  ASSUME NEW S, NEW s \in Seq(S), NEW t \in Seq(S)
  PROVE  Elements(s) \subseteq Elements(s \o t) /\ Elements(t) \subseteq Elements(s \o t)
<1>1. Len(s) \in Nat /\ Len(t) \in Nat /\ Len(s \o t) = Len(s) + Len(t)
  OBVIOUS
<1>2. ASSUME NEW i \in 1..Len(s) PROVE s[i] = (s \o t)[i] /\ i \in 1..Len(s \o t)
  OBVIOUS
<1>3. ASSUME NEW i \in 1..Len(t) PROVE t[i] = (s \o t)[Len(s) + i] /\ Len(s) + i \in 1..Len(s \o t)
  BY <1>1
<1> QED
  BY <1>2, <1>3 DEF Elements

\* What is in a piece is in the whole.
LEMMA FlatElements ==
  ASSUME NEW S, NEW ss \in Seq(Seq(S))
  PROVE  Holds(ss, FlattenSeq(ss))
<1> DEFINE T == {tt \in Seq(Seq(S)): Holds(tt, FlattenSeq(tt))}
<1>1. <<>> \in T
  <2>1. Len(<<>>) = 0 /\ <<>> \in Seq(Seq(S))
    OBVIOUS
  <2> QED
    BY <2>1 DEF Holds
<1>2. ASSUME NEW tt \in Seq(Seq(S)), NEW t \in Seq(S), tt \in T
      PROVE  Append(tt, t) \in T
  <2> DEFINE u == Append(tt, t)
             n == Len(tt)
             w == FlattenSeq(tt)
  <2>1. n \in Nat /\ u \in Seq(Seq(S)) /\ Len(u) = n + 1 /\ u[n + 1] = t /\ \A i \in 1..n: u[i] = tt[i]
    OBVIOUS
  <2>2. FlattenSeq(u) = w \o t /\ w \in Seq(S)
    BY FlatAppend, FlatType
  <2> HIDE DEF u, w
  <2>3. Elements(w) \subseteq Elements(w \o t) /\ Elements(t) \subseteq Elements(w \o t)
    BY <2>2, ConcatElements
  <2>4. \A i \in 1..n: Elements(tt[i]) \subseteq Elements(w)
    BY <1>2 DEF Holds, w
  <2>5. ASSUME NEW i \in 1..(n + 1) PROVE Elements(u[i]) \subseteq Elements(w \o t)
    <3>1. CASE i = n + 1
      BY <2>1, <2>3, <3>1
    <3>2. CASE i \in 1..n
      BY <2>1, <2>3, <2>4, <3>2
    <3>3. i = n + 1 \/ i \in 1..n
      BY <2>1
    <3> QED
      BY <3>1, <3>2, <3>3
  <2>6. Holds(u, FlattenSeq(u))
    BY <2>1, <2>2, <2>5 DEF Holds
  <2> QED
    BY <2>1, <2>6 DEF u
<1> HIDE DEF T
<1>3. \A tt \in Seq(Seq(S)): tt \in T
  BY <1>1, <1>2, SeqInduction
<1> QED
  BY <1>3 DEF T

\* The whole ends as the last piece does.
LEMMA FlatEnd ==
  ASSUME NEW S, NEW ss \in Seq(Seq(S)), NEW n, n = Len(ss), n # 0, ss[n] # <<>>
  PROVE  /\ FlattenSeq(ss) # <<>>
         /\ FlattenSeq(ss)[Len(FlattenSeq(ss))] = ss[n][Len(ss[n])]
<1>1. n \in Nat /\ n \in 1..n /\ ss[n] \in Seq(S) /\ n - 1 \in 0..n
  OBVIOUS
<1>2. PICK f: Wholes(f, n, ss, S)
  <2>1. ss # <<>>
    OBVIOUS
  <2> QED
    BY <2>1, FlatFold
<1> DEFINE a == f[n - 1]
           b == ss[n]
<1>3. FlattenSeq(ss) = a \o b /\ a \in Seq(S) /\ b \in Seq(S) /\ b # <<>>
  BY <1>1, <1>2 DEF Wholes
<1> HIDE DEF a, b
<1>4. a \o b # <<>> /\ (a \o b)[Len(a \o b)] = b[Len(b)]
  BY <1>3
<1> QED
  BY <1>3, <1>4 DEF b

-----------------------------------------------------------------------------
(* Paths, cleaned and spelled.                                             *)

\* What Clean keeps of a name.
Kept(name) == IF name = "." THEN <<>> ELSE <<name>>
Pieces(path) == [i \in 1..Len(path) |-> Kept(path[i])]

\* A piece for every name.
LEMMA PiecesType ==
  ASSUME NEW S, NEW p \in Seq(S)
  PROVE  Pieces(p) \in Seq(Seq(S)) /\ Len(Pieces(p)) = Len(p)
<1>1. \A c \in S: Kept(c) \in Seq(S)
  BY DEF Kept
<1>2. Len(p) \in Nat /\ \A i \in 1..Len(p): p[i] \in S
  OBVIOUS
<1>3. \A i \in 1..Len(p): Kept(p[i]) \in Seq(S)
  BY <1>1, <1>2
<1> QED
  BY <1>2, <1>3 DEF Pieces

\* Clean concatenates them.
LEMMA CleanIs ==
  ASSUME NEW S, NEW p \in Seq(S)
  PROVE  Clean(p) = FlattenSeq(Pieces(p))
<1>1. DOMAIN p = 1..Len(p)
  OBVIOUS
<1> QED
  BY <1>1 DEF Clean, Pieces, Kept

\* Nothing is clean.
LEMMA CleanNone == Clean(<<>>) = <<>>
<1>1. <<>> \in Seq({}) /\ Len(<<>>) = 0
  OBVIOUS
<1>2. Pieces(<<>>) \in Seq(Seq({})) /\ Len(Pieces(<<>>)) = 0
  BY <1>1, PiecesType
<1>3. Pieces(<<>>) = <<>>
  BY <1>2, EmptySeq
<1> QED
  BY <1>1, <1>3, CleanIs, FlatNone

\* A clean path is a path.
LEMMA CleanType ==
  ASSUME NEW S, NEW p \in Seq(S)
  PROVE  Clean(p) \in Seq(S)
BY PiecesType, CleanIs, FlatType

\* The last name is kept or not.
LEMMA CleanAppend ==
  ASSUME NEW S, NEW p \in Seq(S), NEW c \in S
  PROVE  Clean(Append(p, c)) = Clean(p) \o Kept(c)
<1> DEFINE q == Append(p, c)
           n == Len(p)
<1>1. n \in Nat /\ q \in Seq(S) /\ Len(q) = n + 1 /\ q[n + 1] = c /\ \A i \in 1..n: q[i] = p[i]
  OBVIOUS
<1>2. Kept(c) \in Seq(S)
  BY DEF Kept
<1> HIDE DEF q
<1>3. Pieces(q) = Append(Pieces(p), Kept(c))
  <2>1. Pieces(q) \in Seq(Seq(S)) /\ Len(Pieces(q)) = n + 1
    BY <1>1, PiecesType
  <2>2. Pieces(p) \in Seq(Seq(S)) /\ Len(Pieces(p)) = n
    BY PiecesType
  <2> DEFINE r == Append(Pieces(p), Kept(c))
  <2>3. r \in Seq(Seq(S)) /\ Len(r) = n + 1 /\ r[n + 1] = Kept(c) /\ \A i \in 1..n: r[i] = Pieces(p)[i]
    BY <1>2, <2>2
  <2> HIDE DEF r
  <2>4. ASSUME NEW i \in 1..(n + 1) PROVE Pieces(q)[i] = r[i]
    <3>1. Pieces(q)[i] = Kept(q[i])
      BY <1>1 DEF Pieces
    <3>2. CASE i = n + 1
      BY <1>1, <2>3, <3>1, <3>2
    <3>3. CASE i \in 1..n
      <4>1. Pieces(p)[i] = Kept(p[i])
        BY <3>3 DEF Pieces
      <4> QED
        BY <1>1, <2>3, <3>1, <3>3, <4>1
    <3>4. i = n + 1 \/ i \in 1..n
      BY <1>1
    <3> QED
      BY <3>2, <3>3, <3>4
  <2>5. Pieces(q) = r
    BY <2>1, <2>3, <2>4, SeqEqual
  <2> QED
    BY <2>5 DEF r
<1>4. FlattenSeq(Append(Pieces(p), Kept(c))) = FlattenSeq(Pieces(p)) \o Kept(c)
  BY <1>2, PiecesType, FlatAppend
<1>5. Clean(q) = FlattenSeq(Pieces(q)) /\ Clean(p) = FlattenSeq(Pieces(p))
  BY <1>1, CleanIs
<1> QED
  BY <1>3, <1>4, <1>5 DEF q

\* A name that leads somewhere is kept.
LEMMA CleanKeeps ==
  ASSUME NEW S, NEW p \in Seq(S), NEW i \in 1..Len(p), p[i] # "."
  PROVE  p[i] \in Elements(Clean(p))
<1>1. Holds(Pieces(p), Clean(p)) /\ Len(Pieces(p)) = Len(p)
  BY PiecesType, CleanIs, FlatElements
<1>2. Elements(Pieces(p)[i]) \subseteq Elements(Clean(p))
  BY <1>1 DEF Holds
<1>3. Pieces(p)[i] = <<p[i]>>
  BY DEF Pieces, Kept
<1>4. Len(<<p[i]>>) = 1 /\ <<p[i]>>[1] = p[i]
  OBVIOUS
<1>5. p[i] \in Elements(<<p[i]>>)
  BY <1>4 DEF Elements
<1> QED
  BY <1>2, <1>3, <1>5

\* A path as text, name by name.
Piece(p, i) ==
  (IF i = 1 THEN <<>> ELSE <<"slash">>) \o (IF Absolute(p) /\ i = 1 THEN <<>> ELSE <<p[i]>>)
Written(p) == [i \in 1..Len(p) |-> Piece(p, i)]

\* Sequences of one and two.
LEMMA OneAfter ==
  ASSUME NEW x
  PROVE  <<>> \o <<x>> = <<x>> /\ <<"slash">> \o <<x>> = <<"slash", x>>
<1> DEFINE V == {"slash", x}
<1>1. <<>> \in Seq(V) /\ <<x>> \in Seq(V) /\ <<"slash">> \in Seq(V) /\ <<"slash", x>> \in Seq(V)
  OBVIOUS
<1>2. Len(<<x>>) = 1 /\ Len(<<"slash">>) = 1 /\ <<x>>[1] = x
  OBVIOUS
<1> HIDE DEF V
<1>3. <<>> \o <<x>> = <<x>>
  BY <1>1, ConcatEmptySeq
<1> DEFINE w == <<"slash">> \o <<x>>
           u == <<"slash", x>>
<1>4. w \in Seq(V) /\ Len(w) = 2 /\ w[1] = "slash" /\ w[2] = x
  BY <1>1
<1>5. u \in Seq(V) /\ Len(u) = 2 /\ u[1] = "slash" /\ u[2] = x
  BY <1>1
<1> HIDE DEF w, u
<1>6. \A i \in 1..2: w[i] = u[i]
  BY <1>4, <1>5
<1>7. w = u
  BY <1>4, <1>5, <1>6, SeqEqual
<1> QED
  BY <1>3, <1>7 DEF w, u

\* What a name looks like in the text.
LEMMA PieceIs ==
  ASSUME NEW p, NEW i, NEW U, "slash" \in U, p[i] \in U \/ (Absolute(p) /\ i = 1)
  PROVE  /\ Piece(p, i) \in Seq(U)
         /\ ~(Absolute(p) /\ i = 1) =>
              /\ Piece(p, i) # <<>> /\ Piece(p, i)[Len(Piece(p, i))] = p[i]
              /\ p[i] \in Elements(Piece(p, i))
         /\ Absolute(p) /\ i = 1 => Piece(p, i) = <<>>
<1>1. CASE Absolute(p) /\ i = 1
  <2>1. Piece(p, i) = <<>>
    BY <1>1 DEF Piece
  <2>2. <<>> \in Seq(U)
    OBVIOUS
  <2> QED
    BY <1>1, <2>1, <2>2
<1>2. CASE ~(Absolute(p) /\ i = 1)
  <2>1. Piece(p, i) = <<p[i]>> \/ Piece(p, i) = <<"slash", p[i]>>
    <3>1. <<>> \o <<p[i]>> = <<p[i]>> /\ <<"slash">> \o <<p[i]>> = <<"slash", p[i]>>
      BY OneAfter
    <3> QED
      BY <1>2, <3>1 DEF Piece
  <2>2. p[i] \in U
    BY <1>2
  <2>3. CASE Piece(p, i) = <<p[i]>>
    <3>1. <<p[i]>> \in Seq(U) /\ Len(<<p[i]>>) = 1 /\ <<p[i]>>[1] = p[i] /\ <<p[i]>> # <<>>
      BY <2>2
    <3>2. p[i] \in Elements(<<p[i]>>)
      BY <3>1 DEF Elements
    <3> QED
      BY <1>2, <2>3, <3>1, <3>2
  <2>4. CASE Piece(p, i) = <<"slash", p[i]>>
    <3> DEFINE w == <<"slash", p[i]>>
    <3>1. w \in Seq(U) /\ Len(w) = 2 /\ w[2] = p[i] /\ w # <<>>
      BY <2>2
    <3> HIDE DEF w
    <3>2. p[i] \in Elements(w)
      <4>1. 2 \in 1..2
        OBVIOUS
      <4> QED
        BY <3>1, <4>1 DEF Elements
    <3>3. Piece(p, i) = w
      BY <2>4 DEF w
    <3> QED
      BY <1>2, <3>1, <3>2, <3>3
  <2> QED
    BY <2>1, <2>3, <2>4
<1> QED
  BY <1>1, <1>2

\* Spelled concatenates them.
LEMMA SpelledIs ==
  ASSUME NEW S, NEW p \in Seq(S)
  PROVE  Spelled(p) = FlattenSeq(Written(p))
<1>1. DOMAIN p = 1..Len(p) /\ Len(p) \in Nat
  OBVIOUS
<1> DEFINE names == IF Absolute(p) THEN <<<<>>>> \o Tail(p) ELSE p
<1>2. DOMAIN names = 1..Len(p)
  <2>1. CASE Absolute(p)
    <3>1. p # <<>>
      BY <2>1 DEF Absolute
    <3>2. Tail(p) \in Seq(S) /\ Len(Tail(p)) = Len(p) - 1
      BY <3>1
    <3> DEFINE U == S \cup {<<>>}
    <3>3. Tail(p) \in Seq(U) /\ <<<<>>>> \in Seq(U) /\ Len(<<<<>>>>) = 1
      BY <3>2
    <3>4. <<<<>>>> \o Tail(p) \in Seq(U) /\ Len(<<<<>>>> \o Tail(p)) = 1 + (Len(p) - 1)
      BY <3>2, <3>3
    <3> QED
      BY <1>1, <2>1, <3>4
  <2>2. CASE ~Absolute(p)
    BY <1>1, <2>2
  <2> QED
    BY <2>1, <2>2
<1> QED
  BY <1>2 DEF Spelled, Written, Piece

\* All names of a path are in U, but for the root.
NamesIn(p, U) == \A i \in 1..Len(p): p[i] \in U \/ (Absolute(p) /\ i = 1)

\* Types.
LEMMA WrittenType ==
  ASSUME NEW S, NEW p \in Seq(S), NEW U, "slash" \in U, NamesIn(p, U)
  PROVE  Written(p) \in Seq(Seq(U)) /\ Len(Written(p)) = Len(p)
<1>1. Len(p) \in Nat /\ \A i \in 1..Len(p): Piece(p, i) \in Seq(U)
  BY PieceIs DEF NamesIn
<1> QED
  BY <1>1 DEF Written

\* A path whose names are in U is spelled in U.
LEMMA SpelledType ==
  ASSUME NEW S, NEW p \in Seq(S), NEW U, "slash" \in U, NamesIn(p, U)
  PROVE  Spelled(p) \in Seq(U)
BY WrittenType, SpelledIs, FlatType

\* Every name is in the text.
LEMMA SpelledHas ==
  ASSUME NEW S, NEW p \in Seq(S), NEW i \in 1..Len(p), ~(Absolute(p) /\ i = 1)
  PROVE  p[i] \in Elements(Spelled(p))
<1> DEFINE U == S \cup {"slash"}
<1>1. \A j \in 1..Len(p): p[j] \in S
  OBVIOUS
<1>2. "slash" \in U /\ NamesIn(p, U)
  BY <1>1 DEF NamesIn
<1> HIDE DEF U
<1>3. Written(p) \in Seq(Seq(U)) /\ Len(Written(p)) = Len(p)
  BY <1>2, WrittenType
<1>4. Elements(Written(p)[i]) \subseteq Elements(Spelled(p))
  BY <1>3, SpelledIs, FlatElements DEF Holds
<1>5. p[i] \in Elements(Piece(p, i))
  BY <1>2, PieceIs DEF NamesIn
<1> QED
  BY <1>4, <1>5 DEF Written

\* The text ends with the last name.
LEMMA SpelledEnd ==
  ASSUME NEW S, NEW p \in Seq(S)
  PROVE  Spelled(p) = <<>> \/ (p # <<>> /\ ~(Absolute(p) /\ Len(p) = 1)
                                /\ Spelled(p)[Len(Spelled(p))] = p[Len(p)])
<1> DEFINE U == S \cup {"slash"}
           n == Len(p)
           w == Written(p)
<1>1. n \in Nat /\ \A j \in 1..n: p[j] \in S
  OBVIOUS
<1>2. "slash" \in U /\ NamesIn(p, U)
  BY <1>1 DEF NamesIn
<1> HIDE DEF U
<1>3. w \in Seq(Seq(U)) /\ Len(w) = n /\ Spelled(p) = FlattenSeq(w)
  BY <1>2, WrittenType, SpelledIs
<1>4. CASE n = 0
  <2>1. w = <<>>
    BY <1>3, <1>4, EmptySeq
  <2> QED
    BY <1>3, <2>1, FlatNone
<1>5. CASE Absolute(p) /\ n = 1
  <2>1. w[1] = <<>>
    <3>1. Piece(p, 1) = <<>>
      BY <1>5 DEF Piece
    <3> QED
      BY <1>5, <3>1 DEF Written
  <2> HIDE DEF w
  <2>2. w # <<>> /\ 1 = Len(w)
    BY <1>3, <1>5
  <2>3. PICK f: Wholes(f, 1, w, U)
    BY <1>3, <2>2, FlatFold
  <2>4. f[1] = f[1 - 1] \o w[1] /\ f[0] = <<>> /\ f[1] = FlattenSeq(w) /\ 1 - 1 = 0
    BY <2>3 DEF Wholes
  <2>5. <<>> \o <<>> = <<>>
    OBVIOUS
  <2>6. f[1] = <<>>
    BY <2>1, <2>4, <2>5
  <2> QED
    BY <1>3, <2>4, <2>6
<1>6. CASE n # 0 /\ ~(Absolute(p) /\ n = 1)
  <2>1. n \in 1..n
    BY <1>1, <1>6
  <2>2. p[n] \in U
    BY <1>2, <1>6, <2>1 DEF NamesIn
  <2>3. Piece(p, n) # <<>> /\ Piece(p, n)[Len(Piece(p, n))] = p[n]
    <3>1. ~(Absolute(p) /\ n = 1) /\ "slash" \in U
      BY <1>2, <1>6
    <3> HIDE DEF n
    <3> QED
      BY <2>2, <3>1, PieceIs
  <2>4. w[n] = Piece(p, n)
    BY <2>1 DEF Written
  <2> HIDE DEF w
  <2>5. FlattenSeq(w)[Len(FlattenSeq(w))] = w[n][Len(w[n])]
    BY <1>3, <1>6, <2>3, <2>4, FlatEnd
  <2>6. p # <<>>
    BY <1>6
  <2> QED
    BY <1>3, <1>6, <2>3, <2>4, <2>5, <2>6
<1> QED
  BY <1>4, <1>5, <1>6

-----------------------------------------------------------------------------
(* What the scene has, and the map of variables.                           *)

\* Values of variables.
Values == Seq(Paths) \ {<<>>}

\* The map holds every variable under the key of its name.
Keyed(env) ==
  \A k \in DOMAIN env:
    env[k].key \in Names /\ k = MapKey(env[k].key) /\ env[k].value \in Values

\* The scene's fields.
LEMMA HereTyped ==
  ASSUME scene \in DOMAIN Scenes
  PROVE  /\ Here.platform \in {"unix", "windows"}
         /\ Here.vars \in Seq(Setting) /\ Here.system \in Seq(Setting) /\ Here.user \in Seq(Setting)
         /\ Here.passwd \in Seq([shell: Paths, home: Paths])
         /\ Here.pwd \in Paths /\ DOMAIN Here.files \subseteq Paths
         /\ Here.argvs \subseteq Seq(Paths) /\ Here.texts \subseteq Paths
         /\ Here.settings \subseteq Setting /\ Here.removals \subseteq Names
         /\ Here.dirs \subseteq Paths /\ Here.calls \in Nat
BY BuilderAssumption DEF Here

\* Files on Windows have no quotes or backslashes in their names.
LEMMA FilesNamed ==
  ASSUME scene \in DOMAIN Scenes, Windows, NEW file \in DOMAIN Here.files
  PROVE  ToSet(file) \cap {"quote", "slash"} = {}
BY BuilderAssumption DEF Here, Windows

\* The code's own names.
LEMMA OwnNames == {"/", ".", "..", "bin", "sh", "cmd.exe", ".EXE"} \subseteq Chars /\ "SHELL" \in Names
BY BuilderAssumption

-----------------------------------------------------------------------------
(* The map.                                                                *)

\* A variable that is set goes under its key.
LEMMA InsertKeyed ==
  ASSUME NEW env, Keyed(env), NEW name \in Names, NEW value \in Values, NEW base
  PROVE  Keyed(Insert(env, name, value, base))
<1> DEFINE e == Entry(name, value, base)
           new == Insert(env, name, value, base)
<1>1. e.key = name /\ e.value = value
  BY DEF Entry
<1> HIDE DEF e
<1>2. new = [k \in {MapKey(name)} \cup DOMAIN env |-> IF k = MapKey(name) THEN e ELSE env[k]]
  BY DEF Insert, Updated, e
<1> HIDE DEF new
<1>3. ASSUME NEW k \in DOMAIN new
      PROVE  new[k].key \in Names /\ k = MapKey(new[k].key) /\ new[k].value \in Values
  <2>1. CASE k = MapKey(name)
    BY <1>1, <1>2, <2>1
  <2>2. CASE k # MapKey(name)
    BY <1>2, <2>2 DEF Keyed
  <2> QED
    BY <2>1, <2>2
<1> QED
  BY <1>3 DEF Keyed, new

\* One that is removed leaves the others.
LEMMA WithoutKeyed ==
  ASSUME NEW env, Keyed(env), NEW name
  PROVE  Keyed(Without(env, name))
<1>1. Without(env, name) = [k \in DOMAIN env \ {MapKey(name)} |-> env[k]]
  BY DEF Without, Restrict
<1> QED
  BY <1>1 DEF Keyed

\* An empty map.
LEMMA EmptyKeyed == Keyed(<< >>)
BY DEF Keyed

\* A variable has a value.
LEMMA ValueTyped ==
  ASSUME NEW env, Keyed(env), NEW name, Has(env, name)
  PROVE  Value(env, name) \in Values
BY DEF Keyed, Has, Value

\* A value has a first path.
LEMMA FirstPath ==
  ASSUME NEW v \in Values
  PROVE  v[1] \in Paths /\ v \in Seq(Paths)
BY DEF Values

\* Two values make a value.
LEMMA JoinedValue ==
  ASSUME NEW v \in Values, NEW w \in Values
  PROVE  v \o w \in Values
BY DEF Values

-----------------------------------------------------------------------------
(* Types of the program's path.                                            *)

\* Names and names with another extension.
Wide == Chars \cup {WithExtension(n, e): n \in Chars, e \in Chars}

\* A sequence over a set is one over a larger set.
LEMMA Widen ==
  ASSUME NEW S, NEW T, S \subseteq T, NEW s \in Seq(S)
  PROVE  s \in Seq(T)
<1>1. Len(s) \in Nat /\ s = [i \in 1..Len(s) |-> s[i]] /\ \A i \in 1..Len(s): s[i] \in T
  OBVIOUS
<1> QED
  BY <1>1

\* A path from a directory is a path.
LEMMA JoinType ==
  ASSUME NEW base \in Paths, NEW path \in Paths
  PROVE  Join(base, path) \in Paths
BY DEF Join, Paths

\* What is tried on Windows.
Try == [file: Seq(Wide), panics: BOOLEAN]

\* Every try is typed.
LEMMA TriesType ==
  ASSUME Keyed(envs), NEW dir \in Paths, NEW exe \in Paths
  PROVE  Tries(dir, exe) \in Seq(Try)
<1> DEFINE file == Join(dir, exe)
           ext == Extensions
           plain == [file |-> file, panics |-> FALSE]
           t(i) == IF ext[i] = <<>> \/ ~Utf8(ext[i])
                   THEN [file |-> file, panics |-> TRUE]
                   ELSE IF file = <<>> \/ Last(file) \in {"/", ".."} THEN plain
                   ELSE [file |-> Front(file) \o <<WithExtension(Last(file), Head(ext[i]))>>,
                         panics |-> FALSE]
           more == [i \in DOMAIN ext |-> t(i)]
<1>1. file \in Paths /\ file \in Seq(Chars) /\ file \in Seq(Wide)
  <2>1. file \in Paths
    BY JoinType
  <2> HIDE DEF file
  <2>2. Chars \subseteq Wide /\ file \in Seq(Chars)
    BY <2>1 DEF Wide, Paths
  <2> QED
    BY <2>1, <2>2, Widen
<1>2. ext \in Seq(Paths)
  <2>1. <<<<".EXE">>>> \in Seq(Paths)
    BY OwnNames DEF Paths
  <2>2. Has(envs, "PATHEXT") => Value(envs, "PATHEXT") \in Seq(Paths)
    BY ValueTyped, FirstPath
  <2> QED
    BY <2>1, <2>2 DEF Extensions
<1> HIDE DEF file, ext
<1>3. plain \in Try /\ [file |-> file, panics |-> TRUE] \in Try
  BY <1>1 DEF Try
<1>4. ASSUME NEW i \in DOMAIN ext PROVE t(i) \in Try
  <2>1. CASE ext[i] = <<>> \/ ~Utf8(ext[i])
    BY <1>3, <2>1
  <2>2. CASE ~(ext[i] = <<>> \/ ~Utf8(ext[i])) /\ (file = <<>> \/ Last(file) \in {"/", ".."})
    BY <1>3, <2>2
  <2>3. CASE ext[i] # <<>> /\ file # <<>>
    <3>1. ext[i] \in Seq(Chars)
      BY <1>2 DEF Paths
    <3>2. Head(ext[i]) \in Chars
      BY <2>3, <3>1
    <3>3. Last(file) \in Chars
      BY <1>1, <2>3 DEF Last
    <3>4. Front(file) \in Seq(Wide)
      BY <1>1, <2>3 DEF Front
    <3>5. WithExtension(Last(file), Head(ext[i])) \in Wide
      BY <3>2, <3>3 DEF Wide
    <3> DEFINE w == Front(file) \o <<WithExtension(Last(file), Head(ext[i]))>>
    <3>6. w \in Seq(Wide)
      BY <3>4, <3>5
    <3> HIDE DEF w
    <3>7. [file |-> w, panics |-> FALSE] \in Try
      BY <3>6 DEF Try
    <3> QED
      BY <1>3, <3>7 DEF w
  <2> QED
    BY <2>1, <2>2, <2>3
<1> HIDE DEF t
<1>5. more \in Seq(Try)
  <2>1. Len(ext) \in Nat /\ DOMAIN ext = 1..Len(ext)
    BY <1>2
  <2>2. more = [i \in 1..Len(ext) |-> t(i)]
    BY <2>1
  <2> QED
    BY <1>4, <2>1, <2>2
<1> HIDE DEF more
<1> DEFINE one == <<plain>>
<1>6. one \in Seq(Try)
  BY <1>3
<1> HIDE DEF one
<1>7. one \o more \in Seq(Try)
  BY <1>5, <1>6
<1>8. Tries(dir, exe) = one \o more
  BY DEF Tries, one, more, t, file, ext
<1> QED
  BY <1>7, <1>8

\* The program that the search finds is typed.
LEMMA SearchType ==
  ASSUME Keyed(envs), NEW exe \in Paths
  PROVE  WindowsSearch(exe).file \in Seq(Wide)
<1> DEFINE dirs == IF Has(envs, "PATH") THEN Value(envs, "PATH") ELSE <<>>
           all == [i \in DOMAIN dirs |-> Tries(dirs[i], exe)]
           s == FlattenSeq(all)
           hit == {i \in DOMAIN s: s[i].panics \/ Kind(s[i].file) # "none"}
<1>1. dirs \in Seq(Paths)
  <2>1. <<>> \in Seq(Paths)
    OBVIOUS
  <2>2. Has(envs, "PATH") => Value(envs, "PATH") \in Seq(Paths)
    BY ValueTyped, FirstPath
  <2> QED
    BY <2>1, <2>2
<1> HIDE DEF dirs
<1>2. all \in Seq(Seq(Try))
  <2>1. Len(dirs) \in Nat /\ DOMAIN dirs = 1..Len(dirs) /\ \A i \in 1..Len(dirs): dirs[i] \in Paths
    BY <1>1
  <2>2. \A i \in 1..Len(dirs): Tries(dirs[i], exe) \in Seq(Try)
    BY <2>1, TriesType
  <2> QED
    BY <2>1, <2>2
<1> HIDE DEF all
<1>3. s \in Seq(Try)
  BY <1>2, FlatType
<1>4. exe \in Seq(Wide)
  <2>1. Chars \subseteq Wide
    BY DEF Wide
  <2> QED
    BY <2>1, Widen DEF Paths
<1>5. WindowsSearch(exe) = IF hit = {} THEN [file |-> exe, panics |-> FALSE] ELSE s[Min(hit)]
  <2>1. <<s[Min(hit)]>> # <<>> /\ <<s[Min(hit)]>>[1] = s[Min(hit)]
    OBVIOUS
  <2> QED
    BY <2>1 DEF WindowsSearch, First, dirs, all
<1> HIDE DEF s
<1>6. CASE hit = {}
  BY <1>4, <1>5, <1>6
<1>7. CASE hit # {}
  <2>1. hit \in SUBSET Nat
    BY <1>3
  <2>2. Min(hit) \in hit
    BY <1>7, <2>1, MinIs
  <2>3. s[Min(hit)] \in Try
    BY <1>3, <2>2
  <2> QED
    BY <1>5, <1>7, <2>3 DEF Try
<1> QED
  BY <1>6, <1>7

\* The program is typed.
LEMMA ProgramType ==
  ASSUME Keyed(envs), args \in Seq(Paths)
  PROVE  WindowsProgram.file \in Seq(Wide)
<1>1. CASE args # <<>>
  <2>1. args[1] \in Paths
    BY <1>1
  <2> QED
    BY <1>1, <2>1, SearchType DEF WindowsProgram
<1>2. CASE args = <<>>
  <2>1. Chars \subseteq Wide /\ <<"cmd.exe">> \in Seq(Chars)
    BY OwnNames DEF Wide
  <2>2. Has(envs, "ComSpec") => Value(envs, "ComSpec")[1] \in Seq(Chars)
    BY ValueTyped, FirstPath DEF Paths
  <2>3. WindowsProgram.file = IF Has(envs, "ComSpec") THEN Value(envs, "ComSpec")[1] ELSE <<"cmd.exe">>
    BY <1>2 DEF WindowsProgram
  <2>4. WindowsProgram.file \in Seq(Chars)
    BY <2>1, <2>2, <2>3
  <2> QED
    BY <2>1, <2>4, Widen
<1> QED
  BY <1>1, <1>2

-----------------------------------------------------------------------------
(* The name of a program that runs on Windows.                             *)

\* ToSet by positions.
LEMMA SetOf ==
  ASSUME NEW S, NEW s \in Seq(S)
  PROVE  ToSet(s) = Elements(s)
BY DEF ToSet, Elements

\* A text without a NUL is its own C string.
LEMMA NoNulKept ==
  ASSUME NEW S, NEW s \in Seq(S), \A i \in 1..Len(s): s[i] # "nul"
  PROVE  CString(s) = s
<1>1. {i \in DOMAIN s: s[i] = "nul"} = {}
  OBVIOUS
<1> QED
  BY <1>1 DEF CString

\* The names of a file that exists, by way of the path to it.
LEMMA NamesOfFile ==
  ASSUME scene \in DOMAIN Scenes, NEW p \in Seq(Wide), IsProgram(p), NEW i \in 1..Len(p),
         p[i] # "."
  PROVE  \E file \in DOMAIN Here.files: p[i] \in Elements(file)
<1> DEFINE file == Named(Here.pwd, p)
           q == Join(Here.pwd, p)
<1>1. file \in DOMAIN Here.files
  <2>1. Kind(p) = "program"
    BY DEF IsProgram
  <2> QED
    BY <2>1 DEF Kind, KindFrom
<1>2. p[i] \in Elements(file)
  <2>1. CASE Absolute(p)
    <3>1. file = Clean(p)
      BY <2>1 DEF Named, Join
    <3> QED
      BY <3>1, CleanKeeps
  <2>2. CASE ~Absolute(p)
    <3> DEFINE b == Here.pwd
    <3>1. b \in Seq(Wide)
      <4>1. b \in Seq(Chars) /\ Chars \subseteq Wide
        BY HereTyped DEF Paths, Wide
      <4> QED
        BY <4>1, Widen
    <3>2. file = Clean(b \o p)
      BY <2>2 DEF Named, Join
    <3> HIDE DEF b, file
    <3> DEFINE w == b \o p
               j == Len(b) + i
    <3>3. w \in Seq(Wide) /\ j \in 1..Len(w) /\ w[j] = p[i]
      BY <3>1
    <3> HIDE DEF w, j
    <3>4. w[j] \in Elements(Clean(w))
      BY <3>3, CleanKeeps
    <3> QED
      BY <3>2, <3>3, <3>4 DEF w
  <2> QED
    BY <2>1, <2>2
<1> QED
  BY <1>1, <1>2

\* The program of a child on Windows has a name like a file.
LEMMA ProgramNameable ==
  ASSUME scene \in DOMAIN Scenes, Windows, NEW p \in Seq(Wide), IsProgram(CString(p)),
         "nul" \notin ToSet(Spelled(p))
  PROVE  Spelled(p) \in Text /\ Nameable(Spelled(p))
<1> DEFINE U == Chars \ {"quote", "slash", "nul"}
<1>1. Spelled(p) \in Seq(Wide \cup {"slash"})
  <2>1. NamesIn(p, Wide \cup {"slash"})
    BY DEF NamesIn
  <2> QED
    BY <2>1, SpelledType
<1>2. ASSUME NEW i \in 1..Len(p), ~(Absolute(p) /\ i = 1)
      PROVE  p[i] # "nul"
  <2>1. p[i] \in Elements(Spelled(p))
    BY <1>2, SpelledHas
  <2>2. ToSet(Spelled(p)) = Elements(Spelled(p))
    BY <1>1, SetOf
  <2> QED
    BY <2>1, <2>2
<1>3. ASSUME NEW i \in 1..Len(p) PROVE p[i] # "nul"
  <2>1. CASE Absolute(p) /\ i = 1
    BY <2>1 DEF Absolute
  <2>2. CASE ~(Absolute(p) /\ i = 1)
    BY <1>2, <2>2
  <2> QED
    BY <2>1, <2>2
<1>4. IsProgram(p)
  BY <1>3, NoNulKept
<1>5. "." \in U
  BY OwnNames
<1>6. ASSUME NEW i \in 1..Len(p) PROVE p[i] \in U
  <2>1. CASE p[i] = "."
    BY <1>5, <2>1
  <2>2. CASE p[i] # "."
    <3>1. PICK file \in DOMAIN Here.files: p[i] \in Elements(file)
      BY <1>4, <2>2, NamesOfFile
    <3>2. file \in Seq(Chars) /\ Elements(file) = ToSet(file)
      BY <3>1, HereTyped, SetOf DEF Paths
    <3>3. p[i] \in Chars
      BY <3>1, <3>2 DEF Elements
    <3>4. p[i] \notin {"quote", "slash"}
      BY <3>1, <3>2, FilesNamed
    <3> QED
      BY <1>3, <3>3, <3>4
  <2> QED
    BY <2>1, <2>2
<1> DEFINE V == U \cup {"slash"}
<1>7. NamesIn(p, V) /\ "slash" \in V
  BY <1>6 DEF NamesIn
<1>8. V \subseteq Char /\ "quote" \notin V
  BY CharHas DEF Char
<1> HIDE DEF V
<1>9. Spelled(p) \in Seq(V)
  BY <1>7, SpelledType
<1>10. Spelled(p) \in Text /\ Unquoted(Spelled(p))
  <2>1. Spelled(p) \in Seq(Char)
    BY <1>8, <1>9, Widen
  <2>2. Unquoted(Spelled(p))
    BY <1>8, <1>9 DEF Unquoted
  <2> QED
    BY <2>1, <2>2 DEF Text
<1>11. Spelled(p) = <<>> \/ Spelled(p)[Len(Spelled(p))] # "slash"
  <2>1. CASE Spelled(p) # <<>>
    <3>1. p # <<>> /\ Spelled(p)[Len(Spelled(p))] = p[Len(p)]
      BY <2>1, SpelledEnd
    <3>2. Len(p) \in 1..Len(p)
      BY <3>1
    <3> QED
      BY <1>6, <3>1, <3>2
  <2> QED
    BY <2>1
<1> QED
  BY <1>10, <1>11 DEF Nameable

\* The arguments of a line that is not refused have no NUL.
LEMMA LineArgsType ==
  ASSUME args \in Seq(Paths), ~Refused(args), Spelled(WindowsProgram.file) \in Text
  PROVE  LineArgs \in Args /\ LineArgs # <<>> /\ LineArgs[1] = Spelled(WindowsProgram.file)
<1> DEFINE n == Len(args)
           rest == SubSeq(args, 2, n)
           prog == Spelled(WindowsProgram.file)
<1>1. n \in Nat /\ \A i \in 2..n: args[i] \in Text
  <2>1. n \in Nat
    OBVIOUS
  <2>2. ASSUME NEW i \in 2..n PROVE args[i] \in Text
    <3>1. args[i] \in Seq(Chars) /\ "nul" \notin ToSet(args[i])
      BY DEF Refused, Paths
    <3>2. \A j \in 1..Len(args[i]): args[i][j] \in Char
      BY <3>1, SetOf DEF Elements, Char
    <3> QED
      BY <3>1, <3>2 DEF Text
  <2> QED
    BY <2>1, <2>2
<1>2. rest \in Seq(Text)
  <2>1. CASE n < 2
    <3>1. rest = <<>>
      BY <1>1, <2>1, SubSeqEmpty
    <3>2. <<>> \in Seq(Text)
      OBVIOUS
    <3> QED
      BY <3>1, <3>2
  <2>2. CASE n >= 2
    <3>1. Len(rest) = n - 1 /\ rest \in Seq(Paths)
      BY <1>1, <2>2
    <3>2. ASSUME NEW i \in 1..(n - 1) PROVE rest[i] \in Text
      <4>1. rest[i] = args[i + 1] /\ i + 1 \in 2..n
        BY <1>1, <2>2
      <4> QED
        BY <1>1, <4>1
    <3> HIDE DEF rest
    <3>3. rest = [i \in 1..(n - 1) |-> rest[i]] /\ n - 1 \in Nat
      BY <1>1, <2>2, <3>1
    <3> QED
      BY <3>2, <3>3
  <2> QED
    BY <1>1, <2>1, <2>2
<1> HIDE DEF rest, prog
<1>3. prog \in Text
  BY DEF prog
<1>4. <<prog>> \o rest \in Seq(Text) /\ <<prog>> \o rest # <<>> /\ (<<prog>> \o rest)[1] = prog
  BY <1>2, <1>3
<1>5. LineArgs = <<prog>> \o rest
  BY DEF LineArgs, prog, rest
<1> QED
  BY <1>4, <1>5 DEF Args, Text, prog

-----------------------------------------------------------------------------
(* The invariant.                                                          *)

\* Types of the outcome and of edits.
Outcomes == {"editing", "converted", "error", "panic", "running", "refused"}
Edit == Setting \cup [name: Names] \cup [all: {TRUE}]

\* Types, with the map's keys.
Typed ==
  /\ scene \in DOMAIN Scenes
  /\ args \in Seq(Paths)
  /\ Keyed(envs)
  /\ cwd \in Seq(Paths)
  /\ DOMAIN options = {"umask", "controlling"}
  /\ edits \in Seq(Edit) /\ calls \in Nat /\ calls <= Here.calls /\ Len(edits) <= calls
  /\ outcome \in Outcomes

Converted == outcome \in {"converted", "running", "refused"}

\* A command line is that of the arguments, which are not touched any more.
LineIs ==
  Converted /\ Windows =>
    command.program = WindowsProgram.file /\ command.line = Joined(LineArgs) /\ ~Refused(args)

\* A child on Windows is what CreateProcess makes of the command.
ChildIs ==
  /\ outcome # "running" => child = Nothing
  /\ outcome = "running" => child # Nothing
  /\ outcome = "running" /\ Windows =>
       IsProgram(CString(command.program)) /\ child.argv = Parsed(CString(command.line))

\* What execvp finds for the command, and what std::process refuses in it.
Image == Execvp(command.program, command.env, Named(Here.pwd, command.dir[1]))
BadText == HasNul(command.argv) \/ \E name \in DOMAIN command.env: HasNul(command.env[name])

\* A command on Unix is what as_command makes of the builder, and its child or
\* refusal what execvp finds.
UnixIs ==
  ~Windows =>
    /\ outcome = "error" => HomeDir = <<>> \/ Program = <<>>
    /\ Converted =>
         /\ HomeDir # <<>> /\ Program # <<>> /\ command.program = Program[1]
         /\ command.argv = Argv /\ command.dir = <<Dir>> /\ command.env = FinalEnv
    /\ outcome = "refused" => BadText \/ ~IsDir(command.dir[1]) \/ Image = <<>>
    /\ outcome = "running" => Image # <<>> /\ child.image = Image[1]

\* The inductive invariant.
BuilderInv == Typed /\ LineIs /\ ChildIs /\ UnixIs

\* The scene is all that the surroundings depend on.
LEMMA OfScene ==
  ASSUME scene' = scene
  PROVE  Here' = Here /\ Windows' = Windows
BY DEF Here, Windows

\* Keys depend on the scene only.
LEMMA SameKeyed ==
  ASSUME scene' = scene, NEW env, Keyed(env)
  PROVE  Keyed(env)'
BY DEF Keyed, MapKey, Windows, Here

-----------------------------------------------------------------------------
(* The base environment.                                                   *)

\* The map after each of m variables of a source.
Grown(f, m, env, source) ==
  f = [i \in 0..m |-> IF i = 0 THEN env ELSE Merge(f[i - 1], Here[source][i], source)]

\* There is such a function.
LEMMA LayerGrows ==
  ASSUME NEW env, NEW source, NEW n \in Nat
  PROVE  \E f: Grown(f, n, env, source)
<1> DEFINE T == {m \in 0..n: \E f: Grown(f, m, env, source)}
<1>1. 0 \in T
  <2> DEFINE f == [i \in 0..0 |-> env]
  <2>1. f = [i \in 0..0 |-> IF i = 0 THEN env ELSE Merge(f[i - 1], Here[source][i], source)]
    OBVIOUS
  <2> HIDE DEF f
  <2>2. Grown(f, 0, env, source)
    BY <2>1 DEF Grown
  <2> QED
    BY <2>2
<1>2. ASSUME NEW m \in 1..n, m - 1 \in T
      PROVE  m \in T
  <2>1. PICK f: Grown(f, m - 1, env, source)
    BY <1>2
  <2> DEFINE Merged(e, i) == Merge(e, Here[source][i], source)
             g == [i \in 0..m |-> IF i = m THEN Merged(f[m - 1], m) ELSE f[i]]
  <2>0. f = [i \in 0..(m - 1) |-> IF i = 0 THEN env ELSE Merged(f[i - 1], i)]
    BY <2>1 DEF Grown
  <2> HIDE DEF Merged
  <2>2. ASSUME NEW i \in 0..m
        PROVE  g[i] = IF i = 0 THEN env ELSE Merged(g[i - 1], i)
    <3>1. CASE i = m
      <4>1. i # 0 /\ i - 1 \in 0..m /\ i - 1 # m
        BY <3>1
      <4> QED
        BY <3>1, <4>1
    <3>2. CASE i # m
      <4>1. i \in 0..(m - 1)
        BY <3>2
      <4>2. f[i] = IF i = 0 THEN env ELSE Merged(f[i - 1], i)
        BY <2>0, <4>1
      <4>3. i # 0 => i - 1 \in 0..m /\ i - 1 # m
        BY <4>1
      <4> QED
        BY <3>2, <4>2, <4>3
    <3> QED
      BY <3>1, <3>2
  <2>3. g = [i \in 0..m |-> IF i = 0 THEN env ELSE Merged(g[i - 1], i)]
    BY <2>2
  <2> HIDE DEF g
  <2>4. Grown(g, m, env, source)
    BY <2>3 DEF Grown, Merged
  <2> QED
    BY <2>4
<1> HIDE DEF T
<1>3. \A m \in 0..n: m \in T
  BY <1>1, <1>2, Induction
<1>4. n \in 0..n
  OBVIOUS
<1> QED
  BY <1>3, <1>4 DEF T

\* Layer is its last value.
LEMMA LayerIs ==
  ASSUME NEW env, NEW source, NEW n \in Nat, n = Len(Here[source])
  PROVE  \E f: Grown(f, n, env, source) /\ f[n] = Layer(env, source)
<1>1. PICK h: Grown(h, n, env, source)
  BY LayerGrows
<1> DEFINE f == CHOOSE f : Grown(f, n, env, source)
<1>2. Grown(f, n, env, source)
  BY <1>1
<1>3. Layer(env, source) = f[n]
  BY DEF Layer, Grown
<1> HIDE DEF f
<1> QED
  BY <1>2, <1>3

\* One variable of a source goes under its key.
LEMMA MergeKeyed ==
  ASSUME NEW env, Keyed(env), NEW x \in Setting, NEW source
  PROVE  Keyed(Merge(env, x, source))
<1>1. x.name \in Names /\ x.value \in Values
  BY DEF Setting, Values
<1> DEFINE value == IF source = "user" /\ Lower[x.name] = "path" /\ Has(env, x.name)
                    THEN Value(env, x.name) \o x.value ELSE x.value
<1>2. value \in Values
  BY <1>1, ValueTyped, JoinedValue
<1>3. Merge(env, x, source) = env \/ Merge(env, x, source) = Insert(env, x.name, value, TRUE)
  BY DEF Merge
<1> HIDE DEF value
<1>4. Keyed(Insert(env, x.name, value, TRUE))
  BY <1>1, <1>2, InsertKeyed
<1> QED
  BY <1>3, <1>4

\* All of them do.
LEMMA LayerKeyed ==
  ASSUME NEW env, Keyed(env), NEW source, Here[source] \in Seq(Setting)
  PROVE  Keyed(Layer(env, source))
<1> DEFINE list == Here[source]
           n == Len(list)
<1>1. n \in Nat /\ \A i \in 1..n: list[i] \in Setting
  OBVIOUS
<1>2. PICK f: Grown(f, n, env, source) /\ f[n] = Layer(env, source)
  BY <1>1, LayerIs
<1>3. f[0] = env /\ \A i \in 1..n: f[i] = Merge(f[i - 1], list[i], source)
  <2>0. f = [i \in 0..n |-> IF i = 0 THEN env ELSE Merge(f[i - 1], list[i], source)]
    BY <1>2 DEF Grown
  <2> HIDE DEF n, list
  <2>1. f[0] = env
    BY <1>1, <2>0
  <2>2. ASSUME NEW i \in 1..n PROVE f[i] = Merge(f[i - 1], list[i], source)
    <3>1. i \in 0..n /\ i # 0
      BY <1>1
    <3> QED
      BY <2>0, <3>1
  <2> QED
    BY <2>1, <2>2
<1> DEFINE T == {i \in 0..n: Keyed(f[i])}
<1> HIDE DEF n, list
<1>4. 0 \in T
  BY <1>1, <1>3
<1>5. ASSUME NEW i \in 1..n, i - 1 \in T
      PROVE  i \in T
  <2>1. Keyed(f[i - 1]) /\ list[i] \in Setting
    BY <1>1, <1>5
  <2>2. Keyed(Merge(f[i - 1], list[i], source))
    BY <2>1, MergeKeyed
  <2> QED
    BY <1>3, <2>2
<1> HIDE DEF T
<1>6. \A i \in 0..n: i \in T
  BY <1>1, <1>4, <1>5, Induction
<1>7. n \in 0..n
  BY <1>1
<1> QED
  BY <1>2, <1>6, <1>7 DEF T

\* The shell of the password database is a path.
LEMMA PasswdShellType ==
  ASSUME scene \in DOMAIN Scenes
  PROVE  PasswdShell \in Paths
<1>1. <<"/", "bin", "sh">> \in Paths
  BY OwnNames DEF Paths
<1>2. Here.passwd # <<>> => Here.passwd[1].shell \in Paths
  <2> SUFFICES ASSUME Here.passwd # <<>> PROVE Here.passwd[1].shell \in Paths
    OBVIOUS
  <2> DEFINE s == Here.passwd
  <2>1. s \in Seq([shell: Paths, home: Paths]) /\ s # <<>>
    BY HereTyped
  <2> HIDE DEF s
  <2>2. s[1] \in [shell: Paths, home: Paths]
    <3> DEFINE S == [shell: Paths, home: Paths]
    <3>1. s \in Seq(S) /\ s # <<>>
      BY <2>1
    <3> HIDE DEF S
    <3>2. s[1] \in S
      BY <3>1
    <3> QED
      BY <3>2 DEF S
  <2> QED
    BY <2>2 DEF s
<1> QED
  BY <1>1, <1>2 DEF PasswdShell

\* The base environment is keyed.
LEMMA BaseKeyed ==
  ASSUME scene \in DOMAIN Scenes
  PROVE  Keyed(BaseEnv)
<1>1. /\ Here["vars"] \in Seq(Setting) /\ Here["system"] \in Seq(Setting)
      /\ Here["user"] \in Seq(Setting)
  BY HereTyped
<1> DEFINE a == Layer(<< >>, "vars")
           b == WithShell(a)
           c == Layer(b, "system")
<1>2. Keyed(a)
  BY <1>1, EmptyKeyed, LayerKeyed
<1> HIDE DEF a
<1>3. Keyed(b)
  <2>1. <<PasswdShell>> \in Values
    BY PasswdShellType DEF Values
  <2>2. Keyed(Insert(a, "SHELL", <<PasswdShell>>, TRUE))
    BY <1>2, <2>1, OwnNames, InsertKeyed
  <2> QED
    BY <1>2, <2>2 DEF WithShell
<1> HIDE DEF b
<1>4. Keyed(c)
  BY <1>1, <1>3, LayerKeyed
<1> HIDE DEF c
<1>5. Keyed(Layer(c, "user"))
  BY <1>1, <1>4, LayerKeyed
<1> QED
  BY <1>5 DEF BaseEnv, a, b, c

-----------------------------------------------------------------------------
(* What stays the same when scene and builder do.                          *)

\* An unchanged scene keeps the keys.
LEMMA KeyedNext ==
  ASSUME scene' = scene, Keyed(envs')
  PROVE  Keyed(envs)'
BY DEF Keyed, MapKey, Windows, Here

\* What is computed from the surroundings and the builder.
LEMMA SameFiles ==
  ASSUME scene' = scene, NEW p
  PROVE  /\ Kind(p)' = Kind(p) /\ IsDir(p)' = IsDir(p)
         /\ IsProgram(p)' = IsProgram(p) /\ Accessible(p)' = Accessible(p)
BY DEF Kind, KindFrom, Named, Here, IsDir, IsProgram, Accessible

\* The command line.
LEMMA SameLine ==
  ASSUME scene' = scene, args' = args, envs' = envs
  PROVE  WindowsProgram' = WindowsProgram /\ LineArgs' = LineArgs /\ Refused(args)' = Refused(args)
<1>1. WindowsProgram' = WindowsProgram
  <2>1. \A n: Has(envs, n)' = Has(envs, n) /\ Value(envs, n)' = Value(envs, n)
    BY DEF Has, Value, MapKey, Windows, Here
  <2>2. Extensions' = Extensions
    BY <2>1 DEF Extensions
  <2>3. \A p: Kind(p)' = Kind(p)
    BY DEF Kind, KindFrom, Named, Here
  <2>4. \A d, e: Tries(d, e)' = Tries(d, e)
    BY <2>2 DEF Tries
  <2>5. ASSUME NEW e PROVE WindowsSearch(e)' = WindowsSearch(e)
    BY <2>1, <2>3, <2>4 DEF WindowsSearch, First
  <2>6. Has(envs, "ComSpec")' = Has(envs, "ComSpec") /\ Value(envs, "ComSpec")' = Value(envs, "ComSpec")
    BY <2>1
  <2>7. WindowsSearch(args[1])' = WindowsSearch(args[1])
    BY <2>5
  <2> QED
    BY <2>6, <2>7 DEF WindowsProgram
<1> QED
  BY <1>1 DEF LineArgs, Refused

\* The shell, the home and the directory.
LEMMA SameShell ==
  ASSUME scene' = scene, envs' = envs
  PROVE  Shell' = Shell /\ HomeDir' = HomeDir
<1>1. PasswdShell' = PasswdShell
  BY DEF PasswdShell, Accessible, Kind, KindFrom, Named, Here
<1>2. Shell' = Shell
  <2>1. \A n: Has(envs, n)' = Has(envs, n) /\ Value(envs, n)' = Value(envs, n)
    BY DEF Has, Value, MapKey, Windows, Here
  <2>2. \A p: Accessible(p)' = Accessible(p)
    BY SameFiles
  <2> QED
    BY <1>1 DEF Shell, Has, Value, MapKey, Windows, Here, Accessible, Kind, KindFrom, Named
<1>3. HomeDir' = HomeDir
  BY DEF HomeDir, Has, Value, MapKey, Windows, Here, First
<1> QED
  BY <1>2, <1>3

\* The command on Unix.
LEMMA SameCommand ==
  ASSUME scene' = scene, args' = args, envs' = envs, cwd' = cwd
  PROVE  /\ HomeDir' = HomeDir /\ Dir' = Dir /\ Program' = Program /\ Argv' = Argv
         /\ FinalEnv' = FinalEnv
<1>1. Shell' = Shell /\ HomeDir' = HomeDir
  BY SameShell
<1>2. Dir' = Dir
  BY <1>1 DEF Dir, IsDir, Kind, KindFrom, Named, Here
<1>3. Program' = Program
  BY <1>1, <1>2 DEF Program, SearchPath, First, Candidates, IsProgram, Kind, KindFrom, Named,
                    Has, Value, MapKey, Windows, Here
<1>4. Argv' = Argv
  BY <1>1 DEF Argv
<1>5. FinalEnv' = FinalEnv
  BY <1>1 DEF FinalEnv
<1> QED
  BY <1>1, <1>2, <1>3, <1>4, <1>5

\* What is executed.
LEMMA SameImage ==
  ASSUME scene' = scene, command' = command
  PROVE  Image' = Image /\ BadText' = BadText
BY DEF Image, Execvp, First, Images, KindFrom, Named, Here, BadText, HasNul

-----------------------------------------------------------------------------
(* Every step keeps the invariant.                                         *)

\* The invariant holds at first.
LEMMA InitInv == Init => BuilderInv
<1> SUFFICES ASSUME Init PROVE BuilderInv
  OBVIOUS
<1>1. scene \in DOMAIN Scenes
  BY DEF Init
<1>2. args \in Seq(Paths) /\ Keyed(envs)
  BY <1>1, HereTyped, BaseKeyed DEF Init
<1>3. cwd \in Seq(Paths) /\ DOMAIN options = {"umask", "controlling"}
  BY DEF Init
<1>4. edits \in Seq(Edit) /\ calls \in Nat /\ calls <= Here.calls /\ Len(edits) <= calls
  <2>1. Here.calls \in Nat
    BY <1>1, HereTyped
  <2>2. edits = <<>> /\ calls = 0 /\ Len(<<>>) = 0 /\ <<>> \in Seq(Edit)
    BY DEF Init
  <2> QED
    BY <2>1, <2>2
<1>5. outcome = "editing" /\ child = Nothing
  BY DEF Init
<1>6. Typed
  BY <1>1, <1>2, <1>3, <1>4, <1>5 DEF Typed, Outcomes
<1>7. LineIs /\ ChildIs /\ UnixIs
  BY <1>5 DEF LineIs, ChildIs, UnixIs, Converted
<1> QED
  BY <1>6, <1>7 DEF BuilderInv

\* As long as the builder is edited there is no command to look at.
LEMMA StillEditing ==
  ASSUME BuilderInv, Call, outcome' \in {"editing", "panic"}, Typed'
  PROVE  BuilderInv'
<1>1. outcome = "editing" /\ child' = child
  BY DEF Call
<1>2. child' = Nothing
  BY <1>1 DEF BuilderInv, ChildIs
<1>3. LineIs' /\ ChildIs' /\ UnixIs'
  BY <1>2 DEF LineIs, ChildIs, UnixIs, Converted
<1> QED
  BY <1>3 DEF BuilderInv

\* Counting calls.
LEMMA CallTyped ==
  ASSUME BuilderInv, Call
  PROVE  /\ scene' \in DOMAIN Scenes /\ scene' = scene /\ outcome = "editing"
         /\ calls' \in Nat /\ calls' <= Here'.calls /\ calls' = calls + 1
<1>1. scene' = scene /\ Here' = Here /\ outcome = "editing"
  BY OfScene DEF Call
<1>2. scene \in DOMAIN Scenes /\ calls \in Nat /\ Here.calls \in Nat
  BY HereTyped DEF BuilderInv, Typed
<1>3. calls' = calls + 1 /\ calls < Here.calls
  BY DEF Call
<1> QED
  BY <1>1, <1>2, <1>3

\* A call on the builder other than one on its environment.
LEMMA OtherCall ==
  ASSUME BuilderInv, Call, args' \in Seq(Paths), cwd' \in Seq(Paths),
         DOMAIN options' = {"umask", "controlling"}, envs' = envs, edits' = edits,
         outcome' \in {"editing", "panic"}
  PROVE  BuilderInv'
<1>1. /\ scene' \in DOMAIN Scenes /\ scene' = scene /\ calls' \in Nat /\ calls' <= Here'.calls
      /\ calls' = calls + 1
  BY CallTyped
<1>2. Keyed(envs)'
  <2>1. Keyed(envs')
    BY DEF BuilderInv, Typed
  <2> QED
    BY <1>1, <2>1, KeyedNext
<1>3. edits' \in Seq(Edit) /\ Len(edits') <= calls'
  BY <1>1 DEF BuilderInv, Typed
<1>4. Typed'
  BY <1>1, <1>2, <1>3 DEF Typed, Outcomes
<1> QED
  BY <1>4, StillEditing

\* One on its environment.
LEMMA EnvCall ==
  ASSUME BuilderInv, Call, args' = args, cwd' = cwd, options' = options, outcome' = outcome,
         Keyed(envs'), NEW edit \in Edit, edits' = Append(edits, edit)
  PROVE  BuilderInv'
<1>1. /\ scene' \in DOMAIN Scenes /\ scene' = scene /\ calls' \in Nat /\ calls' <= Here'.calls
      /\ calls' = calls + 1 /\ outcome = "editing"
  BY CallTyped
<1>2. Keyed(envs)'
  BY <1>1, KeyedNext
<1>3. edits' \in Seq(Edit) /\ Len(edits') <= calls'
  BY <1>1 DEF BuilderInv, Typed
<1>4. Typed'
  BY <1>1, <1>2, <1>3 DEF BuilderInv, Typed, Outcomes
<1> QED
  BY <1>1, <1>4, StillEditing

\* arg.
LEMMA ArgStep ==
  ASSUME BuilderInv, Arg
  PROVE  BuilderInv'
<1>1. Call /\ UNCHANGED <<envs, cwd, options, edits>> /\ outcome = "editing"
  BY DEF Arg, Call
<1>2. PICK text \in Here.texts:
        IF args = <<>> THEN outcome' = "panic" /\ UNCHANGED args
                       ELSE args' = Append(args, text) /\ UNCHANGED outcome
  BY DEF Arg
<1>3. text \in Paths /\ args \in Seq(Paths)
  BY <1>2, HereTyped DEF BuilderInv, Typed
<1>4. args' \in Seq(Paths) /\ outcome' \in {"editing", "panic"}
  BY <1>1, <1>2, <1>3
<1>5. cwd' \in Seq(Paths) /\ DOMAIN options' = {"umask", "controlling"}
  BY <1>1 DEF BuilderInv, Typed
<1> QED
  BY <1>1, <1>4, <1>5, OtherCall

\* get_argv_mut.
LEMMA GetArgvMutStep ==
  ASSUME BuilderInv, GetArgvMut
  PROVE  BuilderInv'
<1>1. /\ Call /\ UNCHANGED <<envs, cwd, options, edits, outcome>> /\ outcome = "editing"
      /\ args' \in Here.argvs
  BY DEF GetArgvMut, Call
<1>2. args' \in Seq(Paths)
  BY <1>1, HereTyped DEF BuilderInv, Typed
<1>3. cwd' \in Seq(Paths) /\ DOMAIN options' = {"umask", "controlling"}
  BY <1>1 DEF BuilderInv, Typed
<1> QED
  BY <1>1, <1>2, <1>3, OtherCall

\* cwd and clear_cwd.
LEMMA CwdStep ==
  ASSUME BuilderInv, Cwd \/ ClearCwd
  PROVE  BuilderInv'
<1>1. Call /\ UNCHANGED <<args, envs, options, edits, outcome>> /\ outcome = "editing"
  BY DEF Cwd, ClearCwd, Call
<1>2. cwd' \in Seq(Paths)
  <2>1. CASE Cwd
    <3>1. PICK dir \in Here.dirs: cwd' = <<dir>>
      BY <2>1 DEF Cwd
    <3>2. dir \in Paths
      BY <3>1, HereTyped DEF BuilderInv, Typed
    <3> QED
      BY <3>1, <3>2
  <2>2. CASE ClearCwd
    BY <2>2 DEF ClearCwd
  <2> QED
    BY <2>1, <2>2
<1>3. args' \in Seq(Paths) /\ DOMAIN options' = {"umask", "controlling"}
  BY <1>1 DEF BuilderInv, Typed
<1> QED
  BY <1>1, <1>2, <1>3, OtherCall

\* set_controlling_tty and umask.
LEMMA OptionStep ==
  ASSUME BuilderInv, SetControllingTty \/ Umask
  PROVE  BuilderInv'
<1>1. Call /\ UNCHANGED <<args, envs, cwd, edits, outcome>> /\ outcome = "editing"
  BY DEF SetControllingTty, Umask, Call
<1>2. DOMAIN options' = {"umask", "controlling"}
  <2>0. DOMAIN options = {"umask", "controlling"}
    BY DEF BuilderInv, Typed
  <2>1. CASE SetControllingTty
    BY <2>0, <2>1 DEF SetControllingTty
  <2>2. CASE Umask
    BY <2>0, <2>2 DEF Umask
  <2> QED
    BY <2>1, <2>2
<1>3. args' \in Seq(Paths) /\ cwd' \in Seq(Paths)
  BY <1>1 DEF BuilderInv, Typed
<1> QED
  BY <1>1, <1>2, <1>3, OtherCall

\* env.
LEMMA EnvStep ==
  ASSUME BuilderInv, Env
  PROVE  BuilderInv'
<1>1. Call /\ UNCHANGED <<args, cwd, options, outcome>>
  BY DEF Env
<1>2. PICK s \in Here.settings:
        envs' = Insert(envs, s.name, s.value, FALSE) /\ edits' = Append(edits, s)
  BY DEF Env
<1>3. s \in Setting
  BY <1>2, HereTyped DEF BuilderInv, Typed
<1>4. s \in Edit /\ s.name \in Names /\ s.value \in Values
  BY <1>3 DEF Edit, Setting, Values
<1>5. Keyed(envs')
  BY <1>2, <1>4, InsertKeyed DEF BuilderInv, Typed
<1> QED
  BY <1>1, <1>2, <1>4, <1>5, EnvCall

\* env_remove.
LEMMA EnvRemoveStep ==
  ASSUME BuilderInv, EnvRemove
  PROVE  BuilderInv'
<1>1. Call /\ UNCHANGED <<args, cwd, options, outcome>>
  BY DEF EnvRemove
<1>2. PICK name \in Here.removals:
        envs' = Without(envs, name) /\ edits' = Append(edits, [name |-> name])
  BY DEF EnvRemove
<1>3. [name |-> name] \in Edit
  <2>1. name \in Names
    BY <1>2, HereTyped DEF BuilderInv, Typed
  <2> QED
    BY <2>1 DEF Edit
<1>4. Keyed(envs')
  BY <1>2, WithoutKeyed DEF BuilderInv, Typed
<1> QED
  BY <1>1, <1>2, <1>3, <1>4, EnvCall

\* env_clear.
LEMMA EnvClearStep ==
  ASSUME BuilderInv, EnvClear
  PROVE  BuilderInv'
<1>1. /\ Call /\ UNCHANGED <<args, cwd, options, outcome>>
      /\ envs' = << >> /\ edits' = Append(edits, [all |-> TRUE])
  BY DEF EnvClear
<1>2. [all |-> TRUE] \in Edit
  BY DEF Edit
<1>3. Keyed(envs')
  BY <1>1, EmptyKeyed
<1> QED
  BY <1>1, <1>2, <1>3, EnvCall

-----------------------------------------------------------------------------
(* Conversion and spawn.                                                   *)

\* The builder is not edited in these steps.
Settled == UNCHANGED <<scene, args, envs, cwd, options, edits, calls>>

\* So the types stay.
LEMMA SettledTyped ==
  ASSUME BuilderInv, Settled, outcome' \in Outcomes
  PROVE  Typed'
<1>1. scene' = scene /\ Here' = Here
  BY OfScene DEF Settled
<1>2. Keyed(envs)'
  <2>1. Keyed(envs')
    BY DEF BuilderInv, Typed, Settled
  <2> QED
    BY <1>1, <2>1, KeyedNext
<1> QED
  BY <1>1, <1>2 DEF BuilderInv, Typed, Settled

\* as_command.
LEMMA AsCommandStep ==
  ASSUME BuilderInv, AsCommand
  PROVE  BuilderInv'
<1>1. /\ outcome = "editing" /\ ~Windows /\ child' = child /\ Settled
      /\ outcome' \in {"error", "converted"}
  BY DEF AsCommand, Settled
<1>2. /\ HomeDir' = HomeDir /\ Dir' = Dir /\ Program' = Program /\ Argv' = Argv
      /\ FinalEnv' = FinalEnv /\ Windows' = Windows
  BY <1>1, SameCommand, OfScene DEF Settled
<1>3. Typed'
  BY <1>1, SettledTyped DEF Outcomes
<1>4. LineIs'
  BY <1>1, <1>2 DEF LineIs
<1>5. ChildIs'
  BY <1>1 DEF BuilderInv, ChildIs
<1>6. UnixIs'
  <2>1. CASE HomeDir = <<>> \/ Program = <<>>
    <3>1. outcome' = "error"
      BY <2>1 DEF AsCommand
    <3> QED
      BY <1>2, <2>1, <3>1 DEF UnixIs, Converted
  <2>2. CASE ~(HomeDir = <<>> \/ Program = <<>>)
    <3>1. /\ outcome' = "converted"
          /\ command' = [program |-> Program[1], argv |-> Argv, dir |-> <<Dir>>, env |-> FinalEnv]
      BY <2>2 DEF AsCommand
    <3>2. /\ command'.program = Program[1] /\ command'.argv = Argv /\ command'.dir = <<Dir>>
          /\ command'.env = FinalEnv
      BY <3>1
    <3> QED
      BY <1>2, <2>2, <3>1, <3>2 DEF UnixIs, Converted
  <2> QED
    BY <2>1, <2>2
<1> QED
  BY <1>3, <1>4, <1>5, <1>6 DEF BuilderInv

\* cmdline.
LEMMA CmdlineStep ==
  ASSUME BuilderInv, Cmdline
  PROVE  BuilderInv'
<1>1. /\ outcome = "editing" /\ Windows /\ child' = child /\ Settled
      /\ outcome' \in {"error", "converted", "panic"}
  BY DEF Cmdline, Settled
<1>2. WindowsProgram' = WindowsProgram /\ LineArgs' = LineArgs /\ Refused(args)' = Refused(args)
      /\ Windows' = Windows
  BY <1>1, SameLine, OfScene DEF Settled
<1>3. Typed'
  BY <1>1, SettledTyped DEF Outcomes
<1>4. LineIs'
  <2>1. CASE outcome' # "converted"
    BY <1>1, <2>1 DEF LineIs, Converted
  <2>2. CASE outcome' = "converted"
    <3>1. ~Refused(args)
      BY <2>2 DEF Cmdline
    <3>2. command' = [program |-> WindowsProgram.file, line |-> Joined(LineArgs),
                      dir |-> WindowsDir, block |-> Block]
      BY <2>2 DEF Cmdline
    <3>3. command'.program = WindowsProgram.file /\ command'.line = Joined(LineArgs)
      BY <3>2
    <3> QED
      BY <1>2, <3>1, <3>3 DEF LineIs
  <2> QED
    BY <2>1, <2>2
<1>5. ChildIs'
  BY <1>1 DEF BuilderInv, ChildIs
<1>6. UnixIs'
  BY <1>1, <1>2 DEF UnixIs
<1> QED
  BY <1>3, <1>4, <1>5, <1>6 DEF BuilderInv

\* A spawn on Unix.
LEMMA SpawnUnixStep ==
  ASSUME BuilderInv, SpawnUnix
  PROVE  BuilderInv'
<1>1. /\ outcome = "converted" /\ ~Windows /\ command' = command /\ Settled
      /\ outcome' \in {"running", "refused"}
  BY DEF SpawnUnix, Settled
<1>2. /\ HomeDir' = HomeDir /\ Dir' = Dir /\ Program' = Program /\ Argv' = Argv
      /\ FinalEnv' = FinalEnv /\ Windows' = Windows /\ Image' = Image /\ BadText' = BadText
  BY <1>1, SameCommand, SameImage, OfScene DEF Settled
<1>3. Typed'
  BY <1>1, SettledTyped DEF Outcomes
<1>4. LineIs'
  BY <1>1, <1>2 DEF LineIs
<1>5. /\ HomeDir # <<>> /\ Program # <<>> /\ command.program = Program[1]
      /\ command.argv = Argv /\ command.dir = <<Dir>> /\ command.env = FinalEnv
  BY <1>1 DEF BuilderInv, UnixIs, Converted
<1>6. CASE BadText \/ ~IsDir(command.dir[1]) \/ Image = <<>>
  <2>1. outcome' = "refused" /\ child' = child
    BY <1>6 DEF SpawnUnix, BadText, Image
  <2>2. ChildIs'
    BY <1>1, <2>1 DEF BuilderInv, ChildIs
  <2>3. IsDir(command.dir[1])' = IsDir(command.dir[1])
    BY <1>1 DEF Settled, IsDir, Kind, KindFrom, Named, Here
  <2>4. UnixIs'
    BY <1>1, <1>2, <1>5, <1>6, <2>1, <2>3 DEF UnixIs
  <2> QED
    BY <1>3, <1>4, <2>2, <2>4 DEF BuilderInv
<1>7. CASE ~(BadText \/ ~IsDir(command.dir[1]) \/ Image = <<>>)
  <2> DEFINE new == [image |-> Image[1], dir |-> Named(Here.pwd, command.dir[1]),
                     argv |-> command.argv,
                     env |-> {[name |-> n, text |-> ValueText(command.env[n])]:
                                n \in DOMAIN command.env}]
  <2>1. outcome' = "running" /\ child' = new
    BY <1>7 DEF SpawnUnix, BadText, Image
  <2>2. new.image = Image[1] /\ new # Nothing
    <3>1. "argv" \in DOMAIN new /\ "argv" \notin DOMAIN Nothing
      BY DEF Nothing
    <3> QED
      BY <3>1
  <2> HIDE DEF new
  <2>3. ChildIs'
    BY <1>1, <1>2, <2>1, <2>2 DEF ChildIs, Nothing
  <2>4. UnixIs'
    BY <1>1, <1>2, <1>5, <1>7, <2>1, <2>2 DEF UnixIs
  <2> QED
    BY <1>3, <1>4, <2>3, <2>4 DEF BuilderInv
<1> QED
  BY <1>6, <1>7

\* A spawn on Windows.
LEMMA CreateProcessStep ==
  ASSUME BuilderInv, CreateProcess
  PROVE  BuilderInv'
<1>1. /\ outcome = "converted" /\ Windows /\ command' = command /\ Settled
      /\ outcome' \in {"running", "refused"}
  BY DEF CreateProcess, Settled
<1>2. WindowsProgram' = WindowsProgram /\ LineArgs' = LineArgs /\ Refused(args)' = Refused(args)
      /\ Windows' = Windows
  BY <1>1, SameLine, OfScene DEF Settled
<1>3. Typed'
  BY <1>1, SettledTyped DEF Outcomes
<1>4. LineIs'
  <2>1. command.program = WindowsProgram.file /\ command.line = Joined(LineArgs) /\ ~Refused(args)
    BY <1>1 DEF BuilderInv, LineIs, Converted
  <2> QED
    BY <1>1, <1>2, <2>1 DEF LineIs
<1>6. UnixIs'
  BY <1>1, <1>2 DEF UnixIs
<1>7. CASE ~IsProgram(CString(command.program))
  <2>1. outcome' = "refused" /\ child' = child
    BY <1>7 DEF CreateProcess
  <2>2. ChildIs'
    BY <1>1, <2>1 DEF BuilderInv, ChildIs
  <2> QED
    BY <1>3, <1>4, <1>6, <2>2 DEF BuilderInv
<1>8. CASE IsProgram(CString(command.program))
  <2> DEFINE new == [image |-> Named(Here.pwd, CString(command.program)),
                     dir |-> IF command.dir = <<>> THEN Here.pwd ELSE command.dir[1],
                     argv |-> Parsed(CString(command.line)),
                     env |-> {[name |-> Head(t), text |-> SubSeq(t, 3, Len(t))]:
                                t \in Texts(command.block)}]
  <2>1. outcome' = "running" /\ child' = new
    BY <1>8 DEF CreateProcess
  <2>2. new.argv = Parsed(CString(command.line)) /\ new # Nothing
    <3>1. "argv" \in DOMAIN new /\ "argv" \notin DOMAIN Nothing
      BY DEF Nothing
    <3> QED
      BY <3>1
  <2> HIDE DEF new
  <2>3. IsProgram(CString(command.program))'
    <3>1. IsProgram(CString(command.program))' = IsProgram(CString(command.program))
      BY <1>1 DEF Settled, IsProgram, Kind, KindFrom, Named, Here
    <3> QED
      BY <1>8, <3>1
  <2>4. ChildIs'
    BY <1>1, <1>2, <2>1, <2>2, <2>3 DEF ChildIs, Nothing
  <2> QED
    BY <1>3, <1>4, <1>6, <2>4 DEF BuilderInv
<1> QED
  BY <1>7, <1>8

-----------------------------------------------------------------------------
(* Types and arguments.                                                    *)

\* Every step keeps the invariant.
LEMMA NextInv ==
  ASSUME BuilderInv, [Next]_vars
  PROVE  BuilderInv'
<1>1. CASE Arg
  BY <1>1, ArgStep
<1>2. CASE GetArgvMut
  BY <1>2, GetArgvMutStep
<1>3. CASE Env
  BY <1>3, EnvStep
<1>4. CASE EnvRemove
  BY <1>4, EnvRemoveStep
<1>5. CASE EnvClear
  BY <1>5, EnvClearStep
<1>6. CASE Cwd \/ ClearCwd
  BY <1>6, CwdStep
<1>7. CASE SetControllingTty \/ Umask
  BY <1>7, OptionStep
<1>8. CASE AsCommand
  BY <1>8, AsCommandStep
<1>9. CASE SpawnUnix
  BY <1>9, SpawnUnixStep
<1>10. CASE Cmdline
  BY <1>10, CmdlineStep
<1>11. CASE CreateProcess
  BY <1>11, CreateProcessStep
<1>12. CASE UNCHANGED vars
  <2>1. Settled /\ command' = command /\ outcome' = outcome /\ child' = child
    BY <1>12 DEF vars, Settled
  <2>2. Typed'
    BY <2>1, SettledTyped DEF BuilderInv, Typed
  <2>3. WindowsProgram' = WindowsProgram /\ LineArgs' = LineArgs /\ Refused(args)' = Refused(args)
        /\ Windows' = Windows
    BY <2>1, SameLine, OfScene DEF Settled
  <2>4. /\ HomeDir' = HomeDir /\ Dir' = Dir /\ Program' = Program /\ Argv' = Argv
        /\ FinalEnv' = FinalEnv /\ Image' = Image /\ BadText' = BadText
    BY <2>1, SameCommand, SameImage DEF Settled
  <2>5. LineIs'
    BY <2>1, <2>3 DEF BuilderInv, LineIs, Converted
  <2>6. ChildIs'
    <3>1. IsProgram(CString(command.program))' = IsProgram(CString(command.program))
      BY <2>1 DEF Settled, IsProgram, Kind, KindFrom, Named, Here
    <3> QED
      BY <2>1, <2>3, <3>1 DEF BuilderInv, ChildIs, Nothing
  <2>7. UnixIs'
    <3>1. IsDir(command.dir[1])' = IsDir(command.dir[1])
      BY <2>1 DEF Settled, IsDir, Kind, KindFrom, Named, Here
    <3> QED
      BY <2>1, <2>3, <2>4, <3>1 DEF BuilderInv, UnixIs, Converted
  <2> QED
    BY <2>2, <2>5, <2>6, <2>7 DEF BuilderInv
<1> QED
  BY <1>1, <1>2, <1>3, <1>4, <1>5, <1>6, <1>7, <1>8, <1>9, <1>10, <1>11, <1>12 DEF Next

\* The invariant holds in every reachable state of the builder, whatever the
\* scenes, names and characters are.
THEOREM BuilderInvariant == Spec => []BuilderInv
BY InitInv, NextInv, PTL DEF Spec

\* The types follow from it ...
LEMMA InvTypeOK == BuilderInv => TypeOK
<1> SUFFICES ASSUME BuilderInv PROVE TypeOK
  OBVIOUS
<1>1. outcome \in {"editing", "converted", "error", "panic", "running", "refused"}
  BY DEF BuilderInv, Typed, Outcomes
<1>2. calls \in 0..Here.calls /\ Len(edits) <= calls
  BY HereTyped DEF BuilderInv, Typed
<1>3. DOMAIN options = {"umask", "controlling"}
  BY DEF BuilderInv, Typed
<1>4. ASSUME NEW m \in DOMAIN envs, NEW n \in DOMAIN envs, Same(envs[m].key, envs[n].key)
      PROVE  m = n
  <2>1. m = MapKey(envs[m].key) /\ n = MapKey(envs[n].key)
    BY DEF BuilderInv, Typed, Keyed
  <2>2. MapKey(envs[m].key) = MapKey(envs[n].key)
    BY <1>4 DEF Same, MapKey
  <2> QED
    BY <2>1, <2>2
<1>5. child # Nothing <=> outcome = "running"
  BY DEF BuilderInv, ChildIs
<1> QED
  BY <1>1, <1>2, <1>3, <1>4, <1>5 DEF TypeOK

\* The types are kept, and no variable is in the map twice under two
\* spellings of its name (EnvEntry::map_key, cmdbuilder.rs:21-47, 295-310).
THEOREM BuilderTypes == Spec => []TypeOK
BY BuilderInvariant, InvTypeOK, PTL

\* The program comes first in the line.
LEMMA LineFirst ==
  ASSUME args \in Seq(Paths)
  PROVE  LineArgs[1] = Spelled(WindowsProgram.file)
<1> DEFINE x == Spelled(WindowsProgram.file)
           rest == SubSeq(args, 2, Len(args))
           U == Paths \cup {x}
<1>1. rest \in Seq(Paths)
  OBVIOUS
<1>2. LineArgs = <<x>> \o rest
  BY DEF LineArgs
<1> HIDE DEF rest, x
<1>3. rest \in Seq(U) /\ <<x>> \in Seq(U) /\ Len(<<x>>) = 1 /\ <<x>>[1] = x
  <2>1. Paths \subseteq U
    OBVIOUS
  <2> HIDE DEF U
  <2>2. rest \in Seq(U)
    BY <1>1, <2>1, Widen
  <2> QED
    BY <2>2 DEF U
<1> HIDE DEF U
<1>4. (<<x>> \o rest)[1] = x
  BY <1>3
<1> QED
  BY <1>2, <1>4 DEF x

\* ... and so does what a child on Windows sees of its arguments.
LEMMA InvRoundTrip == BuilderInv => RoundTrip
<1> SUFFICES ASSUME BuilderInv, child # Nothing, Windows, "nul" \notin ToSet(LineArgs[1])
             PROVE  child.argv = LineArgs
  BY DEF RoundTrip
<1>1. scene \in DOMAIN Scenes /\ args \in Seq(Paths) /\ Keyed(envs) /\ outcome = "running"
  BY DEF BuilderInv, Typed, ChildIs
<1>2. /\ command.program = WindowsProgram.file /\ command.line = Joined(LineArgs)
      /\ ~Refused(args)
  BY <1>1 DEF BuilderInv, LineIs, Converted
<1>3. IsProgram(CString(command.program)) /\ child.argv = Parsed(CString(command.line))
  BY <1>1 DEF BuilderInv, ChildIs
<1> DEFINE p == WindowsProgram.file
<1>4. p \in Seq(Wide)
  BY <1>1, ProgramType
<1>5. LineArgs[1] = Spelled(p)
  BY <1>1, LineFirst
<1>6. Spelled(p) \in Text /\ Nameable(Spelled(p))
  BY <1>1, <1>2, <1>3, <1>4, <1>5, ProgramNameable
<1>7. LineArgs \in Args /\ LineArgs # <<>>
  BY <1>1, <1>2, <1>6, LineArgsType
<1>8. Parsed(CString(Joined(LineArgs))) = LineArgs
  BY <1>5, <1>6, <1>7, LineRoundTrips
<1> QED
  BY <1>2, <1>3, <1>8

\* A program that runs on Windows is given the caller's arguments, one by
\* one, whatever quotes, backslashes and blanks are in them
\* (cmdbuilder.rs:655-737).
THEOREM RoundTrips == Spec => []RoundTrip
BY BuilderInvariant, InvRoundTrip, PTL

-----------------------------------------------------------------------------
(* Directories.                                                            *)

\* Texts are joined alike in either order.
Regroups(x, y, z) == (x \o y) \o z = x \o (y \o z)

\* What is kept of one more name comes last.
LEMMA KeptLast ==
  ASSUME NEW C, NEW x \in Seq(C), NEW y \in Seq(C), NEW c \in C
  PROVE  Regroups(x, y, Kept(c))
<1> DEFINE z == Kept(c)
<1>1. z \in Seq(C)
  BY DEF Kept
<1> HIDE DEF z
<1>2. (x \o y) \o z = x \o (y \o z)
  BY <1>1, ConcatAssociative
<1> QED
  BY <1>2 DEF z, Regroups

\* Clean takes two parts one by one.
LEMMA CleanConcat ==
  ASSUME NEW C, NEW s \in Seq(C), NEW t \in Seq(C)
  PROVE  Clean(s \o t) = Clean(s) \o Clean(t)
<1> DEFINE T == {u \in Seq(C): Clean(s \o u) = Clean(s) \o Clean(u)}
<1>0. Clean(s) \in Seq(C)
  BY CleanType
<1>1. <<>> \in T
  <2>1. s \o <<>> = s /\ Clean(s) \o <<>> = Clean(s) /\ <<>> \in Seq(C)
    BY <1>0
  <2> QED
    BY <2>1, CleanNone
<1>2. ASSUME NEW u \in Seq(C), NEW c \in C, u \in T
      PROVE  Append(u, c) \in T
  <2>1. s \o Append(u, c) = Append(s \o u, c) /\ s \o u \in Seq(C) /\ Append(u, c) \in Seq(C)
    OBVIOUS
  <2>2. Clean(Append(s \o u, c)) = Clean(s \o u) \o Kept(c) /\ Clean(Append(u, c)) = Clean(u) \o Kept(c)
    BY <2>1, CleanAppend
  <2>3. Clean(u) \in Seq(C) /\ Kept(c) \in Seq(C)
    BY CleanType DEF Kept
  <2>4. (Clean(s) \o Clean(u)) \o Kept(c) = Clean(s) \o (Clean(u) \o Kept(c))
    <3>1. Regroups(Clean(s), Clean(u), Kept(c))
      BY <1>0, <2>3, KeptLast, Zenon
    <3> QED
      BY <3>1, Zenon DEF Regroups
  <2> QED
    BY <1>2, <2>1, <2>2, <2>4
<1> HIDE DEF T
<1>3. \A u \in Seq(C): u \in T
  BY <1>1, <1>2, SeqInduction
<1> QED
  BY <1>3 DEF T

\* What is clean stays so.
LEMMA CleanTwice ==
  ASSUME NEW C, NEW s \in Seq(C)
  PROVE  Clean(Clean(s)) = Clean(s)
<1> DEFINE T == {u \in Seq(C): Clean(Clean(u)) = Clean(u)}
<1>1. <<>> \in T
  BY CleanNone
<1>2. ASSUME NEW u \in Seq(C), NEW c \in C, u \in T
      PROVE  Append(u, c) \in T
  <2>1. Append(u, c) \in Seq(C) /\ Clean(Append(u, c)) = Clean(u) \o Kept(c)
    BY CleanAppend
  <2>2. Clean(u) \in Seq(C) /\ Kept(c) \in Seq(C)
    BY CleanType DEF Kept
  <2>3. Clean(Clean(u) \o Kept(c)) = Clean(Clean(u)) \o Clean(Kept(c))
    BY <2>2, CleanConcat
  <2>4. Clean(Kept(c)) = Kept(c)
    <3>1. CASE c = "."
      BY <3>1, CleanNone DEF Kept
    <3>2. CASE c # "."
      <4>1. <<>> \in Seq(C) /\ Append(<<>>, c) = <<c>> /\ <<>> \o <<c>> = <<c>>
        OBVIOUS
      <4>2. Clean(Append(<<>>, c)) = Clean(<<>>) \o Kept(c)
        BY <4>1, CleanAppend
      <4> QED
        BY <3>2, <4>1, <4>2, CleanNone DEF Kept
    <3> QED
      BY <3>1, <3>2
  <2> QED
    BY <1>2, <2>1, <2>3, <2>4
<1> HIDE DEF T
<1>3. \A u \in Seq(C): u \in T
  BY <1>1, <1>2, SeqInduction
<1> QED
  BY <1>3 DEF T

\* A path from a directory, cleaned before or after.
LEMMA CleanFrom ==
  ASSUME NEW d \in Paths, NEW p \in Paths
  PROVE  Clean(Clean(d) \o p) = Clean(d \o p)
<1>1. d \in Seq(Chars) /\ p \in Seq(Chars) /\ Clean(d) \in Seq(Chars)
  BY CleanType DEF Paths
<1>2. /\ Clean(Clean(d) \o p) = Clean(Clean(d)) \o Clean(p)
      /\ Clean(d \o p) = Clean(d) \o Clean(p)
  BY <1>1, CleanConcat
<1> QED
  BY <1>1, <1>2, CleanTwice

\* The home is a path, if there is one.
LEMMA HomeType ==
  ASSUME BuilderInv
  PROVE  HomeDir \in Seq(Paths)
<1>1. scene \in DOMAIN Scenes /\ Keyed(envs)
  BY DEF BuilderInv, Typed
<1>2. Has(envs, "HOME") => Value(envs, "HOME") \in Seq(Paths)
  BY <1>1, ValueTyped, FirstPath
<1>3. <<<<"/">>>> \in Seq(Paths)
  BY OwnNames DEF Paths
<1>4. Here.passwd # <<>> => First(<<Here.passwd[1].home>>, Utf8) \in Seq(Paths)
  <2> SUFFICES ASSUME Here.passwd # <<>>
               PROVE  First(<<Here.passwd[1].home>>, Utf8) \in Seq(Paths)
    OBVIOUS
  <2> DEFINE E == [shell: Paths, home: Paths]
             s == Here.passwd
             h == s[1].home
             hits == {i \in DOMAIN <<h>>: Utf8(<<h>>[i])}
  <2>1. s \in Seq(E) /\ s # <<>>
    BY <1>1, HereTyped
  <2> HIDE DEF E, s
  <2>2. s[1] \in E
    BY <2>1
  <2>3. h \in Paths
    BY <2>2 DEF E
  <2> HIDE DEF h
  <2>4. First(<<h>>, Utf8) = IF hits = {} THEN <<>> ELSE <<<<h>>[Min(hits)]>>
    BY DEF First
  <2>5. hits = {} \/ hits = {1}
    OBVIOUS
  <2>6. Min({1}) = 1
    BY MinIsThe
  <2>7. First(<<h>>, Utf8) = <<>> \/ First(<<h>>, Utf8) = <<h>>
    <3>1. CASE hits = {}
      BY <2>4, <3>1
    <3>2. CASE hits = {1}
      <4>1. Min(hits) = 1 /\ hits # {}
        BY <2>6, <3>2
      <4> HIDE DEF hits
      <4>2. <<h>>[1] = h
        OBVIOUS
      <4> QED
        BY <2>4, <4>1, <4>2
    <3> QED
      BY <2>5, <3>1, <3>2
  <2>8. <<>> \in Seq(Paths) /\ <<h>> \in Seq(Paths)
    BY <2>3
  <2> QED
    BY <2>7, <2>8 DEF h, s
<1> QED
  BY <1>2, <1>3, <1>4 DEF HomeDir

\* So is the directory that a child enters on Unix.
LEMMA DirType ==
  ASSUME BuilderInv, HomeDir # <<>>
  PROVE  Dir \in Paths
<1>1. HomeDir[1] \in Paths
  BY HomeType
<1>2. cwd \in Seq(Paths)
  BY DEF BuilderInv, Typed
<1>3. cwd # <<>> => cwd[1] \in Paths
  BY <1>2
<1> QED
  BY <1>1, <1>3 DEF Dir

-----------------------------------------------------------------------------
(* The parent's candidates and the child's.                                *)

\* The candidates that can be executed from a directory.
Runnable(s, dir) == {i \in DOMAIN s: KindFrom(dir, s[i]) = "program"}

\* execvp takes the first of them.
LEMMA ExecvpIs ==
  ASSUME NEW program, NEW env, NEW dir, NEW s, s = Images(program, env),
         NEW hits, hits = Runnable(s, dir)
  PROVE  Execvp(program, env, dir) = IF hits = {} THEN <<>> ELSE <<Named(dir, s[Min(hits)])>>
<1> DEFINE Runs(path) == KindFrom(dir, path) = "program"
           image == First(s, Runs)
<1>1. image = IF hits = {} THEN <<>> ELSE <<s[Min(hits)]>>
  BY DEF First, Runnable
<1>2. Execvp(program, env, dir) = [i \in DOMAIN image |-> Named(dir, image[i])]
  BY DEF Execvp
<1> HIDE DEF image
<1>3. CASE hits = {}
  <2>1. image = <<>>
    BY <1>1, <1>3
  <2> QED
    BY <1>2, <1>3, <2>1
<1>4. CASE hits # {}
  <2> DEFINE x == s[Min(hits)]
  <2>1. image = <<x>>
    BY <1>1, <1>4
  <2> HIDE DEF x
  <2>2. [i \in DOMAIN <<x>> |-> Named(dir, <<x>>[i])] = <<Named(dir, x)>>
    OBVIOUS
  <2> QED
    BY <1>2, <1>4, <2>1, <2>2 DEF x
<1> QED
  BY <1>3, <1>4

\* search_path takes the first of its own.
LEMMA SearchIs ==
  ASSUME NEW exe, NEW dir, NEW s, s = Candidates(exe, dir), NEW hits, hits = Runnable(s, Here.pwd)
  PROVE  SearchPath(exe, dir) = IF hits = {} THEN <<>> ELSE <<s[Min(hits)]>>
BY DEF SearchPath, First, Runnable, IsProgram, Kind

\* A candidate of the parent is absolute, and the child means the same file.
AgreeAt(c, m, d) ==
  c \in Paths /\ Absolute(c) /\ m # <<>> /\ Named(d, m) = Clean(c)

\* Candidates that agree, one by one.
Agree(s, t, d) ==
  /\ DOMAIN s = DOMAIN t /\ DOMAIN s \subseteq Nat
  /\ \A i \in DOMAIN s: AgreeAt(s[i], t[i], d)

\* The two are programs together.
LEMMA SameKind ==
  ASSUME NEW c, NEW m, NEW d, AgreeAt(c, m, d), NEW e
  PROVE  Named(e, c) = Clean(c) /\ KindFrom(d, m) = KindFrom(e, c)
<1>1. c # <<>> /\ Named(e, c) = Clean(c)
  BY DEF AgreeAt, Absolute, Named, Join
<1> QED
  BY <1>1 DEF KindFrom, AgreeAt

\* So the same candidates can be executed.
LEMMA SameRunnable ==
  ASSUME NEW s, NEW t, NEW d, NEW e, Agree(s, t, d)
  PROVE  Runnable(t, d) = Runnable(s, e)
<1>1. \A i \in DOMAIN s: KindFrom(d, t[i]) = KindFrom(e, s[i])
  BY SameKind DEF Agree
<1>2. DOMAIN s = DOMAIN t
  BY DEF Agree
<1> QED
  BY <1>1, <1>2 DEF Runnable

\* An absolute program is not looked up again.
LEMMA ImagesOfFound ==
  ASSUME NEW c, Absolute(c), NEW env
  PROVE  Images(c, env) = <<c>>
BY DEF Images

\* What the parent found is what the child runs, and nothing else.
LEMMA FoundIsRun ==
  ASSUME NEW exe, NEW dir, NEW env, NEW d,
         Agree(Candidates(exe, dir), Images(exe, env), d)
  PROVE  /\ SearchPath(exe, dir) = <<>> => Execvp(exe, env, d) = <<>>
         /\ SearchPath(exe, dir) # <<>> =>
              /\ Execvp(SearchPath(exe, dir)[1], env, d) = Execvp(exe, env, d)
              /\ Execvp(exe, env, d) # <<>>
<1> DEFINE s == Candidates(exe, dir)
           t == Images(exe, env)
           hits == Runnable(s, Here.pwd)
<1>0. Agree(s, t, d)
  OBVIOUS
<1>1. hits = Runnable(t, d)
  BY SameRunnable
<1>2. SearchPath(exe, dir) = IF hits = {} THEN <<>> ELSE <<s[Min(hits)]>>
  BY SearchIs
<1>3. Execvp(exe, env, d) = IF hits = {} THEN <<>> ELSE <<Named(d, t[Min(hits)])>>
  BY <1>1, ExecvpIs
<1>4. CASE hits = {}
  BY <1>2, <1>3, <1>4
<1>5. CASE hits # {}
  <2>1. hits \in SUBSET Nat /\ hits \subseteq DOMAIN s
    BY <1>0 DEF Agree, Runnable
  <2> DEFINE k == Min(hits)
             c == s[k]
  <2>2. k \in hits
    BY <1>5, <2>1, MinIs
  <2> HIDE DEF k, hits
  <2>3. k \in DOMAIN s
    BY <2>1, <2>2
  <2>4. AgreeAt(c, t[k], d)
    BY <1>0, <2>3 DEF Agree
  <2>5. KindFrom(Here.pwd, c) = "program"
    BY <2>2 DEF hits, Runnable
  <2> HIDE DEF s, t
  <2>6. KindFrom(d, c) = "program" /\ Named(d, c) = Clean(c) /\ Named(d, t[k]) = Clean(c) /\ Absolute(c)
    <3>1. AgreeAt(c, c, d)
      BY <2>4 DEF AgreeAt, Absolute, Named, Join
    <3>2. Named(d, c) = Clean(c) /\ KindFrom(d, t[k]) = KindFrom(d, c)
      BY <2>4, SameKind
    <3>3. KindFrom(d, t[k]) = KindFrom(Here.pwd, c)
      BY <2>4, SameKind
    <3> QED
      BY <2>4, <2>5, <3>2, <3>3 DEF AgreeAt
  <2> HIDE DEF c
  <2>7. Images(c, env) = <<c>>
    BY <2>6, ImagesOfFound
  <2>8. Runnable(<<c>>, d) = {1}
    <3>1. DOMAIN <<c>> = {1} /\ <<c>>[1] = c
      OBVIOUS
    <3> QED
      BY <2>6, <3>1 DEF Runnable
  <2>9. Execvp(c, env, d) = <<Named(d, c)>>
    <3>1. Min({1}) = 1 /\ <<c>>[1] = c /\ {1} # {}
      BY MinIsThe
    <3> DEFINE q == <<c>>
               one == {1}
    <3>2. Execvp(c, env, d) = IF one = {} THEN <<>> ELSE <<Named(d, q[Min(one)])>>
      <4>1. q = Images(c, env) /\ one = Runnable(q, d)
        BY <2>7, <2>8
      <4> HIDE DEF q, one
      <4> QED
        BY <4>1, ExecvpIs, Zenon
    <3> QED
      BY <3>1, <3>2
  <2>10. SearchPath(exe, dir) = <<c>> /\ Execvp(exe, env, d) = <<Named(d, t[k])>>
    BY <1>2, <1>3, <1>5 DEF k, c
  <2>11. <<c>>[1] = c /\ <<c>> # <<>> /\ <<Named(d, t[k])>> # <<>>
    OBVIOUS
  <2> QED
    BY <2>6, <2>9, <2>10, <2>11
<1> QED
  BY <1>4, <1>5

-----------------------------------------------------------------------------
(* The program that runs on Unix.                                          *)

\* A path onwards from an absolute one.
LEMMA Onwards ==
  ASSUME NEW d \in Paths, Absolute(d), NEW p \in Paths
  PROVE  d \o p \in Paths /\ Absolute(d \o p)
<1>1. d \in Seq(Chars) /\ p \in Seq(Chars) /\ d # <<>> /\ d[1] = "/"
  BY DEF Paths, Absolute
<1>2. d \o p \in Seq(Chars) /\ Len(d \o p) # 0 /\ (d \o p)[1] = d[1]
  BY <1>1
<1> QED
  BY <1>1, <1>2 DEF Paths, Absolute

\* A path relative to the child's directory, and the same from the root.
LEMMA AgreeRelative ==
  ASSUME NEW dir \in Paths, Absolute(dir), NEW p \in Paths, p # <<>>, ~Absolute(p)
  PROVE  AgreeAt(dir \o p, p, Clean(dir))
<1>1. Named(Clean(dir), p) = Clean(Clean(dir) \o p)
  BY DEF Named, Join
<1> QED
  BY <1>1, CleanFrom, Onwards DEF AgreeAt

\* An absolute path is the same from everywhere.
LEMMA AgreeAbsolute ==
  ASSUME NEW p \in Paths, Absolute(p), NEW d
  PROVE  AgreeAt(p, p, d)
BY DEF AgreeAt, Absolute, Named, Join

\* A name looked up in one entry of PATH.
LEMMA AgreeEntry ==
  ASSUME NEW dir \in Paths, Absolute(dir), NEW entry \in Paths, NEW exe \in Paths,
         ~Absolute(exe), exe # <<>>
  PROVE  AgreeAt(Join(Join(dir, entry), exe), Join(entry, exe), Clean(dir))
<1>0. Join(entry, exe) = entry \o exe
  BY DEF Join
<1>1. CASE Absolute(entry)
  <2>1. Join(Join(dir, entry), exe) = entry \o exe
    BY <1>1 DEF Join
  <2> QED
    BY <1>0, <1>1, <2>1, Onwards, AgreeAbsolute
<1>2. CASE ~Absolute(entry)
  <2>1. Join(Join(dir, entry), exe) = (dir \o entry) \o exe
    BY <1>2 DEF Join
  <2>2. dir \in Seq(Chars) /\ entry \in Seq(Chars) /\ exe \in Seq(Chars)
    BY DEF Paths
  <2>3. (dir \o entry) \o exe = dir \o (entry \o exe)
    BY <2>2, ConcatAssociative
  <2>4. entry \o exe \in Paths /\ entry \o exe # <<>>
    BY <2>2 DEF Paths
  <2>5. ~Absolute(entry \o exe)
    <3>1. CASE entry = <<>>
      <4>1. entry \o exe = exe
        BY <2>2, <3>1
      <4> QED
        BY <4>1
    <3>2. CASE entry # <<>>
      <4>1. (entry \o exe)[1] = entry[1]
        BY <2>2, <3>2
      <4> QED
        BY <1>2, <3>2, <4>1 DEF Absolute
    <3> QED
      BY <3>1, <3>2
  <2> QED
    BY <1>0, <2>1, <2>3, <2>4, <2>5, AgreeRelative
<1> QED
  BY <1>1, <1>2

\* The child's PATH is the builder's.
LEMMA UnixKey ==
  ASSUME ~Windows
  PROVE  /\ "PATH" \in DOMAIN FinalEnv <=> Has(envs, "PATH")
         /\ Has(envs, "PATH") => FinalEnv["PATH"] = Value(envs, "PATH")
BY DEF FinalEnv, Has, Value, MapKey

\* One candidate.
LEMMA AgreeOne ==
  ASSUME NEW c, NEW m, NEW d, AgreeAt(c, m, d)
  PROVE  Agree(<<c>>, <<m>>, d)
<1>1. DOMAIN <<c>> = {1} /\ DOMAIN <<m>> = {1} /\ <<c>>[1] = c /\ <<m>>[1] = m
  OBVIOUS
<1> QED
  BY <1>1 DEF Agree

\* Every way to look a program up agrees.
LEMMA LookupsAgree ==
  ASSUME ~Windows, Keyed(envs), NEW exe \in Paths, NEW dir \in Paths, Absolute(dir),
         (SlashFree(exe) /\ Has(envs, "PATH")) \/ CwdRelative(exe) \/ Absolute(exe),
         exe \notin {<<".">>, <<"..">>}
  PROVE  Agree(Candidates(exe, dir), Images(exe, FinalEnv), Clean(dir))
<1>1. CASE Absolute(exe)
  <2>0. ~CwdRelative(exe)
    BY <1>1 DEF Absolute, CwdRelative
  <2>1. Candidates(exe, dir) = <<exe>> /\ Images(exe, FinalEnv) = <<exe>>
    BY <1>1, <2>0 DEF Candidates, Images
  <2> QED
    BY <1>1, <2>1, AgreeAbsolute, AgreeOne
<1>2. CASE ~Absolute(exe) /\ CwdRelative(exe)
  <2>1. exe \in Seq(Chars) /\ exe # <<>> /\ exe[1] \in {".", ".."}
    BY <1>2 DEF CwdRelative, Paths
  <2>2. Len(exe) # 1
    <3> SUFFICES ASSUME Len(exe) = 1 PROVE FALSE
      OBVIOUS
    <3>1. exe = <<exe[1]>>
      BY <2>1
    <3> QED
      BY <2>1, <3>1
  <2>3. Candidates(exe, dir) = <<dir \o exe>>
    BY <1>2 DEF Candidates, Join
  <2>4. Images(exe, FinalEnv) = <<exe>>
    BY <2>2 DEF Images
  <2> QED
    BY <1>2, <2>1, <2>3, <2>4, AgreeRelative, AgreeOne
<1>3. CASE ~Absolute(exe) /\ ~CwdRelative(exe)
  <2>1. Len(exe) = 1 /\ exe # <<>>
    <3>1. exe \in Seq(Chars) /\ Len(exe) = 1
      BY <1>3 DEF Paths, SlashFree
    <3> QED
      BY <3>1
  <2>2. Has(envs, "PATH")
    BY <1>3
  <2> DEFINE v == Value(envs, "PATH")
             s == [i \in DOMAIN v |-> Join(Join(dir, v[i]), exe)]
             t == [i \in DOMAIN v |-> Join(v[i], exe)]
  <2>3. Candidates(exe, dir) = s
    BY <1>3, <2>2 DEF Candidates
  <2>4. Images(exe, FinalEnv) = t
    BY <1>3, <2>1, <2>2, UnixKey DEF Images
  <2>5. v \in Seq(Paths)
    BY <2>2, ValueTyped, FirstPath
  <2> HIDE DEF v
  <2>6. DOMAIN s = DOMAIN t /\ DOMAIN s = 1..Len(v)
    BY <2>5
  <2>7. ASSUME NEW i \in DOMAIN s PROVE AgreeAt(s[i], t[i], Clean(dir))
    <3>1. v[i] \in Paths
      BY <2>5, <2>6, <2>7
    <3>2. AgreeAt(Join(Join(dir, v[i]), exe), Join(v[i], exe), Clean(dir))
      BY <1>3, <2>1, <3>1, AgreeEntry
    <3> QED
      BY <2>6, <2>7, <3>2
  <2>8. 1..Len(v) \subseteq Nat
    BY <2>5
  <2> HIDE DEF s, t
  <2>9. Agree(s, t, Clean(dir))
    BY <2>6, <2>7, <2>8 DEF Agree
  <2> QED
    BY <2>3, <2>4, <2>9
<1> QED
  BY <1>1, <1>2, <1>3

\* The default shell has no NUL.
LEMMA NoNulInShell ==
  ASSUME scene \in DOMAIN Scenes
  PROVE  ~HasNul(<<PasswdShell>>)
<1>1. "nul" \notin ToSet(<<"/", "bin", "sh">>)
  <2> DEFINE s == <<"/", "bin", "sh">>
  <2>1. DOMAIN s = 1..3 /\ s[1] = "/" /\ s[2] = "bin" /\ s[3] = "sh"
    OBVIOUS
  <2> QED
    BY <2>1 DEF ToSet
<1>2. Here.passwd # <<>> => "nul" \notin ToSet(Here.passwd[1].shell)
  <2> SUFFICES ASSUME Here.passwd # <<>> PROVE "nul" \notin ToSet(Here.passwd[1].shell)
    OBVIOUS
  <2> DEFINE s == Here.passwd
  <2>1. s \in Seq([shell: Paths, home: Paths]) /\ s # <<>>
    BY HereTyped
  <2>2. \A i \in DOMAIN s: "nul" \notin ToSet(s[i].shell)
    BY BuilderAssumption DEF Here
  <2> HIDE DEF s
  <2>3. 1 \in DOMAIN s
    <3> DEFINE S == [shell: Paths, home: Paths]
    <3>1. s \in Seq(S) /\ s # <<>>
      BY <2>1
    <3> HIDE DEF S
    <3> QED
      BY <3>1
  <2> QED
    BY <2>2, <2>3 DEF s
<1>3. "nul" \notin ToSet(PasswdShell)
  BY <1>1, <1>2 DEF PasswdShell
<1> DEFINE p == PasswdShell
<1> HIDE DEF p
<1>4. DOMAIN <<p>> = {1} /\ <<p>>[1] = p
  OBVIOUS
<1> QED
  BY <1>3, <1>4 DEF HasNul, p

\* Only texts of the caller are refused.
LEMMA BadTextIs ==
  ASSUME ~Windows, scene \in DOMAIN Scenes, args # <<>>, command.argv = Argv,
         command.env = FinalEnv, BadText
  PROVE  HasNul(args) \/ ~NulFree
<1>1. command.argv = args
  BY DEF Argv
<1>2. SUFFICES ASSUME NEW name \in DOMAIN FinalEnv, HasNul(FinalEnv[name])
               PROVE  ~NulFree
  BY <1>1 DEF BadText
<1>3. CASE name \in DOMAIN envs
  BY <1>2, <1>3 DEF FinalEnv, NulFree
<1>4. CASE name \notin DOMAIN envs
  <2>1. name = "SHELL"
    BY <1>4 DEF FinalEnv
  <2>2. ~Has(envs, "SHELL")
    BY <1>4, <2>1 DEF Has, MapKey
  <2>3. Shell = PasswdShell
    BY <2>2 DEF Shell
  <2>4. FinalEnv[name] = <<PasswdShell>>
    BY <1>4, <2>3 DEF FinalEnv
  <2> QED
    BY <1>2, <2>4, NoNulInShell
<1> QED
  BY <1>3, <1>4

\* A bare name is not looked up without a PATH, so that nothing is converted.
LEMMA OnlyFromPath ==
  ASSUME BuilderInv, ~Windows, args # <<>>, SlashFree(args[1]), ~Has(envs, "PATH")
  PROVE  ~Converted
<1> DEFINE exe == args[1]
<1>1. Candidates(exe, Dir) = <<>>
  BY DEF Candidates, SlashFree
<1>2. Runnable(<<>>, Here.pwd) = {}
  BY DEF Runnable
<1>3. SearchPath(exe, Dir) = <<>>
  BY <1>1, <1>2, SearchIs
<1>4. Program = <<>>
  BY <1>3 DEF Program
<1> QED
  BY <1>4 DEF BuilderInv, UnixIs

\* The invariant, and the lookups that agree, say what runs.
LEMMA RunsLikeAShell ==
  ASSUME BuilderInv
  PROVE  RunsWhatAShellRuns
<1>0. ~Windows /\ args # <<>> /\ outcome \in {"converted", "running", "refused"} =>
        ~SlashFree(args[1]) \/ Has(envs, "PATH")
  BY OnlyFromPath DEF Converted
<1> SUFFICES ASSUME LooksUpAsAShell PROVE RunsWhatAShellRuns
  BY <1>0 DEF RunsWhatAShellRuns
<1> DEFINE exe == args[1]
           d == Named(Here.pwd, Dir)
           shell == Execvp(exe, FinalEnv, d)
           found == SearchPath(exe, Dir)
<1>1. scene \in DOMAIN Scenes /\ Keyed(envs) /\ args \in Seq(Paths)
  BY DEF BuilderInv, Typed
<1>2. /\ ~Windows /\ args # <<>> /\ HomeDir # <<>> /\ Absolute(Dir) /\ IsDir(Dir)
      /\ (SlashFree(exe) /\ Has(envs, "PATH")) \/ CwdRelative(exe) \/ Absolute(exe)
      /\ exe \notin {<<".">>, <<"..">>}
  BY DEF LooksUpAsAShell
<1>3. exe \in Paths /\ Dir \in Paths
  BY <1>1, <1>2, DirType
<1>4. d = Clean(Dir)
  BY <1>2 DEF Named, Join
<1>5. Program = found
  BY <1>2 DEF Program
<1>6. Agree(Candidates(exe, Dir), Images(exe, FinalEnv), d)
  BY <1>1, <1>2, <1>3, <1>4, LookupsAgree
<1>7. /\ found = <<>> => shell = <<>>
      /\ found # <<>> => Execvp(found[1], FinalEnv, d) = shell /\ shell # <<>>
  BY <1>6, FoundIsRun
<1>8. UnixIs
  BY DEF BuilderInv
<1> HIDE DEF exe, found, shell
<1>9. outcome = "error" => shell = <<>>
  BY <1>2, <1>5, <1>7, <1>8 DEF UnixIs
<1>10. Converted => Image = shell /\ shell # <<>>
  <2> SUFFICES ASSUME Converted PROVE Image = shell /\ shell # <<>>
    OBVIOUS
  <2>1. /\ found # <<>> /\ command.program = found[1] /\ command.env = FinalEnv
        /\ command.dir[1] = Dir
    BY <1>2, <1>5, <1>8 DEF UnixIs
  <2> QED
    BY <1>7, <2>1 DEF Image
<1>11. outcome = "running" => <<child.image>> = shell
  <2> SUFFICES ASSUME outcome = "running" PROVE <<child.image>> = shell
    OBVIOUS
  <2>1. Image = shell /\ child.image = Image[1]
    BY <1>2, <1>8, <1>10 DEF UnixIs, Converted
  <2>2. shell = <<shell[1]>>
    <3>1. shell # <<>>
      BY <1>10 DEF Converted
    <3> QED
      BY <3>1, ExecvpIs DEF shell
  <2> QED
    BY <2>1, <2>2
<1>12. outcome = "refused" => HasNul(args) \/ ~NulFree
  <2> SUFFICES ASSUME outcome = "refused" PROVE HasNul(args) \/ ~NulFree
    OBVIOUS
  <2>1. /\ command.argv = Argv /\ command.env = FinalEnv /\ command.dir[1] = Dir
        /\ BadText \/ ~IsDir(command.dir[1]) \/ Image = <<>>
    BY <1>2, <1>8 DEF UnixIs, Converted
  <2>2. Image # <<>>
    BY <1>10 DEF Converted
  <2> QED
    BY <1>1, <1>2, <2>1, <2>2, BadTextIs
<1> QED
  BY <1>0, <1>9, <1>11, <1>12 DEF RunsWhatAShellRuns, exe, shell

\* On Unix, with a PATH or a program named by a path, the parent's search_path
\* and the child's execvp together run the file that a shell in the child's
\* directory would, and fail only if there is none or a text holds a NUL.
\* Without a PATH a bare name is never converted, whatever the standard path of
\* the system holds, on which a shell would go on (cmdbuilder.rs:414-493).
THEOREM RunsAsAShell == Spec => []RunsWhatAShellRuns
<1>1. Spec => []BuilderInv
  BY BuilderInvariant
<1> QED
  BY <1>1, RunsLikeAShell, PTL

-----------------------------------------------------------------------------
(* How a block of environment variables is read.                           *)

\* States of a reader over the characters C.
Reader(C) == [texts: SUBSET Seq(C), text: Seq(C), ended: BOOLEAN]

\* A reader that has the texts T and the beginning a of another.
Begun(T, a) == [texts |-> T, text |-> a, ended |-> FALSE]

\* It is one.
LEMMA ReaderIs ==
  ASSUME NEW C, NEW T \in SUBSET Seq(C), NEW a \in Seq(C)
  PROVE  Begun(T, a) \in Reader(C)
BY DEF Begun, Reader

\* A character takes a reader to a reader.
LEMMA ReadBlockType ==
  ASSUME NEW C, NEW p \in Reader(C), NEW c \in C
  PROVE  ReadBlock(p, c) \in Reader(C)
<1>1. p.texts \in SUBSET Seq(C) /\ p.text \in Seq(C)
  BY DEF Reader
<1> DEFINE a == Append(p.text, c)
           T == p.texts \cup {p.text}
<1>2. a \in Seq(C) /\ T \in SUBSET Seq(C) /\ <<>> \in Seq(C)
  BY <1>1
<1> HIDE DEF a, T
<1>3. /\ [p EXCEPT !.text = a] \in Reader(C) /\ [p EXCEPT !.ended = TRUE] \in Reader(C)
      /\ [p EXCEPT !.texts = T, !.text = <<>>] \in Reader(C)
  BY <1>2 DEF Reader
<1> QED
  BY <1>3 DEF ReadBlock, a, T

\* The reader after each character.
ReadsOn(f, n, p, s) ==
  f[0] = p /\ \A i \in 1..n: f[i] = ReadBlock(f[i - 1], s[i])

Reading(g, n, C, p, s) ==
  g \in [0..n -> Reader(C)] /\ ReadsOn(g, n, p, s) /\ ReadAll(p, s) = g[n]

\* The recursive function of the reader, unfolded.
LEMMA ReadAllIs ==
  ASSUME NEW C, NEW p \in Reader(C), NEW s \in Seq(C), NEW n \in Nat, n = Len(s)
  PROVE  \E g: Reading(g, n, C, p, s)
<1> DEFINE step == [i \in 1..n |-> [q \in Reader(C) |-> ReadBlock(q, s[i])]]
<1>1. \A i \in 1..n: s[i] \in C
  OBVIOUS
<1>2. step \in [1..n -> [Reader(C) -> Reader(C)]]
  BY <1>1, ReadBlockType
<1>3. \A i \in 1..n, q \in Reader(C): step[i][q] = ReadBlock(q, s[i])
  OBVIOUS
<1> HIDE DEF step
<1>4. PICK f \in [0..n -> Reader(C)]: Folds(f, n, p, step)
  BY <1>2, FoldExists
<1>5. ASSUME NEW i \in 0..n
      PROVE  f[i] = IF i = 0 THEN p ELSE ReadBlock(f[i - 1], s[i])
  <2>1. CASE i = 0
    BY <1>4, <2>1 DEF Folds
  <2>2. CASE i # 0
    <3>1. i \in 1..n /\ i - 1 \in 0..n
      BY <2>2
    <3>2. f[i] = step[i][f[i - 1]] /\ f[i - 1] \in Reader(C)
      BY <1>4, <3>1 DEF Folds
    <3> QED
      BY <1>3, <2>2, <3>1, <3>2
  <2> QED
    BY <2>1, <2>2
<1>6. f = [i \in 0..n |-> IF i = 0 THEN p ELSE ReadBlock(f[i - 1], s[i])]
  BY <1>5
<1> DEFINE g == CHOOSE g : g = [i \in 0..n |-> IF i = 0 THEN p ELSE ReadBlock(g[i - 1], s[i])]
<1>7. g = [i \in 0..n |-> IF i = 0 THEN p ELSE ReadBlock(g[i - 1], s[i])]
  BY <1>6
<1>8. ReadAll(p, s) = g[n]
  BY DEF ReadAll
<1> HIDE DEF g
<1>9. g[0] = p /\ \A i \in 1..n: g[i] = ReadBlock(g[i - 1], s[i])
  BY <1>7
<1>10. \A i \in 0..n: g[i] = f[i]
  <2>1. GoOnAlike(n, f, g)
    BY <1>5, <1>9 DEF GoOnAlike
  <2>2. Alike(n, f, g)
    BY <2>1, SameFold
  <2> QED
    BY <2>2 DEF Alike
<1>11. g \in [0..n -> Reader(C)]
  BY <1>4, <1>7, <1>10
<1>12. ReadsOn(g, n, p, s)
  BY <1>9 DEF ReadsOn
<1> QED
  BY <1>8, <1>11, <1>12 DEF Reading

\* Nothing to read.
LEMMA ReadNone ==
  ASSUME NEW C, NEW p \in Reader(C)
  PROVE  ReadAll(p, <<>>) = p
<1>1. <<>> \in Seq(C) /\ Len(<<>>) = 0 /\ 0 \in Nat
  OBVIOUS
<1>2. PICK g: Reading(g, 0, C, p, <<>>)
  BY <1>1, ReadAllIs
<1> QED
  BY <1>2 DEF Reading, ReadsOn

\* Reading keeps the type.
LEMMA ReadType ==
  ASSUME NEW C, NEW p \in Reader(C), NEW s \in Seq(C)
  PROVE  ReadAll(p, s) \in Reader(C)
<1> DEFINE n == Len(s)
<1>1. n \in Nat /\ n = Len(s) /\ n \in 0..n
  OBVIOUS
<1> HIDE DEF n
<1>2. PICK g: Reading(g, n, C, p, s)
  BY <1>1, ReadAllIs
<1> QED
  BY <1>1, <1>2 DEF Reading

\* The last character is read last.
LEMMA ReadAppend ==
  ASSUME NEW C, NEW p \in Reader(C), NEW s \in Seq(C), NEW c \in C
  PROVE  ReadAll(p, Append(s, c)) = ReadBlock(ReadAll(p, s), c)
<1> DEFINE t == Append(s, c)
           n == Len(s)
<1>1. /\ n \in Nat /\ n = Len(s) /\ t \in Seq(C) /\ n + 1 = Len(t) /\ n + 1 \in Nat /\ t[n + 1] = c
      /\ \A i \in 1..n: t[i] = s[i]
  OBVIOUS
<1> HIDE DEF t, n
<1>2. PICK f: Reading(f, n + 1, C, p, t)
  BY <1>1, ReadAllIs
<1>3. PICK g: Reading(g, n, C, p, s)
  BY <1>1, ReadAllIs
<1>4. GoOnAlike(n, f, g)
  <2>1. \A i \in 1..n: f[i] = ReadBlock(f[i - 1], s[i])
    BY <1>1, <1>2 DEF Reading, ReadsOn
  <2>2. f[0] = g[0] /\ \A i \in 1..n: g[i] = ReadBlock(g[i - 1], s[i])
    BY <1>2, <1>3 DEF Reading, ReadsOn
  <2> QED
    BY <2>1, <2>2 DEF GoOnAlike
<1>5. f[n] = g[n]
  <2>1. Alike(n, f, g)
    BY <1>1, <1>4, SameFold
  <2> QED
    BY <1>1, <2>1 DEF Alike
<1>6. f[n + 1] = ReadBlock(f[n], c)
  <2>1. n + 1 \in 1..(n + 1) /\ (n + 1) - 1 = n
    BY <1>1
  <2> QED
    BY <1>1, <1>2, <2>1 DEF Reading, ReadsOn
<1> QED
  BY <1>2, <1>3, <1>5, <1>6 DEF t, Reading

\* A block is read part by part.
LEMMA ReadConcat ==
  ASSUME NEW C, NEW p \in Reader(C), NEW s \in Seq(C), NEW t \in Seq(C)
  PROVE  ReadAll(p, s \o t) = ReadAll(ReadAll(p, s), t)
<1> DEFINE T == {u \in Seq(C): ReadAll(p, s \o u) = ReadAll(ReadAll(p, s), u)}
<1>0. ReadAll(p, s) \in Reader(C)
  BY ReadType
<1>1. <<>> \in T
  <2>1. s \o <<>> = s /\ <<>> \in Seq(C)
    OBVIOUS
  <2> QED
    BY <1>0, <2>1, ReadNone
<1>2. ASSUME NEW u \in Seq(C), NEW c \in C, u \in T PROVE Append(u, c) \in T
  <2>1. s \o Append(u, c) = Append(s \o u, c) /\ s \o u \in Seq(C) /\ Append(u, c) \in Seq(C)
    OBVIOUS
  <2> DEFINE v == s \o u
  <2>2. ReadAll(p, Append(v, c)) = ReadBlock(ReadAll(p, v), c)
    <3>1. v \in Seq(C)
      BY <2>1
    <3> HIDE DEF v
    <3> QED
      BY <3>1, ReadAppend
  <2>3. ReadAll(ReadAll(p, s), Append(u, c)) = ReadBlock(ReadAll(ReadAll(p, s), u), c)
    BY <1>0, ReadAppend
  <2> QED
    BY <1>2, <2>1, <2>2, <2>3
<1> HIDE DEF T
<1>3. \A u \in Seq(C): u \in T
  BY <1>1, <1>2, SeqInduction
<1> QED
  BY <1>3 DEF T

\* A text without a NUL.
ReadsAText(C, T, s) == s \in Seq(C) /\ ReadAll(Begun(T, <<>>), s) = Begun(T, s)

\* The characters of a text are collected.
LEMMA ReadsText ==
  ASSUME NEW C, NEW T \in SUBSET Seq(C), NEW s \in Seq(C \ {"nul"})
  PROVE  ReadAll(Begun(T, <<>>), s) = Begun(T, s)
<1> DEFINE D == C \ {"nul"}
           X == {u \in Seq(D): ReadsAText(C, T, u)}
<1>0. <<>> \in Seq(C) /\ <<>> \in Seq(D) /\ Begun(T, <<>>) \in Reader(C)
  <2>1. <<>> \in Seq(C)
    OBVIOUS
  <2>2. <<>> \in Seq(D)
    OBVIOUS
  <2> QED
    BY <2>1, <2>2, ReaderIs
<1>1. <<>> \in X
  BY <1>0, ReadNone DEF ReadsAText
<1>2. ASSUME NEW u \in Seq(D), NEW c \in D, u \in X PROVE Append(u, c) \in X
  <2>1. c \in C /\ c # "nul" /\ Append(u, c) \in Seq(D)
    OBVIOUS
  <2>2. u \in Seq(C) /\ ReadAll(Begun(T, <<>>), u) = Begun(T, u)
    BY <1>2 DEF ReadsAText
  <2>3. ReadAll(Begun(T, <<>>), Append(u, c)) = ReadBlock(Begun(T, u), c)
    BY <1>0, <2>1, <2>2, ReadAppend
  <2>4. ReadBlock(Begun(T, u), c) = Begun(T, Append(u, c))
    BY <2>1 DEF ReadBlock, Begun
  <2>5. Append(u, c) \in Seq(C)
    BY <2>1, <2>2
  <2> QED
    BY <2>1, <2>3, <2>4, <2>5 DEF ReadsAText
<1> HIDE DEF X
<1>3. \A u \in Seq(D): u \in X
  BY <1>0, <1>1, <1>2, SeqInduction
<1> QED
  BY <1>3 DEF X, ReadsAText

\* One that ends is one of the texts.
LEMMA ReadsOneMore ==
  ASSUME NEW C, "nul" \in C, NEW T \in SUBSET Seq(C), NEW s \in Seq(C \ {"nul"}), s # <<>>
  PROVE  ReadAll(Begun(T, <<>>), Append(s, "nul")) = Begun(T \cup {s}, <<>>)
<1>1. s \in Seq(C) /\ <<>> \in Seq(C)
  BY Widen
<1>2. Begun(T, <<>>) \in Reader(C)
  BY <1>1, ReaderIs
<1>3. ReadAll(Begun(T, <<>>), Append(s, "nul")) = ReadBlock(Begun(T, s), "nul")
  BY <1>1, <1>2, ReadAppend, ReadsText
<1>4. ReadBlock(Begun(T, s), "nul") = Begun(T \cup {s}, <<>>)
  BY DEF ReadBlock, Begun
<1> QED
  BY <1>3, <1>4

-----------------------------------------------------------------------------
(* All texts of a block.                                                   *)

\* Every element of a finite set is in the sequence that SetToSeq makes of it.
Listed(s, n, S) == s \in [1..n -> S] /\ \A x \in S: \E i \in 1..n: s[i] = x

\* SetToSeq lists a finite set.
LEMMA SetToSeqIs ==
  ASSUME NEW S, IsFiniteSet(S)
  PROVE  \E n \in Nat: Listed(SetToSeq(S), n, S)
<1> DEFINE n == Cardinality(S)
           f == SetToSeq(S)
<1>1. n \in Nat /\ ExistsBijection(1..n, S)
  BY FS_CardinalityType
<1>2. PICK g \in [1..n -> S]: IsInjective(g)
  BY <1>1 DEF ExistsBijection, Bijection, Injection
<1>3. f \in [1..n -> S] /\ IsInjective(f)
  BY <1>2 DEF SetToSeq
<1> HIDE DEF f
<1>4. f \in Injection(1..n, S)
  BY <1>3 DEF Injection
<1>5. Cardinality(1..n) = n
  <2>1. 1 \in Int /\ n \in Int /\ Cardinality(1..n) = IF 1 > n THEN 0 ELSE n - 1 + 1
    BY <1>1, FS_Interval
  <2> HIDE DEF n
  <2> QED
    BY <1>1, <2>1
<1>6. f \in Surjection(1..n, S)
  BY <1>4, <1>5, FS_Injection
<1>7. Listed(f, n, S)
  BY <1>3, <1>6 DEF Listed, Surjection
<1> QED
  BY <1>1, <1>7 DEF f

-----------------------------------------------------------------------------
(* Texts one after the other.                                              *)

\* Every text with its NUL, and the texts that do not look like an end.
Ended(ts) == [i \in 1..Len(ts) |-> Append(ts[i], "nul")]
Full(C) == Seq(C \ {"nul"}) \ {<<>>}

\* Their type.
LEMMA EndedType ==
  ASSUME NEW C, "nul" \in C, NEW ts \in Seq(Full(C))
  PROVE  Ended(ts) \in Seq(Seq(C)) /\ Len(Ended(ts)) = Len(ts)
<1>1. \A t \in Full(C): Append(t, "nul") \in Seq(C)
  BY Widen DEF Full
<1> DEFINE F == Full(C)
           Q == Seq(C)
<1>2. ts \in Seq(F) /\ \A t \in F: Append(t, "nul") \in Q
  BY <1>1
<1> HIDE DEF F, Q
<1>3. Len(ts) \in Nat /\ \A i \in 1..Len(ts): Append(ts[i], "nul") \in Q
  BY <1>2
<1>4. Ended(ts) \in Seq(Q) /\ Len(Ended(ts)) = Len(ts)
  BY <1>3 DEF Ended
<1> QED
  BY <1>4 DEF Q

\* One more text comes last.
LEMMA EndedAppend ==
  ASSUME NEW C, "nul" \in C, NEW ts \in Seq(Full(C)), NEW t \in Full(C)
  PROVE  Ended(Append(ts, t)) = Append(Ended(ts), Append(t, "nul"))
<1> DEFINE F == Full(C)
           tt == Append(ts, t)
           n == Len(ts)
           last == Append(t, "nul")
           Q == Seq(C)
<1>1. n \in Nat /\ tt \in Seq(F) /\ Len(tt) = n + 1 /\ tt[n + 1] = t /\ \A i \in 1..n: tt[i] = ts[i]
  <2>1. ts \in Seq(F) /\ t \in F
    OBVIOUS
  <2> HIDE DEF F
  <2> QED
    BY <2>1
<1>2. Ended(ts) \in Seq(Q) /\ Len(Ended(ts)) = n /\ Ended(tt) \in Seq(Q) /\ Len(Ended(tt)) = n + 1
  BY <1>1, EndedType
<1>3. last \in Q
  BY Widen DEF Full
<1> HIDE DEF Q, F, tt
<1>4. /\ Append(Ended(ts), last) \in Seq(Q) /\ Len(Append(Ended(ts), last)) = n + 1
      /\ Append(Ended(ts), last)[n + 1] = last
      /\ \A i \in 1..n: Append(Ended(ts), last)[i] = Ended(ts)[i]
  BY <1>1, <1>2, <1>3
<1>5. Ended(tt)[n + 1] = last /\ \A i \in 1..n: Ended(tt)[i] = Ended(ts)[i]
  BY <1>1 DEF Ended
<1> HIDE DEF last, n
<1>6. \A i \in 1..(n + 1): Ended(tt)[i] = Append(Ended(ts), last)[i]
  <2>1. \A i \in 1..(n + 1): i \in 1..n \/ i = n + 1
    BY <1>1
  <2> QED
    BY <1>4, <1>5, <2>1
<1>7. Ended(tt) = Append(Ended(ts), last)
  BY <1>1, <1>2, <1>4, <1>6, SeqEqual
<1> QED
  BY <1>7 DEF last, tt

\* The texts that are read are those that were written.
ReadsList(C, ts) ==
  ReadAll(Begun({}, <<>>), FlattenSeq(Ended(ts))) = Begun(Elements(ts), <<>>)

\* So does every list of texts.
LEMMA ReadsTexts ==
  ASSUME NEW C, "nul" \in C, NEW ts \in Seq(Full(C))
  PROVE  ReadAll(Begun({}, <<>>), FlattenSeq(Ended(ts))) = Begun(Elements(ts), <<>>)
<1> DEFINE F == Full(C)
           X == {us \in Seq(F): ReadsList(C, us)}
<1>0. Begun({}, <<>>) \in Reader(C) /\ <<>> \in Seq(C)
  <2>1. <<>> \in Seq(C)
    OBVIOUS
  <2> QED
    BY <2>1, ReaderIs
<1>1. <<>> \in X
  <2>1. <<>> \in Seq(F) /\ Len(<<>>) = 0
    OBVIOUS
  <2>2. Ended(<<>>) = <<>>
    <3>1. Ended(<<>>) \in Seq(Seq(C)) /\ Len(Ended(<<>>)) = 0
      BY <2>1, EndedType
    <3> QED
      BY <3>1, EmptySeq
  <2>3. Elements(<<>>) = {}
    BY <2>1 DEF Elements
  <2>4. ReadsList(C, <<>>)
    BY <1>0, <2>2, <2>3, FlatNone, ReadNone DEF ReadsList
  <2> QED
    BY <2>1, <2>4
<1>2. ASSUME NEW us \in Seq(F), NEW t \in F, us \in X PROVE Append(us, t) \in X
  <2> DEFINE last == Append(t, "nul")
             whole == FlattenSeq(Ended(us))
             T == Elements(us)
  <2>0. /\ Append(us, t) \in Seq(F) /\ Len(us) \in Nat /\ Len(Append(us, t)) = Len(us) + 1
        /\ Append(us, t)[Len(us) + 1] = t /\ \A i \in 1..Len(us): Append(us, t)[i] = us[i]
        /\ \A i \in 1..Len(us): us[i] \in F
    <3> HIDE DEF F
    <3> QED
      OBVIOUS
  <2>1. Ended(Append(us, t)) = Append(Ended(us), last) /\ Ended(us) \in Seq(Seq(C))
    BY EndedAppend, EndedType
  <2>2. last \in Seq(C) /\ t \in Seq(C \ {"nul"}) /\ t # <<>>
    BY Widen DEF Full
  <2>3. FlattenSeq(Ended(Append(us, t))) = whole \o last /\ whole \in Seq(C)
    <3> HIDE DEF last
    <3> QED
      BY <2>1, <2>2, FlatAppend, FlatType
  <2>4. T \in SUBSET Seq(C)
    <3>1. \A x \in F: x \in Seq(C)
      BY Widen DEF Full
    <3> QED
      BY <2>0, <3>1 DEF Elements
  <2>5. ReadAll(Begun({}, <<>>), whole) = Begun(T, <<>>)
    BY <1>2 DEF ReadsList
  <2> HIDE DEF whole, T
  <2>6. ReadAll(Begun({}, <<>>), whole \o last) = ReadAll(Begun(T, <<>>), last)
    <3> HIDE DEF last
    <3> QED
      BY <1>0, <2>2, <2>3, <2>5, ReadConcat
  <2>7. ReadAll(Begun(T, <<>>), last) = Begun(T \cup {t}, <<>>)
    BY <2>2, <2>4, ReadsOneMore
  <2>8. Elements(Append(us, t)) = T \cup {t}
    <3> DEFINE n == Len(us)
               v == Append(us, t)
    <3>1. n \in Nat /\ Len(v) = n + 1 /\ v[n + 1] = t /\ \A i \in 1..n: v[i] = us[i]
      BY <2>0
    <3>2. Elements(v) = {v[i]: i \in 1..(n + 1)} /\ T = {us[i]: i \in 1..n}
      BY <3>1 DEF Elements, T
    <3> HIDE DEF n, v
    <3>3. 1..(n + 1) = 1..n \cup {n + 1}
      BY <3>1
    <3> QED
      BY <3>1, <3>2, <3>3 DEF v
  <2>9. ReadsList(C, Append(us, t))
    BY <2>3, <2>6, <2>7, <2>8 DEF ReadsList
  <2> QED
    BY <2>0, <2>9
<1> HIDE DEF X, F
<1>3. \A us \in Seq(F): us \in X
  BY <1>1, <1>2, SeqInduction
<1> QED
  BY <1>3 DEF X, F, ReadsList

\* So they are when one more NUL ends the block.
LEMMA TextsAre ==
  ASSUME NEW C, "nul" \in C, NEW ts \in Seq(Full(C))
  PROVE  Texts(FlattenSeq(Ended(ts)) \o <<"nul">>) = Elements(ts)
<1> DEFINE whole == FlattenSeq(Ended(ts))
<1>1. Begun({}, <<>>) \in Reader(C) /\ NoTexts = Begun({}, <<>>)
  <2>1. <<>> \in Seq(C)
    OBVIOUS
  <2> QED
    BY <2>1, ReaderIs DEF NoTexts, Begun
<1>2. whole \in Seq(C)
  BY EndedType, FlatType
<1>3. ReadAll(Begun({}, <<>>), whole) = Begun(Elements(ts), <<>>)
  BY ReadsTexts
<1> HIDE DEF whole
<1>4. whole \o <<"nul">> = Append(whole, "nul")
  BY <1>2, AppendIsConcat
<1>5. ReadAll(Begun({}, <<>>), Append(whole, "nul")) = ReadBlock(Begun(Elements(ts), <<>>), "nul")
  BY <1>1, <1>2, <1>3, ReadAppend
<1>6. ReadBlock(Begun(Elements(ts), <<>>), "nul").texts = Elements(ts)
  BY DEF ReadBlock, Begun
<1> QED
  BY <1>1, <1>4, <1>5, <1>6 DEF Texts, whole

-----------------------------------------------------------------------------
(* The variables in a block.                                               *)

\* Characters of an environment block.
BlockChars == Chars \cup Names \cup {"=", "sep"}

\* What they have.
LEMMA BlockCharsHave ==
  {"nul", "slash", "sep", "="} \subseteq BlockChars /\ "slash" \in Chars /\ "nul" \notin Names
BY CharsAssumption, BuilderAssumption DEF BlockChars

\* A value without a NUL is a text without one.
LEMMA ValueTextType ==
  ASSUME NEW value \in Values, ~HasNul(value)
  PROVE  ValueText(value) \in Seq(BlockChars \ {"nul"})
<1> DEFINE U == BlockChars \ {"nul"}
           n == Len(value)
           Begin(i) == IF i = 1 THEN <<>> ELSE <<"sep">>
           pieces == [i \in 1..n |-> Begin(i) \o Spelled(value[i])]
<1>1. value \in Seq(Paths) /\ n \in Nat /\ DOMAIN value = 1..n /\ \A i \in 1..n: value[i] \in Paths
  BY DEF Values
<1>2. "slash" \in U /\ "sep" \in U
  BY BlockCharsHave
<1>3. ASSUME NEW i \in 1..n PROVE Begin(i) \o Spelled(value[i]) \in Seq(U)
  <2> DEFINE p == value[i]
  <2>1. p \in Seq(Chars) /\ "nul" \notin ToSet(p)
    BY <1>1 DEF HasNul, Paths
  <2> HIDE DEF p
  <2>2. \A j \in 1..Len(p): p[j] \in U
    <3>1. \A j \in 1..Len(p): p[j] \in Chars /\ p[j] # "nul"
      BY <2>1 DEF ToSet
    <3> QED
      BY <3>1 DEF BlockChars
  <2>3. NamesIn(p, U)
    BY <2>2 DEF NamesIn
  <2> HIDE DEF U
  <2>4. Spelled(p) \in Seq(U)
    BY <1>2, <2>1, <2>3, SpelledType
  <2>5. <<>> \in Seq(U) /\ <<"sep">> \in Seq(U)
    BY <1>2
  <2>6. Begin(i) \in Seq(U)
    BY <2>5
  <2> HIDE DEF Begin
  <2> QED
    BY <2>4, <2>6 DEF p
<1>4. pieces \in Seq(Seq(U))
  <2> DEFINE Q == Seq(U)
             Whole(i) == Begin(i) \o Spelled(value[i])
  <2>1. \A i \in 1..n: Whole(i) \in Q
    BY <1>3
  <2> HIDE DEF Q, Whole
  <2>2. [i \in 1..n |-> Whole(i)] \in Seq(Q)
    BY <1>1, <2>1
  <2> QED
    BY <2>2 DEF Q, Whole
<1>5. ValueText(value) = FlattenSeq(pieces)
  BY <1>1 DEF ValueText
<1> HIDE DEF pieces, U
<1>6. FlattenSeq(pieces) \in Seq(U)
  BY <1>4, FlatType
<1> QED
  BY <1>5, <1>6 DEF U

\* A concatenation begins with its first part.
LEMMA BeginsAlike ==
  ASSUME NEW S, NEW s \in Seq(S), s # <<>>, NEW t \in Seq(S)
  PROVE  s \o t \in Seq(S) /\ s \o t # <<>> /\ (s \o t)[1] = s[1]
<1>1. s \o t \in Seq(S)
  OBVIOUS
<1>2. Len(s \o t) = Len(s) + Len(t)
  OBVIOUS
<1>3. Len(s) \in Nat /\ Len(t) \in Nat /\ Len(s) # 0
  OBVIOUS
<1>4. (s \o t)[1] = s[1]
  BY <1>3
<1>5. Len(s \o t) # 0
  BY <1>2, <1>3
<1> QED
  BY <1>1, <1>4, <1>5

\* A variable as a text.
EnvText(entry) == <<entry.key, "=">> \o ValueText(entry.value)

\* A variable's text, and the two parts of it.
LEMMA EnvTextType ==
  ASSUME NEW entry, entry.key \in Names, entry.value \in Values, ~HasNul(entry.value)
  PROVE  /\ EnvText(entry) \in Full(BlockChars)
         /\ Head(EnvText(entry)) = entry.key
         /\ SubSeq(EnvText(entry), 3, Len(EnvText(entry))) = ValueText(entry.value)
<1> DEFINE U == BlockChars \ {"nul"}
           k == entry.key
           v == ValueText(entry.value)
           s == <<k, "=">>
<1>1. k \in U /\ "=" \in U
  BY BlockCharsHave DEF BlockChars
<1>2. v \in Seq(U)
  BY ValueTextType
<1> HIDE DEF U, k, v
<1>3. s \in Seq(U) /\ Len(s) = 2 /\ s[1] = k /\ s # <<>>
  BY <1>1
<1> HIDE DEF s
<1>4. s \o v \in Seq(U) /\ s \o v # <<>> /\ (s \o v)[1] = k
  BY <1>2, <1>3, BeginsAlike
<1>5. Head(s \o v) = k
  BY <1>4
<1>6. SubSeq(s \o v, 3, Len(s \o v)) = v
  <2>1. SubSeq(s \o v, Len(s) + 1, Len(s \o v)) = v
    BY <1>2, <1>3, CutRight
  <2> QED
    BY <1>3, <2>1
<1> QED
  BY <1>4, <1>5, <1>6 DEF EnvText, Full, U, k, v, s

\* The block is read as the variables that were written.
LEMMA BlockReads ==
  ASSUME Keyed(envs), NulFree, IsFiniteSet(DOMAIN envs)
  PROVE  Texts(Block) = {EnvText(envs[key]): key \in DOMAIN envs}
<1> DEFINE S == DOMAIN envs
           ks == SetToSeq(S)
<1>1. PICK n \in Nat: Listed(ks, n, S)
  BY SetToSeqIs
<1> DEFINE ts == [i \in 1..n |-> EnvText(envs[ks[i]])]
           F == Full(BlockChars)
<1>2. \A key \in S: EnvText(envs[key]) \in F
  BY EnvTextType DEF Keyed, NulFree
<1>3. DOMAIN ks = 1..n /\ \A i \in 1..n: ks[i] \in S
  BY <1>1 DEF Listed
<1>4. \A i \in 1..n: EnvText(envs[ks[i]]) \in F
  BY <1>2, <1>3
<1>5. ts \in Seq(F) /\ Len(ts) = n /\ \A i \in 1..n: ts[i] = EnvText(envs[ks[i]])
  <2> HIDE DEF F, ks
  <2> DEFINE T(i) == EnvText(envs[ks[i]])
  <2>1. \A i \in 1..n: T(i) \in F
    BY <1>4
  <2> HIDE DEF T
  <2>2. [i \in 1..n |-> T(i)] \in Seq(F) /\ Len([i \in 1..n |-> T(i)]) = n
    BY <2>1
  <2> QED
    BY <2>2 DEF T
<1>6. Block = FlattenSeq(Ended(ts)) \o <<"nul">>
  <2> DEFINE Old(i) == (<<envs[ks[i]].key, "=">> \o ValueText(envs[ks[i]].value)) \o <<"nul">>
  <2>1. ASSUME NEW i \in 1..n PROVE Old(i) = Append(ts[i], "nul")
    <3> DEFINE t == EnvText(envs[ks[i]])
    <3>1. t \in Seq(BlockChars \ {"nul"})
      BY <1>4 DEF Full
    <3>2. Old(i) = t \o <<"nul">>
      BY DEF EnvText
    <3> HIDE DEF t
    <3>3. t \o <<"nul">> = Append(t, "nul")
      <4>1. t \in Seq(BlockChars)
        BY <3>1, Widen
      <4> QED
        BY <4>1, BlockCharsHave, AppendIsConcat
    <3> QED
      BY <1>5, <3>2, <3>3 DEF t
  <2>2. Block = FlattenSeq([i \in DOMAIN ks |-> Old(i)]) \o <<"nul">>
    BY DEF Block
  <2> HIDE DEF Old, ts
  <2>3. [i \in DOMAIN ks |-> Old(i)] = Ended(ts)
    BY <1>3, <1>5, <2>1 DEF Ended
  <2> QED
    BY <2>2, <2>3
<1>7. Elements(ts) = {EnvText(envs[key]): key \in S}
  <2>1. \A key \in S: \E i \in 1..n: ks[i] = key
    BY <1>1 DEF Listed
  <2> HIDE DEF ks, ts
  <2> QED
    BY <1>3, <1>5, <2>1 DEF Elements
<1> HIDE DEF ts
<1>8. Texts(FlattenSeq(Ended(ts)) \o <<"nul">>) = Elements(ts)
  BY <1>5, TextsAre, BlockCharsHave DEF F
<1> QED
  BY <1>6, <1>7, <1>8

-----------------------------------------------------------------------------
(* What a map answers.                                                     *)

\* The answer of a map, as a set.
Answer(env, name) == IF Has(env, name) THEN {Value(env, name)} ELSE {}

\* Two names are the same variable when they have the same key.
LEMMA SameKey ==
  ASSUME NEW m, NEW n
  PROVE  /\ Same(m, n) <=> MapKey(m) = MapKey(n)
         /\ Same(m, n) => Lower[m] = Lower[n]
BY DEF Same, MapKey

\* An entry answers for its variable only.
LEMMA UpdatedAnswer ==
  ASSUME NEW env, NEW m, NEW e, NEW name
  PROVE  /\ Same(m, name) => Answer(Updated(env, MapKey(m), e), name) = {e.value}
         /\ ~Same(m, name) => Answer(Updated(env, MapKey(m), e), name) = Answer(env, name)
<1> DEFINE new == Updated(env, MapKey(m), e)
<1>2. new = [k \in {MapKey(m)} \cup DOMAIN env |-> IF k = MapKey(m) THEN e ELSE env[k]]
  BY DEF Updated
<1> HIDE DEF new
<1>3. CASE Same(m, name)
  <2>1. MapKey(name) = MapKey(m)
    BY <1>3, SameKey
  <2>2. Has(new, name) /\ Value(new, name) = e.value
    BY <1>2, <2>1 DEF Has, Value
  <2> QED
    BY <1>3, <2>2 DEF Answer, new
<1>4. CASE ~Same(m, name)
  <2>1. MapKey(name) # MapKey(m)
    BY <1>4, SameKey
  <2>2. Has(new, name) <=> Has(env, name)
    BY <1>2, <2>1 DEF Has
  <2>3. Has(env, name) => Value(new, name) = Value(env, name)
    BY <1>2, <2>1 DEF Has, Value
  <2> QED
    BY <1>4, <2>2, <2>3 DEF Answer, new
<1> QED
  BY <1>3, <1>4

\* A variable that was taken out has no answer.
LEMMA WithoutAnswer ==
  ASSUME NEW env, NEW m, NEW name
  PROVE  Answer(Without(env, m), name) = IF Same(m, name) THEN {} ELSE Answer(env, name)
<1>1. Without(env, m) = [k \in DOMAIN env \ {MapKey(m)} |-> env[k]]
  BY DEF Without, Restrict
<1> QED
  BY <1>1, SameKey DEF Answer, Has, Value

-----------------------------------------------------------------------------
(* One variable of a source, and the variables so far.                     *)

\* The joined values of two sets of answers.
Joining(A, B) == {o \o u: o \in A, u \in B}

\* A variable from the base environment.
Given(env, m, value) == Insert(env, m, value, TRUE)

\* It answers for its name, and for no other.
LEMMA GivenAnswer ==
  ASSUME NEW env, NEW m, NEW value, NEW name
  PROVE  /\ Same(m, name) => Answer(Given(env, m, value), name) = {value}
         /\ ~Same(m, name) => Answer(Given(env, m, value), name) = Answer(env, name)
<1> DEFINE e == Entry(m, value, TRUE)
           new == Given(env, m, value)
<1>1. e.value = value
  BY DEF Entry
<1>2. new = Updated(env, MapKey(m), e)
  BY DEF Given, Insert
<1> HIDE DEF e, new
<1>3. Same(m, name) => Answer(new, name) = {e.value}
  BY <1>2, UpdatedAnswer
<1>4. ~Same(m, name) => Answer(new, name) = Answer(env, name)
  BY <1>2, UpdatedAnswer
<1> QED
  BY <1>1, <1>3, <1>4 DEF new

\* A variable of a source says nothing of other names,
LEMMA MergeOther ==
  ASSUME NEW env, NEW x, NEW source, NEW name, ~Same(x.name, name)
  PROVE  Answer(Merge(env, x, source), name) = Answer(env, name)
<1> DEFINE value == IF source = "user" /\ Lower[x.name] = "path" /\ Has(env, x.name)
                    THEN Value(env, x.name) \o x.value ELSE x.value
           m == x.name
           new == Merge(env, x, source)
<1>1. new = env \/ new = Given(env, m, value)
  BY DEF Merge, Given
<1>2. ~Same(m, name)
  OBVIOUS
<1> HIDE DEF value, m, new
<1>3. Answer(new, name) = Answer(env, name)
  BY <1>1, <1>2, GivenAnswer
<1> QED
  BY <1>3 DEF new

\* and a service's of the user's name.
LEMMA MergeSpares ==
  ASSUME NEW env, NEW x, NEW name, Lower[name] = "username"
  PROVE  Answer(Merge(env, x, "system"), name) = Answer(env, name)
<1>1. CASE Same(x.name, name)
  <2>1. Lower[x.name] = "username"
    BY <1>1, SameKey
  <2> QED
    BY <2>1 DEF Merge
<1>2. CASE ~Same(x.name, name)
  BY <1>2, MergeOther
<1> QED
  BY <1>1, <1>2

\* The machine's and the process's replace an answer,
LEMMA MergeReplaces ==
  ASSUME NEW env, NEW x, NEW source, NEW name, Same(x.name, name), source # "user",
         ~(source = "system" /\ Lower[name] = "username")
  PROVE  Answer(Merge(env, x, source), name) = {x.value}
<1> DEFINE m == x.name
           value == x.value
           new == Merge(env, x, source)
<1>1. Lower[m] = Lower[name]
  BY SameKey
<1>2. new = Given(env, m, value)
  BY <1>1 DEF Merge, Given
<1>3. Same(m, name)
  OBVIOUS
<1> HIDE DEF value, m, new
<1>4. Answer(new, name) = {value}
  BY <1>2, <1>3, GivenAnswer
<1> QED
  BY <1>4 DEF new, value

\* the user's PATH is joined to one,
LEMMA MergeJoins ==
  ASSUME NEW env, NEW x, NEW name, Same(x.name, name), NEW A, A = Answer(env, name)
  PROVE  /\ Lower[name] = "path" /\ A # {} =>
              Answer(Merge(env, x, "user"), name) = Joining(A, {x.value})
         /\ ~(Lower[name] = "path" /\ A # {}) =>
              Answer(Merge(env, x, "user"), name) = {x.value}
<1> DEFINE m == x.name
           path == Lower[m] = "path"
           value == IF path /\ Has(env, m) THEN Value(env, m) \o x.value ELSE x.value
           new == Merge(env, x, "user")
<1>1. Lower[m] = Lower[name] /\ MapKey(m) = MapKey(name) /\ Same(m, name)
  BY SameKey
<1>2. new = Given(env, m, value)
  BY DEF Merge, Given
<1> HIDE DEF value, m, new
<1>3. Answer(new, name) = {value}
  BY <1>1, <1>2, GivenAnswer
<1>4. (Has(env, m) <=> Has(env, name)) /\ Value(env, m) = Value(env, name)
  BY <1>1 DEF Has, Value
<1> DEFINE v == Value(env, name)
<1>5. A = IF Has(env, name) THEN {v} ELSE {}
  BY DEF Answer
<1>6. Joining({v}, {x.value}) = {v \o x.value}
  BY DEF Joining
<1> HIDE DEF v
<1>7. CASE path /\ Has(env, name)
  <2>1. value = v \o x.value /\ A = {v} /\ Lower[name] = "path"
    BY <1>1, <1>4, <1>5, <1>7 DEF value, v
  <2> QED
    BY <1>3, <1>6, <2>1 DEF new
<1>8. CASE ~(path /\ Has(env, name))
  <2>1. value = x.value /\ ~(Lower[name] = "path" /\ A # {})
    BY <1>1, <1>4, <1>5, <1>8 DEF value
  <2> QED
    BY <1>3, <2>1 DEF new
<1> QED
  BY <1>7, <1>8

\* or is the first,
LEMMA MergeJoinsPath ==
  ASSUME NEW env, NEW x, NEW name, Same(x.name, name), Lower[name] = "path",
         NEW A, A = Answer(env, name), A # {}
  PROVE  Answer(Merge(env, x, "user"), name) = Joining(A, {x.value})
BY MergeJoins

\* and any other of the user's replaces it.
LEMMA MergeSets ==
  ASSUME NEW env, NEW x, NEW name, Same(x.name, name),
         Lower[name] # "path" \/ Answer(env, name) = {}
  PROVE  Answer(Merge(env, x, "user"), name) = {x.value}
BY MergeJoins

\* The last of the first n variables of a source.
Upto(list, n, name) ==
  LET at == {i \in 1..n: Same(list[i].name, name)}
  IN {list[i].value: i \in {j \in at: \A k \in at: k <= j}}

\* All of them, 
LEMMA UptoAll ==
  ASSUME NEW S, NEW list \in Seq(S), NEW name
  PROVE  In(list, name) = Upto(list, Len(list), name)
<1>1. DOMAIN list = 1..Len(list)
  OBVIOUS
<1> QED
  BY <1>1 DEF In, Upto

\* none of them,
LEMMA UptoNone ==
  ASSUME NEW list, NEW name, NEW n \in Nat, \A i \in 1..n: ~Same(list[i].name, name)
  PROVE  Upto(list, n, name) = {}
BY DEF Upto

\* one more of another name,
LEMMA UptoSkips ==
  ASSUME NEW list, NEW name, NEW n \in Nat, n # 0, ~Same(list[n].name, name)
  PROVE  Upto(list, n, name) = Upto(list, n - 1, name)
<1>1. {i \in 1..n: Same(list[i].name, name)} = {i \in 1..(n - 1): Same(list[i].name, name)}
  <2>1. \A i \in 1..n: i = n \/ i \in 1..(n - 1)
    OBVIOUS
  <2>2. \A i \in 1..(n - 1): i \in 1..n
    OBVIOUS
  <2> QED
    BY <2>1, <2>2
<1> QED
  BY <1>1 DEF Upto

\* and one more of this.
LEMMA UptoTakes ==
  ASSUME NEW list, NEW name, NEW n \in Nat, n # 0, Same(list[n].name, name)
  PROVE  Upto(list, n, name) = {list[n].value}
<1> DEFINE at == {i \in 1..n: Same(list[i].name, name)}
<1>1. n \in at /\ at \subseteq 1..n
  OBVIOUS
<1> HIDE DEF at
<1>2. {j \in at: \A k \in at: k <= j} = {n}
  <2>1. \A k \in at: k <= n
    BY <1>1
  <2>2. \A j \in at: n <= j => j = n
    BY <1>1
  <2> QED
    BY <1>1, <2>1, <2>2
<1> QED
  BY <1>2 DEF Upto, at

-----------------------------------------------------------------------------
(* All variables of a source.                                              *)

\* A source's variables one by one.
LayerRun(f, n, env, source) ==
  /\ f[0] = env /\ f[n] = Layer(env, source)
  /\ \A i \in 1..n: f[i] = Merge(f[i - 1], Here[source][i], source)

\* There is such a run, and it ends with the layer.
LEMMA LayerRuns ==
  ASSUME NEW env, NEW source, NEW n \in Nat, n = Len(Here[source])
  PROVE  \E f: LayerRun(f, n, env, source)
<1>1. PICK f: Grown(f, n, env, source) /\ f[n] = Layer(env, source)
  BY LayerIs
<1> DEFINE MergedAt(e, i) == Merge(e, Here[source][i], source)
<1>0. f = [i \in 0..n |-> IF i = 0 THEN env ELSE MergedAt(f[i - 1], i)]
  BY <1>1 DEF Grown
<1> HIDE DEF MergedAt
<1>2. f[0] = env
  BY <1>0
<1>3. ASSUME NEW i \in 1..n PROVE f[i] = MergedAt(f[i - 1], i)
  <2>1. i \in 0..n /\ i # 0
    OBVIOUS
  <2> QED
    BY <1>0, <2>1
<1>4. LayerRun(f, n, env, source)
  BY <1>1, <1>2, <1>3 DEF LayerRun, MergedAt
<1> QED
  BY <1>4

\* A source whose variables replace what is there.
LEMMA LayerReplaces ==
  ASSUME NEW env, NEW source, source \in {"vars", "system"}, Here[source] \in Seq(Setting), NEW name,
         ~(source = "system" /\ Lower[name] = "username")
  PROVE  Answer(Layer(env, source), name) =
           IF In(Here[source], name) = {} THEN Answer(env, name) ELSE In(Here[source], name)
<1> DEFINE list == Here[source]
           n == Len(list)
<1>1. n \in Nat /\ In(list, name) = Upto(list, n, name)
  BY UptoAll
<1>2. PICK f: LayerRun(f, n, env, source)
  BY <1>1, LayerRuns
<1> DEFINE Says(i) == Answer(f[i], name) =
                        IF Upto(list, i, name) = {} THEN Answer(env, name) ELSE Upto(list, i, name)
           T == {i \in 0..n: Says(i)}
<1>3. 0 \in T
  <2>1. Upto(list, 0, name) = {}
    BY UptoNone
  <2> QED
    BY <1>1, <1>2, <2>1 DEF LayerRun
<1>4. ASSUME NEW i \in 1..n, i - 1 \in T PROVE i \in T
  <2> DEFINE x == list[i]
  <2>0. i \in Nat /\ i # 0 /\ Says(i - 1)
    BY <1>1, <1>4
  <2>1. f[i] = Merge(f[i - 1], x, source)
    BY <1>2 DEF LayerRun
  <2> HIDE DEF n
  <2>2. CASE Same(x.name, name)
    <3>1. Upto(list, i, name) = {x.value}
      BY <2>0, <2>2, UptoTakes
    <3>2. source # "user"
      OBVIOUS
    <3> HIDE DEF list, x
    <3>3. Answer(Merge(f[i - 1], x, source), name) = {x.value}
      BY <2>2, <3>2, MergeReplaces
    <3>4. Says(i)
      BY <2>1, <3>1, <3>3
    <3> QED
      BY <3>4
  <2>3. CASE ~Same(x.name, name)
    <3>1. Upto(list, i, name) = Upto(list, i - 1, name)
      BY <2>0, <2>3, UptoSkips
    <3> HIDE DEF list, x
    <3>2. Answer(Merge(f[i - 1], x, source), name) = Answer(f[i - 1], name)
      BY <2>3, MergeOther
    <3>3. Says(i)
      BY <2>0, <2>1, <3>1, <3>2
    <3> QED
      BY <3>3
  <2> QED
    BY <2>2, <2>3
<1> HIDE DEF T
<1>5. \A i \in 0..n: i \in T
  BY <1>1, <1>3, <1>4, Induction
<1>6. Says(n)
  <2>1. n \in 0..n
    BY <1>1
  <2> QED
    BY <1>5, <2>1 DEF T
<1> QED
  BY <1>1, <1>2, <1>6 DEF LayerRun

\* The machine's variables leave the name of the user alone.
LEMMA LayerSpares ==
  ASSUME NEW env, Here["system"] \in Seq(Setting), NEW name, Lower[name] = "username"
  PROVE  Answer(Layer(env, "system"), name) = Answer(env, name)
<1> DEFINE source == "system"
           list == Here[source]
           n == Len(list)
<1>1. n \in Nat
  OBVIOUS
<1>2. PICK f: LayerRun(f, n, env, source)
  BY <1>1, LayerRuns
<1> DEFINE T == {i \in 0..n: Answer(f[i], name) = Answer(env, name)}
<1>3. 0 \in T
  BY <1>1, <1>2 DEF LayerRun
<1>4. ASSUME NEW i \in 1..n, i - 1 \in T PROVE i \in T
  <2>1. f[i] = Merge(f[i - 1], list[i], source)
    BY <1>2 DEF LayerRun
  <2>2. Answer(Merge(f[i - 1], list[i], source), name) = Answer(f[i - 1], name)
    BY MergeSpares
  <2> QED
    BY <1>4, <2>1, <2>2
<1> HIDE DEF T
<1>5. \A i \in 0..n: i \in T
  BY <1>1, <1>3, <1>4, Induction
<1>6. n \in 0..n
  BY <1>1
<1> QED
  BY <1>2, <1>5, <1>6 DEF LayerRun, T

\* The user's variables replace what is there, too, but for the PATH.
UserSays(A, B, name) ==
  IF B = {} THEN A ELSE IF Lower[name] = "path" /\ A # {} THEN Joining(A, B) ELSE B

\* So it is when all of them are merged.
LEMMA LayerJoins ==
  ASSUME scene \in DOMAIN Scenes, NEW env, NEW name
  PROVE  Answer(Layer(env, "user"), name) = UserSays(Answer(env, name), In(Here.user, name), name)
<1> DEFINE source == "user"
           list == Here[source]
           n == Len(list)
<1>0. list \in Seq(Setting) /\ list = Here.user
  BY HereTyped
<1>1. n \in Nat /\ In(list, name) = Upto(list, n, name) /\ DOMAIN list = 1..n
  BY <1>0, UptoAll
<1>2. PICK f: LayerRun(f, n, env, source)
  BY <1>1, LayerRuns
<1>9. \A i, j \in DOMAIN list: Lower[list[i].name] = Lower[list[j].name] => i = j
  BY BuilderAssumption DEF Here
<1> DEFINE Says(i) == Answer(f[i], name) = UserSays(Answer(env, name), Upto(list, i, name), name)
           T == {i \in 0..n: Says(i)}
<1>3. 0 \in T
  <2>1. Upto(list, 0, name) = {}
    BY UptoNone
  <2> QED
    BY <1>1, <1>2, <2>1 DEF LayerRun, UserSays
<1>4. ASSUME NEW i \in 1..n, i - 1 \in T PROVE i \in T
  <2> DEFINE x == list[i]
             A == Answer(env, name)
  <2>0. i \in Nat /\ i # 0 /\ i - 1 \in Nat /\ Says(i - 1)
    BY <1>1, <1>4
  <2>1. f[i] = Merge(f[i - 1], x, source)
    BY <1>2 DEF LayerRun
  <2>2. CASE Same(x.name, name)
    <3>1. Upto(list, i, name) = {x.value}
      BY <2>0, <2>2, UptoTakes
    <3>2. \A j \in 1..(i - 1): ~Same(list[j].name, name)
      <4>1. ASSUME NEW j \in 1..(i - 1), Same(list[j].name, name) PROVE FALSE
        <5>1. j \in DOMAIN list /\ i \in DOMAIN list /\ j # i
          BY <1>1
        <5>2. Lower[list[j].name] = Lower[list[i].name]
          BY <2>2, <4>1, SameKey
        <5> QED
          BY <1>9, <5>1, <5>2
      <4> QED
        BY <4>1
    <3>3. Upto(list, i - 1, name) = {}
      BY <2>0, <3>2, UptoNone
    <3> HIDE DEF n, list, x, A
    <3>4. Answer(f[i - 1], name) = A
      BY <2>0, <3>3 DEF UserSays, A
    <3>5. Answer(Merge(f[i - 1], x, source), name) =
            IF Lower[name] = "path" /\ A # {} THEN Joining(A, {x.value}) ELSE {x.value}
      <4> DEFINE g == f[i - 1]
      <4>1. A = Answer(g, name)
        BY <3>4
      <4> HIDE DEF g
      <4>2. CASE Lower[name] = "path" /\ A # {}
        <5>1. Answer(Merge(g, x, "user"), name) = Joining(A, {x.value})
          BY <2>2, <4>1, <4>2, MergeJoinsPath
        <5> QED
          BY <4>2, <5>1 DEF g
      <4>3. CASE ~(Lower[name] = "path" /\ A # {})
        <5>1. Answer(Merge(g, x, "user"), name) = {x.value}
          BY <2>2, <4>1, <4>3, MergeSets
        <5> QED
          BY <4>3, <5>1 DEF g
      <4> QED
        BY <4>2, <4>3
    <3>6. Says(i)
      BY <2>1, <3>1, <3>5 DEF UserSays, A
    <3> QED
      BY <3>6
  <2>3. CASE ~Same(x.name, name)
    <3>1. Upto(list, i, name) = Upto(list, i - 1, name)
      BY <2>0, <2>3, UptoSkips
    <3> HIDE DEF n, list, x
    <3>2. Answer(Merge(f[i - 1], x, source), name) = Answer(f[i - 1], name)
      BY <2>3, MergeOther
    <3>3. Says(i)
      BY <2>0, <2>1, <3>1, <3>2
    <3> QED
      BY <3>3
  <2> QED
    BY <2>2, <2>3
<1> HIDE DEF T
<1>5. \A i \in 0..n: i \in T
  BY <1>1, <1>3, <1>4, Induction
<1>6. Says(n)
  <2>1. n \in 0..n
    BY <1>1
  <2> QED
    BY <1>5, <2>1 DEF T
<1> QED
  BY <1>0, <1>1, <1>2, <1>6 DEF LayerRun

-----------------------------------------------------------------------------
(* The base environment's answers.                                         *)

\* A finite map of variables that nobody has set.
Untouched(env) == IsFiniteSet(DOMAIN env) /\ \A key \in DOMAIN env: env[key].base

\* It stays so with a variable of the base environment,
LEMMA GivenUntouched ==
  ASSUME NEW env, Untouched(env), NEW m, NEW value
  PROVE  Untouched(Given(env, m, value))
<1> DEFINE e == Entry(m, value, TRUE)
           new == Given(env, m, value)
<1>1. e.base
  BY DEF Entry
<1>2. new = [k \in {MapKey(m)} \cup DOMAIN env |-> IF k = MapKey(m) THEN e ELSE env[k]]
  BY DEF Given, Insert, Updated
<1> HIDE DEF e, new
<1>3. DOMAIN new = DOMAIN env \cup {MapKey(m)}
  BY <1>2
<1>4. IsFiniteSet(DOMAIN new)
  BY <1>3, FS_AddElement DEF Untouched
<1>5. \A k \in DOMAIN new: new[k].base
  BY <1>1, <1>2 DEF Untouched
<1> QED
  BY <1>4, <1>5 DEF Untouched, new

\* of a source,
LEMMA MergeUntouched ==
  ASSUME NEW env, Untouched(env), NEW x, NEW source
  PROVE  Untouched(Merge(env, x, source))
<1> DEFINE value == IF source = "user" /\ Lower[x.name] = "path" /\ Has(env, x.name)
                    THEN Value(env, x.name) \o x.value ELSE x.value
           m == x.name
           new == Merge(env, x, source)
<1>1. new = env \/ new = Given(env, m, value)
  BY DEF Merge, Given
<1> HIDE DEF value, m, new
<1>2. Untouched(new)
  BY <1>1, GivenUntouched
<1> QED
  BY <1>2 DEF new

\* with all of the source's,
LEMMA LayerUntouched ==
  ASSUME NEW env, Untouched(env), NEW source, Here[source] \in Seq(Setting)
  PROVE  Untouched(Layer(env, source))
<1> DEFINE n == Len(Here[source])
<1>1. n \in Nat
  OBVIOUS
<1>2. PICK f: LayerRun(f, n, env, source)
  BY <1>1, LayerRuns
<1> DEFINE T == {i \in 0..n: Untouched(f[i])}
<1>3. 0 \in T
  BY <1>1, <1>2 DEF LayerRun
<1>4. ASSUME NEW i \in 1..n, i - 1 \in T PROVE i \in T
  <2>1. f[i] = Merge(f[i - 1], Here[source][i], source)
    BY <1>2 DEF LayerRun
  <2> QED
    BY <1>4, <2>1, MergeUntouched
<1> HIDE DEF T
<1>5. \A i \in 0..n: i \in T
  BY <1>1, <1>3, <1>4, Induction
<1>6. n \in 0..n
  BY <1>1
<1> QED
  BY <1>2, <1>5, <1>6 DEF LayerRun, T

\* and so is the base environment.
LEMMA BaseUntouched ==
  ASSUME scene \in DOMAIN Scenes
  PROVE  Untouched(BaseEnv)
<1>1. /\ Here["vars"] \in Seq(Setting) /\ Here["system"] \in Seq(Setting)
      /\ Here["user"] \in Seq(Setting)
  BY HereTyped
<1> DEFINE a == Layer(<< >>, "vars")
           b == WithShell(a)
           c == Layer(b, "system")
<1>2. Untouched(a)
  <2>1. DOMAIN << >> = {}
    OBVIOUS
  <2>2. Untouched(<< >>)
    BY <2>1, FS_EmptySet DEF Untouched
  <2> QED
    BY <1>1, <2>2, LayerUntouched
<1>3. Untouched(b)
  <2>1. b = a \/ b = Given(a, "SHELL", <<PasswdShell>>)
    BY DEF WithShell, Given
  <2> HIDE DEF a, b
  <2> QED
    BY <1>2, <2>1, GivenUntouched
<1> HIDE DEF a, b
<1>4. Untouched(c)
  BY <1>1, <1>3, LayerUntouched
<1> HIDE DEF c
<1>5. Untouched(Layer(c, "user"))
  BY <1>1, <1>4, LayerUntouched
<1> QED
  BY <1>5 DEF BaseEnv, a, b, c

\* The answers of the base environment.
LEMMA NotInNone ==
  ASSUME NEW name
  PROVE  In(<<>>, name) = {}
BY DEF In

\* The process's variables,
LEMMA VarsAnswer ==
  ASSUME scene \in DOMAIN Scenes, NEW name
  PROVE  Answer(Layer(<< >>, "vars"), name) = In(Here.vars, name)
<1> DEFINE source == "vars"
           none == << >>
<1>1. Here[source] \in Seq(Setting) /\ Here[source] = Here.vars /\ source \in {"vars", "system"}
      /\ ~(source = "system" /\ Lower[name] = "username")
  BY HereTyped
<1>2. Answer(none, name) = {}
  BY DEF Answer, Has
<1> HIDE DEF source, none
<1>3. Answer(Layer(none, source), name) =
        IF In(Here[source], name) = {} THEN Answer(none, name) ELSE In(Here[source], name)
  BY <1>1, LayerReplaces
<1> QED
  BY <1>1, <1>2, <1>3 DEF source, none

\* SHELL on Unix,
LEMMA ShellAnswer ==
  ASSUME NEW env, NEW name
  PROVE  Answer(WithShell(env), name) =
           IF ~Windows /\ name = "SHELL" /\ Answer(env, name) = {}
           THEN {<<PasswdShell>>} ELSE Answer(env, name)
<1> DEFINE value == <<PasswdShell>>
           m == "SHELL"
           new == Given(env, m, value)
<1>1. WithShell(env) = IF Windows \/ Has(env, m) THEN env ELSE new
  BY DEF WithShell, Given
<1>2. Has(env, m) <=> Answer(env, m) # {}
  BY DEF Answer
<1> HIDE DEF m, value
<1>3. Same(m, name) => Answer(new, name) = {value}
  BY GivenAnswer
<1>4. ~Same(m, name) => Answer(new, name) = Answer(env, name)
  BY GivenAnswer
<1>5. ~Windows => (Same(m, name) <=> name = m)
  BY DEF Same
<1> HIDE DEF new
<1>6. CASE Windows \/ Has(env, m)
  BY <1>1, <1>2, <1>6 DEF m
<1>7. CASE ~(Windows \/ Has(env, m))
  <2>1. CASE name = m
    BY <1>1, <1>2, <1>3, <1>5, <1>7, <2>1 DEF m, value
  <2>2. CASE name # m
    BY <1>1, <1>4, <1>5, <1>7, <2>2 DEF m, value
  <2> QED
    BY <2>1, <2>2
<1> QED
  BY <1>6, <1>7

\* the machine's variables,
LEMMA SystemAnswer ==
  ASSUME scene \in DOMAIN Scenes, NEW env, NEW name
  PROVE  Answer(Layer(env, "system"), name) =
           IF SystemValue(name) = {} THEN Answer(env, name) ELSE SystemValue(name)
<1> DEFINE source == "system"
<1>1. Here[source] \in Seq(Setting) /\ Here[source] = Here.system /\ source \in {"vars", "system"}
  BY HereTyped
<1>2. CASE Lower[name] = "username"
  <2>1. SystemValue(name) = {}
    BY <1>2 DEF SystemValue
  <2> QED
    BY <1>1, <1>2, <2>1, LayerSpares
<1>3. CASE Lower[name] # "username"
  <2>1. SystemValue(name) = In(Here.system, name)
    BY <1>3 DEF SystemValue
  <2> HIDE DEF source
  <2>2. Answer(Layer(env, source), name) =
          IF In(Here[source], name) = {} THEN Answer(env, name) ELSE In(Here[source], name)
    BY <1>1, <1>3, LayerReplaces
  <2> QED
    BY <1>1, <2>1, <2>2 DEF source
<1> QED
  BY <1>2, <1>3

\* and all together answer with the base value.
LEMMA BaseAnswers ==
  ASSUME scene \in DOMAIN Scenes, NEW name
  PROVE  Answer(BaseEnv, name) = BaseValue(name)
<1> DEFINE a == Layer(<< >>, "vars")
           b == WithShell(a)
           c == Layer(b, "system")
           d == Layer(c, "user")
           U == In(Here.user, name)
           S == SystemValue(name)
           V == In(Here.vars, name)
           O == OtherValue(name)
           P == {<<PasswdShell>>}
           shell == ~Windows /\ name = "SHELL" /\ V = {}
<1>1. Answer(a, name) = V
  BY VarsAnswer
<1> HIDE DEF a
<1>2. Answer(b, name) = IF shell THEN P ELSE V
  BY <1>1, ShellAnswer
<1> HIDE DEF b
<1>3. Answer(c, name) = IF S = {} THEN Answer(b, name) ELSE S
  BY SystemAnswer
<1> HIDE DEF c
<1>4. Answer(d, name) = UserSays(Answer(c, name), U, name)
  BY LayerJoins
<1> HIDE DEF d
<1>5. O = IF S = {} THEN V ELSE S
  BY DEF OtherValue
<1>6. BaseValue(name) =
        IF U = {} THEN IF shell THEN P ELSE O
        ELSE IF Lower[name] = "path" /\ O # {} THEN Joining(O, U) ELSE U
  BY DEF BaseValue, Joining
<1>7. ~Windows => S = {} /\ U = {}
  <2> SUFFICES ASSUME ~Windows PROVE S = {} /\ U = {}
    OBVIOUS
  <2>1. Here.system = <<>> /\ Here.user = <<>>
    BY HereTyped, BuilderAssumption DEF Windows, Here
  <2> QED
    BY <2>1, NotInNone DEF SystemValue
<1>8. BaseEnv = d
  BY DEF BaseEnv, a, b, c, d
<1> HIDE DEF U, S, V, O, P
<1>9. CASE shell
  BY <1>2, <1>3, <1>4, <1>6, <1>7, <1>8, <1>9 DEF UserSays
<1>10. CASE ~shell
  <2>1. Answer(c, name) = O
    BY <1>2, <1>3, <1>5, <1>10
  <2> QED
    BY <1>4, <1>6, <1>8, <1>10, <2>1 DEF UserSays
<1> QED
  BY <1>9, <1>10

-----------------------------------------------------------------------------
(* What calls make of an answer.                                           *)

\* A variable that the caller has set.
Own(env, name) == \E key \in DOMAIN env: ~env[key].base /\ Same(env[key].key, name)

\* A variable is set.
Set(env, m, value) == Insert(env, m, value, FALSE)

\* Its entry is the caller's.
LEMMA SetIs ==
  ASSUME NEW env, NEW m, NEW value
  PROVE  \E e: Set(env, m, value) = Updated(env, MapKey(m), e)
               /\ e.value = value /\ e.key = m /\ ~e.base
<1> DEFINE e == Entry(m, value, FALSE)
<1>1. e.value = value /\ e.key = m /\ ~e.base
  BY DEF Entry
<1>2. Set(env, m, value) = Updated(env, MapKey(m), e)
  BY DEF Set, Insert
<1> HIDE DEF e
<1> QED
  BY <1>1, <1>2

\* It answers for its name,
LEMMA SetAnswers ==
  ASSUME NEW env, NEW m, NEW value, NEW name, Same(m, name)
  PROVE  Answer(Set(env, m, value), name) = {value} /\ Own(Set(env, m, value), name)
<1> DEFINE new == Set(env, m, value)
<1>1. PICK e: new = Updated(env, MapKey(m), e) /\ e.value = value /\ e.key = m /\ ~e.base
  BY SetIs
<1> HIDE DEF new
<1>2. Answer(new, name) = {e.value}
  BY <1>1, UpdatedAnswer
<1>3. MapKey(m) \in DOMAIN new /\ new[MapKey(m)] = e
  BY <1>1 DEF Updated
<1>4. Own(new, name)
  BY <1>1, <1>3 DEF Own
<1> QED
  BY <1>1, <1>2, <1>4 DEF new

\* and for no other.
LEMMA SetOthers ==
  ASSUME NEW env, Keyed(env), NEW m, NEW value, NEW name, ~Same(m, name)
  PROVE  /\ Answer(Set(env, m, value), name) = Answer(env, name)
         /\ Own(Set(env, m, value), name) <=> Own(env, name)
<1> DEFINE new == Set(env, m, value)
           k == MapKey(m)
<1>1. PICK e: new = Updated(env, k, e) /\ e.value = value /\ e.key = m /\ ~e.base
  BY SetIs
<1> HIDE DEF new
<1>2. Answer(new, name) = Answer(env, name)
  BY <1>1, UpdatedAnswer
<1>3. /\ DOMAIN new = {k} \cup DOMAIN env /\ new[k] = e
      /\ \A key \in DOMAIN env: key # k => new[key] = env[key]
  BY <1>1 DEF Updated
<1>4. ASSUME NEW key \in DOMAIN env, Same(env[key].key, name) PROVE key # k
  <2>1. key = MapKey(env[key].key)
    BY DEF Keyed
  <2>2. key = MapKey(name) /\ k # MapKey(name)
    BY <1>4, <2>1, SameKey
  <2> QED
    BY <2>2
<1>5. Own(new, name) => Own(env, name)
  BY <1>1, <1>3 DEF Own
<1>6. Own(env, name) => Own(new, name)
  BY <1>3, <1>4 DEF Own
<1> QED
  BY <1>2, <1>5, <1>6 DEF new

\* One that was removed has no answer and is nobody's.
LEMMA WithoutIs ==
  ASSUME NEW env, Keyed(env), NEW m, NEW name
  PROVE  /\ Same(m, name) => Answer(Without(env, m), name) = {} /\ ~Own(Without(env, m), name)
         /\ ~Same(m, name) => /\ Answer(Without(env, m), name) = Answer(env, name)
                              /\ Own(Without(env, m), name) <=> Own(env, name)
<1> DEFINE new == Without(env, m)
<1>1. new = [k \in DOMAIN env \ {MapKey(m)} |-> env[k]]
  BY DEF Without, Restrict
<1>2. /\ Same(m, name) => Answer(new, name) = {}
      /\ ~Same(m, name) => Answer(new, name) = Answer(env, name)
  BY WithoutAnswer
<1> HIDE DEF new
<1>3. ASSUME NEW key \in DOMAIN env, Same(env[key].key, name) PROVE key = MapKey(name)
  BY <1>3, SameKey DEF Keyed
<1>4. Same(m, name) => ~Own(new, name)
  <2> SUFFICES ASSUME Same(m, name), NEW key \in DOMAIN new, Same(new[key].key, name) PROVE FALSE
    BY DEF Own
  <2>1. key \in DOMAIN env /\ key # MapKey(m) /\ new[key] = env[key]
    BY <1>1
  <2>2. key = MapKey(name) /\ MapKey(m) = MapKey(name)
    BY <1>3, <2>1, SameKey
  <2> QED
    BY <2>1, <2>2
<1>5. ~Same(m, name) => (Own(new, name) <=> Own(env, name))
  <2> SUFFICES ASSUME ~Same(m, name) PROVE Own(new, name) <=> Own(env, name)
    OBVIOUS
  <2>1. MapKey(m) # MapKey(name)
    BY SameKey
  <2>2. Own(new, name) => Own(env, name)
    BY <1>1 DEF Own
  <2>3. \A key \in DOMAIN env: Same(env[key].key, name) => key \in DOMAIN new /\ new[key] = env[key]
    BY <1>1, <1>3, <2>1
  <2>4. Own(env, name) => Own(new, name)
    BY <2>3 DEF Own
  <2> QED
    BY <2>2, <2>4
<1> QED
  BY <1>2, <1>4, <1>5 DEF new

-----------------------------------------------------------------------------
(* The calls so far.                                                       *)

\* Calls that touch a name, and what the last of them says, of any list of calls.
Touches(e, name) == "name" \in DOMAIN e => Same(e.name, name)
TouchingIn(es, name) == {i \in DOMAIN es: Touches(es[i], name)}
LastSets(es, name) ==
  TouchingIn(es, name) # {} /\ "value" \in DOMAIN es[Max(TouchingIn(es, name))]
ExpectedIn(es, name) ==
  IF TouchingIn(es, name) = {} THEN BaseValue(name)
  ELSE LET last == es[Max(TouchingIn(es, name))]
       IN IF "value" \in DOMAIN last THEN {last.value} ELSE {}

\* A set of small numbers has a largest one,
LEMMA MaxIs ==
  ASSUME NEW n \in Nat, NEW T \in SUBSET (1..n), T # {}
  PROVE  Max(T) \in T
<1> DEFINE R == {n - x: x \in T}
<1>1. R \in SUBSET Nat /\ R # {}
  OBVIOUS
<1>2. PICK r \in R: \A y \in R: r <= y
  BY <1>1, Least
<1>3. PICK x \in T: r = n - x
  BY <1>2
<1>4. \A y \in T: x >= y
  <2>1. ASSUME NEW y \in T PROVE x >= y
    <3>1. n - x <= n - y
      BY <1>2, <1>3
    <3> QED
      BY <3>1
  <2> QED
    BY <2>1
<1> QED
  BY <1>4 DEF Max

\* which is the last call's when it touches the name.
LEMMA MaxIsThe ==
  ASSUME NEW n \in Nat, NEW T \in SUBSET (1..n), n \in T
  PROVE  Max(T) = n
<1>1. Max(T) \in T /\ Max(T) >= n
  <2>1. \A y \in T: n >= y
    OBVIOUS
  <2> QED
    BY <2>1 DEF Max
<1> DEFINE top == Max(T)
<1>2. top \in 1..n /\ top >= n
  BY <1>1
<1> HIDE DEF top
<1>3. top = n
  BY <1>2
<1> QED
  BY <1>3 DEF top

\* A call that touches the variable decides.
LEMMA NowTouched ==
  ASSUME NEW S, NEW es \in Seq(S), NEW e \in S, NEW name, Touches(e, name)
  PROVE  /\ LastSets(Append(es, e), name) <=> "value" \in DOMAIN e
         /\ "value" \in DOMAIN e => ExpectedIn(Append(es, e), name) = {e.value}
         /\ "value" \notin DOMAIN e => ExpectedIn(Append(es, e), name) = {}
<1> DEFINE n == Len(es) + 1
           new == Append(es, e)
           T == TouchingIn(new, name)
<1>1. n \in Nat /\ DOMAIN new = 1..n /\ n \in 1..n /\ new[n] = e
  OBVIOUS
<1> HIDE DEF n, new
<1>2. T \in SUBSET (1..n) /\ n \in T
  BY <1>1 DEF TouchingIn
<1>3. Max(T) = n /\ T # {}
  BY <1>1, <1>2, MaxIsThe
<1> QED
  BY <1>1, <1>3 DEF LastSets, ExpectedIn, new

\* One that does not changes nothing.
LEMMA NotTouched ==
  ASSUME NEW S, NEW es \in Seq(S), NEW e \in S, NEW name, ~Touches(e, name)
  PROVE  /\ LastSets(Append(es, e), name) <=> LastSets(es, name)
         /\ ExpectedIn(Append(es, e), name) = ExpectedIn(es, name)
<1> DEFINE n == Len(es)
           new == Append(es, e)
           T == TouchingIn(es, name)
<1>1. /\ n \in Nat /\ DOMAIN new = 1..(n + 1) /\ new[n + 1] = e /\ DOMAIN es = 1..n
      /\ \A i \in 1..n: new[i] = es[i]
  OBVIOUS
<1> HIDE DEF n, new
<1>2. TouchingIn(new, name) = T
  <2>1. \A i \in 1..(n + 1): i \in 1..n \/ i = n + 1
    BY <1>1
  <2>2. \A i \in 1..n: i \in 1..(n + 1)
    BY <1>1
  <2> QED
    BY <1>1, <2>1, <2>2 DEF TouchingIn
<1>3. T # {} => new[Max(T)] = es[Max(T)]
  <2>1. T \in SUBSET (1..n)
    BY <1>1 DEF TouchingIn
  <2>2. T # {} => Max(T) \in 1..n
    BY <1>1, <2>1, MaxIs
  <2> QED
    BY <1>1, <2>2
<1> QED
  BY <1>2, <1>3 DEF LastSets, ExpectedIn, new

-----------------------------------------------------------------------------
(* Every name's answer.                                                    *)

\* Every name answers with what the calls say, and only set variables are the
\* caller's.
Answers(env, es) ==
  \A name \in Names:
    /\ Answer(env, name) = ExpectedIn(es, name)
    /\ Own(env, name) <=> LastSets(es, name)

\* That is BuilderAnswers, said of a map and a list of calls.
LEMMA AnswersAre == Answers(envs, edits) <=> BuilderAnswers
<1>1. ASSUME NEW name PROVE Answer(envs, name) = {Value(envs, n): n \in {m \in {name}: Has(envs, m)}}
  BY DEF Answer
<1>2. ASSUME NEW name PROVE ExpectedIn(edits, name) = Expected(name)
  BY DEF ExpectedIn, Expected, TouchingIn, Touching, Touches
<1>3. ASSUME NEW name
      PROVE  LastSets(edits, name) <=> Touching(name) # {} /\ "value" \in DOMAIN edits[Max(Touching(name))]
  BY DEF LastSets, TouchingIn, Touching, Touches
<1>4. ASSUME NEW name
      PROVE  Own(envs, name) <=> \E key \in DOMAIN envs: ~envs[key].base /\ Same(envs[key].key, name)
  BY DEF Own
<1> QED
  BY <1>1, <1>2, <1>3, <1>4 DEF Answers, BuilderAnswers

\* It holds before the first call,
LEMMA InitAnswers ==
  ASSUME scene \in DOMAIN Scenes
  PROVE  Answers(BaseEnv, <<>>)
<1> DEFINE base == BaseEnv
<1>1. Untouched(base)
  BY BaseUntouched
<1>2. \A name: Answer(base, name) = BaseValue(name)
  BY BaseAnswers
<1> HIDE DEF base
<1>3. ASSUME NEW name PROVE ~Own(base, name)
  BY <1>1 DEF Own, Untouched
<1>4. ASSUME NEW name PROVE TouchingIn(<<>>, name) = {}
  BY DEF TouchingIn
<1>5. ASSUME NEW name \in Names
      PROVE  Answer(base, name) = ExpectedIn(<<>>, name) /\ (Own(base, name) <=> LastSets(<<>>, name))
  <2>1. ExpectedIn(<<>>, name) = BaseValue(name)
    BY <1>4 DEF ExpectedIn
  <2>2. ~LastSets(<<>>, name)
    BY <1>4 DEF LastSets
  <2> QED
    BY <1>2, <1>3, <2>1, <2>2
<1>6. Answers(base, <<>>)
  BY <1>5 DEF Answers
<1> QED
  BY <1>6 DEF base

\* after env,
LEMMA SetKeeps ==
  ASSUME NEW env, Keyed(env), NEW es \in Seq(Edit), Answers(env, es), NEW s \in Setting
  PROVE  Answers(Set(env, s.name, s.value), Append(es, s))
<1> DEFINE new == Set(env, s.name, s.value)
           now == Append(es, s)
<1>1. s \in Edit /\ "name" \in DOMAIN s /\ "value" \in DOMAIN s
  BY DEF Setting, Edit
<1>2. ASSUME NEW name \in Names
      PROVE  Answer(new, name) = ExpectedIn(now, name) /\ (Own(new, name) <=> LastSets(now, name))
  <2>1. CASE Same(s.name, name)
    <3>1. Touches(s, name)
      BY <2>1 DEF Touches
    <3>2. Answer(new, name) = {s.value} /\ Own(new, name)
      BY <2>1, SetAnswers
    <3> HIDE DEF new
    <3>3. ExpectedIn(now, name) = {s.value} /\ LastSets(now, name)
      BY <1>1, <3>1, NowTouched
    <3> QED
      BY <3>2, <3>3
  <2>2. CASE ~Same(s.name, name)
    <3>1. ~Touches(s, name)
      BY <1>1, <2>2 DEF Touches
    <3>2. Answer(new, name) = Answer(env, name) /\ (Own(new, name) <=> Own(env, name))
      BY <2>2, SetOthers
    <3> HIDE DEF new
    <3>3. ExpectedIn(now, name) = ExpectedIn(es, name) /\ (LastSets(now, name) <=> LastSets(es, name))
      BY <1>1, <3>1, NotTouched
    <3> QED
      BY <3>2, <3>3 DEF Answers
  <2> QED
    BY <2>1, <2>2
<1> QED
  BY <1>2 DEF Answers

\* after env_remove,
LEMMA WithoutKeeps ==
  ASSUME NEW env, Keyed(env), NEW es \in Seq(Edit), Answers(env, es), NEW m \in Names
  PROVE  Answers(Without(env, m), Append(es, [name |-> m]))
<1> DEFINE new == Without(env, m)
           e == [name |-> m]
           now == Append(es, e)
<1>1. e \in Edit /\ e.name = m /\ "name" \in DOMAIN e /\ "value" \notin DOMAIN e
  BY DEF Edit
<1> HIDE DEF e
<1>2. ASSUME NEW name \in Names
      PROVE  Answer(new, name) = ExpectedIn(now, name) /\ (Own(new, name) <=> LastSets(now, name))
  <2>1. CASE Same(m, name)
    <3>1. Touches(e, name)
      BY <1>1, <2>1 DEF Touches
    <3>2. Answer(new, name) = {} /\ ~Own(new, name)
      BY <2>1, WithoutIs
    <3> HIDE DEF new
    <3>3. ExpectedIn(now, name) = {} /\ ~LastSets(now, name)
      BY <1>1, <3>1, NowTouched
    <3> QED
      BY <3>2, <3>3
  <2>2. CASE ~Same(m, name)
    <3>1. ~Touches(e, name)
      BY <1>1, <2>2 DEF Touches
    <3>2. Answer(new, name) = Answer(env, name) /\ (Own(new, name) <=> Own(env, name))
      BY <2>2, WithoutIs
    <3> HIDE DEF new
    <3>3. ExpectedIn(now, name) = ExpectedIn(es, name) /\ (LastSets(now, name) <=> LastSets(es, name))
      BY <1>1, <3>1, NotTouched
    <3> QED
      BY <3>2, <3>3 DEF Answers
  <2> QED
    BY <2>1, <2>2
<1> QED
  BY <1>2 DEF Answers, e

\* and after env_clear.
LEMMA ClearKeeps ==
  ASSUME NEW es \in Seq(Edit)
  PROVE  Answers(<< >>, Append(es, [all |-> TRUE]))
<1> DEFINE none == << >>
           e == [all |-> TRUE]
           now == Append(es, e)
<1>1. e \in Edit /\ "name" \notin DOMAIN e /\ "value" \notin DOMAIN e
  BY DEF Edit
<1> HIDE DEF e
<1>2. DOMAIN none = {}
  OBVIOUS
<1> HIDE DEF none
<1>3. ASSUME NEW name \in Names
      PROVE  Answer(none, name) = ExpectedIn(now, name) /\ (Own(none, name) <=> LastSets(now, name))
  <2>1. Touches(e, name)
    BY <1>1 DEF Touches
  <2>2. ExpectedIn(now, name) = {} /\ ~LastSets(now, name)
    BY <1>1, <2>1, NowTouched
  <2>3. Answer(none, name) = {} /\ ~Own(none, name)
    BY <1>2 DEF Answer, Has, Own
  <2> QED
    BY <2>2, <2>3
<1> QED
  BY <1>3 DEF Answers, e, none

\* The surroundings answer the same.
LEMMA SameBase ==
  ASSUME scene' = scene, NEW name
  PROVE  BaseValue(name)' = BaseValue(name)
<1>1. \A p: Accessible(p)' = Accessible(p)
  BY SameFiles
<1>2. PasswdShell' = PasswdShell
  BY DEF PasswdShell, Accessible, Kind, KindFrom, Named, Here
<1>3. Windows' = Windows /\ Here' = Here
  BY OfScene
<1>4. \A s: In(s, name)' = In(s, name)
  BY <1>3 DEF In, Same
<1>5. SystemValue(name)' = SystemValue(name)
  BY <1>3 DEF SystemValue, In, Same
<1>6. OtherValue(name)' = OtherValue(name)
  BY <1>3, <1>5 DEF OtherValue, In, Same
<1>7. In(Here.vars, name)' = In(Here.vars, name) /\ In(Here.user, name)' = In(Here.user, name)
  BY <1>3 DEF In, Same
<1> QED
  BY <1>2, <1>3, <1>6, <1>7 DEF BaseValue

\* So do the builder's names.
LEMMA SameAnswers ==
  ASSUME scene' = scene, Answers(envs', edits')
  PROVE  Answers(envs, edits)'
<1>1. Windows' = Windows
  BY OfScene
<1>2. ASSUME NEW name PROVE BaseValue(name)' = BaseValue(name)
  BY SameBase
<1>3. ASSUME NEW name PROVE Answer(envs, name)' = Answer(envs', name)
  BY <1>1 DEF Answer, Has, Value, MapKey
<1>4. ASSUME NEW name PROVE Own(envs, name)' <=> Own(envs', name)
  BY <1>1 DEF Own, Same
<1>5. ASSUME NEW name PROVE TouchingIn(edits, name)' = TouchingIn(edits', name)
  BY <1>1 DEF TouchingIn, Touches, Same
<1>6. ASSUME NEW name PROVE ExpectedIn(edits, name)' = ExpectedIn(edits', name)
  BY <1>2, <1>5 DEF ExpectedIn
<1>7. ASSUME NEW name PROVE LastSets(edits, name)' <=> LastSets(edits', name)
  BY <1>5 DEF LastSets
<1> QED
  BY <1>3, <1>4, <1>6, <1>7 DEF Answers

-----------------------------------------------------------------------------
(* The invariant of the environment.                                       *)

\* The variables that a child gets from a command on Unix, and from a block.
UnixVars(env) == {[name |-> n, text |-> ValueText(env[n])]: n \in DOMAIN env}
BlockVars(block) == {[name |-> Head(t), text |-> SubSeq(t, 3, Len(t))]: t \in Texts(block)}

\* The block of a command, and the variables of a child.
BlockIs == Converted /\ Windows => command.block = Block
VarsAre ==
  outcome = "running" =>
    /\ Windows => child.env = BlockVars(command.block)
    /\ ~Windows => child.env = UnixVars(command.env)

\* The second inductive invariant, which needs the first.
EnvInv ==
  /\ Answers(envs, edits)
  /\ IsFiniteSet(DOMAIN envs)
  /\ BlockIs
  /\ VarsAre

\* It holds initially.
LEMMA InitEnvInv == Init => EnvInv
<1> SUFFICES ASSUME Init PROVE EnvInv
  OBVIOUS
<1>1. scene \in DOMAIN Scenes /\ envs = BaseEnv /\ edits = <<>> /\ outcome = "editing"
  BY DEF Init
<1>2. Answers(BaseEnv, <<>>) /\ IsFiniteSet(DOMAIN BaseEnv)
  BY <1>1, InitAnswers, BaseUntouched DEF Untouched
<1>3. BlockIs /\ VarsAre
  BY <1>1 DEF BlockIs, VarsAre, Converted
<1> QED
  BY <1>1, <1>2, <1>3 DEF EnvInv

\* A call leaves no command and no child.
LEMMA CallEnv ==
  ASSUME EnvInv, scene' = scene, outcome' \in {"editing", "panic"}, Answers(envs', edits'),
         IsFiniteSet(DOMAIN envs')
  PROVE  EnvInv'
<1>1. BlockIs' /\ VarsAre'
  BY DEF BlockIs, VarsAre, Converted
<1>2. Answers(envs, edits)'
  BY SameAnswers
<1> QED
  BY <1>1, <1>2 DEF EnvInv

\* env.
LEMMA EnvEnv ==
  ASSUME BuilderInv, EnvInv, Env
  PROVE  EnvInv'
<1>1. scene' = scene /\ outcome' = "editing"
  BY DEF Env, Call
<1>2. PICK s \in Here.settings:
        envs' = Insert(envs, s.name, s.value, FALSE) /\ edits' = Append(edits, s)
  BY DEF Env
<1>3. s \in Setting /\ Keyed(envs) /\ edits \in Seq(Edit) /\ Answers(envs, edits)
      /\ IsFiniteSet(DOMAIN envs)
  BY <1>2, HereTyped DEF BuilderInv, Typed, EnvInv
<1>4. envs' = Set(envs, s.name, s.value)
  BY <1>2 DEF Set
<1>5. edits' = Append(edits, s)
  BY <1>2
<1>6. Answers(envs', edits')
  <2>1. Answers(Set(envs, s.name, s.value), Append(edits, s))
    BY <1>3, SetKeeps
  <2> QED
    BY <1>4, <1>5, <2>1
<1>7. IsFiniteSet(DOMAIN envs')
  <2>1. DOMAIN envs' = DOMAIN envs \cup {MapKey(s.name)}
    BY <1>2 DEF Insert, Updated
  <2> QED
    BY <1>3, <2>1, FS_AddElement
<1> QED
  BY <1>1, <1>6, <1>7, CallEnv

\* env_remove.
LEMMA EnvRemoveEnv ==
  ASSUME BuilderInv, EnvInv, EnvRemove
  PROVE  EnvInv'
<1>1. scene' = scene /\ outcome' = "editing"
  BY DEF EnvRemove, Call
<1>2. PICK name \in Here.removals:
        envs' = Without(envs, name) /\ edits' = Append(edits, [name |-> name])
  BY DEF EnvRemove
<1>3. name \in Names /\ Keyed(envs) /\ edits \in Seq(Edit) /\ Answers(envs, edits)
      /\ IsFiniteSet(DOMAIN envs)
  BY <1>2, HereTyped DEF BuilderInv, Typed, EnvInv
<1>4. Answers(envs', edits')
  BY <1>2, <1>3, WithoutKeeps
<1>5. IsFiniteSet(DOMAIN envs')
  <2>1. DOMAIN envs' \subseteq DOMAIN envs
    BY <1>2 DEF Without, Restrict
  <2> QED
    BY <1>3, <2>1, FS_Subset
<1> QED
  BY <1>1, <1>4, <1>5, CallEnv

\* env_clear.
LEMMA EnvClearEnv ==
  ASSUME BuilderInv, EnvInv, EnvClear
  PROVE  EnvInv'
<1>1. /\ scene' = scene /\ outcome' = "editing"
      /\ envs' = << >> /\ edits' = Append(edits, [all |-> TRUE])
  BY DEF EnvClear, Call
<1>2. edits \in Seq(Edit)
  BY DEF BuilderInv, Typed
<1>3. Answers(envs', edits')
  BY <1>1, <1>2, ClearKeeps
<1>4. DOMAIN envs' = {}
  BY <1>1
<1>5. IsFiniteSet(DOMAIN envs')
  BY <1>4, FS_EmptySet
<1> QED
  BY <1>1, <1>3, <1>5, CallEnv

\* The other calls do not touch the environment.
LEMMA OtherEnv ==
  ASSUME EnvInv, Arg \/ GetArgvMut \/ Cwd \/ ClearCwd \/ SetControllingTty \/ Umask
  PROVE  EnvInv'
<1>1. scene' = scene /\ envs' = envs /\ edits' = edits /\ outcome' \in {"editing", "panic"}
  BY DEF Arg, GetArgvMut, Cwd, ClearCwd, SetControllingTty, Umask, Call
<1> QED
  BY <1>1, CallEnv DEF EnvInv

\* A block is computed from the builder's variables.
LEMMA SameBlock ==
  ASSUME envs' = envs
  PROVE  Block' = Block
BY DEF Block

\* What a step that settles the builder has to keep.
LEMMA SettledEnv ==
  ASSUME EnvInv, Settled, BlockIs', VarsAre'
  PROVE  EnvInv'
<1>1. Answers(envs, edits)'
  BY SameAnswers DEF EnvInv, Settled
<1> QED
  BY <1>1 DEF EnvInv, Settled

\* as_command.
LEMMA AsCommandEnv ==
  ASSUME EnvInv, AsCommand
  PROVE  EnvInv'
<1>1. ~Windows /\ Settled /\ outcome' \in {"error", "converted"}
  BY DEF AsCommand, Settled
<1>2. Windows' = Windows
  BY <1>1, OfScene DEF Settled
<1>3. BlockIs' /\ VarsAre'
  BY <1>1, <1>2 DEF BlockIs, VarsAre
<1> QED
  BY <1>1, <1>3, SettledEnv

\* cmdline and environment_block.
LEMMA CmdlineEnv ==
  ASSUME EnvInv, Cmdline
  PROVE  EnvInv'
<1>1. Windows /\ Settled /\ outcome' \in {"error", "converted", "panic"}
  BY DEF Cmdline, Settled
<1>2. Block' = Block
  BY <1>1, SameBlock DEF Settled
<1>3. outcome' = "converted" => command'.block = Block
  <2> SUFFICES ASSUME outcome' = "converted" PROVE command'.block = Block
    OBVIOUS
  <2> DEFINE made == [program |-> WindowsProgram.file, line |-> Joined(LineArgs),
                      dir |-> WindowsDir, block |-> Block]
  <2>1. command' = made
    BY DEF Cmdline
  <2>2. made.block = Block
    OBVIOUS
  <2> HIDE DEF made
  <2> QED
    BY <2>1, <2>2
<1>4. BlockIs' /\ VarsAre'
  BY <1>1, <1>2, <1>3 DEF BlockIs, VarsAre, Converted
<1> QED
  BY <1>1, <1>4, SettledEnv

\* A spawn on Unix.
LEMMA SpawnUnixEnv ==
  ASSUME EnvInv, SpawnUnix
  PROVE  EnvInv'
<1>1. /\ ~Windows /\ Settled /\ command' = command /\ outcome' \in {"running", "refused"}
  BY DEF SpawnUnix, Settled
<1>2. Windows' = Windows
  BY <1>1, OfScene DEF Settled
<1>3. outcome' = "running" => child'.env = UnixVars(command.env)
  <2> SUFFICES ASSUME outcome' = "running" PROVE child'.env = UnixVars(command.env)
    OBVIOUS
  <2> DEFINE new == [image |-> Image[1], dir |-> Named(Here.pwd, command.dir[1]),
                     argv |-> command.argv, env |-> UnixVars(command.env)]
  <2>1. child' = new
    BY DEF SpawnUnix, Image, UnixVars
  <2>2. new.env = UnixVars(command.env)
    OBVIOUS
  <2> HIDE DEF new
  <2> QED
    BY <2>1, <2>2
<1>4. UnixVars(command.env)' = UnixVars(command.env)
  BY <1>1 DEF UnixVars
<1>5. BlockIs' /\ VarsAre'
  BY <1>1, <1>2, <1>3, <1>4 DEF BlockIs, VarsAre
<1> QED
  BY <1>1, <1>5, SettledEnv

\* A spawn on Windows.
LEMMA CreateProcessEnv ==
  ASSUME EnvInv, CreateProcess
  PROVE  EnvInv'
<1>1. /\ Windows /\ Settled /\ command' = command /\ outcome = "converted"
      /\ outcome' \in {"running", "refused"}
  BY DEF CreateProcess, Settled
<1>2. Windows' = Windows /\ Block' = Block
  BY <1>1, OfScene, SameBlock DEF Settled
<1>3. outcome' = "running" => child'.env = BlockVars(command.block)
  <2> SUFFICES ASSUME outcome' = "running" PROVE child'.env = BlockVars(command.block)
    OBVIOUS
  <2> DEFINE new == [image |-> Named(Here.pwd, CString(command.program)),
                     dir |-> IF command.dir = <<>> THEN Here.pwd ELSE command.dir[1],
                     argv |-> Parsed(CString(command.line)),
                     env |-> BlockVars(command.block)]
  <2>1. child' = new
    BY DEF CreateProcess, BlockVars
  <2>2. new.env = BlockVars(command.block)
    OBVIOUS
  <2> HIDE DEF new
  <2> QED
    BY <2>1, <2>2
<1>4. BlockVars(command.block)' = BlockVars(command.block)
  BY <1>1 DEF BlockVars
<1>5. command.block = Block
  BY <1>1 DEF EnvInv, BlockIs, Converted
<1>6. BlockIs' /\ VarsAre'
  BY <1>1, <1>2, <1>3, <1>4, <1>5 DEF BlockIs, VarsAre
<1> QED
  BY <1>1, <1>6, SettledEnv

\* Every step keeps it.
LEMMA NextEnvInv ==
  ASSUME BuilderInv, EnvInv, [Next]_vars
  PROVE  EnvInv'
<1>1. CASE Arg \/ GetArgvMut \/ Cwd \/ ClearCwd \/ SetControllingTty \/ Umask
  BY <1>1, OtherEnv
<1>2. CASE Env
  BY <1>2, EnvEnv
<1>3. CASE EnvRemove
  BY <1>3, EnvRemoveEnv
<1>4. CASE EnvClear
  BY <1>4, EnvClearEnv
<1>5. CASE AsCommand
  BY <1>5, AsCommandEnv
<1>6. CASE SpawnUnix
  BY <1>6, SpawnUnixEnv
<1>7. CASE Cmdline
  BY <1>7, CmdlineEnv
<1>8. CASE CreateProcess
  BY <1>8, CreateProcessEnv
<1>9. CASE UNCHANGED vars
  <2>1. Settled /\ command' = command /\ outcome' = outcome /\ child' = child
    BY <1>9 DEF vars, Settled
  <2>2. Windows' = Windows /\ Block' = Block
    BY <2>1, OfScene, SameBlock DEF Settled
  <2>3. BlockIs'
    BY <2>1, <2>2 DEF EnvInv, BlockIs, Converted
  <2>4. UnixVars(command.env)' = UnixVars(command.env)
        /\ BlockVars(command.block)' = BlockVars(command.block)
    BY <2>1 DEF UnixVars, BlockVars
  <2>5. VarsAre'
    BY <2>1, <2>2, <2>4 DEF EnvInv, VarsAre
  <2> QED
    BY <2>1, <2>3, <2>5, SettledEnv
<1> QED
  BY <1>1, <1>2, <1>3, <1>4, <1>5, <1>6, <1>7, <1>8, <1>9 DEF Next

\* Both invariants hold in every reachable state.
THEOREM EnvInvariant == Spec => [](BuilderInv /\ EnvInv)
<1>1. Init => BuilderInv /\ EnvInv
  BY InitInv, InitEnvInv
<1>2. BuilderInv /\ EnvInv /\ [Next]_vars => (BuilderInv /\ EnvInv)'
  BY NextInv, NextEnvInv
<1> QED
  BY <1>1, <1>2, PTL DEF Spec

-----------------------------------------------------------------------------
(* The child's variables.                                                  *)

\* What a variable of the child answers.
SeenIn(shown, name) == {x.text: x \in {y \in shown: Same(y.name, name)}}

\* On Unix a child sees the builder's answers, and SHELL in any case.
LEMMA SeenOnUnix ==
  ASSUME ~Windows, NEW name
  PROVE  SeenIn(UnixVars(FinalEnv), name) =
           IF name = "SHELL" /\ Answer(envs, name) = {} THEN {ValueText(<<Shell>>)}
           ELSE {ValueText(value): value \in Answer(envs, name)}
<1> DEFINE shown == UnixVars(FinalEnv)
           T(n) == ValueText(FinalEnv[n])
<1>1. SeenIn(shown, name) = {T(n): n \in {k \in DOMAIN FinalEnv: k = name}}
  <2> DEFINE Var(n) == [name |-> n, text |-> T(n)]
             E == DOMAIN FinalEnv
  <2>1. \A n: Var(n).name = n /\ Var(n).text = T(n)
    OBVIOUS
  <2>2. shown = {Var(n): n \in E}
    BY DEF UnixVars
  <2>3. \A m, n: Same(m, n) <=> m = n
    BY DEF Same
  <2> HIDE DEF T, Var, E, shown
  <2>4. {y \in shown: Same(y.name, name)} = {Var(n): n \in {k \in E: k = name}}
    BY <2>1, <2>2, <2>3
  <2>5. SeenIn(shown, name) = {x.text: x \in {Var(n): n \in {k \in E: k = name}}}
    BY <2>4 DEF SeenIn
  <2>6. @ = {T(n): n \in {k \in E: k = name}}
    BY <2>1
  <2> QED
    BY <2>5, <2>6 DEF E
<1>2. /\ DOMAIN FinalEnv = {"SHELL"} \cup DOMAIN envs
      /\ \A n \in DOMAIN envs: FinalEnv[n] = envs[n].value
      /\ "SHELL" \notin DOMAIN envs => FinalEnv["SHELL"] = <<Shell>>
  BY DEF FinalEnv
<1>3. Answer(envs, name) = IF name \in DOMAIN envs THEN {envs[name].value} ELSE {}
  BY DEF Answer, Has, Value, MapKey
<1> HIDE DEF shown
<1>4. CASE name \in DOMAIN envs
  <2>1. SeenIn(shown, name) = {T(name)}
    BY <1>1, <1>2, <1>4
  <2>2. T(name) = ValueText(envs[name].value)
    BY <1>2, <1>4
  <2>3. Answer(envs, name) = {envs[name].value}
    BY <1>3, <1>4
  <2> QED
    BY <2>1, <2>2, <2>3 DEF shown
<1>5. CASE name \notin DOMAIN envs /\ name = "SHELL"
  <2>1. SeenIn(shown, name) = {T(name)}
    BY <1>1, <1>2, <1>5
  <2>2. T(name) = ValueText(<<Shell>>)
    BY <1>2, <1>5
  <2> QED
    BY <1>3, <1>5, <2>1, <2>2 DEF shown
<1>6. CASE name \notin DOMAIN envs /\ name # "SHELL"
  <2>1. SeenIn(shown, name) = {}
    BY <1>1, <1>2, <1>6
  <2> QED
    BY <1>3, <1>6, <2>1 DEF shown
<1> QED
  BY <1>4, <1>5, <1>6

\* On Windows it sees the answers, whatever their casing.
LEMMA SeenOnWindows ==
  ASSUME Keyed(envs), NulFree, IsFiniteSet(DOMAIN envs), NEW name
  PROVE  SeenIn(BlockVars(Block), name) = {ValueText(value): value \in Answer(envs, name)}
<1> DEFINE shown == BlockVars(Block)
           V(key) == ValueText(envs[key].value)
           K(key) == envs[key].key
<1>1. shown = {[name |-> K(key), text |-> V(key)]: key \in DOMAIN envs}
  <2>1. Texts(Block) = {EnvText(envs[key]): key \in DOMAIN envs}
    BY BlockReads
  <2>2. ASSUME NEW key \in DOMAIN envs
        PROVE  /\ Head(EnvText(envs[key])) = K(key)
               /\ SubSeq(EnvText(envs[key]), 3, Len(EnvText(envs[key]))) = V(key)
    <3>1. envs[key].key \in Names /\ envs[key].value \in Values /\ ~HasNul(envs[key].value)
      BY DEF Keyed, NulFree
    <3> QED
      BY <3>1, EnvTextType
  <2> DEFINE T(key) == EnvText(envs[key])
             Var(t) == [name |-> Head(t), text |-> SubSeq(t, 3, Len(t))]
  <2>3. \A key \in DOMAIN envs: Var(T(key)) = [name |-> K(key), text |-> V(key)]
    BY <2>2
  <2>4. shown = {Var(t): t \in Texts(Block)}
    BY DEF BlockVars
  <2>5. Texts(Block) = {T(key): key \in DOMAIN envs}
    BY <2>1
  <2> HIDE DEF T, Var, K, V, shown
  <2> QED
    BY <2>3, <2>4, <2>5
<1>2. SeenIn(shown, name) = {V(key): key \in {k \in DOMAIN envs: Same(K(k), name)}}
  <2>1. \A key: [name |-> K(key), text |-> V(key)].name = K(key)
                /\ [name |-> K(key), text |-> V(key)].text = V(key)
    OBVIOUS
  <2> HIDE DEF K, V, shown
  <2> QED
    BY <1>1, <2>1 DEF SeenIn
<1>3. \A key \in DOMAIN envs: Same(K(key), name) <=> key = MapKey(name)
  <2>1. ASSUME NEW key \in DOMAIN envs PROVE Same(K(key), name) <=> key = MapKey(name)
    <3>1. key = MapKey(K(key))
      BY DEF Keyed
    <3>2. Same(K(key), name) <=> MapKey(K(key)) = MapKey(name)
      BY SameKey
    <3> QED
      BY <3>1, <3>2
  <2> QED
    BY <2>1
<1> HIDE DEF shown
<1>4. CASE Has(envs, name)
  <2>1. SeenIn(shown, name) = {V(MapKey(name))}
    BY <1>2, <1>3, <1>4 DEF Has
  <2>2. Answer(envs, name) = {envs[MapKey(name)].value}
    BY <1>4 DEF Answer, Value
  <2> QED
    BY <2>1, <2>2 DEF shown
<1>5. CASE ~Has(envs, name)
  <2>1. SeenIn(shown, name) = {}
    BY <1>2, <1>3, <1>5 DEF Has
  <2>2. Answer(envs, name) = {}
    BY <1>5 DEF Answer
  <2> QED
    BY <2>1, <2>2 DEF shown
<1> QED
  BY <1>4, <1>5

\* The invariants say what a child sees.
LEMMA InvSees == BuilderInv /\ EnvInv => ChildSeesEnvironment
<1> SUFFICES ASSUME BuilderInv, EnvInv PROVE ChildSeesEnvironment
  OBVIOUS
<1>1. BuilderAnswers
  BY AnswersAre DEF EnvInv
<1>2. Keyed(envs) /\ IsFiniteSet(DOMAIN envs) /\ (child # Nothing => outcome = "running")
  BY DEF BuilderInv, Typed, ChildIs, EnvInv
<1>3. ASSUME NEW name \in Names, child # Nothing, NulFree
      PROVE  Seen(name) =
               IF ~Windows /\ name = "SHELL" /\ Expected(name) = {}
               THEN {ValueText(<<Shell>>)}
               ELSE {ValueText(value): value \in Expected(name)}
  <2>1. Expected(name) = Answer(envs, name)
    <3>1. ExpectedIn(edits, name) = Expected(name)
      BY DEF ExpectedIn, Expected, TouchingIn, Touching, Touches
    <3> QED
      BY <3>1 DEF EnvInv, Answers
  <2>2. Seen(name) = SeenIn(child.env, name)
    BY DEF Seen, SeenIn
  <2>3. CASE Windows
    <3>1. child.env = BlockVars(Block)
      BY <1>2, <1>3, <2>3 DEF EnvInv, VarsAre, BlockIs, Converted
    <3>2. SeenIn(BlockVars(Block), name) = {ValueText(value): value \in Answer(envs, name)}
      BY <1>2, <1>3, SeenOnWindows
    <3> QED
      BY <2>1, <2>2, <2>3, <3>1, <3>2
  <2>4. CASE ~Windows
    <3>1. child.env = UnixVars(FinalEnv)
      BY <1>2, <1>3, <2>4 DEF EnvInv, VarsAre, BuilderInv, UnixIs, Converted
    <3>2. SeenIn(UnixVars(FinalEnv), name) =
            IF name = "SHELL" /\ Answer(envs, name) = {} THEN {ValueText(<<Shell>>)}
            ELSE {ValueText(value): value \in Answer(envs, name)}
      BY <2>4, SeenOnUnix
    <3> QED
      BY <2>1, <2>2, <2>4, <3>1, <3>2
  <2> QED
    BY <2>3, <2>4
<1> QED
  BY <1>1, <1>3 DEF ChildSeesEnvironment

\* Every name answers, in the builder and in its child, with what the last
\* call on it said and else with the value of the base environment, whatever
\* the casing of the name (cmdbuilder.rs:74-189, 292-377, 521-530, 633-652).
THEOREM SeesEnvironment == Spec => []ChildSeesEnvironment
BY EnvInvariant, InvSees, PTL
=============================================================================
