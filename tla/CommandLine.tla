----------------------------- MODULE CommandLine -----------------------------
(***************************************************************************)
(* How an argument vector becomes the one command line that CreateProcessW *)
(* takes (src/src/cmdbuilder.rs:663-737), and how the C run-time library   *)
(* of the new program takes it apart again, which is the reference.        *)
(*                                                                         *)
(* Characters are "a" (any ordinary one), "space" (any white space),       *)
(* "quote", "slash" (the backslash) and "nul".                             *)
(***************************************************************************)
EXTENDS Naturals, SequencesExt

CONSTANT Chars  \* the characters there are

ASSUME CharsAssumption == {"space", "quote", "slash", "nul"} \subseteq Chars

Repeat(n, char) == [i \in 1..n |-> char]

-----------------------------------------------------------------------------
(* Quoting.                                                                *)

\* Bare when there is something and nothing that needs quotes.
IsBare(arg) == arg # <<>> /\ ToSet(arg) \cap {"space", "quote"} = {}

\* What append_quoted puts between the quotes, character by character: a run of
\* backslashes is doubled before a quote, which gets one more.
EscapeChar(e, char) ==
  IF char = "slash" THEN [e EXCEPT !.slashes = @ + 1]
  ELSE LET n == IF char = "quote" THEN 2 * e.slashes + 1 ELSE e.slashes
       IN [text |-> Append(e.text \o Repeat(n, "slash"), char), slashes |-> 0]

\* What it has after each of the characters, and the backslashes it holds back.
Escaping(arg) ==
  LET f[i \in 0..Len(arg)] ==
        IF i = 0 THEN [text |-> <<>>, slashes |-> 0] ELSE EscapeChar(f[i - 1], arg[i])
  IN f

\* Deviation: backslashes before the closing quote are not doubled.
Escaped_TailSingle(arg) ==
  LET e == Escaping(arg)[Len(arg)] IN e.text \o Repeat(e.slashes, "slash")

\* At the end of the argument they are doubled, as the closing quote follows.
Escaped(arg) ==
  LET e == Escaping(arg)[Len(arg)] IN e.text \o Repeat(2 * e.slashes, "slash")

\* CommandBuilder::append_quoted.
Quoted(arg) ==
  IF IsBare(arg) THEN arg ELSE <<"quote">> \o Escaped(arg) \o <<"quote">>

-----------------------------------------------------------------------------
(* CommandBuilder::cmdline.                                                *)

\* An argument with a NUL is refused. The program's name comes first, without
\* a look at its characters (cmdbuilder.rs:674, 683).
Refused(args) == \E i \in 2..Len(args): "nul" \in ToSet(args[i])

\* The arguments follow with a blank before each.
Follow(args) ==
  LET f[i \in 0..Len(args)] ==
        IF i = 0 THEN <<>> ELSE f[i - 1] \o (<<"space">> \o Quoted(args[i]))
  IN f

\* A terminator ends the line.
Joined(args) ==
  (Quoted(args[1]) \o Follow(Tail(args))[Len(args) - 1]) \o <<"nul">>

-----------------------------------------------------------------------------
(* How the started program reads its command line.                         *)

\* A C string ends at its first NUL.
CString(s) ==
  LET Nuls == {i \in DOMAIN s: s[i] = "nul"}
  IN IF Nuls = {} THEN s ELSE SubSeq(s, 1, Min(Nuls) - 1)

\* Two quotes in a row inside quotes would be one quote of data for newer
\* run-times; append_quoted never writes that, so the rule is left out.
\* The parser, character by character: the arguments it has, the one it is in,
\* whether it is in quotes, and the backslashes not yet accounted for.
Start == [argv |-> <<>>, arg |-> <<>>, inArg |-> FALSE, quoted |-> FALSE, slashes |-> 0]

\* Backslashes stand for themselves unless a quote follows.
Flush(p) == [p EXCEPT !.arg = @ \o Repeat(p.slashes, "slash"), !.slashes = 0]

\* An even number of backslashes is half as many and the quote is syntax; an
\* odd number is half as many and a quote that is data.
TakeQuote(p) ==
  LET half == [p EXCEPT !.arg = @ \o Repeat(p.slashes \div 2, "slash"),
                        !.slashes = 0, !.inArg = TRUE]
  IN IF p.slashes % 2 = 1 THEN [half EXCEPT !.arg = Append(@, "quote")]
     ELSE [half EXCEPT !.quoted = ~p.quoted]

EndArg(p) ==
  LET full == Flush(p)
  IN IF p.inArg THEN [Start EXCEPT !.argv = Append(full.argv, full.arg)] ELSE p

TakeChar(p, char) ==
  CASE char = "slash" -> [p EXCEPT !.slashes = @ + 1, !.inArg = TRUE]
    [] char = "quote" -> TakeQuote(p)
    [] char = "space" /\ ~p.quoted -> EndArg(p)
    [] OTHER -> [Flush(p) EXCEPT !.arg = Append(@, char), !.inArg = TRUE]

\* The program's own name is read without escapes: up to the next quote, or
\* up to white space.
ProgramEnd(s) ==
  LET stop == IF s[1] = "quote" THEN "quote" ELSE "space"
      from == IF s[1] = "quote" THEN 2 ELSE 1
  IN Min({i \in from..Len(s): s[i] = stop} \cup {Len(s) + 1})

ProgramName(s) ==
  SubSeq(s, IF s[1] = "quote" THEN 2 ELSE 1, ProgramEnd(s) - 1)

\* The states of the parser on its way through a text.
Steps(p, s) ==
  LET f[i \in 0..Len(s)] == IF i = 0 THEN p ELSE TakeChar(f[i - 1], s[i]) IN f

Run(p, s) == Steps(p, s)[Len(s)]

ParsedArguments(s) == EndArg(Run(Start, s)).argv

Parsed(s) ==
  <<ProgramName(s)>> \o ParsedArguments(SubSeq(s, ProgramEnd(s) + 1, Len(s)))

=============================================================================
