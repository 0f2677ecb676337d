---------------------------- MODULE UnixPtyProofs ----------------------------
(***************************************************************************)
(* What holds of UnixPty for any number of readers, any set of modes and   *)
(* every bound. What happens eventually is left to TLC.                    *)
(***************************************************************************)
EXTENDS UnixPty, TLAPS

USE PtyAssumption

-----------------------------------------------------------------------------
(* Flags.                                                                  *)

LEMMA EndsClosedFlag ==
  ASSUME FlagTypeOK, EndsClosed
  PROVE  (hungUp \in BOOLEAN)'
BY DEF EndsClosed, FlagTypeOK, queueVars

LEMMA FlagTypes ==
  ASSUME FlagTypeOK, [Next]_vars
  PROVE  FlagTypeOK'
<1>1. CASE TakeWriter \/ DropWriter \/ DropNewline \/ DropEot \/ Spawn \/ DropSlave
  BY <1>1 DEF TakeWriter, DropWriter, DropNewline, DropEot, Sends, Spawn, DropSlave,
    FlagTypeOK, parentVars, childVars
<1>2. CASE DropMaster \/ WriterCloses
  BY <1>2, EndsClosedFlag DEF DropMaster, WriterCloses, FlagTypeOK, childVars
<1>3. CASE \E r \in Readers: CloneReader(r) \/ Read(r) \/ DropReader(r)
  BY <1>3, EndsClosedFlag DEF CloneReader, Read, DropReader, FlagTypeOK, childVars
<1>4. CASE \E char \in {"a", "nl"}: Write(char)
  BY <1>4 DEF Write, FlagTypeOK, parentVars, childVars
<1>5. CASE ChildReads
  <2>1. eof' \in BOOLEAN
    BY <1>5 DEF ChildReads
  <2> QED
    BY <1>5, <2>1 DEF ChildReads, FlagTypeOK, parentVars
<1>6. CASE ChildWrites \/ ChildExits \/ (\E m \in Modes: SetMode(m))
  BY <1>6 DEF ChildWrites, ChildExits, SetMode, FlagTypeOK, parentVars
<1>7. CASE UNCHANGED vars
  BY <1>7 DEF vars, parentVars, childVars, FlagTypeOK
<1> QED
  BY <1>1, <1>2, <1>3, <1>4, <1>5, <1>6, <1>7 DEF Next

-----------------------------------------------------------------------------
(* The ends, and what readers may know of them.                            *)

Ends == EndsTypeOK /\ ReadersDrain /\ (writer # "none" => took)

\* A reader that ended stays true to its word: no slave end comes back and no
\* output is added.
LEMMA EndsKeep ==
  ASSUME Ends, [Next]_vars
  PROVE  Ends'
<1> USE DEF Ends, EndsTypeOK, ReadersDrain, Dropping, parentVars, childVars, queueVars
<1>1. CASE TakeWriter
  BY <1>1 DEF TakeWriter
<1>2. CASE DropMaster
  BY <1>2 DEF DropMaster
<1>3. CASE DropSlave
  BY <1>3 DEF DropSlave
<1>4. CASE Spawn
  BY <1>4 DEF Spawn
<1>5. CASE \E char \in {"a", "nl"}: Write(char)
  BY <1>5 DEF Write
<1>6. CASE DropWriter
  BY <1>6 DEF DropWriter
<1>7. CASE DropNewline \/ DropEot
  BY <1>7 DEF DropNewline, DropEot, Sends
<1>8. CASE WriterCloses
  BY <1>8 DEF WriterCloses
<1>9. ASSUME NEW r \in Readers, CloneReader(r) PROVE Ends'
  BY <1>9 DEF CloneReader
<1>10. ASSUME NEW r \in Readers, Read(r) PROVE Ends'
  BY <1>10 DEF Read, ReadsData
<1>11. ASSUME NEW r \in Readers, DropReader(r) PROVE Ends'
  BY <1>11 DEF DropReader
<1>12. CASE ChildReads
  BY <1>12 DEF ChildReads
<1>13. CASE ChildWrites
  BY <1>13 DEF ChildWrites
<1>14. CASE ChildExits
  BY <1>14 DEF ChildExits
<1>15. CASE \E m \in Modes: SetMode(m)
  BY <1>15 DEF SetMode
<1>16. CASE UNCHANGED vars
  BY <1>16 DEF vars
<1> QED
  BY <1>1, <1>2, <1>3, <1>4, <1>5, <1>6, <1>7, <1>8, <1>9, <1>10, <1>11, <1>12,
    <1>13, <1>14, <1>15, <1>16 DEF Next

-----------------------------------------------------------------------------
(* The queue.                                                              *)

Queue == QueueTypeOK /\ RoomInv

\* The kernel takes one more character only with room for its line.
LEMMA InputKeeps ==
  ASSUME Queue, HasRoom, NEW char \in Chars, Input(char)
  PROVE  /\ line' \in Seq(Chars) /\ ready' \in Seq(Seq(Chars))
         /\ mode' = mode => RoomInv'
<1> USE DEF Queue, QueueTypeOK, RoomInv, HasRoom
<1>1. /\ Append(line, char) \in Seq(Chars)
      /\ <<char>> \in Seq(Chars) /\ <<>> \in Seq(Chars)
  OBVIOUS
<1>2. ASSUME NEW l \in Seq(Chars)
      PROVE  Append(ready, l) \in Seq(Seq(Chars)) /\ Len(Append(ready, l)) = Len(ready) + 1
  BY <1>2
<1>3. CASE mode = "raw"
  <2>1. line = <<>> /\ line' = line /\ ready' = Append(ready, <<char>>)
    BY <1>3 DEF Input
  <2> QED
    BY <1>1, <1>2, <2>1
<1>4. CASE ready' = Append(ready, Append(line, "nl")) /\ line' = <<>> /\ char = "nl"
  BY <1>1, <1>2, <1>4
<1>5. CASE ready' = Append(ready, line) /\ line' = <<>>
  BY <1>1, <1>2, <1>5
<1>6. CASE line' = Append(line, char) /\ ready' = ready /\ mode # "raw"
  BY <1>1, <1>6
<1> QED
  BY <1>3, <1>4, <1>5, <1>6 DEF Input

\* Closing an end leaves the queue alone or empties it.
LEMMA EndsClosedKeeps ==
  ASSUME Queue, EndsClosed, mode' = mode, written' = written, received' = received
  PROVE  Queue'
<1>1. CASE UNCHANGED queueVars
  BY <1>1 DEF Queue, QueueTypeOK, RoomInv, queueVars
<1>2. CASE line' = <<>> /\ ready' = <<>>
  <2>1. Len(ready') = 0 /\ line' \in Seq(Chars) /\ ready' \in Seq(Seq(Chars))
    BY <1>2
  <2> QED
    BY <1>2, <2>1 DEF Queue, QueueTypeOK, RoomInv
<1> QED
  BY <1>1, <1>2 DEF EndsClosed, queueVars

LEMMA SendsKeep ==
  ASSUME Queue, NEW char \in Chars, NEW next, Sends(char, next)
  PROVE  Queue'
<1>1. mode' = mode /\ written' = written /\ received' = received
  BY DEF Sends, childVars
<1>2. CASE UNCHANGED queueVars
  BY <1>1, <1>2 DEF Queue, QueueTypeOK, RoomInv, queueVars
<1>3. CASE HasRoom /\ Input(char)
  BY <1>1, <1>3, InputKeeps DEF Queue, QueueTypeOK
<1> QED
  BY <1>2, <1>3 DEF Sends

LEMMA QueueKeeps ==
  ASSUME Queue, [Next]_vars
  PROVE  Queue'
<1>1. CASE TakeWriter \/ DropSlave \/ Spawn \/ DropWriter \/ ChildWrites \/ ChildExits
           \/ (\E r \in Readers: CloneReader(r) \/ Read(r)) \/ UNCHANGED vars
  <2>1. UNCHANGED <<line, ready, written, received, mode>>
    BY <1>1 DEF TakeWriter, DropSlave, Spawn, DropWriter, ChildWrites, ChildExits,
      CloneReader, Read, vars, queueVars, childVars
  <2> QED
    BY <2>1 DEF Queue, QueueTypeOK, RoomInv
<1>2. CASE DropMaster \/ WriterCloses \/ (\E r \in Readers: DropReader(r))
  BY <1>2, EndsClosedKeeps DEF DropMaster, WriterCloses, DropReader, childVars
<1>3. ASSUME NEW char \in {"a", "nl"}, Write(char) PROVE Queue'
  <2>1. HasRoom /\ Input(char) /\ char \in Chars
    BY <1>3 DEF Write, Chars
  <2>2. mode' = mode /\ received' = received /\ written' \in Seq(Chars)
    BY <1>3, <2>1 DEF Write, childVars, Queue, QueueTypeOK
  <2> QED
    BY <2>1, <2>2, InputKeeps DEF Queue, QueueTypeOK
<1>4. CASE DropNewline \/ DropEot
  BY <1>4, SendsKeep DEF DropNewline, DropEot, Chars
<1>5. CASE ChildReads
  <2>1. UNCHANGED <<line, written, mode>>
    BY <1>5 DEF ChildReads
  <2>2. CASE ready # <<>> /\ ready' = Tail(ready) /\ received' = received \o Head(ready)
    <3>1. Head(ready) \in Seq(Chars) /\ ready' \in Seq(Seq(Chars))
          /\ Len(ready') = Len(ready) - 1
      BY <2>2 DEF Queue, QueueTypeOK
    <3> QED
      BY <2>1, <2>2, <3>1 DEF Queue, QueueTypeOK, RoomInv
  <2>3. CASE UNCHANGED <<ready, received>>
    BY <2>1, <2>3 DEF Queue, QueueTypeOK, RoomInv
  <2> QED
    BY <1>5, <2>2, <2>3 DEF ChildReads
<1>6. ASSUME NEW m \in Modes, SetMode(m) PROVE Queue'
  <2>1. UNCHANGED <<written, received>> /\ mode' = m
    BY <1>6 DEF SetMode
  <2>2. CASE m = "raw" /\ line # <<>>
    <3>1. ready' = Append(ready, line) /\ line' = <<>>
      BY <1>6, <2>2 DEF SetMode
    <3>2. ready' \in Seq(Seq(Chars)) /\ Len(ready') = Len(ready) + 1
      BY <3>1 DEF Queue, QueueTypeOK
    <3> QED
      BY <2>1, <2>2, <3>1, <3>2 DEF Queue, QueueTypeOK, RoomInv
  <2>3. CASE ~(m = "raw" /\ line # <<>>)
    <3>1. UNCHANGED queueVars
      BY <1>6, <2>3 DEF SetMode
    <3> QED
      BY <2>1, <2>3, <3>1 DEF Queue, QueueTypeOK, RoomInv, queueVars
  <2> QED
    BY <2>2, <2>3
<1> QED
  BY <1>1, <1>2, <1>3, <1>4, <1>5, <1>6 DEF Next

-----------------------------------------------------------------------------
(* Where the lines of the stream are cut, as it moves through the queue.   *)

\* Where the cuts are.
LEMMA CutTypes ==
  ASSUME NEW s \in Seq(Chars), NEW read \in Seq(Chars), NEW lines \in Seq(Seq(Chars)),
         NEW last \in Seq(Chars), NEW cut \in [0..Len(lines) -> 0..Len(s)],
         Spans(cut, s, read, lines, last)
  PROVE  /\ Len(s) \in Nat /\ Len(lines) \in Nat /\ Len(last) \in Nat
         /\ cut[0] \in Nat /\ cut[0] = Len(read) /\ cut[0] <= Len(s)
         /\ cut[Len(lines)] \in Nat /\ Len(s) = cut[Len(lines)] + Len(last)
         /\ \A i \in 1..Len(lines):
              /\ cut[i] \in Nat /\ cut[i - 1] \in Nat /\ Len(lines[i]) \in Nat
              /\ cut[i] = cut[i - 1] + Len(lines[i]) /\ cut[i] <= Len(s)
<1>1. Len(s) \in Nat
  OBVIOUS
<1>2. Len(lines) \in Nat
  OBVIOUS
<1>3. Len(last) \in Nat
  OBVIOUS
<1>4. \A i \in 0..Len(lines): cut[i] \in 0..Len(s)
  OBVIOUS
<1>5. cut[0] \in 0..Len(s)
  BY <1>2, <1>4
<1>6. cut[Len(lines)] \in 0..Len(s)
  BY <1>2, <1>4
<1>7. ASSUME NEW i \in 1..Len(lines)
      PROVE  /\ cut[i] \in 0..Len(s) /\ cut[i - 1] \in 0..Len(s)
             /\ cut[i] = cut[i - 1] + Len(lines[i])
  <2>1. i \in 0..Len(lines) /\ i - 1 \in 0..Len(lines)
    BY <1>2
  <2>2. cut[i] \in 0..Len(s) /\ cut[i - 1] \in 0..Len(s)
    BY <1>4, <2>1
  <2>3. cut[i] = cut[i - 1] + Len(lines[i])
    BY DEF Spans
  <2> QED
    BY <2>2, <2>3
<1>8. \A i \in 1..Len(lines): Len(lines[i]) \in Nat
  OBVIOUS
<1>9. cut[0] = Len(read) /\ Len(s) = cut[Len(lines)] + Len(last)
  BY DEF Spans
<1>10. \A i \in 1..Len(lines):
         /\ cut[i] \in Nat /\ cut[i - 1] \in Nat /\ Len(lines[i]) \in Nat
         /\ cut[i] = cut[i - 1] + Len(lines[i]) /\ cut[i] <= Len(s)
  BY <1>1, <1>7, <1>8
<1> QED
  BY <1>1, <1>2, <1>3, <1>5, <1>6, <1>9, <1>10

Longer(t, s) == \A k \in 1..Len(s): t[k] = s[k]

\* The positions up to the cuts stay what they are when s gets longer.
LEMMA LongerSpells ==
  ASSUME NEW s \in Seq(Chars), NEW read \in Seq(Chars), NEW lines \in Seq(Seq(Chars)),
         NEW last \in Seq(Chars), NEW cut \in [0..Len(lines) -> 0..Len(s)],
         Spans(cut, s, read, lines, last), Spells(cut, s, read, lines, last),
         NEW t, Longer(t, s)
  PROVE  Spells(cut, t, read, lines, last)
<1>1. ASSUME NEW k \in 1..Len(read) PROVE read[k] = t[k]
  <2>1. Len(s) \in Nat /\ cut[0] \in Nat /\ cut[0] = Len(read) /\ cut[0] <= Len(s)
    BY CutTypes
  <2>2. k \in 1..Len(s)
    BY <2>1
  <2> QED
    BY <2>2 DEF Spells, Longer
<1>2. ASSUME NEW k \in 1..Len(last) PROVE last[k] = t[cut[Len(lines)] + k]
  <2>1. /\ Len(s) \in Nat /\ cut[Len(lines)] \in Nat /\ Len(last) \in Nat
        /\ Len(s) = cut[Len(lines)] + Len(last)
    BY CutTypes
  <2>2. cut[Len(lines)] + k \in 1..Len(s)
    BY <2>1
  <2> QED
    BY <2>2 DEF Spells, Longer
<1>3. ASSUME NEW i \in 1..Len(lines), NEW k \in 1..Len(lines[i])
      PROVE  lines[i][k] = t[cut[i - 1] + k]
  <2>1. /\ Len(s) \in Nat /\ cut[i] \in Nat /\ cut[i - 1] \in Nat /\ Len(lines[i]) \in Nat
        /\ cut[i] = cut[i - 1] + Len(lines[i]) /\ cut[i] <= Len(s)
    BY CutTypes
  <2>2. k \in Nat /\ 1 <= k /\ k <= Len(lines[i])
    BY <2>1
  <2> DEFINE m == Len(lines[i])
             a == cut[i - 1]
             b == cut[i]
  <2>3. a \in Nat /\ b = a + m /\ b <= Len(s) /\ m \in Nat /\ k <= m
    BY <2>1, <2>2
  <2> HIDE DEF m, a, b
  <2>4. a + k \in 1..Len(s)
    BY <2>1, <2>2, <2>3
  <2> QED
    BY <2>4 DEF Spells, Longer, a
<1> QED
  BY <1>1, <1>2, <1>3 DEF Spells

\* A character that ends no line.
LEMMA OrderAfterChar ==
  ASSUME NEW s \in Seq(Chars), NEW read \in Seq(Chars), NEW lines \in Seq(Seq(Chars)),
         NEW last \in Seq(Chars), NEW c \in Chars, InOrder(s, read, lines, last)
  PROVE  InOrder(Append(s, c), read, lines, Append(last, c))
<1>1. PICK cut \in [0..Len(lines) -> 0..Len(s)]:
        Spans(cut, s, read, lines, last) /\ Spells(cut, s, read, lines, last)
  BY DEF InOrder
<1> DEFINE t == Append(s, c)
           longer == Append(last, c)
<1>2. /\ Len(t) = Len(s) + 1 /\ t[Len(s) + 1] = c /\ Longer(t, s)
  BY DEF Longer
<1>3. /\ Len(longer) = Len(last) + 1 /\ longer[Len(last) + 1] = c
      /\ \A k \in 1..Len(last): longer[k] = last[k]
  OBVIOUS
<1> HIDE DEF t, longer
<1>4. Spells(cut, t, read, lines, last)
  BY <1>1, <1>2, LongerSpells
<1>5. Len(s) \in Nat /\ Len(lines) \in Nat /\ Len(last) \in Nat
  OBVIOUS
<1>6. Len(s) = cut[Len(lines)] + Len(last) /\ cut[Len(lines)] \in Nat
  <2>1. Spans(cut, s, read, lines, last)
    BY <1>1
  <2>2. Len(s) = cut[Len(lines)] + Len(last)
    BY <2>1 DEF Spans
  <2>3. cut[Len(lines)] \in Nat
    BY <2>1, CutTypes
  <2> QED
    BY <2>2, <2>3
<1>7. cut \in [0..Len(lines) -> 0..Len(t)]
  <2>1. 0..Len(s) \subseteq 0..Len(t)
    BY <1>2, <1>5
  <2> QED
    BY <2>1
<1>8. ASSUME NEW k \in 1..Len(longer)
      PROVE  longer[k] = t[cut[Len(lines)] + k]
  <2>1. CASE k = Len(last) + 1
    <3>1. cut[Len(lines)] + k = Len(s) + 1
      BY <1>5, <1>6, <2>1
    <3> QED
      BY <1>2, <1>3, <2>1, <3>1
  <2>2. CASE k \in 1..Len(last)
    BY <1>4, <1>3, <2>2 DEF Spells
  <2> QED
    BY <1>5, <1>3, <2>1, <2>2
<1>9. Len(t) = cut[Len(lines)] + Len(longer)
  BY <1>2, <1>3, <1>5, <1>6
<1>10. Spans(cut, t, read, lines, longer)
  BY <1>1, <1>9 DEF Spans
<1>11. Spells(cut, t, read, lines, longer)
  BY <1>4, <1>8 DEF Spells
<1> QED
  BY <1>7, <1>10, <1>11 DEF InOrder, t, longer

\* The unfinished line becomes the last one of the queue.
LEMMA OrderAfterEnd ==
  ASSUME NEW s \in Seq(Chars), NEW read \in Seq(Chars), NEW lines \in Seq(Seq(Chars)),
         NEW last \in Seq(Chars), InOrder(s, read, lines, last)
  PROVE  InOrder(s, read, Append(lines, last), <<>>)
<1>1. PICK cut \in [0..Len(lines) -> 0..Len(s)]:
        Spans(cut, s, read, lines, last) /\ Spells(cut, s, read, lines, last)
  BY DEF InOrder
<1> DEFINE n == Len(lines)
           more == Append(lines, last)
           ends == [i \in 0..(n + 1) |-> IF i = n + 1 THEN Len(s) ELSE cut[i]]
<1>2. Len(more) = n + 1 /\ more[n + 1] = last /\ \A i \in 1..n: more[i] = lines[i]
  OBVIOUS
<1>3. Len(s) \in Nat /\ n \in Nat /\ Len(last) \in Nat
  OBVIOUS
<1>4. \A i \in 0..n: cut[i] \in 0..Len(s)
  OBVIOUS
<1>5. /\ cut[0] = Len(read) /\ Len(s) = cut[n] + Len(last)
      /\ \A i \in 1..n: cut[i] = cut[i - 1] + Len(lines[i])
  BY <1>1 DEF Spans
<1>6. /\ \A k \in 1..Len(read): read[k] = s[k]
      /\ \A i \in 1..n: \A k \in 1..Len(lines[i]): lines[i][k] = s[cut[i - 1] + k]
      /\ \A k \in 1..Len(last): last[k] = s[cut[n] + k]
  BY <1>1 DEF Spells
<1> HIDE DEF n, more
<1>7. ends[n + 1] = Len(s) /\ \A i \in 0..n: ends[i] = cut[i]
  BY <1>3
<1>8. ends \in [0..Len(more) -> 0..Len(s)]
  <2>1. ASSUME NEW i \in 0..(n + 1) PROVE ends[i] \in 0..Len(s)
    <3>1. CASE i = n + 1
      BY <1>3, <1>7, <3>1
    <3>2. CASE i \in 0..n
      BY <1>4, <1>7, <3>2
    <3> QED
      BY <1>3, <2>1, <3>1, <3>2
  <2> QED
    BY <1>2, <2>1
<1> HIDE DEF ends
<1>9. ASSUME NEW i \in 1..Len(more)
      PROVE  /\ ends[i] = ends[i - 1] + Len(more[i])
             /\ \A k \in 1..Len(more[i]): more[i][k] = s[ends[i - 1] + k]
  <2>1. CASE i \in 1..n
    <3>1. ends[i] = cut[i] /\ ends[i - 1] = cut[i - 1] /\ more[i] = lines[i]
      BY <1>2, <1>3, <1>7, <2>1
    <3>2. cut[i] = cut[i - 1] + Len(lines[i])
      BY <1>5, <2>1
    <3>3. \A k \in 1..Len(lines[i]): lines[i][k] = s[cut[i - 1] + k]
      BY <1>6, <2>1
    <3> QED
      BY <3>1, <3>2, <3>3
  <2>2. CASE i = n + 1
    <3>1. n \in 0..n /\ i - 1 = n
      BY <1>3, <2>2
    <3>2. ends[i] = Len(s) /\ ends[i - 1] = cut[n] /\ more[i] = last
      BY <1>2, <1>7, <2>2, <3>1
    <3> QED
      BY <1>5, <1>6, <2>2, <3>2
  <2>3. i \in 1..n \/ i = n + 1
    BY <1>2, <1>3
  <2> QED
    BY <2>1, <2>2, <2>3
<1>10. Len(<<>>) = 0 /\ ends[0] = Len(read) /\ ends[Len(more)] = Len(s)
  BY <1>2, <1>3, <1>5, <1>7
<1>11. Spans(ends, s, read, more, <<>>)
  BY <1>3, <1>9, <1>10 DEF Spans
<1>12. Spells(ends, s, read, more, <<>>)
  BY <1>6, <1>9, <1>10 DEF Spells
<1> QED
  BY <1>8, <1>11, <1>12 DEF InOrder, more

\* The child reads the first line of the queue.
LEMMA OrderAfterRead ==
  ASSUME NEW s \in Seq(Chars), NEW read \in Seq(Chars), NEW lines \in Seq(Seq(Chars)),
         NEW last \in Seq(Chars), InOrder(s, read, lines, last), lines # <<>>
  PROVE  InOrder(s, read \o Head(lines), Tail(lines), last)
<1>1. PICK cut \in [0..Len(lines) -> 0..Len(s)]:
        Spans(cut, s, read, lines, last) /\ Spells(cut, s, read, lines, last)
  BY DEF InOrder
<1> DEFINE n == Len(lines)
           first == lines[1]
           rest == Tail(lines)
           more == read \o first
           ends == [i \in 0..(n - 1) |-> cut[i + 1]]
<1>2. Len(s) \in Nat /\ n \in Nat /\ n >= 1 /\ Len(last) \in Nat /\ Len(read) \in Nat
  OBVIOUS
<1>3. first \in Seq(Chars) /\ Len(first) \in Nat
  <2>1. first \in Seq(Chars)
    BY <1>2
  <2> HIDE DEF first
  <2> QED
    BY <2>1
<1>4. Len(rest) = n - 1 /\ \A i \in 1..(n - 1): rest[i] = lines[i + 1]
  BY <1>2
<1>5. /\ cut[0] = Len(read) /\ Len(s) = cut[n] + Len(last)
      /\ \A i \in 1..n: cut[i] = cut[i - 1] + Len(lines[i])
  BY <1>1 DEF Spans
<1>6. /\ \A k \in 1..Len(read): read[k] = s[k]
      /\ \A i \in 1..n: \A k \in 1..Len(lines[i]): lines[i][k] = s[cut[i - 1] + k]
      /\ \A k \in 1..Len(last): last[k] = s[cut[n] + k]
  BY <1>1 DEF Spells
<1>7. \A i \in 0..n: cut[i] \in 0..Len(s)
  OBVIOUS
<1>8. /\ Len(more) = Len(read) + Len(first)
      /\ \A k \in 1..Len(more):
           more[k] = IF k <= Len(read) THEN read[k] ELSE first[k - Len(read)]
  <2>1. first \in Seq(Chars)
    BY <1>3
  <2> HIDE DEF first
  <2> QED
    BY <2>1
<1>9. \A i \in 0..(n - 1): ends[i] = cut[i + 1]
  OBVIOUS
<1>10. ends \in [0..Len(rest) -> 0..Len(s)]
  <2>1. ASSUME NEW i \in 0..(n - 1) PROVE cut[i + 1] \in 0..Len(s)
    BY <1>2, <1>7
  <2> QED
    BY <1>4, <2>1
<1>11. cut[1] = Len(read) + Len(first)
  BY <1>2, <1>5
<1>12. \A k \in 1..Len(first): first[k] = s[Len(read) + k]
  <2>1. 1 \in 1..n /\ 1 - 1 = 0
    BY <1>2
  <2>2. \A k \in 1..Len(lines[1]): lines[1][k] = s[cut[0] + k]
    BY <1>6, <2>1
  <2> QED
    BY <1>5, <2>2
<1>13. Head(lines) = first
  OBVIOUS
<1> HIDE DEF n, first, rest, more, ends
<1>14. ends[0] = Len(more) /\ Len(s) = ends[Len(rest)] + Len(last) /\ ends[Len(rest)] = cut[n]
  BY <1>2, <1>4, <1>5, <1>8, <1>9, <1>11
<1>15. ASSUME NEW i \in 1..Len(rest)
       PROVE  /\ ends[i] = ends[i - 1] + Len(rest[i])
              /\ \A k \in 1..Len(rest[i]): rest[i][k] = s[ends[i - 1] + k]
  <2>1. i + 1 \in 1..n /\ i \in 0..(n - 1) /\ i - 1 \in 0..(n - 1) /\ i \in 1..(n - 1)
        /\ (i + 1) - 1 = i /\ (i - 1) + 1 = i
    BY <1>2, <1>4
  <2>2. ends[i] = cut[i + 1] /\ ends[i - 1] = cut[i] /\ rest[i] = lines[i + 1]
    BY <1>4, <1>9, <2>1
  <2>3. cut[i + 1] = cut[i] + Len(lines[i + 1])
    BY <1>5, <2>1
  <2>4. \A k \in 1..Len(lines[i + 1]): lines[i + 1][k] = s[cut[i] + k]
    BY <1>6, <2>1
  <2> QED
    BY <2>2, <2>3, <2>4
<1>16. ASSUME NEW k \in 1..Len(more) PROVE more[k] = s[k]
  <2>1. CASE k <= Len(read)
    <3>1. k \in 1..Len(read)
      BY <1>2, <1>3, <1>8, <2>1
    <3> QED
      BY <1>6, <1>8, <2>1, <3>1
  <2>2. CASE ~(k <= Len(read))
    <3>1. k - Len(read) \in 1..Len(first) /\ Len(read) + (k - Len(read)) = k
      BY <1>2, <1>3, <1>8, <2>2
    <3>2. more[k] = first[k - Len(read)]
      BY <1>8, <2>2
    <3>3. first[k - Len(read)] = s[Len(read) + (k - Len(read))]
      BY <1>12, <3>1
    <3> QED
      BY <3>1, <3>2, <3>3
  <2> QED
    BY <2>1, <2>2
<1>17. Spans(ends, s, more, rest, last)
  BY <1>14, <1>15 DEF Spans
<1>18. Spells(ends, s, more, rest, last)
  BY <1>6, <1>14, <1>15, <1>16 DEF Spells
<1> QED
  BY <1>10, <1>13, <1>17, <1>18 DEF InOrder, more, rest

\* With an empty queue, everything typed has been read.
LEMMA OrderWhenEmpty ==
  ASSUME NEW s \in Seq(Chars), NEW read \in Seq(Chars), InOrder(s, read, <<>>, <<>>)
  PROVE  read = s
<1>1. PICK cut \in [0..Len(<<>>) -> 0..Len(s)]:
        Spans(cut, s, read, <<>>, <<>>) /\ Spells(cut, s, read, <<>>, <<>>)
  BY DEF InOrder
<1>2. Len(<<>>) = 0 /\ Len(s) \in Nat /\ Len(read) \in Nat
  OBVIOUS
<1>3. cut[0] \in Nat
  BY <1>2
<1>4. Len(s) = cut[0] + Len(<<>>) /\ cut[0] = Len(read)
  BY <1>1, <1>2 DEF Spans
<1>5. Len(s) = Len(read)
  BY <1>2, <1>3, <1>4
<1>6. \A k \in 1..Len(read): read[k] = s[k]
  BY <1>1 DEF Spells
<1> QED
  BY <1>5, <1>6

\* At the start nothing is typed and nothing is read.
LEMMA OrderAtFirst == InOrder(<<>>, <<>>, <<>>, <<>>)
<1> DEFINE cut == [i \in 0..0 |-> 0]
<1>1. Len(<<>>) = 0 /\ cut[0] = 0
  OBVIOUS
<1>2. cut \in [0..Len(<<>>) -> 0..Len(<<>>)]
  BY <1>1
<1> HIDE DEF cut
<1>3. Spans(cut, <<>>, <<>>, <<>>, <<>>) /\ Spells(cut, <<>>, <<>>, <<>>, <<>>)
  BY <1>1 DEF Spans, Spells
<1> QED
  BY <1>2, <1>3 DEF InOrder

-----------------------------------------------------------------------------
(* The stream through the queue.                                           *)

\* No line of the queue is empty.
NoEnd == ~eof /\ \A i \in 1..Len(ready): ready[i] # <<>>

LEMMA NotYetEnded ==
  ASSUME NEW s, Carries(s), writer \in {"none", "open", "newline", "eot"}
  PROVE  NoEnd
BY DEF Carries, EndsOnce, NoEnd

\* A complete line is put into the queue.
LEMMA EndsOnceAfterLine ==
  ASSUME QueueTypeOK, NoEnd, NEW full \in Seq(Chars), full # <<>>, NEW t,
         ready' = Append(ready, full), eof' = eof
  PROVE  EndsOnce(t)' /\ NoEnd'
<1>1. Len(ready) \in Nat
  BY DEF QueueTypeOK
<1>2. /\ Len(ready') = Len(ready) + 1 /\ ready'[Len(ready) + 1] = full
      /\ \A i \in 1..Len(ready): ready'[i] = ready[i]
  BY DEF QueueTypeOK
<1>3. ASSUME NEW i \in 1..Len(ready') PROVE ready'[i] # <<>>
  <2>1. i = Len(ready) + 1 \/ i \in 1..Len(ready)
    BY <1>1, <1>2
  <2> QED
    BY <1>2, <2>1 DEF NoEnd
<1> QED
  BY <1>3 DEF EndsOnce, NoEnd

LEMMA EndsOnceWithout ==
  ASSUME NoEnd, NEW t, ready' = ready, eof' = eof
  PROVE  EndsOnce(t)' /\ NoEnd'
BY DEF EndsOnce, NoEnd

\* A character typed before the end: a letter, or the newline.
LEMMA TypedOne ==
  ASSUME QueueTypeOK, NoEnd, mode = "cooked", NEW s \in Seq(Chars),
         InOrder(s, received, ready, line),
         NEW char \in {"a", "nl"}, Input(char), received' = received, eof' = eof
  PROVE  /\ InOrder(Append(s, char), received, ready, line)'
         /\ EndsOnce(Append(s, char))' /\ NoEnd'
         /\ char = "nl" => line' = <<>>
<1> DEFINE t == Append(s, char)
           full == Append(line, char)
<1>1. char \in Chars
  BY DEF Chars
<1>2. full \in Seq(Chars) /\ full # <<>> /\ t \in Seq(Chars)
  <2>1. line \in Seq(Chars)
    BY DEF QueueTypeOK
  <2>2. full \in Seq(Chars) /\ full # <<>>
    BY <1>1, <2>1
  <2>3. t \in Seq(Chars)
    BY <1>1
  <2> QED
    BY <2>2, <2>3
<1>3. InOrder(t, received, ready, full)
  BY <1>1, OrderAfterChar DEF QueueTypeOK
<1> HIDE DEF t, full
<1>4. CASE char = "nl"
  <2>1. ready' = Append(ready, full) /\ line' = <<>>
    BY <1>4 DEF Input, full
  <2>2. InOrder(t, received, Append(ready, full), <<>>)
    BY <1>2, <1>3, OrderAfterEnd DEF QueueTypeOK
  <2>3. EndsOnce(t)' /\ NoEnd'
    BY <1>2, <2>1, EndsOnceAfterLine
  <2> QED
    BY <2>1, <2>2, <2>3 DEF t
<1>5. CASE char = "a"
  <2>1. ready' = ready /\ line' = full
    BY <1>5 DEF Input, full
  <2>2. EndsOnce(t)' /\ NoEnd'
    BY <2>1, EndsOnceWithout
  <2> QED
    BY <1>3, <1>5, <2>1, <2>2 DEF t
<1> QED
  BY <1>4, <1>5

\* The VEOF character of the drop.
LEMMA TypedEof ==
  ASSUME QueueTypeOK, NoEnd, mode = "cooked", NEW s \in Seq(Chars),
         InOrder(s, received, ready, line), line = <<>>, s = Append(written, "nl"),
         Input("eot"), UNCHANGED <<received, eof, written>>, writer' = "closing"
  PROVE  Carries(s)'
<1>1. ready' = Append(ready, <<>>) /\ line' = <<>>
  BY DEF Input
<1>2. InOrder(s, received, ready, <<>>)
  OBVIOUS
<1>3. InOrder(s, received, Append(ready, <<>>), <<>>)
  <2>1. <<>> \in Seq(Chars)
    OBVIOUS
  <2> QED
    BY <1>2, <2>1, OrderAfterEnd DEF QueueTypeOK
<1>4. Len(ready) \in Nat
  BY DEF QueueTypeOK
<1>5. /\ Len(ready') = Len(ready) + 1
      /\ \A i \in 1..Len(ready): ready'[i] = ready[i]
  BY <1>1 DEF QueueTypeOK
<1>6. ASSUME NEW i \in 1..Len(ready'), ready'[i] = <<>> PROVE i = Len(ready')
  <2>1. i = Len(ready) + 1 \/ i \in 1..Len(ready)
    BY <1>4, <1>5
  <2> QED
    BY <1>5, <1>6, <2>1 DEF NoEnd
<1>7. EndsOnce(s)'
  BY <1>1, <1>6 DEF EndsOnce, NoEnd
<1> QED
  BY <1>1, <1>3, <1>7 DEF Carries

LEMMA EmptyLines ==
  ASSUME NEW lines \in Seq(Seq(Chars)), Len(lines) = 0
  PROVE  lines = <<>>
OBVIOUS

\* The child reads a line.
LEMMA CarriesRead ==
  ASSUME QueueTypeOK, ~eof, NEW s \in Seq(Chars), Carries(s), ready # <<>>,
         ready' = Tail(ready), received' = received \o Head(ready),
         eof' = (Head(ready) = <<>>), UNCHANGED <<line, written, writer>>
  PROVE  Carries(s)'
<1>1. InOrder(s, received, ready, line)'
  BY OrderAfterRead DEF QueueTypeOK, Carries
<1>2. Len(ready) \in Nat /\ Len(ready) >= 1 /\ Head(ready) = ready[1]
  BY DEF QueueTypeOK
<1>3. Len(ready') = Len(ready) - 1 /\ \A i \in 1..(Len(ready) - 1): ready'[i] = ready[i + 1]
  BY DEF QueueTypeOK
<1>4. \A i \in 1..Len(ready): ready[i] = <<>> => i = Len(ready)
  BY DEF Carries, EndsOnce
<1>5. ASSUME NEW i \in 1..Len(ready'), ready'[i] = <<>>
      PROVE  i = Len(ready') /\ \E j \in 1..Len(ready): ready[j] = <<>>
  <2>1. i \in 1..(Len(ready) - 1) /\ i + 1 \in 1..Len(ready)
    BY <1>2, <1>3
  <2>2. ready[i + 1] = <<>>
    BY <1>3, <1>5, <2>1
  <2>3. i + 1 = Len(ready)
    BY <1>4, <2>1, <2>2
  <2>4. i = Len(ready) - 1
    BY <2>1, <2>3
  <2>5. i = Len(ready')
    BY <1>3, <2>4
  <2> QED
    BY <2>1, <2>2, <2>5
<1>6. ASSUME eof' PROVE ready' = <<>> /\ \E j \in 1..Len(ready): ready[j] = <<>>
  <2>1. Head(ready) = <<>>
    BY <1>6, Zenon
  <2>2. 1 \in 1..Len(ready)
    BY <1>2
  <2>3. ready[1] = <<>>
    BY <1>2, <2>1
  <2>4. Len(ready) = 1
    BY <1>4, <2>2, <2>3
  <2>5. Len(ready') = 0 /\ ready' \in Seq(Seq(Chars))
    BY <1>3, <2>4 DEF QueueTypeOK
  <2>6. ready' = <<>>
    BY <2>5, EmptyLines
  <2> QED
    BY <2>2, <2>3, <2>6
<1>7. (\E j \in 1..Len(ready): ready[j] = <<>>) =>
        writer \in {"closing", "gone"} /\ s = Append(written, "nl") /\ line = <<>>
  BY DEF Carries, EndsOnce
<1>8. EndsOnce(s)'
  BY <1>5, <1>6, <1>7 DEF EndsOnce
<1> QED
  BY <1>1, <1>8 DEF Carries

\* Steps that touch neither the queue nor the writer.
LEMMA StreamUntouched ==
  ASSUME StreamInv, UNCHANGED <<line, ready, received, written, eof, mode, altered>>,
         hungUp' = hungUp \/ hungUp',
         \/ writer' = writer
         \/ writer = "none" /\ writer' = "open"
         \/ writer = "open" /\ writer' = "newline"
         \/ writer = "newline" /\ writer' = "closing"
         \/ writer = "eot" /\ writer' = "closing"
         \/ writer = "closing" /\ writer' = "gone"
  PROVE  StreamInv'
<1> SUFFICES ASSUME ~altered, ~hungUp', mode = "cooked" PROVE \E s \in Typed': Carries(s)'
  BY DEF StreamInv
<1>1. PICK s \in Typed: Carries(s)
  BY DEF StreamInv
<1>2. s \in Typed'
  BY <1>1 DEF Typed
<1>3. InOrder(s, received, ready, line)'
  BY <1>1 DEF Carries
<1>4. EndsOnce(s)'
  BY <1>1 DEF Carries, EndsOnce
<1>5. /\ writer' \in {"none", "open", "newline"} => s = written
      /\ writer' = "eot" => s = Append(written, "nl") /\ line = <<>>
  BY <1>1 DEF Carries
<1> QED
  BY <1>2, <1>3, <1>4, <1>5 DEF Carries

\* Closing an end leaves the queue as it is, or loses it and hangs up.
LEMMA StreamEndsClosed ==
  ASSUME StreamInv, EndsClosed, UNCHANGED <<received, written, eof, mode, altered>>,
         writer' = writer \/ (writer = "closing" /\ writer' = "gone")
  PROVE  StreamInv'
<1>1. CASE UNCHANGED <<queueVars, hungUp>>
  BY <1>1, StreamUntouched DEF queueVars
<1>2. CASE hungUp'
  BY <1>2 DEF StreamInv
<1> QED
  BY <1>1, <1>2 DEF EndsClosed

\* The writer's characters.
LEMMA StreamWrite ==
  ASSUME QueueTypeOK, StreamInv, NEW char \in {"a", "nl"}, Write(char)
  PROVE  StreamInv'
<1>1. /\ Input(char) /\ written' = Append(written, char)
      /\ writer = "open" /\ UNCHANGED <<writer, hungUp, mode, altered, received, eof>>
  BY DEF Write, parentVars, childVars
<1> SUFFICES ASSUME ~altered, ~hungUp, mode = "cooked" PROVE \E s \in Typed': Carries(s)'
  BY <1>1 DEF StreamInv
<1>2. PICK s \in Typed: Carries(s)
  BY DEF StreamInv
<1>3. NoEnd /\ s = written /\ s \in Seq(Chars) /\ InOrder(s, received, ready, line)
  <2>1. NoEnd
    BY <1>1, <1>2, NotYetEnded
  <2> QED
    BY <1>1, <1>2, <2>1 DEF Carries, QueueTypeOK
<1> DEFINE t == Append(s, char)
<1>4. InOrder(t, received, ready, line)' /\ EndsOnce(t)'
  BY <1>1, <1>3, TypedOne
<1>5. t = written'
  BY <1>1, <1>3
<1> HIDE DEF t
<1>6. Carries(t)'
  BY <1>1, <1>4, <1>5 DEF Carries
<1> QED
  BY <1>5, <1>6 DEF Typed

\* The drop's newline.
LEMMA StreamNewline ==
  ASSUME QueueTypeOK, StreamInv, DropNewline
  PROVE  StreamInv'
<1>1. writer = "newline" /\ UNCHANGED <<hungUp, mode, altered, received, eof, written>>
  BY DEF DropNewline, Sends, childVars
<1>2. CASE writer' = "closing" /\ UNCHANGED queueVars
  BY <1>1, <1>2, StreamUntouched DEF queueVars
<1>3. CASE Input("nl") /\ writer' = "eot"
  <2> SUFFICES ASSUME ~altered, ~hungUp, mode = "cooked" PROVE \E s \in Typed': Carries(s)'
    BY <1>1 DEF StreamInv
  <2>1. PICK s \in Typed: Carries(s)
    BY DEF StreamInv
  <2>2. NoEnd /\ s = written /\ s \in Seq(Chars) /\ InOrder(s, received, ready, line)
    <3>1. NoEnd
      BY <1>1, <2>1, NotYetEnded
    <3> QED
      BY <1>1, <2>1, <3>1 DEF Carries, QueueTypeOK
  <2> DEFINE t == Append(s, "nl")
  <2>3. /\ InOrder(t, received, ready, line)' /\ EndsOnce(t)'
        /\ line' = <<>>
    BY <1>1, <1>3, <2>2, TypedOne
  <2>4. t = Append(written, "nl")'
    BY <1>1, <2>2
  <2> HIDE DEF t
  <2>5. Carries(t)'
    BY <1>3, <2>3, <2>4 DEF Carries
  <2> QED
    BY <2>4, <2>5 DEF Typed
<1> QED
  BY <1>2, <1>3 DEF DropNewline, Sends

\* The drop's VEOF.
LEMMA StreamEot ==
  ASSUME QueueTypeOK, StreamInv, DropEot
  PROVE  StreamInv'
<1>1. /\ writer = "eot" /\ writer' = "closing"
      /\ UNCHANGED <<hungUp, mode, altered, received, eof, written>>
  BY DEF DropEot, Sends, childVars
<1>2. CASE UNCHANGED queueVars
  BY <1>1, <1>2, StreamUntouched DEF queueVars
<1>3. CASE Input("eot")
  <2> SUFFICES ASSUME ~altered, ~hungUp, mode = "cooked" PROVE \E s \in Typed': Carries(s)'
    BY <1>1 DEF StreamInv
  <2>1. PICK s \in Typed: Carries(s)
    BY DEF StreamInv
  <2>2. NoEnd
    BY <1>1, <2>1, NotYetEnded
  <2>3. /\ s = Append(written, "nl") /\ line = <<>> /\ InOrder(s, received, ready, line)
    BY <1>1, <2>1 DEF Carries
  <2>4. s \in Seq(Chars)
    BY <2>3 DEF QueueTypeOK, Chars
  <2>5. Carries(s)'
    BY <1>1, <1>3, <2>2, <2>3, <2>4, TypedEof
  <2>6. s \in Typed'
    BY <1>1, <2>3 DEF Typed
  <2> QED
    BY <2>5, <2>6
<1> QED
  BY <1>2, <1>3 DEF DropEot, Sends

LEMMA StreamRead ==
  ASSUME QueueTypeOK, StreamInv, ChildReads
  PROVE  StreamInv'
<1>1. ~eof /\ UNCHANGED <<line, written, writer, hungUp, mode, altered>>
  BY DEF ChildReads, parentVars
<1>2. CASE hungUp
  BY <1>1, <1>2 DEF StreamInv
<1>3. CASE ~hungUp
  <2> SUFFICES ASSUME ~altered, mode = "cooked" PROVE \E s \in Typed': Carries(s)'
    BY <1>1 DEF StreamInv
  <2>1. PICK s \in Typed: Carries(s)
    BY <1>3 DEF StreamInv
  <2>2. s \in Seq(Chars)
    <3>1. written \in Seq(Chars) /\ "nl" \in Chars
      BY DEF QueueTypeOK, Chars
    <3>2. Append(written, "nl") \in Seq(Chars)
      BY <3>1
    <3> QED
      BY <2>1, <3>1, <3>2 DEF Typed
  <2>3. /\ ready # <<>> /\ ready' = Tail(ready) /\ received' = received \o Head(ready)
        /\ eof' = (Head(ready) = <<>>)
    BY <1>3 DEF ChildReads
  <2>4. Carries(s)'
    BY <1>1, <2>1, <2>2, <2>3, CarriesRead
  <2>5. s \in Typed'
    BY <1>1, <2>1 DEF Typed
  <2> QED
    BY <2>4, <2>5
<1> QED
  BY <1>2, <1>3

\* In canonical mode nothing typed is lost, doubled or reordered.
LEMMA StreamKeeps ==
  ASSUME QueueTypeOK, writer # "none" => took, StreamInv, [Next]_vars
  PROVE  StreamInv'
<1> USE DEF parentVars, childVars, queueVars
<1>1. CASE TakeWriter
  <2>1. writer' = writer \/ (writer = "none" /\ writer' = "open")
    BY <1>1 DEF TakeWriter
  <2>2. UNCHANGED <<line, ready, received, written, eof, mode, altered, hungUp>>
    BY <1>1 DEF TakeWriter
  <2> QED
    BY <2>1, <2>2, StreamUntouched
<1>2. CASE DropMaster
  BY <1>2, StreamEndsClosed DEF DropMaster
<1>3. CASE DropSlave
  BY <1>3, StreamUntouched DEF DropSlave
<1>4. CASE Spawn
  BY <1>4, StreamUntouched DEF Spawn
<1>5. CASE \E char \in {"a", "nl"}: Write(char)
  BY <1>5, StreamWrite
<1>6. CASE DropWriter
  <2>1. UNCHANGED <<line, ready, received, written, eof, mode, altered, hungUp>>
    BY <1>6 DEF DropWriter
  <2>2. CASE mode = "noeof"
    BY <2>1, <2>2 DEF StreamInv
  <2>3. CASE mode # "noeof"
    <3>1. writer = "open" /\ writer' = "newline"
      BY <1>6, <2>3 DEF DropWriter
    <3> QED
      BY <2>1, <3>1, StreamUntouched
  <2> QED
    BY <2>2, <2>3
<1>7. CASE DropNewline
  BY <1>7, StreamNewline
<1>8. CASE DropEot
  BY <1>8, StreamEot
<1>9. CASE WriterCloses
  BY <1>9, StreamEndsClosed DEF WriterCloses
<1>10. ASSUME NEW r \in Readers, CloneReader(r) PROVE StreamInv'
  BY <1>10, StreamUntouched DEF CloneReader
<1>11. ASSUME NEW r \in Readers, Read(r) PROVE StreamInv'
  BY <1>11, StreamUntouched DEF Read
<1>12. ASSUME NEW r \in Readers, DropReader(r) PROVE StreamInv'
  BY <1>12, StreamEndsClosed DEF DropReader
<1>13. CASE ChildReads
  BY <1>13, StreamRead
<1>14. CASE ChildWrites
  BY <1>14, StreamUntouched DEF ChildWrites
<1>15. CASE ChildExits
  BY <1>15, StreamUntouched DEF ChildExits
<1>16. CASE \E m \in Modes: SetMode(m)
  BY <1>16 DEF SetMode, StreamInv
<1>17. CASE UNCHANGED vars
  BY <1>17, StreamUntouched DEF vars
<1> QED
  BY <1>1, <1>2, <1>3, <1>4, <1>5, <1>6, <1>7, <1>8, <1>9, <1>10, <1>11, <1>12,
    <1>13, <1>14, <1>15, <1>16, <1>17 DEF Next

LEMMA InitStream == Init => StreamInv
<1> SUFFICES ASSUME Init PROVE StreamInv
  OBVIOUS
<1>1. Carries(<<>>)
  <2>1. Len(<<>>) = 0
    OBVIOUS
  <2>2. EndsOnce(<<>>)
    BY <2>1 DEF Init, EndsOnce
  <2> QED
    BY <2>2, OrderAtFirst DEF Init, Carries
<1>2. <<>> \in Typed /\ mode = "cooked"
  BY DEF Init, Typed
<1> QED
  BY <1>1, <1>2 DEF StreamInv

LEMMA EofComesLastFollows == QueueTypeOK /\ StreamInv => EofComesLast
<1> SUFFICES ASSUME QueueTypeOK, StreamInv, eof, ~hungUp, ~altered
             PROVE  writer \in {"closing", "gone"} /\ received = Append(written, "nl")
  BY DEF EofComesLast
<1>1. PICK s \in Typed: Carries(s)
  BY DEF StreamInv
<1>2. ready = <<>> /\ line = <<>> /\ writer \in {"closing", "gone"} /\ s = Append(written, "nl")
  BY <1>1 DEF Carries, EndsOnce
<1>3. s \in Seq(Chars) /\ received \in Seq(Chars)
  BY <1>2 DEF QueueTypeOK, Chars
<1>4. received = s
  BY <1>1, <1>2, <1>3, OrderWhenEmpty DEF Carries
<1> QED
  BY <1>2, <1>4

-----------------------------------------------------------------------------
(* The theorems.                                                           *)

LEMMA InitInvariant == Init => IInv
<1> SUFFICES ASSUME Init PROVE IInv
  OBVIOUS
<1>1. FlagTypeOK
  BY Zenon DEF Init, FlagTypeOK
<1>2. EndsTypeOK /\ QueueTypeOK
  BY DEF Init, EndsTypeOK, QueueTypeOK, Dropping
<1>3. RoomInv /\ ReadersDrain /\ (writer # "none" => took)
  BY DEF Init, RoomInv, ReadersDrain
<1>4. StreamInv
  BY InitStream
<1> QED
  BY <1>1, <1>2, <1>3, <1>4 DEF IInv, TypeOK

\* Every variable keeps its type, the writer is handed out once, the kernel's
\* queue never overflows, and a reader that ended has missed nothing.
THEOREM PtyInvariant == Spec => []IInv
<1>1. ASSUME IInv, [Next]_vars PROVE IInv'
  <2>1. FlagTypeOK'
    BY <1>1, FlagTypes DEF IInv, TypeOK
  <2>2. Ends'
    BY <1>1, EndsKeep DEF IInv, TypeOK, Ends
  <2>3. Queue'
    BY <1>1, QueueKeeps DEF IInv, TypeOK, Queue
  <2>4. StreamInv'
    BY <1>1, StreamKeeps DEF IInv, TypeOK
  <2> QED
    BY <2>1, <2>2, <2>3, <2>4 DEF IInv, TypeOK, Queue, Ends
<1> QED
  BY <1>1, InitInvariant, PTL DEF Spec

\* EIO becomes end of file only when no slave end is left and all output has
\* been read, so that no clone ends early (unix.rs:96-106).
THEOREM EndOfFileIsTrue == Spec => []ReadersDrain
<1>1. IInv => ReadersDrain
  BY DEF IInv
<1> QED
  BY <1>1, PtyInvariant, PTL

\* Dropping the writer is an end of file, and the last thing the program reads:
\* before it come all the characters that were written, once and in order, and
\* the newline of the drop (lib.rs:456, unix.rs:540-557).
THEOREM EofIsLast == Spec => []EofComesLast
<1>1. IInv => EofComesLast
  BY EofComesLastFollows DEF IInv, TypeOK
<1> QED
  BY <1>1, PtyInvariant, PTL
=============================================================================
