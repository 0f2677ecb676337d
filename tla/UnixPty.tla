------------------------------- MODULE UnixPty -------------------------------
(***************************************************************************)
(* What flows through a Unix pty: the writer and its end-of-file, the      *)
(* reader clones, and the closing of the ends                              *)
(* (src/src/unix.rs:74-108, 443-563, src/src/lib.rs:452-458).              *)
(*                                                                         *)
(* The kernel's line discipline is outside the repository. In canonical    *)
(* mode it collects characters into a line until a newline, or until the   *)
(* VEOF character, which ends the line without being part of it: an empty  *)
(* line read is end of file. In raw mode every character is data.          *)
(***************************************************************************)
EXTENDS Naturals, Sequences

CONSTANTS
  Readers,     \* the clones try_clone_reader may make
  Modes,       \* the terminal modes the child may set
  DupFails,    \* duplicating the master's descriptor may fail
  Room,        \* lines the slave's input queue holds
  MaxWritten,  \* characters written through the writer
  MaxOutput    \* pieces of output the child produces

ASSUME PtyAssumption ==
  /\ "cooked" \in Modes /\ Modes \subseteq {"cooked", "raw", "noeof"}
  /\ DupFails \in BOOLEAN
  /\ Room \in Nat \ {0}
  /\ MaxWritten \in Nat /\ MaxOutput \in Nat

VARIABLES
  master,     \* the MasterPty is open
  took,       \* UnixMasterPty.took_writer
  writer,     \* the UnixMasterWriter: where it is in its life
  readers,    \* each reader clone: "none", "open", "eof", "failed", "closed"
  slaves,     \* who has the slave end open: the parent, the child
  child,      \* "unborn", "running", "gone"
  mode,       \* "cooked", "raw", or "noeof": cooked with VEOF disabled
  altered,    \* history: the child has left the mode "cooked" at some time
  line,       \* characters of the line that is not complete
  ready,      \* complete lines the child may read
  hungUp,     \* the last master end was closed
  produced,   \* pieces of output the child has written ...
  unread,     \* ... and those no reader has read
  written,    \* the characters written through the writer
  received,   \* the characters the child has read
  eof         \* the child has read end of file

queueVars  == <<line, ready>>
parentVars == <<master, took, writer, readers>>
childVars  == <<child, mode, altered, produced, received, eof>>
vars == <<parentVars, slaves, queueVars, hungUp, unread, written, childVars>>

Dropping == {"newline", "eot", "closing"}

Init ==
  /\ master = TRUE /\ took = FALSE /\ writer = "none"
  /\ readers = [r \in Readers |-> "none"]
  /\ slaves = {"parent"} /\ child = "unborn" /\ mode = "cooked" /\ altered = FALSE
  /\ line = <<>> /\ ready = <<>> /\ hungUp = FALSE
  /\ produced = 0 /\ unread = 0
  /\ written = <<>> /\ received = <<>> /\ eof = FALSE

-----------------------------------------------------------------------------
(* The line discipline.                                                    *)

HasRoom == Len(ready) < Room

Input(char) ==
  IF mode = "raw" THEN ready' = Append(ready, <<char>>) /\ UNCHANGED line
  ELSE IF char = "nl" THEN ready' = Append(ready, Append(line, "nl")) /\ line' = <<>>
  ELSE IF char = "eot" /\ mode = "cooked" THEN ready' = Append(ready, line) /\ line' = <<>>
  ELSE line' = Append(line, char) /\ UNCHANGED ready

\* Ends of the master: the MasterPty, its clones and its writer.
MasterEnds(m, w, rs) ==
  m \/ w \in {"open"} \cup Dropping \/ \E r \in Readers: rs[r] \in {"open", "eof", "failed"}

\* Closing the last of them hangs up the slave, whose unread input is lost.
EndsClosed ==
  IF MasterEnds(master', writer', readers')
  THEN UNCHANGED <<queueVars, hungUp>>
  ELSE hungUp' = TRUE /\ line' = <<>> /\ ready' = <<>>

-----------------------------------------------------------------------------
(* The master's owner.                                                     *)

\* UnixMasterPty::try_clone_reader.
CloneReader(r) ==
  /\ master /\ readers[r] = "none"
  /\ readers' = [readers EXCEPT ![r] = "open"]
  /\ UNCHANGED <<master, took, writer, slaves, queueVars, hungUp,
                 unread, written, childVars>>

\* Deviation: the flag is never raised.
TakeWriter_Unflagged ==
  /\ master /\ ~took
  /\ writer' \in {"open"} \cup (IF DupFails THEN {"none"} ELSE {})
  /\ UNCHANGED <<master, took, readers, slaves, queueVars, hungUp, unread, written,
                 childVars>>

\* UnixMasterPty::take_writer raises its flag before it duplicates; a call
\* that finds it up is refused and changes nothing.
TakeWriter ==
  /\ master /\ ~took
  /\ took' = TRUE
  /\ writer' \in {"open"} \cup (IF DupFails THEN {"none"} ELSE {})
  /\ UNCHANGED <<master, readers, slaves, queueVars, hungUp, unread, written,
                 childVars>>

DropMaster ==
  /\ master /\ master' = FALSE
  /\ UNCHANGED <<took, writer, readers>>
  /\ EndsClosed
  /\ UNCHANGED <<slaves, unread, written, childVars>>

\* The parent drops its SlavePty.
DropSlave ==
  /\ "parent" \in slaves /\ slaves' = slaves \ {"parent"}
  /\ UNCHANGED <<parentVars, queueVars, hungUp, unread, written, childVars>>

Spawn ==
  /\ "parent" \in slaves /\ child = "unborn"
  /\ child' = "running" /\ slaves' = slaves \cup {"child"}
  /\ UNCHANGED <<parentVars, queueVars, hungUp, unread, written, mode, altered,
                 produced, received, eof>>

-----------------------------------------------------------------------------
(* Writing.                                                                *)

\* The kernel takes a character when there is room; without a slave end the
\* write fails, and the caller may give up.
Write(char) ==
  /\ writer = "open" /\ Len(written) < MaxWritten
  /\ slaves # {} /\ HasRoom
  /\ Input(char)
  /\ written' = Append(written, char)
  /\ UNCHANGED <<parentVars, slaves, hungUp, unread, childVars>>

\* <UnixMasterWriter as Drop>::drop asks for the VEOF character ...
DropWriter ==
  /\ writer = "open"
  /\ writer' = IF mode = "noeof" THEN "closing" ELSE "newline"
  /\ UNCHANGED <<master, took, readers, slaves, queueVars, hungUp,
                 unread, written, childVars>>

\* Part of the write_all: it fails without a slave end, and blocks without room.
Sends(char, next) ==
  /\ \/ slaves = {} /\ writer' = "closing" /\ UNCHANGED queueVars
     \/ slaves # {} /\ HasRoom /\ Input(char) /\ writer' = next
  /\ UNCHANGED <<master, took, readers, slaves, hungUp, unread,
                 written, childVars>>

\* Deviation: VEOF without the newline.
DropNewline_Omitted ==
  /\ writer = "newline" /\ writer' = "eot"
  /\ UNCHANGED <<master, took, readers, slaves, queueVars, hungUp,
                 unread, written, childVars>>

\* Deviation: VEOF before the newline.
DropNewline_Swapped == writer = "newline" /\ Sends("eot", "eot")

\* ... writes a newline, as VEOF means end of file only on an empty line, ...
DropNewline == writer = "newline" /\ Sends("nl", "eot")

\* Deviation: a write that fails is tried again.
DropEot_Retries ==
  /\ writer = "eot" /\ slaves # {}
  /\ Sends("eot", "closing")

\* ... and VEOF, in the same write_all, whose result is ignored.
DropEot == writer = "eot" /\ Sends("eot", "closing")

\* Then its descriptor is closed.
WriterCloses ==
  /\ writer = "closing" /\ writer' = "gone"
  /\ UNCHANGED <<master, took, readers>>
  /\ EndsClosed
  /\ UNCHANGED <<slaves, unread, written, childVars>>

-----------------------------------------------------------------------------
(* Reading.                                                                *)

ReadsData(r) ==
  /\ unread > 0 /\ unread' = unread - 1
  /\ UNCHANGED readers

\* Deviation: EIO is passed on as an error.
Read_Raises(r) ==
  /\ readers[r] = "open"
  /\ \/ ReadsData(r)
     \/ /\ unread = 0 /\ slaves = {}
        /\ readers' = [readers EXCEPT ![r] = "failed"] /\ UNCHANGED unread
  /\ UNCHANGED <<master, took, writer, slaves, queueVars, hungUp,
                 written, childVars>>

\* Deviation: no data counts as end of file.
Read_Short(r) ==
  /\ readers[r] = "open"
  /\ \/ ReadsData(r)
     \/ /\ unread = 0
        /\ readers' = [readers EXCEPT ![r] = "eof"] /\ UNCHANGED unread
  /\ UNCHANGED <<master, took, writer, slaves, queueVars, hungUp,
                 written, childVars>>

\* <PtyFd as Read>::read: the kernel answers EIO when everything is read and
\* no slave end is open; that becomes Ok(0).
Read(r) ==
  /\ readers[r] = "open"
  /\ \/ ReadsData(r)
     \/ /\ unread = 0 /\ slaves = {}
        /\ readers' = [readers EXCEPT ![r] = "eof"] /\ UNCHANGED unread
  /\ UNCHANGED <<master, took, writer, slaves, queueVars, hungUp,
                 written, childVars>>

DropReader(r) ==
  /\ readers[r] \in {"open", "eof"}
  /\ readers' = [readers EXCEPT ![r] = "closed"]
  /\ UNCHANGED <<master, took, writer>>
  /\ EndsClosed
  /\ UNCHANGED <<slaves, unread, written, childVars>>

-----------------------------------------------------------------------------
(* The child.                                                              *)

\* It reads a line, or end of file when it is empty or the pty hung up.
ChildReads ==
  /\ child = "running" /\ ~eof
  /\ \/ /\ ready # <<>> /\ ready' = Tail(ready)
        /\ received' = received \o Head(ready)
        /\ eof' = (Head(ready) = <<>>)
     \/ hungUp /\ eof' = TRUE /\ UNCHANGED <<ready, received>>
  /\ UNCHANGED <<parentVars, slaves, line, hungUp, unread, written, child, mode,
                 altered, produced>>

ChildWrites ==
  /\ child = "running" /\ ~hungUp /\ produced < MaxOutput
  /\ produced' = produced + 1 /\ unread' = unread + 1
  /\ UNCHANGED <<parentVars, slaves, queueVars, hungUp, written, child, mode,
                 altered, received, eof>>

\* tcsetattr; a line that is not complete becomes readable in raw mode.
SetMode(m) ==
  /\ child = "running" /\ m # mode /\ mode' = m /\ altered' = TRUE
  /\ IF m = "raw" /\ line # <<>>
     THEN ready' = Append(ready, line) /\ line' = <<>>
     ELSE UNCHANGED queueVars
  /\ UNCHANGED <<parentVars, slaves, hungUp, unread, written, child, produced,
                 received, eof>>

ChildExits ==
  /\ child = "running" /\ child' = "gone" /\ slaves' = slaves \ {"child"}
  /\ UNCHANGED <<parentVars, queueVars, hungUp, unread, written, mode, altered,
                 produced, received, eof>>

-----------------------------------------------------------------------------
Next ==
  \/ TakeWriter \/ DropMaster \/ DropSlave \/ Spawn
  \/ \E char \in {"a", "nl"}: Write(char)
  \/ DropWriter \/ DropNewline \/ DropEot \/ WriterCloses
  \/ \E r \in Readers: CloneReader(r) \/ Read(r) \/ DropReader(r)
  \/ ChildReads \/ ChildWrites \/ ChildExits
  \/ \E m \in Modes: SetMode(m)

Spec == Init /\ [][Next]_vars

\* A drop that has begun goes on, open readers read, and the program in the
\* pty reads its input; nobody is obliged to write, to drop or to exit.
FairSpec ==
  /\ Spec
  /\ WF_vars(DropNewline) /\ WF_vars(DropEot) /\ WF_vars(WriterCloses)
  /\ \A r \in Readers: WF_vars(Read(r))
  /\ WF_vars(ChildReads)

-----------------------------------------------------------------------------
(* Properties.                                                             *)

Chars == {"a", "nl", "eot"}

FlagTypeOK ==
  /\ master \in BOOLEAN /\ took \in BOOLEAN /\ altered \in BOOLEAN
  /\ hungUp \in BOOLEAN /\ eof \in BOOLEAN

EndsTypeOK ==
  /\ writer \in {"none", "open", "gone"} \cup Dropping
  /\ readers \in [Readers -> {"none", "open", "eof", "closed"}]
  /\ slaves \subseteq {"parent", "child"}
  /\ child \in {"unborn", "running", "gone"} /\ ("child" \in slaves <=> child = "running")
  /\ mode \in Modes
  /\ produced \in 0..MaxOutput /\ unread \in 0..produced

QueueTypeOK ==
  /\ line \in Seq(Chars) /\ ready \in Seq(Seq(Chars))
  /\ written \in Seq(Chars) /\ received \in Seq(Chars)

\* Types of the variables; the writer exists only after it was taken.
TypeOK ==
  /\ FlagTypeOK /\ EndsTypeOK /\ QueueTypeOK
  /\ writer # "none" => took

\* The kernel's queue never overflows: a line is only begun when there is room
\* for it, so that a change of mode finds room as well; in raw mode there is none.
RoomInv ==
  /\ Len(ready) <= Room
  /\ line # <<>> => Len(ready) < Room /\ mode # "raw"

\* "Dropping the writer will send EOF to the slave end" (lib.rs:456): a
\* program that reads gets end of file, also after an unfinished line. One that
\* left canonical mode reads the newline and the VEOF character as data.
EofReachesSlave == writer = "gone" ~> eof \/ child # "running" \/ altered

\* The program reads everything that was written before it reads end of file,
\* unless the whole pty is gone (unix.rs:546-550) or it changed its mode.
EofComesLast ==
  eof /\ ~hungUp /\ ~altered =>
    writer \in {"closing", "gone"} /\ received = Append(written, "nl")

\* Dropping the writer does not block for ever on a program that reads or that
\* is gone; it may if the parent itself keeps the slave open (unix.rs:540-554).
DropReturns == writer \in Dropping ~> writer = "gone" \/ slaves = {"parent"}

\* "functions gracefully terminate when they encounter this condition"
\* (unix.rs:102-105): when no slave end is left, every reader ends.
ReadersEnd ==
  \A r \in Readers:
    readers[r] = "open" /\ slaves = {} ~> readers[r] \in {"eof", "closed"}

\* A reader that ended has left no output behind (unix.rs:96-106).
ReadersDrain == \A r \in Readers: readers[r] = "eof" => unread = 0 /\ slaves = {}

-----------------------------------------------------------------------------
(* What EofComesLast rests on: in canonical mode nothing that was typed is  *)
(* lost, doubled or reordered on its way through the queue.                 *)

\* The typed characters s are the ones read, then the lines of the queue one
\* after the other, then the unfinished line; cut[i] is where line i ends.
Spans(cut, s, read, lines, last) ==
  /\ cut[0] = Len(read) /\ Len(s) = cut[Len(lines)] + Len(last)
  /\ \A i \in 1..Len(lines): cut[i] = cut[i - 1] + Len(lines[i])

Spells(cut, s, read, lines, last) ==
  /\ \A k \in 1..Len(read): read[k] = s[k]
  /\ \A i \in 1..Len(lines): \A k \in 1..Len(lines[i]): lines[i][k] = s[cut[i - 1] + k]
  /\ \A k \in 1..Len(last): last[k] = s[cut[Len(lines)] + k]

InOrder(s, read, lines, last) ==
  \E cut \in [0..Len(lines) -> 0..Len(s)]:
    Spans(cut, s, read, lines, last) /\ Spells(cut, s, read, lines, last)

\* The drop may have added its newline to what was written.
Typed == {written, Append(written, "nl")}

\* A line is empty only if it is the end of file of the drop, the last thing
\* that was typed.
EndsOnce(s) ==
  /\ \A i \in 1..Len(ready): ready[i] = <<>> => i = Len(ready)
  /\ eof => ready = <<>>
  /\ eof \/ (\E i \in 1..Len(ready): ready[i] = <<>>) =>
       writer \in {"closing", "gone"} /\ s = Append(written, "nl") /\ line = <<>>

\* The characters s are on their way to the child.
Carries(s) ==
  /\ InOrder(s, received, ready, line) /\ EndsOnce(s)
  /\ writer \in {"none", "open", "newline"} => s = written
  /\ writer = "eot" => s = Append(written, "nl") /\ line = <<>>

StreamInv ==
  ~altered => mode = "cooked" /\ (~hungUp => \E s \in Typed: Carries(s))

\* The inductive invariant.
IInv == TypeOK /\ RoomInv /\ ReadersDrain /\ StreamInv
=============================================================================
