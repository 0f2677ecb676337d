------------------------------ MODULE SerialTty ------------------------------
(***************************************************************************)
(* A serial port behind the pty traits (src/src/serial.rs). There is no    *)
(* process: the "child" is a poll of the port's carrier detect line.       *)
(*                                                                         *)
(* All ends share one open port by Arc, readers by a duplicate of its      *)
(* descriptor. The device may be unplugged, plugged in again, and may send *)
(* and change its carrier at any time; an open port never recovers from    *)
(* the unplugging.                                                         *)
(***************************************************************************)
EXTENDS Naturals, FiniteSets

CONSTANTS
  Platforms,   \* the platforms considered, among "unix" and "windows"
  Children,    \* handles that spawn_command may return
  Readers      \* threads that read

ASSUME SerialAssumption ==
  /\ Platforms \subseteq {"unix", "windows"}
  /\ "master" \notin Children \cup Readers /\ "slave" \notin Children \cup Readers
  /\ "writer" \notin Children \cup Readers /\ "free" \notin Children \cup Readers
  /\ Children \cap Readers = {}

VARIABLES
  platform,
  plugged,   \* the device is there
  gone,      \* the open port has lost its device
  modem,     \* the device has a carrier detect line that can be read
  mute,      \* Windows: reads of a lost device return nothing instead of an error
  carrier,   \* the line's value
  data,      \* the device sent something that nobody has read
  holders,   \* who keeps the port open
  timeouts,  \* set_read_timeout was done
  taken,     \* Master.took_writer
  child,     \* where a SerialChild is
  reader,    \* where a reader is
  writer,    \* where the writing thread is
  lock       \* Windows: who uses the port; reads and writes take turns

device == <<platform, plugged, gone, modem, mute, carrier>>
vars == <<platform, plugged, gone, modem, mute, carrier, data, holders, timeouts,
          taken, child, reader, writer, lock>>

Windows == platform = "windows"

Init ==
  /\ platform \in Platforms
  /\ plugged = TRUE /\ gone = FALSE
  /\ modem \in BOOLEAN /\ mute \in BOOLEAN
  /\ mute => Windows
  /\ carrier = TRUE /\ data = FALSE
  /\ holders = {} /\ timeouts = FALSE /\ taken = FALSE
  /\ child = [c \in Children |-> "none"]
  /\ reader = [r \in Readers |-> "none"]
  /\ writer = "none" /\ lock = "free"

-----------------------------------------------------------------------------
(* The pty system and the master.                                          *)

\* Deviation: no read timeout is set.
Openpty_Untimed ==
  /\ holders = {} /\ plugged
  /\ holders' = {"master", "slave"}
  /\ timeouts' = FALSE
  /\ gone' = FALSE /\ data' = FALSE /\ taken' = FALSE
  /\ UNCHANGED <<platform, plugged, modem, mute, carrier, child, reader, writer, lock>>

\* The port is opened, configured and given its timeouts; a failure of any of
\* these closes it again. A port that is open cannot be opened.
Openpty ==
  /\ holders = {} /\ plugged
  /\ holders' = {"master", "slave"}
  /\ timeouts' = TRUE
  /\ gone' = FALSE /\ data' = FALSE /\ taken' = FALSE
  /\ UNCHANGED <<platform, plugged, modem, mute, carrier, child, reader, writer, lock>>

\* try_clone_reader.
CloneReader(r) ==
  /\ "master" \in holders /\ reader[r] = "none"
  /\ reader' = [reader EXCEPT ![r] = "idle"]
  /\ holders' = holders \cup {r}
  /\ UNCHANGED <<device, data, timeouts, taken, child, writer, lock>>

\* take_writer answers a second call with an error.
TakeWriter ==
  /\ "master" \in holders /\ ~taken
  /\ taken' = TRUE
  /\ holders' = holders \cup {"writer"} /\ writer' = "idle"
  /\ UNCHANGED <<device, data, timeouts, child, reader, lock>>

\* spawn_command takes the default program only; spawn_contained_command
\* takes none.
SpawnCommand(c) ==
  /\ "slave" \in holders /\ child[c] = "none"
  /\ child' = [child EXCEPT ![c] = "idle"]
  /\ holders' = holders \cup {c}
  /\ UNCHANGED <<device, data, timeouts, taken, reader, writer, lock>>

\* The ends are dropped one by one, the last one closes the port.
DropEnd(end) ==
  /\ end \in holders \cap {"master", "slave"}
  /\ holders' = holders \ {end}
  /\ UNCHANGED <<device, data, timeouts, taken, child, reader, writer, lock>>

DropWriter ==
  /\ writer = "idle"
  /\ writer' = "none" /\ holders' = holders \ {"writer"}
  /\ UNCHANGED <<device, data, timeouts, taken, child, reader, lock>>

-----------------------------------------------------------------------------
(* The child.                                                              *)

\* wait starts with a sleep of five seconds. kill does nothing, also that of
\* a cloned killer, and try_wait says that the child runs.
Wait(c) ==
  /\ child[c] \in {"idle", "ended"}
  /\ child' = [child EXCEPT ![c] = "sleeping"]
  /\ UNCHANGED <<device, data, holders, timeouts, taken, reader, writer, lock>>

\* Deviation: a dropped carrier ends the wait too.
ReadCd_Value(c) ==
  /\ child[c] = "sleeping"
  /\ gone \/ ~modem \/ ~carrier
  /\ child' = [child EXCEPT ![c] = "ended"]
  /\ UNCHANGED <<device, data, holders, timeouts, taken, reader, writer, lock>>

\* Deviation: the device is looked up by its name.
ReadCd_ByName(c) ==
  /\ child[c] = "sleeping"
  /\ ~plugged \/ ~modem
  /\ child' = [child EXCEPT ![c] = "ended"]
  /\ UNCHANGED <<device, data, holders, timeouts, taken, reader, writer, lock>>

\* After each sleep the carrier is read, and an error ends the wait with code
\* 1; a value, whatever it is, means one more sleep, which changes nothing.
ReadCd(c) ==
  /\ child[c] = "sleeping"
  /\ gone \/ ~modem
  /\ child' = [child EXCEPT ![c] = "ended"]
  /\ UNCHANGED <<device, data, holders, timeouts, taken, reader, writer, lock>>

DropChild(c) ==
  /\ child[c] \in {"idle", "ended"}
  /\ child' = [child EXCEPT ![c] = "none"]
  /\ holders' = holders \ {c}
  /\ UNCHANGED <<device, data, timeouts, taken, reader, writer, lock>>

-----------------------------------------------------------------------------
(* The readers. On Windows a read waits, and no write is done meanwhile.   *)

ReadBegins(r) ==
  /\ reader[r] = "idle"
  /\ reader' = [reader EXCEPT ![r] = IF Windows THEN "reading" ELSE "polling"]
  /\ UNCHANGED <<device, data, holders, timeouts, taken, child, writer, lock>>

\* poll waits for data or a hangup.
PollReturns(r) ==
  /\ reader[r] = "polling" /\ (data \/ gone)
  /\ reader' = [reader EXCEPT ![r] = "reading"]
  /\ UNCHANGED <<device, data, holders, timeouts, taken, child, writer, lock>>

\* A failing poll, an interrupted one say, goes on to the read as well.
PollFails(r) ==
  /\ reader[r] = "polling"
  /\ reader' = [reader EXCEPT ![r] = "reading"]
  /\ UNCHANGED <<device, data, holders, timeouts, taken, child, writer, lock>>

\* Windows: ReadFile has the port.
Reading(r) == reader[r] = "reading" /\ (Windows => lock = r)

ReadFileBegins(r) ==
  /\ Windows /\ reader[r] = "reading" /\ lock = "free"
  /\ lock' = r
  /\ UNCHANGED <<device, data, holders, timeouts, taken, child, reader, writer>>

\* The read of reader r is over; the port is free again.
Returned(r, how) ==
  /\ reader' = [reader EXCEPT ![r] = how]
  /\ lock' = IF Windows THEN "free" ELSE lock
  /\ UNCHANGED <<device, holders, timeouts, taken, child, writer>>

ReadData(r) ==
  /\ Reading(r) /\ data /\ ~gone
  /\ data' = FALSE
  /\ Returned(r, "idle")

\* Deviation: finding nothing is an error.
ReadNothing_Fails(r) ==
  /\ Reading(r) /\ ~data /\ ~gone
  /\ Windows => timeouts
  /\ Returned(r, "error")
  /\ UNCHANGED data

\* Another reader was faster (WouldBlock), or the timeout of 50 ms has passed
\* (Windows: a read of nothing).
ReadNothing(r) ==
  /\ Reading(r) /\ ~data /\ ~gone
  /\ Windows => timeouts
  /\ Returned(r, IF Windows THEN "reading" ELSE "polling")
  /\ UNCHANGED data

\* The device is gone: an error, or the end of file, which is an error too. On
\* Windows a read of nothing is taken for a timeout.
ReadGone(r) ==
  /\ Reading(r) /\ gone
  /\ Returned(r, IF mute THEN "reading" ELSE "error")
  /\ UNCHANGED data

DropReader(r) ==
  /\ reader[r] \in {"idle", "error"}
  /\ reader' = [reader EXCEPT ![r] = "none"]
  /\ holders' = holders \ {r}
  /\ UNCHANGED <<device, data, timeouts, taken, child, writer, lock>>

-----------------------------------------------------------------------------
(* The writer.                                                             *)

WriteBegins ==
  /\ writer = "idle"
  /\ writer' = "waiting"
  /\ UNCHANGED <<device, data, holders, timeouts, taken, child, reader, lock>>

\* Windows: WriteFile gets its turn.
WriteGetsPort ==
  /\ writer = "waiting"
  /\ Windows => lock = "free"
  /\ writer' = "writing"
  /\ lock' = IF Windows THEN "writer" ELSE lock
  /\ UNCHANGED <<device, data, holders, timeouts, taken, child, reader>>

\* Some bytes are written, none within the timeout of 50 ms, or it fails.
WriteReturns ==
  /\ writer = "writing"
  /\ writer' = "idle"
  /\ lock' = IF Windows THEN "free" ELSE lock
  /\ UNCHANGED <<device, data, holders, timeouts, taken, child, reader>>

-----------------------------------------------------------------------------
(* The device.                                                             *)

Unplug ==
  /\ plugged
  /\ plugged' = FALSE
  /\ gone' = (holders # {}) /\ data' = FALSE
  /\ UNCHANGED <<platform, modem, mute, carrier, holders, timeouts, taken, child,
                 reader, writer, lock>>

Replug ==
  /\ ~plugged
  /\ plugged' = TRUE
  /\ UNCHANGED <<platform, gone, modem, mute, carrier, data, holders, timeouts,
                 taken, child, reader, writer, lock>>

Sends ==
  /\ plugged /\ ~gone /\ holders # {}
  /\ data' = TRUE
  /\ UNCHANGED <<device, holders, timeouts, taken, child, reader, writer, lock>>

CarrierChanges ==
  /\ plugged
  /\ carrier' = ~carrier
  /\ UNCHANGED <<platform, plugged, gone, modem, mute, data, holders, timeouts,
                 taken, child, reader, writer, lock>>

ReaderStep(r) ==
  PollReturns(r) \/ ReadFileBegins(r) \/ ReadData(r) \/ ReadNothing(r) \/ ReadGone(r)

Next ==
  \/ Openpty \/ TakeWriter \/ DropWriter
  \/ \E end \in {"master", "slave"}: DropEnd(end)
  \/ \E c \in Children: SpawnCommand(c) \/ Wait(c) \/ ReadCd(c) \/ DropChild(c)
  \/ \E r \in Readers:
       CloneReader(r) \/ ReadBegins(r) \/ PollFails(r) \/ ReaderStep(r) \/ DropReader(r)
  \/ WriteBegins \/ WriteGetsPort \/ WriteReturns
  \/ Unplug \/ Replug \/ Sends \/ CarrierChanges

Spec == Init /\ [][Next]_vars

\* Threads inside a call run on, timeouts pass, and Windows lets reads and
\* writes of a port take turns. The device and the callers may do nothing.
Fairness ==
  /\ \A c \in Children: WF_vars(ReadCd(c))
  /\ \A r \in Readers: WF_vars(ReaderStep(r)) /\ SF_vars(ReadFileBegins(r))
  /\ SF_vars(WriteGetsPort)
  /\ WF_vars(WriteReturns)

FairSpec == Spec /\ Fairness

-----------------------------------------------------------------------------
(* Properties.                                                             *)

StateTypeOK ==
  /\ platform \in Platforms
  /\ child \in [Children -> {"none", "idle", "sleeping", "ended"}]
  /\ reader \in [Readers -> {"none", "idle", "polling", "reading", "error"}]
  /\ writer \in {"none", "idle", "waiting", "writing"}
  /\ lock \in {"free", "writer"} \cup Readers

FlagTypeOK ==
  /\ plugged \in BOOLEAN /\ gone \in BOOLEAN /\ modem \in BOOLEAN /\ mute \in BOOLEAN
  /\ carrier \in BOOLEAN /\ data \in BOOLEAN /\ timeouts \in BOOLEAN /\ taken \in BOOLEAN

\* Types of the variables, and what keeps the port open: the ends not yet
\* dropped, the writer, and every child and reader that exists.
TypeOK ==
  /\ StateTypeOK /\ FlagTypeOK
  /\ holders \subseteq {"master", "slave", "writer"} \cup Children \cup Readers
  /\ "writer" \in holders <=> writer # "none"
  /\ \A c \in Children: c \in holders <=> child[c] # "none"
  /\ \A r \in Readers: r \in holders <=> reader[r] # "none"

\* On Windows one call at a time uses the port.
LockInv ==
  /\ lock \in Readers => Windows /\ reader[lock] = "reading"
  /\ writer = "writing" /\ Windows => lock = "writer"
  /\ lock = "writer" => Windows /\ writer = "writing"

\* The flag of take_writer outlives the writer.
OneWriter == writer # "none" => taken

\* A wait ends and a reader fails only because the device was taken away, or
\* because it has no carrier line at all: not when another reader took the
\* data, a timeout passed, the carrier dropped or somebody called kill
\* (serial.rs:134-158, 282-302).
EndsMeanUnplugged ==
  /\ \A c \in Children: child[c] = "ended" => gone \/ ~modem
  /\ \A r \in Readers: reader[r] = "error" => gone

\* The inductive invariant.
IInv == TypeOK /\ LockInv /\ OneWriter /\ EndsMeanUnplugged

\* Whoever waits or reads when the device is taken away gets to know it, also
\* if it is back within the five seconds between two looks; a reader on
\* Windows only if the lost device makes its reads fail (serial.rs:134-158,
\* 265-305).
UnplugIsNoticed ==
  /\ \A c \in Children: child[c] = "sleeping" /\ gone ~> child[c] = "ended"
  /\ \A r \in Readers:
       reader[r] \in {"polling", "reading"} /\ gone /\ ~mute ~> reader[r] = "error"

\* A write returns although other threads sit in read on a silent device: the
\* read timeout makes them let the port go (serial.rs:84-90).
WritesReturn == writer = "waiting" ~> writer = "idle"
=============================================================================
