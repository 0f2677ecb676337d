--------------------------- MODULE SerialTtyProofs ---------------------------
(***************************************************************************)
(* Safety of SerialTty for any number of children and readers. What ends   *)
(* when the device is taken away, and that no write starves, is left to    *)
(* TLC.                                                                    *)
(***************************************************************************)
EXTENDS SerialTty, TLAPS

USE SerialAssumption

Others == {"master", "slave", "writer"}

LEMMA InitInvariant == Init => IInv
<1> SUFFICES ASSUME Init PROVE IInv
  OBVIOUS
<1>1. FlagTypeOK
  BY Zenon DEF Init, FlagTypeOK
<1>2. StateTypeOK /\ LockInv /\ OneWriter /\ EndsMeanUnplugged
  BY DEF Init, StateTypeOK, LockInv, OneWriter, EndsMeanUnplugged
<1>3. TypeOK
  BY <1>1, <1>2 DEF Init, TypeOK
<1> QED
  BY <1>2, <1>3 DEF IInv

-----------------------------------------------------------------------------
(* Flags.                                                                  *)

LEMMA FlagTypes ==
  ASSUME FlagTypeOK, [Next]_vars
  PROVE  FlagTypeOK'
<1>1. CASE Unplug \/ Replug \/ Sends \/ CarrierChanges
  BY <1>1 DEF Unplug, Replug, Sends, CarrierChanges, device, FlagTypeOK
<1>2. CASE Openpty \/ TakeWriter \/ DropWriter \/ (\E end \in {"master", "slave"}: DropEnd(end))
  BY <1>2 DEF Openpty, TakeWriter, DropWriter, DropEnd, device, FlagTypeOK
<1>3. CASE \E c \in Children: SpawnCommand(c) \/ Wait(c) \/ ReadCd(c) \/ DropChild(c)
  BY <1>3 DEF SpawnCommand, Wait, ReadCd, DropChild, device, FlagTypeOK
<1>4. CASE \E r \in Readers:
             CloneReader(r) \/ ReadBegins(r) \/ PollFails(r) \/ ReaderStep(r) \/ DropReader(r)
  BY <1>4 DEF CloneReader, ReadBegins, PollFails, ReaderStep, DropReader, PollReturns,
    ReadFileBegins, ReadData, ReadNothing, ReadGone, Returned, device, FlagTypeOK
<1>5. CASE WriteBegins \/ WriteGetsPort \/ WriteReturns
  BY <1>5 DEF WriteBegins, WriteGetsPort, WriteReturns, device, FlagTypeOK
<1>6. CASE UNCHANGED vars
  BY <1>6 DEF vars, FlagTypeOK
<1> QED
  BY <1>1, <1>2, <1>3, <1>4, <1>5, <1>6 DEF Next

-----------------------------------------------------------------------------
(* The step, group by group.                                               *)

\* What a step proves besides the flags.
Rest == StateTypeOK /\ LockInv /\ OneWriter /\ EndsMeanUnplugged
        /\ holders \subseteq Others \cup Children \cup Readers
        /\ ("writer" \in holders <=> writer # "none")
        /\ (\A c \in Children: c \in holders <=> child[c] # "none")
        /\ (\A r \in Readers: r \in holders <=> reader[r] # "none")

LEMMA DeviceKeeps ==
  ASSUME Rest, Unplug \/ Replug \/ Sends \/ CarrierChanges
  PROVE  Rest'
<1>1. CASE Unplug
  BY <1>1 DEF Rest, Others, StateTypeOK, LockInv, OneWriter,
    EndsMeanUnplugged, Unplug, Windows
<1>2. CASE Replug
  BY <1>2 DEF Rest, Others, StateTypeOK, LockInv, OneWriter,
    EndsMeanUnplugged, Replug, Windows
<1>4. CASE CarrierChanges
  BY <1>4 DEF Rest, Others, StateTypeOK, LockInv, OneWriter,
    EndsMeanUnplugged, CarrierChanges,
    Windows
<1>3. CASE Sends
  BY <1>3 DEF Rest, Others, StateTypeOK, LockInv, OneWriter,
    EndsMeanUnplugged, Sends, device, Windows
<1> QED
  BY <1>1, <1>2, <1>3, <1>4

LEMMA OpenptyKeeps ==
  ASSUME Rest, Openpty
  PROVE  Rest'
<1>1. \A c \in Children: child[c] = "none"
  BY DEF Rest, Openpty
<1>2. \A r \in Readers: reader[r] = "none"
  BY DEF Rest, Openpty
<1>3. writer = "none" /\ lock = "free"
  BY <1>2 DEF Rest, Openpty, StateTypeOK, LockInv
<1>4. (EndsMeanUnplugged /\ OneWriter)'
  BY <1>1, <1>2, <1>3 DEF Openpty, EndsMeanUnplugged, OneWriter
<1>5. (StateTypeOK /\ LockInv)'
  BY <1>3 DEF Rest, Openpty, StateTypeOK, LockInv, Windows
<1>6. \A x \in Children \cup Readers: x \notin holders'
  BY DEF Openpty
<1> QED
  BY <1>1, <1>2, <1>3, <1>4, <1>5, <1>6 DEF Rest, Others, Openpty

LEMMA EndsKeep ==
  ASSUME Rest,
         \/ TakeWriter \/ DropWriter \/ WriteBegins \/ WriteGetsPort \/ WriteReturns
         \/ \E end \in {"master", "slave"}: DropEnd(end)
  PROVE  Rest'
<1> USE DEF Rest, Others, StateTypeOK, LockInv, OneWriter,
    EndsMeanUnplugged, device, Windows
<1>1. CASE TakeWriter
  <2>1. (StateTypeOK /\ LockInv /\ OneWriter)'
    BY <1>1 DEF TakeWriter
  <2>2. EndsMeanUnplugged'
    BY <1>1 DEF TakeWriter
  <2> QED
    BY <1>1, <2>1, <2>2 DEF TakeWriter
<1>2. CASE DropWriter
  BY <1>2 DEF DropWriter
<1>3. CASE WriteBegins
  BY <1>3 DEF WriteBegins
<1>4. CASE WriteGetsPort
  BY <1>4 DEF WriteGetsPort
<1>5. CASE WriteReturns
  BY <1>5 DEF WriteReturns
<1>6. CASE \E end \in {"master", "slave"}: DropEnd(end)
  BY <1>6 DEF DropEnd
<1> QED
  BY <1>1, <1>2, <1>3, <1>4, <1>5, <1>6

LEMMA ChildKeeps ==
  ASSUME Rest, NEW c \in Children,
         SpawnCommand(c) \/ Wait(c) \/ ReadCd(c) \/ DropChild(c)
  PROVE  Rest'
<1> USE DEF Rest, Others, StateTypeOK, LockInv, OneWriter,
    EndsMeanUnplugged, device, Windows
<1>1. CASE SpawnCommand(c)
  BY <1>1 DEF SpawnCommand
<1>2. CASE Wait(c)
  BY <1>2 DEF Wait
<1>3. CASE ReadCd(c)
  BY <1>3 DEF ReadCd
<1>4. CASE DropChild(c)
  BY <1>4 DEF DropChild
<1> QED
  BY <1>1, <1>2, <1>3, <1>4

LEMMA ReaderKeeps ==
  ASSUME Rest, NEW r \in Readers,
         CloneReader(r) \/ ReadBegins(r) \/ PollFails(r) \/ ReaderStep(r) \/ DropReader(r)
  PROVE  Rest'
<1> USE DEF Rest, Others, StateTypeOK, LockInv, OneWriter,
    EndsMeanUnplugged, device, Windows
<1>1. CASE CloneReader(r)
  BY <1>1 DEF CloneReader
<1>2. CASE ReadBegins(r)
  BY <1>2 DEF ReadBegins
<1>3. CASE PollFails(r)
  BY <1>3 DEF PollFails
<1>9. CASE PollReturns(r)
  BY <1>9 DEF PollReturns
<1>4. CASE ReadFileBegins(r)
  BY <1>4 DEF ReadFileBegins
<1>5. CASE ReadData(r)
  BY <1>5 DEF ReadData, Reading, Returned
<1>6. CASE ReadNothing(r)
  BY <1>6 DEF ReadNothing, Reading, Returned
<1>7. CASE ReadGone(r)
  BY <1>7 DEF ReadGone, Reading, Returned
<1>8. CASE DropReader(r)
  BY <1>8 DEF DropReader
<1> QED
  BY <1>1, <1>2, <1>3, <1>4, <1>5, <1>6, <1>7, <1>8, <1>9 DEF ReaderStep

\* Every variable keeps its type, the port is open while somebody holds it, on
\* Windows one call at a time uses it, and nothing has ended without a reason.
THEOREM SerialInvariant == Spec => []IInv
<1>1. ASSUME IInv, [Next]_vars PROVE IInv'
  <2>1. Rest /\ FlagTypeOK
    BY <1>1 DEF IInv, TypeOK, Rest, Others
  <2>2. FlagTypeOK'
    BY <1>1, <2>1, FlagTypes
  <2>3. Rest'
    <3>1. CASE UNCHANGED vars
      BY <2>1, <3>1 DEF Rest, vars, StateTypeOK, LockInv, OneWriter,
        EndsMeanUnplugged, Windows
    <3> QED
      BY <1>1, <2>1, <3>1, DeviceKeeps, OpenptyKeeps, EndsKeep, ChildKeeps,
        ReaderKeeps DEF Next
  <2> QED
    BY <2>2, <2>3 DEF IInv, TypeOK, Rest, Others
<1> QED
  BY <1>1, InitInvariant, PTL DEF Spec

\* Neither a kill, a dropped carrier, a timeout nor a faster reader ends a wait
\* or a read: only the loss of the device does (serial.rs:134-158, 282-302).
THEOREM OnlyUnplugEnds == Spec => []EndsMeanUnplugged
<1>1. IInv => EndsMeanUnplugged
  BY DEF IInv
<1> QED
  BY <1>1, SerialInvariant, PTL
=============================================================================
