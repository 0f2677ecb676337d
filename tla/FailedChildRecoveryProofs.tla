---------------------- MODULE FailedChildRecoveryProofs ----------------------
(***************************************************************************)
(* Safety of FailedChildRecovery for every platform, every number of       *)
(* recover() calls and every number of grace polls.                        *)
(***************************************************************************)
EXTENDS FailedChildRecovery, TLAPS

USE ProcessAssumption, RecoveryAssumption

\* The channel is FIFO: receiving removes a command of the type, and what is
\* left keeps its order.
LEMMA ReceiveQueue ==
  ASSUME queue \in Seq(Command), queue # <<>>
  PROVE  /\ Head(queue) = queue[1] /\ Head(queue) \in Command
         /\ Tail(queue) \in Seq(Command)
         /\ Len(Tail(queue)) = Len(queue) - 1
         /\ \A i \in 1..Len(Tail(queue)): Tail(queue)[i] = queue[i + 1]
  OBVIOUS

\* Sending appends at the far end.
LEMMA SendQueue ==
  ASSUME queue \in Seq(Command), NEW c \in Command
  PROVE  /\ Append(queue, c) \in Seq(Command)
         /\ Len(Append(queue, c)) = Len(queue) + 1
         /\ \A i \in 1..Len(queue): Append(queue, c)[i] = queue[i]
         /\ Append(queue, c)[Len(queue) + 1] = c
  OBVIOUS

\* Commands of the two kinds differ, and an attempt number is in range.
LEMMA CommandFacts ==
  /\ Adopt \in Command
  /\ \A n \in 1..MaxAttempts: Attempt(n) \in Command /\ Attempt(n) # Adopt
  /\ \A c \in Command: c.id \in 0..MaxAttempts /\ (c # Adopt => c.id # 0)
<1>1. Adopt \in Command
  BY DEF Command
<1>2. ASSUME NEW n \in 1..MaxAttempts
      PROVE  Attempt(n) \in Command /\ Attempt(n) # Adopt
  <2>1. Attempt(n) \in Command
    BY DEF Command
  <2>2. Attempt(n).op # Adopt.op
    BY DEF Attempt, Adopt
  <2> QED
    BY <2>1, <2>2
<1>3. ASSUME NEW c \in Command
      PROVE  c.id \in 0..MaxAttempts /\ (c # Adopt => c.id # 0)
  <2>1. CASE c = Adopt
    BY <2>1 DEF Adopt
  <2>2. CASE \E n \in 1..MaxAttempts: c = Attempt(n)
    BY <2>2 DEF Attempt
  <2> QED
    BY <2>1, <2>2 DEF Command
<1> QED
  BY <1>1, <1>2, <1>3

-----------------------------------------------------------------------------
(* Type correctness.                                                       *)

LEMMA EmptyQueue == <<>> \in Seq(Command)
  OBVIOUS

LEMMA TypeInit == Init => TypeOK
<1> SUFFICES ASSUME Init PROVE TypeOK
  OBVIOUS
<1>1. ProcessTypeOK
  BY DEF Init, ProcessInit, ProcessTypeOK, ProcessStates
<1>2. ChannelTypeOK
  <2>1. queue = <<>> /\ pending = FALSE
    BY DEF Init
  <2> QED
    BY <2>1, EmptyQueue DEF ChannelTypeOK
<1>3. ControllerTypeOK
  BY DEF Init, ControllerTypeOK, ControllerStates, Results
<1>4. WorkerTypeOK
  <2>1. polls \in 0..(GracePolls - 1) /\ serving \in 0..MaxAttempts
    BY DEF Init
  <2>2. held \in BOOLEAN /\ wpc \in WorkerStates /\ result \in Results \cup {"none"}
    BY DEF Init, WorkerStates, Results
  <2> QED
    BY <2>1, <2>2 DEF WorkerTypeOK
<1>5. code259 \in BOOLEAN
  BY DEF Init
<1> QED
  BY <1>1, <1>2, <1>3, <1>4, <1>5 DEF TypeOK

LEMMA TypeStep == TypeOK /\ [Next]_vars => TypeOK'
<1> SUFFICES ASSUME TypeOK, [Next]_vars PROVE TypeOK'
  OBVIOUS
<1> USE DEF TypeOK
<1>1. ProcessTypeOK'
  BY DEF ProcessTypeOK, ProcessStates, Next, vars, processVars, ThreadVars,
    Controller, WorkerStep, Environment, ChildExits, Exits, ChangesCredentials, Created,
    SpawnFails, SpawnSucceeds, GuardTakes, RaisePending, SendAdopt,
    BeginAttempt, SendAttempt, ReceiveReply, ReplyTimeout, DropError,
    RecvAdopt, RecvAttempt, RecvDisconnected, FirstWait, Hangup, GracePoll,
    SigKill, Killed, Terminate, Poll, StorePending, Respond, WorkerPanics
<1>2. ChannelTypeOK'
  <2>1. CASE RecvAdopt \/ RecvAttempt
    BY <2>1, ReceiveQueue DEF ChannelTypeOK, RecvAdopt, RecvAttempt
  <2>2. CASE SendAdopt
    BY <2>2, SendQueue, CommandFacts DEF ChannelTypeOK, SendAdopt
  <2>3. CASE SendAttempt
    <3>1. issued + 1 \in 1..MaxAttempts
      BY <2>3 DEF SendAttempt, ControllerTypeOK
    <3> QED
      BY <2>3, <3>1, SendQueue, CommandFacts DEF ChannelTypeOK, SendAttempt
  <2>4. CASE WorkerPanics
    BY <2>4, EmptyQueue DEF ChannelTypeOK, WorkerPanics
  <2>6. CASE StorePending \/ RaisePending
    BY <2>6 DEF ChannelTypeOK, WorkerTypeOK, StorePending, RaisePending
  <2>5. CASE UNCHANGED <<queue, pending>>
    BY <2>5 DEF ChannelTypeOK
  <2> QED
    BY <2>1, <2>2, <2>3, <2>4, <2>5, <2>6
    DEF Next, vars, ThreadVars, Controller, WorkerStep, Environment,
      SpawnFails, SpawnSucceeds, GuardTakes, BeginAttempt, ReceiveReply,
      ReplyTimeout, DropError, RecvDisconnected, FirstWait, Hangup, GracePoll,
      SigKill, Terminate, Poll, Respond
<1>3. ControllerTypeOK'
  BY DEF ControllerTypeOK, WorkerTypeOK, ControllerStates, Results, Next, vars,
    ThreadVars, controllerVars, Controller, WorkerStep, Environment,
    SpawnFails, SpawnSucceeds, GuardTakes, RaisePending, SendAdopt,
    BeginAttempt, SendAttempt, ReceiveReply, ReplyTimeout, DropError,
    RecvAdopt, RecvAttempt, RecvDisconnected, FirstWait, Hangup, GracePoll,
    SigKill, Terminate, Poll, StorePending, Respond, WorkerPanics
<1>4. WorkerTypeOK'
  <2>1. wpc' \in WorkerStates /\ result' \in Results \cup {"none"}
    BY DEF WorkerTypeOK, WorkerStates, Results, Returns, AfterAttempt,
      Next, vars, ThreadVars, workerVars, Controller, WorkerStep, Environment,
      SpawnFails, SpawnSucceeds, GuardTakes, RaisePending, SendAdopt,
      BeginAttempt, SendAttempt, ReceiveReply, ReplyTimeout, DropError,
      RecvAdopt, RecvAttempt, RecvDisconnected, FirstWait, Hangup, GracePoll,
      SigKill, Terminate, Poll, StorePending, Respond, WorkerPanics
  <2>2. held' \in BOOLEAN
    BY DEF WorkerTypeOK,
      Next, vars, ThreadVars, workerVars, Controller, WorkerStep, Environment,
      SpawnFails, SpawnSucceeds, GuardTakes, RaisePending, SendAdopt,
      BeginAttempt, SendAttempt, ReceiveReply, ReplyTimeout, DropError,
      RecvAdopt, RecvAttempt, RecvDisconnected, FirstWait, Hangup, GracePoll,
      SigKill, Terminate, Poll, StorePending, Respond, WorkerPanics
  <2>3. polls' \in 0..(GracePolls - 1)
    BY DEF WorkerTypeOK,
      Next, vars, ThreadVars, workerVars, Controller, WorkerStep, Environment,
      SpawnFails, SpawnSucceeds, GuardTakes, RaisePending, SendAdopt,
      BeginAttempt, SendAttempt, ReceiveReply, ReplyTimeout, DropError,
      RecvAdopt, RecvAttempt, RecvDisconnected, FirstWait, Hangup, GracePoll,
      SigKill, Terminate, Poll, StorePending, Respond, WorkerPanics
  <2>4. serving' \in 0..MaxAttempts
    BY ReceiveQueue, CommandFacts DEF WorkerTypeOK, ChannelTypeOK,
      Next, vars, ThreadVars, workerVars, Controller, WorkerStep, Environment,
      SpawnFails, SpawnSucceeds, GuardTakes, RaisePending, SendAdopt,
      BeginAttempt, SendAttempt, ReceiveReply, ReplyTimeout, DropError,
      RecvAdopt, RecvAttempt, RecvDisconnected, FirstWait, Hangup, GracePoll,
      SigKill, Terminate, Poll, StorePending, Respond, WorkerPanics
  <2> QED
    BY <2>1, <2>2, <2>3, <2>4 DEF WorkerTypeOK
<1>5. code259' \in BOOLEAN
  BY DEF Next, vars, processVars, Controller, WorkerStep, Environment,
    ChildExits, SpawnFails, SpawnSucceeds, GuardTakes, RaisePending, SendAdopt,
    BeginAttempt, SendAttempt, ReceiveReply, ReplyTimeout, DropError,
    RecvAdopt, RecvAttempt, RecvDisconnected, FirstWait, Hangup, GracePoll,
    SigKill, Terminate, Poll, StorePending, Respond, WorkerPanics
<1> QED
  BY <1>1, <1>2, <1>3, <1>4, <1>5 DEF TypeOK

\* Every variable keeps its type, for every platform and every failure.
THEOREM TypeCorrect == Spec => []TypeOK
<1> QED
  BY TypeInit, TypeStep, PTL DEF Spec

-----------------------------------------------------------------------------
(* Custody of the child.                                                   *)

\* How each step changes whether Adopt is still in the channel.
LEMMA ChannelStep ==
  ASSUME TypeOK, WaitingInv, AdoptFirst, Next
  PROVE  /\ AdoptFirst'
         /\ SendAdopt /\ ~ReceiverGone => InChannel'
         /\ RecvAdopt => InChannel /\ ~InChannel'
         /\ RecvAttempt => ~InChannel /\ ~InChannel'
         /\ queue = <<>> => ~InChannel
         /\ WorkerPanics => ~InChannel'
         /\ SendAttempt => InChannel' = InChannel
         /\ queue' = queue => InChannel' = InChannel
<1> USE DEF AdoptFirst, InChannel, TypeOK, ChannelTypeOK
<1>1. ASSUME RecvAdopt
      PROVE  InChannel /\ ~InChannel' /\ AdoptFirst'
  <2>1. queue # <<>> /\ queue[1] = Adopt /\ queue' = Tail(queue)
    BY <1>1, ReceiveQueue DEF RecvAdopt
  <2>2. \A i \in 1..Len(queue'): queue'[i] # Adopt
    BY <2>1, ReceiveQueue
  <2>3. Len(queue) >= 1
    BY <2>1
  <2> QED
    BY <2>1, <2>2, <2>3
<1>2. ASSUME RecvAttempt
      PROVE  ~InChannel /\ ~InChannel' /\ AdoptFirst'
  <2>1. queue # <<>> /\ queue[1] # Adopt /\ queue' = Tail(queue)
    BY <1>2, ReceiveQueue DEF RecvAttempt
  <2>2. /\ \A i \in 1..Len(queue'): queue'[i] # Adopt
        /\ \A i \in 1..Len(queue): queue[i] # Adopt
    BY <2>1, ReceiveQueue
  <2> QED
    BY <2>2
<1>3. ASSUME SendAdopt, ~ReceiverGone
      PROVE  InChannel' /\ AdoptFirst'
  <2>1. queue = <<>> /\ queue' = Append(queue, Adopt)
    BY <1>3 DEF SendAdopt, WaitingInv, BeforeAttach
  <2>2. Len(queue') = 1 /\ queue'[1] = Adopt
    BY <2>1
  <2> QED
    BY <2>2
<1>4. ASSUME SendAttempt
      PROVE  InChannel' = InChannel /\ AdoptFirst'
  <2>1. CASE ReceiverGone
    BY <1>4, <2>1 DEF SendAttempt
  <2>2. CASE ~ReceiverGone
    <3>1. /\ queue' = Append(queue, Attempt(issued + 1))
          /\ issued + 1 \in 1..MaxAttempts
      BY <1>4, <2>2 DEF SendAttempt, ControllerTypeOK
    <3>2. /\ Len(queue') = Len(queue) + 1
          /\ \A i \in 1..Len(queue): queue'[i] = queue[i]
          /\ queue'[Len(queue) + 1] # Adopt
      BY <3>1, SendQueue, CommandFacts
    <3> QED
      BY <3>2
  <2> QED
    BY <2>1, <2>2
<1>5. ASSUME queue' = queue
      PROVE  InChannel' = InChannel /\ AdoptFirst'
  BY <1>5
<1>6. queue = <<>> => ~InChannel
  OBVIOUS
<1>8. ASSUME WorkerPanics
      PROVE  ~InChannel' /\ AdoptFirst'
  <2>1. Len(queue') = 0
    BY <1>8 DEF WorkerPanics
  <2> QED
    BY <2>1
<1>7. AdoptFirst'
  <2> HIDE DEF AdoptFirst, InChannel, TypeOK, ChannelTypeOK
  <2> QED
    BY <1>1, <1>2, <1>3, <1>4, <1>5, <1>8
    DEF Next, Controller, WorkerStep, Environment, ThreadVars, SpawnFails,
      SpawnSucceeds, GuardTakes, RaisePending, SendAdopt, BeginAttempt,
      ReceiveReply, ReplyTimeout, DropError, RecvDisconnected,
      FirstWait, Hangup, GracePoll, SigKill, Terminate, Poll, StorePending,
      Respond, WorkerPanics
<1> QED
  <2> HIDE DEF AdoptFirst, InChannel, TypeOK, ChannelTypeOK
  <2> QED
    BY <1>1, <1>2, <1>3, <1>4, <1>5, <1>6, <1>7, <1>8

LEMMA CustodyInit == Init => IInv
  BY TypeInit
  DEF Init, ProcessInit, IInv, NeverAborts, WaitingInv, CreationInv, WorkerInv,
    PanicInv, LooksAlive, AdoptFirst, InChannel, ChannelInv, CustodyInv,
    BeforeAttach, AfterAttach

LEMMA CustodyStep ==
  ASSUME IInv, [Next]_vars
  PROVE  IInv'
<1>0. TypeOK'
  BY TypeStep DEF IInv
<1>1. CASE Next
  <2>0. TypeOK /\ NeverAborts /\ WaitingInv /\ CreationInv /\ WorkerInv
    BY DEF IInv
  <2>1. AdoptFirst /\ ChannelInv /\ CustodyInv /\ PanicInv
    BY DEF IInv
  <2>2. AdoptFirst'
    BY <1>1, <2>0, <2>1, ChannelStep
  <2>3. NeverAborts' /\ WorkerInv'
    <3>1. CASE Controller
      BY <1>1, <3>1, <2>0 DEF NeverAborts, WorkerInv, WaitingInv, BeforeAttach,
      ReceiverGone, SenderAlive, Controller, controllerVars,
      SpawnFails, SpawnSucceeds, Created, GuardTakes, RaisePending, SendAdopt,
      BeginAttempt, SendAttempt, ReceiveReply, ReplyTimeout, DropError,
      processVars, workerVars
    <3>2. CASE WorkerStep
      BY <1>1, <3>2, <2>0, ReceiveQueue, CommandFacts
      DEF TypeOK, ChannelTypeOK, NeverAborts, WorkerInv, WaitingInv, BeforeAttach,
      ReceiverGone, SenderAlive, WorkerStep, processVars, workerVars,
      controllerVars, RecvAdopt, RecvAttempt, RecvDisconnected, FirstWait,
      Hangup, GracePoll, SigKill, Killed, Terminate, Poll, StorePending,
      Respond, Returns, AfterAttempt
    <3>3. CASE WorkerPanics \/ Environment
      BY <1>1, <3>3, <2>0 DEF NeverAborts, WorkerInv, WaitingInv, BeforeAttach,
      ReceiverGone, SenderAlive, WorkerPanics, Environment, ThreadVars,
      ChildExits, Exits, ChangesCredentials, processVars, controllerVars, workerVars
    <3> QED
      BY <1>1, <3>1, <3>2, <3>3 DEF Next
  <2>4. CreationInv'
    <3>1. CASE Controller
      BY <1>1, <3>1, <2>0 DEF CreationInv, NeverAborts, WaitingInv, BeforeAttach,
      TypeOK, ProcessTypeOK, SeesStatus, StatusAvailable, Controller, controllerVars,
      SpawnFails, SpawnSucceeds, Created, GuardTakes, RaisePending, SendAdopt,
      BeginAttempt, SendAttempt, ReceiveReply, ReplyTimeout, DropError,
      processVars, workerVars
    <3>2. CASE WorkerStep
      BY <1>1, <3>2, <2>0 DEF CreationInv, NeverAborts, WaitingInv, BeforeAttach,
      TypeOK, ProcessTypeOK, SeesStatus, StatusAvailable, WorkerStep, processVars, workerVars,
      controllerVars, RecvAdopt, RecvAttempt, RecvDisconnected, FirstWait,
      Hangup, GracePoll, SigKill, Killed, Terminate, Poll, StorePending,
      Respond, Returns, AfterAttempt
    <3>3. CASE WorkerPanics \/ Environment
      BY <1>1, <3>3, <2>0 DEF CreationInv, NeverAborts, WaitingInv, BeforeAttach,
      TypeOK, ProcessTypeOK, SeesStatus, StatusAvailable, WorkerPanics, Environment, ThreadVars,
      ChildExits, Exits, ChangesCredentials, processVars, controllerVars, workerVars
    <3> QED
      BY <1>1, <3>1, <3>2, <3>3 DEF Next
  <2>5. WaitingInv'
    BY <1>1, <2>0
    DEF WaitingInv, CreationInv, BeforeAttach, Next, vars, ThreadVars, processVars, controllerVars, workerVars, Controller,
    WorkerStep, Environment, ChildExits, Exits, ChangesCredentials, Created, SpawnFails,
    SpawnSucceeds, GuardTakes, RaisePending, SendAdopt, BeginAttempt,
    SendAttempt, ReceiveReply, ReplyTimeout, DropError, RecvAdopt, RecvAttempt,
    RecvDisconnected, FirstWait, Hangup, GracePoll, SigKill, Killed, Terminate,
    Poll, StorePending, Respond, WorkerPanics, Returns, AfterAttempt
  <2>6. ChannelInv'
    <3>1. CASE Controller
      BY <1>1, <3>1, <2>0, <2>1, ChannelStep DEF ChannelInv, WaitingInv,
      CustodyInv, WorkerInv, BeforeAttach, AfterAttach, ReceiverGone, Controller, controllerVars,
      SpawnFails, SpawnSucceeds, Created, GuardTakes, RaisePending, SendAdopt,
      BeginAttempt, SendAttempt, ReceiveReply, ReplyTimeout, DropError,
      processVars, workerVars
    <3>2. CASE WorkerStep
      BY <1>1, <3>2, <2>0, <2>1, ChannelStep DEF ChannelInv, WaitingInv,
      CustodyInv, WorkerInv, BeforeAttach, AfterAttach, ReceiverGone, WorkerStep, processVars, workerVars,
      controllerVars, RecvAdopt, RecvAttempt, RecvDisconnected, FirstWait,
      Hangup, GracePoll, SigKill, Killed, Terminate, Poll, StorePending,
      Respond, Returns, AfterAttempt
    <3>3. CASE WorkerPanics \/ Environment
      BY <1>1, <3>3, <2>0, <2>1, ChannelStep DEF ChannelInv, WaitingInv,
      CustodyInv, WorkerInv, BeforeAttach, AfterAttach, ReceiverGone, WorkerPanics, Environment, ThreadVars,
      ChildExits, Exits, ChangesCredentials, processVars, controllerVars, workerVars
    <3> QED
      BY <1>1, <3>1, <3>2, <3>3 DEF Next
  <2>7. CustodyInv'
    <3>1. CASE Controller
      BY <1>1, <3>1, <2>0, <2>1, ChannelStep DEF CustodyInv, ChannelInv,
      WaitingInv, WorkerInv, BeforeAttach, AfterAttach, SeesStatus,
      SeesNothing, StatusAvailable, WaitFails, StillRunning, ReceiverGone, SenderAlive, Controller, controllerVars,
      SpawnFails, SpawnSucceeds, Created, GuardTakes, RaisePending, SendAdopt,
      BeginAttempt, SendAttempt, ReceiveReply, ReplyTimeout, DropError,
      processVars, workerVars
    <3>2. CASE WorkerStep
      <4> USE DEF CustodyInv, ChannelInv, WaitingInv, WorkerInv, BeforeAttach,
            AfterAttach, processVars, workerVars, controllerVars
      <4>1. CASE RecvAdopt \/ RecvAttempt \/ RecvDisconnected
        BY <1>1, <4>1, <2>0, <2>1, ChannelStep
        DEF ReceiverGone, SenderAlive, RecvAdopt, RecvAttempt, RecvDisconnected
      <4>2. CASE FirstWait \/ Poll
        BY <1>1, <4>2, <2>0, <2>1, ChannelStep
        DEF FirstWait, Poll, Returns, SeesStatus, StatusAvailable, WaitFails,
          SeesNothing, StillRunning
      <4>3. CASE Hangup \/ GracePoll \/ SigKill \/ Terminate
        BY <1>1, <4>3, <2>0, <2>1, ChannelStep
        DEF Hangup, GracePoll, SigKill, Terminate, Killed, Returns, SeesStatus,
          StatusAvailable
      <4>4. CASE StorePending \/ Respond
        BY <1>1, <4>4, <2>0, <2>1, ChannelStep
        DEF StorePending, Respond, AfterAttempt
      <4> QED
        BY <3>2, <4>1, <4>2, <4>3, <4>4 DEF WorkerStep
    <3>3. CASE WorkerPanics \/ Environment
      BY <1>1, <3>3, <2>0, <2>1, ChannelStep DEF CustodyInv, ChannelInv,
      WaitingInv, WorkerInv, BeforeAttach, AfterAttach, SeesStatus,
      SeesNothing, StatusAvailable, WaitFails, StillRunning, ReceiverGone, SenderAlive, WorkerPanics, Environment, ThreadVars,
      ChildExits, Exits, ChangesCredentials, processVars, controllerVars, workerVars
    <3> QED
      BY <1>1, <3>1, <3>2, <3>3 DEF Next
  <2>9. PanicInv'
    <3>1. CASE WorkerPanics
      <4>1. cpc \in AfterAttach /\ held
        BY <2>0, <3>1 DEF WorkerPanics, WaitingInv, NeverAborts, AfterAttach, BeforeAttach,
          TypeOK, ControllerTypeOK, ControllerStates
      <4>2. pending = TRUE
        BY <2>0, <2>1, <4>1 DEF CustodyInv, TypeOK, ChannelTypeOK
      <4> QED
        BY <3>1, <4>2 DEF WorkerPanics, PanicInv
    <3>2. CASE Controller
      BY <2>1, <3>2 DEF PanicInv, Controller, workerVars, SpawnFails, SpawnSucceeds,
        GuardTakes, RaisePending, SendAdopt, BeginAttempt, SendAttempt, ReceiveReply,
        ReplyTimeout, DropError
    <3>3. CASE WorkerStep
      <4>1. wpc' # "panicked"
        BY <3>3 DEF WorkerStep, RecvAdopt, RecvAttempt, RecvDisconnected, FirstWait, Hangup,
          GracePoll, SigKill, Terminate, Poll, StorePending, Respond, Returns, AfterAttempt
      <4> QED
        BY <4>1 DEF PanicInv
    <3>4. CASE Environment
      BY <2>1, <3>4 DEF PanicInv, Environment, ThreadVars, workerVars
    <3> QED
      BY <1>1, <3>1, <3>2, <3>3, <3>4 DEF Next
  <2>10. LooksAlive'
    <3>0. LooksAlive /\ code259 \in BOOLEAN
      BY DEF IInv, TypeOK
    <3>1. CASE Environment
      BY <3>0, <3>1 DEF LooksAlive, Environment, ChildExits, Exits,
        ChangesCredentials, RecoveryAssumption
    <3>2. CASE UNCHANGED <<proc, code259>>
      BY <3>0, <3>2 DEF LooksAlive
    <3>3. CASE SpawnSucceeds \/ SigKill \/ Terminate
      BY <3>0, <3>3 DEF LooksAlive, SpawnSucceeds, Created, SigKill, Terminate,
        Killed
    <3>4. CASE FirstWait \/ Poll
      BY <3>0, <3>4 DEF LooksAlive, FirstWait, Poll, SeesStatus
    <3>5. CASE GracePoll
      BY <3>0, <3>5 DEF LooksAlive, GracePoll, SeesStatus
    <3> QED
      BY <1>1, <3>1, <3>2, <3>3, <3>4, <3>5 DEF Next, Controller, WorkerStep,
        processVars, SpawnFails, GuardTakes, RaisePending, SendAdopt,
        BeginAttempt, SendAttempt, ReceiveReply, ReplyTimeout, DropError,
        RecvAdopt, RecvAttempt, RecvDisconnected, Hangup, StorePending,
        Respond, WorkerPanics
  <2>8. ~AutoReap => proc' # "lost"
    BY <1>1 DEF IInv, Next, vars, ThreadVars, processVars, controllerVars, workerVars, Controller,
    WorkerStep, Environment, ChildExits, Exits, ChangesCredentials, Created, SpawnFails,
    SpawnSucceeds, GuardTakes, RaisePending, SendAdopt, BeginAttempt,
    SendAttempt, ReceiveReply, ReplyTimeout, DropError, RecvAdopt, RecvAttempt,
    RecvDisconnected, FirstWait, Hangup, GracePoll, SigKill, Killed, Terminate,
    Poll, StorePending, Respond, WorkerPanics, Returns, AfterAttempt
  <2> QED
    BY <1>0, <2>2, <2>3, <2>4, <2>5, <2>6, <2>7, <2>8, <2>9, <2>10 DEF IInv
<1>2. CASE UNCHANGED vars
  BY <1>0, <1>2
  DEF IInv, vars, NeverAborts, WaitingInv, CreationInv, WorkerInv, PanicInv,
    LooksAlive, AdoptFirst,
    InChannel, ChannelInv, CustodyInv, SenderAlive
<1> QED
  BY <1>1, <1>2

\* The invariant holds on both platforms, also when the worker may unwind.
THEOREM CustodyInvariant == Spec => []IInv
<1>1. Init => IInv
  BY CustodyInit
<1>2. IInv /\ [Next]_vars => IInv'
  BY CustodyStep
<1> QED
  BY <1>1, <1>2, PTL DEF Spec

LEMMA IInvOwners ==
  ASSUME IInv, wpc # "panicked", proc \notin {"none", "reaped"}
  PROVE  \E o \in Owners: Owners = {o}
<1> USE DEF IInv
<1>1. CASE cpc \in {"spawned", "attaching"}
  <2>1. ~held /\ queue = <<>>
    BY <1>1 DEF WaitingInv, BeforeAttach
  <2>2. ~InChannel
    BY <2>1 DEF InChannel
  <2>3. Owners = {"spawner"}
    BY <1>1, <2>1, <2>2 DEF Owners
  <2> QED
    BY <2>3
<1>2. CASE cpc = "guarded"
  <2>1. ~held /\ queue = <<>>
    BY <1>2 DEF WaitingInv, BeforeAttach
  <2>2. ~InChannel
    BY <2>1 DEF InChannel
  <2>3. Owners = {"guard"}
    BY <1>2, <2>1, <2>2 DEF Owners
  <2> QED
    BY <2>3
<1>3. CASE cpc \in AfterAttach
  <2>1. InChannel \/ held
    BY <1>3 DEF CustodyInv
  <2>2. InChannel => ~held
    BY DEF ChannelInv
  <2>3. cpc \notin {"spawned", "attaching", "guarded"}
    BY <1>3 DEF AfterAttach
  <2>4. CASE held
    <3>1. Owners = {"worker"}
      BY <2>2, <2>3, <2>4 DEF Owners
    <3> QED
      BY <3>1
  <2>5. CASE InChannel
    <3>1. Owners = {"channel"}
      BY <2>2, <2>3, <2>5 DEF Owners
    <3> QED
      BY <3>1
  <2> QED
    BY <2>1, <2>4, <2>5
<1> QED
  BY <1>1, <1>2, <1>3
  DEF CreationInv, NeverAborts, AfterAttach, TypeOK, ControllerTypeOK,
    ControllerStates

\* A created child that is not reaped has exactly one owner in every state of
\* every run, timeouts and the dropped error value included, until the worker
\* unwinds, which is the only way to lose it (lib.rs:305, win/mod.rs:52).
THEOREM OnlyUnwindingDiscards == Spec => [](wpc # "panicked" => NeverDiscarded)
<1>1. IInv => (wpc # "panicked" => NeverDiscarded)
  BY IInvOwners DEF NeverDiscarded
<1> QED
  BY <1>1, CustodyInvariant, PTL

\* Where DuplicateHandle does not fail, and so always on Unix, it never is.
THEOREM ChildNeverDiscarded ==
  ASSUME HandleFailure = FALSE
  PROVE  Spec => []NeverDiscarded
<1>1. IInv => NeverDiscarded
  BY IInvOwners DEF IInv, PanicInv, NeverDiscarded
<1> QED
  BY <1>1, CustodyInvariant, PTL

\* An answer "true" is proof that the exact child was reaped, and the flag
\* never contradicts it (lib.rs:361-370).
THEOREM RecoverIsTruthful == Spec => []TrueIsFinal
<1>1. ASSUME IInv PROVE TrueIsFinal
  <2>1. CASE cpc \in AfterAttach
    BY <1>1, <2>1 DEF IInv, CustodyInv, TrueIsFinal
  <2>2. CASE cpc \in BeforeAttach
    BY <1>1, <2>2 DEF IInv, WaitingInv, TrueIsFinal
  <2> QED
    BY <1>1, <2>1, <2>2 DEF IInv, NeverAborts, AfterAttach, BeforeAttach,
      TypeOK, ControllerTypeOK, ControllerStates
<1> QED
  BY <1>1, CustodyInvariant, PTL

\* A lowered flag is proof that the exact child was reaped, whatever kills were
\* refused, deadlines missed and stale attempts served (lib.rs:361-366).
THEOREM FlagIsHonest == Spec => []PendingIsHonest
<1>1. IInv => PendingIsHonest
  BY DEF IInv, CustodyInv, WaitingInv, PendingIsHonest, AfterAttach, BeforeAttach
<1> QED
  BY <1>1, CustodyInvariant, PTL

\* Unless the program may ignore SIGCHLD, the pid the worker signals is pinned
\* by the uncollected child at both of its kill(2) calls.
THEOREM SignalsHitTheChild == Spec => []SignalsOnlyTheChild
<1>1. ASSUME IInv PROVE SignalsOnlyTheChild
  <2> SUFFICES ASSUME wpc \in {"kill", "sigkill"}
               PROVE  proc \in {"live", "dying", "exited"} \/ (AutoReap /\ proc = "lost")
    BY DEF SignalsOnlyTheChild
  <2>1. held
    BY <1>1 DEF IInv, WorkerInv
  <2>2. cpc \in AfterAttach
    BY <1>1, <2>1 DEF IInv, WaitingInv, NeverAborts, AfterAttach, BeforeAttach,
      TypeOK, ControllerTypeOK, ControllerStates
  <2>3. proc \notin {"none", "reaped"}
    BY <1>1, <2>1, <2>2 DEF IInv, CustodyInv, CreationInv, AfterAttach
  <2>4. proc = "lost" => AutoReap
    BY <1>1, RecoveryAssumption DEF IInv
  <2> QED
    BY <1>1, <2>3, <2>4 DEF IInv, TypeOK, ProcessTypeOK, ProcessStates
<1> QED
  BY <1>1, CustodyInvariant, PTL

\* attach never finds the worker gone: bounded_local_recovery_or_abort
\* (lib.rs:286) is not reached.
THEOREM AttachNeverAborts == Spec => []NeverAborts
<1>1. IInv => NeverAborts
  BY DEF IInv
<1> QED
  BY <1>1, CustodyInvariant, PTL

-----------------------------------------------------------------------------
(* The two threads implement ExactChildCustody.                            *)

\* While an owner exists the abstract child follows the process.
FollowsProcess ==
  /\ proc = "none" => CustodyOfChild = "unborn"
  /\ proc = "reaped" => CustodyOfChild = "reaped"
  /\ proc \notin {"none", "reaped"} => CustodyOfChild = "owned"

LEMMA CustodyFollows == HandleFailure = FALSE /\ IInv => FollowsProcess
<1> SUFFICES ASSUME HandleFailure = FALSE, IInv PROVE FollowsProcess
  OBVIOUS
<1>1. proc \notin {"none", "reaped"} => Owners # {}
  BY IInvOwners DEF IInv, PanicInv
<1> QED
  BY <1>1 DEF CustodyOfChild, FollowsProcess

LEMMA CustodyFollowsNext ==
  ASSUME HandleFailure = FALSE
  PROVE  IInv' => FollowsProcess'
<1>1. IInv => FollowsProcess
  BY CustodyFollows
<1> QED
  BY <1>1, PTL

LEMMA RefinementInit == Init => Custody!Init
  BY DEF Init, ProcessInit, Custody!Init, CustodyOfChild

LEMMA RefinementStep ==
  ASSUME HandleFailure = FALSE, IInv, IInv', Next
  PROVE  Custody!Next \/ UNCHANGED Custody!custodyVars
<1> DEFINE c == CustodyOfChild
<1>1. /\ proc = "none" => c = "unborn"
      /\ proc = "reaped" => c = "reaped"
      /\ proc \notin {"none", "reaped"} => c = "owned"
  BY CustodyFollows DEF FollowsProcess
<1>2. /\ proc' = "none" => c' = "unborn"
      /\ proc' = "reaped" => c' = "reaped"
      /\ proc' \notin {"none", "reaped"} => c' = "owned"
  BY CustodyFollowsNext DEF FollowsProcess
<1>3. IInv
  OBVIOUS
<1> HIDE DEF c
<1> USE <1>1, <1>2
<1>4. CASE SpawnSucceeds
  <2>1. c = "unborn" /\ c' = "owned" /\ pending' = pending /\ answer' = answer
    BY <1>4 DEF SpawnSucceeds, Created
  <2>2. Custody!Spawn
    BY <2>1 DEF Custody!Spawn, c
  <2> QED
    BY <2>2 DEF Custody!Next
<1>5. CASE RaisePending
  <2>1. /\ c = "owned" /\ c' = c /\ answer = "none" /\ answer' = answer
        /\ ~pending /\ pending' = TRUE
    BY <1>3, <1>5 DEF RaisePending, processVars, IInv, WaitingInv, CreationInv,
      BeforeAttach
  <2>2. Custody!Retain
    BY <2>1 DEF Custody!Retain, c
  <2> QED
    BY <2>2 DEF Custody!Next
<1>6. CASE BeginAttempt \/ SendAttempt \/ ReceiveReply \/ ReplyTimeout
  <2>1. c' = c /\ pending' = pending
    BY <1>6 DEF BeginAttempt, SendAttempt, ReceiveReply, ReplyTimeout,
      processVars
  <2>2. cpc \in AfterAttach
    BY <1>6 DEF BeginAttempt, SendAttempt, ReceiveReply, ReplyTimeout,
      AfterAttach
  <2>3. c # "unborn" /\ (answer' = "true" /\ answer' # answer => c = "reaped" /\ ~pending)
    BY <1>3, <1>6, <2>2 DEF BeginAttempt, SendAttempt, ReceiveReply,
      ReplyTimeout, IInv, CustodyInv, CreationInv, AfterAttach
  <2>4. answer' = answer \/ answer' \in {"true", "false", "error"}
    BY <1>3, <1>6 DEF BeginAttempt, SendAttempt, ReceiveReply, ReplyTimeout,
      IInv, TypeOK, ControllerTypeOK, Results
  <2>5. CASE answer' = answer
    BY <2>1, <2>5 DEF Custody!custodyVars, c
  <2>6. CASE answer' # answer
    <3>1. Custody!Answer(answer')
      BY <2>1, <2>3, <2>6 DEF Custody!Answer, c
    <3> QED
      BY <2>4, <2>6, <3>1 DEF Custody!Next
  <2> QED
    BY <2>5, <2>6
<1>7. CASE StorePending
  <2>1. c' = c /\ answer' = answer /\ pending' = held
    BY <1>7 DEF StorePending, processVars, controllerVars
  <2>2. cpc \in AfterAttach
    BY <1>3, <1>7 DEF StorePending, IInv, WaitingInv, NeverAborts, AfterAttach,
      BeforeAttach, TypeOK, ControllerTypeOK, ControllerStates
  <2>3. ~held => c = "reaped"
    BY <1>3, <1>7, <2>2 DEF StorePending, IInv, CustodyInv, ChannelInv
  <2>4. held => pending
    BY <1>3, <2>2 DEF IInv, CustodyInv
  <2>5. CASE held
    <3>1. pending' = pending
      BY <1>3, <2>1, <2>4, <2>5 DEF IInv, TypeOK, ChannelTypeOK, WorkerTypeOK
    <3> QED
      BY <2>1, <3>1 DEF Custody!custodyVars, c
  <2>6. CASE ~held /\ pending
    <3>1. pending' = FALSE
      BY <1>3, <2>1, <2>6 DEF IInv, TypeOK, WorkerTypeOK
    <3>2. Custody!Clear
      BY <2>1, <2>3, <2>6, <3>1 DEF Custody!Clear, c
    <3> QED
      BY <3>2 DEF Custody!Next
  <2>7. CASE ~held /\ ~pending
    <3>1. pending' = pending
      BY <1>3, <2>1, <2>7 DEF IInv, TypeOK, ChannelTypeOK, WorkerTypeOK
    <3> QED
      BY <2>1, <3>1 DEF Custody!custodyVars, c
  <2> QED
    BY <2>5, <2>6, <2>7
<1>8. CASE \/ FirstWait \/ Hangup \/ GracePoll \/ SigKill \/ Terminate \/ Poll
           \/ RecvAdopt \/ RecvAttempt \/ RecvDisconnected \/ Respond
           \/ WorkerPanics \/ Environment \/ SpawnFails \/ GuardTakes
           \/ SendAdopt \/ DropError
  <2>1. pending' = pending /\ answer' = answer
    BY <1>8 DEF FirstWait, Hangup, GracePoll, SigKill, Terminate, Poll,
      RecvAdopt, RecvAttempt, RecvDisconnected, Respond, WorkerPanics,
      Environment, ThreadVars, SpawnFails, GuardTakes, SendAdopt, DropError,
      controllerVars
  <2>2. \/ proc' = proc
        \/ proc \notin {"none", "reaped"} /\ proc' # "none"
    BY <1>3, <1>8 DEF FirstWait, Hangup, GracePoll, SigKill, Terminate, Poll,
      RecvAdopt, RecvAttempt, RecvDisconnected, Respond, WorkerPanics,
      Environment, SpawnFails, GuardTakes, SendAdopt, DropError,
      SeesStatus, StatusAvailable, Killed, ChildExits, Exits, ChangesCredentials, processVars
  <2>3. c' = c \/ (c = "owned" /\ c' = "reaped")
    BY <2>2
  <2>4. CASE c' = c
    BY <2>1, <2>4 DEF Custody!custodyVars, c
  <2>5. CASE c = "owned" /\ c' = "reaped"
    <3>1. Custody!Reap
      BY <2>1, <2>5 DEF Custody!Reap, c
    <3> QED
      BY <3>1 DEF Custody!Next
  <2> QED
    BY <2>3, <2>4, <2>5
<1> QED
  BY <1>4, <1>5, <1>6, <1>7, <1>8 DEF Next, Controller, WorkerStep

LEMMA RefinementStutter ==
  ASSUME UNCHANGED vars PROVE UNCHANGED Custody!custodyVars
  BY DEF vars, Custody!custodyVars, CustodyOfChild, Owners, InChannel

\* What the threads, the channel and the signals do is a behaviour of the
\* custody promise: owned until reaped, lowered after reaped, honest answers.
THEOREM ImplementsCustody ==
  ASSUME HandleFailure = FALSE
  PROVE  Spec => CustodySpec
<1>1. Init => Custody!Init
  BY RefinementInit
<1>2. IInv /\ IInv' /\ [Next]_vars => [Custody!Next]_(Custody!custodyVars)
  BY RefinementStep, RefinementStutter
<1> QED
  BY <1>1, <1>2, CustodyInvariant, PTL DEF Spec, CustodySpec, Custody!Spec
=============================================================================
