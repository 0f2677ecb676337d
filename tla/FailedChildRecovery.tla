------------------------ MODULE FailedChildRecovery ------------------------
(***************************************************************************)
(* Recovery of the exact child of a guarded spawn that failed after the    *)
(* child was created (src/src/lib.rs:85-378, kill: 754-822).               *)
(*                                                                         *)
(* Two threads share a flag and an unbounded channel:                      *)
(*   controller  the thread that spawns and later owns the                 *)
(*               ContainedPtySpawnError (attach, attempt_inner, drop)      *)
(*   worker      failed_child_recovery_worker, started before the child    *)
(* The child itself is the process of OsProcess.                           *)
(***************************************************************************)
EXTENDS OsProcess, Sequences

CONSTANTS
  Platform,      \* "unix" or "windows"
  MaxAttempts,   \* bound: calls of recover() on one error value
  GracePolls,    \* try_wait polls between SIGHUP and SIGKILL (5 in the code)
  HandleFailure  \* Windows: DuplicateHandle may fail inside WinChild

ASSUME RecoveryAssumption ==
  /\ Platform \in {"unix", "windows"}
  /\ Platform = "windows" => ~AutoReap /\ ~CredentialChange
  /\ MaxAttempts \in Nat \ {0}
  /\ GracePolls \in Nat \ {0}
  /\ HandleFailure \in BOOLEAN
  /\ HandleFailure => Platform = "windows"

VARIABLES
  code259,  \* Windows: the child ended with exit code STILL_ACTIVE
  queue,    \* the mpsc channel to the worker
  pending,  \* the shared AtomicBool
  cpc,      \* where the controller thread is
  issued,   \* number of Attempt commands sent so far
  reply,    \* what arrived on the response channel of Attempt number issued
  answer,   \* the last result of recover()
  wpc,      \* where the worker thread is
  held,     \* the worker's child.is_some()
  serving,  \* number of the Attempt being served; 0 outside of one
  polls,    \* grace polls made since SIGHUP
  result    \* what attempt_failed_child_recovery returned

processVars    == <<proc, denied, code259>>
controllerVars == <<cpc, issued, answer>>
workerVars     == <<wpc, held, serving, polls, result>>
vars == <<proc, denied, code259, queue, pending, cpc, issued, reply, answer,
          wpc, held, serving, polls, result>>

Results == {"true", "false", "error"}

Adopt       == [op |-> "Adopt", id |-> 0]
Attempt(n)  == [op |-> "Attempt", id |-> n]
Command     == {Adopt} \cup {Attempt(n): n \in 1..MaxAttempts}

ControllerStates ==
  {"prepared", "unspawned", "spawned", "guarded", "attaching", "attached",
   "sending", "awaiting", "idle", "dropped", "aborted"}

WorkerStates ==
  {"recv", "try_wait", "kill", "grace", "sigkill", "poll", "store",
   "respond", "exited", "panicked"}

\* The controller's Sender has not been dropped yet.
SenderAlive == cpc \notin {"unspawned", "guarded", "dropped", "aborted"}

\* The worker's Receiver has been dropped: send() fails.
ReceiverGone == wpc \in {"exited", "panicked"}

Init ==
  /\ ProcessInit /\ code259 = FALSE
  /\ queue = <<>>
  /\ pending = FALSE
  /\ cpc = "prepared" /\ issued = 0 /\ reply = "none" /\ answer = "none"
  /\ wpc = "recv" /\ held = FALSE /\ serving = 0 /\ polls = 0
  /\ result = "none"

-----------------------------------------------------------------------------
(* The controller.                                                         *)

\* The spawn fails before a child exists; the prepared recovery is dropped.
SpawnFails ==
  /\ cpc = "prepared"
  /\ cpc' = "unspawned"
  /\ UNCHANGED <<processVars, queue, pending, issued, reply, answer, workerVars>>

SpawnSucceeds ==
  /\ cpc = "prepared"
  /\ Created
  /\ cpc' = "spawned"
  /\ UNCHANGED <<code259, queue, pending, issued, reply, answer, workerVars>>

\* Containment succeeds: the caller's guard owns the child, recovery is dropped.
GuardTakes ==
  /\ cpc = "spawned"
  /\ cpc' = "guarded"
  /\ UNCHANGED <<processVars, queue, pending, issued, reply, answer, workerVars>>

\* Deviation: attach without the pending store.
RaisePending_Skipped ==
  /\ cpc = "spawned"
  /\ cpc' = "attaching"
  /\ UNCHANGED <<processVars, queue, pending, issued, reply, answer, workerVars>>

\* after_spawn: attach raises the flag before it gives the child away.
RaisePending ==
  /\ cpc = "spawned"
  /\ pending' = TRUE
  /\ cpc' = "attaching"
  /\ UNCHANGED <<processVars, queue, issued, reply, answer, workerVars>>

\* attach: with no receiver left the child is killed here and the process
\* aborts (bounded_local_recovery_or_abort).
SendAdopt ==
  /\ cpc = "attaching"
  /\ IF ReceiverGone
     THEN cpc' = "aborted" /\ UNCHANGED queue
     ELSE cpc' = "attached" /\ queue' = Append(queue, Adopt)
  /\ UNCHANGED <<processVars, pending, issued, reply, answer, workerVars>>

\* attempt_inner: a lowered flag answers without asking the worker.
\* after_spawn makes the first call itself, later ones are the caller's.
BeginAttempt ==
  /\ cpc \in {"attached", "idle"}
  /\ issued < MaxAttempts
  /\ IF pending
     THEN cpc' = "sending" /\ UNCHANGED answer
     ELSE cpc' = "idle" /\ answer' = "true"
  /\ UNCHANGED <<processVars, queue, pending, issued, reply, workerVars>>

SendAttempt ==
  /\ cpc = "sending"
  /\ IF ReceiverGone
     THEN /\ cpc' = "idle"
          /\ answer' = "error"
          /\ UNCHANGED <<queue, issued, reply>>
     ELSE /\ cpc' = "awaiting"
          /\ issued' = issued + 1
          /\ queue' = Append(queue, Attempt(issued + 1))
          /\ reply' = "none"
          /\ UNCHANGED answer
  /\ UNCHANGED <<processVars, pending, workerVars>>

ReceiveReply ==
  /\ cpc = "awaiting"
  /\ reply # "none"
  /\ answer' = reply
  /\ reply' = "none"
  /\ cpc' = "idle"
  /\ UNCHANGED <<processVars, queue, pending, issued, workerVars>>

\* recv_timeout gives up (timeout + 250 ms), or the worker's end is gone. The
\* Attempt stays in the channel and will still be served.
ReplyTimeout ==
  /\ cpc = "awaiting"
  /\ reply = "none"
  /\ answer' = "error"
  /\ cpc' = "idle"
  /\ UNCHANGED <<processVars, queue, pending, issued, reply, workerVars>>

\* The ContainedPtySpawnError is dropped, and its Sender with it.
DropError ==
  /\ cpc = "idle"
  /\ cpc' = "dropped"
  /\ UNCHANGED <<processVars, queue, pending, issued, reply, answer, workerVars>>

\* What a thread inside attach or recover() runs without the caller's help.
ControllerStep ==
  \/ SendAdopt
  \/ cpc = "attached" /\ BeginAttempt
  \/ SendAttempt
  \/ ReceiveReply
  \/ ReplyTimeout

-----------------------------------------------------------------------------
(* The worker.                                                             *)

RecvAdopt ==
  /\ wpc = "recv"
  /\ queue # <<>> /\ Head(queue) = Adopt
  /\ queue' = Tail(queue)
  /\ held' = TRUE
  /\ UNCHANGED <<processVars, pending, controllerVars, reply,
                 wpc, serving, polls, result>>

RecvAttempt ==
  /\ wpc = "recv"
  /\ queue # <<>> /\ Head(queue) # Adopt
  /\ serving' = Head(queue).id
  /\ queue' = Tail(queue)
  /\ wpc' = "try_wait"
  /\ UNCHANGED <<processVars, pending, controllerVars, reply, held, polls, result>>

\* Deviation: no "while child.is_some()" after the receive loop.
RecvDisconnected_NoDrain ==
  /\ wpc = "recv"
  /\ queue = <<>> /\ ~SenderAlive
  /\ wpc' = "exited" /\ held' = FALSE
  /\ UNCHANGED <<processVars, queue, pending, controllerVars, reply,
                 serving, polls, result>>

\* recv() fails only after every queued command was received.
RecvDisconnected ==
  /\ wpc = "recv"
  /\ queue = <<>> /\ ~SenderAlive
  /\ wpc' = IF held THEN "try_wait" ELSE "exited"
  /\ UNCHANGED <<processVars, queue, pending, controllerVars, reply,
                 held, serving, polls, result>>

\* attempt_failed_child_recovery returns r.
Returns(r) == wpc' = "store" /\ result' = r

\* What try_wait tells of the child. WinChild::is_complete takes exit code 259
\* for "still running" and answers the same when it cannot read the code.
SeesStatus  == StatusAvailable /\ ~code259
SeesNothing == StillRunning \/ (Platform = "windows" /\ proc = "exited")

\* Deviation: a collected status does not end the attempt.
FirstWait_GoesOn ==
  /\ wpc = "try_wait"
  /\ \/ ~held /\ Returns("true") /\ UNCHANGED proc
     \/ /\ held /\ ~WaitFails
        /\ proc' = IF SeesStatus THEN "reaped" ELSE proc
        /\ wpc' = "kill" /\ UNCHANGED result
     \/ held /\ WaitFails /\ Returns("error") /\ UNCHANGED proc
  /\ UNCHANGED <<denied, code259, queue, pending, controllerVars, reply, held, serving,
                 polls>>

\* Deviation: child.take() is forgotten.
FirstWait_KeepsChild ==
  /\ wpc = "try_wait"
  /\ \/ ~held /\ Returns("true") /\ UNCHANGED proc
     \/ held /\ SeesStatus /\ proc' = "reaped" /\ Returns("true")
     \/ held /\ WaitFails /\ Returns("error") /\ UNCHANGED proc
     \/ held /\ SeesNothing /\ wpc' = "kill" /\ UNCHANGED <<proc, result>>
  /\ UNCHANGED <<denied, code259, queue, pending, controllerVars, reply, held, serving,
                 polls>>

\* The try_wait before the kill.
FirstWait ==
  /\ wpc = "try_wait"
  /\ \/ ~held /\ Returns("true") /\ UNCHANGED <<proc, held>>
     \/ /\ held /\ SeesStatus
        /\ proc' = "reaped" /\ held' = FALSE
        /\ Returns("true")
     \/ held /\ WaitFails /\ Returns("error") /\ UNCHANGED <<proc, held>>
     \/ held /\ SeesNothing /\ wpc' = "kill" /\ UNCHANGED <<proc, held, result>>
  /\ UNCHANGED <<denied, code259, queue, pending, controllerVars, reply, serving, polls>>

\* ChildKiller::kill, first half: SIGHUP by pid. A pid the kernel has already
\* discarded is unknown (ESRCH) or names a stranger.
Hangup ==
  /\ wpc = "kill" /\ Platform = "unix"
  /\ \/ (denied \/ proc = "lost") /\ Returns("error")
     \/ (~denied \/ proc = "lost") /\ wpc' = "grace" /\ UNCHANGED result
  /\ UNCHANGED <<processVars, queue, pending, controllerVars, reply, held,
                 serving, polls>>

\* One of the polls that give the child time to die of SIGHUP; a failing
\* try_wait counts as "not yet".
GracePoll ==
  /\ wpc = "grace"
  /\ IF SeesStatus
     THEN proc' = "reaped" /\ wpc' = "poll" /\ polls' = 0
     ELSE /\ UNCHANGED proc
          /\ polls' = (polls + 1) % GracePolls
          /\ wpc' = IF polls + 1 = GracePolls THEN "sigkill" ELSE "grace"
  /\ UNCHANGED <<denied, code259, queue, pending, controllerVars, reply, held, serving,
                 result>>

\* Second half: std::process::Child::kill.
SigKill ==
  /\ wpc = "sigkill"
  /\ \/ /\ denied \/ proc = "lost"
        /\ Returns("error")
        /\ UNCHANGED proc
     \/ (~denied \/ proc = "lost") /\ Killed /\ wpc' = "poll" /\ UNCHANGED result
  /\ UNCHANGED <<denied, code259, queue, pending, controllerVars, reply, held, serving,
                 polls>>

\* WinChild::do_kill: TerminateProcess is refused once termination began, so
\* a child that ended but looks alive makes every attempt fail here.
Terminate ==
  /\ wpc = "kill" /\ Platform = "windows"
  /\ Killed
  /\ IF proc = "live" THEN wpc' = "poll" /\ UNCHANGED result
                      ELSE Returns("error")
  /\ UNCHANGED <<denied, code259, queue, pending, controllerVars, reply, held, serving,
                 polls>>

\* The wait loop after the kill; an iteration that sleeps again changes
\* nothing, the deadline ends it.
Poll ==
  /\ wpc = "poll"
  /\ \/ SeesStatus /\ proc' = "reaped" /\ held' = FALSE /\ Returns("true")
     \/ WaitFails /\ Returns("error") /\ UNCHANGED <<proc, held>>
     \/ SeesNothing /\ Returns("false") /\ UNCHANGED <<proc, held>>
  /\ UNCHANGED <<denied, code259, queue, pending, controllerVars, reply, serving, polls>>

\* Where the worker goes on once an attempt is over.
AfterAttempt ==
  IF serving # 0 THEN "recv" ELSE IF held THEN "try_wait" ELSE "exited"

\* Deviation: only the drain loop stores the flag.
StorePending_Skipped ==
  /\ wpc = "store"
  /\ pending' = IF serving # 0 THEN pending ELSE held
  /\ wpc' = IF serving # 0 THEN "respond" ELSE AfterAttempt
  /\ result' = IF serving # 0 THEN result ELSE "none"
  /\ UNCHANGED <<processVars, queue, controllerVars, reply, held, serving, polls>>

\* Deviation: the flag is computed from the result, a timeout lowers it.
StorePending_FromResult ==
  /\ wpc = "store"
  /\ pending' = (result = "error")
  /\ wpc' = IF serving # 0 THEN "respond" ELSE AfterAttempt
  /\ result' = IF serving # 0 THEN result ELSE "none"
  /\ UNCHANGED <<processVars, queue, controllerVars, reply, held, serving, polls>>

StorePending ==
  /\ wpc = "store"
  /\ pending' = held
  /\ wpc' = IF serving # 0 THEN "respond" ELSE AfterAttempt
  /\ result' = IF serving # 0 THEN result ELSE "none"
  /\ UNCHANGED <<processVars, queue, controllerVars, reply, held, serving, polls>>

\* response.send: lost when the caller stopped waiting for this attempt.
Respond ==
  /\ wpc = "respond"
  /\ reply' = IF cpc = "awaiting" /\ serving = issued THEN result ELSE reply
  /\ wpc' = AfterAttempt
  /\ serving' = 0
  /\ result' = "none"
  /\ UNCHANGED <<processVars, queue, pending, controllerVars, held, polls>>

\* Deviation: the unwinding worker lowers the flag.
WorkerPanics_Lowers ==
  /\ HandleFailure
  /\ held
  /\ wpc \in {"try_wait", "kill", "poll"}
  /\ wpc' = "panicked"
  /\ held' = FALSE /\ pending' = FALSE
  /\ queue' = <<>>
  /\ serving' = 0
  /\ UNCHANGED <<processVars, controllerVars, reply, polls, result>>

\* WinChild duplicates its handle with unwrap(): the worker thread unwinds,
\* dropping the child's handle, the channel and the response sender.
WorkerPanics ==
  /\ HandleFailure
  /\ held
  /\ wpc \in {"try_wait", "kill", "poll"}
  /\ wpc' = "panicked"
  /\ held' = FALSE
  /\ queue' = <<>>
  /\ serving' = 0
  /\ UNCHANGED <<processVars, pending, controllerVars, reply, polls, result>>

WorkerStep ==
  \/ RecvAdopt \/ RecvAttempt \/ RecvDisconnected
  \/ FirstWait \/ Hangup \/ GracePoll \/ SigKill \/ Terminate \/ Poll
  \/ StorePending \/ Respond

-----------------------------------------------------------------------------
Controller ==
  \/ SpawnFails \/ SpawnSucceeds \/ GuardTakes \/ RaisePending
  \/ SendAdopt \/ BeginAttempt \/ SendAttempt \/ ReceiveReply \/ ReplyTimeout
  \/ DropError

ThreadVars == <<queue, pending, controllerVars, reply, workerVars>>

\* A child that is not terminated chooses its exit code.
ChildExits ==
  /\ Exits
  /\ code259' \in IF Platform = "windows" /\ proc = "live" THEN BOOLEAN
                                                          ELSE {code259}

Environment ==
  /\ ChildExits \/ (ChangesCredentials /\ UNCHANGED code259)
  /\ UNCHANGED ThreadVars

Next == Controller \/ WorkerStep \/ WorkerPanics \/ Environment

Spec == Init /\ [][Next]_vars

\* try_wait succeeds in taking the status.
Collects == (FirstWait \/ Poll) /\ proc' = "reaped"

\* Both threads run their code; what the caller does between two calls, the
\* child's own exit and every failure are never assumed. A killed child dies,
\* and GetExitCodeProcess does not fail at every one of the worker's queries.
Fairness ==
  /\ WF_vars(WorkerStep)
  /\ SF_vars(Collects)
  /\ WF_vars(ControllerStep)
  /\ WF_vars(Dies /\ UNCHANGED <<code259, ThreadVars>>)

FairSpec == Spec /\ Fairness

-----------------------------------------------------------------------------
(* Properties.                                                             *)

ChannelTypeOK == queue \in Seq(Command) /\ pending \in BOOLEAN

ControllerTypeOK ==
  /\ cpc \in ControllerStates
  /\ issued \in 0..MaxAttempts
  /\ cpc = "sending" => issued < MaxAttempts
  /\ reply \in Results \cup {"none"}
  /\ answer \in Results \cup {"none"}

WorkerTypeOK ==
  /\ wpc \in WorkerStates
  /\ held \in BOOLEAN
  /\ serving \in 0..MaxAttempts
  /\ polls \in 0..(GracePolls - 1)
  /\ result \in Results \cup {"none"}

\* Types of the variables; grace polls stay below GracePolls (lib.rs:772).
TypeOK ==
  /\ ProcessTypeOK /\ code259 \in BOOLEAN
  /\ ChannelTypeOK /\ ControllerTypeOK /\ WorkerTypeOK

\* Who holds the std::process::Child or WinChild value.
InChannel == \E i \in 1..Len(queue): queue[i] = Adopt

Owners ==
  {o \in {"spawner", "guard", "channel", "worker"}:
     \/ o = "spawner" /\ cpc \in {"spawned", "attaching"}
     \/ o = "guard"   /\ cpc = "guarded"
     \/ o = "channel" /\ InChannel
     \/ o = "worker"  /\ held}

\* A child that was created and not yet reaped has exactly one owner, also
\* while it travels through the channel and after the error value was dropped
\* ("never returned to the caller or discarded", lib.rs:305).
NeverDiscarded ==
  proc \notin {"none", "reaped"} => \E o \in Owners: Owners = {o}

\* recover() says "true" only when the exact child was reaped, and after that
\* recovery_pending() never says there is something left (lib.rs:361-370),
\* whatever timed-out attempts are still queued.
TrueIsFinal == answer = "true" => proc = "reaped" /\ ~pending

\* Once attach raised the flag it is lowered only after the child was reaped:
\* neither a refused kill, a deadline nor a stale attempt lowers it.
PendingIsHonest ==
  cpc \in {"attaching", "attached", "sending", "awaiting", "idle", "dropped"}
    /\ ~pending => proc = "reaped"

\* The worker signals by number (lib.rs:761), so at that moment the number
\* must still be pinned by an uncollected child ("exact spawn-owned child
\* handle", lib.rs:266); only an embedding program that ignores SIGCHLD can
\* have released it.
SignalsOnlyTheChild ==
  wpc \in {"kill", "sigkill"} =>
    proc \in {"live", "dying", "exited"} \/ (AutoReap /\ proc = "lost")

\* The controller never finds the worker gone when it gives the child away,
\* so bounded_local_recovery_or_abort never takes the whole program down.
NeverAborts == cpc # "aborted"

\* What keeps the worker from finishing: the child put itself out of reach of
\* signals, its status was collected elsewhere, it ended with the exit code
\* that stands for "running", or the worker unwound.
OutOfReach == denied \/ proc = "lost" \/ code259 \/ wpc = "panicked"

\* After the error value was dropped the child is reaped and the flag lowered
\* (lib.rs:306-307), unless it is out of the worker's reach: the code keeps
\* trying to kill a child it can neither signal nor see the end of.
DroppedRecoveryCompletes ==
  cpc = "dropped" ~> (proc = "reaped" /\ ~pending) \/ OutOfReach

\* The recovery thread of every spawn ends, successful spawns included
\* (lib.rs:113-118, 217-231).
WorkerStops == ~SenderAlive ~> wpc = "exited" \/ OutOfReach

\* Refinement: an unreaped child nobody owns maps to no abstract state.
CustodyOfChild ==
  CASE proc = "none"   -> "unborn"
    [] proc = "reaped" -> "reaped"
    [] OTHER           -> IF Owners # {} THEN "owned" ELSE "discarded"

Custody == INSTANCE ExactChildCustody WITH child <- CustodyOfChild

\* Every behaviour of the two threads is one ExactChildCustody allows.
CustodySpec == Custody!Spec

-----------------------------------------------------------------------------
(* The inductive invariant behind the safety properties.                   *)

BeforeAttach == {"prepared", "unspawned", "spawned", "guarded", "attaching"}
AfterAttach  == {"attached", "sending", "awaiting", "idle", "dropped"}

\* Until the child is given away the worker only waits (or has stopped).
WaitingInv ==
  cpc \in BeforeAttach =>
    /\ queue = <<>> /\ wpc \in {"recv", "exited"} /\ ~held
    /\ answer = "none" /\ reply = "none" /\ result = "none"
    /\ proc # "reaped"
    /\ pending <=> cpc = "attaching"

CreationInv == proc = "none" <=> cpc \in {"prepared", "unspawned"}

WorkerInv ==
  /\ wpc = "exited" => ~SenderAlive /\ ~held /\ queue = <<>>
  /\ wpc = "recv" => serving = 0
  /\ wpc = "respond" => serving # 0
  /\ wpc \notin {"recv", "exited", "panicked"} /\ serving = 0 => ~SenderAlive /\ queue = <<>>
  /\ wpc \in {"kill", "grace", "sigkill", "poll"} => held

\* A child that ended with code 259 is never reaped.
LooksAlive == code259 => proc = "exited"

\* A worker that unwound has served its last command with the flag up.
PanicInv == wpc = "panicked" => HandleFailure /\ pending /\ ~held

\* Adopt is the first command; while it waits the worker has nothing.
AdoptFirst == \A i \in 1..Len(queue): queue[i] = Adopt => i = 1

ChannelInv ==
  InChannel => wpc = "recv" /\ ~held /\ pending /\ proc # "reaped"

CustodyInv ==
  cpc \in AfterAttach =>
    /\ InChannel \/ held \/ proc = "reaped" \/ wpc = "panicked"
    /\ held /\ proc = "reaped" => wpc = "poll"
    /\ ~pending => proc = "reaped" /\ ~held
    /\ wpc = "store" /\ result = "true" => ~held
    /\ wpc = "respond" /\ result = "true" => ~pending
    /\ reply = "true" => ~pending
    /\ answer = "true" => ~pending

\* Everything the safety theorems need, in one inductive formula.
IInv ==
  /\ TypeOK /\ NeverAborts
  /\ WaitingInv /\ CreationInv /\ WorkerInv /\ PanicInv /\ LooksAlive
  /\ AdoptFirst /\ ChannelInv /\ CustodyInv
  /\ ~AutoReap => proc # "lost"
=============================================================================
