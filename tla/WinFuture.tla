------------------------------ MODULE WinFuture ------------------------------
(***************************************************************************)
(* A WinChild awaited as a future (src/src/win/mod.rs:49-62, 145-169).     *)
(*                                                                         *)
(* A poll that finds the child running duplicates the process handle,      *)
(* gives the raw value of the duplicate to a new thread and returns, which *)
(* closes the duplicate. What the value means when the thread gets to      *)
(* WaitForSingleObject is up to the process's handle table: Windows hands  *)
(* the values of closed handles out again.                                 *)
(***************************************************************************)
EXTENDS FiniteSets

CONSTANTS
  Values,          \* handle values the process may be given
  Waiters,         \* waiter threads alive at one time
  DuplicateFails   \* duplicating a handle may fail

ASSUME FutureAssumption ==
  /\ IsFiniteSet(Values) /\ Values # {}
  /\ Waiters # {}
  /\ DuplicateFails \in BOOLEAN

VARIABLES
  child,     \* "running", "exited", or "exited259": with code STILL_ACTIVE
  table,     \* what each handle value refers to
  poll,      \* where the future is
  duplicate, \* the value of the duplicate the poll holds
  woken,     \* the waker was called since the last poll
  waiter,    \* what each waiter thread does
  raw        \* the handle value it was given

vars == <<child, table, poll, duplicate, woken, waiter, raw>>

Polling == {"check", "duplicate", "spawn", "close"}
Results == {"ready", "error", "panicked"}

Init ==
  /\ child = "running"
  /\ table = [v \in Values |-> "closed"]
  /\ poll = "check" /\ duplicate \in Values /\ woken = FALSE
  /\ waiter = [w \in Waiters |-> "none"]
  /\ raw \in {[w \in Waiters |-> v]: v \in Values}

-----------------------------------------------------------------------------
(* <WinChild as Future>::poll.                                             *)

\* WinChild::is_complete, on a duplicate of its own, whose failure panics.
IsComplete ==
  /\ poll = "check"
  /\ \/ poll' = IF child = "exited" THEN "ready" ELSE "duplicate"
     \/ DuplicateFails /\ poll' = "panicked"
  /\ woken' = FALSE
  /\ UNCHANGED <<child, table, duplicate, waiter, raw>>

\* try_clone()? for the waiter.
Duplicate ==
  /\ poll = "duplicate"
  /\ \/ \E v \in Values:
          /\ table[v] = "closed"
          /\ table' = [table EXCEPT ![v] = "child"]
          /\ duplicate' = v
          /\ poll' = "spawn"
     \/ DuplicateFails /\ poll' = "error" /\ UNCHANGED <<table, duplicate>>
  /\ UNCHANGED <<child, woken, waiter, raw>>

SpawnWaiter ==
  /\ poll = "spawn"
  /\ \E w \in Waiters:
       /\ waiter[w] = "none"
       /\ waiter' = [waiter EXCEPT ![w] = "starting"]
       /\ raw' = [raw EXCEPT ![w] = duplicate]
  /\ poll' = "close"
  /\ UNCHANGED <<child, table, duplicate, woken>>

\* Deviation: poll forgets to close its duplicate.
CloseDuplicate_Leaks ==
  /\ poll = "close" /\ poll' = "pending"
  /\ UNCHANGED <<child, table, duplicate, woken, waiter, raw>>

\* The duplicate is dropped when poll returns Pending.
CloseDuplicate ==
  /\ poll = "close" /\ poll' = "pending"
  /\ table' = [table EXCEPT ![duplicate] = "closed"]
  /\ UNCHANGED <<child, duplicate, woken, waiter, raw>>

\* The executor polls a future that was woken, and may poll one that was not.
PollAgain ==
  /\ poll = "pending" /\ poll' = "check"
  /\ UNCHANGED <<child, table, duplicate, woken, waiter, raw>>

-----------------------------------------------------------------------------
(* The waiter threads.                                                     *)

\* What a thread does with the value it was given.
Finds(v, otherwise) ==
  IF table[v] = "child" THEN "onChild"
  ELSE IF table[v] = "stranger" THEN "onStranger" ELSE otherwise

\* Deviation: a wait that fails does not wake.
Wait_Silent(w) ==
  /\ waiter[w] = "starting"
  /\ waiter' = [waiter EXCEPT ![w] = Finds(raw[w], "none")]
  /\ UNCHANGED <<child, table, poll, duplicate, woken, raw>>

\* WaitForSingleObject looks the value up once; a value that means nothing
\* makes it fail at once, and its result is not looked at.
Wait(w) ==
  /\ waiter[w] = "starting"
  /\ waiter' = [waiter EXCEPT ![w] = Finds(raw[w], "waking")]
  /\ UNCHANGED <<child, table, poll, duplicate, woken, raw>>

WaitReturns(w) ==
  /\ waiter[w] = "onChild" /\ child # "running"
  /\ waiter' = [waiter EXCEPT ![w] = "waking"]
  /\ UNCHANGED <<child, table, poll, duplicate, woken, raw>>

Wake(w) ==
  /\ waiter[w] = "waking"
  /\ waiter' = [waiter EXCEPT ![w] = "none"]
  /\ woken' = TRUE
  /\ UNCHANGED <<child, table, poll, duplicate, raw>>

-----------------------------------------------------------------------------
(* The rest of the process, and the child.                                 *)

\* Other code opens a handle and gets a value that is free ...
StrangerOpens(v) ==
  /\ table[v] = "closed"
  /\ table' = [table EXCEPT ![v] = "stranger"]
  /\ UNCHANGED <<child, poll, duplicate, woken, waiter, raw>>

StrangerCloses(v) ==
  /\ table[v] = "stranger"
  /\ table' = [table EXCEPT ![v] = "closed"]
  /\ UNCHANGED <<child, poll, duplicate, woken, waiter, raw>>

\* ... and a wait for its object may or may not return.
StrangerSignals(w) ==
  /\ waiter[w] = "onStranger"
  /\ waiter' = [waiter EXCEPT ![w] = "waking"]
  /\ UNCHANGED <<child, table, poll, duplicate, woken, raw>>

ChildExits ==
  /\ child = "running" /\ child' \in {"exited", "exited259"}
  /\ UNCHANGED <<table, poll, duplicate, woken, waiter, raw>>

Poll == IsComplete \/ Duplicate \/ SpawnWaiter \/ CloseDuplicate
WaiterStep(w) == Wait(w) \/ WaitReturns(w) \/ Wake(w)

Next ==
  \/ Poll \/ PollAgain
  \/ \E w \in Waiters: WaiterStep(w) \/ StrangerSignals(w)
  \/ \E v \in Values: StrangerOpens(v) \/ StrangerCloses(v)
  \/ ChildExits

Spec == Init /\ [][Next]_vars

\* A poll that began returns, threads run, and an executor polls again what
\* was woken.
FairSpec ==
  /\ Spec
  /\ WF_vars(Poll) /\ WF_vars(woken /\ PollAgain)
  /\ \A w \in Waiters: WF_vars(WaiterStep(w))

-----------------------------------------------------------------------------
(* Properties.                                                             *)

\* Types of the variables; a poll's duplicate is open until it returns.
TypeOK ==
  /\ child \in {"running", "exited", "exited259"}
  /\ table \in [Values -> {"closed", "child", "stranger"}]
  /\ poll \in Polling \cup Results \cup {"pending"}
  /\ duplicate \in Values /\ woken \in BOOLEAN
  /\ waiter \in [Waiters -> {"none", "starting", "onChild", "onStranger", "waking"}]
  /\ raw \in [Waiters -> Values]
  /\ poll \in {"spawn", "close"} => table[duplicate] = "child"

\* Only the poll that is under way has a handle of the child open.
OnlyDuplicate ==
  \A v \in Values: table[v] = "child" => poll \in {"spawn", "close"} /\ v = duplicate

\* The inductive invariant behind the two safety properties below.
IInv == TypeOK /\ OnlyDuplicate /\ (poll = "ready" => child = "exited")

\* A waiter sits on an object that is not the child.
Strayed == \E w \in Waiters: waiter[w] = "onStranger"

\* The future yields a status only when there is one, whatever made a waiter
\* wake it (win/mod.rs:149-151).
ReadyMeansExited == poll = "ready" => child = "exited"

\* Once the child has exited with another code than STILL_ACTIVE the future
\* completes, unless a waiter waits for ever on a handle value that was given
\* to somebody else meanwhile (win/mod.rs:152-167).
CompletesUnlessStrayed == child = "exited" ~> (poll \in Results \/ []Strayed)

\* Between polls the future keeps no duplicate open, however often it is
\* polled (win/mod.rs:156-166).
NoHandleKept ==
  poll \in {"pending", "check"} \cup Results => \A v \in Values: table[v] # "child"
=============================================================================
