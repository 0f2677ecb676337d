--------------------------- MODULE WinFutureProofs ---------------------------
(***************************************************************************)
(* What a WinChild awaited as a future never does, for any number of       *)
(* handle values and of waiter threads.                                    *)
(***************************************************************************)
EXTENDS WinFuture, TLAPS

USE DEF Polling, Results

\* The initial state satisfies the invariant.
LEMMA Initially == Init => IInv
BY DEF Init, IInv, TypeOK, OnlyDuplicate

\* A poll keeps the invariant: it has a duplicate open exactly between making
\* and closing it, and answers "ready" only if the child exited.
LEMMA PollKeeps == ASSUME IInv, Poll PROVE IInv'
<1> USE DEF IInv, TypeOK, OnlyDuplicate
<1>1. CASE IsComplete
  BY <1>1 DEF IsComplete
<1>2. CASE Duplicate
  BY <1>2 DEF Duplicate
<1>3. CASE SpawnWaiter
  BY <1>3 DEF SpawnWaiter
<1>4. CASE CloseDuplicate
  BY <1>4 DEF CloseDuplicate
<1> QED
  BY <1>1, <1>2, <1>3, <1>4 DEF Poll

\* A waiter thread changes neither the table nor where the poll is.
LEMMA WaiterKeeps ==
  ASSUME IInv, NEW w \in Waiters, WaiterStep(w) \/ StrangerSignals(w) PROVE IInv'
<1> USE DEF IInv, TypeOK, OnlyDuplicate
<1>1. CASE Wait(w)
  BY <1>1 DEF Wait, Finds
<1>2. CASE WaitReturns(w)
  BY <1>2 DEF WaitReturns
<1>3. CASE Wake(w)
  BY <1>3 DEF Wake
<1>4. CASE StrangerSignals(w)
  BY <1>4 DEF StrangerSignals
<1> QED
  BY <1>1, <1>2, <1>3, <1>4 DEF WaiterStep

\* Strangers only take values that are closed and give back their own.
LEMMA StrangerKeeps ==
  ASSUME IInv, NEW v \in Values, StrangerOpens(v) \/ StrangerCloses(v) PROVE IInv'
<1> USE DEF IInv, TypeOK, OnlyDuplicate
<1>1. CASE StrangerOpens(v)
  BY <1>1 DEF StrangerOpens
<1>2. CASE StrangerCloses(v)
  BY <1>2 DEF StrangerCloses
<1> QED
  BY <1>1, <1>2

LEMMA Inductive == IInv /\ [Next]_vars => IInv'
<1> SUFFICES ASSUME IInv, [Next]_vars PROVE IInv'
  OBVIOUS
<1>1. CASE Poll
  BY <1>1, PollKeeps
<1>2. ASSUME NEW w \in Waiters, WaiterStep(w) \/ StrangerSignals(w) PROVE IInv'
  BY <1>2, WaiterKeeps
<1>3. ASSUME NEW v \in Values, StrangerOpens(v) \/ StrangerCloses(v) PROVE IInv'
  BY <1>3, StrangerKeeps
<1>4. CASE PollAgain
  BY <1>4 DEF PollAgain, IInv, TypeOK, OnlyDuplicate
<1>5. CASE ChildExits
  BY <1>5 DEF ChildExits, IInv, TypeOK, OnlyDuplicate
<1>6. CASE UNCHANGED vars
  BY <1>6 DEF vars, IInv, TypeOK, OnlyDuplicate
<1> QED
  BY <1>1, <1>2, <1>3, <1>4, <1>5, <1>6 DEF Next

\* The invariant holds in every reachable state (win/mod.rs:145-169).
THEOREM FutureInvariant == Spec => []IInv
<1> QED
  BY Initially, Inductive, PTL DEF Spec

\* The future answers with a status only if the child has one, although its
\* waiters may wake it for any other reason (win/mod.rs:149-151).
THEOREM ReadyIsTrue == Spec => []ReadyMeansExited
<1>1. IInv => ReadyMeansExited
  BY DEF IInv, ReadyMeansExited
<1> QED
  BY <1>1, FutureInvariant, PTL

\* No poll leaves a duplicate of the process handle behind, however often the
\* executor polls (win/mod.rs:156-166).
THEOREM NoHandleLeaks == Spec => []NoHandleKept
<1>1. IInv => NoHandleKept
  BY DEF IInv, OnlyDuplicate, NoHandleKept
<1> QED
  BY <1>1, FutureInvariant, PTL
=============================================================================
