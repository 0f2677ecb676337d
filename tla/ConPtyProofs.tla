---------------------------- MODULE ConPtyProofs ----------------------------
(***************************************************************************)
(* Safety of ConPty for every number of threads and every set of sizes.    *)
(***************************************************************************)
EXTENDS ConPty, TLAPS

USE ConPtyAssumption

\* The cast fits an i16, and leaves a size that is positive afterwards alone.
LEMMA CastFits == \A n \in U16: AsI16(n) \in I16
  BY DEF AsI16, U16, I16

\* Where a call goes on once it has the mutex.
LEMMA EntryLocked == \A w \in Waiting: Entry[w] \in Locked
  BY DEF Waiting, Entry, Locked

-----------------------------------------------------------------------------
(* Type correctness.                                                       *)

LEMMA InitInvariant == Init => IInv
<1> SUFFICES ASSUME Init PROVE IInv
  OBVIOUS
<1>1. SizeTypeOK
  <2>1. InitialSize \in U16
    BY DEF U16
  <2> QED
    BY <2>1, CastFits DEF Init, SizeTypeOK
<1>2. TypeOK
  <2>1. CallTypeOK
    BY DEF Init, CallTypeOK, Outcomes
  <2>2. ChildTypeOK
    BY DEF Init, ChildTypeOK
  <2>3. FlagTypeOK
    BY DEF Init, FlagTypeOK
  <2> QED
    BY <1>1, <2>1, <2>2, <2>3 DEF TypeOK
<1>3. MutexExcludes
  BY DEF Init, MutexExcludes, Locked
<1>4. SizeInStep
  BY DEF Init, SizeInStep
<1>5. ASSUME NEW c \in Callers PROVE PerCaller(c)
  <2>1. /\ pc[c] = "idle" /\ outcome[c] = "none" /\ child[c] = "none"
        /\ suspends[c] = 0 /\ foreign[c] = 0 /\ c \notin ran /\ c \notin broken
    BY DEF Init
  <2>2. NoChildYet(c) /\ BeforeAnswer(c)
    BY <2>1 DEF NoChildYet, BeforeAnswer, Holding
  <2>3. Suspended(c) /\ Resolved(c)
    BY <2>1 DEF Suspended, Unreleased, Holding, Resolved
  <2> QED
    BY <2>1, <2>2, <2>3 DEF PerCaller
<1> QED
  BY <1>2, <1>3, <1>4, <1>5 DEF IInv

-----------------------------------------------------------------------------
(* One step of one caller.                                                 *)

LEMMA SizeTypes ==
  ASSUME IInv, NEW c \in Callers, CallerStep(c)
  PROVE  SizeTypeOK'
<1>1. SizeTypeOK
  BY DEF IInv, TypeOK
<1>2. CASE CallResize(c)
  BY <1>1, <1>2 DEF CallResize, SizeTypeOK, ptyVars, U16
<1>3. CASE ResizeConsole(c)
  <2>1. AsI16(asked[c]) \in I16 /\ InitialSize \in U16
    BY <1>1, CastFits DEF SizeTypeOK, U16
  <2> QED
    BY <1>1, <1>3, <2>1 DEF ResizeConsole, Forget, SizeTypeOK
<1>4. CASE StoreSize(c)
  <2>1. InitialSize \in U16
    BY DEF U16
  <2> QED
    BY <1>1, <1>4, <2>1 DEF StoreSize, Forget, SizeTypeOK
<1>5. CASE UNCHANGED <<size, console, asked>>
  BY <1>1, <1>5 DEF SizeTypeOK
<1> QED
  BY <1>2, <1>3, <1>4, <1>5 DEF CallerStep, CallSpawn, CallLegacySpawn, CallTakeWriter,
    Lock, Holder, SearchPanics, Create, Assign, Adopt, Resume, Terminate,
    Recover, LegacyCreate, TakeWriter, ForeignSuspend, ForeignResume, UnaskedResume,
    ChildEnds, ptyVars

LEMMA CallTypes ==
  ASSUME IInv, NEW c \in Callers, CallerStep(c)
  PROVE  CallTypeOK'
<1>1. CallTypeOK
  BY DEF IInv, TypeOK
<1>2. (mutex \in Callers \cup {NoOne})'
  BY <1>1 DEF CallTypeOK, CallerStep, CallSpawn, CallLegacySpawn, CallResize,
    CallTakeWriter, Lock, Holder, SearchPanics, Create, Assign, Adopt, Resume,
    Terminate, Recover, LegacyCreate, ResizeConsole, StoreSize, TakeWriter,
    ForeignSuspend, ForeignResume, UnaskedResume, ChildEnds, Leaves, lockVars
<1>3. (pc \in [Callers -> Waiting \cup Locked \cup {"idle", "panicked"}])'
  <2>1. CASE Lock(c)
    BY <1>1, <2>1, EntryLocked DEF CallTypeOK, Lock, Goes
  <2> QED
    BY <1>1, <2>1 DEF CallTypeOK, Waiting, Locked, CallerStep, CallSpawn,
      CallLegacySpawn, CallResize, CallTakeWriter, Holder, SearchPanics,
      Create, Assign, Adopt, Resume, Terminate, Recover, LegacyCreate,
      ResizeConsole, StoreSize, TakeWriter, ForeignSuspend, ForeignResume, UnaskedResume,
      ChildEnds, Leaves, Goes
<1>4. (outcome \in [Callers -> Outcomes])'
  BY <1>1 DEF CallTypeOK, Outcomes, CallerStep, CallSpawn, CallLegacySpawn,
    CallResize, CallTakeWriter, Lock, Holder, SearchPanics, Create, Assign,
    Adopt, Resume, Terminate, Recover, LegacyCreate, ResizeConsole, StoreSize,
    TakeWriter, ForeignSuspend, ForeignResume, UnaskedResume, ChildEnds, Answers
<1> QED
  BY <1>2, <1>3, <1>4 DEF CallTypeOK

LEMMA ChildTypes ==
  ASSUME IInv, NEW c \in Callers, CallerStep(c)
  PROVE  ChildTypeOK'
<1>1. ChildTypeOK /\ suspends[c] <= 1 + foreign[c]
  BY DEF IInv, TypeOK, PerCaller, Suspended
<1>2. CASE ForeignSuspend(c)
  BY <1>1, <1>2 DEF ChildTypeOK, ForeignSuspend
<1>3. CASE Create(c)
  BY <1>1, <1>3 DEF ChildTypeOK, Create
<1>4. CASE Resume(c) \/ ForeignResume(c) \/ UnaskedResume(c)
  BY <1>1, <1>4 DEF ChildTypeOK, Resume, ForeignResume, UnaskedResume, ResumeThread
<1>5. CASE Terminate(c) \/ ChildEnds(c)
  BY <1>1, <1>5 DEF ChildTypeOK, Terminate, ChildEnds, Ended
<1>6. CASE UNCHANGED <<child, suspends, foreign>>
  BY <1>1, <1>6 DEF ChildTypeOK
<1> QED
  BY <1>2, <1>3, <1>4, <1>5, <1>6 DEF CallerStep, CallSpawn, CallLegacySpawn,
    CallResize, CallTakeWriter, Lock, Holder, SearchPanics, Assign, Adopt,
    Recover, LegacyCreate, ResizeConsole, StoreSize, TakeWriter, childVars

LEMMA FlagTypes ==
  ASSUME IInv, NEW c \in Callers, CallerStep(c)
  PROVE  FlagTypeOK'
<1>1. FlagTypeOK
  BY DEF IInv, TypeOK
<1>2. (poisoned \in BOOLEAN /\ writable \in BOOLEAN)'
  BY <1>1 DEF FlagTypeOK, CallerStep, CallSpawn, CallLegacySpawn, CallResize,
    CallTakeWriter, Lock, Holder, SearchPanics, Create, Assign, Adopt, Resume,
    Terminate, Recover, LegacyCreate, ResizeConsole, StoreSize, TakeWriter,
    ForeignSuspend, ForeignResume, UnaskedResume, ChildEnds, lockVars, ptyVars
<1>3. (inJob \subseteq Callers /\ ran \subseteq Callers /\ broken \subseteq Callers)'
  BY <1>1 DEF FlagTypeOK, CallerStep, CallSpawn, CallLegacySpawn, CallResize,
    CallTakeWriter, Lock, Holder, SearchPanics, Create, Assign, Adopt, Resume,
    Terminate, Recover, LegacyCreate, ResizeConsole, StoreSize, TakeWriter,
    ForeignSuspend, ForeignResume, UnaskedResume, ChildEnds, childVars, ResumeThread
<1> QED
  BY <1>2, <1>3 DEF FlagTypeOK

\* The mutex changes hands only between a caller outside and a caller inside.
LEMMA MutexStep ==
  ASSUME IInv, NEW c \in Callers, CallerStep(c)
  PROVE  MutexExcludes'
<1>1. CallTypeOK /\ MutexExcludes
  BY DEF IInv, TypeOK
<1>2. CASE Lock(c)
  BY <1>1, <1>2, EntryLocked
  DEF CallTypeOK, MutexExcludes, Lock, Goes, Locked, Waiting
<1>3. CASE UNCHANGED <<mutex, pc>>
  BY <1>1, <1>3 DEF MutexExcludes
<1>4. CASE /\ pc[c] \notin Locked /\ UNCHANGED mutex
           /\ \E w \in Waiting \cup {"idle"}: Goes(c, w)
  BY <1>1, <1>4 DEF CallTypeOK, MutexExcludes, Goes, Locked, Waiting
<1>5. CASE /\ pc[c] \in Locked /\ mutex' = NoOne
           /\ Goes(c, "idle") \/ Goes(c, "panicked")
  BY <1>1, <1>5 DEF CallTypeOK, MutexExcludes, Goes, Locked
<1>6. CASE /\ pc[c] \in Locked /\ UNCHANGED mutex
           /\ \E w \in Locked: Goes(c, w)
  BY <1>1, <1>6 DEF CallTypeOK, MutexExcludes, Goes
<1> QED
  BY <1>2, <1>3, <1>4, <1>5, <1>6 DEF CallerStep, CallSpawn, CallLegacySpawn,
    CallResize, CallTakeWriter, Holder, SearchPanics, Create, Assign, Adopt,
    Resume, Terminate, Recover, LegacyCreate, ResizeConsole, StoreSize,
    TakeWriter, ForeignSuspend, ForeignResume, UnaskedResume, ChildEnds, Leaves, lockVars,
    Locked, Waiting

\* Only the holder of the mutex is between the two steps of a resize.
LEMMA SizeStep ==
  ASSUME IInv, NEW c \in Callers, CallerStep(c)
  PROVE  SizeInStep'
<1>1. CallTypeOK /\ SizeTypeOK /\ MutexExcludes /\ SizeInStep
  BY DEF IInv, TypeOK
<1>2. CASE ResizeConsole(c)
  <2>1. \A d \in Callers: pc[d] # "store"
    BY <1>1, <1>2 DEF MutexExcludes, Locked, ResizeConsole
  <2> QED
    BY <1>1, <1>2, <2>1
    DEF ResizeConsole, Forget, Leaves, Goes, SizeInStep, CallTypeOK
<1>3. CASE StoreSize(c)
  <2>1. \A d \in Callers: d # c => pc[d] # "store"
    BY <1>1, <1>3 DEF MutexExcludes, Locked, StoreSize
  <2> QED
    BY <1>1, <1>3, <2>1
    DEF StoreSize, Forget, Leaves, Goes, SizeInStep, CallTypeOK
<1>4. CASE CallResize(c)
  BY <1>1, <1>4
  DEF CallResize, Goes, SizeInStep, CallTypeOK, SizeTypeOK, ptyVars
<1>5. CASE /\ UNCHANGED <<size, console, asked>> /\ pc[c] # "store"
           /\ UNCHANGED pc \/ (\E w \in Waiting \cup (Locked \ {"store"})
                                       \cup {"idle", "panicked"}: Goes(c, w))
  BY <1>1, <1>5 DEF SizeInStep, CallTypeOK, Goes, Waiting, Locked
<1>6. CASE UNCHANGED <<size, console, asked, pc>>
  BY <1>1, <1>6 DEF SizeInStep
<1>7. CASE Lock(c)
  BY <1>1, <1>7
  DEF Lock, Goes, Entry, Waiting, SizeInStep, CallTypeOK, ptyVars
<1> QED
  BY <1>2, <1>3, <1>4, <1>5, <1>6, <1>7 DEF CallerStep, CallSpawn,
    CallLegacySpawn, CallTakeWriter, Holder, SearchPanics, Create, Assign,
    Adopt, Resume, Terminate, Recover, LegacyCreate, TakeWriter,
    ForeignSuspend, ForeignResume, UnaskedResume, ChildEnds, Leaves, ptyVars, Locked, Waiting

\* What one caller does leaves the children of the others alone.
LEMMA OthersKept ==
  ASSUME IInv, NEW c \in Callers, CallerStep(c), NEW d \in Callers, d # c
  PROVE  /\ pc'[d] = pc[d] /\ outcome'[d] = outcome[d]
         /\ child'[d] = child[d] /\ suspends'[d] = suspends[d] /\ foreign'[d] = foreign[d]
         /\ (d \in ran' <=> d \in ran) /\ (d \in inJob' <=> d \in inJob)
         /\ d \in broken' <=> d \in broken
<1>1. CallTypeOK /\ ChildTypeOK /\ FlagTypeOK
  BY DEF IInv, TypeOK
<1>2. pc'[d] = pc[d] /\ outcome'[d] = outcome[d]
  BY <1>1 DEF CallTypeOK, CallerStep, CallSpawn, CallLegacySpawn, CallResize,
    CallTakeWriter, Lock, Holder, SearchPanics, Create, Assign, Adopt, Resume,
    Terminate, Recover, LegacyCreate, ResizeConsole, StoreSize, TakeWriter,
    ForeignSuspend, ForeignResume, UnaskedResume, ChildEnds, Leaves, Goes, Answers
<1>3. child'[d] = child[d] /\ suspends'[d] = suspends[d] /\ foreign'[d] = foreign[d]
  BY <1>1 DEF ChildTypeOK, CallerStep, CallSpawn, CallLegacySpawn, CallResize,
    CallTakeWriter, Lock, Holder, SearchPanics, Create, Assign, Adopt, Resume,
    Terminate, Recover, LegacyCreate, ResizeConsole, StoreSize, TakeWriter,
    ForeignSuspend, ForeignResume, UnaskedResume, ChildEnds, Ended, ResumeThread, childVars
<1>4. /\ (d \in ran' <=> d \in ran) /\ (d \in inJob' <=> d \in inJob)
      /\ (d \in broken' <=> d \in broken)
  BY DEF CallerStep, CallSpawn, CallLegacySpawn, CallResize,
    CallTakeWriter, Lock, Holder, SearchPanics, Create, Assign, Adopt, Resume,
    Terminate, Recover, LegacyCreate, ResizeConsole, StoreSize, TakeWriter,
    ForeignSuspend, ForeignResume, UnaskedResume, ChildEnds, ResumeThread, childVars
<1> QED
  BY <1>2, <1>3, <1>4

LEMMA OthersStep ==
  ASSUME IInv, NEW c \in Callers, CallerStep(c), NEW d \in Callers, d # c
  PROVE  PerCaller(d)'
<1>1. PerCaller(d)
  BY DEF IInv
<1>2. NoChildYet(d)' /\ BeforeAnswer(d)' /\ Suspended(d)' /\ Resolved(d)'
  BY <1>1, OthersKept
  DEF PerCaller, NoChildYet, BeforeAnswer, Suspended, Unreleased, Resolved
<1> QED
  BY <1>1, <1>2, OthersKept DEF PerCaller

\* What a caller, or another process, does to the caller's own child.
LEMMA OwnStep ==
  ASSUME IInv, NEW c \in Callers, CallerStep(c)
  PROVE  PerCaller(c)'
<1>1. CallTypeOK /\ ChildTypeOK /\ FlagTypeOK /\ PerCaller(c)
  BY DEF IInv, TypeOK
<1> USE <1>1 DEF CallTypeOK, ChildTypeOK, PerCaller, NoChildYet, BeforeAnswer,
      Suspended, Unreleased, Holding, Resolved
<1>2. CASE CallSpawn(c)
  BY <1>2 DEF CallSpawn, Goes, Answers, childVars
<1>3. CASE CallLegacySpawn(c) \/ CallResize(c) \/ CallTakeWriter(c)
  BY <1>3 DEF CallLegacySpawn, CallResize, CallTakeWriter, Goes, childVars
<1>4. CASE Lock(c)
  <2>1. pc'[c] = "panicked" \/ pc'[c] = Entry[pc[c]]
    BY <1>4 DEF Lock, Goes
  <2>2. /\ pc'[c] \in {"panicked", "create", "legacy_create", "console", "take"}
        /\ pc'[c] = "create" => pc[c] = "spawn"
    BY <1>4, <2>1 DEF Lock, Waiting, Entry
  <2> QED
    BY <1>4, <2>2 DEF Lock, Waiting, childVars
<1>5. CASE SearchPanics(c) \/ LegacyCreate(c) \/ TakeWriter(c)
  BY <1>5 DEF SearchPanics, LegacyCreate, TakeWriter, Leaves, Goes, childVars
<1>6. CASE ResizeConsole(c) \/ StoreSize(c)
  BY <1>6 DEF ResizeConsole, StoreSize, Leaves, Goes, childVars
<1>7. CASE Create(c)
  BY <1>7 DEF Create, Leaves, Goes, Answers
<1>8. CASE Assign(c)
  BY <1>8 DEF Assign, Goes, Answers
<1>9. CASE Adopt(c)
  BY <1>9 DEF Adopt, Goes, Answers, childVars
<1>10. CASE Resume(c)
  BY <1>10 DEF Resume, ResumeThread, Leaves, Goes, Answers
<1>11. CASE Terminate(c)
  BY <1>11 DEF Terminate, Ended, Leaves, Goes, Answers
<1>12. CASE Recover(c)
  BY <1>12 DEF Recover, Leaves, Goes, childVars
<1>13. CASE ForeignSuspend(c)
  BY <1>13 DEF ForeignSuspend
<1>14. CASE ForeignResume(c)
  BY <1>14 DEF ForeignResume, ResumeThread
<1>15. CASE UnaskedResume(c)
  BY <1>15 DEF UnaskedResume, ResumeThread
<1>16. CASE ChildEnds(c)
  BY <1>16 DEF ChildEnds, Ended
<1> QED
  BY <1>2, <1>3, <1>4, <1>5, <1>6, <1>7, <1>8, <1>9, <1>10, <1>11, <1>12,
    <1>13, <1>14, <1>15, <1>16 DEF CallerStep, Holder

LEMMA InvariantStep == IInv /\ [Next]_vars => IInv'
<1> SUFFICES ASSUME IInv, [Next]_vars PROVE IInv'
  OBVIOUS
<1>1. CASE Next
  <2>1. PICK c \in Callers: CallerStep(c)
    BY <1>1 DEF Next
  <2>2. TypeOK'
    BY <2>1, SizeTypes, CallTypes, ChildTypes, FlagTypes DEF TypeOK
  <2>3. MutexExcludes' /\ SizeInStep'
    BY <2>1, MutexStep, SizeStep
  <2>4. \A d \in Callers: PerCaller(d)'
    BY <2>1, OwnStep, OthersStep
  <2> QED
    BY <2>2, <2>3, <2>4 DEF IInv
<1>2. CASE UNCHANGED vars
  BY <1>2 DEF vars, lockVars, ptyVars, childVars, IInv, TypeOK, SizeTypeOK,
    CallTypeOK, ChildTypeOK, FlagTypeOK, MutexExcludes, SizeInStep, PerCaller,
    NoChildYet, BeforeAnswer, Suspended, Unreleased, Resolved
<1> QED
  BY <1>1, <1>2

-----------------------------------------------------------------------------
(* Theorems.                                                               *)

\* The inductive invariant holds in every reachable state, for any number of
\* threads on the pty and any sizes they ask for (conpty.rs:59-200).
THEOREM ConPtyInvariant == Spec => []IInv
<1>1. IInv /\ [Next]_vars => IInv'
  BY InvariantStep
<1> QED
  BY <1>1, InitInvariant, PTL DEF Spec

\* Every variable keeps its type: ResumeThread is never asked for more than
\* the suspensions there are, and the console's size stays an i16.
THEOREM ConPtyTypes == Spec => []TypeOK
<1>1. IInv => TypeOK
  BY DEF IInv
<1> QED
  BY <1>1, ConPtyInvariant, PTL

\* Unless another process resumes it unasked, no contained child executes
\* before it is a member of its Job, and none of those whose assignment or
\* adoption failed executes at all (conpty.rs:112-157).
THEOREM ContainedBeforeRunning ==
  Spec => [](NeverRunsOutsideJob /\ FailedAssignmentNeverRuns)
<1>1. IInv => NeverRunsOutsideJob /\ FailedAssignmentNeverRuns
  <2> SUFFICES ASSUME IInv PROVE NeverRunsOutsideJob /\ FailedAssignmentNeverRuns
    OBVIOUS
  <2>1. ran \subseteq Callers
    BY DEF IInv, TypeOK, FlagTypeOK
  <2> QED
    BY <2>1 DEF IInv, PerCaller, Suspended, Unreleased, NeverRunsOutsideJob,
      FailedAssignmentNeverRuns
<1> QED
  BY <1>1, ConPtyInvariant, PTL

\* Whenever get_size can be called it tells the size the console has
\* (conpty.rs:59-79, 182-185).
THEOREM SizeIsTheConsoles == Spec => []SizeAgrees
<1>1. IInv => SizeAgrees
  BY DEF IInv, TypeOK, CallTypeOK, MutexExcludes, SizeInStep, SizeAgrees, Locked
<1> QED
  BY <1>1, ConPtyInvariant, PTL

-----------------------------------------------------------------------------
(* The contract.                                                           *)

\* A step of one caller changes no other's part of the contract.
LEMMA ContractFrame ==
  ASSUME IInv, NEW c \in Callers, CallerStep(c)
  PROVE  /\ ContractChild' = [ContractChild EXCEPT ![c] = ChildAs(c)']
         /\ ContractAnswer' = [ContractAnswer EXCEPT ![c] = AnswerAs(c)']
<1>1. ASSUME NEW d \in Callers, d # c
      PROVE  ChildAs(d)' = ChildAs(d) /\ AnswerAs(d)' = AnswerAs(d)
  BY <1>1, OthersKept DEF ChildAs, AnswerAs
<1> QED
  BY <1>1 DEF ContractChild, ContractAnswer

\* ... and what it leaves of its own part is unchanged as a whole.
LEMMA ContractKept ==
  ASSUME IInv, NEW c \in Callers, CallerStep(c)
  PROVE  /\ ChildAs(c)' = ChildAs(c) => UNCHANGED ContractChild
         /\ AnswerAs(c)' = AnswerAs(c) => UNCHANGED ContractAnswer
<1>1. ChildAs(c)' = ChildAs(c) => UNCHANGED ContractChild
  BY ContractFrame DEF ContractChild
<1>2. AnswerAs(c)' = AnswerAs(c) => UNCHANGED ContractAnswer
  BY ContractFrame DEF ContractAnswer
<1> QED
  BY <1>1, <1>2

\* Every step of a caller is a step of its contract, or none.
LEMMA ContractStep ==
  ASSUME IInv, NEW c \in Callers, CallerStep(c)
  PROVE  Contract!Step(c) \/ UNCHANGED <<ContractChild, inJob, ContractAnswer, broken>>
<1>1. CallTypeOK /\ ChildTypeOK /\ FlagTypeOK /\ PerCaller(c)
  BY DEF IInv, TypeOK
<1>2. ContractChild[c] = ChildAs(c) /\ ContractAnswer[c] = AnswerAs(c)
  BY DEF ContractChild, ContractAnswer
<1> USE <1>1 DEF CallTypeOK, ChildTypeOK, PerCaller, NoChildYet, BeforeAnswer,
      Suspended, Unreleased, Holding, ChildAs, AnswerAs
<1>3. CASE UNCHANGED <<outcome, child, ran, inJob, broken>>
  BY <1>3, ContractKept
<1>4. CASE CallSpawn(c)
  <2>1. UNCHANGED <<ChildAs(c), inJob, broken>> /\ ChildAs(c) = "none"
    BY <1>4 DEF CallSpawn, childVars
  <2>2. CASE Answers(c, "none")
    <3>1. AnswerAs(c)' = "none" /\ AnswerAs(c) \in {"none", "before"}
      BY <1>4, <2>2 DEF CallSpawn, Answers
    <3> QED
      BY <2>1, <3>1, <1>2, ContractFrame, ContractKept
      DEF Contract!Step, Contract!Retry, Contract!Says
  <2>3. CASE Answers(c, "BeforeSpawn")
    <3>1. AnswerAs(c)' = "before" /\ AnswerAs(c) \in {"none", "before"}
      BY <1>4, <2>3 DEF CallSpawn, Answers
    <3> QED
      BY <2>1, <3>1, <1>2, ContractFrame, ContractKept
      DEF Contract!Step, Contract!FailEarly, Contract!Becomes, Contract!Says
  <2> QED
    BY <1>4, <2>2, <2>3 DEF CallSpawn
<1>5. CASE Create(c)
  <2>1. ChildAs(c) = "none" /\ AnswerAs(c) = "none" /\ UNCHANGED <<inJob, broken>>
    BY <1>5 DEF Create
  <2>2. \/ ChildAs(c)' = "quiet" /\ AnswerAs(c)' = AnswerAs(c)
        \/ ChildAs(c)' = ChildAs(c) /\ AnswerAs(c)' = "before"
    BY <1>5 DEF Create, Leaves, Answers
  <2>3. Contract!Create(c) \/ Contract!FailEarly(c)
    BY <2>1, <2>2, <1>2, ContractFrame, ContractKept
    DEF Contract!Create, Contract!FailEarly, Contract!Becomes, Contract!Says
  <2> QED
    BY <2>3 DEF Contract!Step
<1>6. CASE Assign(c)
  <2>1. /\ AnswerAs(c) = "none"
        /\ ChildAs(c) \in {"quiet", "gone"} \/ (c \in broken /\ ChildAs(c) = "running")
        /\ UNCHANGED <<ChildAs(c), broken>> /\ inJob' \in {inJob, inJob \cup {c}}
    BY <1>6 DEF Assign
  <2>2. \/ inJob' = inJob \cup {c} /\ AnswerAs(c)' = AnswerAs(c)
        \/ AnswerAs(c)' = "failed"
    BY <1>6 DEF Assign, Answers
  <2>3. Contract!Contain(c) \/ Contract!FailLate(c)
    BY <2>1, <2>2, <1>2, ContractFrame, ContractKept
    DEF Contract!Contain, Contract!FailLate, Contract!Says
  <2> QED
    BY <2>3 DEF Contract!Step
<1>7. CASE Adopt(c)
  <2>1. AnswerAs(c) = "none" /\ ChildAs(c) # "none" /\ UNCHANGED <<ChildAs(c), inJob, broken>>
    BY <1>7 DEF Adopt, childVars
  <2>2. AnswerAs(c)' = AnswerAs(c) \/ AnswerAs(c)' = "failed"
    BY <1>7 DEF Adopt, Answers
  <2>3. AnswerAs(c)' = "failed" => Contract!FailLate(c)
    BY <2>1, <1>2, ContractFrame, ContractKept
    DEF Contract!FailLate, Contract!Says
  <2> QED
    BY <2>1, <2>2, <2>3, ContractKept DEF Contract!Step
<1>8. CASE Resume(c)
  <2>1. AnswerAs(c) = "none" /\ ChildAs(c) # "none" /\ c \in inJob /\ UNCHANGED <<inJob, broken>>
    BY <1>8 DEF Resume
  <2>2. ChildAs(c)' = ChildAs(c) \/ (ChildAs(c) = "quiet" /\ ChildAs(c)' = "running")
    BY <1>8 DEF Resume, ResumeThread
  <2>3. CASE AnswerAs(c)' = "guard"
    <3>1. Contract!Guard(c)
      BY <2>1, <2>2, <2>3, <1>2, ContractFrame, ContractKept
      DEF Contract!Guard, Contract!Says, Contract!Becomes
    <3> QED
      BY <3>1 DEF Contract!Step
  <2>4. CASE AnswerAs(c)' = AnswerAs(c) /\ ChildAs(c)' = ChildAs(c)
    BY <2>1, <2>4, ContractKept
  <2>5. AnswerAs(c)' = "guard" \/ (AnswerAs(c)' = AnswerAs(c) /\ ChildAs(c)' = ChildAs(c))
    BY <1>8 DEF Resume, ResumeThread, Leaves, Goes, Answers
  <2> QED
    BY <2>3, <2>4, <2>5
<1>9. CASE Terminate(c)
  <2>1. /\ AnswerAs(c) = "none" /\ AnswerAs(c)' = "resolved" /\ c \in inJob
        /\ ChildAs(c) # "none" /\ UNCHANGED inJob
        /\ \/ ChildAs(c)' = "gone" /\ UNCHANGED broken
           \/ ChildAs(c)' = ChildAs(c) /\ broken' = broken \cup {c}
    BY <1>9 DEF Terminate, Ended, Leaves, Answers
  <2>2. Contract!Resolve(c)
    BY <2>1, <1>2, ContractFrame, ContractKept
    DEF Contract!Resolve, Contract!Says, Contract!Becomes
  <2> QED
    BY <2>2 DEF Contract!Step
<1>10. CASE ForeignResume(c)
  <2>1. /\ UNCHANGED <<AnswerAs(c), inJob, broken>>
        /\ \/ ChildAs(c)' = ChildAs(c)
           \/ ChildAs(c) = "quiet" /\ ChildAs(c)' = "running"
    BY <1>10 DEF ForeignResume, ResumeThread
  <2>2. CASE ChildAs(c)' = ChildAs(c)
    BY <2>1, <2>2, ContractKept
  <2>3. CASE ChildAs(c) = "quiet" /\ ChildAs(c)' = "running"
    <3>1. child[c] = "live" /\ suspends[c] = 1 /\ foreign[c] = 1
      BY <1>10, <2>3 DEF ForeignResume, ResumeThread
    <3>2. ASSUME c \notin broken
          PROVE  c \in inJob /\ AnswerAs(c) \in {"none", "guard"}
      <4>1. suspends[c] # 1 + foreign[c]
        BY <3>1
      <4>2. ~Unreleased(c)
        BY <3>1, <3>2, <4>1
      <4>3. c \in inJob
        BY <3>1, <4>2
      <4>4. outcome[c] \notin {"Receipt", "Adoption", "Resume", "BeforeSpawn"}
        <5>1. outcome[c] \notin {"Receipt", "Adoption"}
          BY <4>2
        <5>2. outcome[c] # "Resume"
          BY <3>1, <3>2 DEF Resolved
        <5>3. outcome[c] # "BeforeSpawn"
          BY <3>1
        <5> QED
          BY <5>1, <5>2, <5>3
      <4> QED
        BY <4>3, <4>4
    <3>3. c \notin broken => c \in inJob /\ AnswerAs(c) \in {"none", "guard"}
      BY <3>2
    <3>4. Contract!Run(c)
      BY <2>1, <2>3, <3>3, <1>2, ContractFrame, ContractKept
      DEF Contract!Run, Contract!Becomes
    <3> QED
      BY <3>4 DEF Contract!Step
  <2> QED
    BY <2>1, <2>2, <2>3
<1>11. CASE UnaskedResume(c)
  <2>1. /\ ChildAs(c) \in {"quiet", "running"} /\ broken' = broken \cup {c}
        /\ UNCHANGED <<AnswerAs(c), inJob>>
        /\ ChildAs(c)' = ChildAs(c) \/ ChildAs(c)' = "running"
    BY <1>11 DEF UnaskedResume, ResumeThread
  <2>2. Contract!Break(c)
    BY <2>1, <1>2, ContractFrame, ContractKept DEF Contract!Break, Contract!Becomes
  <2> QED
    BY <2>2 DEF Contract!Step
<1>12. CASE ChildEnds(c)
  <2>1. /\ ChildAs(c) \in {"quiet", "running"} /\ ChildAs(c)' = "gone"
        /\ UNCHANGED <<AnswerAs(c), inJob, broken>>
    BY <1>12 DEF ChildEnds, Ended
  <2>2. Contract!Die(c)
    BY <2>1, <1>2, ContractFrame, ContractKept DEF Contract!Die, Contract!Becomes
  <2> QED
    BY <2>2 DEF Contract!Step
<1> QED
  BY <1>3, <1>4, <1>5, <1>6, <1>7, <1>8, <1>9, <1>10, <1>11, <1>12 DEF CallerStep,
    CallLegacySpawn, CallResize, CallTakeWriter, Lock, Holder, SearchPanics,
    Recover, LegacyCreate, ResizeConsole, StoreSize, TakeWriter,
    ForeignSuspend, childVars

\* The contained spawn of a ConPTY implements the contract of every contained
\* spawn, for any number of callers and whatever suspensions other processes
\* put on the thread and take back (conpty.rs:82-173). The contract exempts a
\* call whose thread was resumed unasked or whose guard failed to end the Job.
THEOREM ImplementsContract == Spec => ContractSpec
<1>1. Init => Contract!Init
  BY DEF Init, Contract!Init, ContractChild, ContractAnswer, ChildAs, AnswerAs
<1>2. IInv /\ [Next]_vars =>
        [Contract!Next]_<<ContractChild, inJob, ContractAnswer, broken>>
  <2> SUFFICES ASSUME IInv, [Next]_vars
               PROVE  Contract!Next \/ UNCHANGED <<ContractChild, inJob, ContractAnswer, broken>>
    OBVIOUS
  <2>1. CASE Next
    BY <2>1, ContractStep DEF Next, Contract!Next
  <2>2. CASE UNCHANGED vars
    BY <2>2 DEF vars, childVars, ContractChild, ContractAnswer, ChildAs, AnswerAs
  <2> QED
    BY <2>1, <2>2
<1> QED
  BY <1>1, <1>2, ConPtyInvariant, PTL
  DEF Spec, ContractSpec, Contract!Spec, Contract!contractVars

\* What the caller of a contained spawn may conclude: a guard or a failed resume
\* stands for a child in its Job, BeforeSpawn for no child and every other error
\* for one that existed; unless the call was broken from outside, whatever runs
\* is in its Job and a child that could not be resumed is gone
\* (lib.rs:72-83, 523-536).
THEOREM PromiseKept == Spec => []Contract!Promise
<1>1. IInv => Contract!Promise
  <2> SUFFICES ASSUME IInv, NEW c \in Callers
               PROVE  /\ AnswerAs(c) \in {"guard", "resolved"} => c \in inJob
                      /\ AnswerAs(c) = "before" => ChildAs(c) = "none"
                      /\ AnswerAs(c) \in {"guard", "failed", "resolved"} => ChildAs(c) # "none"
                      /\ c \notin broken =>
                           /\ ChildAs(c) = "running" => c \in inJob
                           /\ AnswerAs(c) = "resolved" => ChildAs(c) = "gone"
    BY DEF Contract!Promise, ContractChild, ContractAnswer
  <2>1. /\ NoChildYet(c) /\ BeforeAnswer(c) /\ Resolved(c)
        /\ c \in ran => c \in inJob \cup broken
    BY DEF IInv, PerCaller
  <2> QED
    BY <2>1 DEF NoChildYet, BeforeAnswer, Resolved, ChildAs, AnswerAs
<1> QED
  BY <1>1, ConPtyInvariant, PTL
=============================================================================
