-------------------------- MODULE UnixSpawnProofs --------------------------
(***************************************************************************)
(* Safety of UnixSpawn for every set of concurrent spawns, contained or    *)
(* not. Whether a spawn returns is left to TLC.                            *)
(***************************************************************************)
EXTENDS UnixSpawn, TLAPS

USE SpawnAssumption

\* A step of one spawn: of its thread or of its child.
Does(t) == Opening(t) \/ SpawnStep(t) \/ ChildStep(t) \/ Killed(t)

LEMMA InitInvariant == Init => IInv
<1> SUFFICES ASSUME Init PROVE IInv
  OBVIOUS
<1>1. ParentTypeOK
  BY DEF Init, ParentTypeOK, ParentStates, Outcomes
<1>2. ChildTypeOK
  BY DEF Init, ChildTypeOK, ChildStates
<1>3. DescriptorTypeOK
  BY DEF Init, DescriptorTypeOK
<1>4. FlagTypeOK
  BY DEF Init, FlagTypeOK
<1>5. ASSUME NEW t \in Spawns PROVE ForkOnce(t) /\ SessionInOrder(t)
  BY DEF Init, ForkOnce, SessionInOrder, BeforeFork, AfterFork
<1>6. ASSUME NEW t \in Contained PROVE PipeTellsAll(t)
  BY DEF Init, PipeTellsAll
<1> QED
  BY <1>1, <1>2, <1>3, <1>4, <1>5, <1>6 DEF IInv, TypeOK

-----------------------------------------------------------------------------
(* Types.                                                                  *)

LEMMA ParentTypes ==
  ASSUME IInv, NEW t \in Spawns, Does(t)
  PROVE  ParentTypeOK'
<1>1. ParentTypeOK
  BY DEF IInv, TypeOK
<1>2. (ppc \in [Spawns -> ParentStates])'
  BY <1>1 DEF ParentTypeOK, ParentStates, Does, Opening, SpawnStep, ChildStep,
    Step, EndsWith, OpenPty, SetCloexec, Prepare, MakePipe, Fork, DropOutput,
    ReadEof, ReadError, IntoReceipt, Contain, ResetSignals, AcquireSession,
    TakeTerminal, CloseRandomFds, Exec, Report, Killed
<1>3. (outcome \in [Spawns -> Outcomes])'
  BY <1>1 DEF ParentTypeOK, Outcomes, Early, Does, Opening, SpawnStep,
    ChildStep, EndsWith, OpenPty, SetCloexec, Prepare, MakePipe, Fork,
    DropOutput, ReadEof, ReadError, IntoReceipt, Contain, ResetSignals,
    AcquireSession, TakeTerminal, CloseRandomFds, Exec, Report, Killed
<1> QED
  BY <1>2, <1>3 DEF ParentTypeOK

LEMMA ChildTypes ==
  ASSUME IInv, NEW t \in Spawns, Does(t)
  PROVE  ChildTypeOK'
<1>1. ChildTypeOK
  BY DEF IInv, TypeOK
<1>2. (kpc \in [Spawns -> ChildStates])'
  BY <1>1 DEF ChildTypeOK, ChildStates, childVars, Does, Opening, SpawnStep,
    ChildStep, Goes, Fails, AfterTerminal, OpenPty, SetCloexec, Prepare,
    MakePipe, Fork, DropOutput, ReadEof, ReadError, IntoReceipt, Contain,
    ResetSignals, AcquireSession, TakeTerminal, CloseRandomFds, Exec, Report,
    Killed
<1>3. (session \in [Spawns -> {"inherited", "own", "terminal"}])'
  BY <1>1 DEF ChildTypeOK, childVars, Does, Opening, SpawnStep, ChildStep,
    OpenPty, SetCloexec, Prepare, MakePipe, Fork, DropOutput, ReadEof,
    ReadError, IntoReceipt, Contain, ResetSignals, AcquireSession,
    TakeTerminal, CloseRandomFds, Exec, Report, Killed
<1> QED
  BY <1>2, <1>3 DEF ChildTypeOK

LEMMA DescriptorTypes ==
  ASSUME IInv, NEW t \in Spawns, Does(t)
  PROVE  DescriptorTypeOK'
<1>1. ChildTypeOK /\ DescriptorTypeOK
  BY DEF IInv, TypeOK
<1>2. CASE Fork(t)
  <2>1. Inheritable \in SUBSET Ends /\ OpenPipes \in SUBSET Spawns
    BY DEF Inheritable, OpenPipes
  <2> QED
    BY <1>1, <1>2, <2>1 DEF ChildTypeOK, DescriptorTypeOK, Fork
<1>3. CASE CloseRandomFds(t)
  BY <1>1, <1>3 DEF ChildTypeOK, DescriptorTypeOK, CloseRandomFds, Goes
<1>4. CASE Exec(t)
  BY <1>1, <1>4 DEF ChildTypeOK, DescriptorTypeOK, Exec, Goes, Fails
<1>5. CASE Report(t) \/ Killed(t)
  BY <1>1, <1>5 DEF ChildTypeOK, DescriptorTypeOK, Report, Killed, Goes
<1>6. CASE ResetSignals(t) \/ AcquireSession(t) \/ TakeTerminal(t) \/ ReadError(t)
  BY <1>1, <1>6 DEF ChildTypeOK, DescriptorTypeOK, ResetSignals,
    AcquireSession, TakeTerminal, ReadError, Goes, Fails, AfterTerminal
<1>7. CASE UNCHANGED <<kpc, kept, pipes>>
  BY <1>1, <1>7 DEF DescriptorTypeOK
<1> QED
  BY <1>2, <1>3, <1>4, <1>5, <1>6, <1>7 DEF childVars, Does, Opening,
    SpawnStep, ChildStep, OpenPty, SetCloexec, Prepare, MakePipe, DropOutput,
    ReadEof, IntoReceipt, Contain

LEMMA FlagTypes ==
  ASSUME IInv, NEW t \in Spawns, Does(t)
  PROVE  FlagTypeOK'
<1>1. FlagTypeOK
  BY DEF IInv, TypeOK
<1> QED
  BY <1>1 DEF FlagTypeOK, childVars, Does, Opening, SpawnStep, ChildStep,
    OpenPty, SetCloexec, Prepare, MakePipe, Fork, DropOutput, ReadEof,
    ReadError, IntoReceipt, Contain, ResetSignals, AcquireSession,
    TakeTerminal, CloseRandomFds, Exec, Report, Killed

-----------------------------------------------------------------------------
(* One step of one spawn.                                                  *)

\* A step of one spawn leaves the program counters, the session and the error
\* pipe of the others alone.
LEMMA OthersKept ==
  ASSUME IInv, NEW t \in Spawns, Does(t), NEW d \in Spawns, d # t
  PROVE  /\ ppc'[d] = ppc[d] /\ outcome'[d] = outcome[d]
         /\ kpc'[d] = kpc[d] /\ session'[d] = session[d]
         /\ pipes'[d] = pipes[d]
<1>1. ParentTypeOK /\ ChildTypeOK /\ DescriptorTypeOK
  BY DEF IInv, TypeOK
<1>2. ppc'[d] = ppc[d] /\ outcome'[d] = outcome[d]
  BY <1>1 DEF ParentTypeOK, Does, Opening, SpawnStep, ChildStep, Step,
    EndsWith, OpenPty, SetCloexec, Prepare, MakePipe, Fork, DropOutput,
    ReadEof, ReadError, IntoReceipt, Contain, ResetSignals, AcquireSession,
    TakeTerminal, CloseRandomFds, Exec, Report, Killed
<1>3. kpc'[d] = kpc[d] /\ session'[d] = session[d]
  BY <1>1 DEF ChildTypeOK, childVars, Does, Opening, SpawnStep, ChildStep,
    Goes, Fails, OpenPty, SetCloexec, Prepare, MakePipe, Fork, DropOutput,
    ReadEof, ReadError, IntoReceipt, Contain, ResetSignals, AcquireSession,
    TakeTerminal, CloseRandomFds, Exec, Report, Killed
<1>4. pipes'[d] = pipes[d]
  BY <1>1 DEF DescriptorTypeOK, childVars, Does, Opening, SpawnStep, ChildStep,
    OpenPty, SetCloexec, Prepare, MakePipe, Fork, DropOutput, ReadEof,
    ReadError, IntoReceipt, Contain, ResetSignals, AcquireSession,
    TakeTerminal, CloseRandomFds, Exec, Report, Killed
<1> QED
  BY <1>2, <1>3, <1>4

LEMMA OthersStep ==
  ASSUME IInv, NEW t \in Spawns, Does(t), NEW d \in Spawns, d # t
  PROVE  /\ ForkOnce(d)' /\ SessionInOrder(d)'
         /\ d \in Contained => PipeTellsAll(d)'
<1>1. (d \in failed' <=> d \in failed) /\ (d \in message' <=> d \in message)
  BY DEF childVars, Does, Opening, SpawnStep, ChildStep,
    OpenPty, SetCloexec, Prepare, MakePipe, Fork, DropOutput, ReadEof,
    ReadError, IntoReceipt, Contain, ResetSignals, AcquireSession,
    TakeTerminal, CloseRandomFds, Exec, Report, Killed
<1>2. ForkOnce(d) /\ SessionInOrder(d) /\ (d \in Contained => PipeTellsAll(d))
  BY DEF IInv
<1> QED
  BY <1>1, <1>2, OthersKept DEF ForkOnce, SessionInOrder, PipeTellsAll

\* A child exists from the fork on, and only std's wait removes it.
LEMMA ForkStep ==
  ASSUME IInv, NEW t \in Spawns, Does(t)
  PROVE  ForkOnce(t)'
<1>1. ParentTypeOK /\ ChildTypeOK /\ ForkOnce(t)
  BY DEF IInv, TypeOK
<1> USE <1>1 DEF ParentTypeOK, ChildTypeOK, ForkOnce, BeforeFork, AfterFork
<1>2. CASE Opening(t) \/ MakePipe(t)
  BY <1>2 DEF Opening, OpenPty, SetCloexec, Prepare, MakePipe, Step, EndsWith,
    Early, childVars
<1>3. CASE Fork(t)
  BY <1>3 DEF Fork, Step, EndsWith, Early
<1>4. CASE DropOutput(t) \/ ReadEof(t)
  BY <1>4 DEF DropOutput, ReadEof, Step, EndsWith, childVars
<1>5. CASE ReadError(t)
  BY <1>5 DEF ReadError, EndsWith, Early
<1>6. CASE IntoReceipt(t) \/ Contain(t)
  BY <1>6 DEF IntoReceipt, Contain, Step, EndsWith, childVars
<1>7. CASE ChildStep(t)
  BY <1>7 DEF ChildStep, Goes, Fails, AfterTerminal, ResetSignals,
    AcquireSession, TakeTerminal, CloseRandomFds, Exec, Report
<1>8. CASE Killed(t)
  BY <1>8 DEF Killed, ChildStates
<1> QED
  BY <1>2, <1>3, <1>4, <1>5, <1>6, <1>7, <1>8 DEF Does, SpawnStep

\* The child acquires its session and its terminal before it executes.
LEMMA SessionStep ==
  ASSUME IInv, NEW t \in Spawns, Does(t)
  PROVE  SessionInOrder(t)'
<1>1. ChildTypeOK /\ SessionInOrder(t)
  BY DEF IInv, TypeOK
<1> USE <1>1 DEF ChildTypeOK, SessionInOrder
<1>2. CASE UNCHANGED <<kpc, session>>
  BY <1>2
<1>3. CASE Fork(t) \/ ReadError(t) \/ Killed(t) \/ Report(t) \/ ResetSignals(t)
  BY <1>3 DEF Fork, ReadError, Killed, Report, ResetSignals, Goes
<1>4. CASE AcquireSession(t)
  BY <1>4 DEF AcquireSession, Goes, Fails
<1>5. CASE TakeTerminal(t)
  BY <1>5 DEF TakeTerminal, Goes, Fails, AfterTerminal
<1>6. CASE CloseRandomFds(t) \/ Exec(t)
  BY <1>6 DEF CloseRandomFds, Exec, Goes, Fails
<1> QED
  BY <1>2, <1>3, <1>4, <1>5, <1>6 DEF Does, Opening, SpawnStep, ChildStep,
    OpenPty, SetCloexec, Prepare, MakePipe, DropOutput, ReadEof, IntoReceipt,
    Contain, childVars

\* The hook of a contained spawn never closes the error pipe, so end-of-file
\* without a message means that the child runs its program or was killed.
LEMMA PipeStep ==
  ASSUME IInv, NEW t \in Contained, Does(t)
  PROVE  PipeTellsAll(t)'
<1>1. /\ ParentTypeOK /\ ChildTypeOK /\ DescriptorTypeOK
      /\ ForkOnce(t) /\ SessionInOrder(t) /\ PipeTellsAll(t) /\ t \in Spawns
  BY DEF IInv, TypeOK
<1> USE <1>1 DEF ParentTypeOK, ChildTypeOK, DescriptorTypeOK, ForkOnce,
      BeforeFork, AfterFork, PipeTellsAll
<1>2. CASE Opening(t) \/ MakePipe(t)
  BY <1>2 DEF Opening, OpenPty, SetCloexec, Prepare, MakePipe, Step, EndsWith,
    Early, childVars
<1>3. CASE Fork(t)
  BY <1>3 DEF Fork, OpenPipes, Step, EndsWith, Early
<1>4. CASE DropOutput(t)
  BY <1>4 DEF DropOutput, Step, childVars
<1>5. CASE ReadEof(t)
  <2>1. t \notin pipes[t] /\ t \notin message /\ kpc[t] \in {"running", "dead"}
    BY <1>5 DEF ReadEof, ChildStates
  <2> QED
    BY <1>5, <2>1 DEF ReadEof, Step, childVars
<1>6. CASE ReadError(t)
  BY <1>6 DEF ReadError, EndsWith, Early
<1>7. CASE IntoReceipt(t) \/ Contain(t)
  BY <1>7 DEF IntoReceipt, Contain, Step, EndsWith, childVars
<1>8. CASE ResetSignals(t) \/ AcquireSession(t) \/ TakeTerminal(t)
  BY <1>8 DEF ResetSignals, AcquireSession, TakeTerminal, AfterTerminal, Goes,
    Fails
<1>9. CASE CloseRandomFds(t) \/ Exec(t)
  BY <1>9 DEF CloseRandomFds, Exec, Goes, Fails
<1>10. CASE Report(t) \/ Killed(t)
  BY <1>10 DEF Report, Killed, Goes
<1> QED
  BY <1>2, <1>3, <1>4, <1>5, <1>6, <1>7, <1>8, <1>9, <1>10
  DEF Does, SpawnStep, ChildStep

LEMMA InvariantStep == IInv /\ [Next]_vars => IInv'
<1> SUFFICES ASSUME IInv, [Next]_vars PROVE IInv'
  OBVIOUS
<1>1. ASSUME NEW t \in Spawns, Does(t) PROVE IInv'
  <2>1. TypeOK'
    BY <1>1, ParentTypes, ChildTypes, DescriptorTypes, FlagTypes DEF TypeOK
  <2>2. \A d \in Spawns: ForkOnce(d)' /\ SessionInOrder(d)'
    BY <1>1, ForkStep, SessionStep, OthersStep
  <2>3. \A d \in Contained: PipeTellsAll(d)'
    BY <1>1, PipeStep, OthersStep
  <2> QED
    BY <2>1, <2>2, <2>3 DEF IInv
<1>2. CASE OtherThreads \/ UNCHANGED vars
  <2>1. UNCHANGED <<ppc, outcome, childVars>> /\ lock' \in BOOLEAN
    BY <1>2 DEF OtherThreads, vars, IInv, TypeOK, FlagTypeOK
  <2> QED
    BY <2>1 DEF childVars, IInv, TypeOK, ParentTypeOK, ChildTypeOK,
      DescriptorTypeOK, FlagTypeOK, ForkOnce, SessionInOrder, PipeTellsAll
<1> QED
  BY <1>1, <1>2 DEF Next, Does

-----------------------------------------------------------------------------
(* Theorems.                                                               *)

\* The inductive invariant holds in every reachable state, for any mix of
\* contained and legacy spawns.
THEOREM SpawnInvariant == Spec => []IInv
<1> QED
  BY InitInvariant, InvariantStep, PTL DEF Spec

\* Every variable keeps its type, and no program inherits an error pipe.
THEOREM SpawnTypes == Spec => []TypeOK
<1>1. IInv => TypeOK
  BY DEF IInv
<1> QED
  BY <1>1, SpawnInvariant, PTL

\* A program runs only in a session of its own, with the terminal it asked
\* for (unix.rs:254-278, 350-362).
THEOREM OwnSession == Spec => []ProgramRunsInOwnSession
<1>1. IInv => ProgramRunsInOwnSession
  BY DEF IInv, SessionInOrder, ProgramRunsInOwnSession
<1> QED
  BY <1>1, SpawnInvariant, PTL

\* Success of a contained spawn implies that its child reported no failure, up
\* to and including that of exec (unix.rs:363-431).
THEOREM FailuresAreReported == Spec => []ContainedFailureIsReported
<1>1. IInv => ContainedFailureIsReported
  BY DEF IInv, PipeTellsAll, ContainedFailureIsReported
<1> QED
  BY <1>1, SpawnInvariant, PTL

-----------------------------------------------------------------------------
(* The contract.                                                           *)

\* A step of one contained spawn changes no other's part of the contract.
LEMMA ContractFrame ==
  ASSUME IInv, NEW t \in Contained, Does(t)
  PROVE  /\ ContractChild' = [ContractChild EXCEPT ![t] = ChildAs(t)']
         /\ ContractAnswer' = [ContractAnswer EXCEPT ![t] = AnswerAs(t)']
         /\ InSession' = IF session'[t] # "inherited"
                         THEN InSession \cup {t} ELSE InSession \ {t}
<1>1. ASSUME NEW d \in Contained, d # t
      PROVE  /\ ChildAs(d)' = ChildAs(d) /\ AnswerAs(d)' = AnswerAs(d)
             /\ session'[d] = session[d]
  BY <1>1, OthersKept DEF ChildAs, AnswerAs
<1> QED
  BY <1>1 DEF ContractChild, ContractAnswer, InSession

\* ... and what it leaves of its own part is unchanged as a whole.
LEMMA ContractKept ==
  ASSUME IInv, NEW t \in Contained, Does(t)
  PROVE  /\ ChildAs(t)' = ChildAs(t) => UNCHANGED ContractChild
         /\ AnswerAs(t)' = AnswerAs(t) => UNCHANGED ContractAnswer
         /\ (session'[t] = "inherited" <=> session[t] = "inherited")
              => UNCHANGED InSession
<1>1. ChildAs(t)' = ChildAs(t) => UNCHANGED ContractChild
  BY ContractFrame DEF ContractChild
<1>2. AnswerAs(t)' = AnswerAs(t) => UNCHANGED ContractAnswer
  BY ContractFrame DEF ContractAnswer
<1>3. (session'[t] = "inherited" <=> session[t] = "inherited") => UNCHANGED InSession
  BY ContractFrame DEF InSession
<1> QED
  BY <1>1, <1>2, <1>3

\* Every step of a contained spawn is a step of its contract, or none.
LEMMA ContractStep ==
  ASSUME IInv, NEW t \in Contained, Does(t)
  PROVE  Contract!Step(t) \/ UNCHANGED <<ContractChild, InSession, ContractAnswer, {}>>
<1>1. /\ ParentTypeOK /\ ChildTypeOK /\ t \in Spawns
      /\ ForkOnce(t) /\ SessionInOrder(t) /\ PipeTellsAll(t)
  BY DEF IInv, TypeOK
<1>2. /\ ContractChild[t] = ChildAs(t) /\ ContractAnswer[t] = AnswerAs(t)
      /\ t \in InSession <=> session[t] # "inherited"
  BY DEF ContractChild, ContractAnswer, InSession
<1> USE <1>1 DEF ParentTypeOK, ChildTypeOK, ForkOnce, BeforeFork, AfterFork,
      ChildAs, AnswerAs
<1>3. CASE OpenPty(t) \/ MakePipe(t) \/ DropOutput(t) \/ ReadEof(t)
  BY <1>3, ContractKept
  DEF OpenPty, MakePipe, DropOutput, ReadEof, Step, childVars
<1>4. CASE SetCloexec(t)
  BY <1>4, ContractKept DEF SetCloexec, Step, EndsWith, childVars
<1>5. CASE Prepare(t)
  <2>1. CASE UNCHANGED outcome
    BY <1>5, <2>1, ContractKept DEF Prepare, Step, childVars
  <2>2. CASE ppc[t] = "open" /\ EndsWith(t, Early(t))
    <3>1. AnswerAs(t) = "none" /\ AnswerAs(t)' = "before" /\ ChildAs(t) = "none"
          /\ UNCHANGED <<ChildAs(t), session>>
      BY <1>5, <2>2 DEF Prepare, EndsWith, Early, childVars
    <3>2. Contract!FailEarly(t)
      BY <3>1, <1>2, ContractFrame, ContractKept
      DEF Contract!FailEarly, Contract!Becomes, Contract!Says
    <3> QED
      BY <3>2 DEF Contract!Step
  <2> QED
    BY <1>5, <2>1, <2>2 DEF Prepare
<1>6. CASE Fork(t)
  <2>1. CASE Step(t, "piped", "forked") /\ kpc' = [kpc EXCEPT ![t] = "signals"]
             /\ UNCHANGED outcome
    <3>1. ChildAs(t) = "none" /\ ChildAs(t)' = "quiet" /\ AnswerAs(t) = "none"
          /\ UNCHANGED <<AnswerAs(t), session>>
      BY <1>6, <2>1 DEF Fork, Step
    <3>2. Contract!Create(t)
      BY <3>1, <1>2, ContractFrame, ContractKept
      DEF Contract!Create, Contract!Becomes
    <3> QED
      BY <3>2 DEF Contract!Step
  <2>2. CASE ppc[t] = "piped" /\ EndsWith(t, Early(t)) /\ UNCHANGED kpc
    <3>1. AnswerAs(t) = "none" /\ AnswerAs(t)' = "before" /\ ChildAs(t) = "none"
          /\ UNCHANGED <<ChildAs(t), session>>
      BY <1>6, <2>2 DEF Fork, EndsWith, Early
    <3>2. Contract!FailEarly(t)
      BY <3>1, <1>2, ContractFrame, ContractKept
      DEF Contract!FailEarly, Contract!Becomes, Contract!Says
    <3> QED
      BY <3>2 DEF Contract!Step
  <2> QED
    BY <1>6, <2>1, <2>2 DEF Fork
<1>7. CASE ReadError(t)
  <2>1. AnswerAs(t) = "none" /\ AnswerAs(t)' = "before" /\ ChildAs(t) = "gone"
        /\ ChildAs(t)' = "none" /\ UNCHANGED session
    BY <1>7 DEF ReadError, EndsWith, Early
  <2>2. Contract!FailEarly(t)
    BY <2>1, <1>2, ContractFrame, ContractKept
    DEF Contract!FailEarly, Contract!Becomes, Contract!Says
  <2> QED
    BY <2>2 DEF Contract!Step
<1>8. CASE IntoReceipt(t) /\ UNCHANGED outcome
  BY <1>8, ContractKept DEF IntoReceipt, childVars
<1>9. CASE (IntoReceipt(t) /\ EndsWith(t, "Receipt")) \/ (Contain(t) /\ EndsWith(t, "Adoption"))
  <2>1. AnswerAs(t) = "none" /\ AnswerAs(t)' = "failed" /\ ChildAs(t) # "none"
        /\ UNCHANGED <<ChildAs(t), session>>
    BY <1>9 DEF IntoReceipt, Contain, Step, EndsWith, childVars, PipeTellsAll
  <2>2. Contract!FailLate(t)
    BY <2>1, <1>2, ContractFrame, ContractKept
    DEF Contract!FailLate, Contract!Says
  <2> QED
    BY <2>2 DEF Contract!Step
<1>10. CASE Contain(t) /\ EndsWith(t, "ok")
  <2>1. /\ AnswerAs(t) = "none" /\ AnswerAs(t)' = "guard" /\ ChildAs(t) # "none"
        /\ session[t] # "inherited" /\ UNCHANGED <<ChildAs(t), session>>
    BY <1>10 DEF Contain, EndsWith, childVars, PipeTellsAll
  <2>2. Contract!Guard(t)
    BY <2>1, <1>2, ContractFrame, ContractKept
    DEF Contract!Guard, Contract!Says, Contract!Becomes
  <2> QED
    BY <2>2 DEF Contract!Step
<1>11. CASE ResetSignals(t) \/ TakeTerminal(t) \/ CloseRandomFds(t)
  BY <1>11, ContractKept DEF ResetSignals, TakeTerminal, CloseRandomFds,
    AfterTerminal, Goes, Fails, SessionInOrder
<1>12. CASE AcquireSession(t)
  <2>1. CASE session' = [session EXCEPT ![t] = "own"]
    <3>1. /\ ChildAs(t) = "quiet" /\ ChildAs(t)' = "quiet" /\ session'[t] = "own"
          /\ AnswerAs(t)' = AnswerAs(t)
      BY <1>12, <2>1 DEF AcquireSession, Goes, Fails
    <3>2. AnswerAs(t) = "none"
      BY <1>12 DEF AcquireSession, Goes, Fails, PipeTellsAll, ParentStates, Outcomes
    <3>3. Contract!Contain(t)
      BY <3>1, <3>2, <1>2, ContractFrame, ContractKept
      DEF Contract!Contain
    <3> QED
      BY <3>3 DEF Contract!Step
  <2>2. CASE UNCHANGED session
    BY <1>12, <2>2, ContractKept DEF AcquireSession, Goes, Fails
  <2> QED
    BY <1>12, <2>1, <2>2 DEF AcquireSession
<1>13. CASE Exec(t)
  <2>1. CASE Goes(t, "exec", "running")
    <3>1. /\ ChildAs(t) = "quiet" /\ ChildAs(t)' = "running"
          /\ session[t] # "inherited" /\ UNCHANGED <<AnswerAs(t), session>>
      BY <1>13, <2>1 DEF Exec, Goes, SessionInOrder
    <3>2. AnswerAs(t) \notin {"before", "failed"}
      BY <1>13, <2>1 DEF Goes, PipeTellsAll
    <3>3. Contract!Run(t)
      BY <3>1, <3>2, <1>2, ContractFrame, ContractKept
      DEF Contract!Run, Contract!Becomes
    <3> QED
      BY <3>3 DEF Contract!Step
  <2>2. CASE Fails(t, "exec")
    BY <1>13, <2>2, ContractKept DEF Exec, Goes, Fails
  <2> QED
    BY <1>13, <2>1, <2>2 DEF Exec
<1>14. CASE Report(t) \/ Killed(t)
  <2>1. /\ ChildAs(t) \in {"quiet", "running"} /\ ChildAs(t)' = "gone"
        /\ UNCHANGED <<AnswerAs(t), session>>
    BY <1>14 DEF Report, Killed, Goes, ChildStates
  <2>2. Contract!Die(t)
    BY <2>1, <1>2, ContractFrame, ContractKept
    DEF Contract!Die, Contract!Becomes
  <2> QED
    BY <2>2 DEF Contract!Step
<1> QED
  <2>1. IntoReceipt(t) => UNCHANGED outcome \/ EndsWith(t, "Receipt")
    BY DEF IntoReceipt
  <2>2. Contain(t) => EndsWith(t, "ok") \/ EndsWith(t, "Adoption")
    BY DEF Contain
  <2> QED
    BY <1>3, <1>4, <1>5, <1>6, <1>7, <1>8, <1>9, <1>10, <1>11, <1>12, <1>13,
      <1>14, <2>1, <2>2 DEF Does, Opening, SpawnStep, ChildStep

\* The contained spawn of a Unix pty implements the contract of every
\* contained spawn, beside any number of others (unix.rs:304-431).
THEOREM ImplementsContract == Spec => ContractSpec
<1>1. Init => Contract!Init
  BY DEF Init, Contract!Init, ContractChild, ContractAnswer, InSession, ChildAs,
    AnswerAs
<1>2. IInv /\ [Next]_vars =>
        [Contract!Next]_<<ContractChild, InSession, ContractAnswer, {}>>
  <2> SUFFICES ASSUME IInv, [Next]_vars
               PROVE  Contract!Next \/ UNCHANGED <<ContractChild, InSession, ContractAnswer, {}>>
    OBVIOUS
  <2>1. ASSUME NEW t \in Contained, Does(t)
        PROVE  Contract!Next \/ UNCHANGED <<ContractChild, InSession, ContractAnswer, {}>>
    BY <2>1, ContractStep DEF Contract!Next
  <2>2. ASSUME NEW t \in Spawns \ Contained, Does(t)
        PROVE  UNCHANGED <<ContractChild, InSession, ContractAnswer, {}>>
    <3>1. ASSUME NEW d \in Contained
          PROVE  /\ ChildAs(d)' = ChildAs(d) /\ AnswerAs(d)' = AnswerAs(d)
                 /\ session'[d] = session[d]
      BY <2>2, <3>1, OthersKept DEF ChildAs, AnswerAs
    <3> QED
      BY <3>1 DEF ContractChild, ContractAnswer, InSession
  <2>3. CASE OtherThreads \/ UNCHANGED vars
    BY <2>3 DEF OtherThreads, vars, childVars, ContractChild, ContractAnswer,
      InSession, ChildAs, AnswerAs
  <2> QED
    BY <2>1, <2>2, <2>3 DEF Next, Does
<1> QED
  BY <1>1, <1>2, SpawnInvariant, PTL
  DEF Spec, ContractSpec, Contract!Spec, Contract!contractVars

\* What the caller of a contained spawn may conclude: whatever runs is in its
\* own session, a guard stands for a contained child, BeforeSpawn for no child
\* and every other error for one that exists or existed (lib.rs:72-83, 523-536).
THEOREM PromiseKept == Spec => []Contract!Promise
<1>1. IInv => Contract!Promise
  <2> SUFFICES ASSUME IInv, NEW t \in Contained
               PROVE  /\ ChildAs(t) = "running" => session[t] # "inherited"
                      /\ AnswerAs(t) = "guard" => session[t] # "inherited"
                      /\ AnswerAs(t) # "resolved"
                      /\ AnswerAs(t) = "before" => ChildAs(t) = "none"
                      /\ AnswerAs(t) \in {"guard", "failed"} => ChildAs(t) # "none"
    BY DEF Contract!Promise, ContractChild, ContractAnswer, InSession
  <2>1. t \in Spawns
    BY SpawnAssumption
  <2>2. ForkOnce(t) /\ SessionInOrder(t) /\ PipeTellsAll(t)
    BY <2>1 DEF IInv
  <2> QED
    BY <2>2 DEF ForkOnce, SessionInOrder, PipeTellsAll, ChildAs, AnswerAs
<1> QED
  BY <1>1, SpawnInvariant, PTL
=============================================================================
