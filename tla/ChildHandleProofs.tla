-------------------------- MODULE ChildHandleProofs --------------------------
(***************************************************************************)
(* Safety of ChildHandle on every platform, for every length of the grace  *)
(* period. That a blocked wait returns is left to TLC.                     *)
(***************************************************************************)
EXTENDS ChildHandle, TLAPS

USE ProcessAssumption, HandleAssumption

LEMMA InitInvariant == Init => IInv
<1> SUFFICES ASSUME Init PROVE IInv
  OBVIOUS
<1>1. FlagTypeOK
  BY Zenon DEF Init, FlagTypeOK
<1>2. StateTypeOK /\ ResultTypeOK
  BY DEF Init, StateTypeOK, ResultTypeOK, ProcessStates
<1>3. PidInv /\ StatusInv /\ KillTerminates /\ SigKillHitsTheChild
  BY DEF Init, PidInv, StatusInv, KillTerminates, SigKillHitsTheChild, Unix, Windows
<1> QED
  BY <1>1, <1>2, <1>3 DEF IInv, TypeOK

-----------------------------------------------------------------------------
(* Types.                                                                  *)

LEMMA FlagTypes ==
  ASSUME IInv, [Next]_vars
  PROVE  FlagTypeOK'
<1>1. FlagTypeOK
  BY DEF IInv, TypeOK
<1>2. (denied \in BOOLEAN /\ deaf \in BOOLEAN)'
  BY <1>1 DEF FlagTypeOK, Next, vars, world, processVars, TryWait, WaitBegins,
    WaitReturns, WaitEnds, HandlePanics, Hangup, GracePoll, GraceStep, SigKill,
    Terminate, CloneKiller, KillerHangup, KillerTerminate, ProcessExits, Exits,
    RecyclePid, Credentials, ChangesCredentials
<1>3. (code259 \in BOOLEAN)'
  BY <1>1 DEF FlagTypeOK, Next, vars, processVars, TryWait, WaitBegins,
    WaitReturns, WaitEnds, HandlePanics, Hangup, GracePoll, GraceStep, SigKill,
    Terminate, CloneKiller, KillerHangup, KillerTerminate, ProcessExits,
    RecyclePid, Credentials
<1>4. (status \in BOOLEAN)'
  <2>1. status' = TRUE \/ status' = status
    BY DEF Next, vars, ownerVars, TryWait, UnixPoll, WindowsPoll, FreshPoll,
      Collects, Reaped, Reports, WaitBegins, WaitReturns, WaitEnds,
      HandlePanics, Hangup, GracePoll, GraceStep, SigKill, Terminate,
      CloneKiller, KillerHangup, KillerTerminate, ProcessExits, RecyclePid,
      Credentials
  <2> QED
    BY <1>1, <2>1 DEF FlagTypeOK
<1> QED
  BY <1>2, <1>3, <1>4 DEF FlagTypeOK

LEMMA StateTypes ==
  ASSUME IInv, [Next]_vars
  PROVE  StateTypeOK'
<1>1. StateTypeOK
  BY DEF IInv, TypeOK
<1> USE <1>1 DEF StateTypeOK, ProcessStates, world, processVars, ownerVars, killerVars
<1>2. CASE TryWait
  BY <1>2 DEF TryWait, UnixPoll, WindowsPoll, FreshPoll, Collects, Reaped, Reports
<1>3. CASE WaitBegins \/ HandlePanics
  BY <1>3 DEF WaitBegins, HandlePanics
<1>4. CASE WaitReturns
  BY <1>4 DEF WaitReturns, WaitEnds, Collects, Reaped, Reports
<1>5. CASE Hangup
  BY <1>5 DEF Hangup, HangupHits
<1>6. CASE GracePoll
  BY <1>6 DEF GracePoll, GraceStep, Reaped
<1>7. CASE SigKill \/ Terminate
  BY <1>7 DEF SigKill, Terminate, Killed
<1>8. CASE CloneKiller \/ KillerHangup \/ KillerTerminate
  BY <1>8 DEF CloneKiller, KillerHangup, HangupHits, KillerTerminate, Killed
<1>9. CASE ProcessExits
  BY <1>9 DEF ProcessExits, Exits
<1>10. CASE RecyclePid \/ Credentials
  BY <1>10 DEF RecyclePid, Credentials, ChangesCredentials
<1>11. CASE UNCHANGED vars
  BY <1>11 DEF vars
<1> QED
  BY <1>2, <1>3, <1>4, <1>5, <1>6, <1>7, <1>8, <1>9, <1>10, <1>11 DEF Next

LEMMA ResultTypes ==
  ASSUME IInv, [Next]_vars
  PROVE  ResultTypeOK'
<1>1. ResultTypeOK
  BY DEF IInv, TypeOK
<1> QED
  BY <1>1 DEF ResultTypeOK, Next, vars, ownerVars, killerVars, TryWait,
    UnixPoll, WindowsPoll, FreshPoll, Collects, Reports, WaitBegins,
    WaitReturns, WaitEnds, HandlePanics, Hangup, GracePoll, GraceStep, SigKill,
    Terminate, TerminateResult, CloneKiller, KillerHangup, KillerTerminate,
    ProcessExits, RecyclePid, Credentials

-----------------------------------------------------------------------------
(* What the pid and the cached status stand for, and the results of kill.  *)

LEMMA StatusStep ==
  ASSUME IInv, [Next]_vars
  PROVE  PidInv' /\ StatusInv' /\ KillTerminates'
<1>1. TypeOK /\ PidInv /\ StatusInv /\ KillTerminates
  BY DEF IInv
<1> USE <1>1 DEF TypeOK, FlagTypeOK, StateTypeOK, ResultTypeOK, ProcessStates, PidInv, StatusInv,
      KillTerminates, world, processVars, ownerVars, killerVars, Unix, Windows
<1>2. CASE TryWait
  BY <1>2 DEF TryWait, UnixPoll, WindowsPoll, FreshPoll, Collects, Reaped,
    Reports, StatusAvailable, StillRunning, WaitFails
<1>3. CASE WaitBegins \/ HandlePanics
  BY <1>3 DEF WaitBegins, HandlePanics
<1>4. CASE WaitReturns
  BY <1>4 DEF WaitReturns, WaitEnds, Collects, Reaped, Reports,
    StatusAvailable, WaitFails
<1>5. CASE Hangup
  BY <1>5 DEF Hangup, HangupHits, Reaches, Refused
<1>6. CASE GracePoll
  BY <1>6 DEF GracePoll, GraceStep, Reaped
<1>7. CASE SigKill
  BY <1>7 DEF SigKill, Reaches, Refused, Killed
<1>8. CASE Terminate
  BY <1>8 DEF Terminate, TerminateResult, Killed
<1>9. CASE CloneKiller
  BY <1>9 DEF CloneKiller
<1>10. CASE KillerHangup
  BY <1>10 DEF KillerHangup, HangupHits, Reaches, Refused
<1>11. CASE KillerTerminate
  BY <1>11 DEF KillerTerminate, TerminateResult, Killed
<1>12. CASE ProcessExits
  BY <1>12 DEF ProcessExits, Exits
<1>13. CASE RecyclePid
  BY <1>13 DEF RecyclePid
<1>14. CASE Credentials
  BY <1>14 DEF Credentials, ChangesCredentials
<1>15. CASE UNCHANGED vars
  BY <1>15 DEF vars
<1> QED
  BY <1>2, <1>3, <1>4, <1>5, <1>6, <1>7, <1>8, <1>9, <1>10, <1>11, <1>12,
    <1>13, <1>14, <1>15 DEF Next

\* An uncollected child keeps its pid, and SIGKILL is sent to no other.
LEMMA SigKillAim == PidInv /\ StatusInv => SigKillHitsTheChild
  BY DEF PidInv, StatusInv, SigKillHitsTheChild

LEMMA InvariantStep == IInv /\ [Next]_vars => IInv'
<1> SUFFICES ASSUME IInv, [Next]_vars PROVE IInv'
  OBVIOUS
<1>1. TypeOK' /\ PidInv' /\ StatusInv' /\ KillTerminates'
  BY FlagTypes, StateTypes, ResultTypes, StatusStep DEF TypeOK
<1>2. SigKillHitsTheChild'
  BY <1>1, SigKillAim DEF PidInv, StatusInv, SigKillHitsTheChild
<1> QED
  BY <1>1, <1>2 DEF IInv

-----------------------------------------------------------------------------
(* Theorems.                                                               *)

\* The inductive invariant holds in every reachable state on every platform.
THEOREM HandleInvariant == Spec => []IInv
<1> QED
  BY InitInvariant, InvariantStep, PTL DEF Spec

\* A kill() that reports success left a process that is dead or about to be,
\* except for the killer's weaker promise (lib.rs:754-787, win/mod.rs:65-79).
THEOREM KillIsTruthful == Spec => []KillTerminates
<1>1. IInv => KillTerminates
  BY DEF IInv
<1> QED
  BY <1>1, HandleInvariant, PTL

\* The SIGKILL stage of kill() never hits a process that got the child's pid
\* after the child was collected through this handle (lib.rs:761-787).
THEOREM SigKillIsExact == Spec => []SigKillHitsTheChild
<1>1. IInv => SigKillHitsTheChild
  BY DEF IInv
<1> QED
  BY <1>1, HandleInvariant, PTL

\* A status once reported is reported ever after (lib.rs:487-494).
THEOREM StatusStays == Spec => StatusIsFinal
<1>1. ASSUME IInv, [Next]_vars
      PROVE  [waited = "status" /\ ~code259 => waited' = "status"]_vars
  <2>1. TypeOK /\ StatusInv
    BY <1>1 DEF IInv
  <2> SUFFICES ASSUME waited = "status", ~code259 PROVE waited' = "status"
    OBVIOUS
  <2> USE <2>1 DEF TypeOK, FlagTypeOK, StateTypeOK, StatusInv, Unix, Windows
  <2>2. CASE TryWait
    BY <2>2 DEF TryWait, UnixPoll, WindowsPoll, Collects, Reports, StatusAvailable
  <2>3. CASE WaitReturns
    BY <2>3 DEF WaitReturns, WaitEnds, Collects, Reports, WaitFails
  <2> QED
    BY <1>1, <2>2, <2>3 DEF Next, WaitBegins, HandlePanics, Hangup, GracePoll,
      GraceStep, SigKill, Terminate, CloneKiller, KillerHangup,
      KillerTerminate, ProcessExits, RecyclePid, Credentials, vars, ownerVars
<1> QED
  BY <1>1, HandleInvariant, PTL DEF Spec, StatusIsFinal
=============================================================================
