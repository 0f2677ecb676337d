----------------------------- MODULE ChildHandle -----------------------------
(***************************************************************************)
(* The handles a caller of spawn_command gets: a Child, used by one thread *)
(* at a time, and a killer split off it with clone_killer, used by another *)
(* thread at any time (src/src/lib.rs:484-515, 642-822,                    *)
(* src/src/win/mod.rs:49-150).                                             *)
(*                                                                         *)
(* On Unix both address the process by its pid, which the kernel may give  *)
(* to a stranger once the child was reaped; on Windows by handles.         *)
(***************************************************************************)
EXTENDS OsProcess

CONSTANTS
  Platforms,      \* the platforms considered, among "unix" and "windows"
  GracePolls,     \* try_wait polls between SIGHUP and SIGKILL (5 in the code)
  DuplicateFails  \* Windows: DuplicateHandle may fail

ASSUME HandleAssumption ==
  /\ Platforms \subseteq {"unix", "windows"}
  /\ GracePolls \in Nat \ {0}
  /\ DuplicateFails \in BOOLEAN

VARIABLES
  platform,  \* the platform; never changes
  deaf,      \* the program ignores or handles SIGHUP; never changes
  pid,       \* whom the pid names: "child", "free" or "stranger"
  code259,   \* Windows: the exit code is STILL_ACTIVE
  opc,       \* what the owner of the Child is doing
  polls,     \* grace polls made since SIGHUP
  status,    \* std::process::Child has cached the exit status
  waited,    \* the owner's last try_wait or wait result
  ended,     \* the owner's last kill result
  killer,    \* the split-off killer: "none", "armed", or "empty" (no handle)
  killed     \* the killer's last result

world      == <<platform, deaf>>
processVars == <<proc, denied, pid, code259>>
ownerVars  == <<opc, polls, status, waited, ended>>
killerVars == <<killer, killed>>
vars == <<world, processVars, ownerVars, killerVars>>

Unix    == platform = "unix"
Windows == platform = "windows"

Init ==
  /\ platform \in Platforms /\ deaf \in BOOLEAN
  /\ proc = "live" /\ denied = FALSE
  /\ pid = "child" /\ code259 = FALSE
  /\ opc = "idle" /\ polls = 0 /\ status = FALSE
  /\ waited = "none" /\ ended = "none"
  /\ killer = "none" /\ killed = "none"

-----------------------------------------------------------------------------
(* Waiting.                                                                *)

\* waitpid takes the zombie away, std caches its status, the pid is released.
Reaped ==
  /\ proc' = "reaped" /\ status' = TRUE
  /\ pid' = IF pid = "child" THEN "free" ELSE pid

Collects ==
  /\ waited' = "status"
  /\ IF Unix THEN Reaped ELSE UNCHANGED <<proc, pid, status>>

Reports(result) == waited' = result /\ UNCHANGED <<proc, pid, status>>

\* waitpid with WNOHANG, by a Child that has no cached status.
FreshPoll ==
  \/ proc = "exited" /\ Collects
  \/ WaitFails /\ Reports("error")
  \/ StillRunning /\ Reports("running")

\* Deviation: the cached status is handed out only once.
UnixPoll_Forgets == IF status THEN Reports("running") ELSE FreshPoll

\* std::process::Child::try_wait.
UnixPoll ==
  IF status THEN Collects ELSE FreshPoll

\* WinChild::is_complete reads the exit code and takes 259 for "running".
WindowsPoll ==
  IF StatusAvailable /\ ~code259 THEN Collects ELSE Reports("running")

TryWait ==
  /\ opc = "idle"
  /\ IF Unix THEN UnixPoll ELSE WindowsPoll
  /\ UNCHANGED <<world, denied, code259, opc, polls, ended, killerVars>>

\* wait() blocks until the process ended.
WaitBegins ==
  /\ opc = "idle"
  /\ opc' = "waiting"
  /\ UNCHANGED <<world, processVars, polls, status, waited, ended, killerVars>>

WaitEnds(ready) ==
  /\ opc = "waiting"
  /\ \/ ready /\ Collects
     \/ WaitFails /\ ~status /\ Reports("error")
  /\ opc' = "idle"
  /\ UNCHANGED <<world, denied, code259, polls, ended, killerVars>>

\* Deviation: wait polls is_complete until it tells a status.
WaitReturns_Polls == WaitEnds(status \/ (StatusAvailable /\ ~code259))

\* WinChild::wait reports whatever code it finds once the handle is signalled.
WaitReturns ==
  WaitEnds(status \/ StatusAvailable)

\* WinChild duplicates its handle under the lock before every use and unwraps
\* the result: the owner panics, and the poisoned lock ends every later call.
HandlePanics ==
  /\ opc \in {"idle", "waiting"} /\ Windows /\ DuplicateFails
  /\ opc' = "panicked"
  /\ UNCHANGED <<world, processVars, polls, status, waited, ended, killerVars>>

-----------------------------------------------------------------------------
(* Killing through the Child.                                              *)

\* kill(2) finds the process the pid names now, or is refused.
Reaches == pid = "stranger" \/ (pid = "child" /\ ~denied)
Refused == pid = "free" \/ (pid = "child" /\ denied)

HangupHits ==
  /\ Reaches
  /\ proc' = IF proc = "live" /\ pid = "child" /\ ~deaf THEN "dying" ELSE proc

\* <std::process::Child as ChildKiller>::kill sends SIGHUP to self.id(),
\* whether or not the status was collected before.
Hangup ==
  /\ opc = "idle" /\ Unix
  /\ \/ HangupHits /\ opc' = "grace" /\ UNCHANGED ended
     \/ Refused /\ ended' = "error" /\ UNCHANGED <<proc, opc>>
  /\ UNCHANGED <<world, denied, pid, code259, polls, status, waited, killerVars>>

\* A poll of the grace period that sees the end of the process, or not: then
\* after "limit" polls in all SIGKILL follows. An error counts as not yet.
GraceStep(seen, limit) ==
  /\ opc = "grace"
  /\ IF seen
     THEN Reaped /\ opc' = "idle" /\ polls' = 0 /\ ended' = "ok"
     ELSE /\ polls' = (polls + 1) % limit
          /\ opc' = IF polls + 1 = limit THEN "sigkill" ELSE "grace"
          /\ UNCHANGED <<proc, status, pid, ended>>
  /\ UNCHANGED <<world, denied, code259, waited, killerVars>>

\* Deviation: the grace period is one poll too long.
GracePoll_OneMore == GraceStep(status \/ proc = "exited", GracePolls + 1)

\* Deviation: the poll asks the kernel although the status is cached.
GracePoll_Uncached == GraceStep(proc = "exited", GracePolls)

GracePoll ==
  GraceStep(status \/ proc = "exited", GracePolls)

\* Deviation: SIGHUP and the grace period are taken for termination.
SigKill_Omitted ==
  /\ opc = "sigkill"
  /\ opc' = "idle" /\ ended' = "ok"
  /\ UNCHANGED <<world, processVars, polls, status, waited, killerVars>>

\* std::process::Child::kill on an uncollected child is kill(pid, SIGKILL).
SigKill ==
  /\ opc = "sigkill"
  /\ \/ /\ Reaches
        /\ IF pid = "child" THEN Killed ELSE UNCHANGED proc
        /\ ended' = "ok"
     \/ Refused /\ ended' = "error" /\ UNCHANGED proc
  /\ opc' = "idle"
  /\ UNCHANGED <<world, denied, pid, code259, polls, status, waited, killerVars>>

\* TerminateProcess, refused once the process has begun to terminate.
TerminateResult == IF proc = "live" THEN "ok" ELSE "error"

\* WinChild::do_kill.
Terminate ==
  /\ opc = "idle" /\ Windows
  /\ Killed
  /\ ended' = TerminateResult
  /\ UNCHANGED <<world, denied, pid, code259, opc, polls, status, waited,
                 killerVars>>

-----------------------------------------------------------------------------
(* The killer.                                                             *)

\* clone_killer, on the Child or on a killer. On Windows a std Child whose
\* handle cannot be duplicated gives a killer without one (a WinChild panics).
CloneKiller ==
  /\ opc = "idle" \/ killer = "armed"
  /\ \/ killer' = "armed"
     \/ DuplicateFails /\ Windows /\ killer' = "empty"
  /\ killed' = "none"
  /\ UNCHANGED <<world, processVars, ownerVars>>

\* ProcessSignaller::kill on Unix: SIGHUP by pid, and nothing else.
KillerHangup ==
  /\ killer = "armed" /\ Unix
  /\ \/ HangupHits /\ killed' = "ok"
     \/ Refused /\ killed' = "error" /\ UNCHANGED proc
  /\ UNCHANGED <<world, denied, pid, code259, ownerVars, killer>>

\* ProcessSignaller::kill and WinChildKiller::kill on Windows.
KillerTerminate ==
  /\ killer # "none" /\ Windows
  /\ IF killer = "armed"
     THEN Killed /\ killed' = TerminateResult
     ELSE killed' = "ok" /\ UNCHANGED proc
  /\ UNCHANGED <<world, denied, pid, code259, ownerVars, killer>>

-----------------------------------------------------------------------------
(* The kernel. A Windows process always leaves its code to its handles.    *)

ProcessExits ==
  /\ Exits
  /\ Windows => proc' = "exited"
  /\ code259' \in IF Windows /\ proc = "live" THEN BOOLEAN ELSE {code259}
  /\ pid' = IF proc' = "lost" /\ pid = "child" THEN "free" ELSE pid
  /\ UNCHANGED <<world, ownerVars, killerVars>>

RecyclePid ==
  /\ pid = "free"
  /\ pid' = "stranger"
  /\ UNCHANGED <<world, proc, denied, code259, ownerVars, killerVars>>

Credentials ==
  /\ Unix /\ ChangesCredentials
  /\ UNCHANGED <<world, pid, code259, ownerVars, killerVars>>

Next ==
  \/ TryWait \/ WaitBegins \/ WaitReturns \/ HandlePanics
  \/ Hangup \/ GracePoll \/ SigKill \/ Terminate
  \/ CloneKiller \/ KillerHangup \/ KillerTerminate
  \/ ProcessExits \/ RecyclePid \/ Credentials

Spec == Init /\ [][Next]_vars

\* A blocked wait returns when it can; a killed process dies.
FairSpec ==
  /\ Spec
  /\ WF_vars(WaitReturns) /\ WF_vars(GracePoll) /\ WF_vars(SigKill)
  /\ WF_vars(proc = "dying" /\ ProcessExits)

-----------------------------------------------------------------------------
(* Properties.                                                             *)

FlagTypeOK ==
  /\ denied \in BOOLEAN /\ deaf \in BOOLEAN
  /\ code259 \in BOOLEAN /\ status \in BOOLEAN

StateTypeOK ==
  /\ proc \in ProcessStates /\ platform \in Platforms
  /\ pid \in {"child", "free", "stranger"}
  /\ opc \in {"idle", "waiting", "grace", "sigkill", "panicked"}
  /\ polls \in 0..(GracePolls - 1)

ResultTypeOK ==
  /\ waited \in {"none", "running", "status", "error"}
  /\ ended \in {"none", "ok", "error"}
  /\ killer \in {"none", "armed", "empty"}
  /\ killed \in {"none", "ok", "error"}

\* Types of the variables.
TypeOK == FlagTypeOK /\ StateTypeOK /\ ResultTypeOK

\* Once the owner was told the exit status no later call says anything else,
\* whatever kill() collected in between (lib.rs:487-494); only exit code 259
\* is taken back, by a try_wait after a wait (win/mod.rs:55).
StatusIsFinal == [][waited = "status" /\ ~code259 => waited' = "status"]_vars

\* When kill() on the Child reports success the process is dead or about to
\* be, even if it ignores SIGHUP (lib.rs:766-771). The killer's success means
\* less: it only sends SIGHUP (lib.rs:741), and without a handle it does
\* nothing (lib.rs:726).
KillTerminates ==
  /\ ended = "ok" => proc # "live"
  /\ killed = "ok" => proc # "live" \/ (Unix /\ deaf) \/ killer = "empty"

\* A wait blocked on a process that was killed returns (or panics, when its
\* handle cannot be duplicated), whoever killed it and whatever exit code it
\* left (lib.rs:492-494).
WaitUnblocks ==
  opc = "waiting" /\ proc # "live" ~> opc \in {"idle", "panicked"}

\* kill() on a Child whose status was collected before sends SIGHUP to a pid
\* that may be a stranger's by now (lib.rs:761), but the cached status ends it
\* there: SIGKILL hits the child or nobody, unless the kernel had discarded it.
SigKillHitsTheChild == opc = "sigkill" => pid = "child" \/ proc = "lost"

-----------------------------------------------------------------------------
(* What the invariants rest on: only a collected or discarded child gives  *)
(* up its pid, and the cached status stands for the collected child.       *)

PidInv == pid # "child" => proc \in {"reaped", "lost"}

StatusInv ==
  /\ proc = "reaped" <=> status
  /\ opc = "sigkill" => ~status
  /\ waited = "status" => IF Unix THEN status ELSE proc = "exited"
  /\ Windows => proc \in {"live", "dying", "exited"} /\ opc \notin {"grace", "sigkill"}
  /\ Unix => killer # "empty"

IInv == TypeOK /\ PidInv /\ StatusInv /\ KillTerminates /\ SigKillHitsTheChild
=============================================================================
