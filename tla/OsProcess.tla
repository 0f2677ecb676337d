----------------------------- MODULE OsProcess -----------------------------
(***************************************************************************)
(* One operating-system process as the parent sees it through its exact    *)
(* handle (std::process::Child on Unix, the process HANDLE on Windows).    *)
(* The kernel and std are not part of the repository: this module states   *)
(* what src/ relies on when it waits for, signals and reaps a child.       *)
(*                                                                         *)
(*   none    not created                                                   *)
(*   live    running, or created suspended on Windows                      *)
(*   dying   SIGKILL delivered / TerminateProcess accepted                 *)
(*   exited  terminated, status not collected (a zombie on Unix)           *)
(*   reaped  status collected through the handle; the pid may be reused    *)
(*   lost    terminated and collected behind src/'s back, because the      *)
(*           embedding program ignores SIGCHLD; waiting fails with ECHILD  *)
(***************************************************************************)
EXTENDS Integers

CONSTANTS
  AutoReap,         \* the embedding program may be ignoring SIGCHLD
  CredentialChange  \* the child may exec a set-uid program

ASSUME ProcessAssumption == AutoReap \in BOOLEAN /\ CredentialChange \in BOOLEAN

VARIABLES
  proc,    \* the state of the process
  denied   \* signals to the process fail with EPERM

ProcessStates == {"none", "live", "dying", "exited", "reaped", "lost"}

ProcessTypeOK == proc \in ProcessStates /\ denied \in BOOLEAN

ProcessInit == proc = "none" /\ denied = FALSE

\* fork/exec or CreateProcessW succeeded.
Created ==
  /\ proc = "none"
  /\ proc' = "live"
  /\ UNCHANGED denied

\* The process terminates: by itself, by SIGHUP, or because it was killed.
Exits ==
  /\ proc \in {"live", "dying"}
  /\ proc' \in (IF AutoReap THEN {"exited", "lost"} ELSE {"exited"})
  /\ UNCHANGED denied

\* A killed process does terminate; the only exit that is assumed fair.
Dies == proc = "dying" /\ Exits

\* The child changes its credentials: kill(2) is refused from now on.
ChangesCredentials ==
  /\ CredentialChange
  /\ proc = "live"
  /\ ~denied
  /\ denied' = TRUE
  /\ UNCHANGED proc

\* What a non-blocking wait reports: a status, nothing yet, or an error.
StatusAvailable == proc \in {"exited", "reaped"}
WaitFails       == proc = "lost"
StillRunning    == proc \in {"live", "dying"}

\* SIGKILL or TerminateProcess takes effect.
Killed == proc' = IF proc = "live" THEN "dying" ELSE proc
=============================================================================
