-------------------------- MODULE ExactChildCustody --------------------------
(***************************************************************************)
(* What a failed guarded spawn promises about the child it created         *)
(* (src/src/lib.rs:301-310): from the moment the child exists until its    *)
(* exit status is collected somebody owns its exact handle; "pending" is   *)
(* lowered only after that; and recover() says "true" only after that.     *)
(* Threads, channels, signals and time are left to FailedChildRecovery.    *)
(***************************************************************************)
VARIABLES
  child,    \* "unborn", "owned" or "reaped"
  pending,  \* what recovery_pending() reads
  answer    \* the last result recover() returned, "none" before the first

custodyVars == <<child, pending, answer>>

CustodyTypeOK ==
  /\ child \in {"unborn", "owned", "reaped"}
  /\ pending \in BOOLEAN
  /\ answer \in {"none", "true", "false", "error"}

Init ==
  /\ child = "unborn"
  /\ pending = FALSE
  /\ answer = "none"

Spawn ==
  /\ child = "unborn"
  /\ child' = "owned"
  /\ UNCHANGED <<pending, answer>>

\* The failed spawn hands the child to its recovery owner.
Retain ==
  /\ child = "owned"
  /\ ~pending
  /\ answer = "none"
  /\ pending' = TRUE
  /\ UNCHANGED <<child, answer>>

Reap ==
  /\ child = "owned"
  /\ child' = "reaped"
  /\ UNCHANGED <<pending, answer>>

Clear ==
  /\ child = "reaped"
  /\ pending
  /\ pending' = FALSE
  /\ UNCHANGED <<child, answer>>

Answer(result) ==
  /\ child # "unborn"
  /\ result = "true" => child = "reaped" /\ ~pending
  /\ answer' = result
  /\ UNCHANGED <<child, pending>>

Next ==
  \/ Spawn
  \/ Retain
  \/ Reap
  \/ Clear
  \/ \E result \in {"true", "false", "error"}: Answer(result)

Spec == Init /\ [][Next]_custodyVars
=============================================================================
