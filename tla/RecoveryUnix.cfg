\* With AutoReap and CredentialChange the child may, but need not, get out of
\* the worker's reach; three calls of recover() leave stale attempts queued.
SPECIFICATION FairSpec
CONSTANTS
  Platform = "unix"
  AutoReap = TRUE
  CredentialChange = TRUE
  HandleFailure = FALSE
  MaxAttempts = 3
  GracePolls = 5
INVARIANTS IInv NeverDiscarded TrueIsFinal SignalsOnlyTheChild
PROPERTIES CustodySpec DroppedRecoveryCompletes WorkerStops
\* The error value may be dropped and the child gone: nothing is left to do.
CHECK_DEADLOCK FALSE
