SPECIFICATION FairSpec
CONSTANTS
  Platform = "windows"
  AutoReap = FALSE
  CredentialChange = FALSE
  HandleFailure = TRUE
  MaxAttempts = 3
  GracePolls = 5
INVARIANT PendingIsHonest
PROPERTY DroppedRecoveryCompletes
\* The error value may be dropped and the child gone: nothing is left to do.
CHECK_DEADLOCK FALSE
