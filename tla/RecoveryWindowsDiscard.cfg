SPECIFICATION Spec
CONSTANTS
  Platform = "windows"
  AutoReap = FALSE
  CredentialChange = FALSE
  HandleFailure = TRUE
  MaxAttempts = 2
  GracePolls = 5
INVARIANT NeverDiscarded

\* The error value may be dropped and the child gone: nothing is left to do.
CHECK_DEADLOCK FALSE
