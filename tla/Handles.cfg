SPECIFICATION FairSpec
CONSTANTS
  Platforms = {"unix", "windows"}
  AutoReap = TRUE
  CredentialChange = TRUE
  DuplicateFails = TRUE
  GracePolls = 5
INVARIANTS IInv KillTerminates SigKillHitsTheChild
PROPERTIES StatusIsFinal WaitUnblocks
\* The process has exited and its owner has panicked: nothing is left to do.
CHECK_DEADLOCK FALSE
