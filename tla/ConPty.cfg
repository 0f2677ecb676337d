SPECIFICATION FairSpec
CONSTANTS
  c1 = c1
  c2 = c2
  NoOne = NoOne
  Callers <- MCCallers
  Masters <- MCMasters
  Sizes <- MCSizes
  HalfWord = 32768
  InitialSize = 80
  BadPathExt = TRUE
  TerminateFails = TRUE
INVARIANTS IInv FailedAssignmentNeverRuns SizeAgrees
PROPERTIES LockReleased ContractSpec
\* Both callers may have panicked.
CHECK_DEADLOCK FALSE
