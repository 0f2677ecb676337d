\* A contained spawn beside a legacy one, in one program.
SPECIFICATION FairSpec
CONSTANTS
  s1 = s1
  s2 = s2
  Spawns <- MCSpawns
  Contained <- MCOneContained
  ControllingTty <- MCControllingTty
INVARIANTS IInv ProgramRunsInOwnSession ContainedFailureIsReported
PROPERTIES SpawnReturns ContractSpec
\* All spawns may be over.
CHECK_DEADLOCK FALSE
