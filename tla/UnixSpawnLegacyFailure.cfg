SPECIFICATION Spec
CONSTANTS
  s1 = s1
  s2 = s2
  Spawns <- MCSpawns
  Contained <- MCNoneContained
  ControllingTty <- MCControllingTty
INVARIANT FailureIsReported

\* All spawns may be over.
CHECK_DEADLOCK FALSE
