SPECIFICATION FairSpec
CONSTANTS
  r1 = r1
  r2 = r2
  Readers <- MCReaders
  Modes <- MCAllModes
  DupFails = TRUE
  Room = 1
  MaxWritten = 2
  MaxOutput = 1
INVARIANTS IInv EofComesLast ReadersDrain
PROPERTIES EofReachesSlave DropReturns ReadersEnd
\* Every end may be closed and nobody left to act.
CHECK_DEADLOCK FALSE
