SPECIFICATION FairSpec
CONSTANTS
  h1 = h1
  h2 = h2
  w1 = w1
  w2 = w2
  Values <- MCValues
  Waiters <- MCWaiters
  DuplicateFails = TRUE
INVARIANT IInv
PROPERTY CompletesUnlessStrayed
\* A future that yielded a result is not polled again.
CHECK_DEADLOCK FALSE
