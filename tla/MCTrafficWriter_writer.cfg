SPECIFICATION FairSpec
CONSTANTS
  Submitter = {s1, s2}
  Controller = {c1, c2}
  Free = Free
  QueueSize = 1
  MaxGen = 2
  MaxWrites = 3
INVARIANT NoWriteAbandoned
PROPERTIES AppliedOnce CallsReturn
CHECK_DEADLOCK FALSE
