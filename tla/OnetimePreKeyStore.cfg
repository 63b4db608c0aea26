SPECIFICATION FairSpec
CONSTANTS
  a1 = a1
  a2 = a2
  b1 = b1
  r1 = r1
  r2 = r2
  r3 = r3
  Ids = {a1, a2, b1}
  Requests = {r1, r2, r3}
  Jobs <- AllJobs
  Limit = 2
  MaxFaults = 2
  None = None
CONSTRAINT
  JobsInOrder
INVARIANTS
  TypeOK
  LocksHold
  HandedTwiceOnlyIfOverlapping
PROPERTIES
  ImplementsPool
  EveryRequestReturns
CHECK_DEADLOCK FALSE
