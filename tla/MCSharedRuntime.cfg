SPECIFICATION FairSpec
CONSTANTS
  t1 = t1
  t2 = t2
  Thread <- MCThread
  NoThread = NoThread
  Outputs = 2
  Required = {1}
  Depth = 2
  BatchCap = 64
  Request <- MCRequest
  NoBlock = NoBlock
  KeepLimit = 1
INVARIANTS
  LeaseConservation
PROPERTIES
  DeliversAllOrNothing
  UsesPoolsAsQueues
  CallReturns
\* A thread that keeps leases and calls again may wait for them for ever.
CHECK_DEADLOCK FALSE
