SPECIFICATION FairSpec
CONSTANTS
  Depth = 2
  b1 = b1
  b2 = b2
  b3 = b3
  c1 = c1
  c2 = c2
  c3 = c3
  NoBlock = NoBlock
  Block <- MCBlock
  Client <- MCClient
INVARIANTS
  TypeOK
  ExclusiveLease
  RingMatchesLedger
  LedgerMatchesHolders
  NoLostWakeup
PROPERTIES
  ImplementsLeasePool
  CloseReleasesWaiters
\* A pool whose creation failed is given to nobody: the model stops there.
CHECK_DEADLOCK FALSE
