SPECIFICATION FairHandlesSpec
CONSTANTS
  t1 = t1
  t2 = t2
  t3 = t3
  a1 = a1
  a2 = a2
  Thread <- MCThread
  Address <- MCAddress
  MaxOperators = 3
  Nothing = Nothing
INVARIANTS
  OneOwner
  CallsReachTheirOperator
PROPERTY DeInitDestroysAll
