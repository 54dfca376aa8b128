SPECIFICATION FairSpec
CONSTANTS
  t1 = t1
  t2 = t2
  dictionary = dictionary
  revision = revision
  A = A
  B = B
  v1 = v1
  v2 = v2
  Thread <- MCThread
  Key = {dictionary, revision}
  Type = {A, B}
  Value = {v1, v2}
  Null = Null
  Flights = 3
  None = None
  Needs <- MCNeeds
  Calls <- MCCalls
INVARIANTS
  OneFactoryPerKey
  ReturnedIsShared
  TypesAgree
PROPERTIES
  FailureIsNotCached
  CallReturns
