SPECIFICATION FairSpec
CONSTANTS
  source = source
  left = left
  middle = middle
  right = right
  sink = sink
  w1 = w1
  w2 = w2
  Node <- MCNode
  Layers <- MCLayers
  Deps <- MCDeps
  Worker <- MCWorker
  Caller = Caller
  None = None
INVARIANTS
  NoTaskOutlivesRequest
  ErrorIsDeterministic
PROPERTIES
  ImplementsDag
  ExecuteReturns
  PoolStops
\* A pipeline that has been destroyed does nothing more.
CHECK_DEADLOCK FALSE
