SPECIFICATION Spec
CONSTANTS
  a = a
  b = b
  h = h
  t1 = t1
  t2 = t2
  r1 = r1
  Caller = {t1, t2}
  Request = {r1}
  Plan <- MCPlan
  Declared <- MCDeclared
  Ports <- MCPorts
  HandWritten = {h}
  Field <- MCField
  Schema <- MCSchema
  Accepted <- MCAccepted
  Initial <- MCInitial
  Calls <- MCCalls
  InputBatch <- MCInputBatch
  MaxCalls = 1
  MaxSubId = 3
  MaxCount = 3
  Null = Null
  Unbound = Unbound
  None = None
INVARIANTS
  OutcomeTellsWhatHappened
  OneConfigurationPerBatch
  BoardFollowsInputs
PROPERTY NoUpdateIsLost
\* Calls and requests end.
CHECK_DEADLOCK FALSE
