SPECIFICATION Spec
CONSTANTS
  a = a
  b = b
  c = c
  d = d
  m1 = m1
  m2 = m2
  NodeList <- MCNodeList
  Model <- MCModel
  Unknown = Unknown
  Configs <- MCConfigs
INVARIANTS
  AcceptsExactlyDags
  PlanRespectsDependencies
  LayersMayRunInParallel
\* A finished plan is final.
CHECK_DEADLOCK FALSE
