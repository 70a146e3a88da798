SPECIFICATION Spec
CONSTANTS
  None = None
  t1 = t1
  t2 = t2
  c1 = c1
  c2 = c2
  Domain <- OverlapDomain
  Name <- MCName
  Target <- MCTarget
  Request <- OverlapRequest
  Caller <- OneCaller
  MaxCalls = 5
INVARIANTS
  RemoveIsLocal
CHECK_DEADLOCK FALSE
