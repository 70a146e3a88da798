SPECIFICATION FairSpec
CONSTANTS
  None = None
  t1 = t1
  t2 = t2
  c1 = c1
  c2 = c2
  Domain <- StoreDomain
  Name <- MCName
  Target <- MCTarget
  Request <- StoreRequest
  Caller <- TwoCallers
  MaxCalls = 4
INVARIANTS TypeOK StoreWellFormed ResolveIsFirstMatch AddIsLocal SaveLoadRoundTrip
PROPERTIES Linearizable CallsReturn
CHECK_DEADLOCK FALSE
