SPECIFICATION FairSpec
CONSTANTS
  None = None
  t1 = t1
  t2 = t2
  s1 = s1
  s2 = s2
  cli = cli
  Domain <- MCDomain
  Name <- MCDomain
  Target <- MCTarget
  Session <- OneSession
  Client <- OneClient
  Receiver <- OneSession
  RuleOf <- ApartRule
  Request <- ApartRequest
  Capacity = 1
  MaxRequests = 6
  MaxOthers = 3
  MaxBoots = 2
  MaxFaults = 1
INVARIANTS
  TypeOK
  RuleWhileRunning
  
PROPERTIES
  SessionEnds
CHECK_DEADLOCK FALSE
