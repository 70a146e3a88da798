SPECIFICATION Spec
CONSTANTS
  None = None
  t1 = t1
  t2 = t2
  s1 = s1
  s2 = s2
  cli = cli
  Domain <- MCDomain
  Name <- MCDomain
  Target <- MCTarget
  Session <- TwoSessions
  Client <- TwoClients
  Receiver <- TwoSessions
  RuleOf <- SameRule
  Request = {}
  Capacity = 2
  MaxRequests = 5
  MaxOthers = 0
  MaxBoots = 1
  MaxFaults = 0
INVARIANTS
  RuleForTheDuration
CHECK_DEADLOCK FALSE
