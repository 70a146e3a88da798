SPECIFICATION FairSpec
CONSTANTS
  None = None
  t1 = t1
  c1 = c1
  c2 = c2
  Domain <- MCDomain
  Name <- MCName
  Target <- MCTarget
  Receiver <- MCReceiver
  Client <- TwoClients
  Request <- MCRequest
  Platform <- MCPlatform
  Saved <- MCSaved
  Capacity = 1
  MaxRequests = 2
  MaxBoots = 2
  MaxFaults = 1
  MaxCleans = 1
INVARIANTS
  TypeOK
  RoutesCurrent
  RulesAreRouted
  StopReverts
PROPERTIES
  RoutesFollow
  StopCompletes
CHECK_DEADLOCK FALSE
