SPECIFICATION Spec
CONSTANTS
  None = None
  t1 = t1
  c1 = c1
  c2 = c2
  Domain <- MCDomain
  Name <- MCName
  Target <- MCTarget
  Receiver <- MCReceiver
  Client <- TwoClients
  Request <- MCRequest
  Platform <- SystemdOnly
  Saved <- MCSaved
  Capacity = 1
  MaxRequests = 3
  MaxBoots = 1
  MaxFaults = 1
  MaxCleans = 0
INVARIANTS
  NoResidue
CHECK_DEADLOCK FALSE
