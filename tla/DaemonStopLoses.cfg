SPECIFICATION Spec
CONSTANTS
  None = None
  t1 = t1
  t2 = t2
  c1 = c1
  c2 = c2
  l1 = l1
  Target <- MCTarget
  Receiver <- MCReceiver
  Client <- TwoClients
  Domain <- DiskDomain
  Name <- DiskName
  Request <- DiskRequest
  Saved <- DiskSaved
  Lookup <- NoLookups
  HasCa = TRUE
  Capacity = 4
  MaxRequests = 3
  MaxBoots = 1
  MaxFaults = 0
ACTION_CONSTRAINT NoLateRequests
INVARIANTS
  StopKeepsRules
CHECK_DEADLOCK FALSE
