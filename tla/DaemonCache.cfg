SPECIFICATION FairSpec
CONSTANTS
  None = None
  t1 = t1
  t2 = t2
  c1 = c1
  c2 = c2
  l1 = l1
  Target <- MCTarget
  Receiver <- MCReceiver
  Client <- TwoClients
  Domain <- CacheDomain
  Name <- CacheName
  Request <- CacheRequest
  Saved <- CacheSaved
  Lookup <- OneLookup
  HasCa = TRUE
  Capacity = 1
  MaxRequests = 2
  MaxBoots = 1
  MaxFaults = 0
INVARIANTS
  TypeOK
  Coherent
PROPERTIES
  EventuallyFresh
CHECK_DEADLOCK FALSE
