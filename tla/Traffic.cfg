SPECIFICATION FairSpec
CONSTANTS
  c1 = c1
  any = any
  local = local
  other = other
  None = None
  Client <- MCClient
  MaxConn = 2
  Target <- MCTarget
  Rule <- MCRule
  Unspecified = any
  Localhost = local
  MaxFaults = 1
  MaxChanges = 1
INVARIANT TypeOK
PROPERTIES ReplyFits EventuallyAsRuled KeepsReplying StopCompletes
CHECK_DEADLOCK FALSE
