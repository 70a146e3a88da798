SPECIFICATION Spec
CONSTANTS
  None = None
  p1 = p1
  p2 = p2
  c1 = c1
  c2 = c2
  Process <- MCProcess
  Command <- MCCommand
  Server = {"dns"}
  MaxTries = 2
  MaxFaults = 1
SYMMETRY Symmetry
INVARIANTS
  TypeOK
  AloneIsWhole
  NothingLeft
  StopGoesOn
CHECK_DEADLOCK FALSE
