SPECIFICATION Spec
CONSTANTS
  None = None
  Torn = Torn
  c1 = c1
  c2 = c2
  p1 = p1
  p2 = p2
  Command <- MCCommand
  Profile <- MCProfile
  Machine <- MCMachine
  MaxCa = 2
  MaxFaults = 2
INVARIANTS TypeOK PairMatches TrustedIsTrue NoOrphans BrowsersAccept
CHECK_DEADLOCK FALSE
