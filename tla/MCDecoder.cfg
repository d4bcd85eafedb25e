\* The bound on the calls stops a behaviour, so the deadlock check is off.
CONSTANTS
  a = a
  b = b
  Octet <- MCOctet
  Inputs <- MCInputs
  Limits = {0, 1, 3}
  PeerBits = {8, 10, 15}
  SCRATCH = 2
  UsizeMax = 8
  MaxCalls = 3
SPECIFICATION FairSpec
INVARIANT TypeOK
INVARIANT PositionTracked
INVARIANT CeilingHolds
INVARIANT NothingOwed
INVARIANT TotalIsHeld
INVARIANT WidthKept
PROPERTY NoHistoryAcrossMessages
PROPERTY ErrorsAreTerminal
PROPERTY CallsReturn
CHECK_DEADLOCK FALSE
