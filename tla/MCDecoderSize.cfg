CONSTANTS
  a = a
  b = b
  Octet <- MCOctet
  Inputs <- MCInputs
  Limits = {0, 1, 3}
  PeerBits = {8, 10, 15}
  SCRATCH = 2
  UsizeMax = 8
  MaxCalls = 3
SPECIFICATION Spec
INVARIANT SizeIsOnePast
CHECK_DEADLOCK FALSE
