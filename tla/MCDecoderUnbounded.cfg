CONSTANTS
  a = a
  b = b
  Octet <- MCOctet
  Inputs <- MCInputs
  Limits = {7}
  PeerBits = {8, 10, 15}
  SCRATCH = 2
  UsizeMax = 7
  MaxCalls = 3
SPECIFICATION Spec
INVARIANT NoUnboundedSpelling
CHECK_DEADLOCK FALSE
