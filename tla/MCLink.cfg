\* The bounds on the calls of either end stop a behaviour, so the deadlock
\* check is off.
CONSTANTS
  o1 = o1
  o2 = o2
  None = None
  Octet <- MCOctet
  Payload <- MCPayload
  Bits = 10
  Limits = {1, 4}
  SCRATCH = 2
  UsizeMax = 8
  MaxCalls = 3
  MaxPieces = 4
SPECIFICATION Spec
INVARIANT OwnStreamsAreValid
INVARIANT RefusedPastCeiling
INVARIANT EndsInStep
PROPERTY EndToEnd
CHECK_DEADLOCK FALSE
