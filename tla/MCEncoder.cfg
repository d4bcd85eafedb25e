\* The bound on calls ends a behaviour that was never poisoned, so the
\* deadlock check is off.
CONSTANTS
  a = a
  b = b
  None = None
  Octet <- MCOctet
  Payload <- MCPayload
  Window = 2
  PeerWindow = 2
  MaxCalls = 5
SPECIFICATION Spec
INVARIANT TypeOK
INVARIANT PeerDecodes
INVARIANT MessagesArrive
INVARIANT WholeMessagesOnly
INVARIANT HistoryHeld
PROPERTY PoisonIsTerminal
PROPERTY ImplementsChannel
CHECK_DEADLOCK FALSE
