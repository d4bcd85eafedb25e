\* A handshake ends, so the deadlock check is off.
CONSTANTS
  ClientConfigs <- MCClientConfigs
  ServerConfigs <- MCServerConfigs
  ForeignRequests <- MCForeign
  ForeignResponses <- MCForeign
  Additions <- MCAdditions
  MaxEdits = 1
SPECIFICATION Spec
INVARIANT TypeOK
INVARIANT EndsAreCompatible
INVARIANT ClientKeepsTerms
INVARIANT AgreedOverOwnOffer
INVARIANT UnsolicitedFails
INVARIANT AgreementIsOnTheWire
INVARIANT FirstAlternativeAnswered
INVARIANT OwnEndsConnect
CHECK_DEADLOCK FALSE
