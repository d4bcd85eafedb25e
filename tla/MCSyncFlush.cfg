\* Level 0: nothing is added to a stored block but its header, and at most one
\* block is held back.  Room as in the code: two stored blocks and a little, and
\* a margin above two headers and a marker.
\* The bound on calls ends a behaviour, so the deadlock check is off.
CONSTANTS
  BLOCK_ROOM = 10
  FRAMING_MARGIN = 7
  MaxStored = 4
  MaxHeld = 5
  Expansion = 0
  Spare = 1
  Lengths <- MCLengths
  Misbehaves = TRUE
  MaxCalls = 2
SPECIFICATION Spec
INVARIANT TypeOK
INVARIANT RoundsAreOneStep
INVARIANT NoRedundantBlock
CHECK_DEADLOCK FALSE
