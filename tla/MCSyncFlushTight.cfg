\* A backend that expands and holds back more than a round's room, and a
\* ceiling too low for a stored block.
\* The bound on calls ends a behaviour, so the deadlock check is off.
CONSTANTS
  BLOCK_ROOM = 7
  FRAMING_MARGIN = 7
  MaxStored = 4
  MaxHeld = 9
  Expansion = 1
  Spare = 0
  Lengths <- MCLengths
  Misbehaves = TRUE
  MaxCalls = 2
SPECIFICATION FairSpec
INVARIANT RoundsAreOneStep
INVARIANT SoundNeverFails
PROPERTY PrepareReturns
CHECK_DEADLOCK FALSE
