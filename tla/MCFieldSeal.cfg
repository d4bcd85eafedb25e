\* A field that is as long as the bound is not continued, so the deadlock check
\* is off.
CONSTANTS
  Alphabet <- SealAlphabet
  Starts <- SealStarts
  Terms <- SealTerms
  MaxSymbols = 4
  MaxLines = 3
  EditCost = 3
SPECIFICATION Spec
INVARIANT SealedIsMeant
INVARIANT CombiningIsInvisible
CHECK_DEADLOCK FALSE
