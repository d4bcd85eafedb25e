\* A field that is as long as the bound is not continued, so the deadlock check
\* is off.
CONSTANTS
  Alphabet <- ParamAlphabet
  Starts <- ParamStarts
  Terms <- NoTerms
  MaxSymbols = 4
  MaxLines = 2
  EditCost = 4
SPECIFICATION Spec
INVARIANT GrammarIsTheReading
CHECK_DEADLOCK FALSE
