\* A field that is as long as the bound is not continued, so the deadlock check
\* is off.
CONSTANTS
  Alphabet <- SyntaxAlphabet
  Starts <- SyntaxStarts
  Terms <- NoTerms
  MaxSymbols = 6
  MaxLines = 2
  EditCost = 6
SPECIFICATION Spec
INVARIANT ValidateIsTheGrammar
INVARIANT PartsAreBalanced
CHECK_DEADLOCK FALSE
