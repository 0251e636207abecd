CONSTANTS
  Limit = 2
  Sizes <- PieceSizes
  Lengths <- DeclaredLengths
  NoLength = NoLength
  MaxMessages = 4
  MaxReads = 6
SPECIFICATION FairSpec
CHECK_DEADLOCK FALSE
INVARIANTS
  OneResponse
