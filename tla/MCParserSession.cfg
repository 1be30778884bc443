CONSTANTS
  Names = {"a", "b"}
  Depths = {0, 1}
  Modes = {"decode", "validate", "schema"}
  MaxTokens = 9
  MaxNesting = 2
  MaxFailures = 1
SPECIFICATION Spec
INVARIANTS
  OwnedOnce
  NothingLost
  ErrorMoved
  VerdictExact
  DecodedExact
  CallsAreTheWalk
