CONSTANTS
  Filters = {f1}
  Calls = {r1, r2}
  None = None
  Start = 0
  MaxBlock = 3
  FromBlocks <- SomeFromBlocks
  PageSize = 2
  RangeLimit = 2
  ToBlocks <- SomeToBlocks
SPECIFICATION Spec
SYMMETRY SymmetricCalls
CHECK_DEADLOCK FALSE
INVARIANTS LostOnlyByEmptyPolls SeenOnceInRange
