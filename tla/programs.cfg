CONSTANTS
  SQRT_UINT32_MAX = 8
  Bytes = 2
  Team = 2
  MaxLength = 4
  Whole = {0, 2, 4}
  Behind = {0, 1, 2, 6}
SPECIFICATION Spec
CHECK_DEADLOCK FALSE
INVARIANTS
  SameTermsInSameOrder
  OnlyNegativeSizeKillsServer
  
  SortsOneCellTooMany
