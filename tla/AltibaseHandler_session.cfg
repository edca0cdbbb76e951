SPECIFICATION FairSpec
CONSTANTS
  Proc <- MCProc
  MaxCommand = 3
  MaxEnds = 2
  Limits <- MCLimits
INVARIANTS
  OwnAnswer
PROPERTY EndsUnlessInherited
CHECK_DEADLOCK FALSE
