SPECIFICATION Spec
CONSTANTS
  Proc <- MCProc
  P0 <- MCP0
  Tests <- AllTests
  MaxKills = 2
  MaxBugs = 1
INVARIANTS
  HitIsReal
  CrashAfterHit
