SPECIFICATION Spec
CONSTANTS
  Proc <- MCProc
  P0 <- MCP0
  Tests <- FullTest
  MaxKills = 2
  MaxBugs = 0
INVARIANTS
  EnabledAgain
