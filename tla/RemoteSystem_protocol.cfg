SPECIFICATION FairSpec
CONSTANTS
  Proc = {0, 1}
  Ops = {"EXECUTE", "MANAGE", "COPY", "GET", "PUT", "QUIT", "TERMINATE"}
  CommandLines <- MCCommandLines
  MaxArgs = 2
  MaxBlocks = 2
  Limits <- AllSessions
INVARIANTS
  InStep
  SuccessIsTrue
PROPERTIES
  EndsUnlessKept
CHECK_DEADLOCK FALSE
