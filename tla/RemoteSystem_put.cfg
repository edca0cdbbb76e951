SPECIFICATION Spec
CONSTANTS
  Proc = {0}
  Ops = {"PUT"}
  CommandLines <- MCCommandLines
  MaxArgs = 2
  MaxBlocks = 2
  Limits <- PutSessions
INVARIANT MessageReceived
CHECK_DEADLOCK FALSE
