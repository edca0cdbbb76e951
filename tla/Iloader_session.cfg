SPECIFICATION Spec
CONSTANTS
  Files <- MCFiles
  First <- MCFirst
  Later <- MCLater
  MaxCommands = 2
  MaxValue = 4
  MaxRows = 1
  MaxFaults = 1
INVARIANTS TypeOK LoadIsTrue CommitBound WrittenReadsBack
CHECK_DEADLOCK FALSE
