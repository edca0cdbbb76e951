SPECIFICATION FairSpec
CONSTANTS
  Req = {r1, r2}
  Asker = {a1}
  Proc <- MCProc
  Faults <- AllFaults
INVARIANTS
  TypeOK
  StatusFindsAlive
  VerdictLeavesNothing
PROPERTY AllAnswered
