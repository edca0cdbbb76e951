SPECIFICATION Spec
CONSTANTS
  A = A
  B = B
  T = T
  a1 = a1
  a2 = a2
  b1 = b1
  t1 = t1
  Server = {A, B}
  Tool = {T}
  Thread = {a1, a2, b1, t1}
  ProcOf <- MCProcOf
  Pid <- MCPid
  Text = {"", "f", "g", "i", "EVERYWHERE"}
  Key = {1, 2, 3, 4, 5}
  MaxThreads = 2
  MemoryMax = 2
  DescMax = 2
  DiskMax = 2
  Plans <- MCPlans
  MaxFaults = 1
INVARIANTS OneTest HitOnCount WasteIsHeld LockReleased
CHECK_DEADLOCK FALSE
