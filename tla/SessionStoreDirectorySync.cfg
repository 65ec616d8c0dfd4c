SPECIFICATION Spec
CONSTANTS
  MaxSegmentFrames = 2
  Keep = 2
  Durability = "flush"
  MaxTransactions = 4
  MaxCrashes = 1
  MaxFaults = 1
  HostCrashes = FALSE
  Faulty = {"directory sync", "append"}
INVARIANT OnlyCurrentIncomplete
CHECK_DEADLOCK FALSE
