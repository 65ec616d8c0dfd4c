SPECIFICATION Spec
CONSTANTS
  MaxSegmentFrames = 2
  Keep = 2
  Durability = "flush"
  MaxTransactions = 5
  MaxCrashes = 1
  MaxFaults = 0
  HostCrashes = FALSE
  Faulty = {}
PROPERTY RestartCompletes
CHECK_DEADLOCK FALSE
