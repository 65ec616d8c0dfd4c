SPECIFICATION Spec
CONSTANTS
  MaxSegmentFrames = 3
  Keep = 2
  Durability = "flush"
  MaxTransactions = 6
  MaxCrashes = 0
  MaxFaults = 1
  HostCrashes = FALSE
  Faulty = {"boundary"}
INVARIANT NothingBehindIncompleteFrame
CHECK_DEADLOCK FALSE
