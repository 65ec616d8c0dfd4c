SPECIFICATION Spec
CONSTANTS
  MaxSegmentFrames = 3
  Keep = 2
  Durability = "buffered"
  MaxTransactions = 5
  MaxCrashes = 1
  MaxFaults = 0
  HostCrashes = TRUE
  Faulty = {}
INVARIANT RecoveryAccepts
CHECK_DEADLOCK FALSE
