\* One segment's removal fails and the next one's succeeds.
SPECIFICATION Spec
CONSTANTS
  MaxSegmentFrames = 2
  Keep = 2
  Durability = "flush"
  MaxTransactions = 7
  MaxCrashes = 0
  MaxFaults = 1
  HostCrashes = FALSE
  Faulty = {"segment removal"}
INVARIANT RecoveryAccepts
CHECK_DEADLOCK FALSE
