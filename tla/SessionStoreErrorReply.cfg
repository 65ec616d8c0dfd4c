SPECIFICATION Spec
CONSTANTS
  MaxSegmentFrames = 2
  Keep = 2
  Durability = "flush"
  MaxTransactions = 4
  MaxCrashes = 0
  MaxFaults = 1
  HostCrashes = FALSE
  Faulty = {"append"}
PROPERTY ErrorMeansNotDurable
CHECK_DEADLOCK FALSE
