\* The constants of the "host crash" model.
SPECIFICATION MCSpec
CONSTANTS
  MaxSegmentFrames = 2
  Keep = 2
  Durability = "flush"
  MaxTransactions = 6
  MaxCrashes = 2
  MaxFaults = 0
  HostCrashes = TRUE
  Faulty = {}
INVARIANTS TypeOK RecoveryAcceptsPromised WriterFollowsPromised PointerUsable
PROPERTIES ImplementsDurableLogPromised RetentionKeepsFallback Settles
\* The limit on transactions ends the run.
CHECK_DEADLOCK FALSE
