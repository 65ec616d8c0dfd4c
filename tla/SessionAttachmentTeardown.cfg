SPECIFICATION Spec
CONSTANTS
  Connections = {1, 2}
  Window = 2
  Capacity = 1
  Outgoing = 1
  MaxEvents = 2
  MaxLosses = 1
  MaxRestarts = 0
INVARIANT TeardownDetaches
\* A client may stop.
CHECK_DEADLOCK FALSE
