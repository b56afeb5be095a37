SPECIFICATION Spec
CONSTANTS
  JournTypes = {"file"}
  NJournals = 1
  Apart = FALSE
  MaxTime = 4
  MaxPackets = 4
  MaxCrashes = 0
  MaxFailedRenames = 0
INVARIANTS Durable
CHECK_DEADLOCK FALSE
