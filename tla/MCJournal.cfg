SPECIFICATION Spec
CONSTANTS
  JournTypes = {"file", "gz"}
  NJournals = 2
  Apart = TRUE
  MaxTime = 4
  MaxPackets = 3
  MaxCrashes = 2
  MaxFailedRenames = 1
CHECK_DEADLOCK FALSE
INVARIANTS DurableOnce NamesInOrder IntervalCovers
