SPECIFICATION Spec
CONSTANTS
  HeaderLength = 2
  Sizes = {3}
  QueueCap = 2
  MaxPackets = 4
  MaxErrors = 1
  MaxRotates = 2
  MaxTime = 1
CHECK_DEADLOCK FALSE
INVARIANTS  EveryPeriodSentOnce BurstsReported
