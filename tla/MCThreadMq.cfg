SPECIFICATION Spec
CONSTANTS
  QueueType = "mq"
  QueueMaxCnt = 2
  MaxRetry = 0
  Kinds = {TRUE, FALSE}
  MaxEvents = 3
  MaxLeftover = 0
  MaxHup = 1
  Faults = {}
INVARIANTS TypeOK InOrder Accounted LossOnlyAtShutdown LeftoverBound NoSpuriousRotation ReportsExact
PROPERTIES RequestServed
