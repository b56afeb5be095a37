SPECIFICATION Spec
VIEW WithoutStatistics
CONSTANTS
  QueueType = "mq"
  QueueMaxCnt = 1
  MaxRetry = 0
  Kinds = {FALSE}
  MaxEvents = 2
  MaxLeftover = 0
  MaxHup = 1
  MaxKill = 1
  Faults = {"fork"}
CHECK_DEADLOCK FALSE
INVARIANTS PacketsKept LossExplained NoSpuriousRotation 
