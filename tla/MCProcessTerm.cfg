SPECIFICATION FairSpec
CONSTANTS
  QueueType = "mq"
  QueueMaxCnt = 1
  MaxRetry = 0
  Kinds = {FALSE}
  MaxEvents = 1
  MaxLeftover = 0
  MaxHup = 0
  MaxKill = 0
  Faults = {}
PROPERTIES ShutdownCompletes
