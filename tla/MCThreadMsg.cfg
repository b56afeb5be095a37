SPECIFICATION Spec
CONSTANTS
  QueueType = "msg"
  QueueMaxCnt = 1
  MaxRetry = 1
  Kinds = {TRUE, FALSE}
  MaxEvents = 2
  MaxLeftover = 0
  MaxHup = 1
  Faults = {"queue_open", "socket", "journal_open", "journal_close"}
CHECK_DEADLOCK FALSE
PROPERTIES ImplementsStore
