SPECIFICATION FairSpec
CONSTANTS
  QueueType = "mq"
  QueueMaxCnt = 1
  MaxRetry = 0
  Kinds = {FALSE}
  MaxEvents = 2
  MaxLeftover = 1
  MaxHup = 1
  Faults = {"journal_open", "journal_write"}
PROPERTIES EventuallyJournalled HupArchives ShutdownCompletes
