SPECIFICATION FairSpec
CONSTANTS
  SockCap = 2
  MaxEvents = 2
  MaxTests = 2
  MaxErrors = 1
  MaxHup = 2
  Faults = {"journal_close", "journal_open", "journal_write"}
INVARIANTS CountsExact
PROPERTIES DepthExact ImplementsStore HupArchives ShutdownCompletes
