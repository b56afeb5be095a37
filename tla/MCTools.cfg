SPECIFICATION Spec
CONSTANTS
  Journals <- MCJournals
  SplitFaults = {"write", "rename", "close"}
  MicrosPerMilli = 2
  Delay = 3
  MaxWork = 1
  MaxEmitted = 4
  Width = 64
  UsleepWidth = 8
  ShortMax = 10
  AddedBytes = 2
  NoName = "none"
  Numbers = {0, 1, 2}
  EmitOptions = {{}, {"r"}, {"t"}, {"r", "t"}, {"d"}}
CHECK_DEADLOCK FALSE
INVARIANTS SplitCorrect EmissionCorrect EmissionPaced TablesExact SplitThenEmit
PROPERTIES SignalEnds
