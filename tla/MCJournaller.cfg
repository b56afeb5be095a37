SPECIFICATION Spec
CONSTANTS
  Micros = 2
  Millis = 2
  DaySeconds = 6
  MaxStart = 24
  MaxDelay = 2
  MaxClock = 50
  MaxRenames = 2
  MaxUsr1 = 2
  MaxFails = 1
  CommandLines <- MCCommandLines
  StartFaults = {"fork", "setsid", "fds", "pidfile", "model"}
CHECK_DEADLOCK FALSE
INVARIANTS PidFileCorrect   LogsSound TimerRound
