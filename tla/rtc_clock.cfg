SPECIFICATION FairSpec
CONSTANTS
  Last <- ClockLast
  Times <- SomeTimes
  Alarms <- SomeAlarms
  TicksPerScan = 1
  MaxWake = 2
INVARIANT GetTimeTrue
INVARIANT OneRequestArmed
INVARIANT AlarmReadBack
INVARIANT AlarmWakes
PROPERTY SetTimeTrue
PROPERTY AlarmRings
