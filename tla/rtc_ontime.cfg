SPECIFICATION Spec
CONSTANTS
  Last <- ClockLast
  Times <- SomeTimes
  Alarms <- SomeAlarms
  TicksPerScan = 1
  MaxWake = 2
PROPERTY AlarmOnTime
