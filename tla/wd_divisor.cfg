CONSTANTS
  t1 = t1
  t2 = t2
  Threads <- OneThread
  Freq = 1
  CountLimit = 3
  MaxDivisor = 2
  WordSize = 16
  DefaultTime = 2
  Margins = {6}
  EarlyOpen = FALSE
SPECIFICATION Spec
CHECK_DEADLOCK TRUE
INVARIANT MarginInForce
