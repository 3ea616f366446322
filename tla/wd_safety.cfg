CONSTANTS
  t1 = t1
  t2 = t2
  Threads <- TwoThreads
  Freq = 1
  CountLimit = 3
  MaxDivisor = 2
  WordSize = 16
  DefaultTime = 2
  Margins = {1, 3, 9}
  EarlyOpen = FALSE
SPECIFICATION FairSpec
CHECK_DEADLOCK TRUE
INVARIANTS OpenedIsArmed AbandonedStaysArmed NoWayoutKeepsDriver MarginInForce
PROPERTIES ContractSpec AbandonedBites
