SPECIFICATION Spec
CONSTANTS
  Procs = {p1, p2}
  scull_quantum = 2
  scull_qset = 2
  WriteCounts = {1, 3}
INVARIANT WriteStores
CHECK_DEADLOCK FALSE
