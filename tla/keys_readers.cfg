CONSTANTS
  r1 = r1
  r2 = r2
  NumKeys = 2
  Readers <- TwoReaders
  Counts = {1, 2}
  BadBuffers = TRUE
  MaxEdges = 2
SPECIFICATION Spec
CHECK_DEADLOCK TRUE
SYMMETRY ReaderSymmetry
INVARIANTS NoLostEvent NoMissedWakeup
