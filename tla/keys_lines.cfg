CONSTANTS
  r1 = r1
  r2 = r2
  NumKeys = 3
  Readers <- OneReader
  Counts = {3}
  BadBuffers = FALSE
  MaxEdges = 2
SPECIFICATION FairSpec
CHECK_DEADLOCK TRUE
INVARIANTS KeyTracksPin LinesMatchFile FreesOwnLines
PROPERTIES KeyReported
