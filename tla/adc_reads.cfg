CONSTANTS
  r1 = r1
  r2 = r2
  r3 = r3
  Readers <- ThreeReaders
SPECIFICATION FairSpec
INVARIANTS OneOwner FreshSample CleanHandover
PROPERTY ReadReturns
