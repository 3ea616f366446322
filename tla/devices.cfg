SPECIFICATION FairSpec
CONSTANTS
  Users = {u1, u2}
  BufferSize = 2
  Messages <- EchoMessages
  Resids = {1, 4}
  Runs = {1, 2, 3}
  BUFFER_SIZE = 3
  Counts = {1, 2, 3}
  Spilled = {9}
  Programs = {p1, p2}
  Pclk16 = 12
  CountMax = 7
  StartFreq = 4
  Step = 2
  FreqLow = 3
  FreqHigh = 6
  Word = 16
  PAGE_SIZE = 2
  Low512 = 4
  KSEG1 = 4
  HighMemory = 6
  VmStart = 8
  ThreadNum = 2
  OtherProgram = TRUE
INVARIANTS CopiesStayInside MessageArrives SoundsForHolder TerminalRestored ReachesRequest RamNotRemapped FailsOnlyByOthers
PROPERTIES ReadsWhatWasSaid EveryRunEnds EscEnds Ends
CHECK_DEADLOCK FALSE
