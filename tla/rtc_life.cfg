SPECIFICATION Spec
CONSTANTS
  Freqs <- SomeFreqs
  EarlyOpen = FALSE
INVARIANT LinesMatchFile
INVARIANT InterruptsHandled
INVARIANT PieAsAsked
INVARIANT RateAsSet
