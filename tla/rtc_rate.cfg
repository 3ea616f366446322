SPECIFICATION Spec
CONSTANTS
  Freqs <- SomeFreqs
  EarlyOpen = FALSE
INVARIANT RateHonoured
