CONSTANTS
  Depth = 3
  RingCapacity = 4
  SendsBuffers = TRUE
  Stalls = FALSE
  Restarts = FALSE
  HonoursSqhd = TRUE
  MaxSubmits = 3
  MaxCrashes = 1
SPECIFICATION FairSpec
INVARIANTS
  NoDoubleCompletion
