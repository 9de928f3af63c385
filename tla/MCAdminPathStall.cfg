CONSTANTS
  Depth = 5
  RingCapacity = 8
  SendsBuffers = TRUE
  Stalls = TRUE
  Restarts = FALSE
  HonoursSqhd = TRUE
  MaxSubmits = 9
  MaxCrashes = 0
SPECIFICATION Spec
INVARIANTS
  AbortCoversAll
