CONSTANTS
  Depth = 3
  RingCapacity = 4
  SendsBuffers = TRUE
  Stalls = FALSE
  Restarts = TRUE
  HonoursSqhd = TRUE
  MaxSubmits = 3
  MaxCrashes = 1
SPECIFICATION FairSpec
PROPERTIES
  RestartRecovers
