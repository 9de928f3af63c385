CONSTANTS
  Depth = 4
  RingCapacity = 6
  SendsBuffers = TRUE
  Stalls = TRUE
  Restarts = FALSE
  HonoursSqhd = TRUE
  MaxSubmits = 5
  MaxCrashes = 1
SPECIFICATION FairSpec
INVARIANTS
  TypeOK
  CompletedOnceInOrder
  NeverRefused
  AbortCoversForwarded
PROPERTIES
  ForwardedIsReaped
