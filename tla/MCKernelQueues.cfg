CONSTANTS
  MaxIoQueues = 2
  ConfigMaxQueues = 1
  MaxAer = 2
  Width = 65536
  RawSizes = {0, 1, 65535}
  RawCounts = {3}
  Cids = {1, 2, 3}
SPECIFICATION Spec
INVARIANTS
  TypeOK
  BoundCqExists
  ScanReachesEveryQueue
  AersAreWaitedFor
PROPERTIES
  IsQueueTable
