CONSTANTS
  c1 = c1
  c2 = c2
  Producers <- TwoControllers
  Size = 3
  QueueIds = {0, 1}
  Indexes = {0, 1}
  MaxCrashes = 0
SPECIFICATION FairSpec
PROPERTIES
  IsNotifyQueue
