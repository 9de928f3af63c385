CONSTANTS
  c1 = c1
  c2 = c2
  Producers <- OneController
  Size = 3
  QueueIds = {0, 1}
  Indexes = {0, 1}
  MaxCrashes = 2
SPECIFICATION FairSpec
INVARIANTS
  TypeOK
  NoTornRead
PROPERTIES
  IsNotifyQueue
  RefusesOnlyWhenFull
  EveryAcceptedIsConsumed
