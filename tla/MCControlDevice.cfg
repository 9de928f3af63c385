CONSTANTS
  Clients = {c1, c2}
  Pdos = {p1, p2}
  Storages = {s1, s2}
  NoPdo = NoPdo
  NoStorage = NoStorage
  IdWidth = 2
  MaxControllers = 2
  MaxNamespaces = 2
  Wrap = 64
  SmallBlock = 2
  LargeBlock = 16
  MaxCapacity = 16
  Blocks = {0, 5, 9}
  Sizes = {0, 3, 16}
  StorageType = "memory"
  StoragePath = TRUE
SPECIFICATION Spec
INVARIANTS
  TypeOK
  NoUseAfterDelete
  DistinctIds
  CountsAgree
  StorageHasOneOwner
  CapacityIsExact
  MappingBacked
  NoHandlerAfterD0Exit
PROPERTIES
  D0ExitCompletes
  QueuedIsDispatched
