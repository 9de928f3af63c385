CONSTANTS
  PageSize = 2
  LowLimit = 2
  MaxPhys = 20
  ListPage = 2
  Strays = {0, 19}
  NextList = 18
  Wide = 32
  Half = 4
  Long = 4
  MaxNamespaces = 1
  BlockSize = 2
  TotalBlocks = 3
  MaxTransfer = 4
  ZeroChunk = 2
  ZeroesChunk = 4
  Kinds = {"memory", "file", "sparse"}
  Nsids = {1, 2, 101}
  Slbas = {0, 1, 3}
  RawNlbs = {0, 1, 2}
  Buffers <- MCBuffers
  Trims <- MCTrims
  MaxChanges = 2
SPECIFICATION Spec
INVARIANTS
  TypeOK
  StoreIsAsTold
  ReadDelivers
  CompareTells
