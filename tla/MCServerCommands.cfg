CONSTANTS
  Wide = 32
  Half = 4
  BlockSize = 1
  MaxMemory = 1
  ZeroChunk = 1
  MaxIoQueues = 2
  BufferSize = 2
  PageBytes = 2
  Configs <- MCConfigs
  CqNumbers = {1, 3}
  SqNumbers = {1, 2, 3}
  RawSizes = {1}
  FeatureValues = {0}
  Long = 4
  Dword = 1
  RawLogs = {1, 2, 3}
  SmartEnd = 1
  Slbas = {0, 1, 31}
  RawNlbs = {0, 1}
  Orderly = TRUE
  MaxChanges = 2
SPECIFICATION Spec
INVARIANTS
  TypeOK
  HostViewAgrees
  NewestAnswerStands
  MediumIsAsTold
  ReadFillsBuffer
PROPERTIES
  ReadOnlyIsKept
