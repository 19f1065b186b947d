SPECIFICATION MCSpec
CONSTANTS
  MaxBlocks = 2
  MaxSelectors = 2
  U8 = 4
  U16 = 4
  U32 = 4
  PointerBytes = 1
  Sizes = {2}
  Form2Size = 2
  MaxCopy = 2
  SizeLimit = 4
INVARIANTS
  TypeOK
  SectorsOwnTheirBlocks
  FreeSpaceIsExact
  FullMeansNoFreeBlock
  TransferStaysInPartition
PROPERTIES
  ImplementsQueues
VIEW Observed
CHECK_DEADLOCK FALSE
