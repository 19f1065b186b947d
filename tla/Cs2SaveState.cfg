SPECIFICATION SaveSpec
CONSTANTS
  MaxBlocks = 2
  MaxSelectors = 2
  U8 = 4
  U16 = 4
  U32 = 4
  PointerBytes = 1
  Sizes = {1}
  Form2Size = 2
  MaxCopy = 2
PROPERTY
  LoadRestoresPartitions
CHECK_DEADLOCK FALSE
