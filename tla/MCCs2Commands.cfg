SPECIFICATION FairSpec
CONSTANTS
  Filters <- MCFilters
  NumBlocks = 1
  U32 = 3
  LeadOut = 3
  Audio <- MCAudio
  RepeatCap = 1
  Drives <- MCDrives
  Program <- MCProgram
  MaxCommands = 3
INVARIANTS
  TypeOK
  AnswersAreWhole
PROPERTIES
  NoSectorIsSkipped
  PlaysEnd
CHECK_DEADLOCK FALSE
