SPECIFICATION FairSpec
CONSTANTS
  Slots = 3
  U32 = 8
  Requests <- MCRequests
  DspCounts = {2}
  MaxTransfers = 4
INVARIANTS
  TypeOK
  FlaggedIsActive
  DspWaitsForSomething
PROPERTIES
  ImplementsService
  TransfersEnd
