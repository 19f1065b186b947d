SPECIFICATION FairSpec
CONSTANTS
  MaxExec = 2
  MaxStep = 3
  U32 = 8
  Data = {1, 2}
INVARIANTS
  TypeOK
  LagIsBounded
  WritesAreSynchronous
  ExclusiveIsAlone
PROPERTIES
  MainNeverHangs
