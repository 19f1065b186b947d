SPECIFICATION Spec
CONSTANTS
  Events <- MCEvents
  CpuSources <- MCCpuSources
  Masks <- MCMasks
  CpuMasks = {0}
  UsedLevels = {1}
  Factors = {3, 7}
  Compares = {1}
  MaxLine = 1
  MaxCredit = 2
INVARIANTS
  TypeOK
  StatusMeansQueued
  NothingIsLost
  NothingIsInvented
PROPERTIES
  MaskedInterruptsWait
