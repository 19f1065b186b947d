SPECIFICATION FairSpec
CONSTANTS
  OregSize = 2
  Ports <- MCPorts
  WaitLine = 3
  VBlankLine = 4
  MaxLine = 6
  LongTime = 5
INVARIANTS
  TypeOK
  PacketsAreConsecutive
  FirstPacketIsFresh
  NoSilentEnd
  ContinueKeepsItsPlace
PROPERTIES
  CommandsEnd
