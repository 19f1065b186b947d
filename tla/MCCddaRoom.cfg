SPECIFICATION Spec
CONSTANTS
  Buffers = 3
  Sector = 3
  Delay = 1
  Chunk = 4
INVARIANT
  RoomIsLeft
