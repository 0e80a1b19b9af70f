\* Words of 3 bits, 16 bytes of chip RAM, sizes up to 3 x 3, 32-bit pointers
\* that wrap at 32; three operations of guest and host.
SPECIFICATION BltSpec
CONSTANTS
  W = 3
  ChipBytes = 16
  PtrSpace = 32
  ErrSpace = 16
  DotSpace = 4
  MaxWidth = 3
  MaxHeight = 3
  PtrLow = 16
  PtrHalves = {1, 7}
  SlotSpace = 64
  MaxBltOps = 3
  Images <- MCImages
  Sizes <- MCSizes
  Pokes <- MCPokes
  Memory0 <- MCMemory0
INVARIANTS
  SlotsKept
PROPERTIES
  CopyMatchesStream
  LineMatchesReference
  BlitEnds
\* The guest may program nothing more.
CHECK_DEADLOCK FALSE
