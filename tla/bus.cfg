\* 16 clocks, 4 lines, 2 planes; two operations of the guest after reset.
SPECIFICATION Spec
CONSTANTS
  Slots = 16
  LastVbl = 0
  RefreshPos = {1}
  DiskPos = {2}
  AudioPos <- MCAudioPos
  SpritePos <- MCSpritePos
  Unit = 4
  PlaneOrder <- MCPlaneOrder
  MaxDepth = 2
  DefaultWords = 1
  MaxWords = 3
  SpriteWords <- MCSpriteWords
  SpriteSpace = 8
  FrameLines = 4
  PtrWords = 8
  Programs <- MCPrograms
  DmaWrites <- MCDmaWrites
  DiskLen = 3
  BlitLen = 2
  MaxBusOps = 2
PROPERTIES
  ImplementsArbiter
  FetchesExact
  StallEnds
