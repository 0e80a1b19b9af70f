\* Steps of one clock to more than a frame; interlace and PAL/NTSC.
SPECIFICATION RasterSpec
CONSTANTS
  LineClocks = 3
  VblEnd = 1
  Standards = {4, 6}
  ResetLines = 6
  LaceValues = {TRUE, FALSE}
  CckPerEclock = 5
  Word = 1024
  MaxStep = 14
  MaxCycles = 45
  MaxWrites = 2
  LineWidth = 20
  SpriteWidth = 2
  LeadLores = 2
  LeadHires = 1
  MaxScroll = 2
  Byte8 = 8
  VisStart = 1
  MaxLines = 4
  FrameLengths = {3, 4}
  FirstLength = 4
  Ecs = TRUE
  Bplcons <- RasterBplcons
  Diws <- RasterDiws
  DiwHighs <- RasterDiwHighs
  Ddfs = {1}
  Palettes <- OtherPalette
  SpriteData <- RasterSprites
  PlaneWords <- RasterWords
  Displays <- RasterDisplays
  LineCases <- RasterCases
  MaxFetched = 5
  MaxDenOps = 2
INVARIANTS
  TimeKept
  ProjectionExact
  WindowIsCurrent
  CollisionsKept
PROPERTIES
  RasterPulses
  FramesPublished
