\* Two drives of three cylinders, a clock with minutes of two seconds, a disk
\* of two sectors and a disc of one, one page each of chip and slow RAM.
SPECIFICATION BoardSpec
CONSTANTS
  DriveCount = 2
  Cylinders = 3
  IdBits = 2
  Disks = {d1, d2}
  NoDisk = NoDisk
  Controls <- MCControls
  MaxHost = 3
  SecsPerMin = 2
  MinsPerHour = 2
  MonthDays = 11
  StartTimes = {529968}
  SetTimes = {12739, 380255}
  RtcDigits = {0, 1, 19}
  Ticks = {1, 48}
  MaxTicks = 1
  MaxRtcOps = 4
  CdSectors = 1
  CdSectorWords = 2
  BufSectors = 1
  DiskSectors = 2
  SectorWords = 2
  FullCount = 2
  PktWords = 2
  IdeWords = {8, 9}
  IdeCounts = {0, 1}
  MaxIdeOps = 4
  ChipPages = 1
  SlowPages = 1
  RomPages = 1
  FastPages = 2
  LidePages = 2
  Places = {33, 233}
  Offsets = {0}
  MapValues = {1, 2}
  MaxMapOps = 4
SYMMETRY DiskSymmetry
INVARIANTS
  DrivesHonest
  ClockTellsTime
  TransfersExact
PROPERTIES
  WritesTheDisk
  MapHonest
CHECK_DEADLOCK FALSE
