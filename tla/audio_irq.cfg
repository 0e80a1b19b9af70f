\* The same instance as paula.cfg, asking for the AUDx request of a finished buffer.
SPECIFICATION PaulaSpec
CONSTANTS
  Channels = {0}
  Addresses = {0, 8}
  AudLengths = {0, 1, 2}
  Periods = {0, 2, 3}
  MaxAudStep = 5
  MaxFetches = 4
  MaxAudWrites = 6
  FrameLengths = {1, 3}
  FifoSize = 2
  MaxSerStep = 3
  MaxBytes = 4
  MaxHostOps = 3
  Tracks = {t1, t2}
  NoTrack = NoTrack
  TrackWords = 3
  SyncAt = {1}
  Pointers = {0, 2}
  Lengths = {0, 4}
  FakeCycles = 3
  SlotOwners <- Line
  Legacy = TRUE
  MemoryWords = 6
  MaxStep = 2
  LabelLongs = 2
  DataLongs = 2
  TrackSectors = 2
  GapLongs = 2
  MfmLongs <- DataLongwords
  MfmTracks = {0, 159}
  MaxWrites = 6
INVARIANT BufferEndRequested
