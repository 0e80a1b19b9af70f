\* Frames of five lines of five clocks; line 4 compares like line 0.
SPECIFICATION Spec
CONSTANTS
  LineClocks = 5
  VblEnd = 0
  FrameLines = 5
  VBits = 2
  HBits = 3
  HalfWord = 4
  Programs <- MCPrograms
  Pointers = {1, 5}
  MaxWrites = 2
  GuestRegs = {"COPCON", "BLTSIZE", "COP1LCH", "COP1LCL", "COPJMP1", "COPJMP2", "DMACON"}
INVARIANTS
  ListFollowed
  WaitExact
  EventReported
PROPERTIES
  NoEscalation
  FrameRestart
