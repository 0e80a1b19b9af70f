\* harness_step: slices of any length, accesses anywhere in them.
SPECIFICATION Spec
CONSTANTS
  LineClocks = 5
  VblEnd = 1
  FrameLines = 3
  MaxInstr = 3
INVARIANTS
  InStep
PROPERTIES
  FramesKeepComing
