\* The loop of README.md, with processors that may overshoot the deadline.
SPECIFICATION ReadmeSpec
CONSTANTS
  LineClocks = 5
  VblEnd = 1
  FrameLines = 3
  MaxInstr = 3
PROPERTY
  FramesKeepComing
