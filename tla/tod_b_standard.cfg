\* BEAMCON0 selects the short frame while the beam is below its end.
SPECIFICATION Spec
CONSTANTS
  LineClocks = 3
  VblEnd = 1
  Standards = {4, 6}
  ResetLines = 6
  LaceValues = {}
  CckPerEclock = 5
  Word = 1024
  MaxStep = 3
  MaxCycles = 30
  MaxWrites = 1
INVARIANT
  TodBWithinTime
