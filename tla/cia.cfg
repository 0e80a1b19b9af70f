\* Both timers in all input modes, steps of 1 to 5 ticks over periods of 1 to 4,
\* and the serial port clocked by timer A while modes are switched; a 3-byte
\* clock of base 2 (0..7) with up to three pulses per step.
SPECIFICATION CiaSpec
CONSTANTS
  Byte = 2
  SerialBits = 2
  TimerBytes = {0, 1}
  CraValues <- MCCraValues
  CrbValues <- MCCrbValues
  PinLevels = {0, 1}
  SdrBytes <- MCSdrBytes
  MaxTicks = 5
  MaxCiaWrites = 3
  MaxBytes = 2
  Base = 2
  MaxPulses = 3
  MaxTodWrites = 2
INVARIANTS
  BatchEqualsTicks
  SerialSound
  TodReadSound
PROPERTIES
  AlarmExact
