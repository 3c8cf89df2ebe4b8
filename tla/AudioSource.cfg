SPECIFICATION Spec
CONSTANTS
  Arguments <- CommandLines
  MaxBytes = 24
  MaxPacket = 12
  WavFrame = 3
  NBytes = 48
  Capacity = 24
  WriteSize = {1, 4, 6}
  PeriodBytes = 11
INVARIANTS
  FramesWhole
PROPERTIES
  SourceKept
  EndsWithMpd
\* The program ends with the stream, or does not start.
CHECK_DEADLOCK FALSE
