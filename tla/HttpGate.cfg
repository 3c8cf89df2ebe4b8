\* frame 2: 16 bits stereo, which divides the header and the block (4 | 44, 4 | 5292).
\* frame 3: 24 bits stereo, which divides the block only (6 | 5292, 44 = 2 mod 6).
CONSTANTS
  k1 = k1
  k2 = k2
  Conn = {k1, k2}
  Streams <- BothFormats
  NMsg = 4
  MaxOpens = 2
  AHigh = 1
  MsgBytes = 6
  Header = 2
  Block = 6
  DataBytes = 12
  Bases = {0, 2}
  UIntMax = 8
  Faults = {"daemon"}
SPECIFICATION FairSpec
\* The process ends, or waits for ever for messages and requests.
CHECK_DEADLOCK FALSE
INVARIANTS DataqueueServes
PROPERTIES Aligned NobodyStuck
