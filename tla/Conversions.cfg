SPECIFICATION ConvSpec
CONSTANTS
  Byte = {0, 1, 127, 128, 255}
  MaxText = 5
  MaxSamples = 4
  Freq = {8000, 44100, 192000}
  Bits = {16, 24, 32}
  Chans = {1, 2, 8}
  DataLen = {0, 44, 70000, 2000000000}
  Overshoot = {0, 1, 9000}
  Position = {0, 44, 5292}
  MaxRange = 7
  MaxConf = 6
  MaxCut = 4
  Chunk = 2
  LL = 9
INVARIANTS
  RoundTrips
  ReceiverUndoesSender
  SamplesPlayed
  StartsWhereAsked
  TextSurvives
\* A conversion is done once.
CHECK_DEADLOCK FALSE
