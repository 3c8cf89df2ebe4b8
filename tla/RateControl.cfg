SPECIFICATION Spec
CONSTANTS
  K = 100000
  FNS = 128
  qs_hi = 100
  bufframes = 441
  Device = 8192
  Skews <- DeviceSkews
  Bursts = {1, 8}
  Losses = {0, 40, 200}
  Delays = {20, 40}
  StallTicks = {150, 2000}
  Horizon = 4200
  Settling = 1900
  Tolerance = 200
INVARIANTS
  RatioSettles
  QueueHolds
\* A behaviour ends at the horizon.
CHECK_DEADLOCK FALSE
