SPECIFICATION FairSpec
CONSTANTS
  Format <- Formats
  Late = {0, 700, 2500}
  Stall = 25000
  MaxUpsets = 1
  MaxControls = 2
  MaxKills = 1
  MayFail = TRUE
INVARIANTS
  ArmedWhileAlive
  DriftBounded
PROPERTIES
  CatchesUp
  SignalEndsPause
\* The sender rests once it is paused or gone.
CHECK_DEADLOCK FALSE
