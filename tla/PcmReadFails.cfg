SPECIFICATION FairSpec
CONSTANTS
  Format <- CD
  Late = {0}
  Stall = 25000
  MaxUpsets = 0
  MaxControls = 0
  MaxKills = 0
  MayFail = TRUE
PROPERTIES
  ReadFailureEndsProgram
\* The sender rests once it is paused or gone.
CHECK_DEADLOCK FALSE
