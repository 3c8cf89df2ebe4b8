SPECIFICATION FairSpec
CONSTANTS
  Found = {{"mpd", "sender", "upmpdcli"}, {"mpd", "sender"}, {"mpd"}, {}}
  MaxSignals = 2
INVARIANTS
  NormalExitRemovesFifo
PROPERTIES
  ChildrenEnd
  DeathEndsScript
  StartEnds
\* The script ends.
CHECK_DEADLOCK FALSE
