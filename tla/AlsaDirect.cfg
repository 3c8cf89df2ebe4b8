CONSTANTS
  NMsg = 5
  AHigh = 2
  SHigh = 2
  QsTarg = 2
  UIntMax = 8
  Faults = {"startEater", "startWriter", "zero", "init", "srcnew", "bits", "process", "memory", "short", "underrun"}
SPECIFICATION FairSpec
CHECK_DEADLOCK FALSE
INVARIANTS MessagesKept DeviceReady NobodyOutlivesQueues
PROPERTIES RefillsFirst NobodyStuck
