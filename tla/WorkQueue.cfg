CONSTANTS
  c1 = c1
  c2 = c2
  c3 = c3
  w1 = w1
  w2 = w2
  x1 = x1
  x2 = x2
  x3 = x3
  NoTask = NoTask
  Client = {c1, c2, c3}
  Worker = {w1, w2}
  Thread <- Threads
  Task = {x1, x2, x3}
  Tasks <- TaskSeq
  High = 1
  Low = 1
  UIntMax = 8
  Putter = {c1, c2}
  Idler = {c3}
  Controller = {c3}
  Flushes = {FALSE}
  MinSz = 1
  Fallible = {w1}
  MaxStarts = 1
SPECIFICATION FairSpec
CHECK_DEADLOCK FALSE
INVARIANTS WorkersCounted NoLostWorkerWakeup ClientsServed
PROPERTIES WaitIdleMeansIdle TerminateMeansGone ImplementsService NobodyWaitsForever
