SPECIFICATION FairRuntimeSpec
CONSTANTS
  Fiber = {f1, f2}
  NoFiber = NoFiber
  FD = {fd1}
  NoFD = NoFD
  MaxEvents = 2
  BufferLength = 2
  Durations = {0, 1}
  MaxTime = 1
  Never = 9
  Lag = 1
  SleepAfterIO = FALSE
  InterruptedClose = "never"
PROPERTIES
  QuietCallsReturn
  DueFibersWake
  ReadyRuns
