SPECIFICATION Spec
CONSTANTS
  Fiber = {f1, f2}
  NoFiber = NoFiber
  FD = {fd1}
  NoFD = NoFD
  MaxEvents = 1
  BufferLength = 2
  Durations <- MCDurations
  MaxTime = 1
  Never = 9
  Lag = 1
  SleepAfterIO = TRUE
INVARIANTS
  AssertWatcherExists
