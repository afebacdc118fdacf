SPECIFICATION FairPoolSpec
CONSTANTS
  Fiber = {c1, c2, f3}
  NoFiber = NoFiber
  FD = {eventfd}
  NoFD = NoFD
  MaxEvents = 1
  BufferLength = 1
  Durations <- MCDurations
  MaxTime = 0
  Never = 9
  Lag = 0
  SleepAfterIO = FALSE
  Worker = {w1, w2}
  MainThread = MainThread
  NoThread = NoThread
  Client = {c1, c2}
  Collector = Collector
  TaskCounts = {1}
  MaxCalls = 2
  MaxSpurious = 1
  EventFD = eventfd
INVARIANTS
  JobsAreSuspended
PROPERTIES
  ImplementsAsync
  CallsReturn
  ShutdownEnds
