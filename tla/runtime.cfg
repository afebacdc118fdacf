SPECIFICATION RuntimeSpec
CONSTANTS
  Fiber = {f1, f2}
  NoFiber = NoFiber
  FD = {fd1, fd2}
  NoFD = NoFD
  MaxEvents = 2
  BufferLength = 2
  Durations <- MCDurations
  MaxTime = 1
  Never = 9
  Lag = 1
  SleepAfterIO = FALSE
  InterruptedClose = "open"
SYMMETRY Symmetry
INVARIANTS
  RuntimeTypeOK
  WatchersMatchDescriptors
  LentStayOpen
  WaitersMatchCalls
  ClosedCallsFail
