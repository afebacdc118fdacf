SPECIFICATION Spec
CONSTANTS
  Worker = {w1, w2}
  MainThread = MainThread
  NoThread = NoThread
  Client = {c1, c2, c3}
  Collector = Collector
  NoFiber = NoFiber
  TaskCounts = {0, 2}
  MaxCalls = 2
  MaxSpurious = 1
SYMMETRY Symmetry
INVARIANTS
  ReadNeverBlocks
  SplitNonEmpty
  NoDanglingJob
  CollectorServesJobs
  ShutdownFindsNoWork
PROPERTIES
  ImplementsTaskCall
