SPECIFICATION WatcherSpec
CONSTANTS
  FD = {0, 4}
  Awaiter = {a1, a2, a3}
  MaxEvents = 2
  Block = {b1, b2}
  Null = Null
  Loose = Loose
  Dirty = Dirty
  Released = Released
SYMMETRY Symmetry
INVARIANTS
  WatchersAreLive
PROPERTIES
  ImplementsIOPoll
