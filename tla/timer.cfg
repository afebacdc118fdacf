SPECIFICATION Spec
CONSTANTS
  Item = {i1, i2, i3, i4, i5, i6}
  Null = Null
  Durations <- MCDurations
  BufferLength = 2
  Never = 9
  MaxTime = 1
SYMMETRY Symmetry
INVARIANTS
  IsHeap
  TimeoutIsRight
PROPERTIES
  ImplementsTimerQueue
