SPECIFICATION Spec
CONSTANTS
  FD = {fd1, fd2}
  Awaiter = {a1, a2, a3}
  MaxEvents = 2
INVARIANTS
  PendingIffAwaited
  CtlNeverFails
  KernelKnowsAwaiters
  EventsHaveAwaiters
PROPERTIES
  EventsReleaseTheirAwaiters
