\* One byte is asked for, and stdout is full when it is flushed.
SPECIFICATION Spec
CONSTANTS
  Request = 3
  Room = 12
  Totals <- Shortest
INVARIANT DeliversAll
