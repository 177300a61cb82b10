\* The timer preempts the interrupt handler between a check and its use.
CONSTANTS
  Buf = {b1, b2}
  NULL = NULL
  MaxLen = 2
  FifoSize = 2
  Prio <- PrioCdc
  Calls <- CallsTimeout
  Timeouts <- Finite
CONSTRAINT TimerOnlyRestarts
SYMMETRY Symmetry
SPECIFICATION Spec
INVARIANTS DoneMeansSent
CHECK_DEADLOCK FALSE
