\* Aborts, timeouts and submissions from callbacks, under every preemption.
CONSTANTS
  Buf = {b1, b2}
  NULL = NULL
  MaxLen = 2
  FifoSize = 1
  Prio <- PrioCdc
  Calls <- CallsAbort
  Timeouts <- Finite
SPECIFICATION FairSpec
INVARIANT ReportedOnce
PROPERTIES Reported
CHECK_DEADLOCK FALSE
