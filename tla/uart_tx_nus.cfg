\* The NUS bridge as the client: submissions only, no timeouts.
CONSTANTS
  Buf = {b1, b2, b3}
  NULL = NULL
  MaxLen = 4
  FifoSize = 3
  Prio <- PrioCdc
  Calls <- CallsNus
  Timeouts <- Forever
SPECIFICATION FairSpec
INVARIANTS DoneMeansSent
PROPERTIES ImplementsPromise
CHECK_DEADLOCK FALSE
