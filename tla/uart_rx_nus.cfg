\* Every preemption; received bytes do not stay unreported.
CONSTANTS
  Buf = {b1, b2, b3}
  NULL = NULL
  BufLen = 2
  FifoSize = 3
  Prio <- PrioCdc
  Timeouts <- Finite
SPECIFICATION FairSpec
INVARIANTS AssertionsHold ReportsContiguous GivenBackOnce ReceiverFollowsClient
PROPERTIES BytesReported ImplementsPromise
CHECK_DEADLOCK FALSE
