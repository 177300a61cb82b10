\* Both UARTs in use: the terminator of uart1 goes to rx0_buf.
CONSTANTS
  Char = {x}
  End = End
  NUL = NUL
  MsgSize = 3
  QueueLen = 1
  Active <- Both
  MaxRefs = 4
  MaxLinks = 3
  MaxConn = 2
  MaxObjects = 2
  Programs = {"dual_uart_int"}
SPECIFICATION MCSpec
INVARIANTS LineDelivered
CHECK_DEADLOCK FALSE
