\* Both UARTs of the printer in use; the other programs with everything they
\* may meet, in three links of the CTS client and with both connection objects
\* of the heart rate sensor.
CONSTANTS
  Char = {x}
  End = End
  NUL = NUL
  MsgSize = 3
  QueueLen = 1
  Active <- Both
  MaxRefs = 4
  MaxLinks = 3
  MaxConn = 2
  MaxObjects = 2
  Programs = {"dual_uart_int", "lte_tests", "uart_wakeup_rx",
              "peripheral_uart_beacon", "peripheral_cts_client",
              "peripheral_and_central", "peripheral_hr_coded_multi",
              "interval_beacon"}
SPECIFICATION MCSpec
INVARIANTS Types DamageAtEnd EarlyOnlyWithSpare NullOnlyOnBoth OffOnlyAfterRefusal HandlesOfLink HandleOfSensor ScansWithoutSensor SetsServed ByteWakes
PROPERTIES FixSent TimeSubscribed BeaconGoesOn
CHECK_DEADLOCK FALSE
