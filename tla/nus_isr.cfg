\* A UART that calls back from an interrupt and may abort transfers.
SPECIFICATION Spec
CONSTANTS
  Block = {b1, b2, b3}
  BufSize = 2
  MaxWrite = 2
  Isr = TRUE
  Aborts = TRUE
  NULL = NULL
SYMMETRY Symmetry
INVARIANTS BlockInOnePlace BytesAccounted OneStranded ReceptionRetried
PROPERTIES OvertakenOnce ReceivedReachesBle
