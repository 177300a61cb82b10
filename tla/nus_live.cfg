\* Every fifo drains and reception comes back.
SPECIFICATION FairSpec
CONSTANTS
  Block = {b1, b2}
  BufSize = 2
  MaxWrite = 2
  Isr = FALSE
  Aborts = FALSE
  NULL = NULL
PROPERTIES FifoDrains ReceptionResumes
