SPECIFICATION Spec
CONSTANTS
  Block = {b1, b2, b3, b4}
  BufSize = 2
  MaxWrite = 2
  Isr = FALSE
  Aborts = FALSE
  NULL = NULL
SYMMETRY Symmetry
INVARIANTS SentInOrder NothingStranded
