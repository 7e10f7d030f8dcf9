\* A write that a reset has ended, and another one with its tag.
CONSTANTS
  Tags = {t1}
  Lbas = {b1, b2}
  MaxConn = 1
  MaxWrite = 2
  Parts = 2
  Burst = 1
  Functions = {"reset"}
  Overlap = FALSE
  TmfTag = TmfTag
  None = None
SPECIFICATION Spec
CHECK_DEADLOCK FALSE
PROPERTIES
  AbortedIsNotWritten
