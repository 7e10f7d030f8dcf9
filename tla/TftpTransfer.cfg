\* Six blocks with four block numbers: they wrap around.  A datagram may be
\* two blocks late, one less than would let numbers be confused.
CONSTANTS
  Blocks = 6
  Wrap = 4
  Lag = 2
  RetryCount = 3
  Timeouts <- ValidTimeouts
  NoTimeout = NoTimeout
SPECIFICATION FairSpec
CHECK_DEADLOCK FALSE
INVARIANTS
  Safety
PROPERTIES
  TransferSpec
  SessionEnds
