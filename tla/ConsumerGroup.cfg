\* Two consumers; an entry is trimmed while it waits, crashes and administrator's
\* commands happen.
CONSTANTS
  Consumers = {c1, c2}
  MaxLen = 2
  MaxMessages = 3
  MaxCrashes = 2
  MaxCommands = 2
SPECIFICATION FairSpec
INVARIANTS
  Safety
  HandledInOrder
PROPERTIES
  NoReplay
  ImplementsQueue
  EventuallyFinished
