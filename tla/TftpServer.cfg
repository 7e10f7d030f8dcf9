\* Three clients for the two places that are let in: they can all be taken, and a
\* repeated request be read after its session.
CONSTANTS
  Clients = {c1, c2, c3}
  MaxSessions = 1
  MaxInbox = 1
  NoRequest = NoRequest
SPECIFICATION FairSpec
CHECK_DEADLOCK FALSE
INVARIANTS
  Safety
PROPERTIES
  EveryoneIsAnswered
