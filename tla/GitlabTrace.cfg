\* Three updates, the last two are results.
CONSTANTS
  Updates = 3
  ResultsAt <- TwoResults
  RetryCount = 2
  MaxFaults = 4
SPECIFICATION FairSpec
INVARIANTS
  Safety
  HarmIsBounded
PROPERTIES
  EverythingReported
