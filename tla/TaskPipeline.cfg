\* One job on two workers with two faults, two jobs of which one is refused or foreign.
CONSTANTS
  j1 = j1
  j2 = j2
  j3 = j3
  w1 = w1
  w2 = w2
  Jobs <- MCJobs
  Foreign = {j3}
  Malformed = {j2}
  Cancelled <- MCJobs
  Workers <- MCWorkers
  RetryCount = 2
  MaxFaults = 2
SPECIFICATION MCFairSpec
INVARIANTS
  Safety
  FirstResultWins
  RepetitionsAreFaults
PROPERTIES
  PublishedJobFinishes
