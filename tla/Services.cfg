\* One job in two batches, two jobs and two workers, output beyond the limit, a log that is
\* closed with its queue full.
CONSTANTS
  BatchJobs = {j1}
  Batches = {b1, b2}
  Updaters = {run_updates, web_ui}
  Api = api
  NoOne = none
  MaxReruns = 1
  MaxCalls = 4
  MaxFaults = 1
  Jobs = {j1, j2}
  Workers = {w1, w2}
  MaxRequests = 2
  FirstJob = j1
  FirstWorker = w1
  TotalLimit = 4
  ChunkLimit = 2
  MaxOutput = 7
  MaxEvents = 5
  QueueSize = 2
  BatchSize = 2
  Attempts = 2
  MaxLost = 2
SPECIFICATION FairSpec
INVARIANTS
  BatchSafety
  JobSafety
  OutputSafety
  LogSafety
PROPERTIES
  EveryCallEnds
  RequestsComeToAnEnd
  TaskEnds
  CloseReturns
