\* Two writes on a connection, two connections, resets; two scripts that download; a
\* machine (three processes with machines are in Files.cfg).
CONSTANTS
  Subjects = {"writes", "logins", "resets", "downloads", "one file", "machines"}
  u1 = u1
  u2 = u2
  s1 = s1
  s2 = s2
  Tags = {t1, t2}
  TmfTag = tmf_tag
  Lbas = {b1, b2}
  MaxConn = 2
  MaxWrite = 2
  Parts = 3
  Burst = 2
  FirstTag = t1
  FirstLba = b1
  Scripts = {script1, script2}
  Files = {f1, f2}
  WithMd5 = {f1}
  Size = 2
  Inodes <- EightInodes
  MaxFaults = 2
  FirstFile = f1
  Processes = {p1, p2}
  Users = {u1, u2}
  Slots = {s1, s2}
  SlotsOf <- Overlapping
  Snapshots = {snapshot}
  MaxNested = 2
  MaxClaims = 1
  MaxBoxFaults = 1
  None = none
SPECIFICATION FairSpec
INVARIANTS
  SessionSafety
  DownloadSafety
PROPERTIES
  AbortedIsNotWritten
  EverythingEnds
  NothingIsFetchedTwice
  CallEnds
