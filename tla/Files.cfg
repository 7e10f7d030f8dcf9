\* An image of 16 clusters, two files of a directory, three processes with machines.
CONSTANTS
  Subjects = {"machines"}
  u1 = u1
  u2 = u2
  s1 = s1
  s2 = s2
  Tags = {t1, t2}
  TmfTag = tmf_tag
  Lbas = {b1, b2}
  MaxConn = 2
  MaxWrite = 2
  Parts = 3
  Burst = 2
  FirstTag = t1
  FirstLba = b1
  Scripts = {script1, script2}
  Files = {f1, f2}
  WithMd5 = {f1}
  Size = 2
  Inodes <- EightInodes
  MaxFaults = 2
  FirstFile = f1
  Processes = {p1, p2, p3}
  Users = {u1, u2}
  Slots = {s1, s2}
  SlotsOf <- Overlapping
  Snapshots = {snapshot}
  MaxNested = 2
  MaxClaims = 3
  MaxBoxFaults = 1
  None = none
  small = small
  large = large
  c1 = c1
  c2 = c2
SPECIFICATION FilesSpec
SYMMETRY Symmetry
CHECK_DEADLOCK FALSE
INVARIANTS
  ImageSafety
  HostSafety
PROPERTIES
  RunsAreMeasured
