\* Two or three contractors of a storage, two machines on the market, their disks.
CONSTANTS
  os = os
  vms = vms
  tmp_root = tmp_root
  Contractors = {c1, c2, c3}
  Pair = {c1, c2}
  Snapshots = {os, vms}
  Parent <- Chain
  Root = tmp_root
  Machines = {m1, m2}
  FirstMachine = m1
  Sessions = {s1, s2}
  FirstSession = s1
  Streams = {1, 2, 3}
  SpareStream = 3
  MaxCrashes = 1
  MaxImage = 3
  MaxKill = 2
  MaxLost = 1
  CloseFails = TRUE
  None = none
SPECIFICATION FairSpec
INVARIANTS
  StorageSafety
  MarketSafety
  DiskSafety
PROPERTIES
  RootReleased
  MachineComesBack
  ContractEnds
