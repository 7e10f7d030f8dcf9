-------------------------------- MODULE Arms -------------------------------
(***************************************************************************)
(* What the contractors of physical machines do: the storage of snapshots, *)
(* the market of contracts, and the disks of the machines.  A behaviour    *)
(* chooses one part at its start and only that part moves, so that the     *)
(* states of the parts are added and not multiplied.                       *)
(***************************************************************************)
EXTENDS Naturals

CONSTANTS
  \* SnapshotStorage
  Contractors, Snapshots, Parent, Root,
  Pair,          \* the contractors that work when they may crash
  \* ArmMarket
  Sessions, Streams,
  FirstSession,  \* the only session that works when contractors may crash
  SpareStream,   \* not used when all sessions work
  \* MachineDisk
  MaxImage, MaxKill, MaxLost, CloseFails,
  FirstMachine,  \* the only machine with contracts when there are faults of every kind
  \* ArmMarket and MachineDisk
  Machines,
  \* SnapshotStorage and ArmMarket
  MaxCrashes,
  None

VARIABLES
  subject,  \* the part that moves
  \* SnapshotStorage
  dirs, locker, storageRoot, proc, storageCrashes,
  \* ArmMarket
  machine, session, gone, stream, disk, crashes,
  \* MachineDisk
  pc, goal, current, met, file, port, power, root, dirty, target, luns, nexus, inuse,
  hung, torn, lost, kills, losses

Storage == INSTANCE SnapshotStorage WITH
  NoOne <- None, root <- storageRoot, crashes <- storageCrashes

Market == INSTANCE ArmMarket

Disk == INSTANCE MachineDisk

ASSUME PartsAssumption ==
  /\ Storage!ConstantsAssumption
  /\ Market!ConstantsAssumption
  /\ Disk!ConstantsAssumption

storageVars == <<dirs, locker, storageRoot, proc, storageCrashes>>
marketVars == <<machine, session, gone, stream, disk, crashes>>
diskVars ==
  <<pc, goal, current, met, file, port, power, root, dirty, target, luns, nexus, inuse,
    hung, torn, lost, kills, losses>>
vars == <<subject, storageVars, marketVars, diskVars>>

Init ==
  /\ subject \in
       {"storage", "three contractors", "market", "two sessions", "disk", "one machine"}
  /\ Storage!Init
  /\ Market!Init
  /\ Disk!Init

Next ==
  \/ /\ subject = "storage"
     /\ Storage!Next
     /\ \A c \in Contractors \ Pair : proc'[c] = proc[c]
     /\ UNCHANGED <<subject, marketVars, diskVars>>
  \/ /\ subject = "three contractors"
     /\ Storage!Next
     /\ storageCrashes' = 0
     /\ UNCHANGED <<subject, marketVars, diskVars>>
  \/ /\ subject = "market"
     /\ Market!Next
     /\ \A s \in Sessions \ {FirstSession} : session'[s] = session[s] /\ s \notin gone'
     /\ UNCHANGED <<subject, storageVars, diskVars>>
  \* two clients at a time
  \/ /\ subject = "two sessions"
     /\ Market!Next
     /\ stream'[SpareStream] = stream[SpareStream] /\ crashes' = 0
     /\ UNCHANGED <<subject, storageVars, diskVars>>
  \* the contractors of all machines; the daemon and closing an image do not fail
  \/ /\ subject = "disk"
     /\ Disk!Next
     /\ file'[MaxImage] = "none" /\ kills' <= 1 /\ losses' = 0
     /\ \A m \in Machines : ~Disk!DetachFails(m)
     /\ UNCHANGED <<subject, storageVars, marketVars>>
  \* one machine has all the contracts, and faults of every kind
  \/ /\ subject = "one machine"
     /\ Disk!Next
     /\ \A m \in Machines \ {FirstMachine} : pc'[m] = "looking"
     /\ UNCHANGED <<subject, storageVars, marketVars>>
  \* all images have been used; the other parts never stop
  \/ /\ subject \in {"disk", "one machine"}
     /\ UNCHANGED vars

Spec == Init /\ [][Next]_vars

\* The fairness of each part, as its own FairSpec states it.
FairSpec ==
  /\ Spec
  /\ \A p \in Pair : WF_storageVars(subject = "storage" /\ Storage!Step(p))
  /\ \A m \in Machines : WF_marketVars(subject = "market" /\ Market!MachineStep(m))
  /\ WF_marketVars(subject = "market" /\ Market!SessionStep(FirstSession))
  /\ WF_marketVars(subject = "market" /\ Market!RequestTimeout(FirstSession))
  /\ \A m \in Machines : /\ WF_diskVars(subject = "disk" /\ Disk!Contractor(m))
                         /\ WF_diskVars(subject = "disk" /\ Disk!MachineStep(m))

---------------------------------------------------------------------------
(***************************************************************************)
(* Properties: those of the parts, of the behaviours in which they move    *)
(***************************************************************************)

\* A contract's disk is nobody else's and complete down to the root, although
\* targets are looked for and disks committed and rolled back without the lock on
\* the root, and what is left behind is left by crashes (PendingSnapshot, prune()).
StorageSafety == subject \in {"storage", "three contractors"} => Storage!Safety

\* The lock on the root, which all contracts wait for, is given back.
RootReleased == subject = "storage" => Storage!RootReleased

\* A signed contract is served by the machine the client was given; however it
\* ends, its disk is committed or rolled back, and who is told that the snapshot
\* was committed has it (market.py, snapshots.py, arm_manager/server.py).
MarketSafety == subject \in {"market", "two sessions"} => Market!Safety

\* A machine comes back from a client that has gone, whatever the session was
\* doing at that moment.
MachineComesBack == subject = "market" => Market!MachineComesBack

\* A machine runs from the image of its contract, also after its contractor was
\* killed, and an image that is committed is complete and closed (machine.py).
DiskSafety == subject \in {"disk", "one machine"} => Disk!Safety

\* A contractor is done with its contract some time, and with it the machine is
\* free for another one.
ContractEnds == subject = "disk" => Disk!ContractEnds
=============================================================================
