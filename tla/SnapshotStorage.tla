--------------------------- MODULE SnapshotStorage --------------------------
(***************************************************************************)
(* The tree of snapshots of arms/hierarchical_storage/storage.py, shared   *)
(* by the contractors' processes of one server.  Each contract prunes the  *)
(* tree and then makes a pending snapshot, which is committed by renaming  *)
(* its directory or rolled back by removing it.                            *)
(*                                                                         *)
(* flock() locks an inode: the lock on a directory moves with it when it   *)
(* is renamed, keeps others out until its descriptor is closed, also those *)
(* of the same process, and means nothing once the directory is removed.   *)
(***************************************************************************)
EXTENDS Integers, FiniteSets

CONSTANTS
  Contractors,  \* processes, each of which serves one contract at a time
  Snapshots,    \* disk_stems
  Parent,       \* the snapshot on which another one is based, or Root
  Root,         \* the directory of QCOWRootDisk
  NoOne,
  MaxCrashes    \* bound on the crashes

ConstantsAssumption ==
  /\ Root \notin Snapshots
  /\ Parent \in [Snapshots -> Snapshots \union {Root}]
  /\ \E s \in Snapshots : Parent[s] = Root
  /\ NoOne \notin Contractors
  /\ MaxCrashes \in Nat

VARIABLES
  dirs,      \* per directory, whether it is there and has a disk in it
  locker,    \* per directory, whose descriptor locks it
  root,      \* who locks the root directory
  proc,      \* per process, how far its contract is
  crashes

vars == <<dirs, locker, root, proc, crashes>>

\* The directories "tmp_<name>" and "<name>" of a snapshot.
Dirs == Snapshots \X {"tmp", "final"}
Tmp(s) == <<s, "tmp">>
Final(s) == <<s, "final">>
Gone == <<Root, "gone">>        \* an inode that has no name any more
InRoot(s) == Parent[s] = Root
Children(s) == {t \in Snapshots : Parent[t] = s}

States == {"idle", "asked", "prune", "leaf", "pruned", "mkdir", "open", "locked",
           "check", "making", "unlock"}

Idle(s) == [pc |-> "idle", snapshot |-> s, leafs |-> {}, path |-> Gone, fd |-> Gone]

TypeOK ==
  /\ dirs \in [Dirs -> {"none", "empty", "disk"}]
  /\ locker \in [Dirs -> Contractors \union {NoOne}]
  /\ root \in Contractors \union {NoOne}
  /\ proc \in [Contractors -> [pc : States, snapshot : Snapshots, leafs : SUBSET Dirs,
                               path : Dirs \union {Gone}, fd : Dirs \union {Gone}]]
  /\ \A s \in Snapshots : dirs[Final(s)] # "empty"
  /\ \A d \in Dirs : dirs[d] = "none" => locker[d] = NoOne
  /\ crashes \in 0 .. MaxCrashes

Init ==
  /\ dirs = [d \in Dirs |-> "none"]
  /\ locker = [d \in Dirs |-> NoOne]
  /\ root = NoOne
  /\ proc \in [Contractors -> {Idle(s) : s \in {CHOOSE s \in Snapshots : InRoot(s)}}]
  /\ crashes = 0

At(p, state) == proc[p].pc = state
Goto(p, state) == proc' = [proc EXCEPT ![p].pc = state]
Target(p) == proc[p].snapshot

\* The contract is over for p: rejected, ignored, or carried out.
Leave(p) == proc' = [proc EXCEPT ![p] = Idle(Target(p))]
LeaveRoot(p) == Leave(p) /\ root' = NoOne

\* The descriptors of a directory follow it to where it is moved.
Follow(old, new) ==
  [q \in Contractors |-> IF proc[q].fd = old THEN [proc[q] EXCEPT !.fd = new] ELSE proc[q]]

Remove(d) ==
  /\ dirs' = [dirs EXCEPT ![d] = "none"]
  /\ locker' = [locker EXCEPT ![d] = NoOne]

---------------------------------------------------------------------------
\* get_boot_configuration(): prune() --------------------------------------

Request(p, s) ==
  /\ At(p, "idle")
  /\ proc' = [proc EXCEPT ![p] = [Idle(s) EXCEPT !.pc = "asked"]]
  /\ UNCHANGED <<dirs, locker, root, crashes>>

\* _leafs_by_age(): directories with a disk and without subdirectories.
Leafs ==
  {d \in Dirs : /\ dirs[d] = "disk"
                /\ d[2] = "final" =>
                     \A t \in Children(d[1]) : dirs[Tmp(t)] = "none" /\ dirs[Final(t)] = "none"}

CollectLeafs(p) ==
  /\ At(p, "asked")
  /\ root = NoOne
  /\ root' = p
  /\ proc' = [proc EXCEPT ![p].pc = "prune", ![p].leafs = Leafs]
  /\ UNCHANGED <<dirs, locker, crashes>>

\* The younger leafs fit into the volume.
KeepLeaf(p, d) ==
  /\ At(p, "prune")
  /\ d \in proc[p].leafs
  /\ proc' = [proc EXCEPT ![p].leafs = @ \ {d}]
  /\ UNCHANGED <<dirs, locker, root, crashes>>

OpenLeaf(p, d) ==
  /\ At(p, "prune")
  /\ d \in proc[p].leafs
  /\ dirs[d] # "none"
  /\ proc' = [proc EXCEPT ![p].pc = "leaf", ![p].leafs = @ \ {d}, ![p].path = d, ![p].fd = d]
  /\ UNCHANGED <<dirs, locker, root, crashes>>

\* Its owner holds the lock, or did until it renamed or removed the directory.
Locked(p) ==
  \/ proc[p].fd # Gone /\ locker[proc[p].fd] # NoOne
  \/ proc[p].fd = Gone /\ \E q \in Contractors :
                            At(q, "unlock") /\ proc[q].fd = Gone /\ Target(q) = proc[p].path[1]

\* Faulty variant of SkipLockedLeaf: it will be tried again.
RetryLockedLeaf(p) ==
  /\ At(p, "leaf")
  /\ Locked(p)
  /\ proc' = [proc EXCEPT ![p].pc = "prune", ![p].leafs = @ \union {proc[p].path},
                          ![p].path = Gone, ![p].fd = Gone]
  /\ UNCHANGED <<dirs, locker, root, crashes>>

SkipLockedLeaf(p) ==
  /\ At(p, "leaf")
  /\ Locked(p)
  /\ proc' = [proc EXCEPT ![p].pc = "prune", ![p].path = Gone, ![p].fd = Gone]
  /\ UNCHANGED <<dirs, locker, root, crashes>>

\* Faulty variant of RemoveLeaf: the lock of the leaf is not tried.
RemoveAnyLeaf(p) ==
  /\ At(p, "leaf")
  /\ dirs[proc[p].path] # "none"
  /\ Remove(proc[p].path)
  /\ proc' = [Follow(proc[p].path, Gone) EXCEPT ![p].pc = "prune", ![p].path = Gone, ![p].fd = Gone]
  /\ UNCHANGED <<root, crashes>>

RemoveLeaf(p) ==
  /\ At(p, "leaf")
  /\ ~Locked(p)
  /\ dirs[proc[p].path] # "none"
  /\ Remove(proc[p].path)
  /\ proc' = [Follow(proc[p].path, Gone) EXCEPT ![p].pc = "prune", ![p].path = Gone, ![p].fd = Gone]
  /\ UNCHANGED <<root, crashes>>

\* The owner has renamed or removed it since it was opened: rmtree() fails.
RemoveMissingLeaf(p) ==
  /\ At(p, "leaf")
  /\ ~Locked(p)
  /\ dirs[proc[p].path] = "none"
  /\ LeaveRoot(p)
  /\ UNCHANGED <<dirs, locker, crashes>>

EndPrune(p) ==
  /\ At(p, "prune")
  /\ proc[p].leafs = {}
  /\ root' = NoOne
  /\ Goto(p, "pruned")
  /\ UNCHANGED <<dirs, locker, crashes>>

---------------------------------------------------------------------------
\* PendingSnapshot.__init__() ---------------------------------------------

ParentExists(s) == \A t \in {Parent[s]} \ {Root} : dirs[Final(t)] # "none"

MakeDir(p) ==
  /\ At(p, "pruned")
  /\ root = NoOne
  /\ ParentExists(Target(p))
  /\ root' = p
  /\ dirs' = [dirs EXCEPT ![Tmp(Target(p))] = IF @ = "none" THEN "empty" ELSE @]
  /\ Goto(p, "mkdir")
  /\ UNCHANGED <<locker, crashes>>

ParentNotExist(p) ==
  /\ At(p, "pruned")
  /\ root = NoOne
  /\ ~ParentExists(Target(p))
  /\ Leave(p)
  /\ UNCHANGED <<dirs, locker, root, crashes>>

OpenDir(p) ==
  /\ At(p, "mkdir")
  /\ IF dirs[Tmp(Target(p))] = "none"
       THEN LeaveRoot(p)
       ELSE /\ proc' = [proc EXCEPT ![p].pc = "open", ![p].fd = Tmp(Target(p)),
                                    ![p].path = Tmp(Target(p))]
            /\ UNCHANGED root
  /\ UNCHANGED <<dirs, locker, crashes>>

LockDir(p) ==
  /\ At(p, "open")
  /\ ~Locked(p)
  /\ locker' = [d \in Dirs |-> IF d = proc[p].fd THEN p ELSE locker[d]]
  /\ Goto(p, "locked")
  /\ UNCHANGED <<dirs, root, crashes>>

AlreadyLocked(p) ==
  /\ At(p, "open")
  /\ Locked(p)
  /\ LeaveRoot(p)
  /\ UNCHANGED <<dirs, locker, crashes>>

WriteDisk(p) ==
  /\ At(p, "locked")
  /\ dirs[Tmp(Target(p))] = "empty"
  /\ dirs' = [dirs EXCEPT ![Tmp(Target(p))] = "disk"]
  /\ Goto(p, "check")
  /\ root' = NoOne
  /\ UNCHANGED <<locker, crashes>>

\* DiskExists: a process that crashed has left it.  The descriptor stays open.
DiskExists(p) ==
  /\ At(p, "locked")
  /\ dirs[Tmp(Target(p))] = "disk"
  /\ LeaveRoot(p)
  /\ UNCHANGED <<dirs, locker, crashes>>

\* The owner has renamed or removed it since it was opened.
DirNotExist(p) ==
  /\ At(p, "locked")
  /\ dirs[Tmp(Target(p))] = "none"
  /\ LeaveRoot(p)
  /\ UNCHANGED <<dirs, locker, crashes>>

ChildNotExist(p) ==
  /\ At(p, "check")
  /\ dirs[Final(Target(p))] # "disk"
  /\ Goto(p, "making")
  /\ UNCHANGED <<dirs, locker, root, crashes>>

ChildExists(p) ==
  /\ At(p, "check")
  /\ dirs[Final(Target(p))] = "disk"
  /\ Remove(Tmp(Target(p)))
  /\ proc' = [Follow(Tmp(Target(p)), Gone) EXCEPT ![p] = Idle(Target(p))]
  /\ UNCHANGED <<root, crashes>>

---------------------------------------------------------------------------
\* The end of a contract ---------------------------------------------------

Rollback(p) ==
  /\ At(p, "making")
  /\ Remove(Tmp(Target(p)))
  /\ proc' = [Follow(Tmp(Target(p)), Gone) EXCEPT ![p].pc = "unlock"]
  /\ UNCHANGED <<root, crashes>>

\* rename() moves the directory with its disk and its lock.
Commit(p) ==
  LET tmp == Tmp(Target(p)) final == Final(Target(p)) IN
  /\ At(p, "making")
  /\ dirs[final] = "none"
  /\ dirs' = [dirs EXCEPT ![final] = dirs[tmp], ![tmp] = "none"]
  /\ locker' = [locker EXCEPT ![final] = locker[tmp], ![tmp] = NoOne]
  /\ proc' = [Follow(tmp, final) EXCEPT ![p].pc = "unlock"]
  /\ UNCHANGED <<root, crashes>>

Unlock(p) ==
  /\ At(p, "unlock")
  /\ locker' = [d \in Dirs |-> IF d = proc[p].fd THEN NoOne ELSE locker[d]]
  /\ Leave(p)
  /\ UNCHANGED <<dirs, root, crashes>>

\* The process ends anywhere, also because the machine did not boot or the
\* rollback failed: its descriptors are closed, and its directories stay.
Crash(p) ==
  /\ crashes < MaxCrashes
  /\ crashes' = crashes + 1
  /\ locker' = [d \in Dirs |-> IF locker[d] = p THEN NoOne ELSE locker[d]]
  /\ root' = IF root = p THEN NoOne ELSE root
  /\ Leave(p)
  /\ UNCHANGED dirs

Step(p) ==
  \/ CollectLeafs(p)
  \/ \E d \in Dirs : KeepLeaf(p, d) \/ OpenLeaf(p, d)
  \/ SkipLockedLeaf(p) \/ RemoveLeaf(p) \/ RemoveMissingLeaf(p) \/ EndPrune(p)
  \/ MakeDir(p) \/ ParentNotExist(p) \/ OpenDir(p)
  \/ LockDir(p) \/ AlreadyLocked(p)
  \/ WriteDisk(p) \/ DiskExists(p) \/ DirNotExist(p)
  \/ ChildNotExist(p) \/ ChildExists(p)
  \/ Rollback(p) \/ Commit(p) \/ Unlock(p)

Next ==
  \E p \in Contractors : Step(p) \/ Crash(p) \/ \E s \in Snapshots : Request(p, s)

Spec == Init /\ [][Next]_vars
FairSpec == Spec /\ \A p \in Contractors : WF_vars(Step(p))

---------------------------------------------------------------------------
(***************************************************************************)
(* Properties                                                              *)
(***************************************************************************)

\* Processes at work between WriteDisk and Unlock.
Making(p) == proc[p].pc \in {"check", "making"}

\* The machine of a contract runs on a disk that nobody else makes, locks or
\* removes, and that can be committed: the target is not there, although it was
\* looked for without the lock on the root.
MakerOwnsDisk ==
  \A p \in Contractors : Making(p) =>
    /\ dirs[Tmp(Target(p))] = "disk"
    /\ locker[Tmp(Target(p))] = p
    /\ At(p, "making") => dirs[Final(Target(p))] = "none"
    /\ \A q \in Contractors \ {p} : Making(q) => Target(q) # Target(p)

\* Every snapshot, pending or not, has the disks it is based on.
ChainComplete ==
  \A s \in Snapshots :
    (\E d \in {Tmp(s), Final(s)} : dirs[d] # "none") => InRoot(s) \/ dirs[Final(Parent[s])] = "disk"

\* A pending directory that nobody makes is left of a crash, not of contracts
\* that were refused or of races between the processes.
LeftoversAreCrashes ==
  Cardinality({s \in Snapshots : /\ dirs[Tmp(s)] # "none"
                                 /\ \A p \in Contractors :
                                      Target(p) = s => proc[p].pc \notin {"mkdir", "open", "locked"}
                                                       /\ ~Making(p)})
    <= crashes

\* The lock on the root, which all contracts wait for, is given back.
RootReleased == (root # NoOne) ~> (root = NoOne)

\* The promises of the storage: the disk of a contract is its own and complete
\* down to the root, and only crashes leave directories behind.
Safety ==
  /\ TypeOK
  /\ MakerOwnsDisk
  /\ ChainComplete
  /\ LeftoversAreCrashes
=============================================================================
