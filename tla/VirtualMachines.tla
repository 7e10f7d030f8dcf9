--------------------------- MODULE VirtualMachines ---------------------------
(***************************************************************************)
(* The VirtualBox machines of the test processes of one host.  A process   *)
(* locks a user account for its life, throws away what VirtualBox has      *)
(* under that account, and then opens machines, possibly one within the    *)
(* other: it locks a range of ports (a slot, which is the machine's name   *)
(* as well), purges what is left under that name, registers a machine with *)
(* a new disk whose parent is a snapshot, starts it, uses it and purges it.*)
(*                                                                         *)
(* Locks belong to open files: they end with the process.  Machines do not.*)
(***************************************************************************)
EXTENDS Integers, Sequences, FiniteSets, SequencesExt

CONSTANTS
  Processes,
  Users,       \* accounts for VirtualBox
  Slots,       \* ranges of ten ports
  SlotsOf,     \* per user, the slots it tries, in order
  Snapshots,
  NoOne,
  MaxNested,   \* bound: machines a process has open at once
  MaxClaims,   \* bound: machines opened altogether
  MaxFaults    \* bound: commands that fail, processes that are killed

ConstantsAssumption ==
  /\ SlotsOf \in [Users -> Seq(Slots)]
  /\ NoOne \notin Processes
  /\ MaxNested \in Nat /\ MaxClaims \in Nat /\ MaxFaults \in Nat

VARIABLES
  userLock,    \* per user, the process that has the lock
  slotLock,    \* per slot, the process that has the lock
  machine,     \* per user and slot, the machine VirtualBox knows or runs
  disk,        \* per user and slot, the claim that made the disk file
  media,       \* per user, the snapshots in VirtualBox's media registry
  claims,      \* history: the slots that were locked, in this order
  proc,        \* per process, what it does next
  faults

boxes == <<machine, disk, media>>
vars == <<userLock, slotLock, boxes, claims, proc, faults>>

NoClaim == 0
NoMachine == [registered |-> FALSE, running |-> FALSE, of |-> NoClaim]
Claims == 1 .. Len(claims)

\* The claim on which p works, its slot and its user.
Top(p) == Last(proc[p].open)
Slot(p) == claims[Top(p)].slot
User(p) == proc[p].user
Machine(p) == machine[User(p)][Slot(p)]

Opening == {"off", "unregister", "delete", "register", "create", "power_on"}
Steps == Opening \union {"start", "terminate", "settings", "folder", "idle",
                         "claim", "use", "release", "ended"}

TypeOK ==
  /\ userLock \in [Users -> Processes \union {NoOne}]
  /\ slotLock \in [Slots -> Processes \union {NoOne}]
  /\ machine \in [Users -> [Slots -> [registered : BOOLEAN, running : BOOLEAN, of : {NoClaim} \union Claims]]]
  /\ disk \in [Users -> [Slots -> {NoClaim} \union Claims]]
  /\ media \in [Users -> SUBSET Snapshots]
  /\ claims \in Seq([by : Processes, slot : Slots, snapshot : Snapshots, left : BOOLEAN])
  /\ proc \in [Processes -> [at : Steps, user : Users \union {NoOne}, open : Seq(Nat),
                           snapshot : Snapshots \union {NoOne}, closing : BOOLEAN]]
  /\ \A p \in Processes :
       /\ Range(proc[p].open) \subseteq Claims /\ Len(proc[p].open) <= MaxNested
       /\ proc[p].at \in Opening \union {"use", "release"} => slotLock[Slot(p)] = p
  /\ faults \in 0 .. MaxFaults

Init ==
  /\ userLock = [u \in Users |-> NoOne]
  /\ slotLock = [s \in Slots |-> NoOne]
  /\ machine = [u \in Users |-> [s \in Slots |-> NoMachine]]
  /\ disk = [u \in Users |-> [s \in Slots |-> NoClaim]]
  /\ media = [u \in Users |-> {}]
  /\ claims = <<>>
  /\ proc = [p \in Processes |-> [at |-> "start", user |-> NoOne, open |-> <<>>,
                                  snapshot |-> NoOne, closing |-> FALSE]]
  /\ faults = 0

GoTo(p, step) == proc' = [proc EXCEPT ![p] = [@ EXCEPT !.at = step]]
SetMachine(p, m) == machine' = [machine EXCEPT ![User(p)][Slot(p)] = m]

-----------------------------------------------------------------------------
(* The account: get_virtual_box() *)

\* try_lock_exclusively()
Unlocked(u) == userLock[u] = NoOne

\* The users come in an order of their own for each process (acquire()).
AcquireUser(p) ==
  /\ proc[p].at = "start"
  /\ \E u \in Users :
       /\ Unlocked(u)
       /\ userLock' = [userLock EXCEPT ![u] = p]
       /\ proc' = [proc EXCEPT ![p] = [@ EXCEPT !.at = "terminate", !.user = u]]
  /\ UNCHANGED <<slotLock, boxes, claims, faults>>

NoFreeUser(p) ==
  /\ proc[p].at = "start"
  /\ \A u \in Users : userLock[u] # NoOne
  /\ GoTo(p, "ended")
  /\ UNCHANGED <<userLock, slotLock, boxes, claims, faults>>

\* A machine ends when the VBoxSVC that manages it does.
AfterTerminate(m) == [m EXCEPT !.running = FALSE]

TerminateService(p) ==
  /\ proc[p].at = "terminate"
  /\ machine' = [machine EXCEPT ![User(p)] = [s \in Slots |-> AfterTerminate(@[s])]]
  /\ GoTo(p, "settings")
  /\ UNCHANGED <<userLock, slotLock, disk, media, claims, faults>>

CleanUpSettings(p) ==
  /\ proc[p].at = "settings"
  /\ machine' = [machine EXCEPT ![User(p)] = [s \in Slots |->
       IF @[s].running THEN [@[s] EXCEPT !.registered = FALSE] ELSE NoMachine]]
  /\ media' = [media EXCEPT ![User(p)] = {}]
  /\ GoTo(p, "folder")
  /\ UNCHANGED <<userLock, slotLock, disk, claims, faults>>

CleanUpFolder(p) ==
  /\ proc[p].at = "folder"
  /\ disk' = [disk EXCEPT ![User(p)] = [s \in Slots |-> NoClaim]]
  /\ GoTo(p, "idle")
  /\ UNCHANGED <<userLock, slotLock, machine, media, claims, faults>>

-----------------------------------------------------------------------------
(* A machine: vm_locked(), _vm_registered(), claimed_port_range() *)

\* Faulty variant of MediaWith: a process does it once for each snapshot.
MediaOnce(p, snapshot) ==
  IF \E c \in Claims : claims[c].by = p /\ claims[c].snapshot = snapshot
  THEN media[User(p)]
  ELSE media[User(p)] \union {snapshot}

\* vbox_manage_register_medium()
MediaWith(p, snapshot) == media[User(p)] \union {snapshot}

\* A test opens a machine, alone or within another.  The snapshot is entered
\* into the media registry before the slot is claimed.
RegisterMedium(p, snapshot) ==
  /\ proc[p].at \in {"idle", "use"}
  /\ Len(proc[p].open) < MaxNested
  /\ Len(claims) + Cardinality({q \in Processes : proc[q].at = "claim"}) < MaxClaims
  /\ media' = [media EXCEPT ![User(p)] = MediaWith(p, snapshot)]
  /\ proc' = [proc EXCEPT ![p] = [@ EXCEPT !.at = "claim", !.snapshot = snapshot]]
  /\ UNCHANGED <<userLock, slotLock, machine, disk, claims, faults>>

\* try_locked()
Available(p, s) == slotLock[s] = NoOne

ClaimPortRange(p) ==
  /\ proc[p].at = "claim"
  /\ LET all == SlotsOf[User(p)]
         free == {i \in DOMAIN all : Available(p, all[i])} IN
       /\ free # {}
       /\ LET i == CHOOSE i \in free : \A k \in free : i <= k IN
            /\ slotLock' = [slotLock EXCEPT ![all[i]] = p]
            /\ claims' = Append(claims,
                 [by |-> p, slot |-> all[i], snapshot |-> proc[p].snapshot, left |-> FALSE])
  /\ proc' = [proc EXCEPT ![p] = [@ EXCEPT !.at = "off", !.closing = FALSE, !.snapshot = NoOne,
                                          !.open = Append(proc[p].open, Len(claims'))]]
  /\ UNCHANGED <<userLock, boxes, faults>>

\* "No available port ranges left": the test goes on without the machine.
NoPortRange(p) ==
  /\ proc[p].at = "claim"
  /\ \A i \in DOMAIN SlotsOf[User(p)] : ~Available(p, SlotsOf[User(p)][i])
  /\ proc' = [proc EXCEPT ![p] = [@ EXCEPT !.at = IF proc[p].open = <<>> THEN "idle" ELSE "use",
                                          !.snapshot = NoOne]]
  /\ UNCHANGED <<userLock, slotLock, boxes, claims, faults>>

-----------------------------------------------------------------------------
(* purge(), before a machine is registered and after it was used *)

\* Unregistering a machine takes the parent of its disk out of the media
\* registry with the last child.  The file of the snapshot stays: it may be
\* written by its owner only.
MediaWithout(u, s) ==
  {x \in media[u] :
     \/ disk[u][s] = NoClaim
     \/ x # claims[disk[u][s]].snapshot
     \/ \E t \in Slots \ {s} : machine[u][t].registered /\ disk[u][t] # NoClaim
                               /\ claims[disk[u][t]].snapshot = x}

\* power_off(); "Could not find a registered machine" leads to the disk.
PowerOff(p) ==
  /\ proc[p].at = "off"
  /\ IF Machine(p).registered
     THEN /\ SetMachine(p, [Machine(p) EXCEPT !.running = FALSE])
          /\ GoTo(p, "unregister")
     ELSE /\ GoTo(p, "delete")
          /\ UNCHANGED machine
  /\ UNCHANGED <<userLock, slotLock, disk, media, claims, faults>>

Unregister(p) ==
  /\ proc[p].at = "unregister"
  /\ SetMachine(p, NoMachine)
  /\ media' = [media EXCEPT ![User(p)] = MediaWithout(User(p), Slot(p))]
  /\ GoTo(p, "delete")
  /\ UNCHANGED <<userLock, slotLock, disk, claims, faults>>

Left(c) == claims' = [claims EXCEPT ![c].left = TRUE]

\* "Machine inaccessible", or ten attempts to unregister fail: purge() goes on.
StaysRegistered(p) ==
  /\ proc[p].at \in {"off", "unregister"} /\ Machine(p).registered
  /\ faults < MaxFaults /\ faults' = faults + 1
  /\ GoTo(p, "delete")
  /\ Left(Top(p))
  /\ UNCHANGED <<userLock, slotLock, boxes>>

DeleteDisk(p) ==
  /\ proc[p].at = "delete"
  /\ disk' = [disk EXCEPT ![User(p)][Slot(p)] = NoClaim]
  /\ GoTo(p, IF proc[p].closing THEN "release" ELSE "register")
  /\ UNCHANGED <<userLock, slotLock, machine, media, claims, faults>>

-----------------------------------------------------------------------------
(* register(), power_on() and the end of a machine *)

Register(p) ==
  /\ proc[p].at = "register" /\ ~Machine(p).registered
  /\ SetMachine(p, [registered |-> TRUE, running |-> FALSE, of |-> Top(p)])
  /\ GoTo(p, "create")
  /\ UNCHANGED <<userLock, slotLock, disk, media, claims, faults>>

ParentIsKnown(p) == claims[Top(p)].snapshot \in media[User(p)]

CreateDisk(p) ==
  /\ proc[p].at = "create" /\ ParentIsKnown(p)
  /\ disk' = [disk EXCEPT ![User(p)][Slot(p)] = Top(p)]
  /\ GoTo(p, "power_on")
  /\ UNCHANGED <<userLock, slotLock, machine, media, claims, faults>>

PowerOn(p) ==
  /\ proc[p].at = "power_on"
  /\ SetMachine(p, [Machine(p) EXCEPT !.running = TRUE])
  /\ GoTo(p, "use")
  /\ UNCHANGED <<userLock, slotLock, disk, media, claims, faults>>

\* VBoxManage refuses: the name is taken, or the parent is not registered.
Refused(p) ==
  /\ \/ proc[p].at = "register" /\ Machine(p).registered
     \/ proc[p].at = "create" /\ ~ParentIsKnown(p)
  /\ GoTo(p, "release")
  /\ Left(Top(p))
  /\ UNCHANGED <<userLock, slotLock, boxes, faults>>

\* A command fails otherwise.  Only what fails after register() is purged.
Fail(p) ==
  /\ proc[p].at \in Opening
  /\ faults < MaxFaults /\ faults' = faults + 1
  /\ IF proc[p].at = "power_on"
     THEN /\ proc' = [proc EXCEPT ![p] = [@ EXCEPT !.at = "off", !.closing = TRUE]]
          /\ UNCHANGED claims
     ELSE /\ GoTo(p, "release")
          /\ Left(Top(p))
  /\ UNCHANGED <<userLock, slotLock, boxes>>

\* "finally: vm_control.purge()"
AfterUse == "off"

Close(p) ==
  /\ proc[p].at = "use"
  /\ proc' = [proc EXCEPT ![p] = [@ EXCEPT !.at = AfterUse, !.closing = TRUE]]
  /\ UNCHANGED <<userLock, slotLock, boxes, claims, faults>>

Release(p) ==
  /\ proc[p].at = "release"
  /\ slotLock' = [slotLock EXCEPT ![Slot(p)] = NoOne]
  /\ proc' = [proc EXCEPT ![p] = [@ EXCEPT !.open = Front(proc[p].open),
                                          !.at = IF Len(proc[p].open) = 1 THEN "idle" ELSE "use"]]
  /\ UNCHANGED <<userLock, boxes, claims, faults>>

Unlock(p) ==
  /\ userLock' = [u \in Users |-> IF userLock[u] = p THEN NoOne ELSE userLock[u]]
  /\ slotLock' = [s \in Slots |-> IF slotLock[s] = p THEN NoOne ELSE slotLock[s]]
  /\ proc' = [proc EXCEPT ![p] = [at |-> "ended", user |-> NoOne, open |-> <<>>,
                                  snapshot |-> NoOne, closing |-> FALSE]]

End(p) ==
  /\ proc[p].at = "idle"
  /\ Unlock(p)
  /\ UNCHANGED <<boxes, claims, faults>>

Kill(p) ==
  /\ proc[p].at \notin {"start", "ended"}
  /\ faults < MaxFaults /\ faults' = faults + 1
  /\ Unlock(p)
  /\ claims' = [c \in Claims |-> IF c \in Range(proc[p].open) THEN [claims[c] EXCEPT !.left = TRUE]
                                                           ELSE claims[c]]
  /\ UNCHANGED boxes

\* The same script is started again in a new process.
Restart(p) ==
  /\ proc[p].at = "ended"
  /\ Len(claims) < MaxClaims
  /\ GoTo(p, "start")
  /\ UNCHANGED <<userLock, slotLock, boxes, claims, faults>>

-----------------------------------------------------------------------------
Done ==
  /\ \A p \in Processes : proc[p].at = "ended"
  /\ Len(claims) = MaxClaims
  /\ UNCHANGED vars

Purge(p) == PowerOff(p) \/ Unregister(p) \/ StaysRegistered(p) \/ DeleteDisk(p)

Next ==
  \/ \E p \in Processes :
       \/ AcquireUser(p) \/ NoFreeUser(p)
       \/ TerminateService(p) \/ CleanUpSettings(p) \/ CleanUpFolder(p)
       \/ \E x \in Snapshots : RegisterMedium(p, x)
       \/ ClaimPortRange(p) \/ NoPortRange(p)
       \/ Purge(p)
       \/ Register(p) \/ CreateDisk(p) \/ PowerOn(p) \/ Refused(p) \/ Fail(p)
       \/ Close(p) \/ Release(p) \/ End(p) \/ Kill(p) \/ Restart(p)
  \/ Done

Spec == Init /\ [][Next]_vars

-----------------------------------------------------------------------------
(* Properties *)

\* The claims of p whose machines its test uses.
InUse(p) ==
  {c \in Range(proc[p].open) : c # Top(p) \/ proc[p].at \in {"use", "claim"}}

\* A machine in use is the one the process made: nobody else purges it,
\* registers another one under its name or exchanges its disk
\* (claimed_port_range(), purge(), prepare()).
OwnMachine ==
  \A p \in Processes : \A c \in InUse(p) :
    LET s == claims[c].slot IN
      /\ machine[User(p)][s] = [registered |-> TRUE, running |-> TRUE, of |-> c]
      /\ disk[User(p)][s] = c

\* Of two machines that run on the same ports, under different accounts whose
\* ranges overlap, one was left behind by a process that died or by a purge
\* that failed (claimed_port_range()).
PortsAreOwn ==
  \A u, v \in Users : \A s \in Slots :
    u # v /\ machine[u][s].running /\ machine[v][s].running
      => claims[machine[u][s].of].left \/ claims[machine[v][s].of].left

\* What is not in use any more is gone, unless its purge failed or its process
\* was killed (_vm_registered()).
NothingIsLeft ==
  \A u \in Users : \A s \in Slots : \A c \in Claims :
    machine[u][s].of = c \/ disk[u][s] = c
      => claims[c].left \/ \E p \in Processes : c \in Range(proc[p].open)

\* A process that has prepared its account does not meet the machines of
\* another process there (prepare()).
NoForeignMachines ==
  \A p \in Processes :
    proc[p].at \notin {"start", "terminate", "settings", "folder", "ended"} =>
      \A s \in Slots : machine[User(p)][s].of # NoClaim => claims[machine[User(p)][s].of].by = p

\* The parent is in the media registry when the disk is made, although it was
\* entered before the slot was purged, which takes parents out, unless the
\* process itself left something behind (vm_locked(), purge()).
ParentStays ==
  \A p \in Processes :
    proc[p].at = "create" /\ (\A c \in Claims : claims[c].by = p => ~claims[c].left) => ParentIsKnown(p)

\* The promises to a test: the machines it uses are its own, with their ports and
\* disks, and what it has used is gone.
Safety ==
  /\ TypeOK
  /\ OwnMachine
  /\ PortsAreOwn
  /\ NothingIsLeft
  /\ NoForeignMachines
  /\ ParentStays
=============================================================================
