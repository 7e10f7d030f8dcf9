----------------------------- MODULE MachineDisk -----------------------------
(***************************************************************************)
(* The disk of an ARM machine: its contractor (arms/snapshots.py,          *)
(* machines/machine.py) attaches a new image to the machine's iSCSI target *)
(* through the API of the daemon (qcow2target_api.py,                      *)
(* qcow2target/pkg/api), powers the machine by a switch, and in the end    *)
(* detaches the image and renames or removes it.  Contractors and the      *)
(* daemon are processes that can be killed and are started again.          *)
(* Machines and their switch are external; what a session is made of is    *)
(* IscsiSession, what becomes of image files is SnapshotStorage.           *)
(***************************************************************************)
EXTENDS Naturals, FiniteSets

CONSTANTS
  Machines,
  MaxImage,    \* bound on the images that are made
  MaxKill,     \* bound on the kills of contractors
  MaxLost,     \* bound on lost sessions and restarts of the daemon
  CloseFails,  \* closing an image may fail
  None         \* no image, nobody

ConstantsAssumption ==
  /\ IsFiniteSet(Machines)
  /\ {MaxImage, MaxKill, MaxLost} \subseteq Nat
  /\ CloseFails \in BOOLEAN
  /\ None \notin 0 .. MaxImage

Images == 1 .. MaxImage

VARIABLES
  pc,        \* where the contractor of a machine is
  goal,      \* boot, commit or rollback: what it does
  current,   \* its image
  met,       \* the parts of its asyncio.gather() that have ended
  file,      \* what the files of images are: none, pending, committed, ...
  port,      \* does the switch power the machine
  power,     \* of the machine: off, booting, running, halting, halted
  root,      \* the image that it has booted from
  dirty,     \* it has written what is not on the disk yet
  target,    \* does the daemon know the machine's target
  luns,      \* the images attached to it
  nexus,     \* has it a session
  inuse,     \* DevicesLock of the target was never unlocked
  hung,      \* the machine whose request holds apiLock for ever
  torn,      \* images of machines that lost power before their data was written
  lost,      \* images of machines that lost their session while they ran
  kills,
  losses

contractorVars == <<pc, goal, current, met, file, kills>>
machineVars == <<port, power, root, dirty, torn, lost, losses>>
daemonVars == <<target, luns, nexus, inuse, hung>>
vars == <<contractorVars, machineVars, daemonVars>>

Steps == {"looking", "stopping", "detaching", "attaching", "creating", "reattaching",
          "starting", "serving", "shutting", "cutting", "finishing", "down"}

TypeOK ==
  /\ pc \in [Machines -> Steps]
  /\ goal \in [Machines -> {"boot", "commit", "rollback"}]
  /\ current \in [Machines -> Images \union {None}]
  /\ met \in [Machines -> SUBSET {"disconnected", "down", "told"}]
  /\ file \in [Images -> {"none", "pending", "committed", "removed", "left"}]
  /\ port \in [Machines -> BOOLEAN]
  /\ power \in [Machines -> {"off", "booting", "running", "halting", "halted"}]
  /\ root \in [Machines -> Images \union {None}]
  /\ dirty \in [Machines -> BOOLEAN]
  /\ target \in [Machines -> BOOLEAN]
  /\ luns \in [Machines -> SUBSET Images]
  /\ nexus \in [Machines -> BOOLEAN]
  /\ inuse \subseteq Machines
  /\ hung \in Machines \union {None}
  /\ torn \union lost \subseteq Images
  /\ kills \in 0 .. MaxKill
  /\ losses \in 0 .. MaxLost
  /\ \A m \in Machines : pc[m] \in {"looking", "down"} <=> current[m] = None

Init ==
  /\ pc = [m \in Machines |-> "looking"]
  /\ goal = [m \in Machines |-> "boot"]
  /\ current = [m \in Machines |-> None]
  /\ met = [m \in Machines |-> {}]
  /\ file = [i \in Images |-> "none"]
  /\ port = [m \in Machines |-> FALSE]
  /\ power = [m \in Machines |-> "off"]
  /\ root = [m \in Machines |-> None]
  /\ dirty = [m \in Machines |-> FALSE]
  /\ target = [m \in Machines |-> FALSE]
  /\ luns = [m \in Machines |-> {}]
  /\ nexus = [m \in Machines |-> FALSE]
  /\ inuse = {}
  /\ hung = None
  /\ torn = {}
  /\ lost = {}
  /\ kills = 0
  /\ losses = 0

-----------------------------------------------------------------------------
(* The contractor *)

Goto(m, step) == pc' = [pc EXCEPT ![m] = step]

\* A contract is accepted: PendingSnapshot makes an image.
Take(m) ==
  /\ pc[m] = "looking"
  /\ \E i \in Images :
       /\ file[i] = "none" /\ \A j \in Images : j < i => file[j] # "none"
       /\ file' = [file EXCEPT ![i] = "pending"]
       /\ current' = [current EXCEPT ![m] = i]
  /\ Goto(m, "stopping")
  /\ goal' = [goal EXCEPT ![m] = "boot"]
  /\ met' = [met EXCEPT ![m] = {}]
  /\ UNCHANGED <<machineVars, daemonVars, kills>>

\* An exception, or a kill.  In serve() and in commit() it leads to the
\* rollback; elsewhere the process ends, and the image is left behind.
Fails(m) ==
  /\ IF pc[m] = "serving" \/ (goal[m] = "commit" /\ pc[m] \in {"shutting", "cutting", "detaching"})
     THEN /\ Goto(m, "stopping")
          /\ goal' = [goal EXCEPT ![m] = "rollback"]
          /\ UNCHANGED <<current, file>>
     ELSE /\ Goto(m, "down")
          /\ file' = [file EXCEPT ![current[m]] = "left"]
          /\ current' = [current EXCEPT ![m] = None]
          /\ UNCHANGED goal
  /\ met' = [met EXCEPT ![m] = {}]

\* wait_disconnected(): a target that does not exist has no session.
SeeDisconnected(m) ==
  /\ pc[m] \in {"stopping", "shutting"} /\ "disconnected" \notin met[m]
  /\ hung = None
  /\ ~nexus[m]
  /\ met' = [met EXCEPT ![m] = @ \union {"disconnected"}]
  /\ UNCHANGED <<pc, goal, current, file, kills, machineVars, daemonVars>>

WaitTimeout(m) ==
  /\ pc[m] \in {"stopping", "shutting"} /\ "disconnected" \notin met[m]
  /\ hung = None
  /\ nexus[m]
  /\ Fails(m)
  /\ UNCHANGED <<kills, machineVars, daemonVars>>

\* power_off(): the port is switched off, and polled until its link is down.
SwitchOff(m) ==
  /\ \/ pc[m] = "stopping" /\ "down" \notin met[m]
     \/ pc[m] = "cutting"
  /\ port[m]
  /\ port' = [port EXCEPT ![m] = FALSE]
  /\ UNCHANGED <<power, root, dirty, torn, lost, losses, contractorVars, daemonVars>>

\* Faulty: the switch has been told, so the machine is taken for off.
SeeDownAtOnce(m) ==
  /\ ~port[m]
  /\ \/ /\ pc[m] = "stopping" /\ "down" \notin met[m]
        /\ met' = [met EXCEPT ![m] = @ \union {"down"}]
        /\ UNCHANGED pc
     \/ /\ pc[m] = "cutting"
        /\ Goto(m, "detaching")
        /\ UNCHANGED met
  /\ UNCHANGED <<goal, current, file, kills, machineVars, daemonVars>>

SeeDown(m) ==
  /\ ~port[m] /\ power[m] = "off"
  /\ \/ /\ pc[m] = "stopping" /\ "down" \notin met[m]
        /\ met' = [met EXCEPT ![m] = @ \union {"down"}]
        /\ UNCHANGED pc
     \/ /\ pc[m] = "cutting"
        /\ Goto(m, "detaching")
        /\ UNCHANGED met
  /\ UNCHANGED <<goal, current, file, kills, machineVars, daemonVars>>

\* The switch does not answer, or the link is not down in six seconds.
SwitchFails(m) ==
  /\ \/ pc[m] = "stopping" /\ "down" \notin met[m]
     \/ pc[m] \in {"cutting", "starting"}
  /\ Fails(m)
  /\ UNCHANGED <<kills, machineVars, daemonVars>>

Stopped(m) ==
  /\ pc[m] = "stopping" /\ met[m] = {"disconnected", "down"}
  /\ Goto(m, "detaching")
  /\ UNCHANGED <<goal, current, met, file, kills, machineVars, daemonVars>>

\* shutdown(): the machine is told by SSH.
TellShutdown(m) ==
  /\ pc[m] = "shutting" /\ "told" \notin met[m]
  /\ power[m] = "running"
  /\ power' = [power EXCEPT ![m] = "halting"]
  /\ met' = [met EXCEPT ![m] = @ \union {"told"}]
  /\ UNCHANGED <<pc, goal, current, file, kills, port, root, dirty, torn, lost, losses, daemonVars>>

TellFails(m) ==
  /\ pc[m] = "shutting" /\ "told" \notin met[m]
  /\ Fails(m)
  /\ UNCHANGED <<kills, machineVars, daemonVars>>

ShutDown(m) ==
  /\ pc[m] = "shutting" /\ met[m] = {"disconnected", "told"}
  /\ Goto(m, "cutting")
  /\ UNCHANGED <<goal, current, met, file, kills, machineVars, daemonVars>>

AfterDetach(m) == Goto(m, IF goal[m] = "boot" THEN "attaching" ELSE "finishing")

\* CLEARTARGET: each image is closed.
Detach(m) ==
  /\ pc[m] = "detaching" /\ hung = None
  /\ ~nexus[m] /\ (m \notin inuse \/ luns[m] = {})
  /\ luns' = [luns EXCEPT ![m] = {}]
  /\ AfterDetach(m)
  /\ UNCHANGED <<goal, current, met, file, kills, target, nexus, inuse, hung, machineVars>>

DetachRefused(m) ==
  /\ pc[m] = "detaching" /\ hung = None
  /\ nexus[m]
  /\ Fails(m)
  /\ UNCHANGED <<kills, machineVars, daemonVars>>

\* Closing an image fails: DetachLun() returns the error, and does not unlock.
DetachFails(m) ==
  /\ pc[m] = "detaching" /\ hung = None
  /\ CloseFails /\ ~nexus[m] /\ luns[m] # {} /\ m \notin inuse
  /\ inuse' = inuse \union {m}
  /\ Fails(m)
  /\ UNCHANGED <<kills, target, luns, nexus, hung, machineVars>>

\* A request that waits for DevicesLock holds apiLock.
Hang(m) ==
  /\ hung = None /\ m \in inuse
  /\ \/ pc[m] = "detaching" /\ ~nexus[m] /\ luns[m] # {}
     \/ pc[m] \in {"attaching", "reattaching"} /\ target[m]
  /\ hung' = m
  /\ UNCHANGED <<target, luns, nexus, inuse, contractorVars, machineVars>>

\* Faulty: AddLun() does not unlock.
AttachLocks(m) ==
  /\ pc[m] \in {"attaching", "reattaching"} /\ hung = None
  /\ target[m] /\ m \notin inuse
  /\ luns' = [luns EXCEPT ![m] = @ \union {current[m]}]
  /\ inuse' = inuse \union {m}
  /\ Goto(m, "starting")
  /\ UNCHANGED <<goal, current, met, file, kills, target, nexus, hung, machineVars>>

\* ATTACH: the target must exist, and the image must open.
Attach(m) ==
  /\ pc[m] \in {"attaching", "reattaching"} /\ hung = None
  /\ target[m] /\ m \notin inuse
  /\ luns' = [luns EXCEPT ![m] = @ \union {current[m]}]
  /\ Goto(m, "starting")
  /\ UNCHANGED <<goal, current, met, file, kills, target, nexus, inuse, hung, machineVars>>

AttachFails(m) ==
  /\ pc[m] \in {"attaching", "creating", "reattaching"} /\ hung = None
  /\ Fails(m)
  /\ UNCHANGED <<kills, machineVars, daemonVars>>

AttachMissing(m) == pc[m] = "reattaching" /\ ~target[m] /\ AttachFails(m)

AttachToNone(m) ==
  /\ pc[m] = "attaching" /\ hung = None
  /\ ~target[m]
  /\ Goto(m, "creating")
  /\ UNCHANGED <<goal, current, met, file, kills, machineVars, daemonVars>>

AddTarget(m) ==
  /\ pc[m] = "creating" /\ hung = None
  /\ ~target[m]
  /\ target' = [target EXCEPT ![m] = TRUE]
  /\ Goto(m, "reattaching")
  /\ UNCHANGED <<goal, current, met, file, kills, luns, nexus, inuse, hung, machineVars>>

SwitchOn(m) ==
  /\ pc[m] = "starting"
  /\ port' = [port EXCEPT ![m] = TRUE]
  /\ Goto(m, "serving")
  /\ UNCHANGED <<goal, current, met, file, kills, power, root, dirty, torn, lost, losses, daemonVars>>

\* The contract is served: a commit, which its client asks for when it has used
\* the machine; the end of the contract, or an error.
Commit(m) ==
  /\ pc[m] = "serving" /\ power[m] = "running"
  /\ Goto(m, "shutting")
  /\ goal' = [goal EXCEPT ![m] = "commit"]
  /\ met' = [met EXCEPT ![m] = {}]
  /\ UNCHANGED <<current, file, kills, machineVars, daemonVars>>

Rollback(m) ==
  /\ pc[m] = "serving"
  /\ Fails(m)
  /\ UNCHANGED <<kills, machineVars, daemonVars>>

\* PendingSnapshot.commit() or rollback().
Finish(m) ==
  /\ pc[m] = "finishing"
  /\ file' = [file EXCEPT ![current[m]] = IF goal[m] = "commit" THEN "committed" ELSE "removed"]
  /\ current' = [current EXCEPT ![m] = None]
  /\ Goto(m, "looking")
  /\ UNCHANGED <<goal, met, kills, machineVars, daemonVars>>

Kill(m) ==
  /\ pc[m] \notin {"looking", "down"}
  /\ kills < MaxKill
  /\ kills' = kills + 1
  /\ Goto(m, "down")
  /\ file' = [file EXCEPT ![current[m]] = "left"]
  /\ current' = [current EXCEPT ![m] = None]
  /\ met' = [met EXCEPT ![m] = {}]
  /\ UNCHANGED <<goal, machineVars, daemonVars>>

Restart(m) ==
  /\ pc[m] = "down"
  /\ Goto(m, "looking")
  /\ UNCHANGED <<goal, current, met, file, kills, machineVars, daemonVars>>

-----------------------------------------------------------------------------
(* The machine, its switch and the daemon *)

PowerUp(m) ==
  /\ port[m] /\ power[m] = "off"
  /\ power' = [power EXCEPT ![m] = "booting"]
  /\ UNCHANGED <<port, root, dirty, torn, lost, losses, contractorVars, daemonVars>>

\* The machine loses power: its session stays until a ping is not answered.
PowerDown(m) ==
  /\ ~port[m] /\ power[m] # "off"
  /\ power' = [power EXCEPT ![m] = "off"]
  /\ torn' = IF dirty[m] THEN torn \union {root[m]} ELSE torn
  /\ dirty' = [dirty EXCEPT ![m] = FALSE]
  /\ root' = [root EXCEPT ![m] = None]
  /\ UNCHANGED <<port, lost, losses, contractorVars, daemonVars>>

LogIn(m) ==
  /\ power[m] = "booting" /\ target[m] /\ luns[m] # {}
  /\ power' = [power EXCEPT ![m] = "running"]
  /\ nexus' = [nexus EXCEPT ![m] = TRUE]
  /\ root' = [root EXCEPT ![m] = CHOOSE i \in luns[m] : \A j \in luns[m] : i <= j]
  /\ UNCHANGED <<port, dirty, torn, lost, losses, contractorVars, target, luns, inuse, hung>>

Write(m) ==
  /\ power[m] = "running"
  /\ dirty' = [dirty EXCEPT ![m] = TRUE]
  /\ UNCHANGED <<port, power, root, torn, lost, losses, contractorVars, daemonVars>>

\* The machine writes what it has to its disk, logs out and halts.
Halt(m) ==
  /\ power[m] = "halting" /\ nexus[m]
  /\ power' = [power EXCEPT ![m] = "halted"]
  /\ dirty' = [dirty EXCEPT ![m] = FALSE]
  /\ nexus' = [nexus EXCEPT ![m] = FALSE]
  /\ UNCHANGED <<port, root, torn, lost, losses, contractorVars, target, luns, inuse, hung>>

\* A running machine loses its session, and logs in again.
LoseSession(m) ==
  /\ power[m] \in {"running", "halting"} /\ nexus[m]
  /\ losses < MaxLost
  /\ losses' = losses + 1
  /\ nexus' = [nexus EXCEPT ![m] = FALSE]
  /\ lost' = lost \union {root[m]}
  /\ UNCHANGED <<port, power, root, dirty, torn, contractorVars, target, luns, inuse, hung>>

LogInAgain(m) ==
  /\ power[m] \in {"running", "halting"} /\ ~nexus[m]
  /\ target[m] /\ luns[m] # {}
  /\ nexus' = [nexus EXCEPT ![m] = TRUE]
  /\ UNCHANGED <<contractorVars, machineVars, target, luns, inuse, hung>>

PingTimeout(m) ==
  /\ nexus[m] /\ power[m] \in {"off", "booting"}
  /\ nexus' = [nexus EXCEPT ![m] = FALSE]
  /\ UNCHANGED <<contractorVars, machineVars, target, luns, inuse, hung>>

\* The daemon is killed and started again, without targets.
DaemonRestarts ==
  LET live == {m \in Machines : power[m] \in {"running", "halting"}}
  IN /\ losses < MaxLost
     /\ losses' = losses + 1
     /\ \E m \in Machines : target[m]
     /\ target' = [m \in Machines |-> FALSE]
     /\ luns' = [m \in Machines |-> {}]
     /\ nexus' = [m \in Machines |-> FALSE]
     /\ inuse' = {}
     /\ hung' = None
     /\ lost' = lost \union {root[m] : m \in live}
                     \union UNION {luns[m] : m \in Machines}
     /\ UNCHANGED <<contractorVars, port, power, root, dirty, torn>>

Contractor(m) ==
  \/ SeeDisconnected(m) \/ WaitTimeout(m) \/ SwitchOff(m) \/ SeeDown(m) \/ Stopped(m)
  \/ TellShutdown(m) \/ TellFails(m) \/ ShutDown(m)
  \/ Detach(m) \/ DetachRefused(m) \/ Hang(m) \/ Attach(m) \/ AttachMissing(m)
  \/ AttachToNone(m) \/ AddTarget(m)
  \/ SwitchOn(m) \/ Rollback(m) \/ Finish(m) \/ Restart(m)

MachineStep(m) == PowerUp(m) \/ PowerDown(m) \/ LogIn(m) \/ Halt(m) \/ PingTimeout(m)

Next ==
  \/ \E m \in Machines :
       \/ Take(m) \/ Contractor(m) \/ SwitchFails(m) \/ DetachFails(m) \/ AttachFails(m)
       \/ Commit(m) \/ Kill(m)
       \/ MachineStep(m) \/ Write(m) \/ LoseSession(m) \/ LogInAgain(m)
  \/ DaemonRestarts

Spec == Init /\ [][Next]_vars

\* Contractors go on: what they wait for happens or times out; machines lose
\* power when they are switched off.
FairSpec ==
  /\ Spec
  /\ \A m \in Machines : WF_vars(Contractor(m)) /\ WF_vars(MachineStep(m))

-----------------------------------------------------------------------------
(* Properties *)

\* An image that was committed has all that its machine wrote, unless the
\* session of the machine ended while it was running: a machine that has shut
\* down is told from one that goes on writing by its session alone.
CommittedIsComplete ==
  \A i \in Images : file[i] = "committed" /\ i \notin lost => i \notin torn

\* An image that was renamed or removed is not open in the daemon.
FinishedIsDetached ==
  \A i \in Images : file[i] \in {"committed", "removed"} =>
    \A m \in Machines : i \notin luns[m]

\* A machine that has a session writes to the image it has booted from, though
\* the next contract, after a kill, attaches another image to the same target.
OwnRoot ==
  \A m \in Machines :
    power[m] \in {"running", "halting"} /\ nexus[m] => luns[m] = {root[m]}

\* A contractor that serves a contract has the machine run from its image, or
\* start from it.
ServedFromOwnImage ==
  \A m \in Machines : pc[m] = "serving" =>
    /\ luns[m] \subseteq {current[m]}
    /\ root[m] \in {None, current[m]}

\* A contractor is done with its contract some time, and with it the machine is
\* free for another one.
ContractEnds ==
  \A m \in Machines : (pc[m] # "looking") ~> (pc[m] = "looking")

\* The promises about disks: a machine runs from the image of its contract, and an
\* image that is committed is complete and closed.
Safety ==
  /\ TypeOK
  /\ CommittedIsComplete
  /\ FinishedIsDetached
  /\ OwnRoot
  /\ ServedFromOwnImage
=============================================================================
