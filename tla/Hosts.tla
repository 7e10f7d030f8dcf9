------------------------------- MODULE Hosts --------------------------------
(***************************************************************************)
(* What scripts and machines of a host share: the virtual machines and     *)
(* their names and ports, the cache of downloaded files, and the sessions  *)
(* of the iSCSI target.  A behaviour chooses one part at its start and     *)
(* only that part moves, so that the states of the parts are added and not *)
(* multiplied.                                                             *)
(***************************************************************************)
EXTENDS Naturals, Sequences

CONSTANTS
  Subjects,    \* the parts that a run looks at
  \* IscsiSession
  Tags, TmfTag, Lbas, MaxConn, MaxWrite, Parts, Burst,
  FirstTag, FirstLba,  \* of the first write, or of all of them
  \* Download
  Scripts, Files, WithMd5, Size, Inodes, MaxFaults,
  FirstFile,   \* the one that all scripts are after
  \* VirtualMachines
  Processes, Users, Slots, SlotsOf, Snapshots, MaxNested, MaxClaims, MaxBoxFaults,
  None

VARIABLES
  subject,  \* the part that moves
  \* IscsiSession
  state, nexus, reads, tasks, running, exp, ping, disk, up, down, peer, issued, waits,
  tmf, acked, aborted,
  \* Download
  pc, want, fd, curl, path, data, faults,
  \* VirtualMachines
  userLock, slotLock, machine, boxDisk, media, claims, proc, boxFaults

Iscsi == INSTANCE IscsiSession WITH Functions <- {"abort", "reset"}, Overlap <- FALSE

Cache == INSTANCE Download WITH
  SameStem <- FALSE, FaultKinds <- {"fail", "reboot", "leave", "destination", "any"}

Boxes == INSTANCE VirtualMachines WITH
  NoOne <- None, MaxFaults <- MaxBoxFaults, disk <- boxDisk, faults <- boxFaults

ASSUME PartsAssumption ==
  /\ Subjects \subseteq {"writes", "logins", "resets", "downloads", "one file", "machines"}
  /\ Iscsi!ConstantsAssumption
  /\ Cache!ConstantsAssumption
  /\ FirstFile \in Files
  /\ Boxes!ConstantsAssumption

sessionVars ==
  <<state, nexus, reads, tasks, running, exp, ping, disk, up, down, peer, issued, waits,
    tmf, acked, aborted>>
downloadVars == <<pc, want, fd, curl, path, data, faults>>
boxVars == <<userLock, slotLock, machine, boxDisk, media, claims, proc, boxFaults>>
vars == <<subject, sessionVars, downloadVars, boxVars>>

Init ==
  /\ subject \in Subjects
  /\ Iscsi!Init
  /\ Cache!Init
  /\ subject # "downloads" => want = [s \in Scripts |-> FirstFile]
  /\ Boxes!Init

OneConnection == \A c \in Iscsi!Conns : c # 1 => peer'[c] = "none"
OneLittleWrite ==
  \A w \in DOMAIN issued' :
    issued'[w].tag = FirstTag /\ issued'[w].lba = FirstLba /\ issued'[w].len <= 2
NoReset == \A c \in Iscsi!Conns : \A i \in DOMAIN up'[c] : up'[c][i].op # "reset"

\* Nobody leaves a curl behind, and the clean-up takes destinations only.
Careful ==
  /\ \A s \in Scripts : ~Cache!LeaveCurl(s)
  /\ \A f \in Files : ~Cache!CleanUp(Cache!Lock(f)) /\ ~Cache!CleanUp(Cache!Tmp(f))

Next ==
  \* writes of several parts at a time; the tags and the places are alike
  \/ /\ subject = "writes"
     /\ Iscsi!Next
     /\ OneConnection /\ NoReset
     /\ issued' # <<>> => issued'[1].tag = FirstTag /\ issued'[1].lba = FirstLba
     /\ UNCHANGED <<subject, downloadVars, boxVars>>
  \* the initiator logs in again
  \/ /\ subject = "logins"
     /\ Iscsi!Next
     /\ OneLittleWrite /\ NoReset
     /\ UNCHANGED <<subject, downloadVars, boxVars>>
  \* resets as well: data for a task that the target has not ended, or no longer has
  \/ /\ subject = "resets"
     /\ Iscsi!Next
     /\ OneConnection /\ OneLittleWrite
     /\ UNCHANGED <<subject, downloadVars, boxVars>>
  \/ /\ subject = "downloads"
     /\ Cache!Next
     /\ Careful
     /\ UNCHANGED <<subject, sessionVars, boxVars>>
  \* every fault, while the scripts are after one file
  \/ /\ subject = "one file"
     /\ Cache!Next
     /\ want' = want
     /\ UNCHANGED <<subject, sessionVars, boxVars>>
  \/ /\ subject = "machines"
     /\ Boxes!Next
     /\ UNCHANGED <<subject, sessionVars, downloadVars>>
  \* all connections and machines have ended; scripts download again and again
  \/ /\ subject \in {"writes", "logins", "resets", "machines"}
     /\ UNCHANGED vars

Spec == Init /\ [][Next]_vars

\* The fairness of each part, as its own FairSpec states it.
FairSpec ==
  /\ Spec
  /\ WF_sessionVars(subject = "resets" /\ Iscsi!Handle(1))
  /\ WF_sessionVars(subject = "resets" /\ Iscsi!Worker(1))
  /\ WF_sessionVars(subject = "resets" /\ Iscsi!Receive(1))
  /\ WF_sessionVars(subject = "resets" /\ Iscsi!SeeClosed(1))
  /\ \A s \in Scripts :
       /\ WF_downloadVars(subject = "one file" /\ Cache!Step(s))
       /\ SF_downloadVars(subject = "one file" /\ Cache!GiveUp(s))
  /\ \A c \in Cache!Curls : WF_downloadVars(subject = "one file" /\ Cache!CurlStep(c))

---------------------------------------------------------------------------
(***************************************************************************)
(* Properties: those of the parts, of the behaviours in which they move    *)
(***************************************************************************)

\* A write that was acknowledged is on the disk: data and responses refer to the
\* write that they belong to, though tags are used again, and commands have the
\* numbers that the target counts in two places (iscsid.go).
SessionSafety ==
  /\ subject \in {"writes", "logins"} => Iscsi!Safety
  /\ subject = "resets" => Iscsi!TypeOK /\ Iscsi!NumberIsExpected

\* Nothing is written for a write whose abortion was confirmed.
AbortedIsNotWritten ==
  [][(subject \in {"writes", "logins"}) =>
       \A p \in Iscsi!Places : Iscsi!WrittenAs(p) \notin aborted]_vars

\* Every write is answered, aborted, or fails with its connection, also when
\* nobody reads the connection any more, and the target gives up a connection
\* whose machine has left.
EverythingEnds == subject = "resets" => Iscsi!EverythingEnds

\* What concurrent_safe_download() returns is the file of the server, whatever was
\* interrupted, and one script with one transfer works on it at a time.
DownloadSafety ==
  /\ subject = "downloads" => Cache!Safety
  /\ subject = "one file" => Cache!TypeOK

\* What has been fetched is not fetched again, over failures and restarts.
NothingIsFetchedTwice == [][subject = "downloads" => \A f \in Files : Cache!Kept(f)]_vars

\* A call ends, however often the lock was taken by others.
CallEnds == subject = "one file" => Cache!CallEnds

\* A machine in use is the one its process made, with its ports and its disk, and
\* what is not in use is gone, unless its purge failed or its process was killed
\* (claimed_port_range(), purge(), prepare()).
HostSafety == subject = "machines" => Boxes!Safety
=============================================================================
