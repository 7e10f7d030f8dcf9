------------------------------ MODULE Download ------------------------------
(***************************************************************************)
(* The cache of downloaded files that the scripts of one host share        *)
(* (directories/prerequisites/_download.py, directories/filelocker).  A    *)
(* script locks a file beside the destination, lets curl fetch or resume a *)
(* temporary file, compares its checksum when the server has one, and      *)
(* renames it.  The lock, the temporary file and the destination are plain *)
(* files of a directory that the clean-up (directories/_cleanup.py) scans. *)
(*                                                                         *)
(* A path leads to an inode, 0 when there is no file.  What a process has  *)
(* open is the inode: an unlinked lock stays locked and a renamed file is  *)
(* still written to.  A chunk of a file is the pair of file and position.  *)
(* curl is external: it asks for what follows the size of the file it      *)
(* finds, and opens it for appending then, or for writing from the start.  *)
(***************************************************************************)
EXTENDS Naturals, Sequences, SequencesExt

CONSTANTS
  Scripts,     \* processes that download
  Files,       \* resources, each with a destination
  WithMd5,     \* those whose checksum the server has
  SameStem,    \* TRUE when their names differ in the suffix only
  Size,        \* chunks of a file
  Inodes,      \* bound: inodes in use at a time
  FaultKinds,  \* the faults of the instance
  MaxFaults    \* bound: faults

ConstantsAssumption ==
  /\ WithMd5 \subseteq Files /\ SameStem \in BOOLEAN /\ Size \in Nat \ {0}
  /\ Inodes \subseteq Nat \ {0} /\ MaxFaults \in Nat /\ "left" \notin Scripts
  /\ FaultKinds \subseteq {"fail", "reboot", "leave", "destination", "any"}

VARIABLES
  pc,      \* step of each script
  want,    \* the file of its call
  fd,      \* the lock it has open, 0 when none
  curl,    \* the curl process of each script, and Left: one whose script is gone
  path,    \* inode of each path
  data,    \* content of each inode
  faults   \* faults so far

vars == <<pc, want, fd, curl, path, data, faults>>

Left == "left"
Curls == Scripts \cup {Left}
NoCurl == [state |-> "none"]
Transfers ==
  {NoCurl} \cup [state : {"ok", "failed"}]
    \cup [state : {"running"}, file : Files, next : Nat \ {0}, append : BOOLEAN, inode : Inodes \cup {0}]

Lock(f) == <<"lock", f>>
Dest(f) == <<"dest", f>>

\* with_suffix('.download') replaces the suffix of the name.
Tmp(f) == IF SameStem THEN <<"tmp">> ELSE <<"tmp", f>>

Paths == {Lock(f) : f \in Files} \cup {Dest(f) : f \in Files} \cup {Tmp(f) : f \in Files}
Whole(f) == [i \in 1 .. Size |-> <<f, i>>]
Hole == <<>>
Chunks == (Files \X (1 .. Size)) \cup {Hole}

Running(c) == curl[c].state = "running"
Used == Range(path) \cup Range(fd) \cup {curl[c].inode : c \in {d \in Curls : Running(d)}}
Room == \E i \in Inodes : i \notin Used
Fresh == CHOOSE i \in Inodes : i \notin Used

Init ==
  /\ pc = [s \in Scripts |-> "idle"] /\ want \in [Scripts -> Files]
  /\ fd = [s \in Scripts |-> 0]
  /\ curl = [c \in Curls |-> NoCurl]
  /\ path = [p \in Paths |-> 0] /\ data = [i \in Inodes |-> <<>>]
  /\ faults = 0

Fault(kind) == kind \in FaultKinds /\ faults < MaxFaults /\ faults' = faults + 1

\* The call returns or raises; the lock is closed in both cases.
End(s) == pc' = [pc EXCEPT ![s] = "idle"] /\ fd' = [fd EXCEPT ![s] = 0]

GoTo(s, step) == pc' = [pc EXCEPT ![s] = step] /\ UNCHANGED fd

----------------------------------------------------------------------------
(* concurrent_safe_download() *)

Call(s) ==
  /\ pc[s] = "idle"
  /\ want' \in {[want EXCEPT ![s] = f] : f \in Files}
  /\ GoTo(s, "touch")
  /\ UNCHANGED <<curl, path, data, faults>>

\* Each attempt creates the lock file when it is missing.
Touch(s) ==
  /\ pc[s] = "touch"
  /\ IF path[Lock(want[s])] = 0
     THEN /\ Room
          /\ path' = [path EXCEPT ![Lock(want[s])] = Fresh] /\ data' = [data EXCEPT ![Fresh] = <<>>]
     ELSE UNCHANGED <<path, data>>
  /\ GoTo(s, "open")
  /\ UNCHANGED <<want, curl, faults>>

Held(i) == i \in Range(fd)

\* Faulty variant of LockFile: the lock is a shared one.
LockShared(s) ==
  /\ pc[s] = "open"
  /\ LET i == path[Lock(want[s])]
     IN IF i = 0 THEN End(s)
        ELSE pc' = [pc EXCEPT ![s] = "locked"] /\ fd' = [fd EXCEPT ![s] = i]
  /\ UNCHANGED <<want, curl, path, data, faults>>

\* The file is opened, which fails when it has been deleted, and locked; when
\* another script has locked it there is a delay and another attempt.
LockFile(s) ==
  /\ pc[s] = "open"
  /\ LET i == path[Lock(want[s])]
     IN IF i = 0 THEN End(s)
        ELSE IF Held(i) THEN GoTo(s, "touch")
        ELSE pc' = [pc EXCEPT ![s] = "locked"] /\ fd' = [fd EXCEPT ![s] = i]
  /\ UNCHANGED <<want, curl, path, data, faults>>

\* Faulty variant of GiveUp: the lock is waited for without an end.
NeverGiveUp(s) == pc[s] = "never" /\ UNCHANGED vars

\* AlreadyLocked: the time for the lock is over.
GiveUp(s) ==
  /\ pc[s] = "open" /\ path[Lock(want[s])] # 0 /\ Held(path[Lock(want[s])])
  /\ End(s)
  /\ UNCHANGED <<want, curl, path, data, faults>>

\* Faulty variant of StartCurl: without --continue-at.
StartOver(s) ==
  curl' = [curl EXCEPT ![s] = [state |-> "running", file |-> want[s], next |-> 1,
                               append |-> FALSE, inode |-> 0]]

\* --continue-at - : the size of the temporary file is where to go on.
StartCurl(s) ==
  LET i == path[Tmp(want[s])]
      size == IF i = 0 THEN 0 ELSE Len(data[i])
  IN curl' = [curl EXCEPT ![s] = [state |-> "running", file |-> want[s], next |-> size + 1,
                                  append |-> size > 0, inode |-> 0]]

CheckExists(s) ==
  /\ pc[s] = "locked"
  /\ IF path[Dest(want[s])] # 0 THEN End(s) /\ UNCHANGED curl
     ELSE GoTo(s, "curl") /\ StartCurl(s)
  /\ UNCHANGED <<want, path, data, faults>>

\* CurlProcess.wait() finds an exit code.
CurlExited(s) ==
  /\ pc[s] = "curl" /\ ~Running(s)
  /\ IF curl[s].state = "failed" THEN End(s)
     ELSE GoTo(s, "check")
  /\ curl' = [curl EXCEPT ![s] = NoCurl]
  /\ UNCHANGED <<want, path, data, faults>>

\* The checksum of the temporary file, when there is one to compare; the file
\* is unlinked when it differs.
Check(s) ==
  /\ pc[s] = "check"
  /\ LET p == Tmp(want[s])
     IN IF want[s] \notin WithMd5 \/ (path[p] # 0 /\ data[path[p]] = Whole(want[s]))
        THEN GoTo(s, "replace") /\ UNCHANGED path
        ELSE End(s) /\ path' = [path EXCEPT ![p] = 0]
  /\ UNCHANGED <<want, curl, data, faults>>

\* The checksum cannot be requested.
CheckFails(s) ==
  /\ pc[s] = "check" /\ Fault("fail")
  /\ End(s)
  /\ UNCHANGED <<want, curl, path, data>>

\* tmp_file.replace(destination); the file may have been deleted.
Replace(s) ==
  /\ pc[s] = "replace"
  /\ LET p == Tmp(want[s])
     IN path' = IF path[p] = 0 THEN path
                ELSE [path EXCEPT ![Dest(want[s])] = path[p], ![p] = 0]
  /\ End(s)
  /\ UNCHANGED <<want, curl, data, faults>>

Step(s) == Touch(s) \/ LockFile(s) \/ CheckExists(s) \/ CurlExited(s) \/ Check(s) \/ Replace(s)

----------------------------------------------------------------------------
(* curl *)

\* Data begin to arrive: the output file is opened by its name.
CurlOpens(c) ==
  /\ Running(c) /\ curl[c].inode = 0 /\ curl[c].next <= Size
  /\ LET p == Tmp(curl[c].file)
         i == IF path[p] = 0 THEN Fresh ELSE path[p]
         kept == IF path[p] # 0 /\ curl[c].append THEN data[i] ELSE <<>>
     IN /\ path[p] = 0 => Room
        /\ path' = [path EXCEPT ![p] = i]
        /\ data' = [data EXCEPT ![i] = kept]
        /\ curl' = [curl EXCEPT ![c].inode = i]
  /\ UNCHANGED <<pc, want, fd, faults>>

\* The content of an inode after a chunk has been written at its position.
WrittenAt(content, n, chunk) ==
  [i \in 1 .. IF Len(content) < n THEN n ELSE Len(content) |->
     IF i = n THEN chunk ELSE IF i <= Len(content) THEN content[i] ELSE Hole]

CurlWrites(c) ==
  /\ Running(c) /\ curl[c].inode # 0 /\ curl[c].next <= Size
  /\ LET i == curl[c].inode
         chunk == <<curl[c].file, curl[c].next>>
     IN data' = [data EXCEPT ![i] = IF curl[c].append THEN Append(@, chunk)
                                    ELSE WrittenAt(@, curl[c].next, chunk)]
  /\ curl' = [curl EXCEPT ![c].next = @ + 1]
  /\ UNCHANGED <<pc, want, fd, path, faults>>

\* Nothing is left to fetch, or nothing was: a range beyond the end is no error.
CurlEnds(c) ==
  /\ Running(c) /\ curl[c].next > Size
  /\ curl' = [curl EXCEPT ![c] = IF c = Left THEN NoCurl ELSE [state |-> "ok"]]
  /\ UNCHANGED <<pc, want, fd, path, data, faults>>

\* The connection breaks, or the server refuses.
CurlFails(c) ==
  /\ Running(c) /\ Fault("fail")
  /\ curl' = [curl EXCEPT ![c] = IF c = Left THEN NoCurl ELSE [state |-> "failed"]]
  /\ UNCHANGED <<pc, want, fd, path, data>>

CurlStep(c) == CurlOpens(c) \/ CurlWrites(c) \/ CurlEnds(c)

----------------------------------------------------------------------------
(* Faults *)

\* The host is restarted: files stay.
Reboot ==
  /\ Fault("reboot")
  /\ pc' = [s \in Scripts |-> "idle"] /\ fd' = [s \in Scripts |-> 0]
  /\ curl' = [c \in Curls |-> NoCurl]
  /\ UNCHANGED <<want, path, data>>

\* TimeoutError leaves CurlProcess.wait() while curl runs, or the script alone
\* is killed; the bound is one such curl at a time.
LeaveCurl(s) ==
  /\ pc[s] = "curl" /\ Running(s) /\ ~Running(Left) /\ Fault("leave")
  /\ End(s)
  /\ curl' = [curl EXCEPT ![Left] = curl[s], ![s] = NoCurl]
  /\ UNCHANGED <<want, path, data>>

\* The clean-up unlinks the destination, or any file of the directory.
CleanUp(p) ==
  /\ path[p] # 0
  /\ Fault("any") \/ (p[1] = "dest" /\ Fault("destination"))
  /\ path' = [path EXCEPT ![p] = 0]
  /\ UNCHANGED <<pc, want, fd, curl, data>>

Next ==
  \/ \E s \in Scripts : Call(s) \/ Step(s) \/ GiveUp(s) \/ CheckFails(s) \/ LeaveCurl(s)
  \/ \E c \in Curls : CurlStep(c) \/ CurlFails(c)
  \/ Reboot
  \/ \E p \in Paths : CleanUp(p)

Spec == Init /\ [][Next]_vars

\* Scripts and transfers go on; the time for a lock runs out sooner or later.
FairSpec ==
  /\ Spec
  /\ \A s \in Scripts : WF_vars(Step(s)) /\ SF_vars(GiveUp(s))
  /\ \A c \in Curls : WF_vars(CurlStep(c))

----------------------------------------------------------------------------
(* Properties *)

\* The state is well-formed, and a script has a curl only in its step.
TypeOK ==
  /\ pc \in [Scripts -> {"idle", "touch", "open", "locked", "curl", "check", "replace"}]
  /\ want \in [Scripts -> Files]
  /\ fd \in [Scripts -> Inodes \cup {0}] /\ path \in [Paths -> Inodes \cup {0}]
  /\ data \in [Inodes -> Seq(Chunks)]
  /\ curl \in [Curls -> Transfers]
  /\ \A s \in Scripts : curl[s].state # "none" <=> pc[s] = "curl"
  /\ \A s \in Scripts : fd[s] # 0 <=> pc[s] \in {"locked", "curl", "check", "replace"}
  /\ faults \in 0 .. MaxFaults

\* What concurrent_safe_download() returns has the content of the source:
\* a destination is complete from the moment it exists, whatever was
\* interrupted before, with a checksum or without one.
DestinationIsWhole ==
  \A f \in Files : path[Dest(f)] # 0 => data[path[Dest(f)]] = Whole(f)

\* wait_locked_exclusively(): no two scripts are past the lock of one file,
\* though each creates the lock file for itself.
MutualExclusion ==
  \A s, t \in Scripts : s # t /\ fd[s] # 0 /\ fd[t] # 0 => want[s] # want[t]

\* No two transfers write to one temporary file.
OneTransfer ==
  \A c, d \in Curls : c # d /\ Running(c) /\ Running(d) => Tmp(curl[c].file) # Tmp(curl[d].file)

\* A temporary file only grows, until it becomes the destination.
Kept(f) ==
  LET before == path[Tmp(f)]
      after == path'[Tmp(f)]
  IN before # 0 =>
       \/ after = before /\ Len(data'[after]) >= Len(data[before])
       \/ path'[Dest(f)] = before

\* What has been fetched is not fetched again, over failures and restarts.
NothingIsFetchedTwice == [][\A f \in Files : Kept(f)]_vars

\* A call ends, however often the lock was taken by others.
CallEnds == \A s \in Scripts : pc[s] = "touch" ~> pc[s] = "idle"

\* The promises of the cache: a destination is complete, and one script at a time
\* works on a file, with one transfer.
Safety ==
  /\ TypeOK
  /\ DestinationIsWhole
  /\ MutualExclusion
  /\ OneTransfer
=============================================================================
