------------------------------ MODULE CleanUp -------------------------------
(***************************************************************************)
(* The clean-up of artifacts and caches on one host (directories/          *)
(* _cleanup.py, _rate_limit.py).  Tests spawn clean-up processes; one that *)
(* gets the lock and finds the last run long ago becomes the leader,       *)
(* writes the time into the timestamp file and lets the lock go.  Then it  *)
(* lists the files, oldest use first, and deletes from the front until     *)
(* half as much again as was taken since the last run is free, or the      *)
(* excess over the target.  Meanwhile tests go on to write and read files. *)
(***************************************************************************)
EXTENDS Integers, Sequences, FiniteSets, SequencesExt

CONSTANTS
  Processes,  \* clean-up processes
  Files,      \* paths in the directories
  SizeOf,     \* function: size of each file
  Target,     \* target size
  Period,     \* minimal time between two runs (600 seconds)
  Slow,       \* TRUE when a run may be longer than the period
  MaxTime,    \* bound: time
  MaxKills    \* bound: processes that are killed

ConstantsAssumption ==
  /\ SizeOf \in [Files -> Nat] /\ Target \in Nat /\ Period \in Nat \ {0}
  /\ Slow \in BOOLEAN /\ MaxTime \in Nat /\ MaxKills \in Nat

VARIABLES
  now,       \* time
  stamp,     \* content of the timestamp file: a time, or Torn
  lock,      \* holders of the lock of the timestamp file
  pc,        \* step of each process
  last,      \* last_cleanup_at of each process
  started,   \* when the latest leader became one
  listing,   \* files it has listed and not handled yet
  space,     \* what it still has to free
  modified,  \* time of modification of each file, Absent when there is none
  used,      \* time of use of each file
  kills,     \* kills so far
  torn       \* a leader was killed while it wrote the timestamp

vars == <<now, stamp, lock, pc, last, started, listing, space, modified, used, kills, torn>>
files == <<modified, used>>
work == <<listing, space>>

Torn == -100
Absent == -1

Present == {f \in Files : modified[f] # Absent}
Sum(S) == FoldSet(LAMBDA f, sum : SizeOf[f] + sum, 0, S)
Occupied == Sum(Present)
Cleaning(p) == pc[p] \in {"list", "delete"}

Init ==
  /\ now = 0 /\ stamp = Torn /\ lock = {}
  /\ pc = [p \in Processes |-> "none"] /\ last = [p \in Processes |-> 0]
  /\ started = Torn
  /\ listing = [p \in Processes |-> <<>>] /\ space = [p \in Processes |-> 0]
  /\ modified = [f \in Files |-> Absent] /\ used = [f \in Files |-> Absent]
  /\ kills = 0 /\ torn = FALSE

\* What is not a time, because a write is not finished or never was, is read as
\* a run a little longer ago than the period.
LastRun == IF stamp = Torn THEN now - Period - 1 ELSE stamp

----------------------------------------------------------------------------
(* Tests *)

Tick ==
  /\ now < MaxTime /\ now' = now + 1
  /\ Slow \/ \A p \in Processes : Cleaning(p) => now < started + Period - 1
  /\ UNCHANGED <<stamp, lock, pc, last, started, work, files, kills, torn>>

WriteFile(f) ==
  /\ modified' = [modified EXCEPT ![f] = now] /\ used' = [used EXCEPT ![f] = now]
  /\ UNCHANGED <<now, stamp, lock, pc, last, started, work, kills, torn>>

ReadFile(f) ==
  /\ f \in Present /\ used' = [used EXCEPT ![f] = now]
  /\ UNCHANGED <<now, stamp, lock, pc, last, started, work, modified, kills, torn>>

\* run_is_allowed() reads without the lock.
Spawn(p) ==
  /\ pc[p] = "none" /\ now - LastRun > Period
  /\ pc' = [pc EXCEPT ![p] = "spawned"]
  /\ UNCHANGED <<now, stamp, lock, last, started, work, files, kills, torn>>

----------------------------------------------------------------------------
(* The clean-up process *)

\* The process that does not get the lock exits.
TryLock(p) ==
  /\ pc[p] = "spawned"
  /\ IF lock = {} THEN pc' = [pc EXCEPT ![p] = "locked"] /\ lock' = {p}
     ELSE pc' = [pc EXCEPT ![p] = "none"] /\ UNCHANGED lock
  /\ UNCHANGED <<now, stamp, last, started, work, files, kills, torn>>

\* Faulty variant of CheckLastRun: what run_is_allowed() read is relied upon.
NoCheck(p) ==
  /\ pc[p] = "locked"
  /\ pc' = [pc EXCEPT ![p] = "stamp"] /\ last' = [last EXCEPT ![p] = LastRun]
  /\ stamp' = Torn
  /\ UNCHANGED <<now, lock, started, work, files, kills, torn>>

\* The time of the last run once more, under the lock; write_text() truncates
\* the file.
CheckLastRun(p) ==
  /\ pc[p] = "locked"
  /\ IF now - LastRun < Period
     THEN /\ pc' = [pc EXCEPT ![p] = "none"] /\ lock' = lock \ {p}
          /\ UNCHANGED <<stamp, last>>
     ELSE /\ pc' = [pc EXCEPT ![p] = "stamp"] /\ last' = [last EXCEPT ![p] = LastRun]
          /\ stamp' = Torn /\ UNCHANGED lock
  /\ UNCHANGED <<now, started, work, files, kills, torn>>

BecomeLeader(p) ==
  /\ pc[p] = "stamp"
  /\ stamp' = now /\ started' = now /\ torn' = FALSE
  /\ lock' = lock \ {p} /\ pc' = [pc EXCEPT ![p] = "list"]
  /\ UNCHANGED <<now, last, work, files, kills>>

ToFree(p) ==
  LET taken == Sum({f \in Present : modified[f] > last[p]})
      excess == IF Occupied > Target THEN Occupied - Target ELSE 0
  IN IF (taken * 3) \div 2 < excess THEN (taken * 3) \div 2 ELSE excess

List(p) ==
  /\ pc[p] = "list"
  /\ \E order \in SetToSeqs(Present) :
       /\ \A i, j \in DOMAIN order : i < j => used[order[i]] <= used[order[j]]
       /\ listing' = [listing EXCEPT ![p] = order]
  /\ space' = [space EXCEPT ![p] = ToFree(p)]
  /\ pc' = [pc EXCEPT ![p] = "delete"]
  /\ UNCHANGED <<now, stamp, lock, last, started, files, kills, torn>>

\* Entries whose deletion fails are skipped; those that are gone count.
Delete(p) ==
  /\ pc[p] = "delete" /\ listing[p] # <<>> /\ space[p] > 0
  /\ listing' = [listing EXCEPT ![p] = Tail(@)]
  /\ LET f == Head(listing[p])
     IN \/ /\ modified' = [modified EXCEPT ![f] = Absent]
           /\ used' = [used EXCEPT ![f] = Absent]
           /\ space' = [space EXCEPT ![p] = @ - SizeOf[f]]
        \/ f \in Present /\ UNCHANGED <<files, space>>
  /\ UNCHANGED <<now, stamp, lock, pc, last, started, kills, torn>>

Exit(p) ==
  /\ pc' = [pc EXCEPT ![p] = "none"] /\ lock' = lock \ {p}
  /\ last' = [last EXCEPT ![p] = 0]
  /\ listing' = [listing EXCEPT ![p] = <<>>] /\ space' = [space EXCEPT ![p] = 0]

Finish(p) ==
  /\ pc[p] = "delete" /\ (listing[p] = <<>> \/ space[p] <= 0)
  /\ Exit(p)
  /\ UNCHANGED <<now, stamp, started, files, kills, torn>>

Kill(p) ==
  /\ pc[p] # "none" /\ kills < MaxKills
  /\ kills' = kills + 1
  /\ torn' = (torn \/ pc[p] = "stamp")
  /\ Exit(p)
  /\ UNCHANGED <<now, stamp, started, files>>

Step(p) ==
  TryLock(p) \/ CheckLastRun(p) \/ BecomeLeader(p) \/ List(p) \/ Delete(p) \/ Finish(p)

Next ==
  \/ Tick
  \/ \E f \in Files : WriteFile(f) \/ ReadFile(f)
  \/ \E p \in Processes : Spawn(p) \/ Step(p) \/ Kill(p)

Spec == Init /\ [][Next]_vars

----------------------------------------------------------------------------
(* Properties *)

\* The state is well-formed; a timestamp is missing only before the first run,
\* while it is being written, and after a kill at that point.
TypeOK ==
  /\ now \in 0 .. MaxTime /\ stamp \in 0 .. MaxTime \cup {Torn}
  /\ pc \in [Processes -> {"none", "spawned", "locked", "stamp", "list", "delete"}]
  /\ lock = {p \in Processes : pc[p] \in {"locked", "stamp"}} /\ Cardinality(lock) <= 1
  /\ modified \in [Files -> Absent .. MaxTime] /\ used \in [Files -> Absent .. MaxTime]
  /\ \A f \in Files : modified[f] <= used[f]
  /\ kills \in 0 .. MaxKills

BeginsEarly(p) ==
  pc[p] = "stamp" /\ pc'[p] = "list" /\ ~torn /\ now < started + Period

DeletesTooMuch ==
  /\ Sum({f \in Files : modified'[f] # Absent}) < Occupied
  /\ Occupied <= Target

\* become_leader(): two runs begin a period apart, however many processes were
\* let in by the reading without a lock; only the kill of a leader that writes
\* the timestamp lets the next one in early.  A run stops at the target: what it
\* deletes while tests write and read takes the occupied space below the target
\* by less than one file.
RunsAreMeasured ==
  [][~DeletesTooMuch /\ \A p \in Processes : ~BeginsEarly(p)]_vars
=============================================================================
