------------------------------ MODULE MCFiles -------------------------------
(***************************************************************************)
(* What stays on disks when processes end, for TLC: the image of an iSCSI  *)
(* disk, the directories that tests fill and the clean-up empties, and the *)
(* machines of Hosts.  A behaviour chooses one part at its start and only  *)
(* that part moves, so that the states of the parts are added and not      *)
(* multiplied.                                                             *)
(***************************************************************************)
EXTENDS MCHosts

CONSTANTS small, large, c1, c2

VARIABLES
  place,  \* the part that moves
  \* QcowImage
  file, image, queue, op, base, guest, safe, writes, crashes, torn,
  \* CleanUp
  now, stamp, lock, step, last, started, listing, space, modified, used, kills, tornStamp

\* Two L2 tables for a cache of one; 16 clusters of the file in four blocks, all in
\* the cache; two writes and a kill.
Image == INSTANCE QcowImage WITH
  L1Size <- 2, L2Size <- 2, Blocks <- 4, BlockSize <- 4, L2CacheSize <- 1,
  RefCacheSize <- 4, MaxWrites <- 2, MaxCrashes <- 1

\* One table and three writes, which use freed clusters again.
OneTable == INSTANCE QcowImage WITH
  L1Size <- 1, L2Size <- 2, Blocks <- 4, BlockSize <- 4, L2CacheSize <- 1,
  RefCacheSize <- 4, MaxWrites <- 3, MaxCrashes <- 1

\* Runs end within the period; a kill at any step.
Directory == INSTANCE CleanUp WITH
  Processes <- {c1, c2}, Files <- {small, large}, SizeOf <- (small :> 1) @@ (large :> 2),
  Target <- 1, Period <- 2, Slow <- FALSE, MaxTime <- 4, MaxKills <- 1, pc <- step,
  torn <- tornStamp

ASSUME FilesAssumption ==
  /\ Image!SizesAssumption
  /\ OneTable!SizesAssumption
  /\ Directory!ConstantsAssumption

imageVars == <<file, image, queue, op, base, guest, safe, writes, crashes, torn>>
directoryVars ==
  <<now, stamp, lock, step, last, started, listing, space, modified, used, kills, tornStamp>>
filesVars == <<place, imageVars, directoryVars>>

FilesInit ==
  /\ place \in {"image", "one table", "directory", "host"}
  /\ IF place = "one table" THEN OneTable!Init ELSE Image!Init
  /\ place \in {"directory", "host"} => base = 0
  /\ Directory!Init
  /\ Init

FilesNext ==
  \/ /\ place = "image"
     /\ Image!Next
     /\ UNCHANGED <<place, directoryVars, vars>>
  \/ /\ place = "one table"
     /\ OneTable!Next
     /\ UNCHANGED <<place, directoryVars, vars>>
  \/ /\ place = "directory"
     /\ Directory!Next
     /\ UNCHANGED <<place, imageVars, vars>>
  \/ /\ place = "host"
     /\ Next
     /\ UNCHANGED filesVars

FilesSpec == FilesInit /\ [][FilesNext]_<<filesVars, vars>>

---------------------------------------------------------------------------
(***************************************************************************)
(* Properties: those of the parts, of the behaviours in which they move;   *)
(* HostSafety is that of Hosts.                                            *)
(***************************************************************************)

\* If the process was never killed between the writes of the two roots in
\* syncCache(), where L1PointsToValidData fails: whenever else it is killed, the
\* guest finds in the file what was flushed last or written later; it reads what
\* it wrote last; and a cluster has one use, which the file counts (qcow2.go,
\* referenceCount.go).  Of the directories, that the state is well-formed.
ImageSafety ==
  /\ place = "image" => Image!Safety
  /\ place = "one table" => OneTable!Safety
  /\ place = "directory" => Directory!TypeOK

\* Two runs of the clean-up begin a period apart, however many processes were let
\* in by the reading without a lock, and what a run deletes while tests write and
\* read takes the space below the target by less than one file.
RunsAreMeasured == Directory!RunsAreMeasured
=============================================================================
