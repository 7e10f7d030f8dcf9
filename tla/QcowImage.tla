----------------------------- MODULE QcowImage -----------------------------
(***************************************************************************)
(* A disk image of the iSCSI target (arms/qcow2target/pkg/qcow2): tables   *)
(* of two levels that map the clusters of the guest to clusters of the     *)
(* file, and reference counts of two levels that say which clusters of     *)
(* the file are used.  All four are cached and written back: a table or a  *)
(* block of counts that the file refers to is never changed in place, it   *)
(* is copied to a new cluster (copy on write), and Flush writes the        *)
(* copies before the roots that point to them.                             *)
(*                                                                         *)
(* One operation runs at a time.  It works on the caches at once and       *)
(* leaves its writes in the order of the code in "queue"; they reach the   *)
(* file one by one and the process may be killed between any two of them.  *)
(* The header, the L1 table and the table of counts take cluster 0, which  *)
(* is also the address that means "none".  A cluster of data has a head,   *)
(* which the guest writes, and a tail, which shows what the rest of the    *)
(* cluster was made of.                                                    *)
(***************************************************************************)
EXTENDS Integers, Sequences, FiniteSets, SequencesExt

CONSTANTS
  L1Size,        \* L2 tables of the image
  L2Size,        \* clusters of an L2 table
  Blocks,        \* blocks of reference counts
  BlockSize,     \* clusters that a block counts
  L2CacheSize,   \* L2 tables in the cache (100)
  RefCacheSize,  \* blocks of counts in the cache (50)
  MaxWrites,     \* bound: writes of the guest
  MaxCrashes     \* bound: times the process is killed

SizesAssumption ==
  /\ {L1Size, L2Size, Blocks, BlockSize, L2CacheSize, RefCacheSize} \subseteq Nat \ {0}
  /\ MaxWrites \in Nat /\ MaxCrashes \in Nat

VARIABLES
  file,     \* the contents of the file
  image,    \* the caches and lists of the open image, or Closed
  queue,    \* writes of the running operation that have not reached the file
  op,       \* the operation that runs, or "idle"
  base,     \* contents of the backing file, 0 if there is none
  guest,    \* history: what a guest wrote last, per guest cluster
  safe,     \* history: what the guest may find after the process is killed
  writes,   \* number of writes of the guest; its values are the numbers
  crashes,  \* number of times the process was killed
  torn      \* history: killed after the table of counts and before L1 was written

vars == <<file, image, queue, op, base, guest, safe, writes, crashes, torn>>

NoCluster == 0
Zero == <<"zero">>
Clusters == 0 .. (Blocks * BlockSize - 1)
Guest == 0 .. (L1Size * L2Size - 1)
EmptyTable == [i \in 0 .. (L2Size - 1) |-> NoCluster]
EmptyBlock == [i \in 0 .. (BlockSize - 1) |-> 0]

\* The caches and lists of an image with the roots of a file.
Fresh(l1, counts) ==
  [open |-> TRUE, l1 |-> l1, l1Dirty |-> FALSE, l2 |-> <<>>, l2Evicted |-> {},
   counts |-> counts, countsDirty |-> FALSE, blocks |-> <<>>, blocksEvicted |-> {},
   avail |-> <<>>, unref |-> <<>>]
Closed == [Fresh(<<>>, <<>>) EXCEPT !.open = FALSE]

----------------------------------------------------------------------------
(* The file *)

\* A cluster read as a table, as a block of counts and as data.
AsTable(c) == IF c[1] = "table" THEN c[2] ELSE EmptyTable
AsBlock(c) == IF c[1] = "block" THEN c[2] ELSE EmptyBlock
AsData(c) == CASE c[1] = "data" -> c[2]
               [] c[1] = "zero" -> <<0, 0>>
               [] OTHER -> <<>>

\* The file after a write.
Apply(f, w) ==
  CASE w[1] = "l1" -> [f EXCEPT !.l1 = w[2]]
    [] w[1] = "counts" -> [f EXCEPT !.counts = w[2]]
    [] w[1] = "grow" -> [f EXCEPT !.end = w[2] + 1]
    [] w[1] = "cluster" -> [f EXCEPT !.clusters[w[2]] = w[3],
                                     !.end = IF w[2] < @ THEN @ ELSE w[2] + 1]
    [] w[1] = "head" ->
         LET old == AsData(f.clusters[w[2]])
         IN [f EXCEPT !.clusters[w[2]] = <<"data", <<w[3], IF old = <<>> THEN -1 ELSE old[2]>>>>]

\* x is an operation under way: the image, the file as the process sees it,
\* its writes and the cluster that was allocated last.
Write(x, w) == [x EXCEPT !.disk = Apply(@, w), !.out = Append(@, w)]

----------------------------------------------------------------------------
(* A cache in the order of use, the entry to be evicted first *)

Cached(cache, k) == \E i \in DOMAIN cache : cache[i].key = k
Entry(cache, k) == cache[CHOOSE i \in DOMAIN cache : cache[i].key = k]
Others(cache, k) == SelectSeq(cache, LAMBDA e : e.key # k)
Used(cache, k) == Append(Others(cache, k), Entry(cache, k))
Changed(cache, k, i, v) ==
  Append(Others(cache, k), [Entry(cache, k) EXCEPT !.data[i] = v, !.dirty = TRUE])
Item(k, data, dirty) == [key |-> k, data |-> data, dirty |-> dirty]
Cleaned(cache) == [i \in DOMAIN cache |-> [cache[i] EXCEPT !.dirty = FALSE]]

\* insert() of a table or a block, with the callback that writes what is evicted.
InsertTable(x, item) ==
  LET old == Head(x.image.l2)
      room == IF Len(x.image.l2) < L2CacheSize THEN x
              ELSE IF ~old.dirty THEN [x EXCEPT !.image.l2 = Tail(@)]
              ELSE Write([x EXCEPT !.image.l2 = Tail(@), !.image.l2Evicted = @ \cup {old.key}],
                         <<"cluster", old.key, <<"table", old.data>>>>)
  IN [room EXCEPT !.image.l2 = Append(Others(@, item.key), item)]

InsertBlock(x, item) ==
  LET old == Head(x.image.blocks)
      room == IF Len(x.image.blocks) < RefCacheSize THEN x
              ELSE IF ~old.dirty THEN [x EXCEPT !.image.blocks = Tail(@)]
              ELSE Write([x EXCEPT !.image.blocks = Tail(@),
                                   !.image.blocksEvicted = @ \cup {old.key}],
                         <<"cluster", x.image.counts[old.key], <<"block", old.data>>>>)
  IN [room EXCEPT !.image.blocks = Append(Others(@, item.key), item)]

----------------------------------------------------------------------------
(* Clusters of the file and their counts *)

\* getNewCluster(): the last available cluster, or one at the end of the file.
\* Data is <<>> when the cluster is to be zeroed.
GetNewCluster(x, data) ==
  LET avail == x.image.avail
      reuse == avail # <<>>
      c == IF reuse THEN Last(avail) ELSE x.disk.end
      taken == IF reuse THEN [x EXCEPT !.image.avail = Front(avail)]
               ELSE Write(x, <<"grow", c>>)
      filled == IF data # <<>> THEN Write(taken, <<"cluster", c, <<"data", data>>>>)
                ELSE IF reuse THEN Write(taken, <<"cluster", c, Zero>>)
                ELSE taken
  IN [filled EXCEPT !.new = c]

\* One pass of setClusterRefcount() up to the counts of the clusters it added:
\* those are in "added".  A block that is not in the cache is read and then
\* taken for a new one: its own cluster is dropped.
SetOne(x, c, n) ==
  LET i == c \div BlockSize
      j == c % BlockSize
      address == x.image.counts[i]
      hit == Cached(x.image.blocks, i)
      shared == i \notin x.image.blocksEvicted
      fresh == \/ ~hit /\ address = NoCluster
               \/ hit /\ ~Entry(x.image.blocks, i).dirty /\ shared
      y == IF fresh THEN GetNewCluster(x, <<>>) ELSE x
      there == IF fresh THEN y.new ELSE address
      loaded ==
        IF hit THEN [y EXCEPT !.image.counts[i] = there]
        ELSE InsertBlock([y EXCEPT !.image.counts[i] = there, !.image.countsDirty = TRUE],
                         IF fresh THEN Item(i, EmptyBlock, TRUE)
                         ELSE Item(i, AsBlock(x.disk.clusters[address]), FALSE))
      drop == address # NoCluster /\ shared /\ (fresh \/ ~hit)
  IN [x |-> [loaded EXCEPT !.image.blocks = Changed(@, i, j, n),
                           !.image.countsDirty = @ \/ fresh],
      added |-> IF fresh THEN <<there>> ELSE <<>>,
      dropped |-> IF drop THEN <<address>> ELSE <<>>]

\* The counts of added clusters, whose own dropped clusters are forgotten.
RECURSIVE CountAdded(_, _)
CountAdded(x, added) ==
  IF added = <<>> THEN x
  ELSE LET r == SetOne(x, Head(added), 1) IN CountAdded(r.x, r.added)

\* What the callers of setClusterRefcount() do with the dropped cluster.
WithDropped(r) == [CountAdded(r.x, r.added) EXCEPT !.image.unref = @ \o r.dropped]
SetClusterRefcount(x, c, n) == WithDropped(SetOne(x, c, n))

\* Counts that are set one after another, as pairs of a cluster and a count.
SetCounts(x, pairs) ==
  FoldLeft(LAMBDA y, p : SetClusterRefcount(y, p[1], p[2]), x, pairs)

----------------------------------------------------------------------------
(* The tables of the guest's clusters *)

\* readClusterAddress() when the L1 entry is set: the table is in the cache.
LoadTable(x, v) ==
  LET t == x.image.l1[v \div L2Size]
  IN IF Cached(x.image.l2, t) THEN [x EXCEPT !.image.l2 = Used(@, t)]
     ELSE InsertTable(x, Item(t, AsTable(x.disk.clusters[t]), FALSE))

\* The cluster of the guest's cluster v, once its table is in the cache.
Mapped(x, v) == Entry(x.image.l2, x.image.l1[v \div L2Size]).data[v % L2Size]

\* updateClusterAddress(): a table that the file has is copied first.
CopyOnWrite(x, v) ==
  LET t == x.image.l1[v \div L2Size]
  IN ~Entry(x.image.l2, t).dirty /\ t \notin x.image.l2Evicted

\* Faulty variant of UpdateClusterAddress: the cluster of the old table is
\* available at once.
UpdateReused(x, v, c) ==
  LET t == x.image.l1[v \div L2Size]
      y == GetNewCluster(x, <<>>)
      changed == Changed(y.image.l2, t, v % L2Size, c)
  IN IF ~CopyOnWrite(x, v) THEN [x EXCEPT !.image.l2 = changed]
     ELSE [y EXCEPT !.image.l1[v \div L2Size] = y.new, !.image.l1Dirty = TRUE,
                    !.image.l2 = Append(Others(@, t), [Last(changed) EXCEPT !.key = y.new]),
                    !.image.avail = Append(@, t)]

\* The table t of v is copied to the new cluster of x.
CopyTable(x, t, v, c) ==
  [x EXCEPT !.image.l1[v \div L2Size] = x.new,
            !.image.l1Dirty = TRUE,
            !.image.l2 = Append(Others(@, t),
                                Item(x.new, [Entry(@, t).data EXCEPT ![v % L2Size] = c], TRUE)),
            !.image.unref = Append(@, t)]

UpdateClusterAddress(x, v, c) ==
  LET t == x.image.l1[v \div L2Size]
  IN IF CopyOnWrite(x, v) THEN CopyTable(GetNewCluster(x, <<>>), t, v, c)
     ELSE [x EXCEPT !.image.l2 = Changed(@, t, v % L2Size, c)]

\* The table of v is in the cache, a new one in the new cluster of x if there was
\* none.
NewTable(x, v) ==
  InsertTable([x EXCEPT !.image.l1[v \div L2Size] = x.new, !.image.l1Dirty = TRUE],
              Item(x.new, EmptyTable, TRUE))
TableFor(x, v) ==
  IF x.image.l1[v \div L2Size] = NoCluster THEN NewTable(GetNewCluster(x, <<>>), v)
  ELSE LoadTable(x, v)

\* The counts of the tables, after v was mapped in x to the cluster c.
CountTables(x, old, absent, copied) ==
  SetCounts(x, (IF absent THEN <<<<old, 1>>>> ELSE <<>>)
               \o (IF copied THEN <<<<old, 0>>, <<x.new, 1>>>> ELSE <<>>))
MapTo(x, v, c, absent) ==
  CountTables(UpdateClusterAddress(x, v, c), x.image.l1[v \div L2Size], absent, CopyOnWrite(x, v))

\* The new cluster of x is counted and becomes the one of v.
Attach(x, v, n, absent) ==
  Write(MapTo(SetClusterRefcount(x, x.new, 1), v, x.new, absent), <<"head", x.new, n>>)

\* fileOffsetWrite() and the write of the data, with the table of v in the cache.
WriteIn(x, v, n, absent) ==
  IF Mapped(x, v) # NoCluster THEN Write(x, <<"head", Mapped(x, v), n>>)
  ELSE Attach(GetNewCluster(x, IF base = NoCluster THEN <<>> ELSE <<base, base>>), v, n, absent)

WriteAt(x, v, n) == WriteIn(TableFor(x, v), v, n, x.image.l1[v \div L2Size] = NoCluster)

----------------------------------------------------------------------------
(* Writing back and opening *)

\* syncCache(): the dirty tables, all blocks in the cache, then the two roots.
SyncCache(x) ==
  LET WriteTable(y, e) == IF e.dirty THEN Write(y, <<"cluster", e.key, <<"table", e.data>>>>) ELSE y
      WriteBlock(y, e) == Write(y, <<"cluster", x.image.counts[e.key], <<"block", e.data>>>>)
      tables == FoldLeft(WriteTable, x, x.image.l2)
      blocks == FoldLeft(WriteBlock, tables, x.image.blocks)
      clean == [blocks EXCEPT !.image.l2 = Cleaned(@), !.image.blocks = Cleaned(@)]
      counts == IF ~x.image.countsDirty THEN clean
                ELSE Write([clean EXCEPT !.image.blocksEvicted = {}, !.image.countsDirty = FALSE],
                           <<"counts", x.image.counts>>)
  IN IF ~x.image.l1Dirty THEN counts
     ELSE Write([counts EXCEPT !.image.l2Evicted = {}, !.image.l1Dirty = FALSE],
                <<"l1", x.image.l1>>)

\* The clusters that L1 of a file leads to, each with the number of its uses.
Tables(f) == {f.l1[i] : i \in DOMAIN f.l1} \ {NoCluster}
DataOf(f, t) == {AsTable(f.clusters[t])[i] : i \in 0 .. (L2Size - 1)} \ {NoCluster}
Reached(f) == Tables(f) \cup UNION {DataOf(f, t) : t \in Tables(f)}

\* rebuildReferenceCounts(): one block, in the first cluster without a use.
Rebuild(x) ==
  LET used == {0} \cup Reached(x.disk)
      c == CHOOSE d \in Clusters \ used : \A e \in Clusters \ used : d <= e
      block == [j \in 0 .. (BlockSize - 1) |-> IF j \in used \cup {c} THEN 1 ELSE 0]
      y == Write(x, <<"cluster", c, <<"block", block>>>>)
  IN Write(y, <<"counts", [y.disk.counts EXCEPT ![0] = c]>>)

\* getClusterRefcount() puts the block of a cluster into the cache.
LoadBlock(x, c) ==
  LET i == c \div BlockSize
      address == x.image.counts[i]
  IN IF address = NoCluster THEN x
     ELSE IF Cached(x.image.blocks, i) THEN [x EXCEPT !.image.blocks = Used(@, i)]
     ELSE InsertBlock(x, Item(i, AsBlock(x.disk.clusters[address]), FALSE))

CountIn(f, c) ==
  LET address == f.counts[c \div BlockSize]
  IN IF address = NoCluster THEN 0 ELSE AsBlock(f.clusters[address])[c % BlockSize]

\* findAvailableClusters()
FindAvailable(x) ==
  LET all == [i \in 1 .. x.disk.end |-> i - 1]
      free == SelectSeq(all, LAMBDA c : CountIn(x.disk, c) = 0)
  IN [FoldLeft(LoadBlock, x, all) EXCEPT !.image.avail = free]

NeedsRebuild(f) == f.counts[0] = NoCluster \/ CountIn(f, 0) = 0

\* imageFromFile(); an image that has just been created also counts its own
\* first cluster (createImageFromHeader).
OpenImage(create) ==
  LET x == [image |-> Closed, disk |-> file, out |-> <<>>, new |-> NoCluster]
      y == IF NeedsRebuild(file) THEN Rebuild(x) ELSE x
      z == FindAvailable([y EXCEPT !.image = Fresh(y.disk.l1, y.disk.counts)])
  IN IF create THEN SetClusterRefcount(z, 0, 1) ELSE z

----------------------------------------------------------------------------
(* What the guest finds *)

\* From the file alone.
FileValue(f, v) ==
  LET t == f.l1[v \div L2Size]
      c == IF t = NoCluster THEN NoCluster ELSE AsTable(f.clusters[t])[v % L2Size]
  IN IF c = NoCluster THEN <<base, base>> ELSE AsData(f.clusters[c])

\* ReadAt() of the open image.
TableNow(t) == IF Cached(image.l2, t) THEN Entry(image.l2, t).data ELSE AsTable(file.clusters[t])
ReadValue(v) ==
  LET t == image.l1[v \div L2Size]
      c == IF t = NoCluster THEN NoCluster ELSE TableNow(t)[v % L2Size]
  IN IF c = NoCluster THEN <<base, base>> ELSE AsData(file.clusters[c])

----------------------------------------------------------------------------
(* Operations *)

\* The header of a new image, written before it is opened for the first time.
Init ==
  /\ base \in {0, 1}
  /\ file = [l1 |-> [i \in 0 .. (L1Size - 1) |-> NoCluster],
             counts |-> [i \in 0 .. (Blocks - 1) |-> NoCluster],
             clusters |-> [c \in Clusters |-> Zero], end |-> 1]
  /\ image = Closed /\ queue = <<>> /\ op = "idle"
  /\ guest = [v \in Guest |-> <<base, base>>]
  /\ safe = [v \in Guest |-> {<<base, base>>}]
  /\ writes = 0 /\ crashes = 0 /\ torn = FALSE

Idle == op = "idle" /\ queue = <<>>
Opened == Idle /\ image.open
Working == [image |-> image, disk |-> file, out |-> <<>>, new |-> NoCluster]

\* The operation has done its work on the caches; its writes follow.
Begin(name, x) ==
  /\ image' = x.image /\ queue' = x.out
  /\ op' = IF x.out = <<>> THEN "idle" ELSE name
  /\ UNCHANGED <<file, base, crashes, torn>>

\* CreateImage() and OpenImage()
Open ==
  /\ Idle /\ ~image.open
  /\ Begin("open", OpenImage(crashes = 0 /\ file.counts[0] = NoCluster))
  /\ guest' = [v \in Guest |-> FileValue(file, v)]
  /\ safe' = [v \in Guest |-> {FileValue(file, v)}]
  /\ UNCHANGED writes

\* A write command of the guest.
WriteCommand(v) ==
  /\ Opened /\ writes < MaxWrites
  /\ LET n == writes + 2
     IN /\ Begin("write", WriteAt(Working, v, n))
        /\ guest' = [guest EXCEPT ![v] = <<n, base>>]
        /\ safe' = [safe EXCEPT ![v] = @ \cup {<<n, base>>}]
  /\ writes' = writes + 1

\* A read command moves tables in the cache and may evict one.
ReadCommand(v) ==
  /\ Opened /\ image.l1[v \div L2Size] # NoCluster
  /\ Begin("read", LoadTable(Working, v))
  /\ UNCHANGED <<guest, safe, writes>>

\* SYNCHRONIZE CACHE: the clusters that are no longer used become available.
Flush ==
  /\ Opened
  /\ LET x == SyncCache(Working)
     IN Begin("flush", [x EXCEPT !.image.avail = @ \o x.image.unref, !.image.unref = <<>>])
  /\ UNCHANGED <<guest, safe, writes>>

\* Detaching the logical unit closes the image.
Close ==
  /\ Opened
  /\ Begin("close", SyncCache(Working))
  /\ UNCHANGED <<guest, safe, writes>>

\* One write reaches the file; with the last one the operation is complete.
FileWrite ==
  /\ queue # <<>>
  /\ file' = Apply(file, Head(queue))
  /\ queue' = Tail(queue)
  /\ op' = IF Len(queue) = 1 THEN "idle" ELSE op
  /\ image' = IF Len(queue) = 1 /\ op = "close" THEN Closed ELSE image
  /\ safe' = IF Len(queue) = 1 /\ op \in {"flush", "close"}
             THEN [v \in Guest |-> {guest[v]}] ELSE safe
  /\ UNCHANGED <<base, guest, writes, crashes, torn>>

\* The process is killed: what it has written stays, its memory is lost.
\* Between the two roots the file has the new counts and the old L1.
Crash ==
  /\ image.open /\ crashes < MaxCrashes
  /\ crashes' = crashes + 1
  /\ torn' = (torn \/ (queue # <<>> /\ Head(queue)[1] = "l1"
                       /\ op \in {"flush", "close"}))
  /\ image' = Closed /\ queue' = <<>> /\ op' = "idle"
  /\ UNCHANGED <<file, base, guest, safe, writes>>

Next ==
  \/ Open \/ Flush \/ Close \/ FileWrite \/ Crash
  \/ \E v \in Guest : WriteCommand(v) \/ ReadCommand(v)

Spec == Init /\ [][Next]_vars

----------------------------------------------------------------------------
(* Properties *)

\* The clusters that the open image leads to.
TablesNow == {image.l1[i] : i \in DOMAIN image.l1} \ {NoCluster}
DataNow(t) == {TableNow(t)[i] : i \in 0 .. (L2Size - 1)} \ {NoCluster}
BlocksNow == {image.counts[i] : i \in DOMAIN image.counts} \ {NoCluster}
InUse == {0} \cup TablesNow \cup UNION {DataNow(t) : t \in TablesNow} \cup BlocksNow

\* The state is well-formed, the caches keep their sizes.
TypeOK ==
  /\ DOMAIN file.clusters = Clusters /\ file.end \in 1 .. (Blocks * BlockSize)
  /\ op \in {"idle", "open", "write", "read", "flush", "close"}
  /\ (queue = <<>>) = (op = "idle")
  /\ base \in {0, 1} /\ writes \in 0 .. MaxWrites /\ crashes \in 0 .. MaxCrashes
  /\ torn \in BOOLEAN
  /\ image.open =>
       /\ Len(image.l2) <= L2CacheSize /\ Len(image.blocks) <= RefCacheSize
       /\ Range(image.avail) \cup Range(image.unref) \subseteq Clusters

\* The comments of updateClusterAddress: "we can commit L1 table after all L2
\* table blocks, and it will always be pointing to valid data", and of its cache:
\* "This way, writing to a file becomes transactional".  Every guest cluster has
\* in the file what was flushed last or something that was written later.
\* Violated when the process is killed in syncCache() between the table of counts
\* and L1: the tables that the old L1 leads to are no longer counted, the next
\* process takes their clusters for available and overwrites them.
L1PointsToValidData == \A v \in Guest : FileValue(file, v) \in safe[v]

\* When the process is killed at any other moment that comment is right: a table
\* or a cluster of data that L1 of the file leads to is never overwritten by
\* another use.
SurvivesCrash == torn \/ L1PointsToValidData

\* The guest reads what it wrote last, and what it has not written is the
\* backing file's or zero, also in clusters that had another use before; not
\* after a kill between the two roots.
ReadsLastWrite ==
  Opened /\ ~torn => \A v \in Guest : ReadValue(v) = guest[v]

\* A cluster that is, or after the next flush will be, available for any use is
\* not in use now, and what is available is not reached from the file either;
\* not after a kill between the two roots.
FreeIsUnused ==
  Opened /\ ~torn =>
    /\ Range(image.avail) \cap (InUse \cup Reached(file)) = {}
    /\ Range(image.unref) \cap InUse = {}

\* No cluster has two uses; not after a kill between the two roots.
NotShared ==
  Opened /\ ~torn =>
    /\ Cardinality(InUse) = 1 + Cardinality(TablesNow) + Cardinality(BlocksNow)
         + FoldSet(LAMBDA t, n : n + Cardinality(DataNow(t)), 0, TablesNow)
    /\ \A v, w \in Guest :
         LET At(u) == IF image.l1[u \div L2Size] = NoCluster THEN NoCluster
                      ELSE TableNow(image.l1[u \div L2Size])[u % L2Size]
         IN v # w /\ At(v) # NoCluster => At(v) # At(w)

\* What L1 of the file leads to is counted in the file, so that an image that is
\* opened again does not give it away: at any moment but the one between the two
\* roots, and until the process is killed there.
ReachedIsCounted ==
  torn \/ NeedsRebuild(file) \/ (queue # <<>> /\ Head(queue)[1] = "l1")
       \/ \A c \in Reached(file) : CountIn(file, c) = 1

\* The comment of setClusterRefcount: "The dropped cluster can be reused for
\* other purposes".  Violated when the block of counts was not in the cache:
\* the cluster that is dropped is the one the block has just been read from and
\* will be written to.
DroppedCanBeReused ==
  Opened => (Range(image.avail) \cup Range(image.unref)) \cap BlocksNow = {}

\* What the image promises as long as the process is not killed between the two
\* roots: it survives any other kill, reads what was written, and its clusters
\* have one use and the count of it.
Safety ==
  /\ TypeOK
  /\ SurvivesCrash
  /\ ReadsLastWrite
  /\ FreeIsUnused
  /\ NotShared
  /\ ReachedIsCounted
=============================================================================
