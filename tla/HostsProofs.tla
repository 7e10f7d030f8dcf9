----------------------------- MODULE HostsProofs ----------------------------
(***************************************************************************)
(* Proofs about what scripts and machines of a host share, for every value *)
(* of the constants: the cache of downloads, the virtual machines and the  *)
(* sessions of the iSCSI target.                                           *)
(***************************************************************************)
EXTENDS Hosts, FiniteSetTheorems, SequenceTheorems, WellFoundedInduction, TLAPS

---------------------------------------------------------------------------
(* The cache of downloads *)

LEMMA DownA == Cache!ConstantsAssumption
BY PartsAssumption

(* Types *)

LEMMA PathsDiffer ==
  /\ \A f \in Files : Cache!Lock(f) \in Cache!Paths /\ Cache!Dest(f) \in Cache!Paths
     /\ Cache!Tmp(f) \in Cache!Paths
  /\ \A f, g \in Files : /\ Cache!Lock(f) # Cache!Dest(g) /\ Cache!Lock(f) # Cache!Tmp(g) /\ Cache!Dest(f) # Cache!Tmp(g)
                         /\ (Cache!Lock(f) = Cache!Lock(g) => f = g)
                            /\ (Cache!Dest(f) = Cache!Dest(g) => f = g)
                         /\ (Cache!Tmp(f) = Cache!Tmp(g) => f = g)
BY DownA DEF Cache!Paths, Cache!Lock, Cache!Dest, Cache!Tmp

LEMMA FreshIsUnused == Cache!Room => Cache!Fresh \in Inodes /\ Cache!Fresh \notin Cache!Used
BY DEF Cache!Room, Cache!Fresh

LEMMA InodesArePositive == Inodes \subseteq Nat /\ 0 \notin Inodes /\ Size \in Nat \ {0}
BY DownA DEF Cache!ConstantsAssumption

LEMMA UsedInodes ==
  ASSUME Cache!TypeOK
  PROVE  /\ \A p \in Cache!Paths : path[p] \in Cache!Used
         /\ \A s \in Scripts : fd[s] \in Cache!Used
         /\ \A c \in Cache!Curls : Cache!Running(c) => curl[c].inode \in Cache!Used
<1>1. \A p \in Cache!Paths : path[p] \in Cache!Range(path)
  BY DEF Cache!TypeOK, Cache!Range
<1>2. \A s \in Scripts : fd[s] \in Cache!Range(fd)
  BY DEF Cache!TypeOK, Cache!Range
<1> QED BY <1>1, <1>2 DEF Cache!Used

LEMMA CurlTypes ==
  ASSUME Cache!TypeOK, NEW c \in Cache!Curls, Cache!Running(c)
  PROVE  /\ curl[c] = [state |-> "running", file |-> curl[c].file, next |-> curl[c].next,
                       append |-> curl[c].append, inode |-> curl[c].inode]
         /\ curl[c].file \in Files /\ curl[c].next \in Nat \ {0} /\ curl[c].append \in BOOLEAN
         /\ curl[c].inode \in Inodes \cup {0}
BY DEF Cache!TypeOK, Cache!Running, Cache!Transfers, Cache!NoCurl

Transfer(f, n, a, i) ==
  [state |-> "running", file |-> f, next |-> n, append |-> a, inode |-> i]

LEMMA TransferTypes ==
  /\ \A f \in Files, n \in Nat \ {0}, a \in BOOLEAN, i \in Inodes \cup {0} : Transfer(f, n, a, i) \in Cache!Transfers
  /\ \A f, n, a, i : /\ Transfer(f, n, a, i).state = "running" /\ Transfer(f, n, a, i).file = f
                     /\ Transfer(f, n, a, i).next = n /\ Transfer(f, n, a, i).append = a
                     /\ Transfer(f, n, a, i).inode = i
  /\ Cache!NoCurl \in Cache!Transfers /\ Cache!NoCurl.state = "none"
  /\ [state |-> "ok"] \in Cache!Transfers /\ [state |-> "failed"] \in Cache!Transfers
BY DEF Transfer, Cache!Transfers, Cache!NoCurl

LEMMA TransferChanges ==
  ASSUME Cache!TypeOK, NEW c \in Cache!Curls, Cache!Running(c)
  PROVE  /\ curl[c].state = "running"
         /\ \A i : [curl[c] EXCEPT !.inode = i] = Transfer(curl[c].file, curl[c].next, curl[c].append, i)
         /\ [curl[c] EXCEPT !.next = @ + 1]
               = Transfer(curl[c].file, curl[c].next + 1, curl[c].append, curl[c].inode)
<1>1. curl[c] = Transfer(curl[c].file, curl[c].next, curl[c].append, curl[c].inode)
  BY CurlTypes DEF Transfer
<1>2. ASSUME NEW f, NEW n, NEW a, NEW j, NEW i
      PROVE  /\ [Transfer(f, n, a, j) EXCEPT !.inode = i] = Transfer(f, n, a, i)
             /\ [Transfer(f, n, a, j) EXCEPT !.next = @ + 1] = Transfer(f, n + 1, a, j)
  BY DEF Transfer
<1>3. curl[c].state = "running"
  BY DEF Cache!Running
<1> QED BY <1>1, <1>2, <1>3

LEMMA WrittenType ==
  ASSUME NEW d \in Seq(Cache!Chunks), NEW n \in Nat \ {0}, NEW x \in Cache!Chunks
  PROVE  Cache!WrittenAt(d, n, x) \in Seq(Cache!Chunks)
<1> DEFINE m == IF Len(d) < n THEN n ELSE Len(d)
<1>1. m \in Nat
  OBVIOUS
<1>2. \A i \in 1 .. m : i <= Len(d) => d[i] \in Cache!Chunks
  OBVIOUS
<1>3. Cache!Hole \in Cache!Chunks
  BY DEF Cache!Chunks
<1>4. Cache!WrittenAt(d, n, x) \in [1 .. m -> Cache!Chunks]
  BY <1>1, <1>2, <1>3 DEF Cache!WrittenAt
<1> HIDE DEF m
<1> QED BY <1>1, <1>4

LEMMA TypeInit ==
  ASSUME Cache!Init PROVE Cache!TypeOK
<1>1. fd \in [Scripts -> Inodes \cup {0}] /\ path \in [Cache!Paths -> Inodes \cup {0}]
  BY DEF Cache!Init
<1>2. data \in [Inodes -> Seq(Cache!Chunks)]
  BY DEF Cache!Init
<1>3. curl \in [Cache!Curls -> Cache!Transfers] /\ \A s \in Scripts : curl[s].state = "none"
  BY DEF Cache!Init, Cache!Curls, Cache!Transfers, Cache!NoCurl
<1> QED BY <1>1, <1>2, <1>3, DownA DEF Cache!Init, Cache!TypeOK, Cache!ConstantsAssumption

Steps == {"idle", "touch", "open", "locked", "curl", "check", "replace"}
Working == {"locked", "curl", "check", "replace"}

\* What a step of a script does with its position and its lock.
LEMMA PositionTypes ==
  ASSUME Cache!TypeOK, NEW s \in Scripts, NEW step \in Steps, NEW i \in Inodes \cup {0},
         pc' = [pc EXCEPT ![s] = step], fd' = [fd EXCEPT ![s] = i],
         (i # 0) <=> (step \in Working)
  PROVE  /\ pc' \in [Scripts -> Steps] /\ fd' \in [Scripts -> Inodes \cup {0}]
         /\ \A t \in Scripts : (fd'[t] # 0) <=> (pc'[t] \in Working)
BY DEF Cache!TypeOK, Steps, Working

LEMMA EndTypes ==
  ASSUME Cache!TypeOK, NEW s \in Scripts, Cache!End(s)
  PROVE  /\ pc' \in [Scripts -> Steps] /\ fd' \in [Scripts -> Inodes \cup {0}]
         /\ \A t \in Scripts : (fd'[t] # 0) <=> (pc'[t] \in Working)
<1>1. "idle" \in Steps /\ "idle" \notin Working
  BY DEF Steps, Working
<1> QED BY <1>1, PositionTypes DEF Cache!End

LEMMA GoToTypes ==
  ASSUME Cache!TypeOK, NEW s \in Scripts, NEW step \in Steps, Cache!GoTo(s, step),
         (pc[s] \in Working) <=> (step \in Working)
  PROVE  /\ pc' \in [Scripts -> Steps] /\ fd' \in [Scripts -> Inodes \cup {0}]
         /\ \A t \in Scripts : (fd'[t] # 0) <=> (pc'[t] \in Working)
BY DEF Cache!TypeOK, Steps, Working, Cache!GoTo

LEMMA TypeFromParts ==
  ASSUME /\ pc' \in [Scripts -> Steps] /\ fd' \in [Scripts -> Inodes \cup {0}]
         /\ \A t \in Scripts : (fd'[t] # 0) <=> (pc'[t] \in Working),
         want' \in [Scripts -> Files], path' \in [Cache!Paths -> Inodes \cup {0}],
         data' \in [Inodes -> Seq(Cache!Chunks)], curl' \in [Cache!Curls -> Cache!Transfers],
         \A t \in Scripts : (curl'[t].state # "none") <=> (pc'[t] = "curl"),
         faults' \in 0 .. MaxFaults
  PROVE  Cache!TypeOK'
BY DEF Cache!TypeOK, Steps, Working

LEMMA FaultTypes ==
  ASSUME Cache!TypeOK, NEW kind, Cache!Fault(kind) PROVE faults' \in 0 .. MaxFaults
BY DownA DEF Cache!TypeOK, Cache!Fault, Cache!ConstantsAssumption

LEMMA ScriptTypes ==
  ASSUME Cache!TypeOK, NEW s \in Scripts,
         Cache!Call(s) \/ Cache!Touch(s) \/ Cache!LockFile(s) \/ Cache!GiveUp(s)
           \/ Cache!CheckFails(s) \/ Cache!Check(s) \/ Cache!Replace(s)
  PROVE  Cache!TypeOK'
<1> USE DEF Steps, Working
<1>1. CASE Cache!Call(s)
  <2>1. Cache!GoTo(s, "touch") /\ pc[s] = "idle"
    BY <1>1 DEF Cache!Call
  <2>2. want' \in [Scripts -> Files]
    BY <1>1 DEF Cache!Call, Cache!TypeOK
  <2> QED BY <1>1, <2>1, <2>2, GoToTypes, TypeFromParts DEF Cache!Call, Cache!TypeOK, Cache!GoTo
<1>2. CASE Cache!Touch(s)
  <2>1. Cache!GoTo(s, "open") /\ pc[s] = "touch"
    BY <1>2 DEF Cache!Touch
  <2>2. path' \in [Cache!Paths -> Inodes \cup {0}] /\ data' \in [Inodes -> Seq(Cache!Chunks)]
    <3>1. <<>> \in Seq(Cache!Chunks)
      OBVIOUS
    <3>2. CASE UNCHANGED <<path, data>>
      BY <3>2 DEF Cache!TypeOK
    <3>3. CASE Cache!Room /\ path' = [path EXCEPT ![Cache!Lock(want[s])] = Cache!Fresh]
               /\ data' = [data EXCEPT ![Cache!Fresh] = <<>>]
      BY <3>1, <3>3, FreshIsUnused DEF Cache!TypeOK
    <3> QED BY <1>2, <3>2, <3>3 DEF Cache!Touch
  <2> QED BY <1>2, <2>1, <2>2, GoToTypes, TypeFromParts DEF Cache!Touch, Cache!TypeOK, Cache!GoTo
<1>3. CASE Cache!LockFile(s)
  <2>1. path[Cache!Lock(want[s])] \in Inodes \cup {0}
    BY PathsDiffer DEF Cache!TypeOK
  <2>2. /\ pc' \in [Scripts -> Steps] /\ fd' \in [Scripts -> Inodes \cup {0}]
        /\ \A t \in Scripts : (fd'[t] # 0) <=> (pc'[t] \in Working)
        /\ \A t \in Scripts : (pc'[t] = "curl") <=> (pc[t] = "curl")
    <3>1. CASE Cache!End(s) \/ Cache!GoTo(s, "touch")
      BY <1>3, <3>1, EndTypes, GoToTypes DEF Cache!LockFile, Cache!End, Cache!GoTo, Cache!TypeOK
    <3>2. CASE path[Cache!Lock(want[s])] # 0 /\ pc' = [pc EXCEPT ![s] = "locked"]
               /\ fd' = [fd EXCEPT ![s] = path[Cache!Lock(want[s])]]
      BY <1>3, <3>2, <2>1, PositionTypes DEF Cache!LockFile, Cache!TypeOK
    <3> QED BY <1>3, <3>1, <3>2 DEF Cache!LockFile
  <2> QED BY <1>3, <2>2, TypeFromParts DEF Cache!LockFile, Cache!TypeOK
<1>4. CASE Cache!GiveUp(s)
  <2>1. Cache!End(s) /\ pc[s] = "open"
    BY <1>4 DEF Cache!GiveUp
  <2> QED BY <1>4, <2>1, EndTypes, TypeFromParts DEF Cache!GiveUp, Cache!TypeOK, Cache!End
<1>5. CASE Cache!CheckFails(s)
  <2>1. Cache!End(s) /\ pc[s] = "check" /\ faults' \in 0 .. MaxFaults
    BY <1>5, FaultTypes DEF Cache!CheckFails
  <2> QED BY <1>5, <2>1, EndTypes, TypeFromParts DEF Cache!CheckFails, Cache!TypeOK, Cache!End
<1>6. CASE Cache!Check(s)
  <2>1. path' \in [Cache!Paths -> Inodes \cup {0}]
    BY <1>6 DEF Cache!Check, Cache!TypeOK
  <2>2. pc[s] = "check" /\ (Cache!GoTo(s, "replace") \/ Cache!End(s))
    BY <1>6 DEF Cache!Check
  <2>3. CASE Cache!GoTo(s, "replace")
    BY <1>6, <2>1, <2>2, <2>3, GoToTypes, TypeFromParts DEF Cache!Check, Cache!TypeOK, Cache!GoTo
  <2>4. CASE Cache!End(s)
    BY <1>6, <2>1, <2>2, <2>4, EndTypes, TypeFromParts DEF Cache!Check, Cache!TypeOK, Cache!End
  <2> QED BY <2>2, <2>3, <2>4
<1>7. CASE Cache!Replace(s)
  <2>1. path' \in [Cache!Paths -> Inodes \cup {0}]
    BY <1>7, PathsDiffer DEF Cache!Replace, Cache!TypeOK
  <2>2. Cache!End(s) /\ pc[s] = "replace"
    BY <1>7 DEF Cache!Replace
  <2> QED BY <1>7, <2>1, <2>2, EndTypes, TypeFromParts DEF Cache!Replace, Cache!TypeOK, Cache!End
<1> QED BY <1>1, <1>2, <1>3, <1>4, <1>5, <1>6, <1>7

LEMMA StartTypes ==
  ASSUME Cache!TypeOK, NEW s \in Scripts, Cache!StartCurl(s)
  PROVE  curl' \in [Cache!Curls -> Cache!Transfers] /\ curl'[s].state = "running"
         /\ \A c \in Cache!Curls : c # s => curl'[c] = curl[c]
<1> DEFINE i == path[Cache!Tmp(want[s])]
           size == IF i = 0 THEN 0 ELSE Len(data[i])
           new == [state |-> "running", file |-> want[s], next |-> size + 1,
                   append |-> size > 0, inode |-> 0]
<1>1. want[s] \in Files /\ i \in Inodes \cup {0}
  BY PathsDiffer DEF Cache!TypeOK
<1>2. size \in Nat
  BY <1>1 DEF Cache!TypeOK
<1>3. curl' = [curl EXCEPT ![s] = new]
  BY DEF Cache!StartCurl
<1> HIDE DEF i, size
<1>4. new \in Cache!Transfers
  BY <1>1, <1>2 DEF Cache!Transfers
<1>5. s \in Cache!Curls
  BY DEF Cache!Curls
<1> QED BY <1>3, <1>4, <1>5 DEF Cache!TypeOK

LEMMA CurlWaitTypes ==
  ASSUME Cache!TypeOK, NEW s \in Scripts, Cache!CheckExists(s) \/ Cache!CurlExited(s)
         \/ Cache!LeaveCurl(s)
  PROVE  Cache!TypeOK'
<1> USE DEF Steps, Working
<1>1. s \in Cache!Curls /\ Cache!Left \in Cache!Curls /\ Cache!NoCurl \in Cache!Transfers
      /\ Cache!NoCurl.state = "none"
  BY DEF Cache!Curls, Cache!Transfers, Cache!NoCurl
<1>2. CASE Cache!CheckExists(s)
  <2>1. CASE Cache!End(s) /\ UNCHANGED curl
    BY <1>2, <2>1, EndTypes, TypeFromParts DEF Cache!CheckExists, Cache!TypeOK, Cache!End
  <2>2. CASE Cache!GoTo(s, "curl") /\ Cache!StartCurl(s)
    <3>1. \A t \in Scripts : t \in Cache!Curls
      BY DEF Cache!Curls
    <3>2. \A t \in Scripts : (curl'[t].state # "none") <=> (pc'[t] = "curl")
      BY <2>2, <3>1, StartTypes DEF Cache!TypeOK, Cache!GoTo
    <3>3. /\ pc' \in [Scripts -> Steps] /\ fd' \in [Scripts -> Inodes \cup {0}]
          /\ \A t \in Scripts : (fd'[t] # 0) <=> (pc'[t] \in Working)
      BY <1>2, <2>2, GoToTypes DEF Cache!CheckExists
    <3>4. /\ want' \in [Scripts -> Files] /\ path' \in [Cache!Paths -> Inodes \cup {0}]
          /\ data' \in [Inodes -> Seq(Cache!Chunks)] /\ faults' \in 0 .. MaxFaults
      BY <1>2 DEF Cache!CheckExists, Cache!TypeOK
    <3> QED BY <2>2, <3>2, <3>3, <3>4, StartTypes, TypeFromParts
  <2> QED BY <1>2, <2>1, <2>2 DEF Cache!CheckExists
<1>3. CASE Cache!CurlExited(s)
  <2>1. curl' \in [Cache!Curls -> Cache!Transfers]
        /\ curl' = [curl EXCEPT ![s] = Cache!NoCurl] /\ pc[s] = "curl"
    BY <1>1, <1>3 DEF Cache!CurlExited, Cache!TypeOK
  <2>4. \A t \in Scripts : (curl'[t].state # "none") <=> (t # s /\ pc[t] = "curl")
    BY <1>1, <2>1 DEF Cache!TypeOK, Cache!Curls
  <2>5. /\ want' \in [Scripts -> Files] /\ path' \in [Cache!Paths -> Inodes \cup {0}]
        /\ data' \in [Inodes -> Seq(Cache!Chunks)] /\ faults' \in 0 .. MaxFaults
        /\ pc \in [Scripts -> Steps]
    BY <1>3 DEF Cache!CurlExited, Cache!TypeOK
  <2>2. CASE Cache!End(s)
    BY <1>1, <1>3, <2>1, <2>2, <2>4, <2>5, EndTypes, TypeFromParts DEF Cache!End
  <2>3. CASE Cache!GoTo(s, "check")
    BY <1>1, <1>3, <2>1, <2>3, <2>4, <2>5, GoToTypes, TypeFromParts DEF Cache!GoTo
  <2> QED BY <1>3, <2>2, <2>3 DEF Cache!CurlExited
<1>4. CASE Cache!LeaveCurl(s)
  <2>1. curl' = [curl EXCEPT ![Cache!Left] = curl[s], ![s] = Cache!NoCurl] /\ pc[s] = "curl"
        /\ Cache!End(s) /\ ~Cache!Running(Cache!Left)
        /\ faults' \in 0 .. MaxFaults
    BY <1>4, FaultTypes DEF Cache!LeaveCurl
  <2>2. curl' \in [Cache!Curls -> Cache!Transfers]
    BY <1>1, <2>1 DEF Cache!TypeOK
  <2>4. Cache!Left \notin Scripts
    BY DownA DEF Cache!ConstantsAssumption, Cache!Left
  <2>3. \A t \in Scripts : (curl'[t].state # "none") <=> (t # s /\ pc[t] = "curl")
    BY <1>1, <2>1, <2>4 DEF Cache!TypeOK, Cache!Curls
  <2>5. /\ want' \in [Scripts -> Files] /\ path' \in [Cache!Paths -> Inodes \cup {0}]
        /\ data' \in [Inodes -> Seq(Cache!Chunks)] /\ pc \in [Scripts -> Steps]
    BY <1>4 DEF Cache!LeaveCurl, Cache!TypeOK
  <2> QED BY <2>1, <2>2, <2>3, <2>5, EndTypes, TypeFromParts DEF Cache!End
<1> QED BY <1>2, <1>3, <1>4

LEMMA CurlKeepsTypes ==
  ASSUME Cache!TypeOK, NEW c \in Cache!Curls, Cache!CurlOpens(c) \/ Cache!CurlWrites(c)
         \/ Cache!CurlEnds(c) \/ Cache!CurlFails(c)
  PROVE  Cache!TypeOK'
<1>1. Cache!Running(c)
  BY DEF Cache!CurlOpens, Cache!CurlWrites, Cache!CurlEnds, Cache!CurlFails
<1>2. curl[c].file \in Files /\ curl[c].next \in Nat \ {0} /\ curl[c].inode \in Inodes \cup {0}
  BY <1>1, CurlTypes
<1>3. pc' = pc /\ want' = want /\ fd' = fd /\ faults' \in 0 .. MaxFaults
  BY FaultTypes DEF Cache!TypeOK, Cache!CurlOpens, Cache!CurlWrites, Cache!CurlEnds, Cache!CurlFails
<1>4. curl' \in [Cache!Curls -> Cache!Transfers]
      /\ \A d \in Cache!Curls : (curl'[d].state = "none") <=> (curl[d].state = "none"
         \/ (d = c /\ c = Cache!Left /\ curl'[d] = Cache!NoCurl))
  <2>1. CASE Cache!CurlOpens(c)
    <3>1. PICK i \in Inodes : curl' = [curl EXCEPT ![c].inode = i]
      BY <2>1, <1>2, PathsDiffer, FreshIsUnused DEF Cache!CurlOpens, Cache!TypeOK
    <3>2. curl' = [curl EXCEPT ![c] = Transfer(curl[c].file, curl[c].next, curl[c].append, i)]
      BY <3>1, <1>1, TransferChanges
    <3>3. Transfer(curl[c].file, curl[c].next, curl[c].append, i) \in Cache!Transfers
      BY <1>1, CurlTypes, TransferTypes
    <3> QED BY <1>1, <3>2, <3>3, TransferTypes, TransferChanges DEF Cache!TypeOK
  <2>2. CASE Cache!CurlWrites(c)
    <3>1. curl' = [curl EXCEPT ![c].next = @ + 1]
      BY <2>2 DEF Cache!CurlWrites
    <3>2. curl' = [curl EXCEPT ![c] = Transfer(curl[c].file, curl[c].next + 1, curl[c].append, curl[c].inode)]
      BY <3>1, <1>1, TransferChanges
    <3>3. curl[c].next + 1 \in Nat \ {0}
      BY <1>2
    <3>4. Transfer(curl[c].file, curl[c].next + 1, curl[c].append, curl[c].inode) \in Cache!Transfers
      BY <1>1, <3>3, CurlTypes, TransferTypes
    <3> QED BY <1>1, <3>2, <3>4, TransferTypes, TransferChanges DEF Cache!TypeOK
  <2>3. CASE Cache!CurlEnds(c) \/ Cache!CurlFails(c)
    <3>1. PICK x \in {Cache!NoCurl, [state |-> "ok"], [state |-> "failed"]} :
            curl' = [curl EXCEPT ![c] = x] /\ (x = Cache!NoCurl => c = Cache!Left)
      <4>1. [state |-> "ok"] # Cache!NoCurl /\ [state |-> "failed"] # Cache!NoCurl
        BY DEF Cache!NoCurl
      <4>2. \/ curl' = [curl EXCEPT ![c] = Cache!NoCurl] /\ c = Cache!Left
            \/ curl' = [curl EXCEPT ![c] = [state |-> "ok"]]
            \/ curl' = [curl EXCEPT ![c] = [state |-> "failed"]]
        BY <2>3 DEF Cache!CurlEnds, Cache!CurlFails
      <4> QED BY <4>1, <4>2
    <3>2. x \in Cache!Transfers /\ (x.state = "none" <=> x = Cache!NoCurl)
      <4>1. Cache!NoCurl.state = "none" /\ [state |-> "ok"].state # "none"
            /\ [state |-> "failed"].state # "none"
        BY DEF Cache!NoCurl
      <4> QED BY <4>1, TransferTypes
    <3> QED BY <1>1, <3>1, <3>2, TransferChanges DEF Cache!TypeOK
  <2> QED BY <2>1, <2>2, <2>3
<1>5. \A t \in Scripts : (curl'[t].state # "none") <=> (pc'[t] = "curl")
  <2>1. Cache!Left \notin Scripts /\ \A t \in Scripts : t \in Cache!Curls
    BY DownA DEF Cache!ConstantsAssumption, Cache!Left, Cache!Curls
  <2> QED BY <2>1, <1>3, <1>4 DEF Cache!TypeOK
<1>6. path' \in [Cache!Paths -> Inodes \cup {0}] /\ data' \in [Inodes -> Seq(Cache!Chunks)]
  <2>1. CASE Cache!CurlOpens(c)
    <3>1. <<>> \in Seq(Cache!Chunks)
      OBVIOUS
    <3>2. Cache!Tmp(curl[c].file) \in Cache!Paths
      BY <1>2, PathsDiffer
    <3> DEFINE i == IF path[Cache!Tmp(curl[c].file)] = 0 THEN Cache!Fresh ELSE path[Cache!Tmp(curl[c].file)]
               kept == IF path[Cache!Tmp(curl[c].file)] # 0 /\ curl[c].append THEN data[i] ELSE <<>>
    <3>3. i \in Inodes /\ path' = [path EXCEPT ![Cache!Tmp(curl[c].file)] = i]
          /\ data' = [data EXCEPT ![i] = kept]
      BY <2>1, <3>2, FreshIsUnused DEF Cache!CurlOpens, Cache!TypeOK
    <3>4. kept \in Seq(Cache!Chunks)
      BY <3>1, <3>3 DEF Cache!TypeOK
    <3> HIDE DEF i, kept
    <3> QED BY <3>3, <3>4 DEF Cache!TypeOK
  <2>2. CASE Cache!CurlWrites(c)
    <3> DEFINE i == curl[c].inode
               x == <<curl[c].file, curl[c].next>>
    <3>1. i \in Inodes /\ x \in Cache!Chunks /\ path' = path
      BY <1>2, <2>2, InodesArePositive DEF Cache!CurlWrites, Cache!Chunks
    <3>2. data[i] \in Seq(Cache!Chunks)
      BY <3>1 DEF Cache!TypeOK
    <3>3. Append(data[i], x) \in Seq(Cache!Chunks)
      BY <3>1, <3>2
    <3>4. Cache!WrittenAt(data[i], curl[c].next, x) \in Seq(Cache!Chunks)
      BY <1>2, <3>1, <3>2, WrittenType
    <3>5. data' = [data EXCEPT ![i] = IF curl[c].append THEN Append(data[i], x)
                                    ELSE Cache!WrittenAt(data[i], curl[c].next, x)]
      BY <2>2, <3>1 DEF Cache!CurlWrites, Cache!TypeOK
    <3> HIDE DEF i, x
    <3> QED BY <3>1, <3>3, <3>4, <3>5 DEF Cache!TypeOK
  <2>3. CASE Cache!CurlEnds(c) \/ Cache!CurlFails(c)
    BY <2>3 DEF Cache!CurlEnds, Cache!CurlFails, Cache!TypeOK
  <2> QED BY <2>1, <2>2, <2>3
<1> QED BY <1>3, <1>4, <1>5, <1>6 DEF Cache!TypeOK

LEMMA TypeStep ==
  ASSUME Cache!TypeOK, [Cache!Next]_(Cache!vars) PROVE Cache!TypeOK'
<1>1. ASSUME NEW s \in Scripts, Cache!Call(s) \/ Cache!Step(s) \/ Cache!GiveUp(s)
             \/ Cache!CheckFails(s) \/ Cache!LeaveCurl(s)
      PROVE  Cache!TypeOK'
  BY <1>1, ScriptTypes, CurlWaitTypes DEF Cache!Step
<1>2. ASSUME NEW c \in Cache!Curls, Cache!CurlStep(c) \/ Cache!CurlFails(c) PROVE Cache!TypeOK'
  BY <1>2, CurlKeepsTypes DEF Cache!CurlStep
<1>3. CASE Cache!Reboot
  <2>1. Cache!NoCurl \in Cache!Transfers /\ Cache!NoCurl.state = "none"
        /\ \A s \in Scripts : s \in Cache!Curls
    BY DEF Cache!Transfers, Cache!NoCurl, Cache!Curls
  <2>2. faults' \in 0 .. MaxFaults
    BY <1>3, FaultTypes DEF Cache!Reboot
  <2> QED BY <1>3, <2>1, <2>2 DEF Cache!Reboot, Cache!TypeOK
<1>4. ASSUME NEW p \in Cache!Paths, Cache!CleanUp(p) PROVE Cache!TypeOK'
  <2>1. faults' \in 0 .. MaxFaults
    BY <1>4, FaultTypes DEF Cache!CleanUp
  <2>2. path' \in [Cache!Paths -> Inodes \cup {0}]
    BY <1>4 DEF Cache!CleanUp, Cache!TypeOK
  <2> QED BY <1>4, <2>1, <2>2 DEF Cache!CleanUp, Cache!TypeOK
<1>5. CASE UNCHANGED Cache!vars
  BY <1>5 DEF Cache!TypeOK, Cache!vars
<1> QED BY <1>1, <1>2, <1>3, <1>4, <1>5 DEF Cache!Next

(* Safety, with careful processes *)

\* The chunks of f from the first one on.
Prefix(f, d) == Len(d) <= Size /\ \A i \in 1 .. Len(d) : d[i] = <<f, i>>

Fetched(f) == path[Cache!Tmp(f)] # 0 /\ data[path[Cache!Tmp(f)]] = Cache!Whole(f)

\* A transfer goes on where the temporary file ends.
Continues(s) ==
  LET i == path[Cache!Tmp(want[s])] IN
    /\ curl[s].file = want[s] /\ curl[s].next <= Size + 1
    /\ curl[s].next = (IF i = 0 THEN 0 ELSE Len(data[i])) + 1
    /\ curl[s].inode # 0 => curl[s].inode = i
    /\ curl[s].inode = 0 => (curl[s].append <=> curl[s].next > 1)

NoneLeft == curl[Cache!Left] = Cache!NoCurl
OwnInodes == \A p, q \in Cache!Paths : path[p] = path[q] /\ path[p] # 0 => p = q
OwnLock == \A s \in Scripts : fd[s] # 0 => fd[s] = path[Cache!Lock(want[s])]
OneHolder == \A s, t \in Scripts : fd[s] = fd[t] /\ fd[s] # 0 => s = t
Prefixes == \A f \in Files : path[Cache!Tmp(f)] # 0 => Prefix(f, data[path[Cache!Tmp(f)]])
Proceeds(s) ==
  /\ Cache!Running(s) => Continues(s)
  /\ (pc[s] = "curl" /\ curl[s].state = "ok") => Fetched(want[s])
  /\ pc[s] \in {"check", "replace"} => Fetched(want[s])
Progress == \A s \in Scripts : Proceeds(s)

DownIInv ==
  /\ Cache!TypeOK
  /\ NoneLeft /\ OwnInodes /\ OwnLock /\ OneHolder
  /\ Prefixes /\ Cache!DestinationIsWhole /\ Progress

LEMMA PrefixIsWhole ==
  ASSUME NEW f, NEW d \in Seq(Cache!Chunks), Prefix(f, d), Len(d) = Size
  PROVE  d = Cache!Whole(f)
<1>1. d \in [1 .. Size -> Cache!Chunks]
  OBVIOUS
<1> QED BY <1>1 DEF Prefix, Cache!Whole

LEMMA WholeIsPrefix == \A f : Len(Cache!Whole(f)) = Size /\ Prefix(f, Cache!Whole(f))
BY InodesArePositive DEF Cache!Whole, Prefix

LEMMA Grown ==
  ASSUME NEW f, NEW d \in Seq(Cache!Chunks), Prefix(f, d), NEW n, n = Len(d) + 1, n <= Size,
         NEW e, e = Append(d, <<f, n>>) \/ e = Cache!WrittenAt(d, n, <<f, n>>)
  PROVE  Prefix(f, e) /\ Len(e) = n
<1>1. CASE e = Append(d, <<f, n>>)
  BY <1>1 DEF Prefix
<1>2. CASE e = Cache!WrittenAt(d, n, <<f, n>>)
  <2>1. n \in Nat /\ Len(d) < n
    OBVIOUS
  <2>2. e = [i \in 1 .. n |-> IF i = n THEN <<f, n>> ELSE IF i <= Len(d) THEN d[i] ELSE Cache!Hole]
    BY <1>2, <2>1 DEF Cache!WrittenAt
  <2>3. Len(e) = n
    BY <2>1, <2>2
  <2> QED BY <2>1, <2>2, <2>3 DEF Prefix
<1> QED BY <1>1, <1>2

LEMMA FreshIsNew ==
  ASSUME Cache!TypeOK, Cache!Room
  PROVE  /\ Cache!Fresh \in Inodes /\ Cache!Fresh # 0
         /\ \A p \in Cache!Paths : path[p] # Cache!Fresh
         /\ \A s \in Scripts : fd[s] # Cache!Fresh
         /\ \A c \in Cache!Curls : Cache!Running(c) => curl[c].inode # Cache!Fresh
BY FreshIsUnused, UsedInodes, InodesArePositive

\* Scripts past the lock are after different files.
LEMMA HoldersDiffer ==
  ASSUME DownIInv, NEW s \in Scripts, NEW t \in Scripts, s # t, fd[s] # 0, fd[t] # 0
  PROVE  want[s] # want[t]
BY DEF DownIInv, OwnLock, OneHolder

LEMMA WorkersHold ==
  ASSUME DownIInv, NEW s \in Scripts
  PROVE  /\ (fd[s] # 0) <=> (pc[s] \in {"locked", "curl", "check", "replace"})
         /\ (Cache!Running(s) => pc[s] = "curl")
         /\ want[s] \in Files
BY TransferTypes DEF DownIInv, Cache!TypeOK, Cache!Running, Cache!Curls

LEMMA DownInit ==
  ASSUME Cache!Init PROVE DownIInv
<1>1. Cache!TypeOK
  BY TypeInit
<1>2. Cache!Left \in Cache!Curls /\ \A s \in Scripts : curl[s] = Cache!NoCurl
  BY DEF Cache!Init, Cache!Curls
<1>3. Progress
  BY <1>2 DEF Cache!Init, Progress, Proceeds, Cache!Running, Cache!NoCurl
<1> QED BY <1>1, <1>2, <1>3, PathsDiffer
   DEF Cache!Init, DownIInv, NoneLeft, OwnInodes, OwnLock, OneHolder, Prefixes, Cache!DestinationIsWhole

\* Nothing happens to files, only positions and locks change.
LEMMA FilesUntouched ==
  ASSUME DownIInv, UNCHANGED <<path, data>>
  PROVE  /\ OwnInodes' /\ Prefixes' /\ Cache!DestinationIsWhole'
         /\ \A f : Fetched(f)' = Fetched(f)
BY DEF DownIInv, OwnInodes, Prefixes, Cache!DestinationIsWhole, Fetched

\* What a script knows stays true while its file, its curl and its position do.
LEMMA StaysSame ==
  ASSUME NEW s, Proceeds(s), want'[s] = want[s], curl'[s] = curl[s],
         path'[Cache!Tmp(want[s])] = path[Cache!Tmp(want[s])],
         path[Cache!Tmp(want[s])] # 0
           => data'[path[Cache!Tmp(want[s])]] = data[path[Cache!Tmp(want[s])]],
         pc'[s] = pc[s]
  PROVE  Proceeds(s)'
BY DEF Proceeds, Cache!Running, Continues, Fetched

LEMMA CallKeeps ==
  ASSUME DownIInv, NEW s \in Scripts, Cache!Call(s), Cache!TypeOK' PROVE DownIInv'
<1>1. pc[s] = "idle" /\ pc' = [pc EXCEPT ![s] = "touch"] /\ UNCHANGED <<fd, curl, path, data>>
      /\ \A t \in Scripts : t # s => want'[t] = want[t]
  BY DEF Cache!Call, Cache!GoTo, DownIInv, Cache!TypeOK
<1>2. \A t \in Scripts : Cache!Running(t)' = Cache!Running(t) /\ fd[s] = 0 /\ ~Cache!Running(s)
  BY <1>1, WorkersHold DEF Cache!Running
<1>3. OwnLock' /\ OneHolder' /\ NoneLeft'
  BY <1>1, <1>2 DEF DownIInv, OwnLock, OneHolder, NoneLeft
<1>4. Progress'
  <2> SUFFICES ASSUME NEW t \in Scripts PROVE Proceeds(t)'
    BY DEF Progress
  <2>1. CASE t = s
    BY <1>1, <1>2, <2>1 DEF DownIInv, Cache!TypeOK, Proceeds
  <2>2. CASE t # s
    BY <1>1, <1>2, <2>2, StaysSame DEF DownIInv, Cache!TypeOK, Progress
  <2> QED BY <2>1, <2>2
<1> QED BY <1>1, <1>3, <1>4, FilesUntouched DEF DownIInv

LEMMA TouchKeeps ==
  ASSUME DownIInv, NEW s \in Scripts, Cache!Touch(s), Cache!TypeOK' PROVE DownIInv'
<1>1. pc[s] = "touch" /\ pc' = [pc EXCEPT ![s] = "open"] /\ UNCHANGED <<want, fd, curl>>
  BY DEF Cache!Touch, Cache!GoTo
<1>2. want[s] \in Files /\ Cache!Lock(want[s]) \in Cache!Paths
  BY WorkersHold, PathsDiffer
<1>3. \/ UNCHANGED <<path, data>>
      \/ /\ path[Cache!Lock(want[s])] = 0 /\ Cache!Room
         /\ path' = [path EXCEPT ![Cache!Lock(want[s])] = Cache!Fresh]
            /\ data' = [data EXCEPT ![Cache!Fresh] = <<>>]
  BY DEF Cache!Touch
<1>4. /\ \A p \in Cache!Paths : p # Cache!Lock(want[s]) => path'[p] = path[p]
      /\ \A p \in Cache!Paths : path[p] # 0 => data'[path[p]] = data[path[p]] /\ path'[p] = path[p]
      /\ path' # path => path'[Cache!Lock(want[s])] # 0
         /\ (\A p \in Cache!Paths : path[p] # path'[Cache!Lock(want[s])])
  BY <1>2, <1>3, FreshIsNew DEF DownIInv, Cache!TypeOK
<1>5. OwnInodes'
  BY <1>2, <1>4 DEF DownIInv, OwnInodes
<1>6. OwnLock' /\ OneHolder' /\ NoneLeft'
  BY <1>1, <1>4, PathsDiffer, InodesArePositive DEF DownIInv, OwnLock, OneHolder, NoneLeft,
       Cache!TypeOK
<1>7. Prefixes' /\ Cache!DestinationIsWhole'
  BY <1>2, <1>4, PathsDiffer DEF DownIInv, Prefixes, Cache!DestinationIsWhole
<1>8. Progress'
  <2> SUFFICES ASSUME NEW t \in Scripts PROVE Proceeds(t)'
    BY DEF Progress
  <2>1. want[t] \in Files /\ Cache!Tmp(want[t]) \in Cache!Paths
        /\ path'[Cache!Tmp(want[t])] = path[Cache!Tmp(want[t])]
    BY <1>2, <1>4, WorkersHold, PathsDiffer
  <2>2. CASE t = s
    BY <1>1, <2>2, WorkersHold DEF Proceeds, DownIInv, Cache!TypeOK, Cache!Running
  <2>3. CASE t # s
    BY <1>1, <1>4, <2>1, <2>3, StaysSame DEF DownIInv, Cache!TypeOK, Progress
  <2> QED BY <2>2, <2>3
<1> QED BY <1>5, <1>6, <1>7, <1>8 DEF DownIInv

\* A script gives its lock back or takes none, and knows less than before.
LEMMA EndKeeps ==
  ASSUME DownIInv,
         NEW s \in Scripts, Cache!End(s), Cache!TypeOK', UNCHANGED <<path, data>>, want' = want,
         curl'[Cache!Left] = curl[Cache!Left], \A t \in Scripts \ {s} : curl'[t] = curl[t],
         curl'[s].state = "none"
  PROVE  DownIInv'
<1>1. OwnLock' /\ OneHolder' /\ NoneLeft'
  BY InodesArePositive DEF DownIInv, OwnLock, OneHolder, NoneLeft, Cache!TypeOK, Cache!End
<1>2. Progress'
  <2> SUFFICES ASSUME NEW t \in Scripts PROVE Proceeds(t)'
    BY DEF Progress
  <2>1. CASE t = s
    BY <2>1 DEF Proceeds, DownIInv, Cache!TypeOK, Cache!Running, Cache!End
  <2>2. CASE t # s
    BY <2>2, StaysSame DEF DownIInv, Cache!TypeOK, Progress, Cache!End
  <2> QED BY <2>1, <2>2
<1> QED BY <1>1, <1>2, FilesUntouched DEF DownIInv

LEMMA LockKeeps ==
  ASSUME DownIInv, NEW s \in Scripts, Cache!LockFile(s), Cache!TypeOK' PROVE DownIInv'
<1>1. pc[s] = "open" /\ UNCHANGED <<want, curl, path, data>> /\ ~Cache!Running(s) /\ fd[s] = 0
  BY WorkersHold DEF Cache!LockFile
<1> DEFINE i == path[Cache!Lock(want[s])]
<1>2. CASE Cache!End(s)
  BY <1>1, <1>2, EndKeeps, TransferTypes DEF DownIInv, Cache!TypeOK, NoneLeft
<1>3. ASSUME NEW step \in {"touch", "locked"}, pc' = [pc EXCEPT ![s] = step],
             NEW j, fd' = [fd EXCEPT ![s] = j], j = 0 \/ (j = i /\ ~Cache!Held(i))
      PROVE  DownIInv'
  <2>1. OwnLock' /\ OneHolder' /\ NoneLeft'
    <3>1. \A t \in Scripts : fd[t] = i => Cache!Held(i)
      BY DEF Cache!Held, Cache!Range, DownIInv, Cache!TypeOK
    <3> QED BY <1>1, <1>3, <3>1 DEF DownIInv, OwnLock, OneHolder, NoneLeft, Cache!TypeOK
  <2>2. Progress'
    <3> SUFFICES ASSUME NEW t \in Scripts PROVE Proceeds(t)'
      BY DEF Progress
    <3>1. CASE t = s
      BY <1>1, <1>3, <3>1 DEF Proceeds, DownIInv, Cache!TypeOK, Cache!Running
    <3>2. CASE t # s
      BY <1>1, <1>3, <3>2, StaysSame DEF DownIInv, Cache!TypeOK, Progress
    <3> QED BY <3>1, <3>2
  <2> QED BY <1>1, <2>1, <2>2, FilesUntouched DEF DownIInv
<1>4. CASE Cache!GoTo(s, "touch")
  <2>1. fd' = [fd EXCEPT ![s] = 0] /\ pc' = [pc EXCEPT ![s] = "touch"]
    BY <1>1, <1>4 DEF Cache!GoTo, DownIInv, Cache!TypeOK
  <2> QED BY <2>1, <1>3
<1>5. CASE ~Cache!Held(i) /\ pc' = [pc EXCEPT ![s] = "locked"] /\ fd' = [fd EXCEPT ![s] = i]
  BY <1>5, <1>3
<1> QED BY <1>2, <1>4, <1>5 DEF Cache!LockFile

LEMMA GiveUpKeeps ==
  ASSUME DownIInv, NEW s \in Scripts, Cache!GiveUp(s)
         \/ Cache!CheckFails(s), Cache!TypeOK' PROVE DownIInv'
<1>1. Cache!End(s) /\ UNCHANGED <<want, curl, path, data>> /\ pc[s] \in {"open", "check"}
  BY DEF Cache!GiveUp, Cache!CheckFails
<1> QED BY <1>1, EndKeeps, TransferTypes DEF DownIInv, Cache!TypeOK

\* A script goes on to another step that needs the lock.
LEMMA GoOnKeeps ==
  ASSUME DownIInv, NEW s \in Scripts,
         NEW step \in {"curl", "check", "replace"}, Cache!GoTo(s, step), Cache!TypeOK',
         UNCHANGED <<want, path, data>>, \A c \in Cache!Curls : c # s
           => curl'[c] = curl[c], Proceeds(s)'
  PROVE  DownIInv'
<1>1. Cache!Left \in Cache!Curls /\ Cache!Left # s /\ \A t \in Scripts : t \in Cache!Curls
  BY DownA DEF Cache!ConstantsAssumption, Cache!Left, Cache!Curls
<1>2. OwnLock' /\ OneHolder' /\ NoneLeft'
  BY <1>1 DEF DownIInv, OwnLock, OneHolder, NoneLeft, Cache!TypeOK, Cache!GoTo
<1>3. Progress'
  <2> SUFFICES ASSUME NEW t \in Scripts, t # s PROVE Proceeds(t)'
    BY DEF Progress
  <2> QED BY <1>1, StaysSame DEF DownIInv, Cache!TypeOK, Progress, Cache!GoTo
<1> QED BY <1>2, <1>3, FilesUntouched DEF DownIInv

LEMMA CheckExistsKeeps ==
  ASSUME DownIInv, NEW s \in Scripts, Cache!CheckExists(s), Cache!TypeOK' PROVE DownIInv'
<1>1. CASE Cache!End(s) /\ UNCHANGED curl
  BY <1>1, EndKeeps, TransferTypes DEF Cache!CheckExists, DownIInv, Cache!TypeOK
<1>2. CASE Cache!GoTo(s, "curl") /\ Cache!StartCurl(s)
  <2> DEFINE i == path[Cache!Tmp(want[s])]
             size == IF i = 0 THEN 0 ELSE Len(data[i])
  <2>1. i \in Inodes \cup {0} /\ want[s] \in Files
    BY PathsDiffer DEF DownIInv, Cache!TypeOK
  <2>2. size \in Nat /\ size <= Size
    BY <2>1, InodesArePositive DEF DownIInv, Cache!TypeOK, Prefixes, Prefix
  <2>3. curl'[s] = Transfer(want[s], size + 1, size > 0, 0)
        /\ \A c \in Cache!Curls : c # s => curl'[c] = curl[c]
    BY <1>2 DEF Cache!StartCurl, Transfer, DownIInv, Cache!TypeOK, Cache!Curls
  <2>4. pc'[s] = "curl" /\ UNCHANGED <<want, path, data>>
    BY <1>2 DEF Cache!CheckExists, Cache!GoTo, DownIInv, Cache!TypeOK
  <2>7. (IF path[Cache!Tmp(want[s])] = 0 THEN 0 ELSE Len(data[path[Cache!Tmp(want[s])]])) = size
    OBVIOUS
  <2> HIDE DEF size
  <2>8. /\ curl'[s].file = want[s] /\ curl'[s].next = size + 1 /\ curl'[s].append = (size > 0)
        /\ curl'[s].inode = 0
    BY <2>3, TransferTypes
  <2>9. size + 1 <= Size + 1 /\ ((size > 0) <=> (size + 1 > 1))
    BY <2>2, InodesArePositive
  <2>5. Continues(s)'
    BY <2>4, <2>7, <2>8, <2>9 DEF Continues
  <2>6. Proceeds(s)'
    BY <2>3, <2>4, <2>5, TransferTypes DEF Proceeds
  <2> QED BY <1>2, <2>3, <2>4, <2>6, GoOnKeeps
<1> QED BY <1>1, <1>2 DEF Cache!CheckExists

LEMMA CurlExitedKeeps ==
  ASSUME DownIInv, NEW s \in Scripts, Cache!CurlExited(s), Cache!TypeOK' PROVE DownIInv'
<1>1. /\ pc[s] = "curl" /\ ~Cache!Running(s) /\ curl' = [curl EXCEPT ![s] = Cache!NoCurl]
         /\ UNCHANGED <<want, path, data>>
      /\ s \in Cache!Curls /\ Cache!Left \in Cache!Curls /\ Cache!Left # s
         /\ \A t \in Scripts : t \in Cache!Curls
  BY DownA DEF Cache!CurlExited, Cache!ConstantsAssumption, Cache!Left, Cache!Curls
<1>2. curl'[s] = Cache!NoCurl /\ (\A c \in Cache!Curls : c # s => curl'[c] = curl[c])
  BY <1>1 DEF DownIInv, Cache!TypeOK
<1>3. CASE Cache!End(s)
  BY <1>1, <1>2, <1>3, EndKeeps, TransferTypes
<1>4. CASE curl[s].state # "failed" /\ Cache!GoTo(s, "check")
  <2>1. curl[s].state = "ok"
    <3>1. curl[s] \in Cache!Transfers /\ curl[s].state # "none" /\ curl[s].state # "running"
      BY <1>1 DEF DownIInv, Cache!TypeOK, Cache!Running
    <3> QED BY <1>4, <3>1 DEF Cache!Transfers, Cache!NoCurl
  <2>2. Fetched(want[s])
    BY <1>1, <2>1 DEF DownIInv, Progress, Proceeds
  <2>3. Proceeds(s)'
    BY <1>1, <1>2, <1>4, <2>2, TransferTypes DEF Proceeds, Fetched, Cache!Running, Cache!GoTo,
         DownIInv, Cache!TypeOK
  <2> QED BY <1>1, <1>2, <1>4, <2>3, GoOnKeeps
<1> QED BY <1>3, <1>4 DEF Cache!CurlExited

LEMMA CheckKeeps ==
  ASSUME DownIInv, NEW s \in Scripts, Cache!Check(s), Cache!TypeOK' PROVE DownIInv'
         /\ UNCHANGED path
<1>1. pc[s] = "check" /\ UNCHANGED <<want, curl, data>> /\ Fetched(want[s])
  BY DEF Cache!Check, DownIInv, Progress, Proceeds
<1>2. Cache!GoTo(s, "replace") /\ UNCHANGED path
  BY <1>1 DEF Cache!Check, Fetched
<1>3. Proceeds(s)'
  BY <1>1, <1>2, WorkersHold DEF Proceeds, Fetched, Cache!Running, Cache!GoTo, DownIInv,
       Cache!TypeOK
<1> QED BY <1>1, <1>2, <1>3, GoOnKeeps

LEMMA ReplaceKeeps ==
  ASSUME DownIInv, NEW s \in Scripts, Cache!Replace(s), Cache!TypeOK' PROVE DownIInv'
<1>1. /\ pc[s] = "replace" /\ Fetched(want[s]) /\ fd[s] # 0 /\ want[s] \in Files
         /\ ~Cache!Running(s)
      /\ UNCHANGED <<want, curl, data>> /\ Cache!End(s)
  BY WorkersHold DEF Cache!Replace, DownIInv, Progress, Proceeds
<1> DEFINE f == want[s]
<1>2. path' = [path EXCEPT ![Cache!Dest(f)] = path[Cache!Tmp(f)], ![Cache!Tmp(f)] = 0]
  BY <1>1 DEF Cache!Replace, Fetched
<1>3. /\ path'[Cache!Dest(f)] = path[Cache!Tmp(f)] /\ path'[Cache!Tmp(f)] = 0
      /\ \A p \in Cache!Paths : p # Cache!Dest(f) /\ p # Cache!Tmp(f) => path'[p] = path[p]
  BY <1>1, <1>2, PathsDiffer DEF DownIInv, Cache!TypeOK
<1>4. OwnInodes'
  BY <1>1, <1>3, PathsDiffer DEF DownIInv, OwnInodes
<1>5. OwnLock' /\ OneHolder' /\ NoneLeft'
  <2>1. \A t \in Scripts : path'[Cache!Lock(want[t])] = path[Cache!Lock(want[t])]
    BY <1>1, <1>3, WorkersHold, PathsDiffer
  <2> QED BY <1>1, <2>1, InodesArePositive DEF DownIInv, OwnLock, OneHolder, NoneLeft,
          Cache!TypeOK, Cache!End
<1>6. Prefixes'
  BY <1>1, <1>3, PathsDiffer DEF DownIInv, Prefixes
<1>7. Cache!DestinationIsWhole'
  BY <1>1, <1>3, PathsDiffer DEF DownIInv, Cache!DestinationIsWhole, Fetched
<1>8. Progress'
  <2> SUFFICES ASSUME NEW t \in Scripts PROVE Proceeds(t)'
    BY DEF Progress
  <2>1. CASE pc'[t] \notin {"curl", "check", "replace"}
    BY <1>1, <2>1, WorkersHold, TransferTypes DEF Proceeds, Cache!Running, DownIInv, Cache!TypeOK,
         Cache!End
  <2>2. CASE pc'[t] \in {"curl", "check", "replace"}
    <3>1. t # s /\ pc'[t] = pc[t] /\ fd[t] # 0
      BY <1>1, <2>2, WorkersHold DEF DownIInv, Cache!TypeOK, Cache!End
    <3>2. want[t] # f /\ want[t] \in Files
      BY <1>1, <3>1, HoldersDiffer, WorkersHold
    <3>3. path'[Cache!Tmp(want[t])] = path[Cache!Tmp(want[t])]
      BY <1>1, <1>3, <3>2, PathsDiffer
    <3> QED BY <1>1, <3>1, <3>3, StaysSame DEF DownIInv, Progress
  <2> QED BY <2>1, <2>2
<1> QED BY <1>4, <1>5, <1>6, <1>7, <1>8 DEF DownIInv

\* The file of a transfer that runs, and whose script has its lock.
LEMMA RunningHolds ==
  ASSUME DownIInv, NEW c \in Cache!Curls, Cache!Running(c)
  PROVE  /\ c \in Scripts /\ c # Cache!Left /\ pc[c] = "curl" /\ fd[c] # 0 /\ Continues(c)
            /\ curl[c].file = want[c]
         /\ want[c] \in Files
         /\ \A t \in Scripts : t # c /\ fd[t] # 0 => want[t] # want[c]
<1>1. c # Cache!Left /\ c \in Scripts
  BY TransferTypes DEF DownIInv, NoneLeft, Cache!Running, Cache!Curls
<1>2. pc[c] = "curl" /\ fd[c] # 0 /\ want[c] \in Files /\ Continues(c)
  BY <1>1, WorkersHold DEF DownIInv, Progress, Proceeds
<1> QED BY <1>1, <1>2, HoldersDiffer DEF Continues

\* What the transfer of a script does with its own temporary file.
LEMMA OwnFileKeeps ==
  ASSUME DownIInv, NEW s \in Scripts, Cache!Running(s), Cache!TypeOK', UNCHANGED <<pc, want, fd>>,
         \A c \in Cache!Curls : c # s => curl'[c] = curl[c],
         \A p \in Cache!Paths : p # Cache!Tmp(want[s]) =>
           /\ path'[p] = path[p]
           /\ path[p] # 0 => data'[path[p]] = data[path[p]]
           /\ path'[Cache!Tmp(want[s])] # 0 => path[p] # path'[Cache!Tmp(want[s])],
         path'[Cache!Tmp(want[s])] # 0 => Prefix(want[s], data'[path'[Cache!Tmp(want[s])]]),
         Proceeds(s)'
  PROVE  DownIInv'
<1>1. /\ s \in Cache!Curls /\ Cache!Left \in Cache!Curls /\ Cache!Left # s
         /\ \A t \in Scripts : t \in Cache!Curls
      /\ want[s] \in Files /\ fd[s] # 0 /\ \A t \in Scripts : t # s
         /\ fd[t] # 0 => want[t] # want[s]
  BY RunningHolds, DownA DEF Cache!ConstantsAssumption, Cache!Left, Cache!Curls
<1>2. OwnInodes'
  BY <1>1 DEF DownIInv, OwnInodes
<1>3. OwnLock' /\ OneHolder' /\ NoneLeft'
  <2>1. \A t \in Scripts : path'[Cache!Lock(want[t])] = path[Cache!Lock(want[t])]
    BY <1>1, WorkersHold, PathsDiffer
  <2> QED BY <1>1, <2>1 DEF DownIInv, OwnLock, OneHolder, NoneLeft
<1>4. Prefixes'
  BY <1>1, PathsDiffer DEF DownIInv, Prefixes
<1>5. Cache!DestinationIsWhole'
  BY <1>1, PathsDiffer DEF DownIInv, Cache!DestinationIsWhole
<1>6. Progress'
  <2> SUFFICES ASSUME NEW t \in Scripts, t # s PROVE Proceeds(t)'
    BY DEF Progress
  <2>1. CASE fd[t] = 0
    BY <1>1, <2>1, WorkersHold, TransferTypes DEF Proceeds, Cache!Running, DownIInv, Cache!TypeOK
  <2>2. CASE fd[t] # 0
    <3>1. want[t] # want[s] /\ want[t] \in Files /\ Cache!Tmp(want[t]) \in Cache!Paths
          /\ Cache!Tmp(want[t]) # Cache!Tmp(want[s])
      BY <1>1, <2>2, WorkersHold, PathsDiffer
    <3> QED BY <1>1, <3>1, StaysSame DEF DownIInv, Progress
  <2> QED BY <2>1, <2>2
<1> QED BY <1>2, <1>3, <1>4, <1>5, <1>6 DEF DownIInv

\* A temporary file that nothing happens to.
LEMMA UntouchedIsKept ==
  ASSUME Cache!TypeOK, NEW f \in Files, path'[Cache!Tmp(f)] = path[Cache!Tmp(f)],
         path[Cache!Tmp(f)] # 0 => data'[path[Cache!Tmp(f)]] = data[path[Cache!Tmp(f)]]
  PROVE  Cache!Kept(f)
<1>1. path[Cache!Tmp(f)] # 0 => Len(data[path[Cache!Tmp(f)]]) \in Nat
  BY PathsDiffer DEF Cache!TypeOK
<1> QED BY <1>1 DEF Cache!Kept

LEMMA CurlOpensKeeps ==
  ASSUME DownIInv, NEW s \in Cache!Curls, Cache!CurlOpens(s), Cache!TypeOK'
  PROVE  DownIInv' /\ \A g \in Files : Cache!Kept(g)
<1>1. /\ Cache!Running(s) /\ curl[s].inode = 0 /\ curl[s].next <= Size /\ UNCHANGED <<pc, want, fd>>
      /\ s \in Scripts /\ want[s] \in Files /\ Continues(s) /\ curl[s].file = want[s]
         /\ pc[s] = "curl"
  BY RunningHolds DEF Cache!CurlOpens
<1> DEFINE f == want[s]
           i == IF path[Cache!Tmp(f)] = 0 THEN Cache!Fresh ELSE path[Cache!Tmp(f)]
           kept == IF path[Cache!Tmp(f)] # 0 /\ curl[s].append THEN data[i] ELSE <<>>
<1>2. /\ path[Cache!Tmp(f)] = 0 => Cache!Room
      /\ path' = [path EXCEPT ![Cache!Tmp(f)] = i] /\ data' = [data EXCEPT ![i] = kept]
      /\ curl' = [curl EXCEPT ![s].inode = i]
  BY <1>1 DEF Cache!CurlOpens
<1>3. i \in Inodes /\ i # 0 /\ Cache!Tmp(f) \in Cache!Paths
      /\ (\A p \in Cache!Paths : p # Cache!Tmp(f) => path[p] # i)
  BY <1>1, <1>2, PathsDiffer, FreshIsNew DEF DownIInv, Cache!TypeOK, OwnInodes
<1>4. path'[Cache!Tmp(f)] = i /\ data'[i] = kept
  BY <1>2, <1>3 DEF DownIInv, Cache!TypeOK
<1>5. /\ curl'[s] = Transfer(curl[s].file, curl[s].next, curl[s].append, i)
      /\ \A c \in Cache!Curls : c # s => curl'[c] = curl[c]
  <2>1. curl \in [Cache!Curls -> Cache!Transfers] /\ Cache!TypeOK
    BY DEF DownIInv, Cache!TypeOK
  <2> HIDE DEF i, kept
  <2>2. curl' = [curl EXCEPT ![s] = Transfer(curl[s].file, curl[s].next, curl[s].append, i)]
    BY <1>1, <1>2, <2>1, TransferChanges
  <2> QED BY <2>1, <2>2
<1>6. Len(kept) = curl[s].next - 1 /\ Prefix(f, kept)
  <2>1. CASE path[Cache!Tmp(f)] = 0
    BY <1>1, <2>1, InodesArePositive DEF Continues, Prefix
  <2>2. CASE path[Cache!Tmp(f)] # 0 /\ curl[s].append
    <3>1. kept = data[path[Cache!Tmp(f)]] /\ Len(kept) \in Nat
      BY <1>3, <2>2 DEF DownIInv, Cache!TypeOK
    <3>2. curl[s].next = Len(kept) + 1
      BY <1>1, <2>2, <3>1 DEF Continues
    <3> QED BY <1>1, <2>2, <3>1, <3>2 DEF DownIInv, Prefixes
  <2>3. CASE path[Cache!Tmp(f)] # 0 /\ ~curl[s].append
    <3>1. Len(data[path[Cache!Tmp(f)]]) \in Nat /\ kept = <<>>
      BY <1>3, <2>3 DEF DownIInv, Cache!TypeOK
    <3>2. curl[s].next = Len(data[path[Cache!Tmp(f)]]) + 1 /\ ~(curl[s].next > 1)
      BY <1>1, <2>3 DEF Continues
    <3>3. curl[s].next = 1
      BY <3>1, <3>2
    <3> QED BY <3>1, <3>3, InodesArePositive DEF Prefix
  <2> QED BY <2>1, <2>2, <2>3
<1>7. curl[s].next = Len(kept) + 1
  <2>1. curl[s].next \in Nat
    BY <1>1, CurlTypes DEF DownIInv
  <2> HIDE DEF kept
  <2> QED BY <1>6, <2>1
<1>10. path[Cache!Tmp(f)] # 0 => Len(kept) = Len(data[path[Cache!Tmp(f)]])
  <2>1. path[Cache!Tmp(f)] # 0 => Len(data[path[Cache!Tmp(f)]]) \in Nat
    BY <1>3 DEF DownIInv, Cache!TypeOK
  <2>2. path[Cache!Tmp(f)] # 0 => curl[s].next = Len(data[path[Cache!Tmp(f)]]) + 1
    BY <1>1 DEF Continues
  <2>3. Len(kept) = curl[s].next - 1
    BY <1>6
  <2> HIDE DEF kept, i
  <2> QED BY <2>1, <2>2, <2>3
<1>11. path[Cache!Tmp(f)] # 0 => i = path[Cache!Tmp(f)]
  OBVIOUS
<1> HIDE DEF kept, i
<1>8. Proceeds(s)'
  <2>1. Continues(s)'
    BY <1>1, <1>3, <1>4, <1>5, <1>7, TransferTypes DEF Continues
  <2> QED BY <1>1, <1>5, <2>1, TransferTypes DEF Proceeds
<1>9. \A p \in Cache!Paths : p # Cache!Tmp(f) => path'[p] = path[p]
      /\ (path[p] # 0 => data'[path[p]] = data[path[p]])
  BY <1>2, <1>3 DEF DownIInv, Cache!TypeOK
<1>12. DownIInv'
  BY <1>1, <1>3, <1>4, <1>5, <1>6, <1>8, <1>9, OwnFileKeeps
<1>13. ASSUME NEW g \in Files PROVE Cache!Kept(g)
  <2>1. CASE g = f
    <3>1. path[Cache!Tmp(f)] # 0 => path'[Cache!Tmp(f)] = path[Cache!Tmp(f)]
          /\ data'[path[Cache!Tmp(f)]] = kept /\ Len(kept) \in Nat
      BY <1>3, <1>4, <1>10, <1>11 DEF DownIInv, Cache!TypeOK
    <3> QED BY <1>10, <2>1, <3>1 DEF Cache!Kept
  <2>2. CASE g # f
    BY <1>1, <1>9, <2>2, UntouchedIsKept, PathsDiffer DEF DownIInv
  <2> QED BY <2>1, <2>2
<1> QED BY <1>12, <1>13

LEMMA CurlWritesKeeps ==
  ASSUME DownIInv, NEW s \in Cache!Curls, Cache!CurlWrites(s), Cache!TypeOK'
  PROVE  DownIInv' /\ \A g \in Files : Cache!Kept(g)
<1> DEFINE f == want[s]
           i == path[Cache!Tmp(f)]
           n == curl[s].next
<1>1. /\ Cache!Running(s) /\ curl[s].inode # 0 /\ n <= Size /\ UNCHANGED <<pc, want, fd, path>>
      /\ s \in Scripts /\ f \in Files /\ Continues(s) /\ curl[s].file = f /\ pc[s] = "curl"
  BY RunningHolds DEF Cache!CurlWrites
<1>2. curl[s].inode = i /\ i \in Inodes /\ i # 0 /\ data[i] \in Seq(Cache!Chunks)
      /\ n = Len(data[i]) + 1 /\ Cache!Tmp(f) \in Cache!Paths
  BY <1>1, PathsDiffer DEF Continues, DownIInv, Cache!TypeOK
<1>3. Prefix(f, data[i])
  BY <1>1, <1>2 DEF DownIInv, Prefixes
<1>4. /\ data'[i] = Append(data[i], <<f, n>>) \/ data'[i] = Cache!WrittenAt(data[i], n, <<f, n>>)
      /\ \A k \in Inodes : k # i => data'[k] = data[k]
  BY <1>1, <1>2 DEF Cache!CurlWrites, DownIInv, Cache!TypeOK
<1>5. Prefix(f, data'[i]) /\ Len(data'[i]) = n
  <2>1. ASSUME NEW d \in Seq(Cache!Chunks), NEW e, NEW m, m <= Size, m = Len(d) + 1, Prefix(f, d),
               e = Append(d, <<f, m>>) \/ e = Cache!WrittenAt(d, m, <<f, m>>)
        PROVE  Prefix(f, e) /\ Len(e) = m
    <3> HIDE DEF f
    <3> QED BY <2>1, Grown
  <2> HIDE DEF f, i, n
  <2>2. ASSUME NEW e, e = Append(data[i], <<f, n>>) \/ e = Cache!WrittenAt(data[i], n, <<f, n>>)
        PROVE  Prefix(f, e) /\ Len(e) = n
    <3> DEFINE d == data[i]
    <3>1. d \in Seq(Cache!Chunks) /\ n = Len(d) + 1 /\ Prefix(f, d) /\ n <= Size
          /\ (e = Append(d, <<f, n>>) \/ e = Cache!WrittenAt(d, n, <<f, n>>))
      BY <1>1, <1>2, <1>3, <2>2
    <3> HIDE DEF d
    <3> QED BY <2>1, <3>1
  <2> QED BY <1>4, <2>2
<1>6. /\ curl'[s] = Transfer(f, n + 1, curl[s].append, i)
         /\ \A c \in Cache!Curls : c # s => curl'[c] = curl[c]
  BY <1>1, <1>2, TransferChanges DEF Cache!CurlWrites, DownIInv, Cache!TypeOK
<1>7. Proceeds(s)'
  <2>1. n + 1 <= Size + 1
    BY <1>1, <1>2, InodesArePositive
  <2>2. Continues(s)'
    BY <1>1, <1>2, <1>5, <1>6, <2>1, TransferTypes DEF Continues
  <2> QED BY <1>1, <1>6, <2>2, TransferTypes DEF Proceeds
<1>8. \A p \in Cache!Paths : p # Cache!Tmp(f) => path[p] # i /\ path'[p] = path[p]
      /\ (path[p] # 0 => data'[path[p]] = data[path[p]])
  BY <1>1, <1>2, <1>4 DEF DownIInv, Cache!TypeOK, OwnInodes
<1>9. DownIInv'
  BY <1>1, <1>2, <1>5, <1>6, <1>7, <1>8, OwnFileKeeps
<1>10. ASSUME NEW g \in Files PROVE Cache!Kept(g)
  <2>1. CASE g = f
    <3>1. Len(data[i]) \in Nat /\ Len(data'[i]) >= Len(data[i])
      <4> HIDE DEF n, i
      <4> QED BY <1>2, <1>5
    <3> QED BY <1>1, <2>1, <3>1 DEF Cache!Kept
  <2>2. CASE g # f
    BY <1>1, <1>8, <2>2, UntouchedIsKept, PathsDiffer DEF DownIInv
  <2> QED BY <2>1, <2>2
<1> QED BY <1>9, <1>10

LEMMA CurlStopsKeeps ==
  ASSUME DownIInv, NEW s \in Cache!Curls, Cache!CurlEnds(s)
         \/ Cache!CurlFails(s), Cache!TypeOK' PROVE DownIInv'
<1>1. /\ Cache!Running(s) /\ UNCHANGED <<pc, want, fd, path, data>> /\ s \in Scripts
         /\ s # Cache!Left /\ want[s] \in Files
      /\ Continues(s) /\ pc[s] = "curl"
  BY RunningHolds DEF Cache!CurlEnds, Cache!CurlFails
<1>2. \A c \in Cache!Curls : c # s => curl'[c] = curl[c]
  BY DEF Cache!CurlEnds, Cache!CurlFails, DownIInv, Cache!TypeOK
<1>3. /\ \A p \in Cache!Paths : p # Cache!Tmp(want[s]) => path[p] # path[Cache!Tmp(want[s])]
         \/ path[p] = 0
      /\ path[Cache!Tmp(want[s])] # 0 => Prefix(want[s], data[path[Cache!Tmp(want[s])]])
  BY <1>1, PathsDiffer DEF DownIInv, OwnInodes, Prefixes
<1>4. Proceeds(s)'
  <2>1. CASE Cache!CurlFails(s)
    <3>1. curl'[s] = [state |-> "failed"]
      BY <1>1, <2>1 DEF Cache!CurlFails, DownIInv, Cache!TypeOK
    <3>2. curl'[s].state = "failed"
      BY <3>1
    <3> QED BY <1>1, <3>2 DEF Proceeds, Cache!Running
  <2>2. CASE Cache!CurlEnds(s)
    <3>1. curl'[s] = [state |-> "ok"] /\ curl[s].next > Size
      BY <1>1, <2>2 DEF Cache!CurlEnds, DownIInv, Cache!TypeOK
    <3>2. curl'[s].state = "ok"
      BY <3>1
    <3>3. curl[s].next = Size + 1 /\ path[Cache!Tmp(want[s])] # 0
      BY <1>1, <3>1, CurlTypes, InodesArePositive DEF Continues, DownIInv
    <3>4. data[path[Cache!Tmp(want[s])]] \in Seq(Cache!Chunks)
      BY <1>1, <3>3, PathsDiffer DEF DownIInv, Cache!TypeOK
    <3>5. Len(data[path[Cache!Tmp(want[s])]]) = Size
      BY <1>1, <3>3, <3>4, InodesArePositive DEF Continues
    <3>6. Fetched(want[s])
      BY <1>3, <3>3, <3>4, <3>5, PrefixIsWhole DEF Fetched
    <3> QED BY <1>1, <3>2, <3>6 DEF Proceeds, Cache!Running, Fetched
  <2> QED BY <2>1, <2>2
<1>5. \A p \in Cache!Paths : (p # Cache!Tmp(want[s])
      /\ path[Cache!Tmp(want[s])] # 0) => path[p] # path[Cache!Tmp(want[s])]
  BY <1>3
<1> QED BY <1>1, <1>2, <1>3, <1>4, <1>5, OwnFileKeeps

LEMMA RebootKeeps ==
  ASSUME DownIInv, Cache!Reboot, Cache!TypeOK' PROVE DownIInv'
<1>1. Cache!Left \in Cache!Curls /\ \A s \in Scripts : s \in Cache!Curls
  BY DEF Cache!Curls
<1>2. OwnLock' /\ OneHolder' /\ NoneLeft'
  BY <1>1 DEF Cache!Reboot, OwnLock, OneHolder, NoneLeft
<1>3. Progress'
  BY <1>1, TransferTypes DEF Cache!Reboot, Progress, Proceeds, Cache!Running
<1> QED BY <1>2, <1>3, FilesUntouched DEF Cache!Reboot, DownIInv

LEMMA CleanUpKeeps ==
  ASSUME DownIInv, NEW f \in Files, Cache!CleanUp(Cache!Dest(f)), Cache!TypeOK' PROVE DownIInv'
<1>1. /\ \A p \in Cache!Paths : p # Cache!Dest(f) => path'[p] = path[p]
      /\ path'[Cache!Dest(f)] = 0 /\ UNCHANGED <<pc, want, fd, curl, data>>
  BY PathsDiffer DEF Cache!CleanUp, DownIInv, Cache!TypeOK
<1>2. OwnInodes'
  BY <1>1 DEF DownIInv, OwnInodes
<1>3. OwnLock' /\ OneHolder' /\ NoneLeft' /\ Prefixes' /\ Cache!DestinationIsWhole'
  BY <1>1, PathsDiffer, WorkersHold DEF DownIInv, OwnLock, OneHolder, NoneLeft, Prefixes,
       Cache!DestinationIsWhole
<1>4. Progress'
  <2> SUFFICES ASSUME NEW t \in Scripts PROVE Proceeds(t)'
    BY DEF Progress
  <2> QED BY <1>1, PathsDiffer, WorkersHold, StaysSame DEF DownIInv, Progress
<1> QED BY <1>1, <1>2, <1>3, <1>4 DEF DownIInv

LEMMA DownStep ==
  ASSUME DownIInv, [Cache!Next /\ Careful]_(Cache!vars) PROVE DownIInv'
<1>1. Cache!TypeOK'
  BY TypeStep DEF DownIInv
<1>2. ASSUME NEW s \in Scripts, Careful, Cache!Call(s) \/ Cache!Step(s) \/ Cache!GiveUp(s)
             \/ Cache!CheckFails(s) \/ Cache!LeaveCurl(s)
      PROVE  DownIInv'
  BY <1>1, <1>2, CallKeeps, TouchKeeps, LockKeeps, CheckExistsKeeps, CurlExitedKeeps, CheckKeeps,
       ReplaceKeeps,
     GiveUpKeeps DEF Careful, Cache!Step
<1>3. ASSUME NEW c \in Cache!Curls, Cache!CurlStep(c) \/ Cache!CurlFails(c) PROVE DownIInv'
  BY <1>1, <1>3, CurlOpensKeeps, CurlWritesKeeps, CurlStopsKeeps DEF Cache!CurlStep
<1>4. CASE Cache!Reboot
  BY <1>1, <1>4, RebootKeeps
<1>5. ASSUME NEW p \in Cache!Paths, Cache!CleanUp(p), Careful PROVE DownIInv'
  <2>1. PICK f \in Files : p \in {Cache!Lock(f), Cache!Dest(f), Cache!Tmp(f)}
    BY DEF Cache!Paths
  <2> QED BY <1>1, <1>5, <2>1, CleanUpKeeps DEF Careful
<1>6. CASE UNCHANGED Cache!vars
  <2>1. Progress'
    BY <1>6, StaysSame DEF DownIInv, Progress, Cache!vars
  <2> QED BY <1>1, <1>6, <2>1, FilesUntouched DEF DownIInv, Cache!vars, NoneLeft, OwnLock, OneHolder
<1> QED BY <1>2, <1>3, <1>4, <1>5, <1>6 DEF Cache!Next

LEMMA DownSafe == DownIInv => Cache!Safety
<1> SUFFICES ASSUME DownIInv PROVE Cache!Safety
  OBVIOUS
<1>1. Cache!MutualExclusion
  BY HoldersDiffer DEF Cache!MutualExclusion
<1>2. Cache!OneTransfer
  <2> SUFFICES ASSUME NEW c \in Cache!Curls,
                      NEW d \in Cache!Curls, c # d, Cache!Running(c), Cache!Running(d)
               PROVE  Cache!Tmp(curl[c].file) # Cache!Tmp(curl[d].file)
    BY DEF Cache!OneTransfer
  <2> QED BY RunningHolds, PathsDiffer
<1> QED BY <1>1, <1>2 DEF Cache!Safety, DownIInv

LEMMA DownKept ==
  ASSUME DownIInv, [Cache!Next /\ Careful]_(Cache!vars), NEW f \in Files PROVE Cache!Kept(f)
<1>1. Cache!TypeOK /\ Cache!TypeOK'
  BY TypeStep DEF DownIInv
<1>2. ASSUME UNCHANGED <<path, data>> PROVE Cache!Kept(f)
  BY <1>1, <1>2, UntouchedIsKept
<1>3. ASSUME NEW s \in Scripts, Cache!Touch(s) PROVE Cache!Kept(f)
  <2>1. want[s] \in Files
    BY WorkersHold
  <2> QED BY <1>1, <1>2, <1>3, <2>1, FreshIsNew, PathsDiffer, UntouchedIsKept DEF Cache!Touch,
          Cache!TypeOK
<1>4. ASSUME NEW s \in Scripts, Cache!Check(s) PROVE Cache!Kept(f)
  BY <1>1, <1>2, <1>4, CheckKeeps DEF Cache!Check
<1>5. ASSUME NEW s \in Scripts, Cache!Replace(s) PROVE Cache!Kept(f)
  <2>1. want[s] \in Files /\ data' = data
    BY <1>5, WorkersHold DEF Cache!Replace
  <2>2. CASE path[Cache!Tmp(want[s])] = 0
    BY <1>2, <1>5, <2>1, <2>2 DEF Cache!Replace
  <2>3. CASE path[Cache!Tmp(want[s])] # 0 /\ want[s] = f
    <3>1. path'[Cache!Dest(f)] = path[Cache!Tmp(f)]
      BY <1>1, <1>5, <2>3, PathsDiffer DEF Cache!Replace, Cache!TypeOK
    <3> QED BY <3>1 DEF Cache!Kept
  <2>4. CASE want[s] # f
    BY <1>1, <1>5, <2>1, <2>4, PathsDiffer, UntouchedIsKept DEF Cache!Replace, Cache!TypeOK
  <2> QED BY <2>2, <2>3, <2>4
<1>6. ASSUME NEW s \in Scripts, Careful, Cache!Call(s) \/ Cache!Step(s) \/ Cache!GiveUp(s)
             \/ Cache!CheckFails(s) \/ Cache!LeaveCurl(s)
      PROVE  Cache!Kept(f)
  <2>1. CASE Cache!Call(s) \/ Cache!LockFile(s) \/ Cache!CheckExists(s) \/ Cache!CurlExited(s)
             \/ Cache!GiveUp(s) \/ Cache!CheckFails(s)
    BY <1>2, <2>1 DEF Cache!Call, Cache!LockFile, Cache!CheckExists, Cache!CurlExited,
         Cache!GiveUp, Cache!CheckFails
  <2> QED BY <1>3, <1>4, <1>5, <1>6, <2>1 DEF Cache!Step, Careful
<1>7. ASSUME NEW c \in Cache!Curls, Cache!CurlStep(c) \/ Cache!CurlFails(c) PROVE Cache!Kept(f)
  <2>1. CASE Cache!CurlEnds(c) \/ Cache!CurlFails(c)
    BY <1>2, <2>1 DEF Cache!CurlEnds, Cache!CurlFails
  <2> QED BY <1>1, <1>7, <2>1, CurlOpensKeeps, CurlWritesKeeps DEF Cache!CurlStep
<1>8. ASSUME NEW p \in Cache!Paths, Cache!CleanUp(p), Careful PROVE Cache!Kept(f)
  <2>1. PICK g \in Files : p \in {Cache!Lock(g), Cache!Dest(g), Cache!Tmp(g)}
    BY DEF Cache!Paths
  <2>2. p = Cache!Dest(g)
    BY <1>8, <2>1 DEF Careful
  <2> QED BY <1>1, <1>8, <2>2, PathsDiffer, UntouchedIsKept DEF Cache!CleanUp, Cache!TypeOK
<1>9. CASE UNCHANGED Cache!vars \/ Cache!Reboot
  BY <1>2, <1>9 DEF Cache!vars, Cache!Reboot
<1> QED BY <1>6, <1>7, <1>8, <1>9 DEF Cache!Next

---------------------------------------------------------------------------
(* The virtual machines *)

LEMMA VmA == Boxes!ConstantsAssumption
BY PartsAssumption

(* The inductive invariant *)

Away == {"start", "ended"}
Preparing == {"terminate", "settings", "folder"}
NoneOpen == Away \union Preparing \union {"idle"}
Purging == {"off", "unregister", "delete", "register", "create"}

ProcType ==
  proc \in [Processes -> [at : Boxes!Steps, user : Users \union {None}, open : Seq(Nat),
                          snapshot : Snapshots \union {None}, closing : BOOLEAN]]
ClaimRecords == [by : Processes, slot : Slots, snapshot : Snapshots, left : BOOLEAN]
ClaimType == claims \in Seq(ClaimRecords)
MachineRecords == [registered : BOOLEAN, running : BOOLEAN, of : {Boxes!NoClaim} \union Boxes!Claims]
BoxType ==
  /\ machine \in [Users -> [Slots -> MachineRecords]]
  /\ boxDisk \in [Users -> [Slots -> {Boxes!NoClaim} \union Boxes!Claims]]
  /\ media \in [Users -> SUBSET Snapshots]
LockType ==
  /\ userLock \in [Users -> Processes \union {None}]
  /\ slotLock \in [Slots -> Processes \union {None}]
  /\ boxFaults \in 0 .. MaxBoxFaults
Types == ProcType /\ ClaimType /\ BoxType /\ LockType

Opened(p) == proc[p].open
At(p) == proc[p].at
Has(u, s, c) == machine[u][s].of = c \/ boxDisk[u][s] = c

\* A process has its account and the slots of its claims.
HasLocks(p) ==
  /\ At(p) \notin Away => Boxes!User(p) \in Users /\ userLock[Boxes!User(p)] = p
  /\ At(p) \in NoneOpen => Opened(p) = <<>>
  /\ At(p) \notin NoneOpen \union {"claim"} => Opened(p) # <<>>
  /\ \A i \in 1 .. Len(Opened(p)) :
       /\ Opened(p)[i] \in Boxes!Claims /\ claims[Opened(p)[i]].by = p
       /\ slotLock[claims[Opened(p)[i]].slot] = p
  /\ \A i, j \in 1 .. Len(Opened(p)) : claims[Opened(p)[i]].slot = claims[Opened(p)[j]].slot
     => i = j
  /\ Len(Opened(p)) <= MaxNested
  /\ At(p) = "claim" => Len(Opened(p)) < MaxNested /\ proc[p].snapshot \in Snapshots

\* The machine and the disk of claim c as a test uses them.
Usable(p, c) ==
  /\ machine[Boxes!User(p)][claims[c].slot] = [registered |-> TRUE, running |-> TRUE, of |-> c]
  /\ boxDisk[Boxes!User(p)][claims[c].slot] = c

\* All claims but the last are in use, the last one at some steps.
HasMachines(p) ==
  \A i \in 1 .. Len(Opened(p)) :
    (i # Len(Opened(p)) \/ At(p) \in {"use", "claim"}) => Usable(p, Opened(p)[i])

\* What there is under the account and the name of the machine that is opened or closed.
Staged(p) ==
  /\ At(p) \in {"register", "create", "power_on"} => ~proc[p].closing
  /\ At(p) \in {"create", "power_on"} => Boxes!Machine(p).registered
     /\ Boxes!Machine(p).of = Boxes!Top(p)
  /\ At(p) = "power_on" => boxDisk[Boxes!User(p)][Boxes!Slot(p)] = Boxes!Top(p)
  /\ (At(p) = "delete" /\ proc[p].closing) => claims[Boxes!Top(p)].left
     \/ Boxes!Machine(p) = Boxes!NoMachine
  /\ At(p) = "release" =>
       claims[Boxes!Top(p)].left \/ (Boxes!Machine(p).of # Boxes!Top(p)
         /\ boxDisk[Boxes!User(p)][Boxes!Slot(p)] # Boxes!Top(p))
  /\ (At(p) \in Purging /\ ~proc[p].closing) => boxDisk[Boxes!User(p)][Boxes!Slot(p)] # Boxes!Top(p)

\* The account holds what its process made, once it is prepared.
Prepared(p) ==
  /\ At(p) = "settings" => \A s \in Slots : ~machine[Boxes!User(p)][s].running
  /\ At(p) = "folder" => \A s \in Slots : machine[Boxes!User(p)][s] = Boxes!NoMachine
  /\ At(p) \notin Away \union Preparing =>
       \A s \in Slots :
         /\ machine[Boxes!User(p)][s].of # Boxes!NoClaim
            => claims[machine[Boxes!User(p)][s].of].by = p
         /\ boxDisk[Boxes!User(p)][s] # Boxes!NoClaim => claims[boxDisk[Boxes!User(p)][s]].by = p

\* The parent of the disk that is about to be made.
HasParent(p) ==
  (\A c \in Boxes!Claims : claims[c].by = p => ~claims[c].left) =>
    /\ At(p) = "claim" => proc[p].snapshot \in media[Boxes!User(p)]
    /\ (At(p) \in Purging
       /\ ~proc[p].closing) => claims[Boxes!Top(p)].snapshot \in media[Boxes!User(p)]

Fine(p) == HasLocks(p) /\ HasMachines(p) /\ Staged(p) /\ Prepared(p) /\ HasParent(p)

Registered ==
  \A u \in Users : \A s \in Slots :
    IF machine[u][s].registered THEN machine[u][s].of \in Boxes!Claims ELSE machine[u][s] = Boxes!NoMachine

\* A claim is where its process put it, or was left behind.
Placed(u, s, c) ==
  /\ claims[c].slot = s
  /\ claims[c].left \/ \E p \in Processes : c \in Boxes!Range(Opened(p))
  /\ \A p \in Processes : c \in Boxes!Range(Opened(p)) => Boxes!User(p) = u
Places == \A u \in Users : \A s \in Slots : \A c \in Boxes!Claims : Has(u, s, c) => Placed(u, s, c)

VmIInv == Types /\ (\A p \in Processes : Fine(p)) /\ Registered /\ Places

(* Records and sequences *)

LEMMA TypesAreTypeOK ==
  /\ Boxes!TypeOK => Types
  /\ Types /\ (\A p \in Processes : Fine(p)) => Boxes!TypeOK
<1>1. Boxes!TypeOK => Types
  BY DEF Boxes!TypeOK, Types, ProcType, ClaimType, ClaimRecords, BoxType, LockType, MachineRecords
<1>2. ASSUME Types, \A p \in Processes : Fine(p) PROVE Boxes!TypeOK
  <2> SUFFICES ASSUME NEW p \in Processes
               PROVE  /\ Boxes!Range(proc[p].open) \subseteq Boxes!Claims
                         /\ Len(proc[p].open) <= MaxNested
                      /\ proc[p].at \in Boxes!Opening \union {"use", "release"}
                         => slotLock[Boxes!Slot(p)] = p
    BY <1>2 DEF Boxes!TypeOK, Types, ProcType, ClaimType, ClaimRecords, BoxType, LockType,
         MachineRecords
  <2>1. proc[p].open \in Seq(Nat) /\ HasLocks(p)
    BY <1>2 DEF Types, ProcType, Fine
  <2>2. Boxes!Range(proc[p].open) \subseteq Boxes!Claims /\ Len(proc[p].open) <= MaxNested
    BY <2>1 DEF HasLocks, Opened, Boxes!Range
  <2>3. ASSUME proc[p].at \in Boxes!Opening \union {"use", "release"} PROVE slotLock[Boxes!Slot(p)] = p
    <3>1. Opened(p) # <<>> /\ Opened(p) \in Seq(Nat)
      BY <2>1, <2>3 DEF HasLocks, At, NoneOpen, Away, Preparing, Boxes!Opening, Opened
    <3>2. Len(Opened(p)) \in 1 .. Len(Opened(p))
      BY <3>1
    <3> QED BY <2>1, <3>2 DEF HasLocks, Boxes!Slot, Boxes!Top, Boxes!Last, Opened
  <2> QED BY <2>2, <2>3
<1> QED BY <1>1, <1>2

\* The shapes of the steps of a process.
LEMMA GoesTo ==
  ASSUME ProcType, NEW p \in Processes, NEW e \in Boxes!Steps, Boxes!GoTo(p, e)
  PROVE  /\ ProcType' /\ At(p)' = e /\ Boxes!User(p)' = Boxes!User(p) /\ Opened(p)' = Opened(p)
         /\ proc'[p].snapshot = proc[p].snapshot /\ proc'[p].closing = proc[p].closing
         /\ \A q \in Processes : q # p => proc'[q] = proc[q]
BY DEF Boxes!GoTo, ProcType, At, Boxes!User, Opened

LEMMA GoesToClosing ==
  ASSUME ProcType, NEW p \in Processes, NEW e \in Boxes!Steps, NEW b \in BOOLEAN,
         proc' = [proc EXCEPT ![p] = [@ EXCEPT !.at = e, !.closing = b]]
  PROVE  /\ ProcType' /\ At(p)' = e /\ Boxes!User(p)' = Boxes!User(p) /\ Opened(p)' = Opened(p)
         /\ proc'[p].snapshot = proc[p].snapshot /\ proc'[p].closing = b
         /\ \A q \in Processes : q # p => proc'[q] = proc[q]
BY DEF ProcType, At, Boxes!User, Opened

LEMMA GoesToWithUser ==
  ASSUME ProcType, NEW p \in Processes, NEW e \in Boxes!Steps, NEW u \in Users,
         proc' = [proc EXCEPT ![p] = [@ EXCEPT !.at = e, !.user = u]]
  PROVE  /\ ProcType' /\ At(p)' = e /\ Boxes!User(p)' = u /\ Opened(p)' = Opened(p)
         /\ proc'[p].snapshot = proc[p].snapshot /\ proc'[p].closing = proc[p].closing
         /\ \A q \in Processes : q # p => proc'[q] = proc[q]
BY DEF ProcType, At, Boxes!User, Opened

LEMMA GoesToWithSnapshot ==
  ASSUME ProcType, NEW p \in Processes, NEW e \in Boxes!Steps, NEW x \in Snapshots \union {None},
         proc' = [proc EXCEPT ![p] = [@ EXCEPT !.at = e, !.snapshot = x]]
  PROVE  /\ ProcType' /\ At(p)' = e /\ Boxes!User(p)' = Boxes!User(p) /\ Opened(p)' = Opened(p)
         /\ proc'[p].snapshot = x /\ proc'[p].closing = proc[p].closing
         /\ \A q \in Processes : q # p => proc'[q] = proc[q]
BY DEF ProcType, At, Boxes!User, Opened

LEMMA GoesToOpening ==
  ASSUME ProcType, NEW p \in Processes, NEW e \in Boxes!Steps, NEW b \in BOOLEAN,
         NEW x \in Snapshots \union {None}, NEW o \in Seq(Nat),
         proc' = [proc EXCEPT ![p] = [@ EXCEPT !.at = e, !.closing = b, !.snapshot = x, !.open = o]]
  PROVE  /\ ProcType' /\ At(p)' = e /\ Boxes!User(p)' = Boxes!User(p) /\ Opened(p)' = o
         /\ proc'[p].snapshot = x /\ proc'[p].closing = b
         /\ \A q \in Processes : q # p => proc'[q] = proc[q]
BY DEF ProcType, At, Boxes!User, Opened

LEMMA GoesToFront ==
  ASSUME ProcType, NEW p \in Processes, NEW e \in Boxes!Steps, NEW o \in Seq(Nat),
         proc' = [proc EXCEPT ![p] = [@ EXCEPT !.open = o, !.at = e]]
  PROVE  /\ ProcType' /\ At(p)' = e /\ Boxes!User(p)' = Boxes!User(p) /\ Opened(p)' = o
         /\ proc'[p].snapshot = proc[p].snapshot /\ proc'[p].closing = proc[p].closing
         /\ \A q \in Processes : q # p => proc'[q] = proc[q]
BY DEF ProcType, At, Boxes!User, Opened

LEMMA ClaimTypes ==
  ASSUME Types, NEW c \in Boxes!Claims
  PROVE  claims[c].by \in Processes /\ claims[c].slot \in Slots /\ claims[c].snapshot \in Snapshots
         /\ claims[c].left \in BOOLEAN
<1>1. claims[c] \in ClaimRecords
  BY DEF Types, ClaimType, Boxes!Claims
<1> QED BY <1>1 DEF ClaimRecords

LEMMA TopIsOpen ==
  ASSUME Types, NEW p \in Processes, HasLocks(p), Opened(p) # <<>>
  PROVE  /\ Len(Opened(p)) \in 1 .. Len(Opened(p)) /\ Boxes!Top(p) = Opened(p)[Len(Opened(p))]
            /\ Boxes!Top(p) \in Boxes!Claims
         /\ claims[Boxes!Top(p)].by = p /\ Boxes!Slot(p) \in Slots /\ slotLock[Boxes!Slot(p)] = p
         /\ Boxes!Top(p) \in Boxes!Range(Opened(p))
<1>1. Opened(p) \in Seq(Nat) /\ Len(Opened(p)) \in 1 .. Len(Opened(p))
  BY DEF Types, ProcType, Opened
<1>2. Boxes!Top(p) = Opened(p)[Len(Opened(p))]
  BY DEF Boxes!Top, Boxes!Last, Opened
<1>3. Boxes!Top(p) \in Boxes!Claims /\ claims[Boxes!Top(p)].by = p /\ slotLock[Boxes!Slot(p)] = p
  BY <1>1, <1>2 DEF HasLocks, Boxes!Slot
<1>4. Boxes!Slot(p) \in Slots
  BY <1>3, ClaimTypes DEF Boxes!Slot
<1> QED BY <1>1, <1>2, <1>3, <1>4 DEF Boxes!Range

\* What other processes do.
Others(p) ==
  /\ \A q \in Processes : q # p => proc'[q] = proc[q]
  /\ \A u \in Users : userLock[u] \notin {p, None} => userLock'[u] = userLock[u]
  /\ \A s \in Slots : slotLock[s] \notin {p, None} => slotLock'[s] = slotLock[s]
  /\ \A u \in Users : At(p) \in Away \/ u # Boxes!User(p) =>
       machine'[u] = machine[u] /\ boxDisk'[u] = boxDisk[u] /\ media'[u] = media[u]
  /\ Len(claims') >= Len(claims)
  /\ \A c \in Boxes!Claims : /\ claims'[c].by = claims[c].by /\ claims'[c].slot = claims[c].slot
                             /\ claims'[c].snapshot = claims[c].snapshot
                             /\ claims[c].left => claims'[c].left
                             /\ claims[c].by # p => claims'[c] = claims[c]

LEMMA OthersStayFine ==
  ASSUME VmIInv, NEW p \in Processes, Others(p), Types', NEW q \in Processes, q # p
  PROVE  Fine(q)'
<1>1. /\ Fine(q) /\ proc'[q] = proc[q] /\ At(q)' = At(q) /\ Boxes!User(q)' = Boxes!User(q)
         /\ Opened(q)' = Opened(q)
      /\ Opened(q) \in Seq(Nat) /\ Boxes!Top(q)' = Boxes!Top(q)
  BY DEF VmIInv, Others, At, Boxes!User, Opened, Types, ProcType, Boxes!Top
<1>2. Boxes!Claims \subseteq Boxes!Claims'
      /\ \A c \in Boxes!Claims : claims'[c].slot = claims[c].slot /\ claims'[c].by = claims[c].by
                                                   /\ (claims[c].by = q => claims'[c] = claims[c])
  BY DEF Others, Boxes!Claims, VmIInv, Types, ClaimType
<1>3. At(q) \notin Away => Boxes!User(q) \in Users /\ userLock'[Boxes!User(q)] = q
      /\ machine'[Boxes!User(q)] = machine[Boxes!User(q)]
                           /\ boxDisk'[Boxes!User(q)] = boxDisk[Boxes!User(q)]
                              /\ media'[Boxes!User(q)] = media[Boxes!User(q)]
  <2>1. At(q) \notin Away => Boxes!User(q) \in Users /\ userLock[Boxes!User(q)] = q
    BY <1>1 DEF Fine, HasLocks
  <2>2. At(p) \notin Away => Boxes!User(p) \in Users /\ userLock[Boxes!User(p)] = p
    BY DEF VmIInv, Fine, HasLocks
  <2>3. q # None
    BY VmA DEF Boxes!ConstantsAssumption
  <2> QED BY <2>1, <2>2, <2>3 DEF Others
<1>4. HasLocks(q)'
  <2>1. \A i \in 1 .. Len(Opened(q)) : Opened(q)[i] \in Boxes!Claims
        /\ claims[Opened(q)[i]].slot \in Slots
    BY <1>1, ClaimTypes DEF Fine, HasLocks, VmIInv
  <2>2. q # None
    BY VmA DEF Boxes!ConstantsAssumption
  <2>3. \A i \in 1 .. Len(Opened(q)) : slotLock'[claims[Opened(q)[i]].slot] = q
    BY <1>1, <2>1, <2>2 DEF Fine, HasLocks, Others
  <2> QED BY <1>1, <1>2, <1>3, <2>1, <2>3 DEF HasLocks, Fine
<1>5. Opened(q) = <<>> => At(q) \in NoneOpen \union {"claim"}
  BY <1>1 DEF Fine, HasLocks
<1>6. Opened(q) # <<>> =>
        /\ At(q) \notin Away /\ Boxes!Top(q) \in Boxes!Claims
           /\ claims'[Boxes!Top(q)] = claims[Boxes!Top(q)]
        /\ Boxes!Slot(q)' = Boxes!Slot(q) /\ Boxes!Machine(q)' = Boxes!Machine(q)
  <2> SUFFICES ASSUME Opened(q) # <<>>
               PROVE  /\ At(q) \notin Away /\ Boxes!Top(q) \in Boxes!Claims
                         /\ claims'[Boxes!Top(q)] = claims[Boxes!Top(q)]
                      /\ Boxes!Slot(q)' = Boxes!Slot(q) /\ Boxes!Machine(q)' = Boxes!Machine(q)
    OBVIOUS
  <2>1. At(q) \notin Away
    BY <1>1 DEF Fine, HasLocks, NoneOpen
  <2>2. Boxes!Top(q) \in Boxes!Claims /\ claims[Boxes!Top(q)].by = q
    BY <1>1, TopIsOpen DEF Fine, VmIInv
  <2>3. claims'[Boxes!Top(q)] = claims[Boxes!Top(q)] /\ Boxes!Slot(q)' = Boxes!Slot(q)
    BY <1>1, <1>2, <2>2 DEF Boxes!Slot
  <2> QED BY <1>1, <1>3, <2>1, <2>2, <2>3 DEF Boxes!Machine
<1>7. HasMachines(q)'
  <2>1. \A i \in 1 .. Len(Opened(q)) : Opened(q)[i] \in Boxes!Claims /\ At(q) \notin Away
    BY <1>1 DEF Fine, HasLocks, NoneOpen
  <2>2. \A i \in 1 .. Len(Opened(q)) : Usable(q, Opened(q)[i])' = Usable(q, Opened(q)[i])
    BY <1>1, <1>2, <1>3, <2>1 DEF Usable
  <2>3. HasMachines(q)
    BY <1>1 DEF Fine
  <2> QED BY <1>1, <2>2, <2>3 DEF HasMachines
<1>8. Staged(q)'
  <2>1. CASE Opened(q) = <<>>
    BY <1>1, <1>5, <2>1 DEF Staged, NoneOpen, Away, Preparing, Purging
  <2>2. CASE Opened(q) # <<>>
    BY <1>1, <1>3, <1>6, <2>2 DEF Fine, Staged
  <2> QED BY <2>1, <2>2
<1>9. Prepared(q)'
  <2>1. \A s \in Slots : At(q) \notin Away =>
          machine[Boxes!User(q)][s].of \in {Boxes!NoClaim} \union Boxes!Claims
            /\ boxDisk[Boxes!User(q)][s] \in {Boxes!NoClaim} \union Boxes!Claims
    BY <1>3 DEF VmIInv, Types, BoxType, MachineRecords
  <2>2. \A c \in Boxes!Claims : claims'[c].by = claims[c].by
    BY <1>2
  <2> QED BY <1>1, <1>3, <2>1, <2>2 DEF Fine, Prepared, Away
<1>10. HasParent(q)'
  <2>1. CASE Opened(q) = <<>>
    BY <1>1, <1>2, <1>3, <1>5, <2>1 DEF Fine, HasParent, NoneOpen, Away, Preparing, Purging
  <2>2. CASE Opened(q) # <<>>
    BY <1>1, <1>2, <1>3, <1>6, <2>2 DEF Fine, HasParent
  <2> QED BY <2>1, <2>2
<1> QED BY <1>4, <1>7, <1>8, <1>9, <1>10 DEF Fine

LEMMA OpenClaims ==
  ASSUME VmIInv, NEW p \in Processes, NEW c, c \in Boxes!Range(Opened(p))
  PROVE  /\ c \in Boxes!Claims /\ claims[c].by = p /\ slotLock[claims[c].slot] = p
         /\ \E i \in 1 .. Len(Opened(p)) : Opened(p)[i] = c
<1>1. Opened(p) \in Seq(Nat) /\ HasLocks(p)
  BY DEF VmIInv, Types, ProcType, Fine, Opened
<1>2. PICK i \in 1 .. Len(Opened(p)) : Opened(p)[i] = c
  BY <1>1 DEF Boxes!Range
<1> QED BY <1>1, <1>2 DEF HasLocks

\* Claims stay where they are put while a process works.
LEMMA PlacesStay ==
  ASSUME VmIInv, NEW p \in Processes, Others(p), Types',
         \A u \in Users : \A s \in Slots : \A c \in Boxes!Claims' : Has(u, s, c)' =>
           /\ c \in Boxes!Claims
           /\ \/ Has(u, s, c)
              \/ c \in Boxes!Range(Opened(p)) /\ u = Boxes!User(p) /\ s = claims[c].slot,
         \A c \in Boxes!Claims : c \in Boxes!Range(Opened(p))' => c \in Boxes!Range(Opened(p))
           /\ Boxes!User(p)' = Boxes!User(p),
         \A c \in Boxes!Claims : c \in Boxes!Range(Opened(p)) =>
           c \in Boxes!Range(Opened(p))' \/ claims'[c].left
             \/ \A u \in Users : \A s \in Slots : ~Has(u, s, c)'
  PROVE  Places'
<1> SUFFICES ASSUME NEW u \in Users, NEW s \in Slots, NEW c \in Boxes!Claims', Has(u, s, c)'
             PROVE  Placed(u, s, c)'
  BY DEF Places
<1>1. c \in Boxes!Claims /\ claims'[c].slot = claims[c].slot /\ (claims[c].left => claims'[c].left)
  BY DEF Others
<1>2. ASSUME NEW q \in Processes,
             NEW r \in Processes, c \in Boxes!Range(Opened(q)), c \in Boxes!Range(Opened(r)) PROVE q = r
  <2>1. \A t \in Processes : c \in Boxes!Range(Opened(t)) => claims[c].by = t
    BY OpenClaims
  <2> QED BY <1>2, <2>1
<1>3. Placed(u, s, c)
  BY <1>1, <1>2 DEF VmIInv, Places, Placed
<1>4. \A q \in Processes : q # p => Boxes!Range(Opened(q))' = Boxes!Range(Opened(q))
      /\ Boxes!User(q)' = Boxes!User(q)
  BY DEF Others, Opened, Boxes!User
<1>5. claims'[c].left \/ \E q \in Processes : c \in Boxes!Range(Opened(q))'
  BY <1>1, <1>3, <1>4 DEF Placed
<1>6. \A q \in Processes : c \in Boxes!Range(Opened(q))' => Boxes!User(q)' = u
  BY <1>1, <1>3, <1>4 DEF Placed
<1> QED BY <1>1, <1>3, <1>5, <1>6 DEF Placed

\* A step that keeps everybody else's and its own part of the invariant.
LEMMA StepKeeps ==
  ASSUME VmIInv, NEW p \in Processes, Others(p), Types', Fine(p)', Registered', Places'
  PROVE  VmIInv'
BY OthersStayFine DEF VmIInv

\* A process without machines.
LEMMA EmptyIsFine ==
  ASSUME NEW p \in Processes, At(p)' \in NoneOpen, Opened(p)' = <<>>,
         At(p)' \notin Away => Boxes!User(p)' \in Users /\ userLock'[Boxes!User(p)'] = p,
         Prepared(p)'
  PROVE  Fine(p)'
<1>1. HasLocks(p)'
  BY VmA DEF HasLocks, NoneOpen, Away, Preparing, Boxes!ConstantsAssumption
<1>2. HasMachines(p)'
  BY DEF HasMachines
<1>3. Staged(p)' /\ HasParent(p)'
  BY DEF Staged, HasParent, NoneOpen, Away, Preparing, Purging
<1> QED BY <1>1, <1>2, <1>3 DEF Fine

LEMMA AwayIsEmpty ==
  ASSUME VmIInv, NEW p \in Processes, At(p) \in NoneOpen
  PROVE  Opened(p) = <<>> /\ Boxes!Range(Opened(p)) = {}
BY DEF VmIInv, Fine, HasLocks, Boxes!Range

LEMMA AcquireUserKeeps ==
  ASSUME VmIInv, NEW p \in Processes, Boxes!AcquireUser(p) \/ Boxes!NoFreeUser(p)
         \/ Boxes!Restart(p) PROVE VmIInv'
<1>1. /\ UNCHANGED <<slotLock, machine, boxDisk, media, claims, boxFaults>> /\ At(p) \in Away
         /\ At(p) \in NoneOpen
  BY DEF Boxes!AcquireUser, Boxes!NoFreeUser, Boxes!Restart, Boxes!boxes, At, Away, NoneOpen
<1>2. /\ ProcType' /\ Opened(p)' = Opened(p) /\ \A q \in Processes : q # p => proc'[q] = proc[q]
      /\ LockType' /\ \A u \in Users : userLock[u] # None => userLock'[u] = userLock[u]
      /\ \/ At(p)' \in Away
         \/ At(p)' = "terminate" /\ Boxes!User(p)' \in Users /\ userLock'[Boxes!User(p)'] = p
  <2>1. CASE Boxes!AcquireUser(p)
    <3>1. PICK u \in Users : /\ Boxes!Unlocked(u) /\ userLock' = [userLock EXCEPT ![u] = p]
                             /\ proc' = [proc EXCEPT ![p] = [@ EXCEPT !.at = "terminate", !.user = u]]
      BY <2>1 DEF Boxes!AcquireUser
    <3>2. "terminate" \in Boxes!Steps
      BY DEF Boxes!Steps
    <3> QED BY <1>1, <3>1, <3>2, GoesToWithUser DEF VmIInv, Types, LockType, Boxes!Unlocked
  <2>2. CASE Boxes!NoFreeUser(p) \/ Boxes!Restart(p)
    <3>1. PICK e \in Away : Boxes!GoTo(p, e) /\ userLock' = userLock
      BY <2>2 DEF Boxes!NoFreeUser, Boxes!Restart, Away
    <3>2. Away \subseteq Boxes!Steps
      BY DEF Away, Boxes!Steps
    <3> QED BY <1>1, <3>1, <3>2, GoesTo DEF VmIInv, Types, LockType, Boxes!GoTo
  <2> QED BY <2>1, <2>2
<1>3. Types'
  BY <1>1, <1>2 DEF VmIInv, Types, ClaimType, BoxType, Boxes!Claims, MachineRecords
<1>4. Others(p)
  BY <1>1, <1>2 DEF Others, VmIInv, Types, ClaimType
<1>5. Fine(p)'
  <2>1. Prepared(p)' /\ At(p)' \in NoneOpen
    BY <1>2 DEF Prepared, Away, Preparing, NoneOpen
  <2> QED BY <1>1, <1>2, <2>1, AwayIsEmpty, EmptyIsFine
<1>6. Registered'
  BY <1>1 DEF VmIInv, Registered, Boxes!Claims
<1>7. Places'
  BY <1>1, <1>2, <1>3, <1>4, AwayIsEmpty, PlacesStay DEF Has, Boxes!Claims
<1> QED BY <1>3, <1>4, <1>5, <1>6, <1>7, StepKeeps

\* What is in the account is only taken away.
LEMMA PrepareKeeps ==
  ASSUME VmIInv, NEW p \in Processes, Boxes!TerminateService(p) \/ Boxes!CleanUpSettings(p)
         \/ Boxes!CleanUpFolder(p) PROVE VmIInv'
<1> DEFINE u == Boxes!User(p)
<1>1. /\ UNCHANGED <<userLock, slotLock, claims, boxFaults>> /\ At(p) \in NoneOpen
         /\ u \in Users /\ userLock[u] = p
  BY DEF Boxes!TerminateService, Boxes!CleanUpSettings, Boxes!CleanUpFolder, At, Away, NoneOpen,
       Preparing, VmIInv, Fine, HasLocks
<1>2. PICK e \in {"settings", "folder", "idle"} : Boxes!GoTo(p, e)
  BY DEF Boxes!TerminateService, Boxes!CleanUpSettings, Boxes!CleanUpFolder
<1>3. /\ ProcType' /\ At(p)' = e /\ Opened(p)' = Opened(p) /\ Boxes!User(p)' = u
      /\ \A q \in Processes : q # p => proc'[q] = proc[q]
  <2>1. e \in Boxes!Steps /\ ProcType
    BY DEF VmIInv, Types, Boxes!Steps, Boxes!Opening
  <2> QED BY <1>2, <2>1, GoesTo
<1> DEFINE M == MachineRecords
<1>4. /\ machine \in [Users -> [Slots -> M]]
         /\ boxDisk \in [Users -> [Slots -> {Boxes!NoClaim} \union Boxes!Claims]]
      /\ media \in [Users -> SUBSET Snapshots]
      /\ \A s \in Slots : machine[u][s] \in M
      /\ \A s \in Slots : ~machine[u][s].registered => machine[u][s] = Boxes!NoMachine
  BY <1>1 DEF VmIInv, Types, BoxType, Registered
<1>5. Boxes!NoMachine \in M /\ Boxes!NoMachine.of = Boxes!NoClaim /\ ~Boxes!NoMachine.running
      /\ ~Boxes!NoMachine.registered
  BY DEF Boxes!NoMachine, MachineRecords
<1>6. /\ machine' \in [Users -> [Slots -> M]]
         /\ boxDisk' \in [Users -> [Slots -> {Boxes!NoClaim} \union Boxes!Claims]]
      /\ media' \in [Users -> SUBSET Snapshots]
      /\ \A v \in Users : v # u => machine'[v] = machine[v] /\ boxDisk'[v] = boxDisk[v]
         /\ media'[v] = media[v]
      /\ \A s \in Slots : machine'[u][s].of \in {machine[u][s].of, Boxes!NoClaim}
         /\ boxDisk'[u][s] \in {boxDisk[u][s], Boxes!NoClaim}
      /\ \A s \in Slots : machine'[u][s] = Boxes!NoMachine
                          \/ (machine[u][s].registered /\ machine'[u][s].of = machine[u][s].of
                             /\ machine'[u][s].registered)
      /\ e = "settings" => \A s \in Slots : ~machine'[u][s].running
      /\ e \in {"folder", "idle"} => \A s \in Slots : machine'[u][s] = Boxes!NoMachine
      /\ e = "idle" => \A s \in Slots : boxDisk'[u][s] = Boxes!NoClaim
  <2>1. CASE Boxes!TerminateService(p)
    <3>1. /\ machine' = [machine EXCEPT ![u] = [s \in Slots |-> [machine[u][s] EXCEPT !.running = FALSE]]]
          /\ UNCHANGED <<boxDisk, media>> /\ At(p)' = "settings"
      <4>1. machine' = [machine EXCEPT ![u] = [s \in Slots |-> [@[s] EXCEPT !.running = FALSE]]]
        BY <2>1 DEF Boxes!TerminateService, Boxes!AfterTerminate
      <4>2. "settings" \in Boxes!Steps /\ ProcType
        BY DEF VmIInv, Types, Boxes!Steps, Boxes!Opening
      <4> QED BY <1>1, <1>4, <2>1, <4>1, <4>2, GoesTo DEF Boxes!TerminateService
    <3>2. ASSUME NEW s \in Slots
          PROVE  /\ [machine[u][s] EXCEPT !.running = FALSE] \in M
                 /\ ~[machine[u][s] EXCEPT !.running = FALSE].running
                 /\ [machine[u][s] EXCEPT !.running = FALSE].of = machine[u][s].of
                 /\ [machine[u][s] EXCEPT !.running = FALSE].registered = machine[u][s].registered
                 /\ ~machine[u][s].registered
                    => [machine[u][s] EXCEPT !.running = FALSE] = Boxes!NoMachine
      <4>1. machine[u][s] \in M
        BY <1>4
      <4>2. ASSUME NEW m \in M
            PROVE  /\ [m EXCEPT !.running = FALSE] \in M
                   /\ ~[m EXCEPT !.running = FALSE].running
                   /\ [m EXCEPT !.running = FALSE].of = m.of
                   /\ [m EXCEPT !.running = FALSE].registered = m.registered
        BY DEF MachineRecords
      <4>3. [Boxes!NoMachine EXCEPT !.running = FALSE] = Boxes!NoMachine
        <5>1. ASSUME NEW a, NEW b, NEW c
              PROVE  [[registered |-> a, running |-> b, of |-> c] EXCEPT !.running = b]
                       = [registered |-> a, running |-> b, of |-> c]
          OBVIOUS
        <5> QED BY <5>1, Zenon DEF Boxes!NoMachine
      <4> HIDE DEF M, u
      <4> QED BY <1>4, <4>1, <4>2, <4>3
    <3> HIDE DEF M, u
    <3> QED BY <1>1, <1>3, <1>4, <3>1, <3>2
  <2>2. CASE Boxes!CleanUpSettings(p)
    <3>1. \A s \in Slots : ~machine[u][s].running /\ At(p)' = "folder"
      <4>1. "folder" \in Boxes!Steps /\ ProcType
        BY DEF VmIInv, Types, Boxes!Steps, Boxes!Opening
      <4>2. At(p)' = "folder"
        BY <2>2, <4>1, GoesTo DEF Boxes!CleanUpSettings
      <4> QED BY <2>2, <4>2 DEF Boxes!CleanUpSettings, VmIInv, Fine, Prepared, At
    <3>2. machine' = [machine EXCEPT ![u] = [s \in Slots |-> Boxes!NoMachine]]
      BY <1>1, <1>4, <2>2, <3>1 DEF Boxes!CleanUpSettings
    <3>3. media' = [media EXCEPT ![u] = {}] /\ boxDisk' = boxDisk
      BY <2>2 DEF Boxes!CleanUpSettings
    <3> HIDE DEF M, u
    <3> QED BY <1>1, <1>3, <1>4, <1>5, <3>1, <3>2, <3>3
  <2>3. CASE Boxes!CleanUpFolder(p)
    <3>1. \A s \in Slots : machine[u][s] = Boxes!NoMachine /\ At(p)' = "idle"
      <4>1. "idle" \in Boxes!Steps /\ ProcType
        BY DEF VmIInv, Types, Boxes!Steps, Boxes!Opening
      <4>2. At(p)' = "idle"
        BY <2>3, <4>1, GoesTo DEF Boxes!CleanUpFolder
      <4> QED BY <2>3, <4>2 DEF Boxes!CleanUpFolder, VmIInv, Fine, Prepared, At
    <3>2. boxDisk' = [boxDisk EXCEPT ![u] = [s \in Slots |-> Boxes!NoClaim]]
          /\ UNCHANGED <<machine, media>>
      BY <2>3 DEF Boxes!CleanUpFolder
    <3> HIDE DEF M, u
    <3> QED BY <1>1, <1>3, <1>4, <1>5, <3>1, <3>2
  <2> QED BY <2>1, <2>2, <2>3
<1>7. Types'
  BY <1>1, <1>3, <1>6 DEF VmIInv, Types, ClaimType, LockType, BoxType, Boxes!Claims, MachineRecords
<1>8. Others(p)
  <2>1. \A v \in Users : At(p) \in Away \/ v # Boxes!User(p) =>
          machine'[v] = machine[v] /\ boxDisk'[v] = boxDisk[v] /\ media'[v] = media[v]
    <3>1. At(p) \notin Away
      BY DEF Boxes!TerminateService, Boxes!CleanUpSettings, Boxes!CleanUpFolder, At, Away
    <3> QED BY <1>6, <3>1
  <2>2. Len(claims) \in Nat
    BY DEF VmIInv, Types, ClaimType
  <2> HIDE DEF M, u
  <2> QED BY <1>1, <1>3, <2>1, <2>2 DEF Others
<1>9. Fine(p)'
  <2>1. Prepared(p)' /\ At(p)' \in NoneOpen
    BY <1>2, <1>3, <1>5, <1>6 DEF Prepared, Away, Preparing, NoneOpen
  <2> QED BY <1>1, <1>3, <2>1, AwayIsEmpty, EmptyIsFine
<1>10. Registered'
  <2> SUFFICES ASSUME NEW v \in Users, NEW s \in Slots
               PROVE  IF machine'[v][s].registered THEN machine'[v][s].of \in Boxes!Claims ELSE machine'[v][s] = Boxes!NoMachine
    BY <1>1 DEF Registered, Boxes!Claims
  <2>1. IF machine[v][s].registered THEN machine[v][s].of \in Boxes!Claims ELSE machine[v][s] = Boxes!NoMachine
    BY DEF VmIInv, Registered
  <2>2. CASE v # u
    BY <1>6, <2>1, <2>2
  <2>3. CASE v = u /\ machine'[v][s] = Boxes!NoMachine
    BY <1>5, <2>3
  <2>4. CASE v = u /\ machine'[v][s] # Boxes!NoMachine
    BY <1>6, <2>1, <2>4
  <2> QED BY <2>2, <2>3, <2>4
<1>11. Places'
  <2>1. \A v \in Users : \A s \in Slots : \A c \in Boxes!Claims' : Has(v, s, c)'
        => c \in Boxes!Claims /\ Has(v, s, c)
    <3> SUFFICES ASSUME NEW v \in Users, NEW s \in Slots,
                        NEW c \in Boxes!Claims, Has(v, s, c)' PROVE Has(v, s, c)
      BY <1>1 DEF Boxes!Claims
    <3>1. c # Boxes!NoClaim
      BY DEF Boxes!Claims, Boxes!NoClaim
    <3>2. CASE v # u
      BY <1>6, <3>2 DEF Has
    <3>3. CASE v = u
      <4>1. machine'[u][s].of \in {machine[u][s].of, Boxes!NoClaim}
            /\ boxDisk'[u][s] \in {boxDisk[u][s], Boxes!NoClaim}
        BY <1>6
      <4> HIDE DEF u
      <4> QED BY <3>1, <3>3, <4>1 DEF Has
    <3> QED BY <3>2, <3>3
  <2> QED BY <1>1, <1>3, <1>7, <1>8, <2>1, AwayIsEmpty, PlacesStay
<1> QED BY <1>7, <1>8, <1>9, <1>10, <1>11, StepKeeps

LEMMA WorkingFacts ==
  ASSUME VmIInv, NEW p \in Processes, At(p) \notin NoneOpen \union {"claim"}
  PROVE  /\ Boxes!User(p) \in Users /\ userLock[Boxes!User(p)] = p
         /\ Opened(p) # <<>> /\ Opened(p) \in Seq(Nat)
         /\ Len(Opened(p)) \in 1 .. Len(Opened(p)) /\ Boxes!Top(p) = Opened(p)[Len(Opened(p))]
            /\ Boxes!Top(p) \in Boxes!Claims
         /\ claims[Boxes!Top(p)].by = p /\ Boxes!Slot(p) \in Slots /\ slotLock[Boxes!Slot(p)] = p
         /\ Boxes!Top(p) \in Boxes!Range(Opened(p))
<1>1. Types /\ HasLocks(p)
  BY DEF VmIInv, Fine
<1>2. Boxes!User(p) \in Users /\ userLock[Boxes!User(p)] = p /\ Opened(p) # <<>>
  BY <1>1 DEF HasLocks, NoneOpen
<1> QED BY <1>1, <1>2, TopIsOpen DEF Types, ProcType, Opened

\* A step at the machine that is being opened or closed.
Inner(p) ==
  /\ UNCHANGED <<userLock, slotLock>>
  /\ Opened(p)' = Opened(p) /\ Boxes!User(p)' = Boxes!User(p)
     /\ \A q \in Processes : q # p => proc'[q] = proc[q]
  /\ \A u \in Users : u # Boxes!User(p) => machine'[u] = machine[u]
     /\ boxDisk'[u] = boxDisk[u] /\ media'[u] = media[u]
  /\ \A s \in Slots : s # Boxes!Slot(p) =>
       machine'[Boxes!User(p)][s] = machine[Boxes!User(p)][s]
         /\ boxDisk'[Boxes!User(p)][s] = boxDisk[Boxes!User(p)][s]
  /\ Len(claims') = Len(claims)
  /\ \A c \in Boxes!Claims : c # Boxes!Top(p) => claims'[c] = claims[c]
  /\ /\ claims'[Boxes!Top(p)].by = claims[Boxes!Top(p)].by
     /\ claims'[Boxes!Top(p)].slot = claims[Boxes!Top(p)].slot
     /\ claims'[Boxes!Top(p)].snapshot = claims[Boxes!Top(p)].snapshot
     /\ claims[Boxes!Top(p)].left => claims'[Boxes!Top(p)].left

LEMMA InnerKeeps ==
  ASSUME VmIInv, NEW p \in Processes, At(p) \notin NoneOpen \union {"claim"}, Inner(p), Types',
         At(p)' \notin NoneOpen \union {"claim"},
         At(p)' = "use" => Usable(p, Boxes!Top(p))',
         machine'[Boxes!User(p)][Boxes!Slot(p)].of \in {machine[Boxes!User(p)][Boxes!Slot(p)].of, Boxes!NoClaim, Boxes!Top(p)},
         boxDisk'[Boxes!User(p)][Boxes!Slot(p)] \in {boxDisk[Boxes!User(p)][Boxes!Slot(p)], Boxes!NoClaim, Boxes!Top(p)},
         IF machine'[Boxes!User(p)][Boxes!Slot(p)].registered THEN machine'[Boxes!User(p)][Boxes!Slot(p)].of \in Boxes!Claims
         ELSE machine'[Boxes!User(p)][Boxes!Slot(p)] = Boxes!NoMachine,
         Staged(p)', HasParent(p)'
  PROVE  VmIInv'
<1> DEFINE u == Boxes!User(p)
           k == Boxes!Slot(p)
<1>1. /\ u \in Users /\ userLock[u] = p /\ Opened(p) # <<>> /\ Opened(p) \in Seq(Nat)
      /\ Len(Opened(p)) \in 1 .. Len(Opened(p)) /\ Boxes!Top(p) = Opened(p)[Len(Opened(p))]
         /\ Boxes!Top(p) \in Boxes!Claims
      /\ claims[Boxes!Top(p)].by = p /\ k \in Slots /\ slotLock[k] = p
         /\ Boxes!Top(p) \in Boxes!Range(Opened(p))
  BY WorkingFacts
<1>2. /\ Boxes!Claims' = Boxes!Claims
      /\ \A c \in Boxes!Claims : /\ claims'[c].by = claims[c].by /\ claims'[c].slot = claims[c].slot
                                 /\ claims'[c].snapshot = claims[c].snapshot
                                 /\ claims[c].left => claims'[c].left
  BY DEF Inner, Boxes!Claims
<1>3. Others(p)
  <2>1. Len(claims') >= Len(claims) /\ Len(claims) \in Nat
    BY DEF Inner, VmIInv, Types, ClaimType
  <2>2. At(p) \notin Away
    BY DEF NoneOpen
  <2> QED BY <1>1, <1>2, <2>1, <2>2 DEF Inner, Others
<1>4. HasLocks(p)'
  <2>1. HasLocks(p)
    BY DEF VmIInv, Fine
  <2>2. Boxes!User(p)' \in Users /\ userLock'[Boxes!User(p)'] = p /\ Opened(p)' # <<>>
        /\ Len(Opened(p)') <= MaxNested
    BY <1>1, <2>1 DEF Inner, HasLocks
  <2>3. \A i \in 1 .. Len(Opened(p)) :
          /\ Opened(p)[i] \in Boxes!Claims' /\ claims'[Opened(p)[i]].by = p
          /\ slotLock'[claims'[Opened(p)[i]].slot] = p
    BY <1>2, <2>1 DEF Inner, HasLocks
  <2>4. \A i, j \in 1 .. Len(Opened(p)) : claims'[Opened(p)[i]].slot = claims'[Opened(p)[j]].slot => i = j
    BY <1>2, <2>1 DEF HasLocks
  <2>5. At(p)' \notin NoneOpen /\ At(p)' # "claim" /\ Opened(p)' = Opened(p)
    BY DEF Inner
  <2> HIDE DEF u
  <2> QED BY <2>2, <2>3, <2>4, <2>5 DEF HasLocks
<1>5. HasMachines(p)'
  <2> SUFFICES ASSUME NEW i \in 1 .. Len(Opened(p)), i # Len(Opened(p))
                      \/ At(p)' \in {"use", "claim"}
               PROVE  Usable(p, Opened(p)[i])'
    BY DEF Inner, HasMachines
  <2>1. CASE i = Len(Opened(p))
    BY <1>1, <2>1 DEF Inner, Boxes!Top, Boxes!Last, Opened
  <2>2. CASE i # Len(Opened(p))
    <3>1. Usable(p, Opened(p)[i]) /\ Opened(p)[i] \in Boxes!Claims
          /\ claims[Opened(p)[i]].slot \in Slots
      BY <2>2, ClaimTypes DEF VmIInv, Fine, HasMachines, HasLocks
    <3>2. claims[Opened(p)[i]].slot # k
      BY <1>1, <2>2 DEF VmIInv, Fine, HasLocks, Boxes!Slot
    <3> QED BY <1>2, <3>1, <3>2 DEF Inner, Usable
  <2> QED BY <2>1, <2>2
<1>6. Prepared(p)'
  <2>1. \A s \in Slots : /\ machine[u][s].of # Boxes!NoClaim => claims[machine[u][s].of].by = p
                         /\ boxDisk[u][s] # Boxes!NoClaim => claims[boxDisk[u][s]].by = p
                         /\ machine[u][s].of \in {Boxes!NoClaim} \union Boxes!Claims
                            /\ boxDisk[u][s] \in {Boxes!NoClaim} \union Boxes!Claims
    BY <1>1 DEF VmIInv, Fine, Prepared, NoneOpen, Types, BoxType, MachineRecords
  <2>2. \A s \in Slots : /\ machine'[u][s].of \in {machine[u][s].of, Boxes!NoClaim, Boxes!Top(p)}
                         /\ boxDisk'[u][s] \in {boxDisk[u][s], Boxes!NoClaim, Boxes!Top(p)}
    BY DEF Inner
  <2>3. \A s \in Slots : /\ machine'[u][s].of # Boxes!NoClaim => claims'[machine'[u][s].of].by = p
                         /\ boxDisk'[u][s] # Boxes!NoClaim => claims'[boxDisk'[u][s]].by = p
    <3> HIDE DEF u
    <3> QED BY <1>1, <1>2, <2>1, <2>2
  <2>4. At(p)' \notin Away \union Preparing /\ At(p)' \notin {"settings", "folder"}
        /\ Boxes!User(p)' = u
    BY DEF Inner, NoneOpen, Preparing
  <2> QED BY <2>3, <2>4 DEF Prepared
<1>7. Registered'
  <2> SUFFICES ASSUME NEW v \in Users, NEW s \in Slots
               PROVE  IF machine'[v][s].registered THEN machine'[v][s].of \in Boxes!Claims ELSE machine'[v][s] = Boxes!NoMachine
    BY <1>2 DEF Registered
  <2>1. IF machine[v][s].registered THEN machine[v][s].of \in Boxes!Claims ELSE machine[v][s] = Boxes!NoMachine
    BY DEF VmIInv, Registered
  <2>2. CASE v = u /\ s = k
    BY <2>2
  <2>3. CASE v # u \/ s # k
    BY <2>1, <2>3 DEF Inner
  <2> QED BY <2>2, <2>3
<1>8. Places'
  <2>1. ASSUME NEW v \in Users, NEW s \in Slots, NEW c \in Boxes!Claims, Has(v, s, c)'
        PROVE  Has(v, s, c) \/ (c \in Boxes!Range(Opened(p)) /\ v = Boxes!User(p)
               /\ s = claims[c].slot)
    <3>1. c # Boxes!NoClaim
      BY DEF Boxes!Claims, Boxes!NoClaim
    <3>2. CASE v # u \/ s # k
      BY <2>1, <3>2 DEF Inner, Has
    <3>3. CASE v = u /\ s = k
      BY <1>1, <2>1, <3>1, <3>3 DEF Has, Boxes!Slot
    <3> QED BY <3>2, <3>3
  <2> QED BY <1>2, <1>3, <2>1, PlacesStay DEF Inner
<1>9. Fine(p)'
  BY <1>4, <1>5, <1>6 DEF Fine
<1> QED BY <1>3, <1>7, <1>8, <1>9, StepKeeps

LEMMA SeqChanges ==
  ASSUME NEW S, NEW q \in Seq(S), NEW i \in 1 .. Len(q), NEW x \in S
  PROVE  /\ [q EXCEPT ![i] = x] \in Seq(S) /\ Len([q EXCEPT ![i] = x]) = Len(q)
         /\ DOMAIN q = 1 .. Len(q)
OBVIOUS

LEMMA LeftChanges ==
  ASSUME Types, NEW p \in Processes, Boxes!Top(p) \in Boxes!Claims, Boxes!Left(Boxes!Top(p))
  PROVE  /\ ClaimType' /\ Len(claims') = Len(claims) /\ Boxes!Claims' = Boxes!Claims
         /\ \A c \in Boxes!Claims : c # Boxes!Top(p) => claims'[c] = claims[c]
         /\ claims'[Boxes!Top(p)].by = claims[Boxes!Top(p)].by
            /\ claims'[Boxes!Top(p)].slot = claims[Boxes!Top(p)].slot
         /\ claims'[Boxes!Top(p)].snapshot = claims[Boxes!Top(p)].snapshot
            /\ claims'[Boxes!Top(p)].left = TRUE
<1> DEFINE t == Boxes!Top(p)
<1>1. claims \in Seq(ClaimRecords) /\ claims[t] \in ClaimRecords
  BY DEF Types, ClaimType, Boxes!Claims
<1>2. ASSUME NEW r \in ClaimRecords
      PROVE  /\ [r EXCEPT !.left = TRUE] \in ClaimRecords /\ [r EXCEPT !.left = TRUE].by = r.by
             /\ [r EXCEPT !.left = TRUE].slot = r.slot
                /\ [r EXCEPT !.left = TRUE].snapshot = r.snapshot
             /\ [r EXCEPT !.left = TRUE].left = TRUE
  BY DEF ClaimRecords
<1>3. claims' = [claims EXCEPT ![t] = [claims[t] EXCEPT !.left = TRUE]]
  BY <1>1 DEF Boxes!Left
<1> HIDE DEF t
<1>4. claims' \in Seq(ClaimRecords) /\ Len(claims') = Len(claims)
      /\ DOMAIN claims = 1 .. Len(claims)
  BY <1>1, <1>2, <1>3, SeqChanges DEF t, Boxes!Claims
<1>5. claims'[t] = [claims[t] EXCEPT !.left = TRUE]
      /\ \A c \in Boxes!Claims : c # t => claims'[c] = claims[c]
  BY <1>3, <1>4 DEF Boxes!Claims, t
<1> QED BY <1>1, <1>2, <1>4, <1>5 DEF ClaimType, Boxes!Claims, t

SetDisk(p, c) == boxDisk' = [boxDisk EXCEPT ![Boxes!User(p)][Boxes!Slot(p)] = c]

LEMMA SetsMachine ==
  ASSUME Types, NEW p \in Processes, Boxes!User(p) \in Users, Boxes!Slot(p) \in Slots,
         NEW m \in MachineRecords, Boxes!SetMachine(p, m)
  PROVE  /\ machine' \in [Users -> [Slots -> MachineRecords]]
            /\ machine'[Boxes!User(p)][Boxes!Slot(p)] = m
         /\ \A u \in Users : u # Boxes!User(p) => machine'[u] = machine[u]
         /\ \A s \in Slots : s # Boxes!Slot(p)
            => machine'[Boxes!User(p)][s] = machine[Boxes!User(p)][s]
BY DEF Types, BoxType, Boxes!SetMachine

LEMMA SetsDisk ==
  ASSUME Types, NEW p \in Processes, Boxes!User(p) \in Users, Boxes!Slot(p) \in Slots,
         NEW c \in {Boxes!NoClaim} \union Boxes!Claims, SetDisk(p, c)
  PROVE  /\ boxDisk' \in [Users -> [Slots -> {Boxes!NoClaim} \union Boxes!Claims]]
            /\ boxDisk'[Boxes!User(p)][Boxes!Slot(p)] = c
         /\ \A u \in Users : u # Boxes!User(p) => boxDisk'[u] = boxDisk[u]
         /\ \A s \in Slots : s # Boxes!Slot(p)
            => boxDisk'[Boxes!User(p)][s] = boxDisk[Boxes!User(p)][s]
<1> DEFINE D == {Boxes!NoClaim} \union Boxes!Claims
<1>1. boxDisk \in [Users -> [Slots -> D]] /\ c \in D
  BY DEF Types, BoxType
<1> HIDE DEF D
<1>2. boxDisk' \in [Users -> [Slots -> D]] /\ boxDisk'[Boxes!User(p)][Boxes!Slot(p)] = c
      /\ (\A u \in Users : u # Boxes!User(p) => boxDisk'[u] = boxDisk[u])
      /\ \A s \in Slots : s # Boxes!Slot(p)
         => boxDisk'[Boxes!User(p)][s] = boxDisk[Boxes!User(p)][s]
  BY <1>1 DEF SetDisk
<1> QED BY <1>2 DEF D

LEMMA PowerOffKeeps ==
  ASSUME VmIInv, NEW p \in Processes, Boxes!PowerOff(p) PROVE VmIInv'
<1> DEFINE u == Boxes!User(p)
           k == Boxes!Slot(p)
           m == machine[u][k]
<1>1. At(p) = "off" /\ UNCHANGED <<userLock, slotLock, boxDisk, media, claims, boxFaults>>
  BY DEF Boxes!PowerOff, At
<1>2. At(p) \notin NoneOpen \union {"claim"}
  BY <1>1 DEF NoneOpen, Away, Preparing
<1>3. u \in Users /\ k \in Slots /\ Boxes!Top(p) \in Boxes!Claims /\ claims[Boxes!Top(p)].by = p
  BY <1>2, WorkingFacts
<1>4. PICK e \in {"unregister", "delete"} : Boxes!GoTo(p, e)
           /\ (e = "delete" => machine' = machine /\ m = Boxes!NoMachine)
      /\ (e = "unregister" => m.registered /\ Boxes!SetMachine(p, [m EXCEPT !.running = FALSE]))
  BY <1>3 DEF Boxes!PowerOff, Boxes!Machine, VmIInv, Registered
<1>5. /\ ProcType' /\ At(p)' = e /\ Opened(p)' = Opened(p) /\ Boxes!User(p)' = u
         /\ proc'[p].closing = proc[p].closing
      /\ \A q \in Processes : q # p => proc'[q] = proc[q]
  <2>1. e \in Boxes!Steps /\ ProcType
    BY DEF VmIInv, Types, Boxes!Steps, Boxes!Opening
  <2> QED BY <1>4, <2>1, GoesTo
<1> DEFINE M == MachineRecords
<1>6. Types /\ m \in M
  BY <1>3 DEF VmIInv, Types, BoxType
<1>7. [m EXCEPT !.running = FALSE] \in M /\ [m EXCEPT !.running = FALSE].of = m.of
      /\ [m EXCEPT !.running = FALSE].registered = m.registered
  <2> HIDE DEF m
  <2> QED BY <1>6 DEF MachineRecords
<1>8. /\ machine' \in [Users -> [Slots -> M]]
         /\ (\A v \in Users : v # u => machine'[v] = machine[v])
      /\ \A s \in Slots : s # k => machine'[u][s] = machine[u][s]
      /\ machine'[u][k].of = m.of /\ machine'[u][k].registered = m.registered
      /\ e = "delete" => machine'[u][k] = Boxes!NoMachine
  <2>1. CASE e = "delete"
    BY <1>4, <1>6, <2>1 DEF Types, BoxType
  <2>2. CASE e = "unregister"
    <3> HIDE DEF m
    <3>1. Boxes!SetMachine(p, [m EXCEPT !.running = FALSE]) /\ [m EXCEPT !.running = FALSE] \in M
      BY <1>4, <1>7, <2>2
    <3> QED BY <1>3, <1>6, <1>7, <2>2, <3>1, SetsMachine
  <2> QED BY <2>1, <2>2
<1>9. Types'
  BY <1>1, <1>5, <1>6, <1>8 DEF Types, ClaimType, LockType, BoxType, Boxes!Claims, MachineRecords
<1>10. Boxes!Top(p)' = Boxes!Top(p) /\ Boxes!Slot(p)' = k /\ Boxes!Claims' = Boxes!Claims
  BY <1>1, <1>5 DEF Boxes!Top, Boxes!Slot, Opened, Boxes!Claims
<1>11. Inner(p)
  BY <1>1, <1>5, <1>8 DEF Inner
<1>12. Staged(p)'
  <2>1. (At(p) \in Purging /\ ~proc[p].closing) => boxDisk[u][k] # Boxes!Top(p)
    BY DEF VmIInv, Fine, Staged
  <2> QED BY <1>1, <1>5, <1>8, <1>10, <2>1 DEF Staged, Boxes!Machine, Purging
<1>13. HasParent(p)'
  <2>1. HasParent(p)
    BY DEF VmIInv, Fine
  <2> QED BY <1>1, <1>5, <1>10, <2>1 DEF HasParent, Purging
<1>14. At(p)' \notin NoneOpen \union {"claim"} /\ At(p)' # "use"
  BY <1>5 DEF NoneOpen, Away, Preparing
<1>15. IF machine'[u][k].registered THEN machine'[u][k].of \in Boxes!Claims ELSE machine'[u][k] = Boxes!NoMachine
  BY <1>3, <1>4, <1>5, <1>8 DEF VmIInv, Registered
<1>16. machine'[u][k].of \in {machine[u][k].of, Boxes!NoClaim, Boxes!Top(p)}
       /\ boxDisk'[u][k] \in {boxDisk[u][k], Boxes!NoClaim, Boxes!Top(p)}
  BY <1>1, <1>8
<1> QED BY <1>2, <1>9, <1>11, <1>12, <1>13, <1>14, <1>15, <1>16, InnerKeeps

\* Nothing is taken out of the media registry that a process is about to use.
LEMMA ParentIsKept ==
  ASSUME VmIInv, NEW p \in Processes, At(p) = "unregister", ~proc[p].closing,
         \A c \in Boxes!Claims : claims[c].by = p => ~claims[c].left
  PROVE  boxDisk[Boxes!User(p)][Boxes!Slot(p)] = Boxes!NoClaim
<1> DEFINE u == Boxes!User(p)
           k == Boxes!Slot(p)
           c == boxDisk[u][k]
<1>1. At(p) \notin NoneOpen \union {"claim"} /\ At(p) \notin Away \union Preparing
      /\ At(p) \in Purging
  BY DEF NoneOpen, Away, Preparing, Purging
<1>2. /\ u \in Users /\ Opened(p) # <<>> /\ Opened(p) \in Seq(Nat)
         /\ Len(Opened(p)) \in 1 .. Len(Opened(p))
      /\ Boxes!Top(p) = Opened(p)[Len(Opened(p))] /\ k \in Slots
  BY <1>1, WorkingFacts
<1> SUFFICES ASSUME c # Boxes!NoClaim PROVE FALSE
  OBVIOUS
<1>3. c \in Boxes!Claims
  BY <1>2 DEF VmIInv, Types, BoxType
<1>4. claims[c].by = p
  BY <1>1, <1>2 DEF VmIInv, Fine, Prepared
<1>5. Placed(u, k, c)
  BY <1>2, <1>3 DEF VmIInv, Places, Has
<1>6. PICK q \in Processes : c \in Boxes!Range(Opened(q))
  BY <1>3, <1>4, <1>5 DEF Placed
<1>7. q = p /\ \E i \in 1 .. Len(Opened(p)) : Opened(p)[i] = c
  BY <1>4, <1>6, OpenClaims
<1>8. c = Boxes!Top(p)
  <2>1. claims[c].slot = claims[Boxes!Top(p)].slot
    BY <1>5 DEF Placed, Boxes!Slot
  <2> HIDE DEF c
  <2> QED BY <1>2, <1>7, <2>1 DEF VmIInv, Fine, HasLocks
<1> QED BY <1>1, <1>8 DEF VmIInv, Fine, Staged

LEMMA UnregisterKeeps ==
  ASSUME VmIInv, NEW p \in Processes, Boxes!Unregister(p) PROVE VmIInv'
<1> DEFINE u == Boxes!User(p)
           k == Boxes!Slot(p)
<1>1. /\ At(p) = "unregister" /\ Boxes!GoTo(p, "delete")
         /\ UNCHANGED <<userLock, slotLock, boxDisk, claims, boxFaults>>
      /\ Boxes!SetMachine(p, Boxes!NoMachine)
      /\ media' = [media EXCEPT ![u] = Boxes!MediaWithout(u, k)]
  BY DEF Boxes!Unregister, At
<1>2. At(p) \notin NoneOpen \union {"claim"}
  BY <1>1 DEF NoneOpen, Away, Preparing
<1>3. u \in Users /\ k \in Slots /\ Boxes!Top(p) \in Boxes!Claims /\ claims[Boxes!Top(p)].by = p
  BY <1>2, WorkingFacts
<1>5. /\ ProcType' /\ At(p)' = "delete" /\ Opened(p)' = Opened(p) /\ Boxes!User(p)' = u
         /\ proc'[p].closing = proc[p].closing
      /\ \A q \in Processes : q # p => proc'[q] = proc[q]
  <2>1. "delete" \in Boxes!Steps /\ ProcType
    BY DEF VmIInv, Types, Boxes!Steps, Boxes!Opening
  <2> QED BY <1>1, <2>1, GoesTo
<1> DEFINE M == MachineRecords
<1>6. Types /\ Boxes!NoMachine \in M /\ Boxes!NoMachine.of = Boxes!NoClaim
      /\ ~Boxes!NoMachine.registered
  BY DEF VmIInv, Boxes!NoMachine, MachineRecords
<1>8. /\ machine' \in [Users -> [Slots -> M]]
         /\ (\A v \in Users : v # u => machine'[v] = machine[v])
      /\ \A s \in Slots : s # k => machine'[u][s] = machine[u][s]
      /\ machine'[u][k] = Boxes!NoMachine
  BY <1>1, <1>3, <1>6, SetsMachine
<1>81. /\ media' \in [Users -> SUBSET Snapshots] /\ (\A v \in Users : v # u => media'[v] = media[v])
       /\ media'[u] = Boxes!MediaWithout(u, k)
  BY <1>1, <1>3, <1>6 DEF Types, BoxType, Boxes!MediaWithout
<1>9. Types'
  BY <1>1, <1>5, <1>6, <1>8, <1>81 DEF Types, ClaimType, LockType, BoxType, Boxes!Claims,
       MachineRecords
<1>10. Boxes!Top(p)' = Boxes!Top(p) /\ Boxes!Slot(p)' = k /\ Boxes!Claims' = Boxes!Claims
  BY <1>1, <1>5 DEF Boxes!Top, Boxes!Slot, Opened, Boxes!Claims
<1>11. Inner(p)
  BY <1>1, <1>5, <1>8, <1>81 DEF Inner
<1>12. Staged(p)'
  <2>1. (At(p) \in Purging /\ ~proc[p].closing) => boxDisk[u][k] # Boxes!Top(p)
    BY DEF VmIInv, Fine, Staged
  <2> QED BY <1>1, <1>5, <1>8, <1>10, <2>1 DEF Staged, Boxes!Machine, Purging
<1>13. HasParent(p)'
  <2> SUFFICES ASSUME \A c \in Boxes!Claims : claims[c].by = p => ~claims[c].left, ~proc[p].closing
               PROVE  claims[Boxes!Top(p)].snapshot \in media'[u]
    BY <1>1, <1>5, <1>10 DEF HasParent
  <2>1. claims[Boxes!Top(p)].snapshot \in media[u]
    BY <1>1 DEF VmIInv, Fine, HasParent, Purging
  <2>2. boxDisk[u][k] = Boxes!NoClaim
    BY <1>1, ParentIsKept
  <2> QED BY <1>81, <2>1, <2>2 DEF Boxes!MediaWithout
<1>14. At(p)' \notin NoneOpen \union {"claim"} /\ At(p)' # "use"
  BY <1>5 DEF NoneOpen, Away, Preparing
<1>16. machine'[u][k].of \in {machine[u][k].of, Boxes!NoClaim, Boxes!Top(p)}
       /\ boxDisk'[u][k] \in {boxDisk[u][k], Boxes!NoClaim, Boxes!Top(p)}
  BY <1>1, <1>6, <1>8
<1> QED BY <1>2, <1>6, <1>8, <1>9, <1>11, <1>12, <1>13, <1>14, <1>16, InnerKeeps

\* What stays behind is marked: with that, nothing is promised of the parent.
LEMMA LeaveKeeps ==
  ASSUME VmIInv, NEW p \in Processes, Boxes!StaysRegistered(p) \/ Boxes!Refused(p)
         \/ (Boxes!Fail(p) /\ At(p) # "power_on")
  PROVE  VmIInv'
<1> DEFINE u == Boxes!User(p)
           k == Boxes!Slot(p)
<1>1. /\ At(p) \in Boxes!Opening /\ Boxes!Left(Boxes!Top(p))
         /\ UNCHANGED <<userLock, slotLock, machine, boxDisk, media>>
      /\ boxFaults' \in 0 .. MaxBoxFaults
  BY VmA DEF Boxes!StaysRegistered, Boxes!Refused, Boxes!Fail, At, Boxes!Opening, Boxes!boxes,
       VmIInv, Types, LockType, Boxes!ConstantsAssumption
<1>2. At(p) \notin NoneOpen \union {"claim"}
  BY <1>1 DEF NoneOpen, Away, Preparing, Boxes!Opening
<1>3. u \in Users /\ k \in Slots /\ Boxes!Top(p) \in Boxes!Claims /\ claims[Boxes!Top(p)].by = p
  BY <1>2, WorkingFacts
<1>4. PICK e \in {"delete", "release"} : Boxes!GoTo(p, e) /\ (e = "delete" => At(p) \in Purging)
  BY DEF Boxes!StaysRegistered, Boxes!Refused, Boxes!Fail, At, Purging
<1>5. /\ ProcType' /\ At(p)' = e /\ Opened(p)' = Opened(p) /\ Boxes!User(p)' = u
         /\ proc'[p].closing = proc[p].closing
      /\ \A q \in Processes : q # p => proc'[q] = proc[q]
  <2>1. e \in Boxes!Steps /\ ProcType
    BY DEF VmIInv, Types, Boxes!Steps, Boxes!Opening
  <2> QED BY <1>4, <2>1, GoesTo
<1>6. /\ ClaimType' /\ Len(claims') = Len(claims) /\ Boxes!Claims' = Boxes!Claims
      /\ \A c \in Boxes!Claims : c # Boxes!Top(p) => claims'[c] = claims[c]
      /\ claims'[Boxes!Top(p)].by = p /\ claims'[Boxes!Top(p)].slot = claims[Boxes!Top(p)].slot
      /\ claims'[Boxes!Top(p)].snapshot = claims[Boxes!Top(p)].snapshot
         /\ claims'[Boxes!Top(p)].left = TRUE
  BY <1>1, <1>3, LeftChanges DEF VmIInv
<1>9. Types'
  BY <1>1, <1>5, <1>6 DEF VmIInv, Types, LockType, BoxType, MachineRecords
<1>10. Boxes!Top(p)' = Boxes!Top(p) /\ Boxes!Slot(p)' = k
  BY <1>5, <1>6 DEF Boxes!Top, Boxes!Slot, Opened
<1>11. Inner(p)
  BY <1>1, <1>3, <1>5, <1>6 DEF Inner
<1>12. Staged(p)'
  <2>1. At(p) \in Purging /\ ~proc[p].closing => boxDisk[u][k] # Boxes!Top(p)
    BY DEF VmIInv, Fine, Staged
  <2>2. At(p)' \in {"delete", "release"} /\ "release" \notin Purging
        /\ (At(p)' = "delete" => At(p) \in Purging)
    BY <1>4, <1>5 DEF Purging
  <2> QED BY <1>1, <1>5, <1>6, <1>10, <2>1, <2>2 DEF Staged
<1>13. HasParent(p)'
  BY <1>3, <1>6 DEF HasParent
<1>14. At(p)' \notin NoneOpen \union {"claim"} /\ At(p)' # "use"
  BY <1>5 DEF NoneOpen, Away, Preparing
<1>15. IF machine'[u][k].registered THEN machine'[u][k].of \in Boxes!Claims ELSE machine'[u][k] = Boxes!NoMachine
  BY <1>1, <1>3 DEF VmIInv, Registered
<1> QED BY <1>1, <1>2, <1>9, <1>11, <1>12, <1>13, <1>14, <1>15, InnerKeeps

LEMMA DeleteDiskKeeps ==
  ASSUME VmIInv, NEW p \in Processes, Boxes!DeleteDisk(p) PROVE VmIInv'
<1> DEFINE u == Boxes!User(p)
           k == Boxes!Slot(p)
           e == IF proc[p].closing THEN "release" ELSE "register"
<1>1. /\ At(p) = "delete" /\ Boxes!GoTo(p, e)
         /\ UNCHANGED <<userLock, slotLock, machine, media, claims, boxFaults>>
      /\ SetDisk(p, Boxes!NoClaim)
  BY DEF Boxes!DeleteDisk, At, SetDisk
<1>2. At(p) \notin NoneOpen \union {"claim"}
  BY <1>1 DEF NoneOpen, Away, Preparing
<1>3. u \in Users /\ k \in Slots /\ Boxes!Top(p) \in Boxes!Claims /\ claims[Boxes!Top(p)].by = p
  BY <1>2, WorkingFacts
<1>5. /\ ProcType' /\ At(p)' = e /\ Opened(p)' = Opened(p) /\ Boxes!User(p)' = u
         /\ proc'[p].closing = proc[p].closing
      /\ \A q \in Processes : q # p => proc'[q] = proc[q]
  <2>1. e \in Boxes!Steps /\ ProcType
    BY DEF VmIInv, Types, Boxes!Steps, Boxes!Opening
  <2> QED BY <1>1, <2>1, GoesTo
<1>10. Boxes!Top(p)' = Boxes!Top(p) /\ Boxes!Slot(p)' = k /\ Boxes!Claims' = Boxes!Claims
  BY <1>1, <1>5 DEF Boxes!Top, Boxes!Slot, Opened, Boxes!Claims
<1>6. HasParent(p) /\ Staged(p) /\ Types
  BY DEF VmIInv, Fine
<1>14. At(p)' \notin NoneOpen \union {"claim"}
  BY <1>5 DEF NoneOpen, Away, Preparing
<1>7. /\ boxDisk' \in [Users -> [Slots -> {Boxes!NoClaim} \union Boxes!Claims]]
         /\ (\A v \in Users : v # u => boxDisk'[v] = boxDisk[v])
      /\ \A s \in Slots : s # k => boxDisk'[u][s] = boxDisk[u][s]
      /\ boxDisk'[u][k] = Boxes!NoClaim /\ Boxes!Top(p) # Boxes!NoClaim
  BY <1>1, <1>3, <1>6, SetsDisk DEF Boxes!NoClaim, Boxes!Claims
<1>9. Types'
  BY <1>1, <1>5, <1>6, <1>7 DEF Types, ClaimType, LockType, BoxType, Boxes!Claims, MachineRecords
<1>11. Inner(p)
  BY <1>1, <1>5, <1>7 DEF Inner
<1>12. Staged(p)'
  <2>1. Boxes!NoMachine.of = Boxes!NoClaim
    BY DEF Boxes!NoMachine
  <2> QED BY <1>1, <1>5, <1>6, <1>7, <1>10, <2>1 DEF Staged, Boxes!Machine, Purging
<1>13. HasParent(p)'
  BY <1>1, <1>5, <1>6, <1>10 DEF HasParent, Purging
<1>15. IF machine'[u][k].registered THEN machine'[u][k].of \in Boxes!Claims ELSE machine'[u][k] = Boxes!NoMachine
  BY <1>1, <1>3 DEF VmIInv, Registered
<1> QED BY <1>1, <1>2, <1>5, <1>7, <1>9, <1>11, <1>12, <1>13, <1>14, <1>15, InnerKeeps

LEMMA RegisterKeeps ==
  ASSUME VmIInv, NEW p \in Processes, Boxes!Register(p) PROVE VmIInv'
<1> DEFINE u == Boxes!User(p)
           k == Boxes!Slot(p)
           m == [registered |-> TRUE, running |-> FALSE, of |-> Boxes!Top(p)]
<1>1. /\ At(p) = "register" /\ Boxes!GoTo(p, "create")
         /\ UNCHANGED <<userLock, slotLock, boxDisk, media, claims, boxFaults>>
      /\ Boxes!SetMachine(p, m)
  BY DEF Boxes!Register, At
<1>2. At(p) \notin NoneOpen \union {"claim"}
  BY <1>1 DEF NoneOpen, Away, Preparing
<1>3. u \in Users /\ k \in Slots /\ Boxes!Top(p) \in Boxes!Claims /\ claims[Boxes!Top(p)].by = p
  BY <1>2, WorkingFacts
<1>5. /\ ProcType' /\ At(p)' = "create" /\ Opened(p)' = Opened(p) /\ Boxes!User(p)' = u
         /\ proc'[p].closing = proc[p].closing
      /\ \A q \in Processes : q # p => proc'[q] = proc[q]
  <2>1. "create" \in Boxes!Steps /\ ProcType
    BY DEF VmIInv, Types, Boxes!Steps, Boxes!Opening
  <2> QED BY <1>1, <2>1, GoesTo
<1>10. Boxes!Top(p)' = Boxes!Top(p) /\ Boxes!Slot(p)' = k /\ Boxes!Claims' = Boxes!Claims
  BY <1>1, <1>5 DEF Boxes!Top, Boxes!Slot, Opened, Boxes!Claims
<1>6. HasParent(p) /\ Staged(p) /\ Types
  BY DEF VmIInv, Fine
<1>14. At(p)' \notin NoneOpen \union {"claim"}
  BY <1>5 DEF NoneOpen, Away, Preparing
<1>7. m \in MachineRecords /\ m.of = Boxes!Top(p) /\ m.registered
  BY <1>3 DEF MachineRecords
<1>8. /\ machine' \in [Users -> [Slots -> MachineRecords]]
         /\ (\A v \in Users : v # u => machine'[v] = machine[v])
      /\ \A s \in Slots : s # k => machine'[u][s] = machine[u][s]
      /\ machine'[u][k].of = Boxes!Top(p) /\ machine'[u][k].registered
  <2> HIDE DEF m
  <2> QED BY <1>1, <1>3, <1>6, <1>7, SetsMachine
<1>9. Types'
  BY <1>1, <1>5, <1>6, <1>8 DEF Types, ClaimType, LockType, BoxType, Boxes!Claims, MachineRecords
<1>11. Inner(p)
  BY <1>1, <1>5, <1>8 DEF Inner
<1>12. Staged(p)'
  BY <1>1, <1>5, <1>6, <1>8, <1>10 DEF Staged, Boxes!Machine, Purging
<1>13. HasParent(p)'
  BY <1>1, <1>5, <1>6, <1>10 DEF HasParent, Purging
<1> QED BY <1>1, <1>2, <1>3, <1>5, <1>8, <1>9, <1>11, <1>12, <1>13, <1>14, InnerKeeps

LEMMA CreateDiskKeeps ==
  ASSUME VmIInv, NEW p \in Processes, Boxes!CreateDisk(p) PROVE VmIInv'
<1> DEFINE u == Boxes!User(p)
           k == Boxes!Slot(p)
<1>1. /\ At(p) = "create" /\ Boxes!GoTo(p, "power_on")
         /\ UNCHANGED <<userLock, slotLock, machine, media, claims, boxFaults>>
      /\ SetDisk(p, Boxes!Top(p))
  BY DEF Boxes!CreateDisk, At, SetDisk
<1>2. At(p) \notin NoneOpen \union {"claim"}
  BY <1>1 DEF NoneOpen, Away, Preparing
<1>3. u \in Users /\ k \in Slots /\ Boxes!Top(p) \in Boxes!Claims /\ claims[Boxes!Top(p)].by = p
  BY <1>2, WorkingFacts
<1>5. /\ ProcType' /\ At(p)' = "power_on" /\ Opened(p)' = Opened(p) /\ Boxes!User(p)' = u
         /\ proc'[p].closing = proc[p].closing
      /\ \A q \in Processes : q # p => proc'[q] = proc[q]
  <2>1. "power_on" \in Boxes!Steps /\ ProcType
    BY DEF VmIInv, Types, Boxes!Steps, Boxes!Opening
  <2> QED BY <1>1, <2>1, GoesTo
<1>10. Boxes!Top(p)' = Boxes!Top(p) /\ Boxes!Slot(p)' = k /\ Boxes!Claims' = Boxes!Claims
  BY <1>1, <1>5 DEF Boxes!Top, Boxes!Slot, Opened, Boxes!Claims
<1>6. HasParent(p) /\ Staged(p) /\ Types
  BY DEF VmIInv, Fine
<1>14. At(p)' \notin NoneOpen \union {"claim"}
  BY <1>5 DEF NoneOpen, Away, Preparing
<1>7. /\ boxDisk' \in [Users -> [Slots -> {Boxes!NoClaim} \union Boxes!Claims]]
         /\ (\A v \in Users : v # u => boxDisk'[v] = boxDisk[v])
      /\ \A s \in Slots : s # k => boxDisk'[u][s] = boxDisk[u][s]
      /\ boxDisk'[u][k] = Boxes!Top(p)
  BY <1>1, <1>3, <1>6, SetsDisk
<1>9. Types'
  BY <1>1, <1>5, <1>6, <1>7 DEF Types, ClaimType, LockType, BoxType, Boxes!Claims, MachineRecords
<1>11. Inner(p)
  BY <1>1, <1>5, <1>7 DEF Inner
<1>12. Staged(p)'
  BY <1>1, <1>5, <1>6, <1>7, <1>10 DEF Staged, Boxes!Machine, Purging
<1>13. HasParent(p)'
  BY <1>1, <1>5, <1>6, <1>10 DEF HasParent, Purging
<1>15. IF machine'[u][k].registered THEN machine'[u][k].of \in Boxes!Claims ELSE machine'[u][k] = Boxes!NoMachine
  BY <1>1, <1>3 DEF VmIInv, Registered
<1> QED BY <1>1, <1>2, <1>5, <1>7, <1>9, <1>11, <1>12, <1>13, <1>14, <1>15, InnerKeeps

LEMMA PowerOnKeeps ==
  ASSUME VmIInv, NEW p \in Processes, Boxes!PowerOn(p) PROVE VmIInv'
<1> DEFINE u == Boxes!User(p)
           k == Boxes!Slot(p)
           m == machine[u][k]
           n == [m EXCEPT !.running = TRUE]
<1>1. /\ At(p) = "power_on" /\ Boxes!GoTo(p, "use")
         /\ UNCHANGED <<userLock, slotLock, boxDisk, media, claims, boxFaults>>
      /\ Boxes!SetMachine(p, n)
  BY DEF Boxes!PowerOn, At, Boxes!Machine
<1>2. At(p) \notin NoneOpen \union {"claim"}
  BY <1>1 DEF NoneOpen, Away, Preparing
<1>3. u \in Users /\ k \in Slots /\ Boxes!Top(p) \in Boxes!Claims /\ claims[Boxes!Top(p)].by = p
  BY <1>2, WorkingFacts
<1>5. /\ ProcType' /\ At(p)' = "use" /\ Opened(p)' = Opened(p) /\ Boxes!User(p)' = u
         /\ proc'[p].closing = proc[p].closing
      /\ \A q \in Processes : q # p => proc'[q] = proc[q]
  <2>1. "use" \in Boxes!Steps /\ ProcType
    BY DEF VmIInv, Types, Boxes!Steps, Boxes!Opening
  <2> QED BY <1>1, <2>1, GoesTo
<1>10. Boxes!Top(p)' = Boxes!Top(p) /\ Boxes!Slot(p)' = k /\ Boxes!Claims' = Boxes!Claims
  BY <1>1, <1>5 DEF Boxes!Top, Boxes!Slot, Opened, Boxes!Claims
<1>6. HasParent(p) /\ Staged(p) /\ Types
  BY DEF VmIInv, Fine
<1>14. At(p)' \notin NoneOpen \union {"claim"}
  BY <1>5 DEF NoneOpen, Away, Preparing
<1>16. m \in MachineRecords /\ m.of = Boxes!Top(p) /\ m.registered /\ boxDisk[u][k] = Boxes!Top(p)
  BY <1>1, <1>3, <1>6 DEF Types, BoxType, Staged, Boxes!Machine
<1>7. n \in MachineRecords /\ n = [registered |-> TRUE, running |-> TRUE, of |-> Boxes!Top(p)]
  <2> HIDE DEF m
  <2>1. n \in MachineRecords
    BY <1>16 DEF MachineRecords
  <2>2. m = [registered |-> m.registered, running |-> m.running, of |-> m.of]
        /\ m.registered \in BOOLEAN
    BY <1>16 DEF MachineRecords
  <2>3. ASSUME NEW a, NEW b, NEW c, NEW d
        PROVE  [[registered |-> a, running |-> d, of |-> c] EXCEPT !.running = b]
                 = [registered |-> a, running |-> b, of |-> c]
    OBVIOUS
  <2>4. m = [registered |-> TRUE, running |-> m.running, of |-> Boxes!Top(p)]
    <3>1. ASSUME NEW a \in BOOLEAN, a PROVE a = TRUE
      BY <3>1
    <3>2. m.registered = TRUE /\ m.of = Boxes!Top(p)
      BY <1>16, <2>2, <3>1
    <3> QED BY <2>2, <3>2, Zenon
  <2>6. \E d : m = [registered |-> TRUE, running |-> d, of |-> Boxes!Top(p)]
    BY <2>4, Zenon
  <2>7. PICK d : m = [registered |-> TRUE, running |-> d, of |-> Boxes!Top(p)]
    BY <2>6
  <2>5. n = [registered |-> TRUE, running |-> TRUE, of |-> Boxes!Top(p)]
    BY <2>3, <2>7, Zenon
  <2> QED BY <2>1, <2>5
<1>8. /\ machine' \in [Users -> [Slots -> MachineRecords]]
         /\ (\A v \in Users : v # u => machine'[v] = machine[v])
      /\ \A s \in Slots : s # k => machine'[u][s] = machine[u][s]
      /\ machine'[u][k] = [registered |-> TRUE, running |-> TRUE, of |-> Boxes!Top(p)]
  <2> HIDE DEF n
  <2> QED BY <1>1, <1>3, <1>6, <1>7, SetsMachine
<1>17. machine'[u][k].of = Boxes!Top(p) /\ machine'[u][k].registered
  BY <1>8
<1>9. Types'
  BY <1>1, <1>5, <1>6, <1>8 DEF Types, ClaimType, LockType, BoxType, Boxes!Claims, MachineRecords
<1>11. Inner(p)
  BY <1>1, <1>5, <1>8 DEF Inner
<1>12. Staged(p)'
  BY <1>5 DEF Staged, Purging
<1>13. HasParent(p)'
  BY <1>5 DEF HasParent, Purging
<1>18. Usable(p, Boxes!Top(p))'
  BY <1>1, <1>5, <1>8, <1>10, <1>16 DEF Usable, Boxes!Slot
<1> QED BY <1>1, <1>2, <1>3, <1>9, <1>11, <1>12, <1>13, <1>14, <1>17, <1>18, InnerKeeps

\* The purge at the end begins.
LEMMA CloseKeeps ==
  ASSUME VmIInv, NEW p \in Processes, Boxes!Close(p) \/ (Boxes!Fail(p)
         /\ At(p) = "power_on") PROVE VmIInv'
<1> DEFINE u == Boxes!User(p)
           k == Boxes!Slot(p)
<1>1. /\ At(p) \in {"use", "power_on"}
         /\ UNCHANGED <<userLock, slotLock, machine, boxDisk, media, claims>>
      /\ proc' = [proc EXCEPT ![p] = [@ EXCEPT !.at = "off", !.closing = TRUE]]
      /\ boxFaults' \in 0 .. MaxBoxFaults
  BY VmA DEF Boxes!Close, Boxes!Fail, At, Boxes!AfterUse, Boxes!boxes, VmIInv, Types, LockType,
       Boxes!ConstantsAssumption
<1>2. At(p) \notin NoneOpen \union {"claim"}
  BY <1>1 DEF NoneOpen, Away, Preparing
<1>3. u \in Users /\ k \in Slots /\ Boxes!Top(p) \in Boxes!Claims /\ claims[Boxes!Top(p)].by = p
  BY <1>2, WorkingFacts
<1>5. /\ ProcType' /\ At(p)' = "off" /\ Opened(p)' = Opened(p) /\ Boxes!User(p)' = u
         /\ proc'[p].closing = TRUE
      /\ \A q \in Processes : q # p => proc'[q] = proc[q]
  <2>1. "off" \in Boxes!Steps /\ ProcType
    BY DEF VmIInv, Types, Boxes!Steps, Boxes!Opening
  <2> QED BY <1>1, <2>1, GoesToClosing
<1>10. Boxes!Top(p)' = Boxes!Top(p) /\ Boxes!Slot(p)' = k /\ Boxes!Claims' = Boxes!Claims
  BY <1>1, <1>5 DEF Boxes!Top, Boxes!Slot, Opened, Boxes!Claims
<1>6. HasParent(p) /\ Staged(p) /\ Types
  BY DEF VmIInv, Fine
<1>14. At(p)' \notin NoneOpen \union {"claim"}
  BY <1>5 DEF NoneOpen, Away, Preparing
<1>9. Types'
  BY <1>1, <1>5, <1>6 DEF Types, ClaimType, LockType, BoxType, Boxes!Claims, MachineRecords
<1>11. Inner(p)
  BY <1>1, <1>5 DEF Inner
<1>12. Staged(p)'
  BY <1>5 DEF Staged, Purging
<1>13. HasParent(p)'
  BY <1>5 DEF HasParent, Purging
<1>15. IF machine'[u][k].registered THEN machine'[u][k].of \in Boxes!Claims ELSE machine'[u][k] = Boxes!NoMachine
  BY <1>1, <1>3 DEF VmIInv, Registered
<1> QED BY <1>1, <1>2, <1>5, <1>9, <1>11, <1>12, <1>13, <1>14, <1>15, InnerKeeps

\* Between machines: what there is stays as it is.
LEMMA PauseKeeps ==
  ASSUME VmIInv,
         NEW p \in Processes, At(p) \in {"idle", "use", "claim"}, At(p)' \in {"idle", "use", "claim"},
         UNCHANGED <<userLock, slotLock, machine, boxDisk, claims>>,
         Opened(p)' = Opened(p), Boxes!User(p)' = Boxes!User(p), \A q \in Processes : q # p
           => proc'[q] = proc[q],
         \A u \in Users : u # Boxes!User(p) => media'[u] = media[u], Types',
         At(p)' = "idle" => Opened(p) = <<>>, At(p)' = "use" => Opened(p) # <<>>,
         At(p)' = "claim" => Len(Opened(p)) < MaxNested /\ proc'[p].snapshot \in Snapshots
                             /\ proc'[p].snapshot \in media'[Boxes!User(p)]
  PROVE  VmIInv'
<1>1. Types /\ HasLocks(p) /\ HasMachines(p) /\ Prepared(p) /\ Boxes!Claims' = Boxes!Claims
      /\ Len(claims) \in Nat
  BY DEF VmIInv, Fine, Boxes!Claims, Types, ClaimType
<1>2. Boxes!User(p) \in Users /\ userLock[Boxes!User(p)] = p
  BY <1>1 DEF HasLocks, Away
<1>3. Others(p)
  <2>1. At(p) \notin Away
    BY DEF Away
  <2> QED BY <1>1, <2>1 DEF Others
<1>4. HasLocks(p)'
  BY <1>1, <1>2 DEF HasLocks, NoneOpen, Away, Preparing
<1>5. HasMachines(p)'
  <2>1. \A i \in 1 .. Len(Opened(p)) : Usable(p, Opened(p)[i])
    BY <1>1 DEF HasMachines, HasLocks, NoneOpen
  <2>2. \A i \in 1 .. Len(Opened(p)) : Usable(p, Opened(p)[i])'
    BY <2>1 DEF Usable
  <2> QED BY <2>2 DEF HasMachines
<1>6. Staged(p)'
  BY DEF Staged, Purging
<1>7. Prepared(p)'
  <2>1. At(p) \notin Away \union Preparing
    BY DEF Away, Preparing
  <2> QED BY <1>1, <2>1 DEF Prepared
<1>8. HasParent(p)'
  BY DEF HasParent, Purging
<1>9. Registered'
  BY <1>1 DEF VmIInv, Registered
<1>10. Places'
  BY <1>1, <1>3, PlacesStay DEF Has
<1>11. Fine(p)'
  BY <1>4, <1>5, <1>6, <1>7, <1>8 DEF Fine
<1> QED BY <1>3, <1>9, <1>10, <1>11, StepKeeps

LEMMA RegisterMediumKeeps ==
  ASSUME VmIInv, NEW p \in Processes, NEW x \in Snapshots, Boxes!RegisterMedium(p, x) PROVE VmIInv'
<1>1. /\ At(p) \in {"idle", "use"} /\ Len(Opened(p)) < MaxNested
      /\ UNCHANGED <<userLock, slotLock, machine, boxDisk, claims, boxFaults>>
      /\ media' = [media EXCEPT ![Boxes!User(p)] = media[Boxes!User(p)] \union {x}]
      /\ proc' = [proc EXCEPT ![p] = [@ EXCEPT !.at = "claim", !.snapshot = x]]
  BY DEF Boxes!RegisterMedium, At, Opened, Boxes!MediaWith
<1>2. Boxes!User(p) \in Users /\ Types
  BY <1>1 DEF VmIInv, Fine, HasLocks, Away
<1>3. /\ ProcType' /\ At(p)' = "claim" /\ Opened(p)' = Opened(p)
         /\ Boxes!User(p)' = Boxes!User(p) /\ proc'[p].snapshot = x
      /\ \A q \in Processes : q # p => proc'[q] = proc[q]
  <2>1. "claim" \in Boxes!Steps /\ ProcType /\ x \in Snapshots \union {None}
    BY DEF VmIInv, Types, Boxes!Steps, Boxes!Opening
  <2> QED BY ZenonT(60), <1>1, <2>1, GoesToWithSnapshot
<1>4. /\ media' \in [Users -> SUBSET Snapshots] /\ x \in media'[Boxes!User(p)]
      /\ \A u \in Users : u # Boxes!User(p) => media'[u] = media[u]
  BY <1>1, <1>2 DEF Types, BoxType
<1>5. Types'
  BY <1>1, <1>2, <1>3, <1>4 DEF Types, ClaimType, LockType, BoxType, Boxes!Claims, MachineRecords
<1> QED BY <1>1, <1>3, <1>4, <1>5, PauseKeeps

LEMMA NoPortRangeKeeps ==
  ASSUME VmIInv, NEW p \in Processes, Boxes!NoPortRange(p) PROVE VmIInv'
<1> DEFINE e == IF proc[p].open = <<>> THEN "idle" ELSE "use"
<1>1. /\ At(p) = "claim"
         /\ UNCHANGED <<userLock, slotLock, machine, boxDisk, media, claims, boxFaults>>
      /\ proc' = [proc EXCEPT ![p] = [@ EXCEPT !.at = e, !.snapshot = None]]
  BY DEF Boxes!NoPortRange, At, Boxes!boxes
<1>2. Types
  BY DEF VmIInv
<1>3. /\ ProcType' /\ At(p)' = e /\ Opened(p)' = Opened(p) /\ Boxes!User(p)' = Boxes!User(p)
      /\ \A q \in Processes : q # p => proc'[q] = proc[q]
  <2>1. e \in Boxes!Steps /\ ProcType /\ None \in Snapshots \union {None}
    BY DEF VmIInv, Types, Boxes!Steps, Boxes!Opening
  <2> HIDE DEF e
  <2> QED BY <1>1, <2>1, GoesToWithSnapshot
<1>4. Types'
  BY <1>1, <1>2, <1>3 DEF Types, ClaimType, LockType, BoxType, Boxes!Claims, MachineRecords
<1>5. e \in {"idle", "use"} /\ (e = "idle" => Opened(p) = <<>>) /\ (e = "use" => Opened(p) # <<>>)
  BY DEF Opened
<1> HIDE DEF e
<1> QED BY <1>1, <1>3, <1>4, <1>5, PauseKeeps

LEMMA Minimum ==
  ASSUME NEW T, T \subseteq Nat, T # {} PROVE \E x \in T : \A y \in T : x <= y
<1>1. \E R : IsWellFoundedOn(R, Nat) /\ (\A x, y \in Nat : (<<y, x>> \in R) <=> (y < x))
  <2>1. \A x, y \in Nat : <<y, x>> \in OpToRel(<, Nat) <=> y < x
    BY DEF OpToRel
  <2>2. IsWellFoundedOn(OpToRel(<, Nat), Nat)
    BY NatLessThanWellFounded
  <2> QED BY <2>1, <2>2
<1>2. PICK R : IsWellFoundedOn(R, Nat) /\ (\A x, y \in Nat : (<<y, x>> \in R) <=> (y < x))
  BY <1>1
<1>3. PICK x \in T : \A y \in T : ~(<<y, x>> \in R)
  BY <1>2, WFMin
<1>4. ASSUME NEW y \in T PROVE x <= y
  <2>1. ~(<<y, x>> \in R) /\ x \in Nat /\ y \in Nat
    BY <1>3
  <2>2. ~(y < x)
    BY <2>1, <1>2
  <2> QED BY <2>1, <2>2
<1> QED BY <1>3, <1>4

\* The first free slot in the user's order.
LEMMA FreeSlot ==
  ASSUME VmIInv, NEW p \in Processes, Boxes!ClaimPortRange(p)
  PROVE  \E s \in Slots :
           /\ slotLock[s] = None /\ slotLock' = [slotLock EXCEPT ![s] = p]
           /\ claims' = Append(claims, [by |-> p, slot |-> s, snapshot |-> proc[p].snapshot, left |-> FALSE])
<1> DEFINE all == SlotsOf[Boxes!User(p)]
           free == {i \in DOMAIN all : Boxes!Available(p, all[i])}
           first == CHOOSE i \in free : \A k \in free : i <= k
<1>1. Boxes!User(p) \in Users
  BY DEF VmIInv, Fine, HasLocks, Boxes!ClaimPortRange, At, Away
<1>2. all \in Seq(Slots)
  BY <1>1, VmA DEF Boxes!ConstantsAssumption
<1>3. free \subseteq 1 .. Len(all) /\ free \subseteq Nat
  <2> HIDE DEF all
  <2> QED BY <1>2
<1>4. free # {}
  BY DEF Boxes!ClaimPortRange
<1>5. \E i \in free : \A k \in free : i <= k
  <2> HIDE DEF free
  <2> QED BY <1>3, <1>4, Minimum
<1>6. first \in free
  <2> HIDE DEF free
  <2> QED BY <1>5
<1>7. all[first] \in Slots /\ slotLock[all[first]] = None
  <2>1. first \in 1 .. Len(all) /\ Boxes!Available(p, all[first])
    BY <1>3, <1>6
  <2> HIDE DEF first, free, all
  <2> QED BY <1>2, <2>1 DEF Boxes!Available
<1>8. /\ slotLock' = [slotLock EXCEPT ![all[first]] = p]
      /\ claims' = Append(claims,
           [by |-> p, slot |-> all[first], snapshot |-> proc[p].snapshot, left |-> FALSE])
  BY Zenon DEF Boxes!ClaimPortRange
<1> HIDE DEF first, free, all
<1> QED BY <1>7, <1>8

LEMMA SeqGrows ==
  ASSUME NEW S, NEW q \in Seq(S), NEW x \in S
  PROVE  /\ Append(q, x) \in Seq(S) /\ Len(Append(q, x)) = Len(q) + 1 /\ Len(q) \in Nat
         /\ Append(q, x)[Len(q) + 1] = x /\ \A i \in 1 .. Len(q) : Append(q, x)[i] = q[i]
OBVIOUS

LEMMA ClaimPortRangeKeeps ==
  ASSUME VmIInv, NEW p \in Processes, Boxes!ClaimPortRange(p) PROVE VmIInv'
<1> DEFINE x == proc[p].snapshot
           u == Boxes!User(p)
           N == Len(claims) + 1
<1>1. PICK s \in Slots :
        /\ slotLock[s] = None /\ slotLock' = [slotLock EXCEPT ![s] = p]
        /\ claims' = Append(claims, [by |-> p, slot |-> s, snapshot |-> x, left |-> FALSE])
  BY FreeSlot
<1>2. /\ At(p) = "claim" /\ UNCHANGED <<userLock, machine, boxDisk, media, boxFaults>>
      /\ proc' = [proc EXCEPT ![p] = [@ EXCEPT !.at = "off", !.closing = FALSE, !.snapshot = None,
                                               !.open = Append(proc[p].open, Len(claims'))]]
  BY DEF Boxes!ClaimPortRange, At, Boxes!boxes
<1>3. /\ Types /\ HasLocks(p) /\ HasMachines(p) /\ Prepared(p) /\ HasParent(p)
      /\ u \in Users /\ userLock[u] = p /\ x \in Snapshots /\ Opened(p) \in Seq(Nat)
  BY <1>2 DEF VmIInv, Fine, HasLocks, Away, Types, ProcType, Opened
<1> DEFINE r == [by |-> p, slot |-> s, snapshot |-> x, left |-> FALSE]
<1>4. /\ ClaimType' /\ Len(claims') = N /\ Len(claims) \in Nat /\ claims'[N] = r
      /\ \A c \in Boxes!Claims : claims'[c] = claims[c]
  <2>1. r \in ClaimRecords /\ claims \in Seq(ClaimRecords)
    BY <1>3 DEF ClaimRecords, Types, ClaimType
  <2> HIDE DEF r
  <2> QED BY <1>1, <2>1, SeqGrows DEF r, ClaimType, Boxes!Claims
<1>5. Boxes!Claims' = Boxes!Claims \union {N} /\ N \notin Boxes!Claims /\ N # Boxes!NoClaim
      /\ N \in Nat
  BY <1>4 DEF Boxes!Claims, Boxes!NoClaim
<1>6. r.by = p /\ r.slot = s /\ r.snapshot = x
  OBVIOUS
<1> HIDE DEF r, N
<1>7. /\ ProcType' /\ At(p)' = "off" /\ Boxes!User(p)' = u
         /\ Opened(p)' = Append(Opened(p), N) /\ ~proc'[p].closing
      /\ \A q \in Processes : q # p => proc'[q] = proc[q]
  <2>1. "off" \in Boxes!Steps /\ ProcType /\ None \in Snapshots \union {None}
    BY DEF VmIInv, Types, Boxes!Steps, Boxes!Opening
  <2>2. PICK o \in Seq(Nat) : o = Append(Opened(p), N)
    <3>1. Append(Opened(p), N) \in Seq(Nat)
      BY <1>3, <1>5
    <3> QED BY <3>1
  <2>3. Append(proc[p].open, Len(claims')) = o
    BY <1>4, <2>2 DEF Opened
  <2>4. proc' = [proc EXCEPT ![p] = [@ EXCEPT !.at = "off", !.closing = FALSE, !.snapshot = None, !.open = o]]
    BY <1>2, <2>3
  <2>5. ProcType' /\ At(p)' = "off" /\ Boxes!User(p)' = u /\ Opened(p)' = o
        /\ proc'[p].closing = FALSE
        /\ \A q \in Processes : q # p => proc'[q] = proc[q]
    <3>1. FALSE \in BOOLEAN
      OBVIOUS
    <3>2. proc' = [proc EXCEPT ![p] = [proc[p] EXCEPT !.at = "off", !.closing = FALSE, !.snapshot = None, !.open = o]]
      BY <2>4
    <3>3. proc[p] \in [at : Boxes!Steps, user : Users \union {None}, open : Seq(Nat),
                       snapshot : Snapshots \union {None}, closing : BOOLEAN]
      BY <2>1 DEF ProcType
    <3> QED BY <2>1, <3>1, <3>2, <3>3 DEF ProcType, At, Boxes!User, Opened
  <2> QED BY <2>2, <2>5
<1>8. PICK o \in Seq(Nat) :
        /\ Opened(p)' = o /\ Len(o) = Len(Opened(p)) + 1 /\ Len(Opened(p)) \in Nat
           /\ o[Len(Opened(p)) + 1] = N
        /\ \A i \in 1 .. Len(Opened(p)) : o[i] = Opened(p)[i]
  <2>1. PICK o \in Seq(Nat) : o = Append(Opened(p), N) /\ Opened(p)' = o
    <3>1. Append(Opened(p), N) \in Seq(Nat)
      BY <1>3, <1>5
    <3> QED BY <1>7, <3>1
  <2>2. /\ Len(o) = Len(Opened(p)) + 1 /\ Len(Opened(p)) \in Nat /\ o[Len(Opened(p)) + 1] = N
        /\ \A i \in 1 .. Len(Opened(p)) : o[i] = Opened(p)[i]
    <3> HIDE DEF N
    <3> QED BY <1>3, <1>5, <2>1, SeqGrows
  <2> QED BY <2>1, <2>2
<1>9. slotLock' \in [Slots -> Processes \union {None}] /\ slotLock'[s] = p
      /\ \A t \in Slots : t # s => slotLock'[t] = slotLock[t]
  BY <1>1, <1>3 DEF Types, LockType
<1>10. Types'
  <2>1. MachineRecords \subseteq MachineRecords'
    <3>1. {Boxes!NoClaim} \union Boxes!Claims \subseteq {Boxes!NoClaim} \union Boxes!Claims'
      BY <1>5
    <3> QED BY <3>1 DEF MachineRecords
  <2>2. BoxType'
    <3>1. \A v \in Users : \A t \in Slots : machine[v][t] \in MachineRecords'
          /\ boxDisk[v][t] \in {Boxes!NoClaim} \union Boxes!Claims'
      BY <1>3, <1>5, <2>1 DEF Types, BoxType
    <3>2. /\ machine \in [Users -> [Slots -> MachineRecords]]
          /\ boxDisk \in [Users -> [Slots -> {Boxes!NoClaim} \union Boxes!Claims]]
          /\ media' \in [Users -> SUBSET Snapshots]
      BY <1>2, <1>3 DEF Types, BoxType
    <3> QED BY <1>2, <3>1, <3>2 DEF BoxType
  <2> QED BY <1>2, <1>3, <1>4, <1>7, <1>9, <2>2 DEF Types, LockType
<1>11. Others(p)
  <2>1. At(p) \notin Away /\ Len(claims') >= Len(claims)
    BY <1>2, <1>4 DEF Away, N
  <2> QED BY <1>1, <1>2, <1>4, <1>7, <1>9, <2>1 DEF Others
<1>12. Boxes!Top(p)' = N /\ Boxes!Slot(p)' = s
  BY <1>4, <1>6, <1>7, <1>8 DEF Boxes!Top, Boxes!Last, Boxes!Slot, Opened
<1>13. HasLocks(p)'
  <2>1. p # None
    BY VmA DEF Boxes!ConstantsAssumption
  <2>2. \A i \in 1 .. Len(Opened(p)) : /\ Opened(p)[i] \in Boxes!Claims /\ claims[Opened(p)[i]].by = p
                                       /\ slotLock[claims[Opened(p)[i]].slot] = p
                                       /\ claims[Opened(p)[i]].slot \in Slots
    BY <1>3, ClaimTypes DEF HasLocks
  <2>3. \A i \in 1 .. Len(Opened(p)) + 1 :
          /\ o[i] \in Boxes!Claims' /\ claims'[o[i]].by = p
          /\ slotLock'[claims'[o[i]].slot] = p
    <3> SUFFICES ASSUME NEW i \in 1 .. Len(Opened(p)) + 1
                 PROVE  /\ o[i] \in Boxes!Claims' /\ claims'[o[i]].by = p
                        /\ slotLock'[claims'[o[i]].slot] = p
      OBVIOUS
    <3>1. CASE i = Len(Opened(p)) + 1
      BY <1>4, <1>5, <1>6, <1>8, <1>9, <3>1
    <3>2. CASE i \in 1 .. Len(Opened(p))
      <4>1. o[i] = Opened(p)[i] /\ Opened(p)[i] \in Boxes!Claims /\ claims[Opened(p)[i]].by = p
            /\ slotLock[claims[Opened(p)[i]].slot] = p /\ claims[Opened(p)[i]].slot \in Slots
        BY <1>8, <2>2, <3>2
      <4>2. claims'[Opened(p)[i]] = claims[Opened(p)[i]] /\ Opened(p)[i] \in Boxes!Claims'
        BY <1>4, <1>5, <4>1
      <4> QED BY <1>1, <1>9, <2>1, <4>1, <4>2
    <3> QED BY <1>8, <3>1, <3>2
  <2>4. \A i \in 1 .. Len(Opened(p)) : claims'[o[i]].slot = claims[Opened(p)[i]].slot
        /\ claims[Opened(p)[i]].slot # s
    BY <1>1, <1>4, <1>8, <2>1, <2>2
  <2>5. claims'[o[Len(Opened(p)) + 1]].slot = s
    BY <1>4, <1>6, <1>8
  <2>6. \A i, j \in 1 .. Len(Opened(p)) + 1 : claims'[o[i]].slot = claims'[o[j]].slot => i = j
    <3>1. \A i, j \in 1 .. Len(Opened(p)) : claims[Opened(p)[i]].slot = claims[Opened(p)[j]].slot => i = j
      BY <1>3 DEF HasLocks
    <3>2. \A i \in 1 .. Len(Opened(p)) + 1 : i \in 1 .. Len(Opened(p)) \/ i = Len(Opened(p)) + 1
      BY <1>8
    <3> QED BY <2>4, <2>5, <3>1, <3>2
  <2>7. o # <<>> /\ Len(o) <= MaxNested
    <3>1. Len(Opened(p)) < MaxNested /\ MaxNested \in Nat
      BY <1>2, <1>3, VmA DEF HasLocks, Boxes!ConstantsAssumption
    <3> QED BY <1>8, <3>1
  <2>8. At(p)' \notin NoneOpen \union {"claim"}
    BY <1>7 DEF NoneOpen, Away, Preparing
  <2>9. Boxes!User(p)' \in Users /\ userLock'[Boxes!User(p)'] = p
    BY <1>2, <1>3, <1>7
  <2> QED BY <1>8, <2>3, <2>6, <2>7, <2>8, <2>9 DEF HasLocks
<1>14. HasMachines(p)'
  <2> SUFFICES ASSUME NEW i \in 1 .. Len(o), i # Len(o) PROVE Usable(p, o[i])'
    BY <1>7, <1>8 DEF HasMachines
  <2>1. i \in 1 .. Len(Opened(p)) /\ o[i] = Opened(p)[i]
    BY <1>8
  <2>2. Usable(p, Opened(p)[i]) /\ Opened(p)[i] \in Boxes!Claims
    BY <1>2, <1>3, <2>1 DEF HasMachines, HasLocks
  <2> QED BY <1>2, <1>4, <1>7, <2>1, <2>2 DEF Usable
<1>15. \A v \in Users : \A t \in Slots : machine[v][t].of # N /\ boxDisk[v][t] # N
  BY <1>3, <1>5 DEF Types, BoxType, MachineRecords
<1>16. Staged(p)'
  BY <1>2, <1>3, <1>7, <1>12, <1>15 DEF Staged
<1>17. Prepared(p)'
  <2>1. \A t \in Slots : /\ machine[u][t].of # Boxes!NoClaim => claims[machine[u][t].of].by = p
                         /\ boxDisk[u][t] # Boxes!NoClaim => claims[boxDisk[u][t]].by = p
    BY <1>2, <1>3 DEF Prepared, Away, Preparing
  <2>2. \A t \in Slots : machine[u][t].of \in {Boxes!NoClaim} \union Boxes!Claims
        /\ boxDisk[u][t] \in {Boxes!NoClaim} \union Boxes!Claims
    BY <1>3 DEF Types, BoxType, MachineRecords
  <2>3. \A t \in Slots : /\ machine'[u][t].of # Boxes!NoClaim => claims'[machine'[u][t].of].by = p
                         /\ boxDisk'[u][t] # Boxes!NoClaim => claims'[boxDisk'[u][t]].by = p
    BY <1>2, <1>4, <2>1, <2>2
  <2> QED BY <1>7, <2>3 DEF Prepared
<1>18. HasParent(p)'
  <2> SUFFICES ASSUME \A c \in Boxes!Claims' : claims'[c].by = p => ~claims'[c].left
               PROVE  claims'[N].snapshot \in media'[u]
    BY <1>7, <1>12 DEF HasParent
  <2>1. \A c \in Boxes!Claims : claims[c].by = p => ~claims[c].left
    BY <1>4, <1>5
  <2> QED BY <1>2, <1>3, <1>4, <1>6, <2>1 DEF HasParent
<1>19. Registered'
  BY <1>2, <1>5 DEF VmIInv, Registered
<1>20. Places'
  <2>1. \A v \in Users : \A t \in Slots : \A c \in Boxes!Claims' : Has(v, t, c)'
        => c \in Boxes!Claims /\ Has(v, t, c)
    BY <1>2, <1>5, <1>15 DEF Has
  <2>2. \A c \in Boxes!Claims : (c \in Boxes!Range(Opened(p))') <=> (c \in Boxes!Range(Opened(p)))
    <3>1. Boxes!Range(Opened(p)) = {Opened(p)[i] : i \in 1 .. Len(Opened(p))}
      <4>1. DOMAIN Opened(p) = 1 .. Len(Opened(p))
        BY <1>3
      <4> QED BY <4>1, Zenon DEF Boxes!Range
    <3>2. Boxes!Range(o) = {o[i] : i \in 1 .. Len(Opened(p)) + 1}
      BY <1>8 DEF Boxes!Range
    <3>3. \A i \in 1 .. Len(Opened(p)) + 1 : i \in 1 .. Len(Opened(p)) \/ i = Len(Opened(p)) + 1
      BY <1>8
    <3>4. \A i \in 1 .. Len(Opened(p)) : i \in 1 .. Len(Opened(p)) + 1
      BY <1>8
    <3>5. Boxes!Range(Opened(p))' = Boxes!Range(o)
      BY <1>8 DEF Boxes!Range
    <3> QED BY <1>5, <1>8, <3>1, <3>2, <3>3, <3>4, <3>5
  <2> QED BY <1>7, <1>10, <1>11, <2>1, <2>2, PlacesStay
<1>21. Fine(p)'
  BY <1>13, <1>14, <1>16, <1>17, <1>18 DEF Fine
<1> QED BY <1>10, <1>11, <1>19, <1>20, <1>21, StepKeeps

LEMMA SeqShrinks ==
  ASSUME NEW q \in Seq(Nat), q # <<>>
  PROVE  /\ Boxes!Front(q) \in Seq(Nat) /\ Len(Boxes!Front(q)) = Len(q) - 1
            /\ Len(q) \in 1 .. Len(q)
         /\ \A i \in 1 .. Len(q) - 1 : Boxes!Front(q)[i] = q[i]
<1>1. Len(q) \in Nat /\ Len(q) >= 1
  OBVIOUS
<1>2. \A i \in 1 .. Len(q) - 1 : i \in 1 .. Len(q) /\ q[i] \in Nat
  OBVIOUS
<1>3. Boxes!Front(q) = [i \in 1 .. Len(q) - 1 |-> q[i]]
  BY <1>1 DEF Boxes!Front
<1> QED BY <1>1, <1>2, <1>3

\* The slot of the machine that was purged is given back.
LEMMA ReleaseKeeps ==
  ASSUME VmIInv, NEW p \in Processes, Boxes!Release(p) PROVE VmIInv'
<1> DEFINE u == Boxes!User(p)
           n == Len(Opened(p))
           e == IF n = 1 THEN "idle" ELSE "use"
<1>1. /\ At(p) = "release" /\ UNCHANGED <<userLock, machine, boxDisk, media, claims, boxFaults>>
      /\ slotLock' = [slotLock EXCEPT ![Boxes!Slot(p)] = None]
      /\ proc' = [proc EXCEPT ![p] = [@ EXCEPT !.open = Boxes!Front(proc[p].open), !.at = e]]
  BY DEF Boxes!Release, At, Boxes!boxes, Opened
<1>2. At(p) \notin NoneOpen \union {"claim"}
  BY <1>1 DEF NoneOpen, Away, Preparing
<1>3. /\ u \in Users /\ userLock[u] = p /\ Opened(p) # <<>> /\ Opened(p) \in Seq(Nat)
      /\ n \in 1 .. n /\ Boxes!Top(p) = Opened(p)[n] /\ Boxes!Top(p) \in Boxes!Claims
      /\ claims[Boxes!Top(p)].by = p /\ Boxes!Slot(p) \in Slots /\ slotLock[Boxes!Slot(p)] = p
         /\ Boxes!Top(p) \in Boxes!Range(Opened(p))
  BY <1>2, WorkingFacts
<1>4. Types /\ HasLocks(p) /\ HasMachines(p) /\ Prepared(p) /\ Staged(p) /\ n \in Nat /\ n >= 1
  BY <1>3 DEF VmIInv, Fine
<1>5. PICK o \in Seq(Nat) : o = Boxes!Front(Opened(p)) /\ Len(o) = n - 1
           /\ \A i \in 1 .. n - 1 : o[i] = Opened(p)[i]
  <2>1. Boxes!Front(Opened(p)) \in Seq(Nat) /\ Len(Boxes!Front(Opened(p))) = n - 1
        /\ \A i \in 1 .. n - 1 : Boxes!Front(Opened(p))[i] = Opened(p)[i]
    BY <1>3, SeqShrinks
  <2> QED BY <2>1
<1>6. /\ ProcType' /\ At(p)' = e /\ Boxes!User(p)' = u /\ Opened(p)' = o
      /\ \A q \in Processes : q # p => proc'[q] = proc[q]
  <2>1. e \in Boxes!Steps /\ ProcType
    BY <1>4 DEF Types, Boxes!Steps, Boxes!Opening
  <2>2. proc' = [proc EXCEPT ![p] = [@ EXCEPT !.open = o, !.at = e]]
    BY <1>1, <1>5 DEF Opened
  <2> HIDE DEF e
  <2> QED BY <2>1, <2>2, GoesToFront
<1>7. /\ slotLock' \in [Slots -> Processes \union {None}] /\ slotLock'[Boxes!Slot(p)] = None
      /\ \A t \in Slots : t # Boxes!Slot(p) => slotLock'[t] = slotLock[t]
  BY <1>1, <1>3, <1>4 DEF Types, LockType
<1>8. Types' /\ Boxes!Claims' = Boxes!Claims
  BY <1>1, <1>4, <1>6, <1>7 DEF Types, ClaimType, LockType, BoxType, Boxes!Claims, MachineRecords
<1>9. Others(p)
  <2>1. At(p) \notin Away /\ Len(claims) \in Nat
    BY <1>1, <1>4 DEF Away, Types, ClaimType
  <2> QED BY <1>1, <1>3, <1>6, <1>7, <2>1 DEF Others
<1>10. e \in {"idle", "use"} /\ (e = "idle" => o = <<>>) /\ (e = "use" => o # <<>>)
  <2> HIDE DEF n
  <2> QED BY <1>4, <1>5
<1> HIDE DEF e
<1>11. HasLocks(p)'
  <2>1. \A i \in 1 .. n - 1 : /\ o[i] = Opened(p)[i] /\ o[i] \in Boxes!Claims /\ claims[o[i]].by = p
                              /\ slotLock[claims[o[i]].slot] = p /\ claims[o[i]].slot \in Slots
                              /\ claims[o[i]].slot # Boxes!Slot(p)
    <3> SUFFICES ASSUME NEW i \in 1 .. n - 1
                 PROVE  /\ o[i] = Opened(p)[i] /\ o[i] \in Boxes!Claims /\ claims[o[i]].by = p
                        /\ slotLock[claims[o[i]].slot] = p /\ claims[o[i]].slot \in Slots
                        /\ claims[o[i]].slot # Boxes!Slot(p)
      OBVIOUS
    <3>1. i \in 1 .. Len(Opened(p)) /\ i # n /\ o[i] = Opened(p)[i]
      BY <1>4, <1>5
    <3>2. Opened(p)[i] \in Boxes!Claims /\ claims[Opened(p)[i]].by = p
          /\ slotLock[claims[Opened(p)[i]].slot] = p
      BY <1>4, <3>1 DEF HasLocks
    <3>3. claims[Opened(p)[i]].slot # Boxes!Slot(p)
      BY <1>3, <1>4, <3>1 DEF HasLocks, Boxes!Slot
    <3> QED BY <1>4, <3>1, <3>2, <3>3, ClaimTypes
  <2>2. \A i \in 1 .. n - 1 : o[i] \in Boxes!Claims' /\ claims'[o[i]].by = p
        /\ slotLock'[claims'[o[i]].slot] = p
    BY <1>1, <1>7, <1>8, <2>1
  <2>3. \A i, j \in 1 .. n - 1 : claims'[o[i]].slot = claims'[o[j]].slot => i = j
    <3>1. \A i \in 1 .. n - 1 : i \in 1 .. Len(Opened(p))
      BY <1>4
    <3> QED BY <1>1, <1>4, <2>1, <3>1 DEF HasLocks
  <2>4. n - 1 <= MaxNested
    <3>1. n <= MaxNested /\ MaxNested \in Nat
      BY <1>4, VmA DEF HasLocks, Boxes!ConstantsAssumption
    <3> HIDE DEF n
    <3> QED BY <1>4, <3>1
  <2>5. At(p)' \notin Away \union Preparing /\ At(p)' # "claim"
        /\ (At(p)' \in NoneOpen => At(p)' = "idle")
    BY <1>6, <1>10 DEF NoneOpen, Away, Preparing
  <2>6. Boxes!User(p)' \in Users /\ userLock'[Boxes!User(p)'] = p
    BY <1>1, <1>3, <1>6
  <2> HIDE DEF n
  <2> QED BY <1>5, <1>6, <1>10, <2>2, <2>3, <2>4, <2>5, <2>6 DEF HasLocks, NoneOpen
<1>12. HasMachines(p)'
  <2> SUFFICES ASSUME NEW i \in 1 .. Len(o) PROVE Usable(p, o[i])'
    BY <1>6 DEF HasMachines
  <2>1. i \in 1 .. Len(Opened(p)) /\ i # n /\ o[i] = Opened(p)[i]
    BY <1>4, <1>5
  <2>2. Usable(p, Opened(p)[i])
    BY <1>4, <2>1 DEF HasMachines
  <2> QED BY <1>1, <1>6, <2>1, <2>2 DEF Usable
<1>13. Staged(p)' /\ HasParent(p)'
  BY <1>6, <1>10 DEF Staged, HasParent, Purging
<1>14. Prepared(p)'
  <2>1. At(p) \notin Away \union Preparing /\ At(p)' \notin {"settings", "folder"}
    BY <1>1, <1>6, <1>10 DEF Away, Preparing
  <2> QED BY <1>1, <1>4, <1>6, <2>1 DEF Prepared
<1>15. Registered'
  BY <1>1, <1>8 DEF VmIInv, Registered
<1>16. Places'
  <2>1. Boxes!Range(Opened(p)) = {Opened(p)[i] : i \in 1 .. n}
    <3>1. DOMAIN Opened(p) = 1 .. n
      BY <1>3
    <3> QED BY <3>1, Zenon DEF Boxes!Range
  <2>2. Boxes!Range(Opened(p))' = {o[i] : i \in 1 .. n - 1}
    BY <1>5, <1>6 DEF Boxes!Range
  <2>3. Boxes!Range(Opened(p))' \subseteq Boxes!Range(Opened(p))
    <3>1. \A i \in 1 .. n - 1 : i \in 1 .. n /\ o[i] = Opened(p)[i]
      BY <1>4, <1>5
    <3> QED BY <2>1, <2>2, <3>1
  <2>4. \A c \in Boxes!Range(Opened(p)) : c \in Boxes!Range(Opened(p))' \/ c = Boxes!Top(p)
    <3> SUFFICES ASSUME NEW i \in 1 .. n PROVE Opened(p)[i] \in {o[j] : j \in 1 .. n - 1}
                        \/ Opened(p)[i] = Boxes!Top(p)
      BY <2>1, <2>2
    <3>1. CASE i = n
      BY <1>3, <3>1
    <3>2. CASE i # n
      <4>1. i \in 1 .. n - 1
        <5> HIDE DEF n
        <5> QED BY <1>4, <3>2
      <4> QED BY <1>5, <4>1
    <3> QED BY <3>1, <3>2
  <2>5. claims[Boxes!Top(p)].left \/ \A v \in Users : \A t \in Slots : ~Has(v, t, Boxes!Top(p))
    <3> SUFFICES ASSUME ~claims[Boxes!Top(p)].left, NEW v \in Users,
                        NEW t \in Slots, Has(v, t, Boxes!Top(p)) PROVE FALSE
      OBVIOUS
    <3>1. Placed(v, t, Boxes!Top(p))
      BY <1>3 DEF VmIInv, Places
    <3>2. t = Boxes!Slot(p) /\ v = u
      BY <1>3, <3>1 DEF Placed, Boxes!Slot
    <3>3. Boxes!Machine(p).of # Boxes!Top(p) /\ boxDisk[u][Boxes!Slot(p)] # Boxes!Top(p)
      BY <1>1, <1>4 DEF Staged
    <3> QED BY <3>2, <3>3 DEF Has, Boxes!Machine
  <2>6. \A v \in Users : \A t \in Slots : \A c \in Boxes!Claims' : Has(v, t, c)'
        => c \in Boxes!Claims /\ Has(v, t, c)
    BY <1>1, <1>8 DEF Has
  <2>7. \A c \in Boxes!Claims : c \in Boxes!Range(Opened(p)) =>
          c \in Boxes!Range(Opened(p))' \/ claims'[c].left
            \/ \A v \in Users : \A t \in Slots : ~Has(v, t, c)'
    BY <1>1, <2>4, <2>5 DEF Has
  <2>8. \A c \in Boxes!Claims : c \in Boxes!Range(Opened(p))' => c \in Boxes!Range(Opened(p))
        /\ Boxes!User(p)' = Boxes!User(p)
    BY <1>6, <2>3
  <2> QED BY <1>8, <1>9, <2>6, <2>7, <2>8, PlacesStay
<1>17. Fine(p)'
  BY <1>11, <1>12, <1>13, <1>14 DEF Fine
<1> QED BY <1>8, <1>9, <1>15, <1>16, <1>17, StepKeeps

\* The locks end with the process; what it had open is left behind.
LEMMA LeavesAll ==
  ASSUME VmIInv, NEW p \in Processes, Boxes!End(p) \/ Boxes!Kill(p)
  PROVE  /\ claims' \in Seq(ClaimRecords) /\ Len(claims') = Len(claims)
            /\ Boxes!Claims' = Boxes!Claims /\ Len(claims) \in Nat
         /\ \A c \in Boxes!Claims : /\ claims'[c].by = claims[c].by /\ claims'[c].slot = claims[c].slot
                                    /\ claims'[c].snapshot = claims[c].snapshot
                                       /\ (claims[c].left => claims'[c].left)
                                    /\ c \notin Boxes!Range(Opened(p)) => claims'[c] = claims[c]
                                    /\ c \in Boxes!Range(Opened(p)) => claims'[c].left
<1>1. claims \in Seq(ClaimRecords) /\ Len(claims) \in Nat
      /\ \A c \in Boxes!Claims : claims[c] \in ClaimRecords
  BY DEF VmIInv, Types, ClaimType, Boxes!Claims
<1>2. CASE Boxes!End(p)
  <2>1. claims' = claims /\ Boxes!Range(Opened(p)) = {}
    <3>1. At(p) \in NoneOpen /\ claims' = claims
      BY <1>2 DEF Boxes!End, At, NoneOpen
    <3> QED BY <3>1, AwayIsEmpty
  <2> QED BY <1>1, <2>1 DEF Boxes!Claims
<1>3. CASE Boxes!Kill(p)
  <2>1. claims' = [c \in Boxes!Claims |-> IF c \in Boxes!Range(Opened(p)) THEN [claims[c] EXCEPT !.left = TRUE] ELSE claims[c]]
    BY <1>3 DEF Boxes!Kill, Opened
  <2>2. ASSUME NEW r \in ClaimRecords
        PROVE  /\ [r EXCEPT !.left = TRUE] \in ClaimRecords /\ [r EXCEPT !.left = TRUE].by = r.by
               /\ [r EXCEPT !.left = TRUE].slot = r.slot
                  /\ [r EXCEPT !.left = TRUE].snapshot = r.snapshot
               /\ [r EXCEPT !.left = TRUE].left
    BY DEF ClaimRecords
  <2>3. \A c \in Boxes!Claims : claims'[c] = IF c \in Boxes!Range(Opened(p)) THEN [claims[c] EXCEPT !.left = TRUE] ELSE claims[c]
    BY <2>1
  <2>4. \A c \in Boxes!Claims : claims'[c] \in ClaimRecords
    BY <1>1, <2>2, <2>3
  <2>5. claims' \in [1 .. Len(claims) -> ClaimRecords]
    BY <2>1, <2>4 DEF Boxes!Claims
  <2>6. claims' \in Seq(ClaimRecords) /\ Len(claims') = Len(claims)
    BY <1>1, <2>5
  <2>7. Boxes!Claims' = Boxes!Claims
    BY <2>6 DEF Boxes!Claims
  <2> QED BY <1>1, <2>2, <2>3, <2>6, <2>7
<1> QED BY <1>2, <1>3

LEMMA BoxEndKeeps ==
  ASSUME VmIInv, NEW p \in Processes, Boxes!End(p) \/ Boxes!Kill(p) PROVE VmIInv'
<1>1. /\ Boxes!Unlock(p) /\ UNCHANGED <<machine, boxDisk, media>>
         /\ boxFaults' \in 0 .. MaxBoxFaults /\ At(p) \notin Away
  BY VmA DEF Boxes!End, Boxes!Kill, At, Away, Boxes!boxes, VmIInv, Types, LockType,
       Boxes!ConstantsAssumption
<1>2. /\ claims' \in Seq(ClaimRecords) /\ Len(claims') = Len(claims)
         /\ Boxes!Claims' = Boxes!Claims /\ Len(claims) \in Nat
      /\ \A c \in Boxes!Claims : /\ claims'[c].by = claims[c].by /\ claims'[c].slot = claims[c].slot
                                 /\ claims'[c].snapshot = claims[c].snapshot
                                    /\ (claims[c].left => claims'[c].left)
                                 /\ c \notin Boxes!Range(Opened(p)) => claims'[c] = claims[c]
                                 /\ c \in Boxes!Range(Opened(p)) => claims'[c].left
  BY LeavesAll
<1>3. Types /\ Boxes!User(p) \in Users
  BY <1>1 DEF VmIInv, Fine, HasLocks
<1>4. /\ ProcType' /\ At(p)' = "ended" /\ Opened(p)' = <<>>
         /\ \A q \in Processes : q # p => proc'[q] = proc[q]
  <2>1. "ended" \in Boxes!Steps /\ <<>> \in Seq(Nat) /\ ProcType
    BY <1>3 DEF Types, Boxes!Steps
  <2>2. proc' = [proc EXCEPT ![p] = [at |-> "ended", user |-> None, open |-> <<>>,
                                     snapshot |-> None, closing |-> FALSE]]
    BY <1>1 DEF Boxes!Unlock
  <2> QED BY <2>1, <2>2 DEF ProcType, At, Opened
<1>5. /\ userLock' \in [Users -> Processes \union {None}]
         /\ slotLock' \in [Slots -> Processes \union {None}]
      /\ \A v \in Users : userLock[v] # p => userLock'[v] = userLock[v]
      /\ \A s \in Slots : slotLock[s] # p => slotLock'[s] = slotLock[s]
  BY <1>1, <1>3 DEF Boxes!Unlock, Types, LockType
<1>6. Types'
  BY <1>1, <1>2, <1>3, <1>4, <1>5 DEF Types, ClaimType, LockType, BoxType, MachineRecords
<1>7. Others(p)
  <2>1. \A c \in Boxes!Claims : claims[c].by # p => claims'[c] = claims[c]
    BY <1>2, OpenClaims
  <2> QED BY <1>1, <1>2, <1>4, <1>5, <2>1 DEF Others
<1>8. Fine(p)'
  <2>1. Prepared(p)' /\ At(p)' \in NoneOpen /\ At(p)' \in Away
    BY <1>4 DEF Prepared, Away, Preparing, NoneOpen
  <2> QED BY <1>4, <2>1, EmptyIsFine
<1>9. Registered'
  BY <1>1, <1>2 DEF VmIInv, Registered
<1>10. Places'
  <2>1. Boxes!Range(Opened(p))' = {}
    BY <1>4 DEF Boxes!Range
  <2>2. \A v \in Users : \A s \in Slots : \A c \in Boxes!Claims' : Has(v, s, c)'
        => c \in Boxes!Claims /\ Has(v, s, c)
    BY <1>1, <1>2 DEF Has
  <2> QED BY <1>2, <1>6, <1>7, <2>1, <2>2, PlacesStay
<1> QED BY <1>6, <1>7, <1>8, <1>9, <1>10, StepKeeps

LEMMA VmInit == Boxes!Init => VmIInv
<1> SUFFICES ASSUME Boxes!Init PROVE VmIInv
  OBVIOUS
<1>1. Boxes!Claims = {} /\ claims = <<>>
  BY DEF Boxes!Init, Boxes!Claims
<1>2. \A p \in Processes : At(p) = "start" /\ Opened(p) = <<>>
  BY DEF Boxes!Init, At, Opened
<1>3. Types
  <2>1. ProcType
    <3>1. "start" \in Boxes!Steps /\ <<>> \in Seq(Nat)
      BY DEF Boxes!Steps
    <3> QED BY <3>1 DEF Boxes!Init, ProcType
  <2>2. Boxes!NoMachine \in MachineRecords
    BY DEF Boxes!NoMachine, MachineRecords
  <2>3. BoxType
    BY <2>2 DEF Boxes!Init, BoxType
  <2> QED BY <1>1, <2>1, <2>3, VmA DEF Boxes!Init, Types, ClaimType, LockType,
          Boxes!ConstantsAssumption
<1>4. ASSUME NEW p \in Processes PROVE Fine(p)
  <2>1. HasLocks(p)
    BY <1>2, VmA DEF HasLocks, Away, NoneOpen, Boxes!ConstantsAssumption
  <2>2. HasMachines(p) /\ Staged(p) /\ Prepared(p) /\ HasParent(p)
    BY <1>2 DEF HasMachines, Staged, Prepared, HasParent, Away, Purging
  <2> QED BY <2>1, <2>2 DEF Fine
<1>5. Registered
  BY DEF Boxes!Init, Registered, Boxes!NoMachine
<1>6. Places
  BY <1>1 DEF Places
<1> QED BY <1>3, <1>4, <1>5, <1>6 DEF VmIInv

LEMMA VmStep == ASSUME VmIInv, [Boxes!Next]_(Boxes!vars) PROVE VmIInv'
<1>1. CASE UNCHANGED Boxes!vars
  <2> USE <1>1 DEF Boxes!vars, Boxes!boxes
  <2>1. Types' /\ Registered' /\ Places'
    BY SMTT(30) DEF VmIInv, Types, ProcType, ClaimType, ClaimRecords, BoxType, MachineRecords, LockType,
         Registered, Places,
           Placed, Has, Opened, Boxes!User, Boxes!Range, Boxes!Claims
  <2>2. ASSUME NEW p \in Processes PROVE Fine(p)'
    <3>1. Fine(p)
      BY DEF VmIInv
    <3>2. /\ At(p)' = At(p) /\ Opened(p)' = Opened(p) /\ Boxes!User(p)' = Boxes!User(p)
             /\ Boxes!Top(p)' = Boxes!Top(p) /\ Boxes!Slot(p)' = Boxes!Slot(p)
          /\ Boxes!Machine(p)' = Boxes!Machine(p) /\ Boxes!Claims' = Boxes!Claims
      BY DEF At, Opened, Boxes!User, Boxes!Top, Boxes!Slot, Boxes!Machine, Boxes!Claims
    <3>3. HasLocks(p)'
      BY <3>1, <3>2 DEF Fine, HasLocks
    <3>4. HasMachines(p)'
      BY <3>1, <3>2 DEF Fine, HasMachines, Usable
    <3>5. Staged(p)' /\ Prepared(p)' /\ HasParent(p)'
      BY <3>1, <3>2 DEF Fine, Staged, Prepared, HasParent
    <3> QED BY <3>3, <3>4, <3>5 DEF Fine
  <2> QED BY <2>1, <2>2 DEF VmIInv
<1>2. ASSUME NEW p \in Processes,
             \/ Boxes!AcquireUser(p) \/ Boxes!NoFreeUser(p)
             \/ Boxes!TerminateService(p) \/ Boxes!CleanUpSettings(p) \/ Boxes!CleanUpFolder(p)
             \/ \E x \in Snapshots : Boxes!RegisterMedium(p, x)
             \/ Boxes!ClaimPortRange(p) \/ Boxes!NoPortRange(p)
             \/ Boxes!Purge(p)
             \/ Boxes!Register(p) \/ Boxes!CreateDisk(p) \/ Boxes!PowerOn(p)
                \/ Boxes!Refused(p) \/ Boxes!Fail(p)
             \/ Boxes!Close(p) \/ Boxes!Release(p) \/ Boxes!End(p) \/ Boxes!Kill(p)
                \/ Boxes!Restart(p)
      PROVE  VmIInv'
  <2>1. CASE Boxes!AcquireUser(p) \/ Boxes!NoFreeUser(p) \/ Boxes!Restart(p)
    BY <2>1, AcquireUserKeeps
  <2>2. CASE Boxes!TerminateService(p) \/ Boxes!CleanUpSettings(p) \/ Boxes!CleanUpFolder(p)
    BY <2>2, PrepareKeeps
  <2>3. CASE (\E x \in Snapshots : Boxes!RegisterMedium(p, x)) \/ Boxes!NoPortRange(p)
    BY <2>3, RegisterMediumKeeps, NoPortRangeKeeps
  <2>4. CASE Boxes!ClaimPortRange(p)
    BY <2>4, ClaimPortRangeKeeps
  <2>5. CASE Boxes!Purge(p)
    BY <2>5, PowerOffKeeps, UnregisterKeeps, LeaveKeeps, DeleteDiskKeeps DEF Boxes!Purge
  <2>6. CASE Boxes!Register(p) \/ Boxes!CreateDisk(p) \/ Boxes!PowerOn(p)
    BY <2>6, RegisterKeeps, CreateDiskKeeps, PowerOnKeeps
  <2>7. CASE Boxes!Refused(p) \/ Boxes!Fail(p) \/ Boxes!Close(p)
    BY <2>7, LeaveKeeps, CloseKeeps
  <2>8. CASE Boxes!Release(p) \/ Boxes!End(p) \/ Boxes!Kill(p)
    BY <2>8, ReleaseKeeps, BoxEndKeeps
  <2> QED BY <1>2, <2>1, <2>2, <2>3, <2>4, <2>5, <2>6, <2>7, <2>8
<1>3. CASE Boxes!Done
  BY <1>1, <1>3 DEF Boxes!Done
<1> QED BY <1>1, <1>2, <1>3 DEF Boxes!Next

\* The promises follow.
LEMMA VmSafe == VmIInv => Boxes!Safety
<1> SUFFICES ASSUME VmIInv PROVE Boxes!Safety
  OBVIOUS
<1>1. Types /\ (\A p \in Processes : Fine(p)) /\ Registered /\ Places
  BY DEF VmIInv
<1>2. Boxes!TypeOK
  BY <1>1, TypesAreTypeOK
<1>3. Boxes!OwnMachine
  <2> SUFFICES ASSUME NEW p \in Processes, NEW c \in Boxes!InUse(p) PROVE Usable(p, c)
    BY DEF Boxes!OwnMachine, Usable
  <2>1. c \in Boxes!Range(Opened(p)) /\ (c # Boxes!Top(p) \/ At(p) \in {"use", "claim"})
    BY DEF Boxes!InUse, Opened, At
  <2>2. PICK i \in 1 .. Len(Opened(p)) : Opened(p)[i] = c
    BY <2>1, OpenClaims
  <2>3. i # Len(Opened(p)) \/ At(p) \in {"use", "claim"}
    BY <2>1, <2>2 DEF Boxes!Top, Boxes!Last, Opened
  <2> QED BY <1>1, <2>2, <2>3 DEF Fine, HasMachines
<1>4. ASSUME NEW v \in Users, NEW s \in Slots, machine[v][s].running
      PROVE  /\ machine[v][s].of \in Boxes!Claims
             /\ \/ claims[machine[v][s].of].left
                \/ \E p \in Processes : Boxes!User(p) = v /\ slotLock[s] = p
  <2>1. machine[v][s].of \in Boxes!Claims
    BY <1>1, <1>4 DEF Registered, Boxes!NoMachine
  <2>2. Placed(v, s, machine[v][s].of)
    BY <1>1, <2>1 DEF Places, Has
  <2>3. CASE ~claims[machine[v][s].of].left
    <3>1. PICK p \in Processes : machine[v][s].of \in Boxes!Range(Opened(p))
      BY <2>2, <2>3 DEF Placed
    <3> QED BY <2>1, <2>2, <3>1, OpenClaims DEF Placed
  <2> QED BY <2>1, <2>3
<1>5. Boxes!PortsAreOwn
  <2> SUFFICES ASSUME NEW v \in Users, NEW w \in Users, NEW s \in Slots, v # w,
                      machine[v][s].running, machine[w][s].running,
                      ~claims[machine[v][s].of].left, ~claims[machine[w][s].of].left
               PROVE  FALSE
    BY DEF Boxes!PortsAreOwn
  <2> QED BY <1>4
<1>6. Boxes!NothingIsLeft
  BY <1>1 DEF Boxes!NothingIsLeft, Places, Placed, Has, Opened
<1>7. Boxes!NoForeignMachines
  BY <1>1 DEF Boxes!NoForeignMachines, Fine, Prepared, At, Away, Preparing
<1>8. Boxes!ParentStays
  BY <1>1 DEF Boxes!ParentStays, Boxes!ParentIsKnown, Fine, HasParent, Staged, At, Purging
<1> QED BY <1>2, <1>3, <1>5, <1>6, <1>7, <1>8 DEF Boxes!Safety

---------------------------------------------------------------------------
(* Sessions of the iSCSI target: BaseInv holds in all of them, SessionInv in those *)
(* in which no reset is asked for.                                                 *)

LEMMA IscsiA == Iscsi!ConstantsAssumption
BY PartsAssumption

LEMMA IscsiCardinality == \A S : Iscsi!Cardinality(S) = Cardinality(S)
BY DEF Iscsi!Cardinality, Cardinality, Iscsi!IsFiniteSet, IsFiniteSet

(* The types of what the variables hold *)
UpPdus ==
  [op : {"command"}, w : 1 .. MaxWrite, tag : Tags, sn : Nat]
    \union [op : {"data"}, w : 1 .. MaxWrite, tag : Tags, final : BOOLEAN]
    \union [op : {"abort"}, tag : Tags] \union [op : {"reset", "pong"}]
DownPdus ==
  [op : {"r2t"}, tag : Tags, len : Nat]
    \union [op : {"response", "complete", "no task", "ping"}, tag : Tags \union {TmfTag}]
Datas == UNION {[1 .. n -> 0 .. MaxWrite] : n \in 1 .. Parts}
PendingTasks == [w : 1 .. MaxWrite, tag : Tags, sn : Nat, offset : Nat, left : Nat, data : Datas]
Writes == [conn : Iscsi!Conns, tag : Tags, lba : Lbas, len : 1 .. Parts]

ConnTypes ==
  /\ up \in [Iscsi!Conns -> Seq(UpPdus)]
  /\ down \in [Iscsi!Conns -> Seq(DownPdus)]
  /\ tasks \in [Iscsi!Conns -> Seq(PendingTasks)]
  /\ running \in [Iscsi!Conns -> PendingTasks \union {None}]
  /\ tmf \in [Iscsi!Conns -> (SUBSET (1 .. MaxWrite)) \union {None}]
  /\ issued \in Seq(Writes)

(* What is on the way is of the writes that were issued on the connection *)
Of(w, c, tag) == w \in DOMAIN issued /\ issued[w].conn = c /\ issued[w].tag = tag

FitsUp(c) ==
  \A i \in DOMAIN up[c] :
    up[c][i].op \in {"command", "data"} => Of(up[c][i].w, c, up[c][i].tag)
FitsTask(c, t) ==
  /\ Of(t.w, c, t.tag)
  /\ DOMAIN t.data = 1 .. issued[t.w].len
FitsTasks(c) == \A i \in DOMAIN tasks[c] : FitsTask(c, tasks[c][i]) /\ issued[tasks[c][i].w].len > 1
FitsRunning(c) == running[c] # None => FitsTask(c, running[c])

Shape(c) ==
  /\ (peer[c] = "none") <=> (state[c] = "free")
  /\ peer[c] = "none" =>
       /\ tasks[c] = <<>> /\ running[c] = None /\ exp[c] = 1
       /\ \A w \in DOMAIN issued : issued[w].conn # c
  /\ state[c] # "scsi" => up[c] = <<>>
  /\ peer[c] # "open" => down[c] = <<>> /\ tmf[c] = None

(* Commands have the numbers from the expected one to the last one sent *)
InSequence(q, e, n) ==
  /\ \A i \in DOMAIN q : q[i].op = "command" => q[i].sn \in e .. n
  /\ \A i, j \in DOMAIN q :
       q[i].op = "command" /\ q[j].op = "command" /\ i < j => q[i].sn < q[j].sn
  /\ \A k \in e .. n : \E i \in DOMAIN q : q[i].op = "command" /\ q[i].sn = k
Numbers(c) ==
  /\ exp[c] <= Iscsi!Sent(c) + 1
  /\ state[c] = "scsi" => InSequence(up[c], exp[c], Iscsi!Sent(c))

(* A request and its answer are on the way once *)
Tmfs == {"abort", "reset"}
Ends == {"complete", "no task"}
Once(q, d, m) ==
  /\ \A i \in DOMAIN q : q[i].op \in Tmfs =>
       /\ m # None
       /\ \A j \in DOMAIN q : q[j].op \in Tmfs => i = j
       /\ \A j \in DOMAIN d : d[j].op \notin Ends
  /\ \A i \in DOMAIN d : d[i].op \in Ends =>
       /\ m # None
       /\ \A j \in DOMAIN d : d[j].op \in Ends => i = j
ManagedOnce(c) == peer[c] = "open" => Once(up[c], down[c], tmf[c])

Logged == {c \in Iscsi!Conns : peer[c] # "none"} = 1 .. Iscsi!Last

BaseInv ==
  /\ Iscsi!TypeOK /\ ConnTypes /\ Logged
  /\ \A c \in Iscsi!Conns :
       FitsUp(c) /\ FitsTasks(c) /\ FitsRunning(c) /\ Shape(c) /\ Numbers(c) /\ ManagedOnce(c)

(* Sessions without resets *)
NoResets == \A c \in Iscsi!Conns : \A i \in DOMAIN up[c] : up[c][i].op # "reset"

Commands(q) == {q[i].w : i \in {k \in DOMAIN q : q[k].op = "command"}}
OfTasks(t) == {t[i].w : i \in DOMAIN t}
Pipe(c) ==
  Commands(up[c]) \union (IF state[c] = "scsi" THEN OfTasks(tasks[c]) ELSE {})
    \union (IF running[c] = None THEN {} ELSE {running[c].w})

Latest(w) == \A v \in w + 1 .. Len(issued) : issued[v].lba # issued[w].lba
Stored(w) == \A p \in 1 .. issued[w].len : disk[<<issued[w].lba, p>>] = w

OneSession == \A c, d \in Iscsi!Conns : c < d /\ peer[d] # "none" => Iscsi!Drained(c) /\ peer[c] # "open"
WaitsInv ==
  \A w \in waits :
    /\ peer[issued[w].conn] = "open" /\ Latest(w)
    /\ \A v \in waits : issued[v].conn = issued[w].conn /\ issued[v].tag = issued[w].tag => v = w
AckedInv == \A w \in acked : Latest(w) => Stored(w)

PipeInv(c) ==
  /\ peer[c] = "open" => Pipe(c) \subseteq waits
  /\ Pipe(c) \intersect (acked \union aborted) = {}
  /\ \A w \in Pipe(c) : Latest(w)
  /\ \A v, w \in Pipe(c) : issued[v].tag = issued[w].tag => v = w
\* A write is in one place.
Ordered(c) ==
  /\ \A i, j \in DOMAIN up[c] :
       up[c][i].op = "command" /\ up[c][j].op = "command" /\ i < j => up[c][i].w < up[c][j].w
  /\ \A i \in DOMAIN up[c] : up[c][i].op = "command" =>
       /\ \A j \in DOMAIN tasks[c] : tasks[c][j].w < up[c][i].w
       /\ running[c] # None => running[c].w < up[c][i].w
  /\ \A i, j \in DOMAIN tasks[c] : tasks[c][i].tag = tasks[c][j].tag => i = j
\* Data is of the task that has its tag.
DataInv(c) ==
  \A i \in DOMAIN up[c] : up[c][i].op = "data" =>
    /\ \A j \in DOMAIN tasks[c] : tasks[c][j].tag = up[c][i].tag => tasks[c][j].w = up[c][i].w
    /\ \A j \in DOMAIN up[c] :
         j < i /\ up[c][j].op = "command" /\ up[c][j].tag = up[c][i].tag => up[c][j].w = up[c][i].w
Filled(t, n) == t.offset \in Nat /\ t.left \in Nat /\ t.offset + t.left >= n
                /\ \A p \in 1 .. n : p <= t.offset => t.data[p] = t.w
TaskInv(c) ==
  /\ \A i \in DOMAIN tasks[c] : Filled(tasks[c][i], issued[tasks[c][i].w].len)
  /\ running[c] # None => \A p \in DOMAIN running[c].data : running[c].data[p] = running[c].w

ManagedInv(c) == peer[c] = "open" =>
  \A i \in DOMAIN up[c] : up[c][i].op = "abort" =>
    \E v \in DOMAIN issued :
      /\ tmf[c] = {v} /\ issued[v].tag = up[c][i].tag
      /\ \A x \in waits : issued[x].conn = c /\ issued[x].tag = up[c][i].tag => x = v
\* A write that is confirmed to have ended is on the way no more, and not answered.
ConfirmedInv(c) ==
  \A i \in DOMAIN down[c] : down[c][i].op = "complete" =>
    \E v \in waits :
      /\ tmf[c] = {v} /\ issued[v].conn = c /\ v \notin Pipe(c)
      /\ \A j \in DOMAIN down[c] : down[c][j].op = "response" => down[c][j].tag # issued[v].tag
ResponseInv(c) ==
  \A i \in DOMAIN down[c] : down[c][i].op = "response" /\ down[c][i].tag # TmfTag =>
    /\ \E u \in waits : /\ issued[u].conn = c /\ issued[u].tag = down[c][i].tag
                        /\ u \notin Pipe(c) /\ Stored(u)
    /\ \A j \in DOMAIN down[c] :
         down[c][j].op = "response" /\ down[c][j].tag = down[c][i].tag => i = j

ConnInv(c) ==
  /\ PipeInv(c) /\ Ordered(c) /\ DataInv(c) /\ TaskInv(c) /\ ManagedInv(c)
  /\ ConfirmedInv(c) /\ ResponseInv(c)
SessionInv ==
  /\ BaseInv /\ NoResets
  /\ OneSession /\ WaitsInv /\ AckedInv
  /\ \A c \in Iscsi!Conns : ConnInv(c)

---------------------------------------------------------------------------
LEMMA Consts ==
  /\ MaxConn \in Nat \ {0} /\ MaxWrite \in Nat \ {0} /\ Parts \in Nat \ {0} /\ Burst \in Nat \ {0}
  /\ TmfTag \notin Tags /\ \A ended \in SUBSET (1 .. MaxWrite) : ended # None
  /\ Iscsi!Conns = 1 .. MaxConn
BY IscsiA DEF Iscsi!ConstantsAssumption, Iscsi!Conns

LEMMA UpTypes ==
  \A x \in UpPdus :
    /\ x.op \in {"command", "data", "abort", "reset", "pong"}
    /\ x.op \in {"command", "data"} => x.w \in 1 .. MaxWrite /\ x.tag \in Tags
    /\ x.op = "command" => x.sn \in Nat
    /\ x.op = "data" => x.final \in BOOLEAN
    /\ x.op = "abort" => x.tag \in Tags
BY DEF UpPdus

LEMMA DownTypes ==
  \A x \in DownPdus :
    /\ x.op \in {"r2t", "response", "complete", "no task", "ping"}
    /\ x.op = "r2t" => x.tag \in Tags /\ x.len \in Nat
    /\ x.tag \in Tags \union {TmfTag}
BY DEF DownPdus

LEMMA TaskTypes ==
  \A x \in PendingTasks :
    /\ x = [w |-> x.w, tag |-> x.tag, sn |-> x.sn, offset |-> x.offset, left |-> x.left, data |-> x.data]
    /\ x.w \in 1 .. MaxWrite /\ x.tag \in Tags /\ x.sn \in Nat /\ x.offset \in Nat /\ x.left \in Nat
    /\ x.data \in Datas
BY DEF PendingTasks

\* A queue and what is left of it without its head; a queue and a longer one.
After(q, r) ==
  /\ 1 \in DOMAIN q
  /\ \A i \in DOMAIN r : i \in Nat /\ i >= 1 /\ i + 1 \in DOMAIN q /\ r[i] = q[i + 1]
  /\ \A i \in DOMAIN q : i \in Nat /\ i >= 1 /\ (i = 1 \/ (i - 1 \in DOMAIN r /\ r[i - 1] = q[i]))
Longer(q, r, s) ==
  /\ Len(q) \in Nat
  /\ \A i \in DOMAIN q : i \in DOMAIN r /\ r[i] = q[i] /\ i \in 1 .. Len(q)
  /\ \A j \in DOMAIN s : j \in Nat /\ j >= 1 /\ Len(q) + j \in DOMAIN r /\ r[Len(q) + j] = s[j]
  /\ \A i \in DOMAIN r :
       \/ i \in DOMAIN q
       \/ \E j \in DOMAIN s : i = Len(q) + j /\ r[i] = s[j]

LEMMA TailOfSeq ==
  ASSUME NEW S, NEW q \in Seq(S), q # <<>>
  PROVE  Tail(q) \in Seq(S) /\ After(q, Tail(q)) /\ Head(q) = q[1] /\ q[1] \in S
<1>1. Len(q) \in Nat /\ Len(q) > 0 /\ DOMAIN q = 1 .. Len(q) /\ Tail(q) \in Seq(S)
      /\ Len(Tail(q)) = Len(q) - 1
  OBVIOUS
<1>2. DOMAIN Tail(q) = 1 .. Len(q) - 1 /\ \A i \in 1 .. Len(q) - 1 : Tail(q)[i] = q[i + 1]
  BY <1>1
<1> QED BY <1>1, <1>2 DEF After

LEMMA ConcatOfSeqs ==
  ASSUME NEW S, NEW q \in Seq(S), NEW s \in Seq(S)
  PROVE  q \o s \in Seq(S) /\ Longer(q, q \o s, s)
<1>1. /\ Len(q) \in Nat /\ Len(s) \in Nat /\ DOMAIN q = 1 .. Len(q) /\ DOMAIN s = 1 .. Len(s)
      /\ q \o s \in Seq(S) /\ Len(q \o s) = Len(q) + Len(s)
  OBVIOUS
<1>2. /\ DOMAIN (q \o s) = 1 .. Len(q) + Len(s)
      /\ \A i \in 1 .. Len(q) : (q \o s)[i] = q[i]
      /\ \A j \in 1 .. Len(s) : (q \o s)[Len(q) + j] = s[j]
  BY <1>1
<1>3. \A i \in DOMAIN (q \o s) : i \in DOMAIN q \/ \E j \in DOMAIN s : i = Len(q) + j /\ (q \o s)[i] = s[j]
  <2> TAKE i \in DOMAIN (q \o s)
  <2>1. CASE i <= Len(q)
    BY <1>1, <1>2, <2>1
  <2>2. CASE i > Len(q)
    <3>1. i - Len(q) \in DOMAIN s /\ i = Len(q) + (i - Len(q))
      BY <1>1, <1>2, <2>2
    <3> QED BY <1>1, <1>2, <3>1
  <2> QED BY <1>1, <1>2, <2>1, <2>2
<1> QED BY <1>1, <1>2, <1>3 DEF Longer

LEMMA AppendOfSeq ==
  ASSUME NEW S, NEW q \in Seq(S), NEW x \in S
  PROVE  Append(q, x) \in Seq(S) /\ Longer(q, Append(q, x), <<x>>)
<1>1. /\ Len(q) \in Nat /\ DOMAIN q = 1 .. Len(q) /\ DOMAIN <<x>> = {1} /\ <<x>>[1] = x
      /\ Append(q, x) \in Seq(S) /\ Len(Append(q, x)) = Len(q) + 1
  OBVIOUS
<1>2. /\ DOMAIN Append(q, x) = 1 .. Len(q) + 1
      /\ \A i \in 1 .. Len(q) : Append(q, x)[i] = q[i]
      /\ Append(q, x)[Len(q) + 1] = x
  BY <1>1
<1> QED BY <1>1, <1>2 DEF Longer

\* A sequence without one of its elements.
Without(t, k) == SubSeq(t, 1, k - 1) \o SubSeq(t, k + 1, Len(t))

LEMMA WithoutOne ==
  ASSUME NEW S, NEW t \in Seq(S), NEW k \in Nat, 1 <= k, k <= Len(t), NEW r, r = Without(t, k)
  PROVE  /\ r \in Seq(S)
         /\ \A i \in DOMAIN r :
              i \in Nat /\ \E j \in DOMAIN t : j # k /\ r[i] = t[j] /\ j = IF i < k THEN i ELSE i + 1
<1>1. PICK n \in Nat : n = Len(t) /\ DOMAIN t = 1 .. n /\ k <= n
  OBVIOUS
<1>2. PICK a : a = SubSeq(t, 1, k - 1)
  OBVIOUS
<1>3. PICK b : b = SubSeq(t, k + 1, n)
  OBVIOUS
<1>4. a \in Seq(S) /\ Len(a) = k - 1 /\ \A i \in 1 .. k - 1 : a[i] = t[i]
  BY <1>1, <1>2, SubSeqProperties
<1>5. b \in Seq(S) /\ Len(b) = n - k /\ \A i \in 1 .. n - k : b[i] = t[k + i]
  BY <1>1, <1>3, SubSeqProperties
<1>6. r = a \o b
  BY <1>1, <1>2, <1>3 DEF Without
<1>7. r \in Seq(S) /\ Longer(a, r, b)
  BY <1>4, <1>5, <1>6, ConcatOfSeqs
<1>8. DOMAIN a = 1 .. k - 1 /\ DOMAIN b = 1 .. n - k
  BY <1>4, <1>5
<1>9. ASSUME NEW i \in DOMAIN r
      PROVE  i \in Nat /\ \E j \in DOMAIN t : j # k /\ r[i] = t[j] /\ j = IF i < k THEN i ELSE i + 1
  <2>1. CASE i \in DOMAIN a
    BY <1>1, <1>4, <1>7, <1>8, <2>1 DEF Longer
  <2>2. CASE i \notin DOMAIN a
    <3>1. PICK m \in DOMAIN b : i = k - 1 + m /\ r[i] = b[m]
      BY <1>4, <1>7, <2>2 DEF Longer
    <3>2. m \in 1 .. n - k /\ m \in Nat
      BY <1>1, <1>8, <3>1
    <3>3. k + m \in 1 .. n /\ k + m # k /\ k + m = i + 1 /\ ~(i < k) /\ i \in Nat
      BY <1>1, <3>1, <3>2
    <3>4. r[i] = t[k + m]
      BY <1>5, <3>1, <3>2
    <3> QED BY <1>1, <3>3, <3>4
  <2> QED BY <2>1, <2>2
<1> QED BY <1>7, <1>9

---------------------------------------------------------------------------
(* Numbers of commands *)

LEMMA SequencePop ==
  ASSUME NEW q \in Seq(UpPdus), NEW r, After(q, r), NEW e \in Nat, NEW n \in Nat, InSequence(q, e, n)
  PROVE  /\ q[1].op # "command" => InSequence(r, e, n)
         /\ q[1].op = "command" => q[1].sn = e /\ e <= n /\ InSequence(r, e + 1, n)
<1>1. \A i \in DOMAIN q : q[i].op = "command" => q[i].sn \in Nat
  BY UpTypes
<1>2. ASSUME q[1].op # "command" PROVE InSequence(r, e, n)
  <2>1. /\ \A i \in DOMAIN r : r[i].op = "command" => r[i].sn \in e .. n
        /\ \A i, j \in DOMAIN r :
             r[i].op = "command" /\ r[j].op = "command" /\ i < j => r[i].sn < r[j].sn
    BY DEF After, InSequence
  <2>2. ASSUME NEW k \in e .. n PROVE \E i \in DOMAIN r : r[i].op = "command" /\ r[i].sn = k
    <3>1. PICK i \in DOMAIN q : q[i].op = "command" /\ q[i].sn = k
      BY DEF InSequence
    <3>2. i # 1
      BY <1>2, <3>1
    <3> QED BY <3>1, <3>2 DEF After
  <2> QED BY <2>1, <2>2 DEF InSequence
<1>3. ASSUME q[1].op = "command" PROVE q[1].sn = e /\ e <= n /\ InSequence(r, e + 1, n)
  <2>1. 1 \in DOMAIN q /\ q[1].sn \in e .. n
    BY <1>3 DEF After, InSequence
  <2>2. q[1].sn = e /\ e <= n
    <3>1. PICK i \in DOMAIN q : q[i].op = "command" /\ q[i].sn = e
      BY <2>1 DEF InSequence
    <3>2. i = 1 \/ 1 < i
      BY DEF After
    <3> QED BY <1>3, <2>1, <3>1, <3>2 DEF InSequence
  <2>3. ASSUME NEW i \in DOMAIN r, r[i].op = "command" PROVE r[i].sn \in e + 1 .. n
    <3>1. i + 1 \in DOMAIN q /\ r[i] = q[i + 1] /\ 1 < i + 1
      BY DEF After
    <3>2. q[i + 1].sn \in e .. n /\ e < q[i + 1].sn
      BY <1>3, <2>1, <2>2, <2>3, <3>1 DEF InSequence
    <3> QED BY <3>1, <3>2
  <2>4. ASSUME NEW i \in DOMAIN r, NEW j \in DOMAIN r, r[i].op = "command", r[j].op = "command", i < j
        PROVE  r[i].sn < r[j].sn
    <3>1. /\ i + 1 \in DOMAIN q /\ r[i] = q[i + 1] /\ j + 1 \in DOMAIN q /\ r[j] = q[j + 1]
          /\ i + 1 < j + 1
      BY <2>4 DEF After
    <3> QED BY <2>4, <3>1 DEF InSequence
  <2>5. ASSUME NEW k \in e + 1 .. n PROVE \E i \in DOMAIN r : r[i].op = "command" /\ r[i].sn = k
    <3>1. PICK i \in DOMAIN q : q[i].op = "command" /\ q[i].sn = k
      BY DEF InSequence
    <3>2. i # 1
      BY <2>2, <3>1
    <3> QED BY <3>1, <3>2 DEF After
  <2> QED BY <2>2, <2>3, <2>4, <2>5 DEF InSequence
<1> QED BY <1>2, <1>3

LEMMA SequencePut ==
  ASSUME NEW q \in Seq(UpPdus), NEW r, NEW s, Longer(q, r, s), NEW e \in Nat, NEW n \in Nat,
         InSequence(q, e, n), \A j \in DOMAIN s : s[j].op # "command"
  PROVE  InSequence(r, e, n)
<1>1. \A i \in DOMAIN r : r[i].op = "command" => i \in DOMAIN q /\ r[i] = q[i]
  BY DEF Longer
<1>2. \A i \in DOMAIN q : i \in DOMAIN r /\ r[i] = q[i]
  BY DEF Longer
<1> QED BY <1>1, <1>2 DEF InSequence

LEMMA SequenceIssue ==
  ASSUME NEW q \in Seq(UpPdus), NEW r, NEW x \in UpPdus, Longer(q, r, <<x>>), NEW e \in Nat, NEW n \in Nat,
         InSequence(q, e, n), e <= n + 1, x.op = "command", x.sn = n + 1
  PROVE  InSequence(r, e, n + 1)
<1>1. DOMAIN <<x>> = {1} /\ <<x>>[1] = x
  OBVIOUS
<1>2. PICK l \in Nat : l = Len(q)
  BY DEF Longer
<1>3. /\ \A i \in DOMAIN r : (i \in DOMAIN q /\ r[i] = q[i] /\ i \in 1 .. l) \/ (i = l + 1 /\ r[i] = x)
      /\ \A i \in DOMAIN q : i \in DOMAIN r /\ r[i] = q[i]
      /\ l + 1 \in DOMAIN r /\ r[l + 1] = x
  BY <1>1, <1>2 DEF Longer
<1>4. \A i \in DOMAIN r : r[i].op = "command" => r[i].sn \in e .. n + 1
  BY <1>3 DEF InSequence
<1>5. \A i \in DOMAIN q : q[i].op = "command" => q[i].sn \in e .. n /\ q[i].sn < n + 1
  BY DEF InSequence
<1>6. ASSUME NEW i \in DOMAIN r, NEW j \in DOMAIN r, r[i].op = "command", r[j].op = "command", i < j
      PROVE  r[i].sn < r[j].sn
  <2>1. i \in DOMAIN q /\ r[i] = q[i]
    BY <1>3, <1>6
  <2>2. CASE j \in DOMAIN q
    BY <1>3, <1>6, <2>1, <2>2 DEF InSequence
  <2>3. CASE j \notin DOMAIN q
    BY <1>3, <1>5, <1>6, <2>1, <2>3
  <2> QED BY <2>2, <2>3
<1>7. ASSUME NEW k \in e .. n + 1 PROVE \E i \in DOMAIN r : r[i].op = "command" /\ r[i].sn = k
  <2>1. CASE k \in e .. n
    BY <1>3, <2>1 DEF InSequence
  <2>2. CASE k \notin e .. n
    BY <1>3, <2>2
  <2> QED BY <2>1, <2>2
<1> QED BY <1>4, <1>6, <1>7 DEF InSequence

---------------------------------------------------------------------------
(* What the parts of a step do *)

LEMMA PutMoves ==
  ASSUME up \in [Iscsi!Conns -> Seq(UpPdus)], NEW c \in Iscsi!Conns, NEW pdus \in Seq(UpPdus), Iscsi!Put(c, pdus)
  PROVE  /\ up' \in [Iscsi!Conns -> Seq(UpPdus)]
         /\ \A d \in Iscsi!Conns : d # c => up'[d] = up[d]
         /\ state[c] = "scsi" => Longer(up[c], up'[c], pdus)
         /\ state[c] # "scsi" => up'[c] = up[c]
<1>1. up[c] \in Seq(UpPdus)
  OBVIOUS
<1>2. up[c] \o pdus \in Seq(UpPdus) /\ Longer(up[c], up[c] \o pdus, pdus)
  BY <1>1, ConcatOfSeqs
<1>3. up' = [up EXCEPT ![c] = IF state[c] = "scsi" THEN up[c] \o pdus ELSE up[c]]
  BY DEF Iscsi!Put
<1> QED BY <1>1, <1>2, <1>3

LEMMA SendMoves ==
  ASSUME down \in [Iscsi!Conns -> Seq(DownPdus)], NEW c \in Iscsi!Conns, NEW pdus \in Seq(DownPdus), Iscsi!Send(c, pdus)
  PROVE  /\ down' \in [Iscsi!Conns -> Seq(DownPdus)]
         /\ \A d \in Iscsi!Conns : d # c => down'[d] = down[d]
         /\ peer[c] = "open" /\ state[c] = "scsi" => Longer(down[c], down'[c], pdus)
         /\ ~(peer[c] = "open" /\ state[c] = "scsi") => down'[c] = down[c]
<1>1. down[c] \in Seq(DownPdus)
  OBVIOUS
<1>2. down[c] \o pdus \in Seq(DownPdus) /\ Longer(down[c], down[c] \o pdus, pdus)
  BY <1>1, ConcatOfSeqs
<1>3. down' = [down EXCEPT ![c] = IF peer[c] = "open" /\ state[c] = "scsi" THEN down[c] \o pdus ELSE down[c]]
  BY DEF Iscsi!Send
<1> QED BY <1>1, <1>2, <1>3

LEMMA ReadMoves ==
  ASSUME up \in [Iscsi!Conns -> Seq(UpPdus)], NEW c \in Iscsi!Conns, NEW ops, Iscsi!Read(c, ops)
  PROVE  /\ up' \in [Iscsi!Conns -> Seq(UpPdus)]
         /\ \A d \in Iscsi!Conns : d # c => up'[d] = up[d]
         /\ After(up[c], up'[c]) /\ Head(up[c]) = up[c][1] /\ up[c][1] \in UpPdus /\ up[c][1].op \in ops
         /\ state[c] = "scsi" /\ running[c] = None
         /\ ping' = [ping EXCEPT ![c] = "request"]
<1>1. up[c] \in Seq(UpPdus) /\ up[c] # <<>>
  BY DEF Iscsi!Read
<1>2. up' = [up EXCEPT ![c] = Tail(up[c])]
  BY DEF Iscsi!Read
<1> QED BY <1>1, <1>2, TailOfSeq DEF Iscsi!Read

LEMMA DownMoves ==
  ASSUME down \in [Iscsi!Conns -> Seq(DownPdus)], NEW c \in Iscsi!Conns, down[c] # <<>>,
         down' = [down EXCEPT ![c] = Tail(@)]
  PROVE  /\ down' \in [Iscsi!Conns -> Seq(DownPdus)]
         /\ \A d \in Iscsi!Conns : d # c => down'[d] = down[d]
         /\ After(down[c], down'[c]) /\ Head(down[c]) = down[c][1] /\ down[c][1] \in DownPdus
<1>1. down[c] \in Seq(DownPdus)
  OBVIOUS
<1>2. down' = [down EXCEPT ![c] = Tail(down[c])]
  OBVIOUS
<1> QED BY <1>1, <1>2, TailOfSeq

LEMMA OnePdu ==
  /\ \A x \in UpPdus : <<x>> \in Seq(UpPdus)
  /\ \A x \in DownPdus : <<x>> \in Seq(DownPdus)
  /\ \A x, y \in DownPdus : <<x, y>> \in Seq(DownPdus)
  /\ \A x : DOMAIN <<x>> = {1} /\ <<x>>[1] = x
  /\ \A x, y : DOMAIN <<x, y>> = {1, 2} /\ <<x, y>>[1] = x /\ <<x, y>>[2] = y
  /\ <<>> \in Seq(UpPdus) /\ <<>> \in Seq(DownPdus) /\ <<>> \in Seq(PendingTasks) /\ DOMAIN <<>> = {}
OBVIOUS

LEMMA TheIssued ==
  ASSUME issued \in Seq(Writes)
  PROVE  /\ Len(issued) \in Nat /\ DOMAIN issued = 1 .. Len(issued)
         /\ \A w \in DOMAIN issued :
              /\ issued[w].conn \in Iscsi!Conns /\ issued[w].tag \in Tags /\ issued[w].lba \in Lbas
              /\ issued[w].len \in 1 .. Parts /\ issued[w].len \in Nat /\ issued[w].tag # TmfTag /\ w \in Nat
<1>1. Len(issued) \in Nat /\ DOMAIN issued = 1 .. Len(issued)
  OBVIOUS
<1>2. ASSUME NEW w \in DOMAIN issued
      PROVE  /\ issued[w].conn \in Iscsi!Conns /\ issued[w].tag \in Tags /\ issued[w].lba \in Lbas
             /\ issued[w].len \in 1 .. Parts /\ w \in Nat
  <2>1. issued[w] \in Writes
    BY ElementOfSeq
  <2>2. w \in Nat
    BY <1>1
  <2> QED BY <2>1, <2>2 DEF Writes
<1> QED BY <1>1, <1>2, Consts

LEMMA SentTypes ==
  ASSUME issued \in Seq(Writes), NEW c
  PROVE  Iscsi!Sent(c) \in Nat /\ Iscsi!Sent(c) <= Len(issued)
<1>1. {w \in DOMAIN issued : issued[w].conn = c} \in SUBSET (1 .. Len(issued))
  BY TheIssued
<1>2. IsFiniteSet(1 .. Len(issued)) /\ Cardinality(1 .. Len(issued)) = Len(issued)
  <2>1. PICK n \in Nat : n = Len(issued)
    BY TheIssued
  <2>2. IsFiniteSet(1 .. n) /\ Cardinality(1 .. n) = n
    BY FS_Interval
  <2> QED BY <2>1, <2>2
<1> QED BY <1>1, <1>2, FS_Subset, FS_CardinalityType, IscsiCardinality DEF Iscsi!Sent

---------------------------------------------------------------------------
(* Requests of task management *)

LEMMA OnceUp ==
  ASSUME NEW q, NEW r, NEW d, NEW m, Once(q, d, m),
         r = q \/ r = <<>> \/ (After(q, r) /\ q[1].op \notin Tmfs)
           \/ \E s : Longer(q, r, s) /\ \A j \in DOMAIN s : s[j].op \notin Tmfs
  PROVE  Once(r, d, m)
<1>1. CASE r = <<>>
  BY <1>1, OnePdu DEF Once
<1>2. CASE After(q, r)
  <2>1. \A i \in DOMAIN r : i \in Nat /\ i + 1 \in DOMAIN q /\ r[i] = q[i + 1]
    BY <1>2 DEF After
  <2>2. ASSUME NEW i \in DOMAIN r, NEW j \in DOMAIN r, r[i].op \in Tmfs, r[j].op \in Tmfs PROVE i = j
    <3>1. i + 1 = j + 1
      BY <2>1, <2>2 DEF Once
    <3> QED BY <2>1, <3>1
  <2> QED BY <2>1, <2>2 DEF Once
<1>3. CASE \E s : Longer(q, r, s) /\ \A j \in DOMAIN s : s[j].op \notin Tmfs
  <2>1. PICK s : Longer(q, r, s) /\ \A j \in DOMAIN s : s[j].op \notin Tmfs
    BY <1>3
  <2>2. \A i \in DOMAIN r : r[i].op \in Tmfs => i \in DOMAIN q /\ r[i] = q[i]
    BY <2>1 DEF Longer
  <2> QED BY <2>2 DEF Once
<1> QED BY <1>1, <1>2, <1>3

LEMMA OnceDown ==
  ASSUME NEW q, NEW d, NEW e, NEW m, Once(q, d, m),
         \/ e = d \/ e = <<>> \/ (After(d, e) /\ d[1].op \notin Ends)
         \/ \E s : Longer(d, e, s) /\ \A j \in DOMAIN s : s[j].op \notin Ends
  PROVE  Once(q, e, m)
<1>1. CASE e = <<>>
  BY <1>1, OnePdu DEF Once
<1>2. CASE After(d, e)
  <2>1. \A i \in DOMAIN e : i \in Nat /\ i + 1 \in DOMAIN d /\ e[i] = d[i + 1]
    BY <1>2 DEF After
  <2>2. ASSUME NEW i \in DOMAIN e, NEW j \in DOMAIN e, e[i].op \in Ends, e[j].op \in Ends PROVE i = j
    <3>1. i + 1 = j + 1
      BY <2>1, <2>2 DEF Once
    <3> QED BY <2>1, <3>1
  <2>3. \A i \in DOMAIN e : e[i].op \in Ends => m # None
    BY <2>1 DEF Once
  <2>4. \A i \in DOMAIN q : q[i].op \in Tmfs => \A j \in DOMAIN e : e[j].op \notin Ends
    BY <2>1 DEF Once
  <2> QED BY <2>2, <2>3, <2>4 DEF Once
<1>3. CASE \E s : Longer(d, e, s) /\ \A j \in DOMAIN s : s[j].op \notin Ends
  <2>1. PICK s : Longer(d, e, s) /\ \A j \in DOMAIN s : s[j].op \notin Ends
    BY <1>3
  <2>2. \A i \in DOMAIN e : e[i].op \in Ends => i \in DOMAIN d /\ e[i] = d[i]
    BY <2>1 DEF Longer
  <2> QED BY <2>2 DEF Once
<1> QED BY <1>1, <1>2, <1>3

\* An answer is received, and nothing else is on the way.
LEMMA OnceEnded ==
  ASSUME NEW q, NEW d, NEW e, NEW m, Once(q, d, m), After(d, e), d[1].op \in Ends
  PROVE  m # None /\ \A n : Once(q, e, n)
<1>1. 1 \in DOMAIN d /\ \A i \in DOMAIN e : i \in Nat /\ i >= 1 /\ i + 1 \in DOMAIN d /\ e[i] = d[i + 1]
  BY DEF After
<1>2. m # None /\ (\A i \in DOMAIN q : q[i].op \notin Tmfs)
  BY <1>1 DEF Once
<1>3. \A i \in DOMAIN e : e[i].op \notin Ends
  <2>1. \A i \in DOMAIN e : i + 1 # 1
    BY <1>1
  <2> QED BY <1>1, <2>1 DEF Once
<1> QED BY <1>2, <1>3 DEF Once

\* A request is answered.
LEMMA OnceAnswered ==
  ASSUME NEW q, NEW r, NEW d, NEW e, NEW m, Once(q, d, m), After(q, r), q[1].op \in Tmfs,
         e = d \/ \E s : Longer(d, e, s) /\ \A i, j \in DOMAIN s : s[i].op \in Ends /\ s[j].op \in Ends => i = j
  PROVE  Once(r, e, m)
<1>1. 1 \in DOMAIN q /\ \A i \in DOMAIN r : i \in Nat /\ i >= 1 /\ i + 1 \in DOMAIN q /\ r[i] = q[i + 1]
  BY DEF After
<1>2. m # None /\ (\A i \in DOMAIN d : d[i].op \notin Ends)
  BY <1>1 DEF Once
<1>3. \A i \in DOMAIN r : r[i].op \notin Tmfs
  <2>1. \A i \in DOMAIN r : i + 1 # 1
    BY <1>1
  <2> QED BY <1>1, <2>1 DEF Once
<1>4. ASSUME NEW i \in DOMAIN e, NEW j \in DOMAIN e, e[i].op \in Ends, e[j].op \in Ends PROVE i = j
  <2>1. PICK s : Longer(d, e, s) /\ \A x, y \in DOMAIN s : s[x].op \in Ends /\ s[y].op \in Ends => x = y
    BY <1>2, <1>4
  <2>2. PICK x \in DOMAIN s : i = Len(d) + x /\ e[i] = s[x]
    BY <1>2, <1>4, <2>1 DEF Longer
  <2>3. PICK y \in DOMAIN s : j = Len(d) + y /\ e[j] = s[y]
    BY <1>2, <1>4, <2>1 DEF Longer
  <2> QED BY <1>4, <2>1, <2>2, <2>3
<1> QED BY <1>2, <1>3, <1>4 DEF Once

LEMMA OnceAsked ==
  ASSUME NEW q, NEW r, NEW d, NEW m, NEW x, Once(q, d, None), m # None, r = q \/ Longer(q, r, <<x>>)
  PROVE  Once(r, d, m)
<1>1. DOMAIN <<x>> = {1}
  OBVIOUS
<1>2. /\ \A i \in DOMAIN q : q[i].op \notin Tmfs
      /\ \A i \in DOMAIN d : d[i].op \notin Ends
  BY DEF Once
<1>3. \A i, j \in DOMAIN r : r[i].op \in Tmfs /\ r[j].op \in Tmfs => i = j
  BY <1>1, <1>2 DEF Longer
<1> QED BY <1>2, <1>3 DEF Once

\* Other PDUs than requests and their answers.
LEMMA ManagedKept ==
  ASSUME NEW c, ManagedOnce(c), tmf'[c] = tmf[c], peer'[c] = peer[c],
         \/ up'[c] = up[c] \/ up'[c] = <<>> \/ (After(up[c], up'[c]) /\ up[c][1].op \notin Tmfs)
         \/ \E s : Longer(up[c], up'[c], s) /\ \A j \in DOMAIN s : s[j].op \notin Tmfs,
         \/ down'[c] = down[c] \/ (After(down[c], down'[c]) /\ down[c][1].op \notin Ends)
         \/ \E s : Longer(down[c], down'[c], s) /\ \A j \in DOMAIN s : s[j].op \notin Ends
  PROVE  ManagedOnce(c)'
<1> SUFFICES ASSUME peer[c] = "open" PROVE Once(up'[c], down'[c], tmf'[c])
  BY DEF ManagedOnce
<1>1. Once(up[c], down[c], tmf[c])
  BY DEF ManagedOnce
<1>2. Once(up'[c], down[c], tmf[c])
  BY <1>1, OnceUp
<1> QED BY <1>2, OnceDown

---------------------------------------------------------------------------
(* The base: steps that issue nothing *)

Elsewhere(c) == \A d \in Iscsi!Conns : d # c =>
  /\ state'[d] = state[d] /\ tasks'[d] = tasks[d] /\ running'[d] = running[d] /\ exp'[d] = exp[d]
  /\ up'[d] = up[d] /\ down'[d] = down[d] /\ peer'[d] = peer[d] /\ tmf'[d] = tmf[d]

BaseConn(c) ==
  FitsUp(c) /\ FitsTasks(c) /\ FitsRunning(c) /\ Shape(c) /\ Numbers(c) /\ ManagedOnce(c)

LEMMA SentSame == ASSUME issued' = issued, NEW c PROVE Iscsi!Sent(c)' = Iscsi!Sent(c)
BY IscsiCardinality DEF Iscsi!Sent

LEMMA OfSame == ASSUME issued' = issued PROVE \A w, c, tag : Of(w, c, tag)' <=> Of(w, c, tag)
BY DEF Of

LEMMA BaseElsewhere ==
  ASSUME BaseInv, NEW c \in Iscsi!Conns, Elsewhere(c), issued' = issued, NEW d \in Iscsi!Conns, d # c
  PROVE  BaseConn(d)'
<1>1. BaseConn(d)
  BY DEF BaseInv, BaseConn
<1>2. /\ state'[d] = state[d] /\ tasks'[d] = tasks[d] /\ running'[d] = running[d] /\ exp'[d] = exp[d]
      /\ up'[d] = up[d] /\ down'[d] = down[d] /\ peer'[d] = peer[d] /\ tmf'[d] = tmf[d]
  BY DEF Elsewhere
<1>3. FitsUp(d)' /\ FitsTasks(d)' /\ FitsRunning(d)'
  BY <1>1, <1>2 DEF BaseConn, FitsUp, FitsTasks, FitsTask, FitsRunning, Of
<1>4. Shape(d)'
  BY <1>1, <1>2 DEF BaseConn, Shape
<1>5. Numbers(d)'
  BY <1>1, <1>2, SentSame DEF BaseConn, Numbers
<1>6. ManagedOnce(d)'
  BY <1>1, <1>2 DEF BaseConn, ManagedOnce
<1> QED BY <1>3, <1>4, <1>5, <1>6 DEF BaseConn

LEMMA BaseFromConn ==
  ASSUME BaseInv, NEW c \in Iscsi!Conns, Elsewhere(c), issued' = issued,
         Iscsi!TypeOK', ConnTypes', Logged', BaseConn(c)'
  PROVE  BaseInv'
<1>1. \A d \in Iscsi!Conns : BaseConn(d)'
  BY BaseElsewhere
<1> QED BY <1>1 DEF BaseInv, BaseConn

LEMMA LoggedSame == ASSUME Logged, peer' = peer PROVE Logged'
BY IscsiCardinality DEF Logged, Iscsi!Last

\* What was read leaves the queue; what was put has come to it.
LEMMA FitsAfterRead ==
  ASSUME NEW c, FitsUp(c), After(up[c], up'[c]), issued' = issued
  PROVE  FitsUp(c)'
BY DEF FitsUp, After, Of

LEMMA FitsAfterPut ==
  ASSUME NEW c, FitsUp(c), NEW s, Longer(up[c], up'[c], s), issued' = issued,
         \A j \in DOMAIN s : s[j].op \in {"command", "data"} => Of(s[j].w, c, s[j].tag)
  PROVE  FitsUp(c)'
BY DEF FitsUp, Longer, Of

LEMMA NumbersAfterRead ==
  ASSUME BaseInv, NEW c \in Iscsi!Conns, state[c] = "scsi", After(up[c], up'[c]), issued' = issued, state' = state
  PROVE  /\ up[c][1].op # "command" /\ exp' = exp => Numbers(c)'
         /\ up[c][1].op = "command" => /\ up[c][1].sn = exp[c] /\ exp[c] <= Iscsi!Sent(c)
                                       /\ exp'[c] = exp[c] + 1 => Numbers(c)'
<1>1. up[c] \in Seq(UpPdus) /\ exp[c] \in Nat /\ issued \in Seq(Writes)
  BY Consts DEF BaseInv, Iscsi!TypeOK, ConnTypes
<1>2. PICK n \in Nat : n = Iscsi!Sent(c) /\ Iscsi!Sent(c)' = n
  BY <1>1, SentTypes, SentSame
<1>3. exp[c] <= n + 1 /\ InSequence(up[c], exp[c], n)
  BY <1>2 DEF BaseInv, Numbers
<1>4. /\ up[c][1].op # "command" => InSequence(up'[c], exp[c], n)
      /\ up[c][1].op = "command" => up[c][1].sn = exp[c] /\ exp[c] <= n /\ InSequence(up'[c], exp[c] + 1, n)
  BY <1>1, <1>3, SequencePop
<1>5. ASSUME up[c][1].op # "command", exp' = exp PROVE Numbers(c)'
  BY <1>2, <1>3, <1>4, <1>5 DEF Numbers
<1>6. ASSUME up[c][1].op = "command", exp'[c] = exp[c] + 1 PROVE Numbers(c)'
  BY <1>1, <1>2, <1>4, <1>6 DEF Numbers
<1> QED BY <1>2, <1>4, <1>5, <1>6

LEMMA NumbersAfterPut ==
  ASSUME BaseInv, NEW c \in Iscsi!Conns, NEW s, issued' = issued, state' = state, exp' = exp,
         IF state[c] = "scsi" THEN Longer(up[c], up'[c], s) ELSE up'[c] = up[c],
         \A j \in DOMAIN s : s[j].op # "command"
  PROVE  Numbers(c)'
<1>1. up[c] \in Seq(UpPdus) /\ exp[c] \in Nat /\ issued \in Seq(Writes)
  BY Consts DEF BaseInv, Iscsi!TypeOK, ConnTypes
<1>2. PICK n \in Nat : n = Iscsi!Sent(c) /\ Iscsi!Sent(c)' = n
  BY <1>1, SentTypes, SentSame
<1>3. exp[c] <= n + 1 /\ (state[c] = "scsi" => InSequence(up[c], exp[c], n))
  BY <1>2 DEF BaseInv, Numbers
<1>4. state[c] = "scsi" => InSequence(up'[c], exp[c], n)
  BY <1>1, <1>3, SequencePut
<1> QED BY <1>2, <1>3, <1>4 DEF Numbers

---------------------------------------------------------------------------
LEMMA FirstIndexIsFirst ==
  ASSUME tasks \in [Iscsi!Conns -> Seq(PendingTasks)], NEW c \in Iscsi!Conns, NEW tag, Iscsi!WithTag(c, tag) # {}
  PROVE  Iscsi!FirstIndex(c, tag) \in DOMAIN tasks[c] /\ tasks[c][Iscsi!FirstIndex(c, tag)].tag = tag
<1>1. Iscsi!WithTag(c, tag) \subseteq Nat
  BY DEF Iscsi!WithTag
<1>2. \E i \in Iscsi!WithTag(c, tag) : \A j \in Iscsi!WithTag(c, tag) : i <= j
  BY <1>1, Minimum
<1>3. Iscsi!FirstIndex(c, tag) \in Iscsi!WithTag(c, tag)
  BY <1>2 DEF Iscsi!FirstIndex
<1> QED BY <1>3 DEF Iscsi!WithTag

LEMMA RemoveMoves ==
  ASSUME tasks \in [Iscsi!Conns -> Seq(PendingTasks)], NEW c \in Iscsi!Conns, NEW tag, NEW r, r = Iscsi!RemoveByTag(c, tag)
  PROVE  /\ r \in Seq(PendingTasks)
         /\ \A i \in DOMAIN r : \E j \in DOMAIN tasks[c] : r[i] = tasks[c][j]
         /\ (\A i, j \in DOMAIN tasks[c] : tasks[c][i].tag = tasks[c][j].tag => i = j) =>
              /\ \A i, j \in DOMAIN r : r[i].tag = r[j].tag => i = j
              /\ \A i \in DOMAIN r : r[i].tag # tag
<1>1. CASE Iscsi!WithTag(c, tag) = {}
  BY <1>1 DEF Iscsi!RemoveByTag, Iscsi!WithTag
<1>2. CASE Iscsi!WithTag(c, tag) # {}
  <2>1. PICK t \in Seq(PendingTasks) : t = tasks[c]
    OBVIOUS
  <2>2. PICK n \in Nat : n = Len(t) /\ DOMAIN t = 1 .. n
    OBVIOUS
  <2>3. PICK k : k = Iscsi!FirstIndex(c, tag)
    OBVIOUS
  <2>4. k \in DOMAIN t /\ t[k].tag = tag
    BY <1>2, <2>1, <2>3, FirstIndexIsFirst
  <2>5. k \in Nat /\ 1 <= k /\ k <= Len(t)
    BY <2>2, <2>4
  <2>6. r = Without(t, k)
    BY <1>2, <2>1, <2>3 DEF Iscsi!RemoveByTag, Without
  <2>7. /\ r \in Seq(PendingTasks)
        /\ \A i \in DOMAIN r :
             i \in Nat /\ \E j \in DOMAIN t : j # k /\ r[i] = t[j] /\ j = IF i < k THEN i ELSE i + 1
    BY <2>5, <2>6, WithoutOne
  <2>8. ASSUME \A i, j \in DOMAIN t : t[i].tag = t[j].tag => i = j
        PROVE  /\ \A i, j \in DOMAIN r : r[i].tag = r[j].tag => i = j
               /\ \A i \in DOMAIN r : r[i].tag # tag
    <3>1. ASSUME NEW i \in DOMAIN r, NEW j \in DOMAIN r, r[i].tag = r[j].tag PROVE i = j
      <4>1. PICK x \in DOMAIN t : r[i] = t[x] /\ x = IF i < k THEN i ELSE i + 1
        BY <2>7
      <4>2. PICK y \in DOMAIN t : r[j] = t[y] /\ y = IF j < k THEN j ELSE j + 1
        BY <2>7
      <4>3. x = y /\ i \in Nat /\ j \in Nat
        BY <2>7, <2>8, <3>1, <4>1, <4>2
      <4> QED BY <2>5, <4>1, <4>2, <4>3
    <3>2. ASSUME NEW i \in DOMAIN r PROVE r[i].tag # tag
      <4>1. PICK x \in DOMAIN t : x # k /\ r[i] = t[x]
        BY <2>7
      <4> QED BY <2>4, <2>8, <4>1
    <3> QED BY <3>1, <3>2
  <2> QED BY <2>1, <2>7, <2>8
<1> QED BY <1>1, <1>2

\* A step of the target.
LEMMA TargetBase ==
  ASSUME BaseInv, NEW c \in Iscsi!Conns, UNCHANGED Iscsi!peerVars, Elsewhere(c),
         state' \in [Iscsi!Conns -> {"free", "scsi", "closed"}], nexus' \subseteq Iscsi!Conns,
         reads' \in [Iscsi!Conns -> BOOLEAN], exp' \in [Iscsi!Conns -> 1 .. MaxWrite + 1],
         ping' \in [Iscsi!Conns -> {"request", "response"}], disk' \in [Iscsi!Places -> 0 .. MaxWrite],
         up' \in [Iscsi!Conns -> Seq(UpPdus)], down' \in [Iscsi!Conns -> Seq(DownPdus)],
         tasks' \in [Iscsi!Conns -> Seq(PendingTasks)], running' \in [Iscsi!Conns -> PendingTasks \union {None}],
         BaseConn(c)'
  PROVE  BaseInv'
<1>1. /\ issued' = issued /\ peer' = peer /\ tmf' = tmf /\ waits' = waits /\ acked' = acked
      /\ aborted' = aborted
  BY DEF Iscsi!peerVars
<1>2. ConnTypes' /\ Logged'
  BY <1>1, LoggedSame DEF ConnTypes, BaseInv
<1>3. \A d \in Iscsi!Conns : BaseConn(d)'
  BY <1>1, BaseElsewhere
<1>4. ASSUME NEW d \in Iscsi!Conns
      PROVE  /\ \A i \in DOMAIN tasks'[d] : tasks'[d][i].w \in DOMAIN issued'
             /\ running'[d] = None \/ running'[d].w \in DOMAIN issued'
             /\ tmf'[d] = None \/ tmf'[d] \subseteq DOMAIN issued'
  <2>1. FitsTasks(d)' /\ FitsRunning(d)'
    BY <1>3 DEF BaseConn
  <2>2. tmf[d] = None \/ tmf[d] \subseteq DOMAIN issued
    BY DEF BaseInv, Iscsi!TypeOK
  <2> QED BY <1>1, <2>1, <2>2 DEF FitsTasks, FitsRunning, FitsTask, Of
<1>5. Iscsi!TypeOK'
  BY <1>1, <1>4 DEF Iscsi!TypeOK, BaseInv
<1> QED BY <1>1, <1>2, <1>5, <1>3 DEF BaseInv, BaseConn

\* What a step does not touch fits as before.
LEMMA FitsKept ==
  ASSUME NEW c, issued' = issued
  PROVE  /\ FitsUp(c) /\ up'[c] = up[c] => FitsUp(c)'
         /\ FitsTasks(c) /\ tasks'[c] = tasks[c] => FitsTasks(c)'
         /\ FitsRunning(c) /\ running'[c] = running[c] => FitsRunning(c)'
BY DEF FitsUp, FitsTasks, FitsRunning, FitsTask, Of

LEMMA NumbersKept ==
  ASSUME NEW c, Numbers(c), issued' = issued, exp'[c] = exp[c], up'[c] = up[c], state'[c] = state[c]
  PROVE  Numbers(c)'
BY SentSame DEF Numbers

---------------------------------------------------------------------------
(* Tasks *)

LEMMA CopiedTask ==
  ASSUME NEW t \in PendingTasks, NEW w \in 1 .. MaxWrite, NEW u, u = Iscsi!Copied(t, w)
  PROVE  /\ u \in PendingTasks /\ u.w = t.w /\ u.tag = t.tag
         /\ u.offset = t.offset + 1 /\ u.left = IF t.left > 0 THEN t.left - 1 ELSE 0
         /\ DOMAIN u.data = DOMAIN t.data
         /\ \A p \in DOMAIN t.data : u.data[p] = IF p = t.offset + 1 THEN w ELSE t.data[p]
<1>1. PICK filled : filled = [p \in DOMAIN t.data |-> IF p = t.offset + 1 THEN w ELSE t.data[p]]
  OBVIOUS
<1>2. PICK offset, left : offset = t.offset + 1 /\ left = IF t.left > 0 THEN t.left - 1 ELSE 0
  OBVIOUS
<1>3. u = [w |-> t.w, tag |-> t.tag, sn |-> t.sn, offset |-> offset, left |-> left, data |-> filled]
  <2>1. t = [w |-> t.w, tag |-> t.tag, sn |-> t.sn, offset |-> t.offset, left |-> t.left, data |-> t.data]
    BY TaskTypes
  <2>2. u = [t EXCEPT !.offset = offset, !.left = left, !.data = filled]
    BY <1>1, <1>2 DEF Iscsi!Copied
  <2> QED BY <2>1, <2>2
<1>4. /\ t.w \in 1 .. MaxWrite /\ t.tag \in Tags /\ t.sn \in Nat /\ t.offset \in Nat /\ t.left \in Nat
      /\ t.data \in Datas
  BY TaskTypes
<1>5. filled \in Datas
  <2>1. PICK n \in 1 .. Parts : t.data \in [1 .. n -> 0 .. MaxWrite]
    BY <1>4 DEF Datas
  <2>2. w \in 0 .. MaxWrite
    BY Consts
  <2>3. filled \in [1 .. n -> 0 .. MaxWrite]
    BY <1>1, <2>1, <2>2
  <2> QED BY <2>3 DEF Datas
<1>6. offset \in Nat /\ left \in Nat
  BY <1>2, <1>4
<1>7. u \in PendingTasks
  BY <1>3, <1>4, <1>5, <1>6 DEF PendingTasks
<1> QED BY <1>1, <1>2, <1>3, <1>7

LEMMA NewTask ==
  ASSUME issued \in Seq(Writes), NEW w \in DOMAIN issued, Len(issued) <= MaxWrite,
         NEW sn \in Nat, NEW tag \in Tags, NEW u, u = Iscsi!Task(w, sn, tag)
  PROVE  /\ u \in PendingTasks /\ u.w = w /\ u.tag = tag /\ u.offset = 1
         /\ u.left = issued[w].len - 1 /\ u.left \in Nat /\ DOMAIN u.data = 1 .. issued[w].len
         /\ u.data[1] = w
<1>1. PICK n \in 1 .. Parts : n = issued[w].len /\ n \in Nat /\ n >= 1
  BY TheIssued, Consts
<1>2. w \in 1 .. MaxWrite /\ w \in 0 .. MaxWrite
  BY TheIssued, Consts
<1>3. PICK filled : filled = [p \in 1 .. n |-> IF p = 1 THEN w ELSE 0]
  OBVIOUS
<1>4. 0 \in 0 .. MaxWrite
  BY Consts
<1>5. filled \in [1 .. n -> 0 .. MaxWrite] /\ filled[1] = w
  BY <1>1, <1>2, <1>3, <1>4
<1>6. u = [w |-> w, tag |-> tag, sn |-> sn, offset |-> 1, left |-> n - 1, data |-> filled]
  BY <1>1, <1>3 DEF Iscsi!Task
<1>7. u \in PendingTasks
  <2>1. filled \in Datas
    BY <1>5 DEF Datas
  <2> QED BY <1>1, <1>2, <1>6, <2>1 DEF PendingTasks
<1> QED BY <1>1, <1>5, <1>6, <1>7

LEMMA ReadyPdu ==
  ASSUME NEW t \in PendingTasks
  PROVE  Iscsi!Ready(t) \in DownPdus /\ Iscsi!Ready(t).op = "r2t"
BY TaskTypes, Consts DEF Iscsi!Ready, DownPdus

---------------------------------------------------------------------------
(* The base: steps of the target *)

LEMMA BaseTypes ==
  ASSUME BaseInv
  PROVE  /\ Iscsi!TypeOK /\ ConnTypes
         /\ state \in [Iscsi!Conns -> {"free", "scsi", "closed"}] /\ nexus \subseteq Iscsi!Conns
         /\ reads \in [Iscsi!Conns -> BOOLEAN] /\ exp \in [Iscsi!Conns -> 1 .. MaxWrite + 1]
         /\ ping \in [Iscsi!Conns -> {"request", "response"}] /\ disk \in [Iscsi!Places -> 0 .. MaxWrite]
         /\ up \in [Iscsi!Conns -> Seq(UpPdus)] /\ down \in [Iscsi!Conns -> Seq(DownPdus)]
         /\ tasks \in [Iscsi!Conns -> Seq(PendingTasks)] /\ running \in [Iscsi!Conns -> PendingTasks \union {None}]
         /\ issued \in Seq(Writes) /\ Len(issued) <= MaxWrite
         /\ \A c \in Iscsi!Conns : /\ BaseConn(c) /\ FitsUp(c) /\ FitsTasks(c) /\ FitsRunning(c) /\ Shape(c)
                                   /\ Numbers(c) /\ ManagedOnce(c) /\ exp[c] \in Nat /\ up[c] \in Seq(UpPdus)
                                   /\ down[c] \in Seq(DownPdus) /\ tasks[c] \in Seq(PendingTasks)
<1>1. Iscsi!TypeOK /\ ConnTypes /\ \A c \in Iscsi!Conns : BaseConn(c)
  BY DEF BaseInv, BaseConn
<1>2. \A c \in Iscsi!Conns : exp[c] \in Nat
  BY <1>1, Consts DEF Iscsi!TypeOK
<1> QED BY <1>1, <1>2 DEF Iscsi!TypeOK, ConnTypes, BaseConn

LEMMA ShapeAfterRead ==
  ASSUME NEW c, Shape(c), state[c] = "scsi", state' = state, peer' = peer, tmf' = tmf,
         issued' = issued, peer[c] # "open" => down'[c] = down[c]
  PROVE  Shape(c)'
BY DEF Shape

\* The next number that is expected is one that there is.
LEMMA NextNumber ==
  ASSUME BaseInv, NEW c \in Iscsi!Conns, exp[c] <= Iscsi!Sent(c) PROVE exp[c] + 1 \in 1 .. MaxWrite + 1
<1>1. Iscsi!Sent(c) \in Nat /\ Iscsi!Sent(c) <= Len(issued) /\ Len(issued) \in Nat /\ Len(issued) <= MaxWrite
  BY BaseTypes, SentTypes, TheIssued
<1>2. exp[c] \in 1 .. MaxWrite + 1
  BY DEF BaseInv, Iscsi!TypeOK
<1>3. PICK e \in Nat : e = exp[c]
  BY BaseTypes
<1>4. PICK n \in Nat : n = Iscsi!Sent(c)
  BY <1>1
<1>5. e + 1 \in 1 .. MaxWrite + 1
  BY <1>1, <1>3, <1>4, Consts
<1> QED BY <1>3, <1>5

LEMMA FitsTasksOf ==
  ASSUME NEW c, issued' = issued, NEW t, FitsTasks(c), FitsTask(c, t), issued[t.w].len > 1,
         \A i \in DOMAIN tasks'[c] : tasks'[c][i] = t \/ \E j \in DOMAIN tasks[c] : tasks'[c][i] = tasks[c][j]
  PROVE  FitsTasks(c)'
<1>1. ASSUME NEW i \in DOMAIN tasks'[c]
      PROVE  FitsTask(c, tasks'[c][i]) /\ issued[tasks'[c][i].w].len > 1
  BY DEF FitsTasks
<1> QED BY <1>1 DEF FitsTasks, FitsTask, Of

\* What is sent but is no answer to a request of task management.
LEMMA SendPlain ==
  ASSUME BaseInv, NEW c \in Iscsi!Conns, NEW x \in DownPdus, x.op \notin Ends, Iscsi!Send(c, <<x>>)
  PROVE  \/ down'[c] = down[c]
         \/ \E s : Longer(down[c], down'[c], s) /\ \A j \in DOMAIN s : s[j].op \notin Ends
<1>1. <<x>> \in Seq(DownPdus) /\ \A j \in DOMAIN <<x>> : <<x>>[j].op \notin Ends
  BY OnePdu
<1>2. down'[c] = down[c] \/ Longer(down[c], down'[c], <<x>>)
  BY <1>1, BaseTypes, SendMoves
<1> QED BY <1>1, <1>2

LEMMA HandleLongWriteBase ==
  ASSUME BaseInv, NEW c \in Iscsi!Conns, Iscsi!HandleLongWrite(c)
  PROVE  BaseInv'
<1>1. PICK pdu : pdu = up[c][1]
  OBVIOUS
<1>2. /\ up' \in [Iscsi!Conns -> Seq(UpPdus)] /\ \A d \in Iscsi!Conns : d # c => up'[d] = up[d]
      /\ After(up[c], up'[c]) /\ Head(up[c]) = pdu /\ pdu \in UpPdus /\ pdu.op = "command"
      /\ state[c] = "scsi" /\ running[c] = None
      /\ ping' = [ping EXCEPT ![c] = "request"]
  BY <1>1, BaseTypes, ReadMoves DEF Iscsi!HandleLongWrite
<1>3. Of(pdu.w, c, pdu.tag) /\ pdu.sn \in Nat /\ pdu.tag \in Tags
  BY <1>1, <1>2, BaseTypes, UpTypes DEF FitsUp, After
<1>4. PICK t : t = Iscsi!Task(pdu.w, pdu.sn, pdu.tag)
  OBVIOUS
<1>5. /\ t \in PendingTasks /\ t.w = pdu.w /\ t.tag = pdu.tag /\ DOMAIN t.data = 1 .. issued[pdu.w].len
      /\ t.left = issued[pdu.w].len - 1
  BY <1>3, <1>4, BaseTypes, NewTask DEF Of
<1>6. /\ t.left > 0 /\ exp' = [exp EXCEPT ![c] = exp[c] + 1]
      /\ tasks' = [tasks EXCEPT ![c] = Append(tasks[c], t)] /\ Iscsi!Send(c, <<Iscsi!Ready(t)>>)
      /\ UNCHANGED <<state, nexus, reads, running, disk, Iscsi!peerVars>>
  BY <1>2, <1>4 DEF Iscsi!HandleLongWrite, Iscsi!Expect
<1>7. issued' = issued /\ peer' = peer /\ tmf' = tmf /\ state' = state /\ running' = running
  BY <1>6 DEF Iscsi!peerVars
<1>8. /\ down' \in [Iscsi!Conns -> Seq(DownPdus)] /\ \A d \in Iscsi!Conns : d # c => down'[d] = down[d]
      /\ peer[c] # "open" => down'[c] = down[c]
  BY <1>5, <1>6, BaseTypes, ReadyPdu, OnePdu, SendMoves
<1>9. /\ Append(tasks[c], t) \in Seq(PendingTasks) /\ Longer(tasks[c], tasks'[c], <<t>>)
      /\ tasks' \in [Iscsi!Conns -> Seq(PendingTasks)]
  BY <1>5, <1>6, BaseTypes, AppendOfSeq
<1>10. FitsTasks(c)'
  <2>1. issued[t.w].len > 1
    BY <1>3, <1>5, <1>6, BaseTypes, TheIssued DEF Of
  <2>2. \A i \in DOMAIN tasks'[c] : tasks'[c][i] = t \/ \E j \in DOMAIN tasks[c] : tasks'[c][i] = tasks[c][j]
    BY <1>9, OnePdu DEF Longer
  <2>3. FitsTasks(c)
    BY BaseTypes
  <2>4. FitsTask(c, t)
    BY <1>3, <1>5 DEF FitsTask, Of
  <2> QED BY <1>7, <2>1, <2>2, <2>3, <2>4, FitsTasksOf
<1>11. FitsUp(c)' /\ FitsRunning(c)'
  BY <1>2, <1>7, BaseTypes, FitsAfterRead, FitsKept
<1>12. Numbers(c)' /\ exp[c] <= Iscsi!Sent(c)
  BY <1>1, <1>2, <1>6, <1>7, BaseTypes, NumbersAfterRead
<1>13. exp' \in [Iscsi!Conns -> 1 .. MaxWrite + 1]
  BY <1>6, <1>12, BaseTypes, NextNumber
<1>17. ManagedOnce(c)'
  <2>1. up[c][1].op \notin Tmfs
    BY <1>1, <1>2 DEF Tmfs
  <2>2. \/ down'[c] = down[c]
        \/ \E s : Longer(down[c], down'[c], s) /\ \A j \in DOMAIN s : s[j].op \notin Ends
    BY <1>5, <1>6, ReadyPdu, SendPlain DEF Ends
  <2> QED BY <1>2, <1>7, <2>1, <2>2, BaseTypes, ManagedKept
<1>14. BaseConn(c)'
  BY <1>2, <1>7, <1>8, <1>10, <1>11, <1>12, <1>17, BaseTypes, ShapeAfterRead DEF BaseConn
<1>15. Elsewhere(c)
  BY <1>2, <1>6, <1>7, <1>8, BaseTypes DEF Elsewhere
<1>16. /\ UNCHANGED <<nexus, reads, disk>> /\ UNCHANGED Iscsi!peerVars
       /\ ping' \in [Iscsi!Conns -> {"request", "response"}] /\ running' \in [Iscsi!Conns -> PendingTasks \union {None}]
  BY <1>2, <1>6, <1>7, BaseTypes
<1> QED BY <1>2, <1>7, <1>8, <1>9, <1>13, <1>14, <1>15, <1>16, BaseTypes, TargetBase


LEMMA ReadManaged ==
  ASSUME BaseInv, NEW c \in Iscsi!Conns, NEW ops, Iscsi!Read(c, ops), ops \intersect Tmfs = {}, UNCHANGED Iscsi!peerVars,
         \/ down'[c] = down[c]
         \/ \E s : Longer(down[c], down'[c], s) /\ \A j \in DOMAIN s : s[j].op \notin Ends
  PROVE  ManagedOnce(c)'
<1>1. After(up[c], up'[c]) /\ up[c][1].op \notin Tmfs
  BY BaseTypes, ReadMoves
<1>2. tmf'[c] = tmf[c] /\ peer'[c] = peer[c]
  BY DEF Iscsi!peerVars
<1> QED BY <1>1, <1>2, BaseTypes, ManagedKept

\* A step that reads a PDU.
LEMMA ReadBase ==
  ASSUME BaseInv, NEW c \in Iscsi!Conns, NEW ops, Iscsi!Read(c, ops), UNCHANGED <<state, nexus, disk, Iscsi!peerVars>>,
         reads' \in [Iscsi!Conns -> BOOLEAN], exp' \in [Iscsi!Conns -> 1 .. MaxWrite + 1],
         tasks' \in [Iscsi!Conns -> Seq(PendingTasks)], running' \in [Iscsi!Conns -> PendingTasks \union {None}],
         down' \in [Iscsi!Conns -> Seq(DownPdus)],
         \A d \in Iscsi!Conns : d # c => /\ tasks'[d] = tasks[d] /\ running'[d] = running[d]
                                         /\ exp'[d] = exp[d] /\ down'[d] = down[d],
         peer[c] # "open" => down'[c] = down[c],
         FitsTasks(c)', FitsRunning(c)', Numbers(c)', ManagedOnce(c)'
  PROVE  BaseInv'
<1>1. /\ up' \in [Iscsi!Conns -> Seq(UpPdus)] /\ \A d \in Iscsi!Conns : d # c => up'[d] = up[d]
      /\ After(up[c], up'[c]) /\ state[c] = "scsi" /\ ping' = [ping EXCEPT ![c] = "request"]
  BY BaseTypes, ReadMoves
<1>2. issued' = issued /\ peer' = peer /\ tmf' = tmf /\ state' = state /\ UNCHANGED Iscsi!peerVars
  BY DEF Iscsi!peerVars
<1>3. FitsUp(c)' /\ Shape(c)'
  BY <1>1, <1>2, BaseTypes, FitsAfterRead, ShapeAfterRead
<1>4. BaseConn(c)' /\ Elsewhere(c)
  BY <1>1, <1>2, <1>3 DEF BaseConn, Elsewhere
<1>5. ping' \in [Iscsi!Conns -> {"request", "response"}]
  BY <1>1, BaseTypes
<1> QED BY <1>1, <1>2, <1>4, <1>5, BaseTypes, TargetBase

\* What is read but is not a command keeps the numbers.
LEMMA ReadNoCommand ==
  ASSUME BaseInv, NEW c \in Iscsi!Conns, NEW ops, Iscsi!Read(c, ops), "command" \notin ops,
         UNCHANGED <<state, exp, Iscsi!peerVars>>
  PROVE  Numbers(c)'
<1>1. After(up[c], up'[c]) /\ state[c] = "scsi" /\ up[c][1].op # "command"
  BY BaseTypes, ReadMoves
<1>2. issued' = issued
  BY DEF Iscsi!peerVars
<1> QED BY <1>1, <1>2, NumbersAfterRead

LEMMA HandleShortWriteBase ==
  ASSUME BaseInv, NEW c \in Iscsi!Conns, Iscsi!HandleShortWrite(c)
  PROVE  BaseInv'
<1>1. PICK pdu : pdu = up[c][1]
  OBVIOUS
<1>2. /\ After(up[c], up'[c]) /\ Head(up[c]) = pdu /\ pdu \in UpPdus /\ pdu.op = "command"
      /\ state[c] = "scsi" /\ running[c] = None
  BY <1>1, BaseTypes, ReadMoves DEF Iscsi!HandleShortWrite
<1>3. Of(pdu.w, c, pdu.tag) /\ pdu.sn \in Nat /\ pdu.tag \in Tags
  BY <1>1, <1>2, BaseTypes, UpTypes DEF FitsUp, After
<1>4. PICK t : t = Iscsi!Task(pdu.w, pdu.sn, pdu.tag)
  OBVIOUS
<1>5. t \in PendingTasks /\ t.w = pdu.w /\ t.tag = pdu.tag /\ DOMAIN t.data = 1 .. issued[pdu.w].len
  BY <1>3, <1>4, BaseTypes, NewTask DEF Of
<1>6. /\ Iscsi!Read(c, {"command"}) /\ pdu.sn = exp[c] /\ exp' = [exp EXCEPT ![c] = pdu.sn + 1]
      /\ running' = [running EXCEPT ![c] = t]
      /\ UNCHANGED <<state, nexus, reads, tasks, disk, down, Iscsi!peerVars>>
  BY <1>2, <1>4 DEF Iscsi!HandleShortWrite, Iscsi!Expect
<1>7. issued' = issued /\ state' = state /\ tasks' = tasks /\ down' = down
  BY <1>6 DEF Iscsi!peerVars
<1>8. Numbers(c)' /\ exp[c] <= Iscsi!Sent(c)
  BY <1>1, <1>2, <1>6, <1>7, BaseTypes, NumbersAfterRead
<1>9. exp' \in [Iscsi!Conns -> 1 .. MaxWrite + 1]
  BY <1>6, <1>8, BaseTypes, NextNumber
<1>10. FitsRunning(c)'
  BY <1>3, <1>5, <1>6, <1>7, BaseTypes DEF FitsRunning, FitsTask, Of
<1>11. running' \in [Iscsi!Conns -> PendingTasks \union {None}]
  BY <1>5, <1>6, BaseTypes
<1>12. FitsTasks(c)'
  BY <1>7, BaseTypes, FitsKept
<1>13. UNCHANGED <<state, nexus, disk, Iscsi!peerVars>> /\ reads' \in [Iscsi!Conns -> BOOLEAN]
  BY <1>6, BaseTypes
<1>14. \A d \in Iscsi!Conns : d # c => running'[d] = running[d] /\ exp'[d] = exp[d]
  BY <1>6, BaseTypes
<1>15. ManagedOnce(c)'
  BY <1>6, <1>7, ReadManaged DEF Tmfs
<1> QED BY <1>6, <1>7, <1>8, <1>9, <1>10, <1>11, <1>12, <1>13, <1>14, <1>15, BaseTypes, ReadBase

\* Data fills the task u that was at the place i.
Filling(c, i, u) ==
  /\ tasks[c][i].tag = up[c][1].tag
  /\ u.w = tasks[c][i].w /\ u.tag = tasks[c][i].tag /\ u.offset = tasks[c][i].offset + 1
  /\ u.left = IF tasks[c][i].left > 0 THEN tasks[c][i].left - 1 ELSE 0
  /\ DOMAIN u.data = DOMAIN tasks[c][i].data
  /\ \A p \in DOMAIN tasks[c][i].data :
       u.data[p] = IF p = tasks[c][i].offset + 1 THEN up[c][1].w ELSE tasks[c][i].data[p]
  /\ tasks'[c] = [tasks[c] EXCEPT ![i] = u] /\ tasks' = [tasks EXCEPT ![c] = tasks'[c]]
  /\ \/ running' = running /\ down' = down
     \/ running' = running /\ Iscsi!Send(c, <<Iscsi!Ready(u)>>)
     \/ running' = [running EXCEPT ![c] = u] /\ u.left = 0 /\ down' = down

LEMMA DataMoves ==
  ASSUME BaseInv, NEW c \in Iscsi!Conns, Iscsi!HandleData(c)
  PROVE  /\ Of(up[c][1].w, c, up[c][1].tag) /\ 1 \in DOMAIN up[c] /\ up[c][1].op = "data"
         /\ \E i \in DOMAIN tasks[c], u \in PendingTasks : Filling(c, i, u)
<1>1. PICK pdu : pdu = up[c][1]
  OBVIOUS
<1>2. /\ After(up[c], up'[c]) /\ Head(up[c]) = pdu /\ pdu \in UpPdus /\ pdu.op = "data"
      /\ state[c] = "scsi" /\ running[c] = None
  BY <1>1, BaseTypes, ReadMoves DEF Iscsi!HandleData
<1>3. Of(pdu.w, c, pdu.tag) /\ pdu.w \in 1 .. MaxWrite /\ 1 \in DOMAIN up[c]
  BY <1>1, <1>2, BaseTypes, UpTypes DEF FitsUp, After
<1>4. PICK i : i = Iscsi!FirstIndex(c, pdu.tag)
  OBVIOUS
<1>5. i \in DOMAIN tasks[c] /\ tasks[c][i].tag = pdu.tag
  BY <1>2, <1>4, BaseTypes, FirstIndexIsFirst DEF Iscsi!HandleData
<1>6. PICK t \in PendingTasks : t = tasks[c][i]
  BY <1>5, BaseTypes, ElementOfSeq
<1>7. PICK u : u = Iscsi!Copied(t, pdu.w)
  OBVIOUS
<1>8. /\ u \in PendingTasks /\ u.w = t.w /\ u.tag = t.tag
      /\ u.offset = t.offset + 1 /\ u.left = IF t.left > 0 THEN t.left - 1 ELSE 0
      /\ DOMAIN u.data = DOMAIN t.data
      /\ \A p \in DOMAIN t.data : u.data[p] = IF p = t.offset + 1 THEN pdu.w ELSE t.data[p]
  BY <1>3, <1>7, CopiedTask
<1>9. /\ tasks' = [tasks EXCEPT ![c][i] = u]
      /\ \/ running' = running /\ down' = down
         \/ running' = running /\ Iscsi!Send(c, <<Iscsi!Ready(u)>>)
         \/ running' = [running EXCEPT ![c] = u] /\ u.left = 0 /\ down' = down
  BY <1>2, <1>4, <1>6, <1>7 DEF Iscsi!HandleData
<1>10. tasks'[c] = [tasks[c] EXCEPT ![i] = u] /\ tasks' = [tasks EXCEPT ![c] = tasks'[c]]
  BY <1>9, BaseTypes
<1>11. Filling(c, i, u)
  BY <1>1, <1>5, <1>6, <1>8, <1>9, <1>10 DEF Filling
<1> QED BY <1>1, <1>2, <1>3, <1>5, <1>8, <1>11

\* A task of the pending ones is replaced.
LEMMA OneReplaced ==
  ASSUME NEW S, NEW t \in Seq(S), NEW i \in DOMAIN t, NEW u \in S, NEW r, r = [t EXCEPT ![i] = u]
  PROVE  r \in Seq(S) /\ DOMAIN r = DOMAIN t /\ r[i] = u /\ \A j \in DOMAIN t : j # i => r[j] = t[j]
OBVIOUS

LEMMA HandleDataBase == ASSUME BaseInv, NEW c \in Iscsi!Conns, Iscsi!HandleData(c) PROVE BaseInv'
<1>0. PICK i \in DOMAIN tasks[c], u \in PendingTasks : Filling(c, i, u)
  BY DataMoves
<1>1. /\ u.w = tasks[c][i].w /\ u.tag = tasks[c][i].tag /\ DOMAIN u.data = DOMAIN tasks[c][i].data
      /\ tasks'[c] = [tasks[c] EXCEPT ![i] = u] /\ tasks' = [tasks EXCEPT ![c] = tasks'[c]]
      /\ \/ running' = running /\ down' = down
         \/ running' = running /\ Iscsi!Send(c, <<Iscsi!Ready(u)>>)
         \/ running' = [running EXCEPT ![c] = u] /\ down' = down
  BY <1>0 DEF Filling
<1>2. /\ tasks'[c] \in Seq(PendingTasks) /\ DOMAIN tasks'[c] = DOMAIN tasks[c] /\ tasks'[c][i] = u
      /\ \A j \in DOMAIN tasks[c] : j # i => tasks'[c][j] = tasks[c][j]
  BY <1>1, BaseTypes, OneReplaced
<1>3. Iscsi!Read(c, {"data"}) /\ UNCHANGED <<state, nexus, reads, exp, disk, Iscsi!peerVars>> /\ issued' = issued
  BY DEF Iscsi!HandleData, Iscsi!peerVars
<1>4. FitsTask(c, u) /\ issued[u.w].len > 1
  BY <1>1, BaseTypes DEF FitsTasks, FitsTask
<1>5. FitsTasks(c)'
  BY <1>2, <1>3, <1>4, BaseTypes, FitsTasksOf
<1>6. FitsRunning(c)'
  BY <1>1, <1>3, <1>4, BaseTypes DEF FitsRunning, FitsTask, Of
<1>7. /\ down' \in [Iscsi!Conns -> Seq(DownPdus)] /\ \A d \in Iscsi!Conns : d # c => down'[d] = down[d]
      /\ peer[c] # "open" => down'[c] = down[c]
  BY <1>1, BaseTypes, ReadyPdu, OnePdu, SendMoves
<1>8. /\ tasks' \in [Iscsi!Conns -> Seq(PendingTasks)] /\ running' \in [Iscsi!Conns -> PendingTasks \union {None}]
      /\ \A d \in Iscsi!Conns : d # c => tasks'[d] = tasks[d] /\ running'[d] = running[d]
  BY <1>1, <1>2, BaseTypes
<1>9. Numbers(c)'
  BY <1>3, ReadNoCommand
<1>10. UNCHANGED <<state, nexus, disk, Iscsi!peerVars>> /\ reads' = reads /\ exp' = exp
  BY <1>3
<1>11. ManagedOnce(c)'
  <2>1. \/ down'[c] = down[c]
        \/ \E s : Longer(down[c], down'[c], s) /\ \A j \in DOMAIN s : s[j].op \notin Ends
    BY <1>1, ReadyPdu, SendPlain DEF Ends
  <2> QED BY <1>3, <2>1, ReadManaged DEF Tmfs
<1> QED BY <1>3, <1>5, <1>6, <1>7, <1>8, <1>9, <1>10, <1>11, BaseTypes, ReadBase


LEMMA HandleUnknownDataBase ==
  ASSUME BaseInv, NEW c \in Iscsi!Conns, Iscsi!HandleUnknownData(c)
  PROVE  BaseInv'
<1>1. /\ Iscsi!Read(c, {"data"}) /\ reads' = [reads EXCEPT ![c] = FALSE]
      /\ UNCHANGED <<state, nexus, tasks, running, exp, disk, down, Iscsi!peerVars>>
  BY DEF Iscsi!HandleUnknownData
<1>2. UNCHANGED <<state, nexus, disk, Iscsi!peerVars>> /\ UNCHANGED <<state, exp, Iscsi!peerVars>> /\ issued' = issued
      /\ tasks' = tasks /\ running' = running /\ down' = down /\ exp' = exp
  BY <1>1 DEF Iscsi!peerVars
<1>3. FitsTasks(c)' /\ FitsRunning(c)' /\ Numbers(c)'
  BY <1>1, <1>2, BaseTypes, FitsKept, ReadNoCommand
<1>5. ManagedOnce(c)'
  BY <1>1, <1>2, ReadManaged DEF Tmfs
<1>4. reads' \in [Iscsi!Conns -> BOOLEAN]
  BY <1>1, BaseTypes
<1> QED BY <1>1, <1>2, <1>3, <1>4, <1>5, BaseTypes, ReadBase

LEMMA HandlePongBase == ASSUME BaseInv, NEW c \in Iscsi!Conns, Iscsi!HandlePong(c) PROVE BaseInv'
<1>1. /\ Iscsi!Read(c, {"pong"})
      /\ UNCHANGED <<state, nexus, reads, tasks, running, exp, disk, down, Iscsi!peerVars>>
  BY DEF Iscsi!HandlePong
<1>2. UNCHANGED <<state, nexus, disk, Iscsi!peerVars>> /\ UNCHANGED <<state, exp, Iscsi!peerVars>> /\ issued' = issued
      /\ tasks' = tasks /\ running' = running /\ down' = down /\ exp' = exp /\ reads' = reads
  BY <1>1 DEF Iscsi!peerVars
<1>3. FitsTasks(c)' /\ FitsRunning(c)' /\ Numbers(c)'
  BY <1>1, <1>2, BaseTypes, FitsKept, ReadNoCommand
<1>5. ManagedOnce(c)'
  BY <1>1, <1>2, ReadManaged DEF Tmfs
<1> QED BY <1>1, <1>2, <1>3, <1>5, BaseTypes, ReadBase

LEMMA AnswerPdus ==
  /\ [op |-> "complete", tag |-> TmfTag] \in DownPdus /\ [op |-> "no task", tag |-> TmfTag] \in DownPdus
  /\ [op |-> "response", tag |-> TmfTag] \in DownPdus /\ [op |-> "ping", tag |-> TmfTag] \in DownPdus
  /\ \A tag \in Tags : [op |-> "response", tag |-> tag] \in DownPdus
BY DEF DownPdus

\* A request of task management is answered.
LEMMA AnswerManaged ==
  ASSUME BaseInv, NEW c \in Iscsi!Conns, NEW ops, Iscsi!Read(c, ops), ops \subseteq Tmfs, UNCHANGED Iscsi!peerVars,
         NEW s \in Seq(DownPdus), Iscsi!Send(c, s),
         \A i, j \in DOMAIN s : s[i].op \in Ends /\ s[j].op \in Ends => i = j
  PROVE  ManagedOnce(c)'
<1>1. After(up[c], up'[c]) /\ up[c][1].op \in Tmfs
  BY BaseTypes, ReadMoves
<1>2. tmf'[c] = tmf[c] /\ peer'[c] = peer[c]
  BY DEF Iscsi!peerVars
<1>3. down'[c] = down[c] \/ Longer(down[c], down'[c], s)
  BY BaseTypes, SendMoves
<1>4. ManagedOnce(c)
  BY BaseTypes
<1> SUFFICES ASSUME peer[c] = "open" PROVE Once(up'[c], down'[c], tmf'[c])
  BY <1>2 DEF ManagedOnce
<1>5. Once(up[c], down[c], tmf[c])
  BY <1>4 DEF ManagedOnce
<1> QED BY <1>1, <1>2, <1>3, <1>5, OnceAnswered

LEMMA HandleResetBase == ASSUME BaseInv, NEW c \in Iscsi!Conns, Iscsi!HandleReset(c) PROVE BaseInv'
<1>1. /\ Iscsi!Read(c, {"reset"}) /\ Iscsi!Send(c, <<[op |-> "complete", tag |-> TmfTag]>>)
      /\ UNCHANGED <<state, nexus, reads, tasks, running, exp, disk, Iscsi!peerVars>>
  BY DEF Iscsi!HandleReset
<1>2. UNCHANGED <<state, nexus, disk, Iscsi!peerVars>> /\ UNCHANGED <<state, exp, Iscsi!peerVars>> /\ issued' = issued
      /\ tasks' = tasks /\ running' = running /\ exp' = exp /\ reads' = reads
  BY <1>1 DEF Iscsi!peerVars
<1>3. FitsTasks(c)' /\ FitsRunning(c)' /\ Numbers(c)'
  BY <1>1, <1>2, BaseTypes, FitsKept, ReadNoCommand
<1>4. /\ down' \in [Iscsi!Conns -> Seq(DownPdus)] /\ \A d \in Iscsi!Conns : d # c => down'[d] = down[d]
      /\ peer[c] # "open" => down'[c] = down[c]
  BY <1>1, BaseTypes, AnswerPdus, OnePdu, SendMoves
<1>5. ManagedOnce(c)'
  <2>1. PICK x \in DownPdus : x = [op |-> "complete", tag |-> TmfTag]
    BY AnswerPdus
  <2>2. PICK s \in Seq(DownPdus) : s = <<x>>
    BY OnePdu
  <2>3. DOMAIN s = {1}
    BY <2>2, OnePdu
  <2>4. \A i, j \in DOMAIN s : s[i].op \in Ends /\ s[j].op \in Ends => i = j
    BY <2>3
  <2>5. Iscsi!Send(c, s) /\ {"reset"} \subseteq Tmfs
    BY <1>1, <2>1, <2>2 DEF Tmfs
  <2> QED BY <1>1, <1>2, <2>4, <2>5, AnswerManaged
<1> QED BY <1>1, <1>2, <1>3, <1>4, <1>5, BaseTypes, ReadBase

\* The answer to a request to abort a task.
AbortAnswer(c) ==
  IF Iscsi!WithTag(c, Head(up[c]).tag) = {} THEN <<[op |-> "no task", tag |-> TmfTag]>>
  ELSE <<[op |-> "response", tag |-> TmfTag], [op |-> "complete", tag |-> TmfTag]>>

LEMMA AbortAnswersOnce ==
  ASSUME NEW c
  PROVE  \A i, j \in DOMAIN AbortAnswer(c) :
           AbortAnswer(c)[i].op \in Ends /\ AbortAnswer(c)[j].op \in Ends => i = j
<1>1. PICK x : x = [op |-> "no task", tag |-> TmfTag]
  OBVIOUS
<1>2. PICK y \in DownPdus : y = [op |-> "response", tag |-> TmfTag]
  BY AnswerPdus
<1>6. y.op = "response"
  BY <1>2
<1>3. PICK z : z = [op |-> "complete", tag |-> TmfTag]
  OBVIOUS
<1>4. CASE Iscsi!WithTag(c, Head(up[c]).tag) = {}
  <2>1. AbortAnswer(c) = <<x>>
    BY <1>1, <1>4 DEF AbortAnswer
  <2> QED BY <2>1, OnePdu
<1>5. CASE Iscsi!WithTag(c, Head(up[c]).tag) # {}
  <2>1. AbortAnswer(c) = <<y, z>>
    BY <1>2, <1>3, <1>5 DEF AbortAnswer
  <2>2. DOMAIN <<y, z>> = {1, 2} /\ <<y, z>>[1] = y
    BY OnePdu
  <2>3. <<y, z>>[1].op \notin Ends
    BY <1>6, <2>2 DEF Ends
  <2> QED BY <2>1, <2>2, <2>3
<1> QED BY <1>4, <1>5

LEMMA HandleAbortMoves ==
  ASSUME BaseInv, NEW c \in Iscsi!Conns, Iscsi!HandleAbort(c)
  PROVE  /\ Iscsi!Read(c, {"abort"}) /\ Iscsi!Send(c, AbortAnswer(c)) /\ AbortAnswer(c) \in Seq(DownPdus)
         /\ tasks' = [tasks EXCEPT ![c] = Iscsi!RemoveByTag(c, up[c][1].tag)] /\ Head(up[c]) = up[c][1]
         /\ UNCHANGED <<state, nexus, reads, running, exp, disk, Iscsi!peerVars>>
<1>1. /\ Iscsi!Read(c, {"abort"}) /\ Iscsi!Send(c, AbortAnswer(c))
      /\ tasks' = [tasks EXCEPT ![c] = Iscsi!RemoveByTag(c, Head(up[c]).tag)]
      /\ UNCHANGED <<state, nexus, reads, running, exp, disk, Iscsi!peerVars>>
  BY DEF Iscsi!HandleAbort, AbortAnswer
<1>2. Head(up[c]) = up[c][1]
  BY <1>1, BaseTypes, ReadMoves
<1>3. AbortAnswer(c) \in Seq(DownPdus)
  BY AnswerPdus, OnePdu DEF AbortAnswer
<1> QED BY <1>1, <1>2, <1>3

\* Tasks that are some of those that there were.
LEMMA FitsFewerTasks ==
  ASSUME NEW c, issued' = issued, FitsTasks(c),
         \A i \in DOMAIN tasks'[c] : \E j \in DOMAIN tasks[c] : tasks'[c][i] = tasks[c][j]
  PROVE  FitsTasks(c)'
<1>1. ASSUME NEW i \in DOMAIN tasks'[c]
      PROVE  FitsTask(c, tasks'[c][i]) /\ issued[tasks'[c][i].w].len > 1
  BY DEF FitsTasks
<1> QED BY <1>1 DEF FitsTasks, FitsTask, Of

LEMMA HandleAbortBase == ASSUME BaseInv, NEW c \in Iscsi!Conns, Iscsi!HandleAbort(c) PROVE BaseInv'
<1>1. /\ Iscsi!Read(c, {"abort"}) /\ Iscsi!Send(c, AbortAnswer(c)) /\ AbortAnswer(c) \in Seq(DownPdus)
      /\ tasks' = [tasks EXCEPT ![c] = Iscsi!RemoveByTag(c, up[c][1].tag)]
      /\ UNCHANGED <<state, nexus, reads, running, exp, disk, Iscsi!peerVars>>
  BY HandleAbortMoves
<1>2. UNCHANGED <<state, nexus, disk, Iscsi!peerVars>> /\ UNCHANGED <<state, exp, Iscsi!peerVars>> /\ issued' = issued
      /\ running' = running /\ exp' = exp /\ reads' = reads
  BY <1>1 DEF Iscsi!peerVars
<1>3. FitsRunning(c)' /\ Numbers(c)'
  BY <1>1, <1>2, BaseTypes, FitsKept, ReadNoCommand
<1>4. /\ down' \in [Iscsi!Conns -> Seq(DownPdus)] /\ \A d \in Iscsi!Conns : d # c => down'[d] = down[d]
      /\ peer[c] # "open" => down'[c] = down[c]
  BY <1>1, BaseTypes, SendMoves
<1>5. /\ tasks'[c] = Iscsi!RemoveByTag(c, up[c][1].tag)
      /\ \A d \in Iscsi!Conns : d # c => tasks'[d] = tasks[d]
  BY <1>1, BaseTypes
<1>6. /\ tasks'[c] \in Seq(PendingTasks)
      /\ \A i \in DOMAIN tasks'[c] : \E j \in DOMAIN tasks[c] : tasks'[c][i] = tasks[c][j]
  BY <1>5, BaseTypes, RemoveMoves
<1>7. FitsTasks(c)' /\ tasks' \in [Iscsi!Conns -> Seq(PendingTasks)]
  BY <1>1, <1>2, <1>5, <1>6, BaseTypes, FitsFewerTasks
<1>8. ManagedOnce(c)'
  <2>1. \A i, j \in DOMAIN AbortAnswer(c) :
          AbortAnswer(c)[i].op \in Ends /\ AbortAnswer(c)[j].op \in Ends => i = j
    BY AbortAnswersOnce
  <2> QED BY <1>1, <1>2, <2>1, AnswerManaged DEF Tmfs
<1> QED BY <1>1, <1>2, <1>3, <1>4, <1>5, <1>7, <1>8, BaseTypes, ReadBase

LEMMA FunctionIsSeq ==
  ASSUME NEW S, NEW n \in Nat, NEW f \in [1 .. n -> S] PROVE f \in Seq(S) /\ Len(f) = n
OBVIOUS

\* What the execution of a task changes.
LEMMA ExecuteMoves ==
  ASSUME BaseInv, NEW c \in Iscsi!Conns, Iscsi!Execute(c)
  PROVE  /\ running[c] # None /\ running[c] \in PendingTasks /\ FitsTask(c, running[c])
         /\ running' = [running EXCEPT ![c] = None]
         /\ Iscsi!Send(c, <<[op |-> "response", tag |-> running[c].tag]>>)
         /\ <<[op |-> "response", tag |-> running[c].tag]>> \in Seq(DownPdus)
         /\ UNCHANGED <<state, nexus, reads, exp, ping, up, Iscsi!peerVars>>
         /\ \/ tasks'[c] = tasks[c] /\ issued[running[c].w].len = 1
            \/ tasks'[c] = Iscsi!RemoveByTag(c, running[c].tag)
         /\ tasks' = [tasks EXCEPT ![c] = tasks'[c]]
         /\ disk' = [p \in Iscsi!Places |->
              IF p[1] = issued[running[c].w].lba /\ p[2] \in 1 .. issued[running[c].w].len
              THEN running[c].data[p[2]] ELSE disk[p]]
<1>1. PICK t : t = running[c]
  OBVIOUS
<1>2. t # None
  BY <1>1 DEF Iscsi!Execute
<1>3. t \in PendingTasks /\ FitsTask(c, t)
  BY <1>1, <1>2, BaseTypes DEF FitsRunning
<1>4. PICK n \in Nat : n = issued[t.w].len /\ n >= 1 /\ DOMAIN t.data = 1 .. n
  BY <1>3, BaseTypes, TheIssued DEF FitsTask, Of
<1>5. t.data \in Seq(0 .. MaxWrite) /\ Len(t.data) = n
  <2>1. PICK m \in 1 .. Parts : t.data \in [1 .. m -> 0 .. MaxWrite]
    BY <1>3, TaskTypes DEF Datas
  <2>2. m \in Nat /\ m >= 1 /\ DOMAIN t.data = 1 .. m
    BY <2>1, Consts
  <2>3. m = n
    BY <1>4, <2>2
  <2> QED BY <1>4, <2>1, <2>2, <2>3, FunctionIsSeq
<1>6. /\ tasks' = [tasks EXCEPT ![c] = IF Len(t.data) > 1 THEN Iscsi!RemoveByTag(c, t.tag) ELSE tasks[c]]
      /\ running' = [running EXCEPT ![c] = None] /\ Iscsi!Send(c, <<[op |-> "response", tag |-> t.tag]>>)
      /\ UNCHANGED <<state, nexus, reads, exp, ping, up, Iscsi!peerVars>>
      /\ disk' = [p \in Iscsi!Places |->
           IF p[1] = issued[t.w].lba /\ p[2] \in DOMAIN t.data THEN t.data[p[2]] ELSE disk[p]]
  BY <1>1 DEF Iscsi!Execute
<1>7. <<[op |-> "response", tag |-> t.tag]>> \in Seq(DownPdus)
  BY <1>3, TaskTypes, AnswerPdus, OnePdu
<1>8. /\ tasks'[c] = IF n > 1 THEN Iscsi!RemoveByTag(c, t.tag) ELSE tasks[c]
      /\ tasks' = [tasks EXCEPT ![c] = tasks'[c]]
  BY <1>5, <1>6, BaseTypes
<1>9. disk' = [p \in Iscsi!Places |->
        IF p[1] = issued[t.w].lba /\ p[2] \in 1 .. issued[t.w].len THEN t.data[p[2]] ELSE disk[p]]
  BY <1>4, <1>6
<1> QED BY <1>1, <1>2, <1>3, <1>4, <1>6, <1>7, <1>8, <1>9

LEMMA ExecuteTasks ==
  ASSUME BaseInv, NEW c \in Iscsi!Conns, Iscsi!Execute(c)
  PROVE  /\ tasks'[c] \in Seq(PendingTasks)
         /\ \A i \in DOMAIN tasks'[c] : \E j \in DOMAIN tasks[c] : tasks'[c][i] = tasks[c][j]
<1>1. tasks'[c] = tasks[c] \/ tasks'[c] = Iscsi!RemoveByTag(c, running[c].tag)
  BY ExecuteMoves
<1>2. CASE tasks'[c] = tasks[c]
  BY <1>2, BaseTypes
<1>3. CASE tasks'[c] = Iscsi!RemoveByTag(c, running[c].tag)
  BY <1>3, BaseTypes, RemoveMoves
<1> QED BY <1>1, <1>2, <1>3

LEMMA ExecuteBase == ASSUME BaseInv, NEW c \in Iscsi!Conns, Iscsi!Execute(c) PROVE BaseInv'
<1>1. PICK t \in PendingTasks : t = running[c] /\ t # None /\ FitsTask(c, t)
  BY ExecuteMoves
<1>2. /\ running' = [running EXCEPT ![c] = None] /\ Iscsi!Send(c, <<[op |-> "response", tag |-> t.tag]>>)
      /\ <<[op |-> "response", tag |-> t.tag]>> \in Seq(DownPdus)
      /\ UNCHANGED <<state, nexus, reads, exp, ping, up, Iscsi!peerVars>>
      /\ tasks' = [tasks EXCEPT ![c] = tasks'[c]]
      /\ disk' = [p \in Iscsi!Places |->
           IF p[1] = issued[t.w].lba /\ p[2] \in 1 .. issued[t.w].len THEN t.data[p[2]] ELSE disk[p]]
  BY <1>1, ExecuteMoves
<1>3. /\ issued' = issued /\ peer' = peer /\ tmf' = tmf /\ UNCHANGED Iscsi!peerVars
      /\ state' = state /\ up' = up /\ exp' = exp
  BY <1>2 DEF Iscsi!peerVars
<1>4. /\ down' \in [Iscsi!Conns -> Seq(DownPdus)] /\ \A d \in Iscsi!Conns : d # c => down'[d] = down[d]
      /\ peer[c] # "open" => down'[c] = down[c]
  BY <1>2, BaseTypes, SendMoves
<1>5. tasks' \in [Iscsi!Conns -> Seq(PendingTasks)] /\ \A d \in Iscsi!Conns : d # c => tasks'[d] = tasks[d]
  BY <1>2, BaseTypes, ExecuteTasks
<1>6. FitsTasks(c)' /\ FitsUp(c)' /\ Numbers(c)'
  BY <1>3, BaseTypes, ExecuteTasks, FitsFewerTasks, FitsKept, NumbersKept
<1>7. /\ running'[c] = None /\ \A d \in Iscsi!Conns : d # c => running'[d] = running[d]
      /\ running' \in [Iscsi!Conns -> PendingTasks \union {None}]
  BY <1>2, BaseTypes
<1>8. FitsRunning(c)'
  BY <1>7 DEF FitsRunning
<1>9. Shape(c)'
  <2>1. Shape(c) /\ peer[c] # "none"
    BY <1>1, BaseTypes DEF Shape
  <2> QED BY <1>3, <1>4, <2>1 DEF Shape
<1>13. ManagedOnce(c)'
  <2>1. [op |-> "response", tag |-> t.tag] \in DownPdus
    BY TaskTypes, AnswerPdus
  <2>2. \/ down'[c] = down[c]
        \/ \E s : Longer(down[c], down'[c], s) /\ \A j \in DOMAIN s : s[j].op \notin Ends
    BY <1>2, <2>1, SendPlain DEF Ends
  <2> QED BY <1>3, <2>2, BaseTypes, ManagedKept
<1>10. BaseConn(c)' /\ Elsewhere(c)
  BY <1>3, <1>4, <1>5, <1>6, <1>7, <1>8, <1>9, <1>13 DEF BaseConn, Elsewhere
<1>11. disk' \in [Iscsi!Places -> 0 .. MaxWrite]
  <2>1. PICK m \in 1 .. Parts : t.data \in [1 .. m -> 0 .. MaxWrite]
    BY TaskTypes DEF Datas
  <2>2. DOMAIN t.data = 1 .. issued[t.w].len /\ DOMAIN t.data = 1 .. m
    BY <1>1, <2>1 DEF FitsTask
  <2>3. \A q \in 1 .. issued[t.w].len : t.data[q] \in 0 .. MaxWrite
    BY <2>1, <2>2
  <2> QED BY <1>2, <2>3, BaseTypes
<1>12. UNCHANGED <<nexus, reads, ping>>
  BY <1>2
<1> QED BY <1>3, <1>4, <1>5, <1>7, <1>10, <1>11, <1>12, BaseTypes, TargetBase

LEMMA CloseBase ==
  ASSUME BaseInv, NEW c \in Iscsi!Conns, Iscsi!Close(c), state[c] = "scsi" PROVE BaseInv'
<1>1. /\ state' = [state EXCEPT ![c] = "closed"] /\ nexus' = nexus \ {c}
      /\ up' = [up EXCEPT ![c] = <<>>]
      /\ UNCHANGED <<reads, tasks, running, exp, ping, disk, down, Iscsi!peerVars>>
  BY DEF Iscsi!Close
<1>2. issued' = issued /\ peer' = peer /\ tmf' = tmf /\ UNCHANGED Iscsi!peerVars
  BY <1>1 DEF Iscsi!peerVars
<1>3. /\ state'[c] = "closed" /\ up'[c] = <<>>
      /\ \A d \in Iscsi!Conns : d # c => state'[d] = state[d] /\ up'[d] = up[d]
      /\ state' \in [Iscsi!Conns -> {"free", "scsi", "closed"}] /\ up' \in [Iscsi!Conns -> Seq(UpPdus)]
  BY <1>1, BaseTypes, OnePdu
<1>4. FitsUp(c)' /\ FitsTasks(c)' /\ FitsRunning(c)'
  BY <1>1, <1>2, <1>3, BaseTypes, FitsKept, OnePdu DEF FitsUp
<1>5. Shape(c)'
  BY <1>1, <1>2, <1>3, BaseTypes DEF Shape
<1>6. Numbers(c)'
  BY <1>1, <1>2, <1>3, BaseTypes, SentSame DEF Numbers
<1>9. ManagedOnce(c)'
  BY <1>1, <1>2, <1>3, BaseTypes, ManagedKept
<1>7. BaseConn(c)' /\ Elsewhere(c)
  BY <1>1, <1>2, <1>3, <1>4, <1>5, <1>6, <1>9 DEF BaseConn, Elsewhere
<1>8. nexus' \subseteq Iscsi!Conns
  BY <1>1, BaseTypes
<1> QED BY <1>1, <1>2, <1>3, <1>7, <1>8, BaseTypes, TargetBase

LEMMA PingBase == ASSUME BaseInv, NEW c \in Iscsi!Conns, Iscsi!Ping(c) PROVE BaseInv'
<1>1. /\ ping' = [ping EXCEPT ![c] = "response"] /\ state[c] = "scsi"
      /\ Iscsi!Send(c, <<[op |-> "ping", tag |-> TmfTag]>>)
      /\ UNCHANGED <<state, nexus, reads, tasks, running, exp, disk, up, Iscsi!peerVars>>
  BY DEF Iscsi!Ping
<1>2. issued' = issued /\ peer' = peer /\ tmf' = tmf /\ UNCHANGED Iscsi!peerVars
  BY <1>1 DEF Iscsi!peerVars
<1>3. /\ down' \in [Iscsi!Conns -> Seq(DownPdus)] /\ \A d \in Iscsi!Conns : d # c => down'[d] = down[d]
      /\ peer[c] # "open" => down'[c] = down[c]
  BY <1>1, BaseTypes, AnswerPdus, OnePdu, SendMoves
<1>4. FitsUp(c)' /\ FitsTasks(c)' /\ FitsRunning(c)' /\ Numbers(c)'
  BY <1>1, <1>2, BaseTypes, FitsKept, NumbersKept
<1>5. Shape(c)'
  BY <1>1, <1>2, <1>3, BaseTypes DEF Shape
<1>8. ManagedOnce(c)'
  <2>1. \/ down'[c] = down[c]
        \/ \E s : Longer(down[c], down'[c], s) /\ \A j \in DOMAIN s : s[j].op \notin Ends
    BY <1>1, AnswerPdus, SendPlain DEF Ends
  <2> QED BY <1>1, <1>2, <2>1, BaseTypes, ManagedKept
<1>6. BaseConn(c)' /\ Elsewhere(c)
  BY <1>1, <1>2, <1>3, <1>4, <1>5, <1>8 DEF BaseConn, Elsewhere
<1>7. ping' \in [Iscsi!Conns -> {"request", "response"}]
  BY <1>1, BaseTypes
<1> QED BY <1>1, <1>2, <1>3, <1>6, <1>7, BaseTypes, TargetBase


---------------------------------------------------------------------------
(* The base: steps of the initiator *)

LEMMA LastIsANumber == ASSUME Logged PROVE Iscsi!Last \in Nat /\ Iscsi!Last <= MaxConn
<1>1. IsFiniteSet(1 .. MaxConn) /\ Cardinality(1 .. MaxConn) = MaxConn
  <2>1. MaxConn \in Nat /\ 1 <= MaxConn
    BY Consts
  <2> QED BY <2>1, FS_Interval
<1>2. {c \in Iscsi!Conns : peer[c] # "none"} \in SUBSET (1 .. MaxConn)
  BY Consts
<1> QED BY <1>1, <1>2, FS_Subset, FS_CardinalityType, IscsiCardinality DEF Iscsi!Last

LEMMA LoginMoves ==
  ASSUME BaseInv, NEW c \in Iscsi!Conns, Iscsi!Login(c)
  PROVE  /\ peer[c] = "none" /\ state[c] = "free" /\ Logged'
         /\ \A d \in Iscsi!Conns : peer[d] # "none" <=> d < c
         /\ \A d \in Iscsi!Conns : d < c => peer[d] # "open" /\ Iscsi!Drained(d)
         /\ \A d \in Iscsi!Conns : d # c => peer'[d] = peer[d] /\ state'[d] = state[d]
         /\ peer'[c] = "open" /\ state'[c] = "scsi"
<1>1. /\ c = Iscsi!Last + 1 /\ peer' = [peer EXCEPT ![c] = "open"] /\ state' = [state EXCEPT ![c] = "scsi"]
      /\ \A d \in 1 .. Iscsi!Last : peer[d] # "open" /\ Iscsi!Drained(d)
  BY DEF Iscsi!Login
<1>2. PICK n \in Nat : n = Iscsi!Last /\ n <= MaxConn
  BY LastIsANumber DEF BaseInv
<1>3. {d \in Iscsi!Conns : peer[d] # "none"} = 1 .. n
  BY <1>2 DEF BaseInv, Logged
<1>4. \A d \in Iscsi!Conns : d \in Nat /\ d >= 1 /\ (peer[d] # "none" <=> d \in 1 .. n)
  BY <1>3, Consts
<1>5. \A d \in Iscsi!Conns : peer[d] # "none" <=> d < c
  BY <1>1, <1>2, <1>4
<1>6. peer[c] = "none" /\ state[c] = "free"
  <2>1. peer[c] = "none"
    BY <1>1, <1>2, <1>4
  <2> QED BY <2>1, BaseTypes DEF Shape
<1>7. /\ \A d \in Iscsi!Conns : d # c => peer'[d] = peer[d] /\ state'[d] = state[d]
      /\ peer'[c] = "open" /\ state'[c] = "scsi"
  BY <1>1, BaseTypes DEF Iscsi!TypeOK
<1>8. Logged'
  <2>1. \A d \in Iscsi!Conns : peer'[d] # "none" <=> d \in 1 .. n + 1
    BY <1>1, <1>2, <1>4, <1>7
  <2>2. n + 1 <= MaxConn
    BY <1>1, <1>2, Consts
  <2>3. {d \in Iscsi!Conns : peer'[d] # "none"} = 1 .. n + 1
    BY <2>1, <2>2, Consts
  <2>4. Cardinality(1 .. n + 1) = n + 1
    BY <1>2, FS_Interval
  <2>5. Iscsi!Last' = n + 1
    BY <2>3, <2>4, IscsiCardinality DEF Iscsi!Last
  <2> QED BY <2>3, <2>5 DEF Logged
<1> QED BY <1>1, <1>2, <1>4, <1>5, <1>6, <1>7, <1>8

LEMMA LoginBase == ASSUME BaseInv, NEW c \in Iscsi!Conns, Iscsi!Login(c) PROVE BaseInv'
<1>1. /\ peer[c] = "none" /\ state[c] = "free" /\ Logged'
      /\ \A d \in Iscsi!Conns : d # c => peer'[d] = peer[d] /\ state'[d] = state[d]
      /\ peer'[c] = "open" /\ state'[c] = "scsi"
  BY LoginMoves
<1>2. /\ peer' = [peer EXCEPT ![c] = "open"] /\ state' = [state EXCEPT ![c] = "scsi"]
      /\ nexus' = nexus \union {c} /\ reads' = [reads EXCEPT ![c] = TRUE]
      /\ UNCHANGED <<tasks, running, exp, ping, disk, up, down, issued, waits, tmf, acked, aborted>>
  BY DEF Iscsi!Login
<1>3. tasks[c] = <<>> /\ running[c] = None /\ exp[c] = 1 /\ up[c] = <<>>
      /\ (\A w \in DOMAIN issued : issued[w].conn # c)
  BY <1>1, BaseTypes DEF Shape
<1>4. FitsUp(c)' /\ FitsTasks(c)' /\ FitsRunning(c)'
  BY <1>2, BaseTypes, FitsKept
<1>5. Shape(c)'
  BY <1>1 DEF Shape
<1>6. Numbers(c)'
  <2>1. {w \in DOMAIN issued : issued[w].conn = c} = {}
    BY <1>3
  <2>2. Iscsi!Sent(c)' = 0
    BY <1>2, <2>1, FS_EmptySet, SentSame, IscsiCardinality DEF Iscsi!Sent
  <2>3. InSequence(<<>>, 1, 0)
    BY OnePdu DEF InSequence
  <2>4. up'[c] = <<>> /\ exp'[c] = 1
    BY <1>2, <1>3
  <2> QED BY <2>2, <2>3, <2>4 DEF Numbers
<1>9. ManagedOnce(c)'
  <2>1. up[c] = <<>> /\ down[c] = <<>>
    BY <1>1, <1>3, BaseTypes DEF Shape
  <2> QED BY <1>2, <2>1, OnePdu DEF ManagedOnce, Once
<1>7. BaseConn(c)' /\ Elsewhere(c)
  BY <1>1, <1>2, <1>4, <1>5, <1>6, <1>9 DEF BaseConn, Elsewhere
<1>8. Iscsi!TypeOK' /\ ConnTypes'
  BY <1>2, BaseTypes DEF Iscsi!TypeOK, ConnTypes
<1> QED BY <1>1, <1>2, <1>7, <1>8, BaseFromConn

LEMMA ManageBase ==
  ASSUME BaseInv, NEW c \in Iscsi!Conns, NEW ended, NEW pdu \in UpPdus, pdu.op \in {"abort", "reset"},
         Iscsi!Manage(c, ended, pdu), ended \subseteq waits
  PROVE  BaseInv'
<1>1. /\ peer[c] = "open" /\ tmf' = [tmf EXCEPT ![c] = ended] /\ Iscsi!Put(c, <<pdu>>)
      /\ UNCHANGED <<Iscsi!targetVars, down, peer, issued, waits, acked, aborted>>
  BY DEF Iscsi!Manage
<1>2. UNCHANGED <<state, nexus, reads, tasks, running, exp, ping, disk, down, peer, issued, waits, acked, aborted>>
  BY <1>1 DEF Iscsi!targetVars
<1>3. /\ up' \in [Iscsi!Conns -> Seq(UpPdus)] /\ \A d \in Iscsi!Conns : d # c => up'[d] = up[d]
      /\ state[c] = "scsi" => Longer(up[c], up'[c], <<pdu>>)
      /\ state[c] # "scsi" => up'[c] = up[c]
  BY <1>1, BaseTypes, OnePdu, PutMoves
<1>4. DOMAIN <<pdu>> = {1} /\ <<pdu>>[1] = pdu
  OBVIOUS
<1>5. FitsUp(c)' /\ FitsTasks(c)' /\ FitsRunning(c)'
  BY <1>2, <1>3, <1>4, BaseTypes, FitsAfterPut, FitsKept
<1>6. Numbers(c)'
  BY <1>2, <1>3, <1>4, NumbersAfterPut
<1>7. Shape(c)'
  BY <1>1, <1>2, <1>3, BaseTypes DEF Shape
<1>8. ended \in SUBSET (1 .. MaxWrite) /\ ended \subseteq DOMAIN issued
  BY BaseTypes, TheIssued, Consts DEF Iscsi!TypeOK
<1>9. tmf'[c] = ended /\ \A d \in Iscsi!Conns : d # c => tmf'[d] = tmf[d]
  BY <1>1, BaseTypes DEF ConnTypes
<1>10. Iscsi!TypeOK'
  BY <1>2, <1>8, <1>9, BaseTypes DEF Iscsi!TypeOK
<1>11. ConnTypes'
  BY <1>1, <1>2, <1>3, <1>8, BaseTypes DEF ConnTypes
<1>13. ManagedOnce(c)'
  <2>1. Once(up[c], down[c], None)
    BY <1>1, BaseTypes DEF ManagedOnce, Iscsi!Manage
  <2>2. ended # None
    BY <1>8, Consts
  <2>3. Once(up'[c], down[c], ended)
    BY <1>3, <2>1, <2>2, OnceAsked
  <2> QED BY <1>2, <1>9, <2>3 DEF ManagedOnce
<1>12. BaseConn(c)' /\ Elsewhere(c) /\ Logged'
  BY <1>2, <1>3, <1>5, <1>6, <1>7, <1>9, <1>13, LoggedSame DEF BaseConn, Elsewhere, BaseInv
<1> QED BY <1>2, <1>10, <1>11, <1>12, BaseFromConn

LEMMA AbortBase ==
  ASSUME BaseInv, NEW c \in Iscsi!Conns, NEW w \in waits, Iscsi!Abort(c, w)
  PROVE  BaseInv'
<1>1. [op |-> "abort", tag |-> issued[w].tag] \in UpPdus
  BY BaseTypes, TheIssued DEF Iscsi!TypeOK, UpPdus
<1> QED BY <1>1, ManageBase DEF Iscsi!Abort

LEMMA ResetUnitBase == ASSUME BaseInv, NEW c \in Iscsi!Conns, Iscsi!ResetUnit(c) PROVE BaseInv'
<1>1. [op |-> "reset"] \in UpPdus
  BY DEF UpPdus
<1> QED BY <1>1, ManageBase DEF Iscsi!ResetUnit

LEMMA LeaveBase ==
  ASSUME BaseInv, NEW c \in Iscsi!Conns, NEW how \in {"closed", "silent"}, Iscsi!Leave(c, how)
  PROVE  BaseInv'
<1>1. /\ peer[c] = "open" /\ peer' = [peer EXCEPT ![c] = how]
      /\ waits' \subseteq waits /\ tmf' = [tmf EXCEPT ![c] = None] /\ down' = [down EXCEPT ![c] = <<>>]
      /\ UNCHANGED <<state, nexus, reads, tasks, running, exp, ping, disk, up, issued, acked, aborted>>
  BY DEF Iscsi!Leave, Iscsi!targetVars
<1>2. /\ peer'[c] = how /\ tmf'[c] = None /\ down'[c] = <<>>
      /\ \A d \in Iscsi!Conns : d # c => peer'[d] = peer[d] /\ tmf'[d] = tmf[d] /\ down'[d] = down[d]
  BY <1>1, BaseTypes DEF Iscsi!TypeOK, ConnTypes
<1>3. FitsUp(c)' /\ FitsTasks(c)' /\ FitsRunning(c)' /\ Numbers(c)'
  BY <1>1, BaseTypes, FitsKept, NumbersKept
<1>4. Shape(c)'
  BY <1>1, <1>2, BaseTypes DEF Shape
<1>5. Logged'
  <2>1. \A d \in Iscsi!Conns : peer'[d] # "none" <=> peer[d] # "none"
    BY <1>1, <1>2
  <2>2. {d \in Iscsi!Conns : peer'[d] # "none"} = {d \in Iscsi!Conns : peer[d] # "none"}
    BY <2>1
  <2> QED BY <2>2, IscsiCardinality DEF Logged, Iscsi!Last, BaseInv
<1>6. Iscsi!TypeOK'
  BY <1>1, <1>2, BaseTypes DEF Iscsi!TypeOK
<1>7. ConnTypes'
  BY <1>1, BaseTypes, OnePdu DEF ConnTypes
<1>9. ManagedOnce(c)'
  BY <1>2 DEF ManagedOnce
<1>8. BaseConn(c)' /\ Elsewhere(c)
  BY <1>1, <1>2, <1>3, <1>4, <1>9 DEF BaseConn, Elsewhere
<1> QED BY <1>1, <1>5, <1>6, <1>7, <1>8, BaseFromConn


\* The writes of a connection that wait and have a tag.
Own(c, tag) == {w \in waits : issued[w].conn = c /\ issued[w].tag = tag}

Received(c, pdu) ==
  \/ /\ pdu.op = "r2t"
     /\ \E w \in Own(c, pdu.tag) : Iscsi!Put(c, Iscsi!Data(w, pdu.len))
     /\ UNCHANGED <<waits, tmf, acked, aborted>>
  \/ /\ pdu.op = "response"
     /\ waits' = waits \ Own(c, pdu.tag)
     /\ acked' = acked \union Own(c, pdu.tag)
     /\ UNCHANGED <<up, tmf, aborted>>
  \/ /\ pdu.op = "complete"
     /\ waits' = waits \ tmf[c]
     /\ aborted' = aborted \union (tmf[c] \ acked)
     /\ tmf' = [tmf EXCEPT ![c] = None]
     /\ UNCHANGED <<up, acked>>
  \/ /\ pdu.op = "no task"
     /\ tmf' = [tmf EXCEPT ![c] = None]
     /\ UNCHANGED <<up, waits, acked, aborted>>
  \/ /\ pdu.op = "ping"
     /\ Iscsi!Put(c, <<[op |-> "pong"]>>)
     /\ UNCHANGED <<waits, tmf, acked, aborted>>

LEMMA ReceiveMoves ==
  ASSUME BaseInv, NEW c \in Iscsi!Conns, Iscsi!Receive(c)
  PROVE  /\ peer[c] = "open" /\ Received(c, down[c][1])
         /\ down' \in [Iscsi!Conns -> Seq(DownPdus)] /\ \A d \in Iscsi!Conns : d # c => down'[d] = down[d]
         /\ After(down[c], down'[c]) /\ down[c][1] \in DownPdus
         /\ UNCHANGED <<state, nexus, reads, tasks, running, exp, ping, disk, peer, issued>>
<1>1. PICK pdu : pdu = Head(down[c])
  OBVIOUS
<1>2. /\ down' \in [Iscsi!Conns -> Seq(DownPdus)] /\ \A d \in Iscsi!Conns : d # c => down'[d] = down[d]
      /\ After(down[c], down'[c]) /\ pdu = down[c][1] /\ pdu \in DownPdus
  BY <1>1, BaseTypes, DownMoves DEF Iscsi!Receive
<1>3. PICK own : own = Own(c, pdu.tag)
  OBVIOUS
<1>4. Received(c, pdu)
  <2>1. own = {w \in waits : issued[w].conn = c /\ issued[w].tag = pdu.tag}
    BY <1>3 DEF Own
  <2>2. own # {} => (CHOOSE w \in own : TRUE) \in own
    OBVIOUS
  <2>3. \/ /\ pdu.op = "r2t" /\ own # {}
           /\ Iscsi!Put(c, Iscsi!Data(CHOOSE w \in own : TRUE, pdu.len))
           /\ UNCHANGED <<waits, tmf, acked, aborted>>
        \/ /\ pdu.op = "response"
           /\ waits' = waits \ own
           /\ acked' = acked \union own
           /\ UNCHANGED <<up, tmf, aborted>>
        \/ /\ pdu.op = "complete"
           /\ waits' = waits \ tmf[c]
           /\ aborted' = aborted \union (tmf[c] \ acked)
           /\ tmf' = [tmf EXCEPT ![c] = None]
           /\ UNCHANGED <<up, acked>>
        \/ /\ pdu.op = "no task"
           /\ tmf' = [tmf EXCEPT ![c] = None]
           /\ UNCHANGED <<up, waits, acked, aborted>>
        \/ /\ pdu.op = "ping"
           /\ Iscsi!Put(c, <<[op |-> "pong"]>>)
           /\ UNCHANGED <<waits, tmf, acked, aborted>>
    BY <1>1, <2>1 DEF Iscsi!Receive
  <2>4. CASE /\ pdu.op = "r2t" /\ own # {}
             /\ Iscsi!Put(c, Iscsi!Data(CHOOSE w \in own : TRUE, pdu.len))
             /\ UNCHANGED <<waits, tmf, acked, aborted>>
    <3>1. PICK x \in own : x = CHOOSE w \in own : TRUE
      BY <2>2, <2>4
    <3>2. Iscsi!Put(c, Iscsi!Data(x, pdu.len))
      BY <2>4, <3>1
    <3> QED BY <1>3, <2>4, <3>1, <3>2 DEF Received
  <2>5. CASE ~(pdu.op = "r2t")
    BY <1>3, <2>3, <2>5 DEF Received
  <2> QED BY <2>3, <2>4, <2>5
<1> QED BY <1>2, <1>4 DEF Iscsi!Receive, Iscsi!targetVars

LEMMA DataPdus ==
  ASSUME BaseInv, NEW w \in waits, NEW n \in Nat
  PROVE  /\ Iscsi!Data(w, n) \in Seq(UpPdus) /\ DOMAIN Iscsi!Data(w, n) = 1 .. n
         /\ \A i \in 1 .. n : /\ Iscsi!Data(w, n)[i].op = "data" /\ Iscsi!Data(w, n)[i].w = w
                              /\ Iscsi!Data(w, n)[i].tag = issued[w].tag
<1>1. w \in DOMAIN issued /\ w \in 1 .. MaxWrite /\ issued[w].tag \in Tags
  BY BaseTypes, TheIssued, Consts DEF Iscsi!TypeOK
<1>2. PICK s : s = [i \in 1 .. n |-> [op |-> "data", w |-> w, tag |-> issued[w].tag, final |-> i = n]]
  OBVIOUS
<1>3. \A i \in 1 .. n : s[i] \in UpPdus /\ s[i].op = "data" /\ s[i].w = w /\ s[i].tag = issued[w].tag
  BY <1>1, <1>2 DEF UpPdus
<1>4. s \in [1 .. n -> UpPdus] /\ DOMAIN s = 1 .. n
  BY <1>2, <1>3
<1>5. s \in Seq(UpPdus)
  BY <1>4, FunctionIsSeq
<1>6. Iscsi!Data(w, n) = s
  BY <1>2 DEF Iscsi!Data
<1> QED BY <1>3, <1>4, <1>5, <1>6

\* The data that is asked for, and answers to pings.
Supplied(c, s) ==
  \A j \in DOMAIN s :
    \/ s[j].op = "pong"
    \/ /\ s[j].op = "data" /\ s[j].w \in waits /\ issued[s[j].w].conn = c
       /\ issued[s[j].w].tag = s[j].tag

\* What a PDU from the target makes the initiator send.
LEMMA ReceivedUp ==
  ASSUME BaseInv, NEW c \in Iscsi!Conns, Iscsi!Receive(c)
  PROVE  up' = up \/ \E s \in Seq(UpPdus) : Iscsi!Put(c, s) /\ Supplied(c, s)
<1>1. PICK pdu \in DownPdus : Received(c, pdu)
  BY ReceiveMoves
<1>2. CASE pdu.op = "r2t"
  <2>1. PICK w \in Own(c, pdu.tag) : Iscsi!Put(c, Iscsi!Data(w, pdu.len))
    BY <1>1, <1>2 DEF Received
  <2>2. w \in waits /\ issued[w].conn = c
    BY <2>1 DEF Own
  <2>3. pdu.len \in Nat
    BY <1>1, <1>2, DownTypes
  <2>4. PICK s \in Seq(UpPdus) : s = Iscsi!Data(w, pdu.len)
    BY <2>2, <2>3, DataPdus
  <2>5. DOMAIN s = 1 .. pdu.len /\ \A i \in 1 .. pdu.len : s[i].op = "data" /\ s[i].w = w /\ s[i].tag = issued[w].tag
    BY <2>2, <2>3, <2>4, DataPdus
  <2>6. Supplied(c, s)
    BY <2>2, <2>5 DEF Supplied
  <2> QED BY <2>1, <2>4, <2>6
<1>3. CASE pdu.op = "ping"
  <2>1. Iscsi!Put(c, <<[op |-> "pong"]>>)
    BY <1>1, <1>3 DEF Received
  <2>2. [op |-> "pong"] \in UpPdus
    BY DEF UpPdus
  <2>3. PICK x \in UpPdus : x = [op |-> "pong"] /\ x.op = "pong"
    BY <2>2
  <2>4. <<x>> \in Seq(UpPdus) /\ DOMAIN <<x>> = {1} /\ <<x>>[1] = x
    BY OnePdu
  <2>5. Supplied(c, <<x>>)
    BY <2>3, <2>4 DEF Supplied
  <2> QED BY <2>1, <2>3, <2>4, <2>5
<1>4. CASE pdu.op \notin {"r2t", "ping"}
  BY <1>1, <1>4 DEF Received
<1> QED BY <1>2, <1>3, <1>4

LEMMA ReceiveBase == ASSUME BaseInv, NEW c \in Iscsi!Conns, Iscsi!Receive(c) PROVE BaseInv'
<1>1. /\ peer[c] = "open" /\ Received(c, down[c][1])
      /\ down' \in [Iscsi!Conns -> Seq(DownPdus)] /\ \A d \in Iscsi!Conns : d # c => down'[d] = down[d]
      /\ After(down[c], down'[c])
      /\ UNCHANGED <<state, nexus, reads, tasks, running, exp, ping, disk, peer, issued>>
  BY ReceiveMoves
<1>2. /\ waits' \subseteq waits \union DOMAIN issued /\ acked' \subseteq DOMAIN issued /\ aborted' \subseteq DOMAIN issued
      /\ tmf' \in [Iscsi!Conns -> (SUBSET (1 .. MaxWrite)) \union {None}]
      /\ \A d \in Iscsi!Conns : d # c => tmf'[d] = tmf[d]
      /\ \A d \in Iscsi!Conns : tmf'[d] = None \/ tmf'[d] \subseteq DOMAIN issued
  <2>1. /\ waits \subseteq DOMAIN issued /\ acked \subseteq DOMAIN issued /\ aborted \subseteq DOMAIN issued
        /\ tmf \in [Iscsi!Conns -> (SUBSET (1 .. MaxWrite)) \union {None}]
        /\ \A d \in Iscsi!Conns : tmf[d] = None \/ tmf[d] \subseteq DOMAIN issued
    BY BaseTypes DEF Iscsi!TypeOK, ConnTypes
  <2>2. Own(c, down[c][1].tag) \subseteq waits
    BY DEF Own
  <2>3. down[c][1].op \in Ends => tmf[c] # None
    BY <1>1, BaseTypes, OnceEnded DEF ManagedOnce
  <2>4. CASE down[c][1].op = "complete"
    <3>1. tmf[c] \subseteq DOMAIN issued
      BY <2>1, <2>3, <2>4 DEF Ends
    <3>2. /\ waits' = waits \ tmf[c] /\ aborted' = aborted \union (tmf[c] \ acked)
          /\ tmf' = [tmf EXCEPT ![c] = None] /\ acked' = acked
      BY <1>1, <2>4 DEF Received
    <3> QED BY <1>1, <2>1, <3>1, <3>2
  <2>5. CASE down[c][1].op # "complete"
    <3>1. /\ aborted' = aborted /\ (waits' = waits \/ waits' = waits \ Own(c, down[c][1].tag))
          /\ (acked' = acked \/ acked' = acked \union Own(c, down[c][1].tag))
          /\ (tmf' = tmf \/ tmf' = [tmf EXCEPT ![c] = None])
      BY <1>1, <2>5 DEF Received
    <3> QED BY <1>1, <2>1, <2>2, <3>1
  <2> QED BY <2>4, <2>5
<1>3. /\ FitsUp(c)' /\ Numbers(c)' /\ up' \in [Iscsi!Conns -> Seq(UpPdus)]
      /\ \A d \in Iscsi!Conns : d # c => up'[d] = up[d]
      /\ state[c] # "scsi" => up'[c] = up[c]
  <2>1. CASE up' = up
    BY <1>1, <2>1, BaseTypes, FitsKept, NumbersKept
  <2>2. CASE \E s \in Seq(UpPdus) : Iscsi!Put(c, s) /\ Supplied(c, s)
    <3>1. PICK s \in Seq(UpPdus) : Iscsi!Put(c, s) /\ Supplied(c, s)
      BY <2>2
    <3>2. /\ up' \in [Iscsi!Conns -> Seq(UpPdus)] /\ \A d \in Iscsi!Conns : d # c => up'[d] = up[d]
          /\ state[c] = "scsi" => Longer(up[c], up'[c], s)
          /\ state[c] # "scsi" => up'[c] = up[c]
      BY <3>1, BaseTypes, PutMoves
    <3>3. \A j \in DOMAIN s :
            /\ s[j].op # "command"
            /\ s[j].op \in {"command", "data"} => Of(s[j].w, c, s[j].tag)
      <4>1. waits \subseteq DOMAIN issued
        BY BaseTypes DEF Iscsi!TypeOK
      <4> QED BY <3>1, <4>1 DEF Of, Supplied
    <3>4. FitsUp(c)'
      BY <1>1, <3>2, <3>3, BaseTypes, FitsAfterPut, FitsKept
    <3>5. Numbers(c)'
      BY <1>1, <3>2, <3>3, NumbersAfterPut
    <3> QED BY <3>2, <3>4, <3>5
  <2> QED BY <2>1, <2>2, ReceivedUp
<1>4. FitsTasks(c)' /\ FitsRunning(c)'
  BY <1>1, BaseTypes, FitsKept
<1>5. Shape(c)'
  BY <1>1, <1>3, BaseTypes DEF Shape
<1>9. ManagedOnce(c)'
  <2>1. Once(up[c], down[c], tmf[c])
    BY <1>1, BaseTypes DEF ManagedOnce
  <2>2. CASE down[c][1].op \in Ends
    <3>1. up' = up
      BY <1>1, <2>2 DEF Received, Ends
    <3>2. Once(up[c], down'[c], tmf'[c])
      BY <1>1, <2>1, <2>2, OnceEnded
    <3> QED BY <3>1, <3>2 DEF ManagedOnce
  <2>3. CASE down[c][1].op \notin Ends
    <3>1. tmf' = tmf
      BY <1>1, <2>3, DownTypes, ReceiveMoves DEF Received, Ends
    <3>2. \/ up'[c] = up[c]
          \/ \E s : Longer(up[c], up'[c], s) /\ \A j \in DOMAIN s : s[j].op \notin Tmfs
      <4>1. CASE up' = up
        BY <4>1
      <4>2. CASE \E s \in Seq(UpPdus) : Iscsi!Put(c, s) /\ Supplied(c, s)
        <5>1. PICK s \in Seq(UpPdus) : Iscsi!Put(c, s) /\ Supplied(c, s)
          BY <4>2
        <5>2. Longer(up[c], up'[c], s) \/ up'[c] = up[c]
          BY <5>1, BaseTypes, PutMoves
        <5>3. \A j \in DOMAIN s : s[j].op \notin Tmfs
          BY <5>1 DEF Supplied, Tmfs
        <5> QED BY <5>2, <5>3
      <4> QED BY <4>1, <4>2, ReceivedUp
    <3> QED BY <1>1, <2>3, <3>1, <3>2, BaseTypes, ManagedKept
  <2> QED BY <2>2, <2>3
<1>6. BaseConn(c)' /\ Elsewhere(c) /\ Logged'
  BY <1>1, <1>2, <1>3, <1>4, <1>5, <1>9, LoggedSame DEF BaseConn, Elsewhere, BaseInv
<1>7. Iscsi!TypeOK'
  BY <1>1, <1>2, BaseTypes DEF Iscsi!TypeOK
<1>8. ConnTypes'
  BY <1>1, <1>2, <1>3, BaseTypes DEF ConnTypes
<1> QED BY <1>1, <1>6, <1>7, <1>8, BaseFromConn



---------------------------------------------------------------------------
(* A write is issued *)

\* The write x is the number n + 1, and y is the command.
Issuing(c, x, y, n) ==
  /\ peer[c] = "open" /\ tmf[c] = None
  /\ n = Len(issued) /\ n < MaxWrite
  /\ x.conn = c /\ x \in Writes
  /\ \A w \in waits : issued[w].conn = c => issued[w].tag # x.tag
  /\ \A w \in waits : issued[w].lba # x.lba
  /\ y \in UpPdus /\ y.op = "command" /\ y.w = n + 1 /\ y.tag = x.tag /\ y.sn = Iscsi!Sent(c) + 1
  /\ waits' = waits \union {n + 1}
  /\ Iscsi!Put(c, <<y>>)
  /\ issued' \in Seq(Writes) /\ DOMAIN issued' = 1 .. n + 1 /\ Len(issued') = n + 1
  /\ issued'[n + 1] = x /\ \A w \in DOMAIN issued : w \in 1 .. n /\ issued'[w] = issued[w]
  /\ UNCHANGED <<state, nexus, reads, tasks, running, exp, ping, disk, down, peer, tmf, acked, aborted>>

LEMMA IssueMoves ==
  ASSUME BaseInv, NEW c \in Iscsi!Conns, NEW tag \in Tags, NEW lba \in Lbas, NEW len \in 1 .. Parts,
         Iscsi!Issue(c, tag, lba, len)
  PROVE  \E x, y : \E n \in Nat : Issuing(c, x, y, n)
<1>1. PICK n \in Nat : n = Len(issued)
  BY BaseTypes, TheIssued
<1>2. PICK x : x = [conn |-> c, tag |-> tag, lba |-> lba, len |-> len]
  OBVIOUS
<1>3. PICK y : y = [op |-> "command", w |-> n + 1, tag |-> tag, sn |-> Iscsi!Sent(c) + 1]
  OBVIOUS
<1>4. x \in Writes /\ x.conn = c /\ x.tag = tag /\ x.lba = lba
  BY <1>2 DEF Writes
<1>5. /\ peer[c] = "open" /\ tmf[c] = None /\ n < MaxWrite
      /\ tag \notin Iscsi!Busy(c) /\ (\A w \in waits : issued[w].lba # lba)
      /\ issued' = Append(issued, x) /\ waits' = waits \union {n + 1} /\ Iscsi!Put(c, <<y>>)
      /\ UNCHANGED <<Iscsi!targetVars, down, peer, tmf, acked, aborted>>
  BY <1>1, <1>2, <1>3 DEF Iscsi!Issue
<1>6. y \in UpPdus /\ y.op = "command" /\ y.w = n + 1 /\ y.tag = x.tag /\ y.sn = Iscsi!Sent(c) + 1
  <2>1. Iscsi!Sent(c) \in Nat
    BY BaseTypes, SentTypes
  <2>2. PICK k \in Nat : k = Iscsi!Sent(c) + 1
    BY <2>1
  <2>3. n + 1 \in 1 .. MaxWrite
    BY <1>1, <1>5, Consts
  <2>4. y = [op |-> "command", w |-> n + 1, tag |-> tag, sn |-> k]
    BY <1>3, <2>2
  <2> QED BY <1>4, <2>2, <2>3, <2>4 DEF UpPdus
<1>7. \A w \in waits : issued[w].conn = c => issued[w].tag # x.tag
  BY <1>4, <1>5 DEF Iscsi!Busy
<1>8. issued' \in Seq(Writes) /\ Len(issued') = n + 1 /\ DOMAIN issued' = 1 .. n + 1
      /\ issued'[n + 1] = x /\ \A w \in 1 .. n : issued'[w] = issued[w]
  BY <1>1, <1>4, <1>5, BaseTypes
<1>9. DOMAIN issued = 1 .. n
  BY <1>1, BaseTypes, TheIssued
<1>10. UNCHANGED <<state, nexus, reads, tasks, running, exp, ping, disk, down, peer, tmf, acked, aborted>>
  BY <1>5 DEF Iscsi!targetVars
<1>11. Issuing(c, x, y, n)
  BY <1>1, <1>4, <1>5, <1>6, <1>7, <1>8, <1>9, <1>10 DEF Issuing
<1> QED BY <1>11

LEMMA IssueSent ==
  ASSUME BaseInv, NEW c \in Iscsi!Conns, NEW x, NEW y, NEW n \in Nat, Issuing(c, x, y, n)
  PROVE  Iscsi!Sent(c)' = Iscsi!Sent(c) + 1 /\ \A d : d # c => Iscsi!Sent(d)' = Iscsi!Sent(d)
<1>1. /\ DOMAIN issued' = 1 .. n + 1 /\ DOMAIN issued = 1 .. n /\ issued'[n + 1].conn = c
      /\ \A w \in DOMAIN issued : issued'[w] = issued[w]
  BY BaseTypes, TheIssued DEF Issuing
<1>2. PICK o : o = {w \in DOMAIN issued : issued[w].conn = c}
  OBVIOUS
<1>3. n + 1 \notin o /\ o \in SUBSET (1 .. n)
  BY <1>1, <1>2
<1>4. IsFiniteSet(o)
  <2>1. IsFiniteSet(1 .. n)
    BY FS_Interval
  <2> QED BY <1>3, <2>1, FS_Subset
<1>5. {w \in DOMAIN issued' : issued'[w].conn = c} = o \union {n + 1}
  BY <1>1, <1>2
<1>6. Cardinality(o \union {n + 1}) = Cardinality(o) + 1
  BY <1>3, <1>4, FS_AddElement
<1>7. Iscsi!Sent(c)' = Iscsi!Sent(c) + 1
  BY <1>2, <1>5, <1>6, IscsiCardinality DEF Iscsi!Sent
<1>8. ASSUME NEW d, d # c PROVE Iscsi!Sent(d)' = Iscsi!Sent(d)
  <2>1. {w \in DOMAIN issued' : issued'[w].conn = d} = {w \in DOMAIN issued : issued[w].conn = d}
    BY <1>1, <1>8
  <2> QED BY <2>1, IscsiCardinality DEF Iscsi!Sent
<1> QED BY <1>7, <1>8

\* What fitted fits when one more write has been issued.
LEMMA OfIssued ==
  ASSUME BaseInv, NEW c \in Iscsi!Conns, NEW x, NEW y, NEW n \in Nat, Issuing(c, x, y, n)
  PROVE  /\ \A w, d, tag : Of(w, d, tag) => Of(w, d, tag)' /\ issued'[w] = issued[w]
         /\ Of(n + 1, c, x.tag)'
         /\ \A d : FitsTasks(d) => FitsTasks(d)'
         /\ \A d : FitsRunning(d) => FitsRunning(d)'
<1>1. /\ DOMAIN issued' = 1 .. n + 1 /\ issued'[n + 1] = x /\ x.conn = c
      /\ \A w \in DOMAIN issued : w \in 1 .. n /\ issued'[w] = issued[w]
      /\ tasks' = tasks /\ running' = running
  BY DEF Issuing
<1>2. \A w, d, tag : Of(w, d, tag) => Of(w, d, tag)' /\ issued'[w] = issued[w]
  BY <1>1 DEF Of
<1>3. Of(n + 1, c, x.tag)'
  BY <1>1 DEF Of
<1>4. \A d, t : FitsTask(d, t) => FitsTask(d, t)' /\ issued'[t.w] = issued[t.w]
  BY <1>2 DEF FitsTask
<1>5. \A d : FitsTasks(d) => FitsTasks(d)'
  BY <1>1, <1>4 DEF FitsTasks
<1>6. \A d : FitsRunning(d) => FitsRunning(d)'
  BY <1>1, <1>4 DEF FitsRunning
<1> QED BY <1>2, <1>3, <1>5, <1>6

LEMMA IssueUp ==
  ASSUME BaseInv, NEW c \in Iscsi!Conns, NEW x, NEW y, NEW n \in Nat, Issuing(c, x, y, n)
  PROVE  /\ up' \in [Iscsi!Conns -> Seq(UpPdus)] /\ \A d \in Iscsi!Conns : d # c => up'[d] = up[d]
         /\ state[c] = "scsi" => Longer(up[c], up'[c], <<y>>)
         /\ state[c] # "scsi" => up'[c] = up[c]
         /\ DOMAIN <<y>> = {1} /\ <<y>>[1] = y
<1>1. y \in UpPdus /\ Iscsi!Put(c, <<y>>)
  BY DEF Issuing
<1>2. <<y>> \in Seq(UpPdus) /\ DOMAIN <<y>> = {1} /\ <<y>>[1] = y
  BY <1>1, OnePdu
<1> QED BY <1>1, <1>2, BaseTypes, PutMoves

LEMMA IssueConn ==
  ASSUME BaseInv, NEW c \in Iscsi!Conns, NEW x, NEW y, NEW n \in Nat, Issuing(c, x, y, n), NEW d \in Iscsi!Conns
  PROVE  BaseConn(d)'
<1>1. /\ peer[c] = "open" /\ x.conn = c /\ y.op = "command" /\ y.w = n + 1 /\ y.tag = x.tag /\ y.sn = Iscsi!Sent(c) + 1
      /\ y \in UpPdus
      /\ DOMAIN issued' = 1 .. n + 1 /\ issued'[n + 1] = x
      /\ \A w \in DOMAIN issued : w \in 1 .. n /\ issued'[w] = issued[w]
      /\ UNCHANGED <<state, tasks, running, exp, down, peer, tmf>>
  BY DEF Issuing
<1>2. FitsTasks(d)' /\ FitsRunning(d)'
  BY BaseTypes, OfIssued
<1>3. FitsUp(d)'
  <2>1. CASE d # c \/ state[c] # "scsi"
    <3>1. up'[d] = up[d]
      BY <2>1, IssueUp
    <3>2. FitsUp(d)
      BY BaseTypes
    <3> QED BY <3>1, <3>2, OfIssued DEF FitsUp
  <2>2. CASE d = c /\ state[c] = "scsi"
    <3>1. Longer(up[c], up'[c], <<y>>) /\ DOMAIN <<y>> = {1} /\ <<y>>[1] = y
      BY <2>2, IssueUp
    <3>2. \A i \in DOMAIN up'[c] : (i \in DOMAIN up[c] /\ up'[c][i] = up[c][i]) \/ up'[c][i] = y
      BY <3>1 DEF Longer
    <3>3. Of(y.w, c, y.tag)'
      BY <1>1, OfIssued
    <3>4. ASSUME NEW i \in DOMAIN up'[c], up'[c][i].op \in {"command", "data"}
          PROVE  Of(up[c][i].w, c, up[c][i].tag)'
      <4>1. PICK z : z = up'[c][i]
        OBVIOUS
      <4>2. CASE z = y
        BY <3>3, <4>1, <4>2
      <4>3. CASE i \in DOMAIN up[c] /\ z = up[c][i]
        <5>1. Of(z.w, c, z.tag)
          BY <3>4, <4>1, <4>3, BaseTypes DEF FitsUp
        <5>2. Of(z.w, c, z.tag)'
          BY <5>1, OfIssued
        <5> QED BY <4>1, <5>2
      <4> QED BY <3>2, <4>1, <4>2, <4>3
    <3>5. FitsUp(c)'
      BY <3>4 DEF FitsUp
    <3> QED BY <2>2, <3>5
  <2> QED BY <2>1, <2>2
<1>4. Shape(d)'
  <2>1. Shape(d) /\ Shape(c)
    BY BaseTypes
  <2>2. state[d] # "scsi" => up'[d] = <<>>
    BY <2>1, IssueUp DEF Shape
  <2>3. peer[d] = "none" => \A w \in DOMAIN issued' : issued'[w].conn # d
    <3>1. ASSUME peer[d] = "none", NEW w \in DOMAIN issued' PROVE issued'[w].conn # d
      <4>1. d # c
        BY <1>1, <3>1
      <4>2. DOMAIN issued = 1 .. n
        BY BaseTypes, TheIssued DEF Issuing
      <4>3. w \in DOMAIN issued \/ w = n + 1
        BY <1>1, <4>2
      <4> QED BY <1>1, <2>1, <3>1, <4>1, <4>3 DEF Shape
    <3> QED BY <3>1
  <2> QED BY <1>1, <2>1, <2>2, <2>3 DEF Shape
<1>5. Numbers(d)'
  <2>1. Numbers(d) /\ Numbers(c) /\ up[c] \in Seq(UpPdus) /\ exp[c] \in Nat
    BY BaseTypes
  <2>2. CASE d # c
    <3>1. Iscsi!Sent(d)' = Iscsi!Sent(d) /\ up'[d] = up[d]
      BY <2>2, IssueSent, IssueUp
    <3> QED BY <1>1, <2>1, <3>1 DEF Numbers
  <2>3. CASE d = c
    <3>1. PICK m \in Nat : m = Iscsi!Sent(c) /\ Iscsi!Sent(c)' = m + 1
      BY BaseTypes, SentTypes, IssueSent
    <3>2. exp[c] <= m + 1
      BY <2>1, <3>1 DEF Numbers
    <3>3. ASSUME state[c] = "scsi" PROVE InSequence(up'[c], exp[c], m + 1)
      <4>1. InSequence(up[c], exp[c], m) /\ Longer(up[c], up'[c], <<y>>) /\ y.sn = m + 1
        BY <1>1, <2>1, <3>1, <3>3, IssueUp DEF Numbers
      <4> QED BY <1>1, <2>1, <3>2, <4>1, SequenceIssue
    <3>4. exp[c] <= m + 1 + 1
      BY <2>1, <3>2
    <3> QED BY <1>1, <2>3, <3>1, <3>3, <3>4 DEF Numbers
  <2> QED BY <2>2, <2>3
<1>6. ManagedOnce(d)'
  <2>1. \/ up'[d] = up[d]
        \/ \E s : Longer(up[d], up'[d], s) /\ \A j \in DOMAIN s : s[j].op \notin Tmfs
    <3>1. \A j \in DOMAIN <<y>> : <<y>>[j].op \notin Tmfs
      BY <1>1, IssueUp DEF Tmfs
    <3>2. up'[d] = up[d] \/ Longer(up[d], up'[d], <<y>>)
      BY IssueUp
    <3> QED BY <3>1, <3>2
  <2> QED BY <1>1, <2>1, BaseTypes, ManagedKept
<1> QED BY <1>2, <1>3, <1>4, <1>5, <1>6 DEF BaseConn

LEMMA IssueBase ==
  ASSUME BaseInv, NEW c \in Iscsi!Conns, NEW tag \in Tags, NEW lba \in Lbas, NEW len \in 1 .. Parts,
         Iscsi!Issue(c, tag, lba, len)
  PROVE  BaseInv'
<1>1. PICK x, y : \E n \in Nat : Issuing(c, x, y, n)
  BY IssueMoves
<1>2. PICK n \in Nat : Issuing(c, x, y, n)
  BY <1>1
<1>3. /\ n = Len(issued) /\ n < MaxWrite /\ waits' = waits \union {n + 1}
      /\ issued' \in Seq(Writes) /\ DOMAIN issued' = 1 .. n + 1 /\ Len(issued') = n + 1
      /\ \A w \in DOMAIN issued : w \in 1 .. n
      /\ UNCHANGED <<state, nexus, reads, tasks, running, exp, ping, disk, down, peer, tmf, acked, aborted>>
  BY <1>2 DEF Issuing
<1>4. DOMAIN issued \subseteq DOMAIN issued' /\ n + 1 \in DOMAIN issued'
  BY <1>3
<1>5. Iscsi!TypeOK'
  <2>1. \A d \in Iscsi!Conns :
          /\ \A i \in DOMAIN tasks[d] : tasks[d][i].w \in DOMAIN issued'
          /\ running[d] = None \/ running[d].w \in DOMAIN issued'
          /\ tmf[d] = None \/ tmf[d] \subseteq DOMAIN issued'
    BY <1>4, BaseTypes DEF Iscsi!TypeOK
  <2>2. Len(issued') <= MaxWrite
    BY <1>3, Consts
  <2>3. waits' \union acked \union aborted \subseteq DOMAIN issued'
    BY <1>3, <1>4, BaseTypes DEF Iscsi!TypeOK
  <2> QED BY <1>3, <2>1, <2>2, <2>3, BaseTypes DEF Iscsi!TypeOK
<1>6. ConnTypes'
  BY <1>2, <1>3, IssueUp, BaseTypes DEF ConnTypes
<1>7. Logged'
  BY <1>3, LoggedSame DEF BaseInv
<1>8. \A d \in Iscsi!Conns : BaseConn(d)'
  BY <1>2, IssueConn
<1> QED BY <1>5, <1>6, <1>7, <1>8 DEF BaseInv, BaseConn

---------------------------------------------------------------------------
LEMMA BaseInit == ASSUME Iscsi!Init PROVE BaseInv
<1>1. Iscsi!TypeOK
  BY OnePdu, Consts DEF Iscsi!Init, Iscsi!TypeOK
<1>2. ConnTypes
  BY OnePdu, Consts DEF Iscsi!Init, ConnTypes
<1>3. Logged
  <2>1. {c \in Iscsi!Conns : peer[c] # "none"} = {}
    BY DEF Iscsi!Init
  <2>2. Iscsi!Last = 0
    BY <2>1, FS_EmptySet, IscsiCardinality DEF Iscsi!Last
  <2> QED BY <2>1, <2>2 DEF Logged
<1>4. ASSUME NEW c \in Iscsi!Conns
      PROVE FitsUp(c) /\ FitsTasks(c) /\ FitsRunning(c) /\ Shape(c) /\ Numbers(c) /\ ManagedOnce(c)
  <2>1. /\ state[c] = "free" /\ tasks[c] = <<>> /\ running[c] = None /\ exp[c] = 1 /\ up[c] = <<>>
        /\ down[c] = <<>> /\ peer[c] = "none" /\ tmf[c] = None /\ issued = <<>>
    BY DEF Iscsi!Init
  <2>2. Iscsi!Sent(c) = 0
    <3>1. {w \in DOMAIN issued : issued[w].conn = c} = {}
      BY <2>1
    <3> QED BY <3>1, FS_EmptySet, IscsiCardinality DEF Iscsi!Sent
  <2>3. FitsUp(c) /\ FitsTasks(c) /\ FitsRunning(c)
    BY <2>1 DEF FitsUp, FitsTasks, FitsRunning
  <2>4. Shape(c)
    BY <2>1 DEF Shape
  <2>5. Numbers(c) /\ ManagedOnce(c)
    BY <2>1, <2>2 DEF Numbers, ManagedOnce
  <2> QED BY <2>3, <2>4, <2>5
<1> QED BY <1>1, <1>2, <1>3, <1>4 DEF BaseInv

LEMMA BaseKept ==
  ASSUME BaseInv, UNCHANGED Iscsi!vars PROVE BaseInv'
<1>1. UNCHANGED <<state, nexus, reads, tasks, running, exp, ping, disk, up, down, peer, issued, waits, tmf, acked, aborted>>
  BY DEF Iscsi!vars, Iscsi!targetVars, Iscsi!peerVars
<1>2. Iscsi!TypeOK' /\ ConnTypes' /\ Logged'
  BY <1>1, LoggedSame DEF BaseInv, Iscsi!TypeOK, ConnTypes
<1>3. ASSUME NEW c \in Iscsi!Conns PROVE BaseConn(c)'
  <2>1. FitsUp(c)' /\ FitsTasks(c)' /\ FitsRunning(c)' /\ Numbers(c)' /\ ManagedOnce(c)'
    BY <1>1, BaseTypes, FitsKept, NumbersKept, ManagedKept
  <2>2. Shape(c)'
    BY <1>1, BaseTypes DEF Shape
  <2> QED BY <2>1, <2>2 DEF BaseConn
<1> QED BY <1>2, <1>3 DEF BaseInv, BaseConn

LEMMA HandleBase == ASSUME BaseInv, NEW c \in Iscsi!Conns, Iscsi!Handle(c) PROVE BaseInv'
<1>1. CASE Iscsi!HandleLongWrite(c) BY <1>1, HandleLongWriteBase
<1>2. CASE Iscsi!HandleShortWrite(c) BY <1>2, HandleShortWriteBase
<1>3. CASE Iscsi!HandleData(c) BY <1>3, HandleDataBase
<1>4. CASE Iscsi!HandleUnknownData(c) BY <1>4, HandleUnknownDataBase
<1>5. CASE Iscsi!HandleAbort(c) BY <1>5, HandleAbortBase
<1>6. CASE Iscsi!HandleReset(c) BY <1>6, HandleResetBase
<1>7. CASE Iscsi!HandlePong(c) BY <1>7, HandlePongBase
<1>8. CASE Iscsi!Execute(c) BY <1>8, ExecuteBase
<1>9. CASE Iscsi!ReadFails(c) BY <1>9, CloseBase DEF Iscsi!ReadFails
<1> QED BY <1>1, <1>2, <1>3, <1>4, <1>5, <1>6, <1>7, <1>8, <1>9 DEF Iscsi!Handle

LEMMA BaseStep == ASSUME BaseInv, Iscsi!Next PROVE BaseInv'
<1>1. PICK c \in Iscsi!Conns :
        \/ Iscsi!Login(c)
        \/ \E tag \in Tags, lba \in Lbas, len \in 1 .. Parts : Iscsi!Issue(c, tag, lba, len)
        \/ \E w \in waits : Iscsi!Abort(c, w)
        \/ Iscsi!ResetUnit(c)
        \/ Iscsi!Receive(c)
        \/ \E how \in {"closed", "silent"} : Iscsi!Leave(c, how)
        \/ Iscsi!SeeClosed(c)
        \/ Iscsi!Handle(c)
        \/ Iscsi!Worker(c)
  BY DEF Iscsi!Next
<1>2. CASE Iscsi!Login(c) BY <1>2, LoginBase
<1>3. CASE \E tag \in Tags, lba \in Lbas, len \in 1 .. Parts : Iscsi!Issue(c, tag, lba, len)
  BY <1>3, IssueBase
<1>4. CASE \E w \in waits : Iscsi!Abort(c, w) BY <1>4, AbortBase
<1>5. CASE Iscsi!ResetUnit(c) BY <1>5, ResetUnitBase
<1>6. CASE Iscsi!Receive(c) BY <1>6, ReceiveBase
<1>7. CASE \E how \in {"closed", "silent"} : Iscsi!Leave(c, how) BY <1>7, LeaveBase
<1>8. CASE Iscsi!SeeClosed(c) BY <1>8, LeaveBase DEF Iscsi!SeeClosed
<1>9. CASE Iscsi!Handle(c) BY <1>9, HandleBase
<1>10. CASE Iscsi!Ping(c) BY <1>10, PingBase
<1>11. CASE Iscsi!PingTimeout(c) BY <1>11, CloseBase DEF Iscsi!PingTimeout
<1> QED BY <1>1, <1>2, <1>3, <1>4, <1>5, <1>6, <1>7, <1>8, <1>9, <1>10, <1>11 DEF Iscsi!Worker

LEMMA BaseNumberIsExpected == ASSUME BaseInv PROVE Iscsi!NumberIsExpected
<1> SUFFICES ASSUME NEW c \in Iscsi!Conns, up[c] # <<>>, Head(up[c]).op = "command" PROVE Head(up[c]).sn = exp[c]
  BY DEF Iscsi!NumberIsExpected
<1>1. up[c] \in Seq(UpPdus) /\ exp[c] \in Nat /\ Shape(c) /\ Numbers(c)
  BY BaseTypes
<1>2. After(up[c], Tail(up[c])) /\ Head(up[c]) = up[c][1]
  BY <1>1, TailOfSeq
<1>3. InSequence(up[c], exp[c], Iscsi!Sent(c)) /\ Iscsi!Sent(c) \in Nat
  BY <1>1, BaseTypes, SentTypes DEF Shape, Numbers
<1> QED BY <1>1, <1>2, <1>3, SequencePop



---------------------------------------------------------------------------
(* Sessions: one at a time *)

LEMMA SessionFacts ==
  ASSUME SessionInv
  PROVE  /\ BaseInv /\ NoResets /\ OneSession /\ WaitsInv /\ AckedInv
         /\ \A c \in Iscsi!Conns :
              /\ ConnInv(c) /\ PipeInv(c) /\ Ordered(c) /\ DataInv(c) /\ TaskInv(c) /\ ManagedInv(c)
              /\ ConfirmedInv(c) /\ ResponseInv(c)
         /\ waits \subseteq DOMAIN issued /\ acked \subseteq DOMAIN issued /\ aborted \subseteq DOMAIN issued
         /\ \A w \in waits : w \in DOMAIN issued /\ issued[w].conn \in Iscsi!Conns /\ issued[w].tag # TmfTag
<1>1. /\ BaseInv /\ NoResets /\ OneSession /\ WaitsInv /\ AckedInv
      /\ \A c \in Iscsi!Conns : ConnInv(c)
  BY DEF SessionInv
<1>2. waits \subseteq DOMAIN issued /\ acked \subseteq DOMAIN issued /\ aborted \subseteq DOMAIN issued
  BY <1>1 DEF BaseInv, Iscsi!TypeOK
<1>3. issued \in Seq(Writes)
  BY <1>1, BaseTypes
<1> QED BY <1>1, <1>2, <1>3, TheIssued DEF ConnInv

\* The writes that were issued are as they were.
IssuedKept == \A w \in DOMAIN issued : w \in DOMAIN issued' /\ issued'[w] = issued[w]

LEMMA SomebodyIsBusy ==
  ASSUME SessionInv, NEW c \in Iscsi!Conns, peer[c] # "none", peer[c] = "open" \/ ~Iscsi!Drained(c),
         NEW d \in Iscsi!Conns, d # c
  PROVE  /\ state[d] # "scsi" /\ peer[d] # "open" /\ running[d] = None /\ up[d] = <<>> /\ down[d] = <<>>
         /\ c < d => peer[d] = "none"
<1>1. c \in Nat /\ d \in Nat
  BY Consts
<1>2. OneSession /\ BaseInv
  BY SessionFacts
<1>3. Shape(d)
  BY <1>2, BaseTypes
<1>4. CASE d < c
  BY <1>1, <1>2, <1>3, <1>4 DEF OneSession, Iscsi!Drained, Shape
<1>5. CASE c < d
  <2>1. peer[d] = "none"
    BY <1>2, <1>5 DEF OneSession
  <2> QED BY <1>3, <2>1 DEF Shape
<1> QED BY <1>1, <1>4, <1>5

LEMMA IdleElsewhere ==
  ASSUME SessionInv, NEW c \in Iscsi!Conns, peer[c] # "none", peer[c] = "open" \/ ~Iscsi!Drained(c), Elsewhere(c),
         IssuedKept, NEW d \in Iscsi!Conns, d # c
  PROVE  ConnInv(d)'
<1>1. /\ state[d] # "scsi" /\ peer[d] # "open" /\ running[d] = None /\ up[d] = <<>> /\ down[d] = <<>>
  BY SomebodyIsBusy
<1>2. /\ state'[d] # "scsi" /\ peer'[d] # "open" /\ running'[d] = None /\ up'[d] = <<>> /\ down'[d] = <<>>
      /\ tasks'[d] = tasks[d]
  BY <1>1 DEF Elsewhere
<1>3. TaskInv(d) /\ Ordered(d) /\ FitsTasks(d)
  BY SessionFacts, BaseTypes
<1>4. \A w : w \notin Pipe(d)'
  BY <1>2 DEF Pipe, Commands
<1>5. PipeInv(d)'
  BY <1>2, <1>4 DEF PipeInv
<1>6. Ordered(d)' /\ DataInv(d)'
  BY <1>2, <1>3 DEF Ordered, DataInv
<1>7. TaskInv(d)'
  BY <1>2, <1>3 DEF TaskInv, IssuedKept, FitsTasks, FitsTask, Of
<1>8. ManagedInv(d)' /\ ConfirmedInv(d)' /\ ResponseInv(d)'
  BY <1>2 DEF ManagedInv, ConfirmedInv, ResponseInv
<1> QED BY <1>5, <1>6, <1>7, <1>8 DEF ConnInv

LEMMA OneSessionKept ==
  ASSUME SessionInv, NEW c \in Iscsi!Conns, peer[c] # "none", peer[c] = "open" \/ ~Iscsi!Drained(c), Elsewhere(c),
         peer'[c] # "none"
  PROVE  OneSession'
<1> SUFFICES ASSUME NEW a \in Iscsi!Conns, NEW b \in Iscsi!Conns, a < b, peer'[b] # "none"
             PROVE  Iscsi!Drained(a)' /\ peer'[a] # "open"
  BY DEF OneSession
<1>1. \A d \in Iscsi!Conns : d # c => /\ (Iscsi!Drained(d)' <=> Iscsi!Drained(d)) /\ peer'[d] = peer[d]
                                      /\ (c < d => peer[d] = "none")
  BY SomebodyIsBusy DEF Elsewhere, Iscsi!Drained
<1>2. a # b /\ a # c
  BY <1>1, Consts
<1>3. peer[b] # "none"
  BY <1>1
<1>4. Iscsi!Drained(a) /\ peer[a] # "open"
  BY <1>3, SessionFacts DEF OneSession
<1> QED BY <1>1, <1>2, <1>4

---------------------------------------------------------------------------
(* Where a write is *)

InPipe(w, q, t, r, s) ==
  \/ \E i \in DOMAIN q : q[i].op = "command" /\ q[i].w = w
  \/ s = "scsi" /\ \E i \in DOMAIN t : t[i].w = w
  \/ r # None /\ r.w = w

LEMMA PipeMembers ==
  ASSUME NEW c
  PROVE  /\ \A w : (w \in Pipe(c)) <=> InPipe(w, up[c], tasks[c], running[c], state[c])
         /\ \A w : (w \in Pipe(c)') <=> InPipe(w, up'[c], tasks'[c], running'[c], state'[c])
<1>1. \A w : (w \in Pipe(c)) <=> InPipe(w, up[c], tasks[c], running[c], state[c])
  BY DEF Pipe, Commands, OfTasks, InPipe
<1>2. \A w : (w \in Pipe(c)') <=> InPipe(w, up'[c], tasks'[c], running'[c], state'[c])
  BY DEF Pipe, Commands, OfTasks, InPipe
<1> QED BY <1>1, <1>2

\* What is in the pipe of a connection was issued on it.
LEMMA PipeIssued ==
  ASSUME SessionInv, NEW c \in Iscsi!Conns, NEW w \in Pipe(c)
  PROVE  /\ w \in DOMAIN issued /\ issued[w].conn = c /\ issued[w].tag \in Tags /\ Latest(w)
         /\ peer[c] = "open" => w \in waits
         /\ w \notin acked /\ w \notin aborted
<1>1. InPipe(w, up[c], tasks[c], running[c], state[c])
  BY PipeMembers
<1>2. FitsUp(c) /\ FitsTasks(c) /\ FitsRunning(c) /\ issued \in Seq(Writes)
  BY SessionFacts, BaseTypes
<1>3. w \in DOMAIN issued /\ issued[w].conn = c
  BY <1>1, <1>2 DEF InPipe, FitsUp, FitsTasks, FitsRunning, FitsTask, Of
<1>4. PipeInv(c)
  BY SessionFacts
<1> QED BY <1>2, <1>3, <1>4, TheIssued DEF PipeInv

\* Writes that have the same tag in a connection and are waited for are one.
LEMMA TagsAreOfOne ==
  ASSUME SessionInv, NEW v \in waits, NEW w \in waits,
         issued[v].conn = issued[w].conn, issued[v].tag = issued[w].tag
  PROVE  v = w
BY SessionFacts DEF WaitsInv

\* The queue r is what follows in q after k PDUs.
Later(q, r, k) == \A i \in DOMAIN r : i \in Nat /\ i + k \in DOMAIN q /\ r[i] = q[i + k]

LEMMA LaterQueues ==
  /\ \A q \in Seq(UpPdus) : Later(q, q, 0)
  /\ \A q : Later(q, <<>>, 0)
  /\ \A q, r : After(q, r) => Later(q, r, 1)
<1>1. \A q \in Seq(UpPdus) : Later(q, q, 0)
  BY DEF Later
<1>2. \A q : Later(q, <<>>, 0)
  BY OnePdu DEF Later
<1>3. \A q, r : After(q, r) => Later(q, r, 1)
  BY DEF Later, After
<1> QED BY <1>1, <1>2, <1>3

SomeTasks(c) == \A i \in DOMAIN tasks'[c] : \E j \in DOMAIN tasks[c] : tasks'[c][i] = tasks[c][j]
TagsDiffer(c) == \A i, j \in DOMAIN tasks[c] : tasks[c][i].tag = tasks[c][j].tag => i = j

\* A step after which there is less on the way and to do.
LEMMA Fewer ==
  ASSUME SessionInv, NEW c \in Iscsi!Conns, NEW k \in Nat, Later(up[c], up'[c], k), SomeTasks(c), TagsDiffer(c)',
         running'[c] = running[c] \/ running'[c] = None, state'[c] = state[c] \/ state'[c] # "scsi",
         issued' = issued, waits' = waits, tmf'[c] = tmf[c], peer'[c] = peer[c]
  PROVE  Ordered(c)' /\ DataInv(c)' /\ TaskInv(c)' /\ ManagedInv(c)' /\ Pipe(c)' \subseteq Pipe(c)
<1>1. /\ Ordered(c) /\ DataInv(c) /\ TaskInv(c) /\ ManagedInv(c)
  BY SessionFacts
<1>2. Ordered(c)'
  <2>1. \A i, j \in DOMAIN up'[c] :
          up'[c][i].op = "command" /\ up'[c][j].op = "command" /\ i < j => up'[c][i].w < up'[c][j].w
    <3>1. ASSUME NEW i \in DOMAIN up'[c], NEW j \in DOMAIN up'[c],
                 up'[c][i].op = "command", up'[c][j].op = "command", i < j
          PROVE  up'[c][i].w < up'[c][j].w
      <4>1. /\ i + k \in DOMAIN up[c] /\ up'[c][i] = up[c][i + k] /\ i + k < j + k
            /\ j + k \in DOMAIN up[c] /\ up'[c][j] = up[c][j + k]
        BY <3>1 DEF Later
      <4> QED BY <1>1, <3>1, <4>1 DEF Ordered
    <3> QED BY <3>1
  <2>2. \A i \in DOMAIN up'[c] : up'[c][i].op = "command" =>
          /\ \A j \in DOMAIN tasks'[c] : tasks'[c][j].w < up'[c][i].w
          /\ running'[c] # None => running'[c].w < up'[c][i].w
    <3>1. ASSUME NEW i \in DOMAIN up'[c], up'[c][i].op = "command"
          PROVE  /\ \A j \in DOMAIN tasks'[c] : tasks'[c][j].w < up'[c][i].w
                 /\ running'[c] # None => running'[c].w < up'[c][i].w
      <4>1. i + k \in DOMAIN up[c] /\ up'[c][i] = up[c][i + k]
        BY DEF Later
      <4>2. /\ \A j \in DOMAIN tasks[c] : tasks[c][j].w < up[c][i + k].w
            /\ running[c] # None => running[c].w < up[c][i + k].w
        BY <1>1, <3>1, <4>1 DEF Ordered
      <4> QED BY <4>1, <4>2 DEF SomeTasks
    <3> QED BY <3>1
  <2> QED BY <2>1, <2>2 DEF Ordered, TagsDiffer
<1>3. DataInv(c)'
  <2>1. ASSUME NEW i \in DOMAIN up'[c], up'[c][i].op = "data"
        PROVE  /\ \A j \in DOMAIN tasks'[c] : tasks'[c][j].tag = up'[c][i].tag => tasks'[c][j].w = up'[c][i].w
               /\ \A j \in DOMAIN up'[c] :
                    j < i /\ up'[c][j].op = "command" /\ up'[c][j].tag = up'[c][i].tag => up'[c][j].w = up'[c][i].w
    <3>1. i + k \in DOMAIN up[c] /\ up'[c][i] = up[c][i + k]
      BY DEF Later
    <3>2. \A j \in DOMAIN tasks[c] : tasks[c][j].tag = up[c][i + k].tag => tasks[c][j].w = up[c][i + k].w
      BY <1>1, <2>1, <3>1 DEF DataInv
    <3>3. ASSUME NEW j \in DOMAIN up'[c], j < i, up'[c][j].op = "command", up'[c][j].tag = up'[c][i].tag
          PROVE  up'[c][j].w = up'[c][i].w
      <4>1. j + k \in DOMAIN up[c] /\ up'[c][j] = up[c][j + k] /\ j + k < i + k
        BY <3>3 DEF Later
      <4> QED BY <1>1, <2>1, <3>1, <3>3, <4>1 DEF DataInv
    <3> QED BY <3>1, <3>2, <3>3 DEF SomeTasks
  <2> QED BY <2>1 DEF DataInv
<1>4. TaskInv(c)'
  <2>1. \A i \in DOMAIN tasks'[c] : Filled(tasks'[c][i], issued'[tasks'[c][i].w].len)
    BY <1>1 DEF TaskInv, SomeTasks
  <2> QED BY <1>1, <2>1 DEF TaskInv
<1>5. ManagedInv(c)'
  <2>1. ASSUME peer'[c] = "open", NEW i \in DOMAIN up'[c], up'[c][i].op = "abort"
        PROVE \E v \in DOMAIN issued' :
                /\ tmf'[c] = {v} /\ issued'[v].tag = up'[c][i].tag
                /\ \A x \in waits' : issued'[x].conn = c /\ issued'[x].tag = up'[c][i].tag => x = v
    <3>1. i + k \in DOMAIN up[c] /\ up'[c][i] = up[c][i + k]
      BY DEF Later
    <3> QED BY <1>1, <2>1, <3>1 DEF ManagedInv
  <2> QED BY <2>1 DEF ManagedInv
<1>6. ASSUME NEW w \in Pipe(c)' PROVE w \in Pipe(c)
  <2>1. InPipe(w, up'[c], tasks'[c], running'[c], state'[c])
    BY PipeMembers
  <2>2. InPipe(w, up[c], tasks[c], running[c], state[c])
    <3>1. CASE \E i \in DOMAIN up'[c] : up'[c][i].op = "command" /\ up'[c][i].w = w
      BY <3>1 DEF InPipe, Later
    <3>2. CASE state'[c] = "scsi" /\ \E i \in DOMAIN tasks'[c] : tasks'[c][i].w = w
      BY <3>2 DEF InPipe, SomeTasks
    <3>3. CASE running'[c] # None /\ running'[c].w = w
      BY <3>3 DEF InPipe
    <3> QED BY <2>1, <3>1, <3>2, <3>3 DEF InPipe
  <2> QED BY <2>2, PipeMembers
<1> QED BY <1>2, <1>3, <1>4, <1>5, <1>6

LEMMA PipeShrinks ==
  ASSUME SessionInv, NEW c \in Iscsi!Conns, Pipe(c)' \subseteq Pipe(c), issued' = issued, waits' = waits,
         acked' = acked, aborted' = aborted, peer'[c] = peer[c]
  PROVE  PipeInv(c)'
<1>1. PipeInv(c)
  BY SessionFacts
<1>2. \A w : Latest(w)' <=> Latest(w)
  BY DEF Latest
<1> QED BY <1>1, <1>2 DEF PipeInv

\* Nothing that matters to writes is sent.
PlainDown(c) ==
  \/ down'[c] = down[c]
  \/ \E s : Longer(down[c], down'[c], s) /\ \A j \in DOMAIN s : s[j].op \notin {"response", "complete"}

LEMMA AnswersKept ==
  ASSUME SessionInv, NEW c \in Iscsi!Conns, Pipe(c)' \subseteq Pipe(c), issued' = issued, waits' = waits,
         disk' = disk, tmf'[c] = tmf[c], PlainDown(c)
  PROVE  ConfirmedInv(c)' /\ ResponseInv(c)'
<1>1. ConfirmedInv(c) /\ ResponseInv(c)
  BY SessionFacts
<1>2. \A i \in DOMAIN down'[c] : down'[c][i].op \in {"response", "complete"} =>
        i \in DOMAIN down[c] /\ down'[c][i] = down[c][i]
  BY DEF PlainDown, Longer
<1>3. \A w : Stored(w)' <=> Stored(w)
  BY DEF Stored
<1>4. ConfirmedInv(c)'
  BY <1>1, <1>2 DEF ConfirmedInv
<1>5. ResponseInv(c)'
  BY <1>1, <1>2, <1>3 DEF ResponseInv
<1> QED BY <1>4, <1>5

\* A step of the target that neither writes nor answers.
LEMMA PlainStep ==
  ASSUME SessionInv, BaseInv', NoResets', NEW c \in Iscsi!Conns, state[c] = "scsi", Elsewhere(c),
         UNCHANGED Iscsi!peerVars, disk' = disk, PlainDown(c), Pipe(c)' \subseteq Pipe(c),
         Ordered(c)', DataInv(c)', TaskInv(c)', ManagedInv(c)'
  PROVE  SessionInv'
<1>1. /\ issued' = issued /\ peer' = peer /\ tmf' = tmf /\ waits' = waits /\ acked' = acked
      /\ aborted' = aborted
  BY DEF Iscsi!peerVars
<1>2. peer[c] # "none" /\ ~Iscsi!Drained(c) /\ IssuedKept
  BY <1>1, SessionFacts, BaseTypes DEF Shape, Iscsi!Drained, IssuedKept
<1>3. \A d \in Iscsi!Conns : d # c => ConnInv(d)'
  BY <1>2, IdleElsewhere
<1>4. OneSession'
  BY <1>1, <1>2, OneSessionKept
<1>5. ConnInv(c)'
  BY <1>1, PipeShrinks, AnswersKept DEF ConnInv
<1>6. WaitsInv'
  BY <1>1, SessionFacts DEF WaitsInv, Latest
<1>7. AckedInv'
  BY <1>1, SessionFacts DEF AckedInv, Latest, Stored
<1> QED BY <1>3, <1>4, <1>5, <1>6, <1>7 DEF SessionInv



---------------------------------------------------------------------------
(* Sessions: steps of the target *)

LEMMA TagsAreDifferent ==
  ASSUME SessionInv, NEW c \in Iscsi!Conns
  PROVE  TagsDiffer(c)
BY SessionFacts DEF Ordered, TagsDiffer

\* The tasks and what is executed stay.
LEMMA QuietStep ==
  ASSUME SessionInv, BaseInv', NoResets', NEW c \in Iscsi!Conns, state[c] = "scsi", Elsewhere(c),
         state'[c] = state[c] \/ state'[c] # "scsi", tasks' = tasks, running' = running, disk' = disk,
         UNCHANGED Iscsi!peerVars, PlainDown(c), NEW k \in Nat, Later(up[c], up'[c], k)
  PROVE  SessionInv'
<1>1. /\ issued' = issued /\ peer' = peer /\ tmf' = tmf /\ waits' = waits
  BY DEF Iscsi!peerVars
<1>2. SomeTasks(c) /\ TagsDiffer(c)'
  BY SessionFacts DEF SomeTasks, TagsDiffer, Ordered
<1>3. Ordered(c)' /\ DataInv(c)' /\ TaskInv(c)' /\ ManagedInv(c)' /\ Pipe(c)' \subseteq Pipe(c)
  BY <1>1, <1>2, Fewer
<1> QED BY <1>3, PlainStep

\* A PDU is read from the connection c.
LEMMA ReadHere ==
  ASSUME SessionInv, NEW c \in Iscsi!Conns, NEW ops, Iscsi!Read(c, ops)
  PROVE  /\ state[c] = "scsi" /\ running[c] = None /\ After(up[c], up'[c]) /\ Later(up[c], up'[c], 1)
         /\ \A d \in Iscsi!Conns : d # c => up'[d] = up[d]
         /\ Head(up[c]) = up[c][1] /\ up[c][1] \in UpPdus /\ up[c][1].op \in ops /\ 1 \in DOMAIN up[c]
<1>1. up \in [Iscsi!Conns -> Seq(UpPdus)]
  BY SessionFacts, BaseTypes
<1> QED BY <1>1, ReadMoves, LaterQueues DEF After

LEMMA HandleUnknownDataSession ==
  ASSUME SessionInv, BaseInv', NoResets', NEW c \in Iscsi!Conns, Iscsi!HandleUnknownData(c) PROVE SessionInv'
<1>1. /\ Iscsi!Read(c, {"data"}) /\ UNCHANGED <<state, tasks, running, exp, disk, down, Iscsi!peerVars>>
  BY DEF Iscsi!HandleUnknownData
<1>2. Elsewhere(c) /\ PlainDown(c) /\ UNCHANGED Iscsi!peerVars /\ state[c] = "scsi" /\ Later(up[c], up'[c], 1)
  BY <1>1, ReadHere DEF Elsewhere, PlainDown, Iscsi!peerVars
<1> QED BY <1>1, <1>2, QuietStep

LEMMA HandlePongSession ==
  ASSUME SessionInv, BaseInv', NoResets', NEW c \in Iscsi!Conns, Iscsi!HandlePong(c) PROVE SessionInv'
<1>1. /\ Iscsi!Read(c, {"pong"}) /\ UNCHANGED <<state, tasks, running, exp, disk, down, Iscsi!peerVars>>
  BY DEF Iscsi!HandlePong
<1>2. Elsewhere(c) /\ PlainDown(c) /\ UNCHANGED Iscsi!peerVars /\ state[c] = "scsi" /\ Later(up[c], up'[c], 1)
  BY <1>1, ReadHere DEF Elsewhere, PlainDown, Iscsi!peerVars
<1> QED BY <1>1, <1>2, QuietStep

LEMMA CloseSession ==
  ASSUME SessionInv, BaseInv', NoResets', NEW c \in Iscsi!Conns, Iscsi!Close(c), state[c] = "scsi" PROVE SessionInv'
<1>1. /\ state' = [state EXCEPT ![c] = "closed"] /\ up' = [up EXCEPT ![c] = <<>>]
      /\ UNCHANGED <<tasks, running, exp, disk, down, Iscsi!peerVars>>
  BY DEF Iscsi!Close
<1>2. /\ state'[c] = "closed" /\ up'[c] = <<>>
      /\ \A d \in Iscsi!Conns : d # c => state'[d] = state[d] /\ up'[d] = up[d]
  BY <1>1, SessionFacts, BaseTypes
<1>3. Elsewhere(c) /\ PlainDown(c) /\ UNCHANGED Iscsi!peerVars /\ Later(up[c], up'[c], 0)
  BY <1>1, <1>2, LaterQueues DEF Elsewhere, PlainDown, Iscsi!peerVars
<1> QED BY <1>1, <1>2, <1>3, QuietStep

\* What is sent is neither a response nor says that writes have ended.
LEMMA SendsPlain ==
  ASSUME SessionInv, NEW c \in Iscsi!Conns, NEW x \in DownPdus, x.op \notin {"response", "complete"}, Iscsi!Send(c, <<x>>)
  PROVE  PlainDown(c) /\ \A d \in Iscsi!Conns : d # c => down'[d] = down[d]
<1>1. <<x>> \in Seq(DownPdus) /\ \A j \in DOMAIN <<x>> : <<x>>[j].op \notin {"response", "complete"}
  BY OnePdu
<1>2. down \in [Iscsi!Conns -> Seq(DownPdus)]
  BY SessionFacts, BaseTypes
<1>3. down'[c] = down[c] \/ Longer(down[c], down'[c], <<x>>)
  BY <1>1, <1>2, SendMoves
<1> QED BY <1>1, <1>2, <1>3, SendMoves DEF PlainDown

LEMMA PingSession ==
  ASSUME SessionInv, BaseInv', NoResets', NEW c \in Iscsi!Conns, Iscsi!Ping(c) PROVE SessionInv'
<1>1. /\ state[c] = "scsi" /\ Iscsi!Send(c, <<[op |-> "ping", tag |-> TmfTag]>>)
      /\ UNCHANGED <<state, tasks, running, exp, disk, up, Iscsi!peerVars>>
  BY DEF Iscsi!Ping
<1>2. PICK x \in DownPdus : x = [op |-> "ping", tag |-> TmfTag]
  BY AnswerPdus
<1>3. PlainDown(c) /\ \A d \in Iscsi!Conns : d # c => down'[d] = down[d]
  BY <1>1, <1>2, SendsPlain
<1>4. Later(up[c], up'[c], 0)
  BY <1>1, SessionFacts, BaseTypes, LaterQueues
<1>5. Elsewhere(c) /\ UNCHANGED Iscsi!peerVars
  BY <1>1, <1>3 DEF Elsewhere, Iscsi!peerVars
<1> QED BY <1>1, <1>3, <1>4, <1>5, QuietStep

\* The next command, and what it leaves in the queue.
LEMMA CommandRead ==
  ASSUME SessionInv, NEW c \in Iscsi!Conns, After(up[c], up'[c]), up[c][1].op = "command"
  PROVE  /\ up[c][1].w \in Pipe(c)
         /\ \A i \in DOMAIN tasks[c] : tasks[c][i].w < up[c][1].w
         /\ \A i \in DOMAIN up'[c] : up'[c][i].op = "command" => up[c][1].w < up'[c][i].w
         /\ \A i \in DOMAIN up'[c] : up'[c][i].op = "data" /\ up'[c][i].tag = up[c][1].tag =>
              up'[c][i].w = up[c][1].w
<1>1. 1 \in DOMAIN up[c]
  BY DEF After
<1>2. Ordered(c) /\ DataInv(c)
  BY SessionFacts
<1>3. up[c][1].w \in Pipe(c)
  BY <1>1, PipeMembers DEF InPipe
<1>4. \A i \in DOMAIN up'[c] : i + 1 \in DOMAIN up[c] /\ up'[c][i] = up[c][i + 1] /\ 1 < i + 1
  BY DEF After
<1>5. \A i \in DOMAIN up'[c] : up'[c][i].op = "command" => up[c][1].w < up'[c][i].w
  BY <1>1, <1>2, <1>4 DEF Ordered
<1>6. \A i \in DOMAIN up'[c] : up'[c][i].op = "data" /\ up'[c][i].tag = up[c][1].tag =>
        up'[c][i].w = up[c][1].w
  BY <1>1, <1>2, <1>4 DEF DataInv
<1> QED BY <1>1, <1>2, <1>3, <1>5, <1>6 DEF Ordered

\* What is left of the queue, of the tasks that there were.
LEMMA RestOfQueue ==
  ASSUME SessionInv, NEW c \in Iscsi!Conns, After(up[c], up'[c]), issued' = issued, waits' = waits,
         tmf'[c] = tmf[c], peer'[c] = peer[c]
  PROVE  /\ \A i, j \in DOMAIN up'[c] :
              up'[c][i].op = "command" /\ up'[c][j].op = "command" /\ i < j => up'[c][i].w < up'[c][j].w
         /\ \A i \in DOMAIN up'[c] : up'[c][i].op = "command" =>
              \A j \in DOMAIN tasks[c] : tasks[c][j].w < up'[c][i].w
         /\ \A i \in DOMAIN up'[c] : up'[c][i].op = "data" =>
              /\ \A j \in DOMAIN tasks[c] : tasks[c][j].tag = up'[c][i].tag => tasks[c][j].w = up'[c][i].w
              /\ \A j \in DOMAIN up'[c] :
                   j < i /\ up'[c][j].op = "command" /\ up'[c][j].tag = up'[c][i].tag => up'[c][j].w = up'[c][i].w
         /\ ManagedInv(c)'
         /\ \A i \in DOMAIN up'[c] : up'[c][i].op = "command" => up'[c][i].w \in Pipe(c)
<1>1. \A i \in DOMAIN up'[c] : i \in Nat /\ i + 1 \in DOMAIN up[c] /\ up'[c][i] = up[c][i + 1]
  BY DEF After
<1>2. Ordered(c) /\ DataInv(c) /\ ManagedInv(c)
  BY SessionFacts
<1>3. ASSUME NEW i \in DOMAIN up'[c], NEW j \in DOMAIN up'[c],
             up'[c][i].op = "command", up'[c][j].op = "command", i < j
      PROVE  up'[c][i].w < up'[c][j].w
  <2>1. i + 1 < j + 1
    BY <1>1, <1>3
  <2> QED BY <1>1, <1>2, <1>3, <2>1 DEF Ordered
<1>4. ASSUME NEW i \in DOMAIN up'[c], up'[c][i].op = "command", NEW j \in DOMAIN tasks[c]
      PROVE  tasks[c][j].w < up'[c][i].w
  BY <1>1, <1>2, <1>4 DEF Ordered
<1>5. ASSUME NEW i \in DOMAIN up'[c], up'[c][i].op = "data"
      PROVE  /\ \A j \in DOMAIN tasks[c] : tasks[c][j].tag = up'[c][i].tag => tasks[c][j].w = up'[c][i].w
             /\ \A j \in DOMAIN up'[c] :
                  j < i /\ up'[c][j].op = "command" /\ up'[c][j].tag = up'[c][i].tag => up'[c][j].w = up'[c][i].w
  <2>1. \A j \in DOMAIN tasks[c] : tasks[c][j].tag = up'[c][i].tag => tasks[c][j].w = up'[c][i].w
    BY <1>1, <1>2, <1>5 DEF DataInv
  <2>2. ASSUME NEW j \in DOMAIN up'[c], j < i, up'[c][j].op = "command", up'[c][j].tag = up'[c][i].tag
        PROVE  up'[c][j].w = up'[c][i].w
    <3>1. j + 1 < i + 1
      BY <1>1, <2>2
    <3> QED BY <1>1, <1>2, <1>5, <2>2, <3>1 DEF DataInv
  <2> QED BY <2>1, <2>2
<1>6. ManagedInv(c)'
  <2>1. ASSUME peer'[c] = "open", NEW i \in DOMAIN up'[c], up'[c][i].op = "abort"
        PROVE \E v \in DOMAIN issued' :
                /\ tmf'[c] = {v} /\ issued'[v].tag = up'[c][i].tag
                /\ \A x \in waits' : issued'[x].conn = c /\ issued'[x].tag = up'[c][i].tag => x = v
    BY <1>1, <1>2, <2>1 DEF ManagedInv
  <2> QED BY <2>1 DEF ManagedInv
<1>7. \A i \in DOMAIN up'[c] : up'[c][i].op = "command" => up'[c][i].w \in Pipe(c)
  BY <1>1, PipeMembers DEF InPipe
<1> QED BY <1>3, <1>4, <1>5, <1>6, <1>7



\* A command is read that makes the task t.
LEMMA CommandTask ==
  ASSUME SessionInv, NEW c \in Iscsi!Conns, Iscsi!Read(c, {"command"}), NEW t, t = Iscsi!Task(up[c][1].w, up[c][1].sn, up[c][1].tag)
  PROVE  /\ t \in PendingTasks /\ t.w = up[c][1].w /\ t.tag = up[c][1].tag /\ t.offset = 1 /\ t.w \in Nat
         /\ t.left \in Nat /\ t.left = issued[t.w].len - 1 /\ DOMAIN t.data = 1 .. issued[t.w].len
         /\ issued[t.w].len \in Nat /\ t.data[1] = t.w
         /\ Of(t.w, c, t.tag)
<1>1. PICK pdu : pdu = up[c][1]
  OBVIOUS
<1>2. After(up[c], up'[c]) /\ pdu \in UpPdus /\ pdu.op = "command" /\ 1 \in DOMAIN up[c]
  BY <1>1, ReadHere
<1>3. BaseInv /\ FitsUp(c)
  BY SessionFacts, BaseTypes
<1>4. Of(pdu.w, c, pdu.tag) /\ pdu.sn \in Nat /\ pdu.tag \in Tags
  BY <1>1, <1>2, <1>3, UpTypes DEF FitsUp
<1>5. pdu.w \in DOMAIN issued /\ issued[pdu.w].len \in Nat /\ pdu.w \in Nat
  BY <1>3, <1>4, BaseTypes, TheIssued DEF Of
<1>6. /\ t \in PendingTasks /\ t.w = pdu.w /\ t.tag = pdu.tag /\ t.offset = 1
      /\ t.left = issued[pdu.w].len - 1 /\ t.left \in Nat /\ DOMAIN t.data = 1 .. issued[pdu.w].len
      /\ t.data[1] = pdu.w
  BY <1>1, <1>3, <1>4, <1>5, BaseTypes, NewTask
<1> QED BY <1>1, <1>4, <1>5, <1>6

LEMMA HandleLongWriteSession ==
  ASSUME SessionInv, BaseInv', NoResets', NEW c \in Iscsi!Conns, Iscsi!HandleLongWrite(c) PROVE SessionInv'
<1>1. PICK pdu : pdu = up[c][1]
  OBVIOUS
<1>2. /\ Iscsi!Read(c, {"command"}) /\ Head(up[c]) = pdu /\ pdu.op = "command" /\ After(up[c], up'[c])
      /\ state[c] = "scsi" /\ running[c] = None
      /\ \A d \in Iscsi!Conns : d # c => up'[d] = up[d]
  BY <1>1, ReadHere DEF Iscsi!HandleLongWrite
<1>3. PICK t : t = Iscsi!Task(pdu.w, pdu.sn, pdu.tag)
  OBVIOUS
<1>4. /\ t \in PendingTasks /\ t.w = pdu.w /\ t.tag = pdu.tag /\ t.offset = 1 /\ t.w \in Nat
      /\ t.left \in Nat /\ t.left = issued[t.w].len - 1 /\ issued[t.w].len \in Nat /\ t.data[1] = t.w
      /\ Of(t.w, c, t.tag)
  BY <1>1, <1>2, <1>3, CommandTask
<1>5. /\ exp' = [exp EXCEPT ![c] = exp[c] + 1]
      /\ tasks' = [tasks EXCEPT ![c] = Append(tasks[c], t)] /\ Iscsi!Send(c, <<Iscsi!Ready(t)>>)
      /\ UNCHANGED <<state, running, disk, Iscsi!peerVars>>
  BY <1>2, <1>3 DEF Iscsi!HandleLongWrite, Iscsi!Expect
<1>6. issued' = issued /\ waits' = waits /\ peer' = peer /\ tmf' = tmf /\ UNCHANGED Iscsi!peerVars
  BY <1>5 DEF Iscsi!peerVars
<1>7. Iscsi!Ready(t) \in DownPdus /\ Iscsi!Ready(t).op \notin {"response", "complete"}
  BY <1>4, ReadyPdu
<1>8. PlainDown(c) /\ \A d \in Iscsi!Conns : d # c => down'[d] = down[d]
  BY <1>5, <1>7, SendsPlain
<1>9. BaseInv
  BY SessionFacts
<1>10. Elsewhere(c)
  BY <1>2, <1>5, <1>6, <1>8, <1>9, BaseTypes DEF Elsewhere
<1>11. \A i \in DOMAIN tasks'[c] :
         \/ i \in DOMAIN tasks[c] /\ tasks'[c][i] = tasks[c][i]
         \/ i = Len(tasks[c]) + 1 /\ tasks'[c][i] = t
  <2>1. Longer(tasks[c], tasks'[c], <<t>>)
    BY <1>4, <1>5, <1>9, BaseTypes, AppendOfSeq
  <2> QED BY <2>1, OnePdu DEF Longer
<1>12. /\ \A i \in DOMAIN tasks[c] : tasks[c][i].w < t.w
       /\ \A i \in DOMAIN up'[c] : up'[c][i].op = "command" => t.w < up'[c][i].w
       /\ \A i \in DOMAIN up'[c] : up'[c][i].op = "data" /\ up'[c][i].tag = t.tag => up'[c][i].w = t.w
       /\ t.w \in Pipe(c)
  BY <1>1, <1>2, <1>4, CommandRead
\* the pending tasks have other tags
<1>13. \A i \in DOMAIN tasks[c] : tasks[c][i].tag # t.tag /\ tasks[c][i].w \in Pipe(c)
  <2>1. ASSUME NEW i \in DOMAIN tasks[c] PROVE tasks[c][i].tag # t.tag /\ tasks[c][i].w \in Pipe(c)
    <3>1. tasks[c][i].w \in Pipe(c)
      BY <1>2, PipeMembers DEF InPipe
    <3>2. tasks[c][i] \in PendingTasks
      BY <1>9, BaseTypes, ElementOfSeq
    <3>3. tasks[c][i].w < t.w /\ tasks[c][i].w \in Nat
      BY <1>12, <3>2, TaskTypes, Consts
    <3>4. issued[tasks[c][i].w].tag = tasks[c][i].tag /\ issued[t.w].tag = t.tag
      BY <1>4, <1>9, BaseTypes DEF FitsTasks, FitsTask, Of
    <3>5. PipeInv(c)
      BY SessionFacts
    <3> QED BY <1>4, <1>12, <3>1, <3>3, <3>4, <3>5 DEF PipeInv
  <2> QED BY <2>1
<1>14. Ordered(c)'
  <2>1. \A i, j \in DOMAIN tasks'[c] : tasks'[c][i].tag = tasks'[c][j].tag => i = j
    BY <1>11, <1>13, SessionFacts DEF Ordered
  <2>2. \A i \in DOMAIN up'[c] : up'[c][i].op = "command" =>
          \A j \in DOMAIN tasks'[c] : tasks'[c][j].w < up'[c][i].w
    BY <1>2, <1>6, <1>11, <1>12, RestOfQueue
  <2>3. \A i, j \in DOMAIN up'[c] :
          up'[c][i].op = "command" /\ up'[c][j].op = "command" /\ i < j => up'[c][i].w < up'[c][j].w
    BY <1>2, <1>6, RestOfQueue
  <2>4. running'[c] = None
    BY <1>2, <1>5
  <2> QED BY <2>1, <2>2, <2>3, <2>4 DEF Ordered
<1>15. DataInv(c)'
  <2>1. \A i \in DOMAIN up'[c] : up'[c][i].op = "data" =>
          /\ \A j \in DOMAIN tasks[c] : tasks[c][j].tag = up'[c][i].tag => tasks[c][j].w = up'[c][i].w
          /\ \A j \in DOMAIN up'[c] :
               j < i /\ up'[c][j].op = "command" /\ up'[c][j].tag = up'[c][i].tag => up'[c][j].w = up'[c][i].w
    BY <1>2, <1>6, RestOfQueue
  <2>2. \A i \in DOMAIN up'[c] : up'[c][i].op = "data" =>
          \A j \in DOMAIN tasks'[c] : tasks'[c][j].tag = up'[c][i].tag => tasks'[c][j].w = up'[c][i].w
    BY <1>11, <1>12, <2>1
  <2> QED BY <2>1, <2>2 DEF DataInv
<1>16. TaskInv(c)'
  <2>1. Filled(t, issued[t.w].len)
    BY <1>4 DEF Filled
  <2>2. \A i \in DOMAIN tasks'[c] : Filled(tasks'[c][i], issued[tasks'[c][i].w].len)
    BY <1>11, <2>1, SessionFacts DEF TaskInv
  <2> QED BY <1>2, <1>5, <1>6, <2>2 DEF TaskInv
<1>17. Pipe(c)' \subseteq Pipe(c)
  <2>1. ASSUME NEW w \in Pipe(c)' PROVE w \in Pipe(c)
    <3>1. InPipe(w, up'[c], tasks'[c], running'[c], state'[c])
      BY PipeMembers
    <3>2. running'[c] = None
      BY <1>2, <1>5
    <3>3. \A i \in DOMAIN up'[c] : up'[c][i].op = "command" => up'[c][i].w \in Pipe(c)
      BY <1>2, <1>6, RestOfQueue
    <3> QED BY <1>11, <1>12, <1>13, <3>1, <3>2, <3>3 DEF InPipe
  <2> QED BY <2>1
<1>18. ManagedInv(c)'
  BY <1>2, <1>6, RestOfQueue
<1> QED BY <1>2, <1>5, <1>6, <1>8, <1>10, <1>14, <1>15, <1>16, <1>17, <1>18, PlainStep

LEMMA HandleShortWriteSession ==
  ASSUME SessionInv, BaseInv', NoResets', NEW c \in Iscsi!Conns, Iscsi!HandleShortWrite(c) PROVE SessionInv'
<1>1. PICK pdu : pdu = up[c][1]
  OBVIOUS
<1>2. /\ Iscsi!Read(c, {"command"}) /\ Head(up[c]) = pdu /\ pdu.op = "command" /\ After(up[c], up'[c])
      /\ state[c] = "scsi" /\ running[c] = None
      /\ \A d \in Iscsi!Conns : d # c => up'[d] = up[d]
  BY <1>1, ReadHere DEF Iscsi!HandleShortWrite
<1>3. PICK t : t = Iscsi!Task(pdu.w, pdu.sn, pdu.tag)
  OBVIOUS
<1>4. /\ t \in PendingTasks /\ t.w = pdu.w /\ t.w \in Nat
      /\ t.left \in Nat /\ t.left = issued[t.w].len - 1 /\ DOMAIN t.data = 1 .. issued[t.w].len
      /\ issued[t.w].len \in Nat /\ t.data[1] = t.w
  BY <1>1, <1>2, <1>3, CommandTask
<1>5. /\ exp' = [exp EXCEPT ![c] = pdu.sn + 1] /\ t.left = 0
      /\ running' = [running EXCEPT ![c] = t]
      /\ UNCHANGED <<state, tasks, disk, down, Iscsi!peerVars>>
  BY <1>2, <1>3 DEF Iscsi!HandleShortWrite, Iscsi!Expect
<1>6. issued' = issued /\ waits' = waits /\ peer' = peer /\ tmf' = tmf /\ UNCHANGED Iscsi!peerVars
  BY <1>5 DEF Iscsi!peerVars
<1>9. BaseInv
  BY SessionFacts
<1>10. Elsewhere(c) /\ PlainDown(c) /\ running'[c] = t
  BY <1>2, <1>5, <1>6, <1>9, BaseTypes DEF Elsewhere, PlainDown
<1>12. /\ \A i \in DOMAIN up'[c] : up'[c][i].op = "command" => t.w < up'[c][i].w
       /\ t.w \in Pipe(c)
  BY <1>1, <1>2, <1>4, CommandRead
<1>13. \A i \in DOMAIN tasks[c] : tasks[c][i].w \in Pipe(c)
  BY <1>2, PipeMembers DEF InPipe
<1>14. Ordered(c)'
  <2>1. \A i, j \in DOMAIN tasks[c] : tasks[c][i].tag = tasks[c][j].tag => i = j
    BY SessionFacts DEF Ordered
  <2>2. /\ \A i, j \in DOMAIN up'[c] :
             up'[c][i].op = "command" /\ up'[c][j].op = "command" /\ i < j => up'[c][i].w < up'[c][j].w
        /\ \A i \in DOMAIN up'[c] : up'[c][i].op = "command" =>
             \A j \in DOMAIN tasks[c] : tasks[c][j].w < up'[c][i].w
    BY <1>2, <1>6, RestOfQueue
  <2> QED BY <1>5, <1>10, <1>12, <2>1, <2>2 DEF Ordered
<1>15. DataInv(c)'
  <2>1. \A i \in DOMAIN up'[c] : up'[c][i].op = "data" =>
          /\ \A j \in DOMAIN tasks[c] : tasks[c][j].tag = up'[c][i].tag => tasks[c][j].w = up'[c][i].w
          /\ \A j \in DOMAIN up'[c] :
               j < i /\ up'[c][j].op = "command" /\ up'[c][j].tag = up'[c][i].tag => up'[c][j].w = up'[c][i].w
    BY <1>2, <1>6, RestOfQueue
  <2> QED BY <1>5, <2>1 DEF DataInv
<1>16. TaskInv(c)'
  <2>1. \A p \in DOMAIN t.data : t.data[p] = t.w
    BY <1>4, <1>5
  <2>2. \A i \in DOMAIN tasks[c] : Filled(tasks[c][i], issued[tasks[c][i].w].len)
    BY SessionFacts DEF TaskInv
  <2> QED BY <1>5, <1>6, <1>10, <2>1, <2>2 DEF TaskInv
<1>17. Pipe(c)' \subseteq Pipe(c)
  <2>1. ASSUME NEW w \in Pipe(c)' PROVE w \in Pipe(c)
    <3>1. InPipe(w, up'[c], tasks'[c], running'[c], state'[c])
      BY PipeMembers
    <3>3. \A i \in DOMAIN up'[c] : up'[c][i].op = "command" => up'[c][i].w \in Pipe(c)
      BY <1>2, <1>6, RestOfQueue
    <3> QED BY <1>5, <1>10, <1>12, <1>13, <3>1, <3>3 DEF InPipe
  <2> QED BY <2>1
<1>18. ManagedInv(c)'
  BY <1>2, <1>6, RestOfQueue
<1> QED BY <1>2, <1>5, <1>6, <1>10, <1>14, <1>15, <1>16, <1>17, <1>18, PlainStep



\* The task that data is for gets data of its own write.
LEMMA FillingFits ==
  ASSUME SessionInv, NEW c \in Iscsi!Conns, NEW i \in DOMAIN tasks[c], NEW u \in PendingTasks, Filling(c, i, u),
         1 \in DOMAIN up[c], up[c][1].op = "data"
  PROVE  /\ u.w = tasks[c][i].w /\ u.tag = tasks[c][i].tag /\ Filled(u, issued[u.w].len)
         /\ DOMAIN u.data = 1 .. issued[u.w].len
         /\ u.left = 0 => \A p \in DOMAIN u.data : u.data[p] = u.w
<1>1. PICK t \in PendingTasks : t = tasks[c][i]
  BY SessionFacts, BaseTypes, ElementOfSeq
<1>2. /\ t.tag = up[c][1].tag /\ u.w = t.w /\ u.tag = t.tag /\ u.offset = t.offset + 1
      /\ u.left = IF t.left > 0 THEN t.left - 1 ELSE 0
      /\ DOMAIN u.data = DOMAIN t.data
      /\ \A p \in DOMAIN t.data : u.data[p] = IF p = t.offset + 1 THEN up[c][1].w ELSE t.data[p]
  BY <1>1 DEF Filling
<1>3. t.w = up[c][1].w
  BY <1>1, <1>2, SessionFacts DEF DataInv
<1>4. PICK n : n = issued[t.w].len
  OBVIOUS
<1>5. n \in Nat /\ DOMAIN t.data = 1 .. n
  <2>1. FitsTasks(c) /\ issued \in Seq(Writes)
    BY SessionFacts, BaseTypes
  <2>2. FitsTask(c, t)
    BY <1>1, <2>1 DEF FitsTasks
  <2> QED BY <1>4, <2>1, <2>2, TheIssued DEF FitsTask, Of
<1>6. t.offset \in Nat /\ t.left \in Nat /\ t.offset + t.left >= n
      /\ \A p \in 1 .. n : p <= t.offset => t.data[p] = t.w
  BY <1>1, <1>4, SessionFacts DEF TaskInv, Filled
<1>7. u.offset \in Nat /\ u.left \in Nat /\ u.offset + u.left >= n
  BY <1>2, <1>5, <1>6
<1>8. ASSUME NEW p \in 1 .. n, p <= u.offset PROVE u.data[p] = u.w
  <2>1. p \in DOMAIN t.data /\ u.data[p] = IF p = t.offset + 1 THEN up[c][1].w ELSE t.data[p]
    BY <1>2, <1>5
  <2>2. p \in Nat /\ (p = t.offset + 1 \/ (p # t.offset + 1 /\ p <= t.offset))
    BY <1>2, <1>5, <1>6, <1>8
  <2>3. p <= t.offset => t.data[p] = t.w
    BY <1>6
  <2> QED BY <1>2, <1>3, <2>1, <2>2, <2>3
<1>9. u.left = 0 => \A p \in 1 .. n : p <= u.offset
  BY <1>5, <1>7
<1> QED BY <1>1, <1>2, <1>4, <1>5, <1>7, <1>8, <1>9 DEF Filled

LEMMA HandleDataSession ==
  ASSUME SessionInv, BaseInv', NoResets', NEW c \in Iscsi!Conns, Iscsi!HandleData(c) PROVE SessionInv'
<1>0. BaseInv
  BY SessionFacts
<1>1. /\ Iscsi!Read(c, {"data"}) /\ UNCHANGED <<state, exp, disk, Iscsi!peerVars>>
  BY DEF Iscsi!HandleData
<1>2. /\ up[c][1].op = "data" /\ After(up[c], up'[c]) /\ 1 \in DOMAIN up[c]
      /\ state[c] = "scsi" /\ running[c] = None /\ Later(up[c], up'[c], 1)
      /\ \A d \in Iscsi!Conns : d # c => up'[d] = up[d]
  BY <1>1, ReadHere
<1>3. PICK i \in DOMAIN tasks[c], u \in PendingTasks : Filling(c, i, u)
  BY <1>0, DataMoves
<1>4. /\ tasks'[c] = [tasks[c] EXCEPT ![i] = u] /\ tasks' = [tasks EXCEPT ![c] = tasks'[c]]
      /\ \/ running' = running /\ down' = down
         \/ running' = running /\ Iscsi!Send(c, <<Iscsi!Ready(u)>>)
         \/ running' = [running EXCEPT ![c] = u] /\ u.left = 0 /\ down' = down
  BY <1>3 DEF Filling
<1>5. /\ u.w = tasks[c][i].w /\ u.tag = tasks[c][i].tag /\ Filled(u, issued[u.w].len)
      /\ u.left = 0 => \A p \in DOMAIN u.data : u.data[p] = u.w
  BY <1>2, <1>3, FillingFits
<1>6. issued' = issued /\ waits' = waits /\ peer' = peer /\ tmf' = tmf /\ UNCHANGED Iscsi!peerVars
  BY <1>1 DEF Iscsi!peerVars
<1>7. PlainDown(c) /\ \A d \in Iscsi!Conns : d # c => down'[d] = down[d]
  <2>1. Iscsi!Ready(u) \in DownPdus /\ Iscsi!Ready(u).op \notin {"response", "complete"}
    BY ReadyPdu
  <2> QED BY <1>4, <2>1, SendsPlain DEF PlainDown
<1>8. /\ DOMAIN tasks'[c] = DOMAIN tasks[c] /\ tasks'[c][i] = u
      /\ \A j \in DOMAIN tasks[c] : j # i => tasks'[c][j] = tasks[c][j]
      /\ \A d \in Iscsi!Conns : d # c => tasks'[d] = tasks[d] /\ running'[d] = running[d]
  BY <1>0, <1>4, BaseTypes, OneReplaced
<1>9. Elsewhere(c)
  BY <1>1, <1>2, <1>6, <1>7, <1>8 DEF Elsewhere
<1>10. running'[c] = None \/ (running'[c] = u /\ u.left = 0)
  BY <1>0, <1>2, <1>4, BaseTypes
<1>11. \A j \in DOMAIN tasks[c] : tasks'[c][j].w = tasks[c][j].w /\ tasks'[c][j].tag = tasks[c][j].tag
  BY <1>5, <1>8
<1>12. Ordered(c)'
  <2>1. \A k, j \in DOMAIN tasks[c] : tasks[c][k].tag = tasks[c][j].tag => k = j
    BY SessionFacts DEF Ordered
  <2>2. /\ \A k, j \in DOMAIN up'[c] :
             up'[c][k].op = "command" /\ up'[c][j].op = "command" /\ k < j => up'[c][k].w < up'[c][j].w
        /\ \A k \in DOMAIN up'[c] : up'[c][k].op = "command" =>
             \A j \in DOMAIN tasks[c] : tasks[c][j].w < up'[c][k].w
    BY <1>2, <1>6, RestOfQueue
  <2> QED BY <1>5, <1>8, <1>10, <1>11, <2>1, <2>2 DEF Ordered
<1>13. DataInv(c)'
  <2>1. \A k \in DOMAIN up'[c] : up'[c][k].op = "data" =>
          /\ \A j \in DOMAIN tasks[c] : tasks[c][j].tag = up'[c][k].tag => tasks[c][j].w = up'[c][k].w
          /\ \A j \in DOMAIN up'[c] :
               j < k /\ up'[c][j].op = "command" /\ up'[c][j].tag = up'[c][k].tag => up'[c][j].w = up'[c][k].w
    BY <1>2, <1>6, RestOfQueue
  <2> QED BY <1>8, <1>11, <2>1 DEF DataInv
<1>14. TaskInv(c)'
  <2>1. \A j \in DOMAIN tasks'[c] : Filled(tasks'[c][j], issued[tasks'[c][j].w].len)
    BY <1>5, <1>8, SessionFacts DEF TaskInv
  <2> QED BY <1>5, <1>6, <1>10, <2>1 DEF TaskInv
<1>15. Pipe(c)' \subseteq Pipe(c)
  <2>1. ASSUME NEW w \in Pipe(c)' PROVE w \in Pipe(c)
    <3>1. InPipe(w, up'[c], tasks'[c], running'[c], state'[c])
      BY PipeMembers
    <3>2. \A j \in DOMAIN up'[c] : up'[c][j].op = "command" => up'[c][j].w \in Pipe(c)
      BY <1>2, <1>6, RestOfQueue
    <3>3. \A j \in DOMAIN tasks[c] : tasks[c][j].w \in Pipe(c)
      BY <1>2, PipeMembers DEF InPipe
    <3> QED BY <1>5, <1>8, <1>10, <1>11, <3>1, <3>2, <3>3 DEF InPipe
  <2> QED BY <2>1
<1>16. ManagedInv(c)'
  BY <1>2, <1>6, RestOfQueue
<1> QED BY <1>1, <1>2, <1>6, <1>7, <1>9, <1>12, <1>13, <1>14, <1>15, <1>16, PlainStep

\* A step of the target that answers.
LEMMA AnswerStep ==
  ASSUME SessionInv, BaseInv', NoResets', NEW c \in Iscsi!Conns, ~Iscsi!Drained(c), peer[c] # "none", Elsewhere(c),
         UNCHANGED Iscsi!peerVars, Pipe(c)' \subseteq Pipe(c),
         Ordered(c)', DataInv(c)', TaskInv(c)', ManagedInv(c)', ConfirmedInv(c)', ResponseInv(c)', AckedInv'
  PROVE  SessionInv'
<1>1. /\ issued' = issued /\ peer' = peer /\ tmf' = tmf /\ waits' = waits /\ acked' = acked
      /\ aborted' = aborted
  BY DEF Iscsi!peerVars
<1>2. IssuedKept
  BY <1>1 DEF IssuedKept
<1>3. \A d \in Iscsi!Conns : d # c => ConnInv(d)'
  BY <1>2, IdleElsewhere
<1>4. OneSession'
  BY <1>1, <1>2, OneSessionKept
<1>5. ConnInv(c)'
  BY <1>1, PipeShrinks DEF ConnInv
<1>6. WaitsInv'
  BY <1>1, SessionFacts DEF WaitsInv, Latest
<1> QED BY <1>3, <1>4, <1>5, <1>6 DEF SessionInv



\* An abort is read: the write v, which alone has the tag, is the one that it ends.
LEMMA AbortRead ==
  ASSUME SessionInv, NEW c \in Iscsi!Conns, After(up[c], up'[c]), up[c][1] \in UpPdus, up[c][1].op = "abort",
         NEW g, g = up[c][1].tag, state[c] = "scsi", peer[c] = "open", Iscsi!WithTag(c, g) # {}
  PROVE  \E v \in waits :
           /\ tmf[c] = {v} /\ issued[v].tag = g /\ issued[v].conn = c /\ g # TmfTag
           /\ \A x \in waits : issued[x].conn = c /\ issued[x].tag = g => x = v
           /\ \E k \in DOMAIN tasks[c] : tasks[c][k].w = v
<1>1. 1 \in DOMAIN up[c]
  BY DEF After
<1>2. PICK v \in DOMAIN issued :
        /\ tmf[c] = {v} /\ issued[v].tag = g
        /\ \A x \in waits : issued[x].conn = c /\ issued[x].tag = g => x = v
  BY <1>1, SessionFacts DEF ManagedInv
<1>3. PICK k \in DOMAIN tasks[c] : tasks[c][k].tag = g
  BY DEF Iscsi!WithTag
<1>4. PICK x : x = tasks[c][k].w
  OBVIOUS
<1>5. x \in Pipe(c)
  BY <1>3, <1>4, PipeMembers DEF InPipe
<1>6. x \in waits /\ issued[x].conn = c
  BY <1>5, PipeIssued
<1>7. issued[x].tag = g
  BY <1>3, <1>4, SessionFacts, BaseTypes DEF FitsTasks, FitsTask, Of
<1>8. x = v
  BY <1>2, <1>6, <1>7
<1>9. g # TmfTag
  BY <1>6, <1>7, SessionFacts
<1> QED BY <1>2, <1>3, <1>4, <1>6, <1>8, <1>9

\* What is sent at the end of the queue, if it is sent.
LEMMA TwoSent ==
  ASSUME NEW q, NEW r, NEW x, NEW y, Longer(q, r, <<x, y>>)
  PROVE  /\ \A i \in DOMAIN q : i \in DOMAIN r /\ r[i] = q[i] /\ i \in 1 .. Len(q)
         /\ Len(q) \in Nat
         /\ \A i \in DOMAIN r : \/ i \in DOMAIN q /\ r[i] = q[i]
                                \/ i = Len(q) + 1 /\ r[i] = x
                                \/ i = Len(q) + 2 /\ r[i] = y
<1>1. DOMAIN <<x, y>> = {1, 2} /\ <<x, y>>[1] = x /\ <<x, y>>[2] = y
  BY OnePdu
<1>2. \A i \in DOMAIN q : i \in DOMAIN r /\ r[i] = q[i] /\ i \in 1 .. Len(q)
  BY DEF Longer
<1>3. ASSUME NEW i \in DOMAIN r, i \notin DOMAIN q
      PROVE  (i = Len(q) + 1 /\ r[i] = x) \/ (i = Len(q) + 2 /\ r[i] = y)
  <2>1. PICK j \in DOMAIN <<x, y>> : i = Len(q) + j /\ r[i] = <<x, y>>[j]
    BY <1>3 DEF Longer
  <2> QED BY <1>1, <2>1
<1> QED BY <1>2, <1>3 DEF Longer

LEMMA OneSent ==
  ASSUME NEW q, NEW r, NEW x, Longer(q, r, <<x>>)
  PROVE  /\ \A i \in DOMAIN q : i \in DOMAIN r /\ r[i] = q[i] /\ i \in 1 .. Len(q)
         /\ Len(q) \in Nat
         /\ \A i \in DOMAIN r : \/ i \in DOMAIN q /\ r[i] = q[i]
                                \/ i = Len(q) + 1 /\ r[i] = x
<1>1. DOMAIN <<x>> = {1} /\ <<x>>[1] = x
  BY OnePdu
<1>2. ASSUME NEW i \in DOMAIN r, i \notin DOMAIN q PROVE i = Len(q) + 1 /\ r[i] = x
  <2>1. PICK j \in DOMAIN <<x>> : i = Len(q) + j /\ r[i] = <<x>>[j]
    BY <1>2 DEF Longer
  <2> QED BY <1>1, <2>1
<1> QED BY <1>2 DEF Longer

LEMMA AbortAnswers ==
  ASSUME SessionInv, NEW c \in Iscsi!Conns, Iscsi!HandleAbort(c), Pipe(c)' \subseteq Pipe(c)
  PROVE  ConfirmedInv(c)' /\ ResponseInv(c)'
<1>1. /\ Iscsi!Read(c, {"abort"}) /\ Iscsi!Send(c, AbortAnswer(c)) /\ AbortAnswer(c) \in Seq(DownPdus)
      /\ tasks' = [tasks EXCEPT ![c] = Iscsi!RemoveByTag(c, up[c][1].tag)] /\ Head(up[c]) = up[c][1]
      /\ UNCHANGED <<state, nexus, reads, running, exp, disk, Iscsi!peerVars>>
  BY SessionFacts, HandleAbortMoves
<1>2. /\ up[c][1].op = "abort" /\ up[c][1] \in UpPdus /\ After(up[c], up'[c])
      /\ state[c] = "scsi" /\ running[c] = None
  BY <1>1, ReadHere
<1>3. issued' = issued /\ waits' = waits /\ tmf' = tmf /\ disk' = disk /\ running' = running
  BY <1>1 DEF Iscsi!peerVars
<1>4. PICK g : g = up[c][1].tag
  OBVIOUS
<1>5. down'[c] = down[c] \/ (peer[c] = "open" /\ Longer(down[c], down'[c], AbortAnswer(c)))
  BY <1>1, SessionFacts, BaseTypes, SendMoves
<1>6. CASE down'[c] = down[c]
  BY <1>3, <1>6, AnswersKept DEF PlainDown
<1>7. CASE Iscsi!WithTag(c, g) = {}
  <2>1. PICK x \in DownPdus : x = [op |-> "no task", tag |-> TmfTag]
    BY AnswerPdus
  <2>2. AbortAnswer(c) = <<x>>
    BY <1>1, <1>4, <1>7, <2>1 DEF AbortAnswer
  <2>3. PlainDown(c)
    BY <1>1, <2>1, <2>2, SendsPlain
  <2> QED BY <1>3, <2>3, AnswersKept
<1>8. CASE down'[c] # down[c] /\ Iscsi!WithTag(c, g) # {}
  <2>1. peer[c] = "open"
    BY <1>5, <1>8
  <2>2. PICK v \in waits :
           /\ tmf[c] = {v} /\ issued[v].tag = g /\ issued[v].conn = c /\ g # TmfTag
           /\ \A x \in waits : issued[x].conn = c /\ issued[x].tag = g => x = v
           /\ \E k \in DOMAIN tasks[c] : tasks[c][k].w = v
    BY <1>2, <1>4, <1>8, <2>1, AbortRead
  <2>3. PICK k \in DOMAIN tasks[c] : tasks[c][k].w = v
    BY <2>2
  <2>4. v \in Pipe(c)
    BY <1>2, <2>3, PipeMembers DEF InPipe
  <2>5. PICK x \in DownPdus : x = [op |-> "response", tag |-> TmfTag]
    BY AnswerPdus
  <2>6. PICK y \in DownPdus : y = [op |-> "complete", tag |-> TmfTag]
    BY AnswerPdus
  <2>7. AbortAnswer(c) = <<x, y>>
    BY <1>1, <1>4, <1>8, <2>5, <2>6 DEF AbortAnswer
  <2>8. /\ \A i \in DOMAIN down[c] : i \in DOMAIN down'[c] /\ down'[c][i] = down[c][i]
        /\ \A i \in DOMAIN down'[c] : \/ i \in DOMAIN down[c] /\ down'[c][i] = down[c][i]
                                      \/ down'[c][i] = x
                                      \/ down'[c][i] = y
    BY <1>5, <1>8, <2>7, TwoSent
  <2>9. \A i \in DOMAIN down'[c] :
          down'[c][i].op = "response" =>
            \/ i \in DOMAIN down[c] /\ down'[c][i] = down[c][i]
            \/ down'[c][i].tag = TmfTag
    BY <2>5, <2>6, <2>8
  \* no response for v is on the way: it is among the tasks
  <2>10. \A i \in DOMAIN down[c] : down[c][i].op = "response" => down[c][i].tag # g
    <3>1. ASSUME NEW i \in DOMAIN down[c], down[c][i].op = "response", down[c][i].tag = g PROVE FALSE
      <4>1. PICK u \in waits : issued[u].conn = c /\ issued[u].tag = g /\ u \notin Pipe(c)
        BY <2>2, <3>1, SessionFacts DEF ResponseInv
      <4> QED BY <2>2, <2>4, <4>1
    <3> QED BY <3>1
  <2>11. v \notin Pipe(c)'
    <3>1. tasks'[c] = Iscsi!RemoveByTag(c, g) /\ tasks \in [Iscsi!Conns -> Seq(PendingTasks)]
      BY <1>1, <1>4, SessionFacts, BaseTypes
    <3>2. /\ \A i \in DOMAIN tasks'[c] : \E j \in DOMAIN tasks[c] : tasks'[c][i] = tasks[c][j]
          /\ \A i \in DOMAIN tasks'[c] : tasks'[c][i].tag # g
      BY <3>1, SessionFacts, RemoveMoves DEF Ordered
    <3>3. \A i \in DOMAIN tasks'[c] : tasks'[c][i].w # v
      <4>1. \A j \in DOMAIN tasks[c] : tasks[c][j].w = v => tasks[c][j].tag = g
        BY <2>2, SessionFacts, BaseTypes DEF FitsTasks, FitsTask, Of
      <4> QED BY <3>2, <4>1
    <3>4. \A i \in DOMAIN up'[c] : up'[c][i].op = "command" => v < up'[c][i].w
      <4>1. \A i \in DOMAIN up'[c] : i + 1 \in DOMAIN up[c] /\ up'[c][i] = up[c][i + 1]
        BY <1>2 DEF After
      <4> QED BY <2>3, <4>1, SessionFacts DEF Ordered
    <3>5. v \in Nat
      BY <2>2, SessionFacts, BaseTypes, TheIssued
    <3>6. ~InPipe(v, up'[c], tasks'[c], running'[c], state'[c])
      BY <1>2, <1>3, <3>3, <3>4, <3>5 DEF InPipe
    <3> QED BY <3>6, PipeMembers
  <2>12. ConfirmedInv(c)'
    <3>1. \A j \in DOMAIN down'[c] : down'[c][j].op = "response" => down'[c][j].tag # issued'[v].tag
      BY <1>3, <2>2, <2>9, <2>10
    <3>2. v \in waits' /\ tmf'[c] = {v} /\ issued'[v].conn = c
      BY <1>3, <2>2
    <3> QED BY <2>11, <3>1, <3>2 DEF ConfirmedInv
  <2>13. ResponseInv(c)'
    <3>1. ASSUME NEW i \in DOMAIN down'[c], down'[c][i].op = "response", down'[c][i].tag # TmfTag
          PROVE  /\ \E u \in waits' : /\ issued'[u].conn = c /\ issued'[u].tag = down'[c][i].tag
                                      /\ u \notin Pipe(c)' /\ Stored(u)'
                 /\ \A j \in DOMAIN down'[c] :
                      down'[c][j].op = "response" /\ down'[c][j].tag = down'[c][i].tag => i = j
      <4>1. i \in DOMAIN down[c] /\ down'[c][i] = down[c][i]
        BY <2>9, <3>1
      <4>2. /\ \E u \in waits : /\ issued[u].conn = c /\ issued[u].tag = down[c][i].tag
                                /\ u \notin Pipe(c) /\ Stored(u)
            /\ \A j \in DOMAIN down[c] :
                 down[c][j].op = "response" /\ down[c][j].tag = down[c][i].tag => i = j
        BY <3>1, <4>1, SessionFacts DEF ResponseInv
      <4>3. \A w : Stored(w)' <=> Stored(w)
        BY <1>3 DEF Stored
      <4> QED BY <1>3, <2>9, <3>1, <4>1, <4>2, <4>3
    <3> QED BY <3>1 DEF ResponseInv
  <2> QED BY <2>12, <2>13
<1> QED BY <1>6, <1>7, <1>8

LEMMA HandleAbortSession ==
  ASSUME SessionInv, BaseInv', NoResets', NEW c \in Iscsi!Conns, Iscsi!HandleAbort(c) PROVE SessionInv'
<1>1. /\ Iscsi!Read(c, {"abort"}) /\ Iscsi!Send(c, AbortAnswer(c)) /\ AbortAnswer(c) \in Seq(DownPdus)
      /\ tasks' = [tasks EXCEPT ![c] = Iscsi!RemoveByTag(c, up[c][1].tag)]
      /\ UNCHANGED <<state, nexus, reads, running, exp, disk, Iscsi!peerVars>>
  BY SessionFacts, HandleAbortMoves
<1>2. /\ Later(up[c], up'[c], 1) /\ state[c] = "scsi" /\ \A d \in Iscsi!Conns : d # c => up'[d] = up[d]
  BY <1>1, ReadHere
<1>3. /\ issued' = issued /\ waits' = waits /\ acked' = acked /\ tmf' = tmf /\ peer' = peer /\ disk' = disk
      /\ UNCHANGED Iscsi!peerVars /\ running' = running /\ state' = state
  BY <1>1 DEF Iscsi!peerVars
<1>4. \A d \in Iscsi!Conns : d # c => down'[d] = down[d]
  BY <1>1, SessionFacts, BaseTypes, SendMoves
<1>5. /\ tasks'[c] = Iscsi!RemoveByTag(c, up[c][1].tag) /\ tasks \in [Iscsi!Conns -> Seq(PendingTasks)]
      /\ \A d \in Iscsi!Conns : d # c => tasks'[d] = tasks[d]
  BY <1>1, SessionFacts, BaseTypes
<1>6. SomeTasks(c) /\ TagsDiffer(c)'
  BY <1>5, SessionFacts, RemoveMoves DEF SomeTasks, TagsDiffer, Ordered
<1>7. Ordered(c)' /\ DataInv(c)' /\ TaskInv(c)' /\ ManagedInv(c)' /\ Pipe(c)' \subseteq Pipe(c)
  BY <1>2, <1>3, <1>6, Fewer
<1>8. ConfirmedInv(c)' /\ ResponseInv(c)'
  BY <1>7, AbortAnswers
<1>9. Elsewhere(c)
  BY <1>1, <1>2, <1>3, <1>4, <1>5 DEF Elsewhere
<1>10. AckedInv'
  BY <1>3, SessionFacts DEF AckedInv, Latest, Stored
<1>11. ~Iscsi!Drained(c) /\ peer[c] # "none"
  BY <1>2, SessionFacts, BaseTypes DEF Iscsi!Drained, Shape
<1> QED BY <1>3, <1>7, <1>8, <1>9, <1>10, <1>11, AnswerStep



LEMMA HandleResetSession ==
  ASSUME SessionInv, NEW c \in Iscsi!Conns, Iscsi!HandleReset(c) PROVE FALSE
<1>1. Iscsi!Read(c, {"reset"})
  BY DEF Iscsi!HandleReset
<1>2. up[c][1].op = "reset" /\ 1 \in DOMAIN up[c]
  BY <1>1, ReadHere
<1> QED BY <1>2, SessionFacts DEF NoResets

\* The execution of a task stores its write, and does not touch another one that is
\* the latest to its place.
LEMMA ExecuteStores ==
  ASSUME SessionInv, NEW c \in Iscsi!Conns, Iscsi!Execute(c), NEW u, u = running[c].w
  PROVE  /\ u \in Pipe(c) /\ u \in DOMAIN issued /\ issued[u].conn = c /\ issued[u].tag = running[c].tag
         /\ issued' = issued
         /\ Stored(u)'
         /\ \A w \in DOMAIN issued : w # u /\ Latest(w) /\ Stored(w) => Stored(w)'
         /\ \A p \in Iscsi!Places : disk'[p] = disk[p] \/ disk'[p] = u
<1>1. PICK t \in PendingTasks : t = running[c] /\ t # None /\ FitsTask(c, t)
  BY SessionFacts, ExecuteMoves
<1>2. /\ disk' = [p \in Iscsi!Places |->
           IF p[1] = issued[t.w].lba /\ p[2] \in 1 .. issued[t.w].len THEN t.data[p[2]] ELSE disk[p]]
      /\ issued' = issued
  BY <1>1, SessionFacts, ExecuteMoves DEF Iscsi!peerVars
<1>3. u = t.w /\ u \in DOMAIN issued /\ issued[u].conn = c /\ issued[u].tag = t.tag
      /\ DOMAIN t.data = 1 .. issued[u].len
  BY <1>1 DEF FitsTask, Of
<1>4. u \in Pipe(c)
  BY <1>1, PipeMembers DEF InPipe
<1>5. \A q \in 1 .. issued[u].len : t.data[q] = u
  BY <1>1, <1>3, SessionFacts DEF TaskInv
<1>6. issued \in Seq(Writes)
  BY SessionFacts, BaseTypes
<1>7. \A w \in DOMAIN issued : \A q \in 1 .. issued[w].len : <<issued[w].lba, q>> \in Iscsi!Places
  <2>1. ASSUME NEW w \in DOMAIN issued, NEW q \in 1 .. issued[w].len PROVE <<issued[w].lba, q>> \in Iscsi!Places
    <3>1. issued[w].lba \in Lbas /\ issued[w].len \in 1 .. Parts
      BY <1>6, TheIssued
    <3>2. q \in 1 .. Parts
      BY <3>1, Consts
    <3> QED BY <3>1, <3>2 DEF Iscsi!Places
  <2> QED BY <2>1
<1>8. Stored(u)'
  <2>1. \A q \in 1 .. issued[u].len : disk'[<<issued[u].lba, q>>] = u
    BY <1>2, <1>3, <1>5, <1>7
  <2> QED BY <1>2, <2>1 DEF Stored
<1>9. ASSUME NEW w \in DOMAIN issued, w # u, Latest(w), Stored(w) PROVE Stored(w)'
  <2>1. issued[w].lba # issued[u].lba
    <3>1. Latest(u)
      BY <1>4, PipeIssued
    <3>2. w \in 1 .. Len(issued) /\ u \in 1 .. Len(issued) /\ Len(issued) \in Nat
      BY <1>3, <1>6, TheIssued
    <3>3. w \in u + 1 .. Len(issued) \/ u \in w + 1 .. Len(issued)
      BY <1>9, <3>2
    <3> QED BY <1>9, <3>1, <3>3 DEF Latest
  <2>2. \A q \in 1 .. issued[w].len : disk'[<<issued[w].lba, q>>] = disk[<<issued[w].lba, q>>]
    BY <1>2, <1>3, <1>7, <2>1
  <2> QED BY <1>2, <1>9, <2>2 DEF Stored
<1>10. \A p \in Iscsi!Places : disk'[p] = disk[p] \/ disk'[p] = u
  BY <1>2, <1>3, <1>5
<1> QED BY <1>1, <1>2, <1>3, <1>4, <1>8, <1>9, <1>10

\* What is executed leaves the pipe.
LEMMA ExecuteLeaves ==
  ASSUME SessionInv, NEW c \in Iscsi!Conns, Iscsi!Execute(c), NEW u, u = running[c].w
  PROVE  u \notin Pipe(c)' /\ SomeTasks(c) /\ TagsDiffer(c)'
<1>1. PICK t \in PendingTasks : t = running[c] /\ t # None /\ FitsTask(c, t)
  BY SessionFacts, ExecuteMoves
<1>2. /\ running' = [running EXCEPT ![c] = None] /\ up' = up
      /\ \/ tasks'[c] = tasks[c] /\ issued[t.w].len = 1
         \/ tasks'[c] = Iscsi!RemoveByTag(c, t.tag)
  BY <1>1, SessionFacts, ExecuteMoves
<1>3. /\ tasks \in [Iscsi!Conns -> Seq(PendingTasks)] /\ issued \in Seq(Writes) /\ FitsTasks(c)
      /\ running \in [Iscsi!Conns -> PendingTasks \union {None}]
  BY SessionFacts, BaseTypes
<1>4. TagsDiffer(c)
  BY SessionFacts DEF TagsDiffer, Ordered
<1>5. u = t.w /\ u \in DOMAIN issued /\ issued[u].tag = t.tag /\ issued[u].len \in Nat
  BY <1>1, <1>3, TheIssued DEF FitsTask, Of
<1>6. \A j \in DOMAIN tasks[c] : tasks[c][j].w = u => tasks[c][j].tag = t.tag /\ issued[u].len > 1
  BY <1>3, <1>5 DEF FitsTasks, FitsTask, Of
<1>7. /\ SomeTasks(c) /\ TagsDiffer(c)' /\ \A i \in DOMAIN tasks'[c] : tasks'[c][i].w # u
  <2>1. CASE tasks'[c] = tasks[c] /\ issued[t.w].len = 1
    BY <1>4, <1>5, <1>6, <2>1 DEF SomeTasks, TagsDiffer
  <2>2. CASE tasks'[c] = Iscsi!RemoveByTag(c, t.tag)
    <3>1. /\ \A i \in DOMAIN tasks'[c] : \E j \in DOMAIN tasks[c] : tasks'[c][i] = tasks[c][j]
          /\ \A i, j \in DOMAIN tasks'[c] : tasks'[c][i].tag = tasks'[c][j].tag => i = j
          /\ \A i \in DOMAIN tasks'[c] : tasks'[c][i].tag # t.tag
      BY <1>3, <1>4, <2>2, RemoveMoves DEF TagsDiffer
    <3> QED BY <1>6, <3>1 DEF SomeTasks, TagsDiffer
  <2> QED BY <1>2, <2>1, <2>2
<1>8. \A i \in DOMAIN up[c] : up[c][i].op = "command" => u < up[c][i].w
  BY <1>1, <1>5, SessionFacts DEF Ordered
<1>9. u \in Nat
  BY <1>3, <1>5, TheIssued
<1>10. running'[c] = None
  BY <1>2, <1>3
<1>11. ~InPipe(u, up'[c], tasks'[c], running'[c], state'[c])
  BY <1>2, <1>7, <1>8, <1>9, <1>10 DEF InPipe
<1> QED BY <1>7, <1>11, PipeMembers

LEMMA ExecuteAnswers ==
  ASSUME SessionInv, NEW c \in Iscsi!Conns, Iscsi!Execute(c), Pipe(c)' \subseteq Pipe(c)
  PROVE  ConfirmedInv(c)' /\ ResponseInv(c)'
<1>1. PICK t \in PendingTasks : t = running[c] /\ t # None /\ FitsTask(c, t)
  BY SessionFacts, ExecuteMoves
<1>2. PICK u : u = t.w
  OBVIOUS
<1>3. /\ u \in Pipe(c) /\ u \in DOMAIN issued /\ issued[u].conn = c /\ issued[u].tag = t.tag
      /\ Stored(u)' /\ u \notin Pipe(c)'
      /\ \A w \in DOMAIN issued : w # u /\ Latest(w) /\ Stored(w) => Stored(w)'
  BY <1>1, <1>2, ExecuteStores, ExecuteLeaves
<1>4. /\ Iscsi!Send(c, <<[op |-> "response", tag |-> t.tag]>>)
      /\ <<[op |-> "response", tag |-> t.tag]>> \in Seq(DownPdus)
      /\ issued' = issued /\ waits' = waits /\ tmf' = tmf
  BY <1>1, SessionFacts, ExecuteMoves DEF Iscsi!peerVars
<1>5. PICK y : y = [op |-> "response", tag |-> t.tag]
  OBVIOUS
<1>6. y.tag = t.tag /\ y.op = "response"
  BY <1>5
<1>7. down'[c] = down[c] \/ (peer[c] = "open" /\ Longer(down[c], down'[c], <<y>>))
  BY <1>4, <1>5, SessionFacts, BaseTypes, SendMoves
<1>8. /\ \A i \in DOMAIN down'[c] :
           \/ i \in DOMAIN down[c] /\ down'[c][i] = down[c][i]
           \/ peer[c] = "open" /\ down'[c][i] = y /\ i = Len(down[c]) + 1
  BY <1>7, OneSent
<1>9. peer[c] = "open" => u \in waits /\ issued[u].tag # TmfTag
  BY <1>3, PipeIssued, SessionFacts
\* a response for the tag is not on the way yet
<1>10. ASSUME peer[c] = "open", NEW i \in DOMAIN down[c], down[c][i].op = "response", down[c][i].tag = t.tag
       PROVE  FALSE
  <2>1. PICK v \in waits : issued[v].conn = c /\ issued[v].tag = t.tag /\ v \notin Pipe(c)
    BY <1>3, <1>9, <1>10, SessionFacts DEF ResponseInv
  <2> QED BY <1>3, <1>9, <1>10, <2>1, TagsAreOfOne
<1>11. ConfirmedInv(c)'
  <2>1. ASSUME NEW i \in DOMAIN down'[c], down'[c][i].op = "complete"
        PROVE  \E v \in waits' :
                 /\ tmf'[c] = {v} /\ issued'[v].conn = c /\ v \notin Pipe(c)'
                 /\ \A j \in DOMAIN down'[c] : down'[c][j].op = "response" => down'[c][j].tag # issued'[v].tag
    <3>1. i \in DOMAIN down[c] /\ down'[c][i] = down[c][i]
      BY <1>6, <1>8, <2>1
    <3>2. PICK v \in waits :
            /\ tmf[c] = {v} /\ issued[v].conn = c /\ v \notin Pipe(c)
            /\ \A j \in DOMAIN down[c] : down[c][j].op = "response" => down[c][j].tag # issued[v].tag
      BY <2>1, <3>1, SessionFacts DEF ConfirmedInv
    <3>3. peer[c] = "open" => issued[v].tag # t.tag
      BY <1>3, <1>9, <3>2, TagsAreOfOne
    <3>4. \A j \in DOMAIN down'[c] : down'[c][j].op = "response" => down'[c][j].tag # issued[v].tag
      BY <1>6, <1>8, <3>2, <3>3
    <3> QED BY <1>4, <3>2, <3>4
  <2> QED BY <2>1 DEF ConfirmedInv
<1>12. ResponseInv(c)'
  <2>1. ASSUME NEW i \in DOMAIN down'[c], down'[c][i].op = "response", down'[c][i].tag # TmfTag
        PROVE  /\ \E v \in waits' : /\ issued'[v].conn = c /\ issued'[v].tag = down'[c][i].tag
                                    /\ v \notin Pipe(c)' /\ Stored(v)'
               /\ \A j \in DOMAIN down'[c] :
                    down'[c][j].op = "response" /\ down'[c][j].tag = down'[c][i].tag => i = j
    <3>1. CASE i \in DOMAIN down[c] /\ down'[c][i] = down[c][i]
      <4>1. PICK v \in waits : /\ issued[v].conn = c /\ issued[v].tag = down[c][i].tag
                               /\ v \notin Pipe(c) /\ Stored(v)
        BY <2>1, <3>1, SessionFacts DEF ResponseInv
      <4>2. Stored(v)'
        <5>1. Latest(v) /\ v \in DOMAIN issued
          BY SessionFacts DEF WaitsInv
        <5> QED BY <1>3, <4>1, <5>1
      <4>3. ASSUME NEW j \in DOMAIN down'[c], down'[c][j].op = "response", down'[c][j].tag = down'[c][i].tag
            PROVE  i = j
        <5>1. j \in DOMAIN down[c] /\ down'[c][j] = down[c][j]
          BY <1>6, <1>8, <1>10, <2>1, <3>1, <4>3
        <5> QED BY <2>1, <3>1, <4>3, <5>1, SessionFacts DEF ResponseInv
      <4> QED BY <1>4, <3>1, <4>1, <4>2, <4>3
    <3>2. CASE peer[c] = "open" /\ down'[c][i] = y /\ i = Len(down[c]) + 1
      <4>1. ASSUME NEW j \in DOMAIN down'[c], down'[c][j].op = "response", down'[c][j].tag = down'[c][i].tag
            PROVE  i = j
        BY <1>6, <1>8, <1>10, <3>2, <4>1
      <4> QED BY <1>3, <1>4, <1>6, <1>9, <3>2, <4>1
    <3> QED BY <1>8, <3>1, <3>2
  <2> QED BY <2>1 DEF ResponseInv
<1> QED BY <1>11, <1>12

LEMMA ExecuteSession ==
  ASSUME SessionInv, BaseInv', NoResets', NEW c \in Iscsi!Conns, Iscsi!Execute(c) PROVE SessionInv'
<1>1. PICK u : u = running[c].w
  OBVIOUS
<1>2. /\ running[c] # None /\ running' = [running EXCEPT ![c] = None]
      /\ Iscsi!Send(c, <<[op |-> "response", tag |-> running[c].tag]>>)
      /\ <<[op |-> "response", tag |-> running[c].tag]>> \in Seq(DownPdus)
      /\ UNCHANGED <<state, nexus, reads, exp, ping, up, Iscsi!peerVars>>
      /\ tasks' = [tasks EXCEPT ![c] = tasks'[c]]
  BY SessionFacts, ExecuteMoves
<1>3. /\ issued' = issued /\ waits' = waits /\ acked' = acked /\ tmf' = tmf /\ peer' = peer
      /\ UNCHANGED Iscsi!peerVars /\ state' = state /\ up' = up
  BY <1>2 DEF Iscsi!peerVars
<1>4. running'[c] = None /\ \A d \in Iscsi!Conns : d # c => /\ down'[d] = down[d] /\ running'[d] = running[d]
                                                            /\ tasks'[d] = tasks[d]
  BY <1>2, SessionFacts, BaseTypes, SendMoves
<1>5. SomeTasks(c) /\ TagsDiffer(c)'
  BY <1>1, ExecuteLeaves
<1>6. Later(up[c], up'[c], 0)
  BY <1>3, SessionFacts, BaseTypes, LaterQueues
<1>7. Ordered(c)' /\ DataInv(c)' /\ TaskInv(c)' /\ ManagedInv(c)' /\ Pipe(c)' \subseteq Pipe(c)
  BY <1>3, <1>4, <1>5, <1>6, Fewer
<1>8. ConfirmedInv(c)' /\ ResponseInv(c)'
  BY <1>7, ExecuteAnswers
<1>9. Elsewhere(c)
  BY <1>2, <1>3, <1>4 DEF Elsewhere
<1>10. AckedInv'
  <2>1. ASSUME NEW w \in acked', Latest(w)' PROVE Stored(w)'
    <3>1. w \in acked /\ Latest(w) /\ w \in DOMAIN issued
      BY <1>3, <2>1, SessionFacts DEF Latest
    <3>2. Stored(w)
      BY <3>1, SessionFacts DEF AckedInv
    <3>3. u \in Pipe(c) /\ \A x \in DOMAIN issued : x # u /\ Latest(x) /\ Stored(x) => Stored(x)'
      BY <1>1, ExecuteStores
    <3>4. w # u
      BY <3>1, <3>3, PipeIssued
    <3> QED BY <3>1, <3>2, <3>3, <3>4
  <2> QED BY <2>1 DEF AckedInv
<1>11. ~Iscsi!Drained(c) /\ peer[c] # "none"
  BY <1>2, SessionFacts, BaseTypes DEF Iscsi!Drained, Shape
<1> QED BY <1>3, <1>7, <1>8, <1>9, <1>10, <1>11, AnswerStep



---------------------------------------------------------------------------
(* Sessions: steps of the initiator *)

LEMMA LoginSession ==
  ASSUME SessionInv, BaseInv', NoResets', NEW c \in Iscsi!Conns, Iscsi!Login(c) PROVE SessionInv'
<1>1. /\ peer[c] = "none" /\ state[c] = "free"
      /\ \A d \in Iscsi!Conns : peer[d] # "none" <=> d < c
      /\ \A d \in Iscsi!Conns : d < c => peer[d] # "open" /\ Iscsi!Drained(d)
      /\ \A d \in Iscsi!Conns : d # c => peer'[d] = peer[d] /\ state'[d] = state[d]
      /\ peer'[c] = "open" /\ state'[c] = "scsi"
  BY SessionFacts, LoginMoves
<1>2. UNCHANGED <<tasks, running, exp, ping, disk, up, down, issued, waits, tmf, acked, aborted>>
  BY DEF Iscsi!Login
<1>3. tasks[c] = <<>> /\ running[c] = None /\ up[c] = <<>> /\ down[c] = <<>>
  BY <1>1, SessionFacts, BaseTypes DEF Shape
<1>4. ConnInv(c)'
  <2>1. \A w : w \notin Pipe(c)'
    BY <1>2, <1>3 DEF Pipe, Commands, OfTasks
  <2>2. PipeInv(c)'
    BY <2>1 DEF PipeInv
  <2>3. Ordered(c)' /\ DataInv(c)' /\ TaskInv(c)' /\ ManagedInv(c)' /\ ConfirmedInv(c)' /\ ResponseInv(c)'
    BY <1>2, <1>3 DEF Ordered, DataInv, TaskInv, ManagedInv, ConfirmedInv, ResponseInv
  <2> QED BY <2>2, <2>3 DEF ConnInv
<1>5. ASSUME NEW d \in Iscsi!Conns, d # c PROVE ConnInv(d)'
  <2>1. /\ PipeInv(d) /\ Ordered(d) /\ DataInv(d) /\ TaskInv(d) /\ ManagedInv(d)
        /\ ConfirmedInv(d) /\ ResponseInv(d)
    BY SessionFacts
  <2>2. /\ state'[d] = state[d] /\ peer'[d] = peer[d]
    BY <1>1, <1>5
  <2>3. Pipe(d)' = Pipe(d)
    BY <1>2, <2>2 DEF Pipe
  <2>4. PipeInv(d)'
    BY <1>2, <2>1, <2>2, <2>3 DEF PipeInv, Latest
  <2>5. Ordered(d)' /\ DataInv(d)' /\ TaskInv(d)' /\ ManagedInv(d)'
    BY <1>2, <2>1, <2>2 DEF Ordered, DataInv, TaskInv, ManagedInv
  <2>6. ConfirmedInv(d)' /\ ResponseInv(d)'
    BY <1>2, <2>1, <2>3 DEF ConfirmedInv, ResponseInv, Stored
  <2> QED BY <2>4, <2>5, <2>6 DEF ConnInv
<1>6. OneSession'
  <2>1. ASSUME NEW a \in Iscsi!Conns, NEW b \in Iscsi!Conns, a < b, peer'[b] # "none" PROVE Iscsi!Drained(a)' /\ peer'[a] # "open"
    <3>1. a \in Nat /\ b \in Nat /\ c \in Nat
      BY Consts
    <3>2. a < c
      BY <1>1, <2>1, <3>1
    <3>3. a # c
      BY <3>1, <3>2
    <3> QED BY <1>1, <1>2, <3>2, <3>3 DEF Iscsi!Drained
  <2> QED BY <2>1 DEF OneSession
<1>7. WaitsInv'
  <2>1. \A w \in waits : peer[issued[w].conn] = "open" /\ issued[w].conn \in Iscsi!Conns
    BY SessionFacts DEF WaitsInv
  <2>2. \A w \in waits : peer'[issued[w].conn] = "open"
    BY <1>1, <2>1
  <2> QED BY <1>2, <2>2, SessionFacts DEF WaitsInv, Latest
<1>8. AckedInv'
  BY <1>2, SessionFacts DEF AckedInv, Latest, Stored
<1> QED BY <1>4, <1>5, <1>6, <1>7, <1>8 DEF SessionInv

LEMMA LeaveSession ==
  ASSUME SessionInv, BaseInv', NoResets', NEW c \in Iscsi!Conns, NEW how \in {"closed", "silent"}, Iscsi!Leave(c, how)
  PROVE  SessionInv'
<1>1. /\ peer[c] = "open" /\ peer' = [peer EXCEPT ![c] = how]
      /\ waits' = {w \in waits : issued[w].conn # c} /\ tmf' = [tmf EXCEPT ![c] = None]
      /\ down' = [down EXCEPT ![c] = <<>>]
      /\ UNCHANGED <<state, nexus, reads, tasks, running, exp, ping, disk, up, issued, acked, aborted>>
  BY DEF Iscsi!Leave, Iscsi!targetVars
<1>2. /\ peer'[c] = how /\ tmf'[c] = None /\ down'[c] = <<>>
      /\ \A d \in Iscsi!Conns : d # c => peer'[d] = peer[d] /\ tmf'[d] = tmf[d] /\ down'[d] = down[d]
  BY <1>1, SessionFacts, BaseTypes DEF Iscsi!TypeOK, ConnTypes
<1>3. Elsewhere(c) /\ IssuedKept
  BY <1>1, <1>2 DEF Elsewhere, IssuedKept
<1>4. \A d \in Iscsi!Conns : d # c => ConnInv(d)'
  BY <1>1, <1>3, IdleElsewhere
<1>5. OneSession'
  BY <1>1, <1>2, <1>3, OneSessionKept
<1>6. ConnInv(c)'
  <2>1. PipeInv(c) /\ Ordered(c) /\ DataInv(c) /\ TaskInv(c)
    BY SessionFacts
  <2>2. Pipe(c)' = Pipe(c)
    BY <1>1 DEF Pipe
  <2>3. PipeInv(c)'
    BY <1>1, <1>2, <2>1, <2>2 DEF PipeInv, Latest
  <2>4. Ordered(c)' /\ DataInv(c)' /\ TaskInv(c)'
    BY <1>1, <2>1 DEF Ordered, DataInv, TaskInv
  <2>5. ManagedInv(c)' /\ ConfirmedInv(c)' /\ ResponseInv(c)'
    BY <1>2 DEF ManagedInv, ConfirmedInv, ResponseInv
  <2> QED BY <2>3, <2>4, <2>5 DEF ConnInv
<1>7. WaitsInv'
  <2>1. \A w \in waits' : w \in waits /\ issued[w].conn # c /\ issued[w].conn \in Iscsi!Conns
    BY <1>1, SessionFacts
  <2>2. \A w \in waits' : peer'[issued[w].conn] = "open"
    BY <1>2, <2>1, SessionFacts DEF WaitsInv
  <2> QED BY <1>1, <2>1, <2>2, SessionFacts DEF WaitsInv, Latest
<1>8. AckedInv'
  BY <1>1, SessionFacts DEF AckedInv, Latest, Stored
<1> QED BY <1>4, <1>5, <1>6, <1>7, <1>8 DEF SessionInv

\* The initiator sends something that is not a command.
LEMMA PutKeeps ==
  ASSUME SessionInv, NEW c \in Iscsi!Conns, UNCHANGED <<state, tasks, running, issued>>,
         \/ up'[c] = up[c]
         \/ \E s : Longer(up[c], up'[c], s) /\ \A j \in DOMAIN s : s[j].op # "command"
  PROVE  Ordered(c)' /\ TaskInv(c)' /\ Pipe(c)' = Pipe(c)
<1>1. Ordered(c) /\ TaskInv(c)
  BY SessionFacts
<1>2. /\ \A i \in DOMAIN up'[c] : up'[c][i].op = "command" => i \in DOMAIN up[c] /\ up'[c][i] = up[c][i]
      /\ \A i \in DOMAIN up[c] : i \in DOMAIN up'[c] /\ up'[c][i] = up[c][i]
  BY DEF Longer
<1>3. Ordered(c)'
  BY <1>1, <1>2 DEF Ordered
<1>4. TaskInv(c)'
  BY <1>1 DEF TaskInv
<1>5. ASSUME NEW w PROVE (w \in Pipe(c)') <=> (w \in Pipe(c))
  <2>1. InPipe(w, up'[c], tasks'[c], running'[c], state'[c]) <=> InPipe(w, up[c], tasks[c], running[c], state[c])
    BY <1>2 DEF InPipe
  <2> QED BY <2>1, PipeMembers
<1> QED BY <1>3, <1>4, <1>5

\* Nothing is asked for, and nothing is answered, while no request is under way.
LEMMA NothingManaged ==
  ASSUME SessionInv, NEW c \in Iscsi!Conns, peer[c] = "open", tmf[c] = None
  PROVE  /\ \A i \in DOMAIN up[c] : up[c][i].op # "abort"
         /\ \A i \in DOMAIN down[c] : down[c][i].op # "complete"
BY SessionFacts, BaseTypes DEF ManagedOnce, Once, Tmfs, Ends

LEMMA ManageSession ==
  ASSUME SessionInv, BaseInv', NoResets', NEW c \in Iscsi!Conns, NEW ended, NEW pdu \in UpPdus, Iscsi!Manage(c, ended, pdu),
         \/ pdu.op = "reset"
         \/ /\ pdu.op = "abort"
            /\ \E w \in waits : issued[w].conn = c /\ ended = {w} /\ pdu.tag = issued[w].tag
  PROVE  SessionInv'
<1>1. /\ peer[c] = "open" /\ tmf[c] = None /\ tmf' = [tmf EXCEPT ![c] = ended] /\ Iscsi!Put(c, <<pdu>>)
      /\ UNCHANGED <<state, nexus, reads, tasks, running, exp, ping, disk, down, peer, issued, waits, acked, aborted>>
  BY DEF Iscsi!Manage, Iscsi!targetVars
<1>2. tmf'[c] = ended /\ \A d \in Iscsi!Conns : d # c => tmf'[d] = tmf[d]
  BY <1>1, SessionFacts, BaseTypes DEF ConnTypes
<1>3. /\ \A d \in Iscsi!Conns : d # c => up'[d] = up[d]
      /\ up'[c] = up[c] \/ Longer(up[c], up'[c], <<pdu>>)
  BY <1>1, SessionFacts, BaseTypes, OnePdu, PutMoves
<1>4. Elsewhere(c) /\ IssuedKept
  BY <1>1, <1>2, <1>3 DEF Elsewhere, IssuedKept
<1>5. \A d \in Iscsi!Conns : d # c => ConnInv(d)'
  BY <1>1, <1>4, IdleElsewhere
<1>6. OneSession'
  BY <1>1, <1>4, OneSessionKept
<1>7. DOMAIN <<pdu>> = {1} /\ <<pdu>>[1] = pdu
  OBVIOUS
<1>8. Ordered(c)' /\ TaskInv(c)' /\ Pipe(c)' = Pipe(c)
  BY <1>1, <1>3, <1>7, PutKeeps
<1>9. PipeInv(c)'
  BY <1>1, <1>8, PipeShrinks
<1>10. \A i \in DOMAIN up'[c] : (i \in DOMAIN up[c] /\ up'[c][i] = up[c][i] /\ i \in 1 .. Len(up[c])) \/
                                (up'[c][i] = pdu /\ i = Len(up[c]) + 1 /\ Len(up[c]) \in Nat)
  <2>1. up[c] \in Seq(UpPdus)
    BY SessionFacts, BaseTypes
  <2>2. CASE up'[c] = up[c]
    BY <2>1, <2>2
  <2>3. CASE Longer(up[c], up'[c], <<pdu>>)
    BY <2>3, OneSent
  <2> QED BY <1>3, <2>2, <2>3
<1>11. DataInv(c)'
  <2>1. \A i \in DOMAIN up'[c] : up'[c][i].op \in {"data", "command"} => i \in DOMAIN up[c] /\ up'[c][i] = up[c][i]
    BY <1>10
  <2> QED BY <1>1, <2>1, SessionFacts DEF DataInv
<1>12. ManagedInv(c)'
  <2>1. ASSUME NEW i \in DOMAIN up'[c], up'[c][i].op = "abort"
        PROVE  \E v \in DOMAIN issued :
                 /\ ended = {v} /\ issued[v].tag = up'[c][i].tag
                 /\ \A x \in waits : issued[x].conn = c /\ issued[x].tag = up'[c][i].tag => x = v
    <3>1. up'[c][i] = pdu
      BY <1>1, <1>10, <2>1, NothingManaged
    <3>2. PICK w \in waits : issued[w].conn = c /\ ended = {w} /\ pdu.tag = issued[w].tag
      BY <2>1, <3>1
    <3>3. w \in DOMAIN issued /\ \A x \in waits : issued[x].conn = c /\ issued[x].tag = pdu.tag => x = w
      BY <3>2, SessionFacts, TagsAreOfOne
    <3> QED BY <3>1, <3>2, <3>3
  <2> QED BY <1>1, <1>2, <2>1 DEF ManagedInv
<1>13. ConfirmedInv(c)' /\ ResponseInv(c)'
  <2>1. \A i \in DOMAIN down[c] : down[c][i].op # "complete"
    BY <1>1, NothingManaged
  <2>2. \A w : Stored(w)' <=> Stored(w)
    BY <1>1 DEF Stored
  <2>3. ResponseInv(c)
    BY SessionFacts
  <2> QED BY <1>1, <1>8, <2>1, <2>2, <2>3 DEF ConfirmedInv, ResponseInv
<1>14. ConnInv(c)'
  BY <1>8, <1>9, <1>11, <1>12, <1>13 DEF ConnInv
<1>15. WaitsInv' /\ AckedInv'
  BY <1>1, SessionFacts DEF WaitsInv, AckedInv, Latest, Stored
<1> QED BY <1>5, <1>6, <1>14, <1>15 DEF SessionInv

LEMMA AbortSession ==
  ASSUME SessionInv, BaseInv', NoResets', NEW c \in Iscsi!Conns, NEW w \in waits, Iscsi!Abort(c, w) PROVE SessionInv'
<1>1. issued[w].tag \in Tags
  BY SessionFacts, BaseTypes, TheIssued
<1>2. PICK pdu : pdu = [op |-> "abort", tag |-> issued[w].tag]
  OBVIOUS
<1>3. pdu \in UpPdus /\ pdu.op = "abort" /\ pdu.tag = issued[w].tag
  BY <1>1, <1>2 DEF UpPdus
<1> QED BY <1>2, <1>3, ManageSession DEF Iscsi!Abort

LEMMA ResetUnitSession ==
  ASSUME SessionInv, BaseInv', NoResets', NEW c \in Iscsi!Conns, Iscsi!ResetUnit(c) PROVE SessionInv'
<1>1. PICK pdu : pdu = [op |-> "reset"]
  OBVIOUS
<1>2. pdu \in UpPdus /\ pdu.op = "reset"
  BY <1>1 DEF UpPdus
<1> QED BY <1>1, <1>2, ManageSession DEF Iscsi!ResetUnit



---------------------------------------------------------------------------
(* Sessions: a write is issued *)

LEMMA IssueFacts ==
  ASSUME SessionInv, NEW c \in Iscsi!Conns, NEW x, NEW y, NEW n \in Nat, Issuing(c, x, y, n)
  PROVE  /\ peer[c] = "open" /\ tmf[c] = None /\ n = Len(issued) /\ n + 1 \in Nat
         /\ DOMAIN issued = 1 .. n /\ DOMAIN issued' = 1 .. n + 1 /\ Len(issued') = n + 1
         /\ issued'[n + 1] = x /\ x.conn = c
         /\ \A w \in DOMAIN issued : w \in 1 .. n /\ w \in Nat /\ w < n + 1 /\ issued'[w] = issued[w]
         /\ \A w \in waits : issued[w].lba # x.lba /\ (issued[w].conn = c => issued[w].tag # x.tag)
         /\ y.op = "command" /\ y.w = n + 1 /\ y.tag = x.tag /\ waits' = waits \union {n + 1}
         /\ UNCHANGED <<state, nexus, reads, tasks, running, exp, ping, disk, down, peer, tmf, acked, aborted>>
         /\ Elsewhere(c) /\ IssuedKept
<1>1. DOMAIN issued = 1 .. Len(issued)
  BY SessionFacts, BaseTypes, TheIssued
<1>2. /\ peer[c] = "open" /\ tmf[c] = None /\ n = Len(issued) /\ n + 1 \in Nat
      /\ DOMAIN issued' = 1 .. n + 1 /\ Len(issued') = n + 1
      /\ issued'[n + 1] = x /\ x.conn = c
      /\ \A w \in DOMAIN issued : w \in 1 .. n /\ issued'[w] = issued[w]
      /\ \A w \in waits : issued[w].lba # x.lba /\ (issued[w].conn = c => issued[w].tag # x.tag)
      /\ y.op = "command" /\ y.w = n + 1 /\ y.tag = x.tag /\ waits' = waits \union {n + 1}
      /\ UNCHANGED <<state, nexus, reads, tasks, running, exp, ping, disk, down, peer, tmf, acked, aborted>>
  BY DEF Issuing
<1>3. \A w \in DOMAIN issued : w \in Nat /\ w < n + 1
  BY <1>2
<1>4. \A d \in Iscsi!Conns : d # c => up'[d] = up[d]
  BY SessionFacts, IssueUp
<1>5. Elsewhere(c)
  BY <1>2, <1>4 DEF Elsewhere
<1>6. IssuedKept
  BY <1>1, <1>2 DEF IssuedKept
<1> QED BY <1>1, <1>2, <1>3, <1>5, <1>6

\* The new write is the latest to its place, and the others to theirs.
LEMMA IssueLatest ==
  ASSUME SessionInv, NEW c \in Iscsi!Conns, NEW x, NEW y, NEW n \in Nat, Issuing(c, x, y, n)
  PROVE  /\ \A w \in waits' : Latest(w)'
         /\ \A w \in DOMAIN issued : Latest(w)' => Latest(w)
         /\ \A w \in DOMAIN issued : Stored(w)' <=> Stored(w)
<1>1. /\ n = Len(issued) /\ n + 1 \in Nat /\ DOMAIN issued = 1 .. n /\ DOMAIN issued' = 1 .. n + 1 /\ Len(issued') = n + 1
      /\ issued'[n + 1] = x /\ waits' = waits \union {n + 1} /\ disk' = disk
      /\ \A w \in DOMAIN issued : w \in Nat /\ issued'[w] = issued[w]
      /\ \A w \in waits : issued[w].lba # x.lba /\ w \in DOMAIN issued
  BY IssueFacts, SessionFacts
<1>2. \A w \in DOMAIN issued : \A v \in w + 1 .. n : v \in DOMAIN issued /\ v \in w + 1 .. n + 1
  BY <1>1
<1>3. ASSUME NEW w \in waits PROVE Latest(w)'
  <2>1. Latest(w) /\ w \in DOMAIN issued
    BY SessionFacts DEF WaitsInv
  <2>2. ASSUME NEW v \in w + 1 .. n + 1 PROVE issued'[v].lba # issued'[w].lba
    <3>1. v \in w + 1 .. n \/ v = n + 1
      BY <1>1, <2>1
    <3> QED BY <1>1, <1>2, <2>1, <3>1 DEF Latest
  <2> QED BY <1>1, <2>2 DEF Latest
<1>4. Latest(n + 1)'
  <2>1. n + 1 + 1 .. n + 1 = {}
    BY <1>1
  <2> QED BY <1>1, <2>1 DEF Latest
<1>5. ASSUME NEW w \in DOMAIN issued, Latest(w)' PROVE Latest(w)
  BY <1>1, <1>2, <1>5 DEF Latest
<1>6. \A w \in DOMAIN issued : Stored(w)' <=> Stored(w)
  BY <1>1 DEF Stored
<1> QED BY <1>1, <1>3, <1>4, <1>5, <1>6

LEMMA IssueQueue ==
  ASSUME SessionInv, NEW c \in Iscsi!Conns, NEW x, NEW y, NEW n \in Nat, Issuing(c, x, y, n)
  PROVE  /\ \A i \in DOMAIN up[c] : i \in 1 .. Len(up[c])
         /\ Len(up[c]) \in Nat
         /\ \A i \in DOMAIN up'[c] : \/ i \in DOMAIN up[c] /\ up'[c][i] = up[c][i]
                                     \/ i = Len(up[c]) + 1 /\ up'[c][i] = y /\ y.op = "command" /\ y.w = n + 1
<1>1. up[c] \in Seq(UpPdus)
  BY SessionFacts, BaseTypes
<1>2. y.op = "command" /\ y.w = n + 1
  BY IssueFacts
<1>3. up'[c] = up[c] \/ Longer(up[c], up'[c], <<y>>)
  BY SessionFacts, IssueUp
<1>4. CASE up'[c] = up[c]
  BY <1>1, <1>4
<1>5. CASE Longer(up[c], up'[c], <<y>>)
  BY <1>1, <1>2, <1>5, OneSent
<1> QED BY <1>3, <1>4, <1>5

LEMMA IssueConnSession ==
  ASSUME SessionInv, NEW c \in Iscsi!Conns, NEW x, NEW y, NEW n \in Nat, Issuing(c, x, y, n)
  PROVE  ConnInv(c)'
<1>1. /\ peer[c] = "open" /\ tmf[c] = None /\ n + 1 \in Nat
      /\ DOMAIN issued = 1 .. n /\ DOMAIN issued' = 1 .. n + 1
      /\ issued'[n + 1] = x /\ x.conn = c
      /\ \A w \in DOMAIN issued : w \in Nat /\ w < n + 1 /\ issued'[w] = issued[w]
      /\ \A w \in waits : issued[w].conn = c => issued[w].tag # x.tag
      /\ waits' = waits \union {n + 1}
      /\ UNCHANGED <<state, tasks, running, exp, disk, down, peer, tmf, acked, aborted>>
  BY IssueFacts
<1>2. /\ \A i \in DOMAIN up[c] : i \in 1 .. Len(up[c])
      /\ Len(up[c]) \in Nat
      /\ \A i \in DOMAIN up'[c] : \/ i \in DOMAIN up[c] /\ up'[c][i] = up[c][i]
                                  \/ i = Len(up[c]) + 1 /\ up'[c][i] = y /\ y.op = "command" /\ y.w = n + 1
  BY IssueQueue
<1>3. /\ PipeInv(c) /\ Ordered(c) /\ DataInv(c) /\ TaskInv(c) /\ ResponseInv(c)
      /\ FitsUp(c) /\ FitsTasks(c) /\ FitsRunning(c)
      /\ waits \subseteq DOMAIN issued /\ acked \subseteq DOMAIN issued /\ aborted \subseteq DOMAIN issued
  BY SessionFacts, BaseTypes
<1>4. ASSUME NEW w \in Pipe(c)' PROVE w \in Pipe(c) \/ w = n + 1
  <2>1. InPipe(w, up'[c], tasks[c], running[c], state[c])
    BY <1>1, PipeMembers
  <2>2. w = n + 1 \/ InPipe(w, up[c], tasks[c], running[c], state[c])
    BY <1>2, <2>1 DEF InPipe
  <2> QED BY <2>2, PipeMembers
<1>5. Pipe(c) \subseteq waits
  BY <1>1, <1>3 DEF PipeInv
<1>6. PipeInv(c)'
  <2>1. Pipe(c)' \subseteq waits' /\ \A w \in Pipe(c)' : Latest(w)'
    BY <1>1, <1>4, <1>5, IssueLatest
  <2>2. Pipe(c)' \intersect (acked' \union aborted') = {}
    <3>1. n + 1 \notin acked \union aborted
      BY <1>1, <1>3
    <3> QED BY <1>1, <1>3, <1>4, <3>1 DEF PipeInv
  <2>3. ASSUME NEW v \in Pipe(c)', NEW w \in Pipe(c)', issued'[v].tag = issued'[w].tag PROVE v = w
    <3>1. \A z \in Pipe(c) : z \in DOMAIN issued /\ issued'[z] = issued[z] /\ issued[z].tag # x.tag
      BY <1>1, <1>3, <1>5, PipeIssued
    <3> QED BY <1>1, <1>3, <1>4, <2>3, <3>1 DEF PipeInv
  <2> QED BY <2>1, <2>2, <2>3 DEF PipeInv
<1>7. Ordered(c)'
  <2>1. \A i \in DOMAIN up[c] : up[c][i].op = "command" => up[c][i].w < n + 1
    BY <1>1, <1>3 DEF FitsUp, Of
  <2>2. /\ \A i \in DOMAIN tasks[c] : tasks[c][i].w < n + 1
        /\ running[c] # None => running[c].w < n + 1
    BY <1>1, <1>3 DEF FitsTasks, FitsRunning, FitsTask, Of
  <2>3. \A i, j \in DOMAIN up'[c] :
          up'[c][i].op = "command" /\ up'[c][j].op = "command" /\ i < j => up'[c][i].w < up'[c][j].w
    <3>1. ASSUME NEW i \in DOMAIN up'[c], NEW j \in DOMAIN up'[c],
                 up'[c][i].op = "command", up'[c][j].op = "command", i < j
          PROVE  up'[c][i].w < up'[c][j].w
      <4>1. i \in DOMAIN up[c] /\ up'[c][i] = up[c][i]
        BY <1>2, <3>1
      <4>2. CASE j \in DOMAIN up[c] /\ up'[c][j] = up[c][j]
        BY <1>3, <3>1, <4>1, <4>2 DEF Ordered
      <4>3. CASE up'[c][j].w = n + 1
        BY <2>1, <3>1, <4>1, <4>3
      <4> QED BY <1>2, <4>2, <4>3
    <3> QED BY <3>1
  <2>4. \A i \in DOMAIN up'[c] : up'[c][i].op = "command" =>
          /\ \A j \in DOMAIN tasks[c] : tasks[c][j].w < up'[c][i].w
          /\ running[c] # None => running[c].w < up'[c][i].w
    BY <1>2, <1>3, <2>2 DEF Ordered
  <2> QED BY <1>1, <1>3, <2>3, <2>4 DEF Ordered
<1>8. DataInv(c)'
  <2>1. ASSUME NEW i \in DOMAIN up'[c], up'[c][i].op = "data"
        PROVE  /\ \A j \in DOMAIN tasks[c] : tasks[c][j].tag = up'[c][i].tag => tasks[c][j].w = up'[c][i].w
               /\ \A j \in DOMAIN up'[c] :
                    j < i /\ up'[c][j].op = "command" /\ up'[c][j].tag = up'[c][i].tag => up'[c][j].w = up'[c][i].w
    <3>1. i \in DOMAIN up[c] /\ up'[c][i] = up[c][i] /\ i < Len(up[c]) + 1
      BY <1>2, <2>1
    <3>2. \A j \in DOMAIN up'[c] : j < i => j \in DOMAIN up[c] /\ up'[c][j] = up[c][j]
      BY <1>2, <3>1
    <3> QED BY <1>3, <2>1, <3>1, <3>2 DEF DataInv
  <2> QED BY <1>1, <2>1 DEF DataInv
<1>9. TaskInv(c)'
  <2>1. \A i \in DOMAIN tasks[c] : issued'[tasks[c][i].w] = issued[tasks[c][i].w]
    BY <1>1, <1>3 DEF FitsTasks, FitsTask, Of
  <2> QED BY <1>1, <1>3, <2>1 DEF TaskInv
<1>10. ManagedInv(c)' /\ ConfirmedInv(c)'
  <2>1. /\ \A i \in DOMAIN up[c] : up[c][i].op # "abort"
        /\ \A i \in DOMAIN down[c] : down[c][i].op # "complete"
    BY <1>1, NothingManaged
  <2>2. \A i \in DOMAIN up'[c] : up'[c][i].op # "abort"
    BY <1>2, <2>1
  <2> QED BY <1>1, <2>1, <2>2 DEF ManagedInv, ConfirmedInv
<1>11. ResponseInv(c)'
  <2>1. ASSUME NEW i \in DOMAIN down[c], down[c][i].op = "response", down[c][i].tag # TmfTag
        PROVE  /\ \E u \in waits' : /\ issued'[u].conn = c /\ issued'[u].tag = down[c][i].tag
                                    /\ u \notin Pipe(c)' /\ Stored(u)'
               /\ \A j \in DOMAIN down[c] :
                    down[c][j].op = "response" /\ down[c][j].tag = down[c][i].tag => i = j
    <3>1. PICK u \in waits : /\ issued[u].conn = c /\ issued[u].tag = down[c][i].tag
                             /\ u \notin Pipe(c) /\ Stored(u)
      BY <1>3, <2>1 DEF ResponseInv
    <3>2. u \in DOMAIN issued /\ u # n + 1 /\ issued'[u] = issued[u]
      BY <1>1, <1>3
    <3>3. u \notin Pipe(c)' /\ Stored(u)'
      BY <1>4, <3>1, <3>2, IssueLatest
    <3> QED BY <1>1, <1>3, <2>1, <3>1, <3>2, <3>3 DEF ResponseInv
  <2> QED BY <1>1, <2>1 DEF ResponseInv
<1> QED BY <1>6, <1>7, <1>8, <1>9, <1>10, <1>11 DEF ConnInv

LEMMA IssueSession ==
  ASSUME SessionInv, BaseInv', NoResets', NEW c \in Iscsi!Conns,
         NEW tag \in Tags, NEW lba \in Lbas, NEW len \in 1 .. Parts, Iscsi!Issue(c, tag, lba, len)
  PROVE  SessionInv'
<1>1. PICK x, y : \E n \in Nat : Issuing(c, x, y, n)
  BY SessionFacts, IssueMoves
<1>2. PICK n \in Nat : Issuing(c, x, y, n)
  BY <1>1
<1>3. /\ peer[c] = "open" /\ n + 1 \in Nat
      /\ DOMAIN issued = 1 .. n /\ issued'[n + 1] = x /\ x.conn = c
      /\ \A w \in DOMAIN issued : issued'[w] = issued[w] /\ w # n + 1
      /\ \A w \in waits : issued[w].conn = c => issued[w].tag # x.tag
      /\ waits' = waits \union {n + 1} /\ UNCHANGED <<disk, peer, acked>>
      /\ Elsewhere(c) /\ IssuedKept
  BY <1>2, IssueFacts
<1>4. \A d \in Iscsi!Conns : d # c => ConnInv(d)'
  BY <1>3, IdleElsewhere
<1>5. OneSession'
  BY <1>3, OneSessionKept
<1>6. ConnInv(c)'
  BY <1>2, IssueConnSession
<1>7. WaitsInv'
  <2>1. \A w \in waits : /\ peer[issued[w].conn] = "open" /\ w \in DOMAIN issued
                         /\ \A v \in waits : issued[v].conn = issued[w].conn /\ issued[v].tag = issued[w].tag => v = w
    BY SessionFacts DEF WaitsInv
  <2>2. \A w \in waits' : Latest(w)'
    BY <1>2, IssueLatest
  <2>3. ASSUME NEW w \in waits', NEW v \in waits',
               issued'[v].conn = issued'[w].conn, issued'[v].tag = issued'[w].tag
        PROVE  v = w
    <3>1. CASE w \in waits /\ v \in waits
      BY <1>3, <2>1, <2>3, <3>1
    <3>2. CASE w = n + 1 /\ v \in waits
      BY <1>3, <2>1, <2>3, <3>2
    <3>3. CASE w \in waits /\ v = n + 1
      BY <1>3, <2>1, <2>3, <3>3
    <3> QED BY <1>3, <3>1, <3>2, <3>3
  <2>4. \A w \in waits' : peer'[issued'[w].conn] = "open"
    BY <1>3, <2>1
  <2> QED BY <2>2, <2>3, <2>4 DEF WaitsInv
<1>8. AckedInv'
  <2>1. \A w \in DOMAIN issued : (Latest(w)' => Latest(w)) /\ (Stored(w)' <=> Stored(w))
    BY <1>2, IssueLatest
  <2> QED BY <1>3, <2>1, SessionFacts DEF AckedInv
<1> QED BY <1>4, <1>5, <1>6, <1>7, <1>8 DEF SessionInv



---------------------------------------------------------------------------
(* Sessions: the initiator receives *)

LEMMA ReceiveFacts ==
  ASSUME SessionInv, NEW c \in Iscsi!Conns, Iscsi!Receive(c)
  PROVE  /\ peer[c] = "open" /\ Received(c, down[c][1]) /\ down[c][1] \in DownPdus /\ 1 \in DOMAIN down[c]
         /\ \A i \in DOMAIN down'[c] : i + 1 \in DOMAIN down[c] /\ down'[c][i] = down[c][i + 1] /\ i + 1 # 1 /\ i \in Nat
         /\ UNCHANGED <<state, nexus, reads, tasks, running, exp, ping, disk, peer, issued>>
         /\ Elsewhere(c) /\ IssuedKept /\ waits' \subseteq waits
         /\ Ordered(c)' /\ TaskInv(c)' /\ Pipe(c)' = Pipe(c)
<1>1. /\ peer[c] = "open" /\ Received(c, down[c][1])
      /\ \A d \in Iscsi!Conns : d # c => down'[d] = down[d]
      /\ After(down[c], down'[c]) /\ down[c][1] \in DownPdus
      /\ UNCHANGED <<state, nexus, reads, tasks, running, exp, ping, disk, peer, issued>>
  BY SessionFacts, ReceiveMoves
<1>2. 1 \in DOMAIN down[c]
      /\ \A i \in DOMAIN down'[c] : i + 1 \in DOMAIN down[c] /\ down'[c][i] = down[c][i + 1] /\ i + 1 # 1 /\ i \in Nat
  BY <1>1 DEF After
<1>3. waits' \subseteq waits /\ \A d \in Iscsi!Conns : d # c => tmf'[d] = tmf[d]
  <2>1. tmf' = tmf \/ tmf' = [tmf EXCEPT ![c] = None]
    BY <1>1 DEF Received
  <2>2. tmf \in [Iscsi!Conns -> (SUBSET (1 .. MaxWrite)) \union {None}]
    BY SessionFacts, BaseTypes DEF ConnTypes
  <2>3. \A d \in Iscsi!Conns : d # c => tmf'[d] = tmf[d]
    BY <2>1, <2>2
  <2>4. waits' = waits \/ waits' = waits \ Own(c, down[c][1].tag) \/ waits' = waits \ tmf[c]
    BY <1>1 DEF Received
  <2> QED BY <2>3, <2>4
<1>4. /\ \A d \in Iscsi!Conns : d # c => up'[d] = up[d]
      /\ \/ up'[c] = up[c]
         \/ \E s : Longer(up[c], up'[c], s) /\ \A j \in DOMAIN s : s[j].op # "command"
  <2>1. CASE up' = up
    BY <2>1
  <2>2. CASE \E s \in Seq(UpPdus) : Iscsi!Put(c, s) /\ Supplied(c, s)
    <3>1. PICK s \in Seq(UpPdus) : Iscsi!Put(c, s) /\ Supplied(c, s)
      BY <2>2
    <3>2. /\ \A d \in Iscsi!Conns : d # c => up'[d] = up[d]
          /\ up'[c] = up[c] \/ Longer(up[c], up'[c], s)
      BY <3>1, SessionFacts, BaseTypes, PutMoves
    <3>3. \A j \in DOMAIN s : s[j].op # "command"
      BY <3>1 DEF Supplied
    <3> QED BY <3>2, <3>3
  <2> QED BY <2>1, <2>2, SessionFacts, ReceivedUp
<1>5. Elsewhere(c) /\ IssuedKept
  BY <1>1, <1>3, <1>4 DEF Elsewhere, IssuedKept
<1>6. Ordered(c)' /\ TaskInv(c)' /\ Pipe(c)' = Pipe(c)
  BY <1>1, <1>4, PutKeeps
<1> QED BY <1>1, <1>2, <1>3, <1>5, <1>6

\* Data that is sent is of the write that its tag stands for at the target.
LEMMA ReceiveData ==
  ASSUME SessionInv, NEW c \in Iscsi!Conns, Iscsi!Receive(c)
  PROVE  DataInv(c)' /\ \A i \in DOMAIN up'[c] : up'[c][i].op = "abort" => i \in DOMAIN up[c] /\ up'[c][i] = up[c][i]
<1>1. peer[c] = "open" /\ UNCHANGED <<state, tasks, running, issued>>
  BY ReceiveFacts
<1>2. DataInv(c)
  BY SessionFacts
<1>3. CASE up' = up
  BY <1>1, <1>2, <1>3 DEF DataInv
<1>4. CASE \E s \in Seq(UpPdus) : Iscsi!Put(c, s) /\ Supplied(c, s)
  <2>1. PICK s \in Seq(UpPdus) : Iscsi!Put(c, s) /\ Supplied(c, s)
    BY <1>4
  <2>2. up'[c] = up[c] \/ (state[c] = "scsi" /\ Longer(up[c], up'[c], s))
    BY <2>1, SessionFacts, BaseTypes, PutMoves
  <2>3. CASE up'[c] = up[c]
    BY <1>1, <1>2, <2>3 DEF DataInv
  <2>4. CASE state[c] = "scsi" /\ Longer(up[c], up'[c], s)
    <3>1. \A i \in DOMAIN up'[c] : \/ i \in DOMAIN up[c] /\ up'[c][i] = up[c][i]
                                   \/ \E j \in DOMAIN s : up'[c][i] = s[j]
      BY <2>4 DEF Longer
    <3>2. \A i \in DOMAIN up'[c] : up'[c][i].op \in {"command", "abort"} =>
            i \in DOMAIN up[c] /\ up'[c][i] = up[c][i]
      BY <2>1, <3>1 DEF Supplied
    <3>3. ASSUME NEW i \in DOMAIN up'[c], up'[c][i].op = "data"
          PROVE  /\ \A j \in DOMAIN tasks[c] : tasks[c][j].tag = up'[c][i].tag => tasks[c][j].w = up'[c][i].w
                 /\ \A j \in DOMAIN up'[c] :
                      j < i /\ up'[c][j].op = "command" /\ up'[c][j].tag = up'[c][i].tag => up'[c][j].w = up'[c][i].w
      <4>1. CASE i \in DOMAIN up[c] /\ up'[c][i] = up[c][i]
        BY <1>2, <3>2, <3>3, <4>1 DEF DataInv
      <4>2. CASE \E j \in DOMAIN s : up'[c][i] = s[j]
        <5>1. PICK w : w = up'[c][i].w
          OBVIOUS
        <5>2. w \in waits /\ issued[w].conn = c /\ issued[w].tag = up'[c][i].tag
          BY <2>1, <3>3, <4>2, <5>1 DEF Supplied
        <5>3. ASSUME NEW v \in Pipe(c), issued[v].tag = up'[c][i].tag PROVE v = w
          BY <1>1, <5>2, <5>3, PipeIssued, TagsAreOfOne
        <5>4. ASSUME NEW j \in DOMAIN tasks[c], tasks[c][j].tag = up'[c][i].tag PROVE tasks[c][j].w = w
          <6>1. tasks[c][j].w \in Pipe(c)
            BY <2>4, PipeMembers DEF InPipe
          <6>2. issued[tasks[c][j].w].tag = tasks[c][j].tag
            BY SessionFacts, BaseTypes DEF FitsTasks, FitsTask, Of
          <6> QED BY <5>3, <5>4, <6>1, <6>2
        <5>5. ASSUME NEW j \in DOMAIN up'[c], up'[c][j].op = "command", up'[c][j].tag = up'[c][i].tag
              PROVE  up'[c][j].w = w
          <6>1. j \in DOMAIN up[c] /\ up'[c][j] = up[c][j]
            BY <3>2, <5>5
          <6>2. up[c][j].w \in Pipe(c)
            BY <5>5, <6>1, PipeMembers DEF InPipe
          <6>3. issued[up[c][j].w].tag = up[c][j].tag
            BY <5>5, <6>1, SessionFacts, BaseTypes DEF FitsUp, Of
          <6> QED BY <5>3, <5>5, <6>1, <6>2, <6>3
        <5> QED BY <5>1, <5>4, <5>5
      <4> QED BY <3>1, <4>1, <4>2
    <3>4. DataInv(c)'
      BY <1>1, <3>3 DEF DataInv
    <3> QED BY <3>2, <3>4
  <2> QED BY <2>2, <2>3, <2>4
<1> QED BY <1>3, <1>4, SessionFacts, ReceivedUp

\* Requests of task management that are on the way stay as they are.
LEMMA ReceiveManaged ==
  ASSUME SessionInv, NEW c \in Iscsi!Conns, Iscsi!Receive(c)
  PROVE  ManagedInv(c)'
<1>1. /\ peer[c] = "open" /\ Received(c, down[c][1]) /\ 1 \in DOMAIN down[c] /\ down[c][1] \in DownPdus
      /\ UNCHANGED <<state, peer, issued>> /\ waits' \subseteq waits
  BY ReceiveFacts
<1>2. ManagedInv(c) /\ ManagedOnce(c)
  BY SessionFacts, BaseTypes
<1>3. \A i \in DOMAIN up'[c] : up'[c][i].op = "abort" => i \in DOMAIN up[c] /\ up'[c][i] = up[c][i]
  BY ReceiveData
<1>4. CASE down[c][1].op \in Ends
  <2>1. \A i \in DOMAIN up[c] : up[c][i].op # "abort"
    BY <1>1, <1>2, <1>4 DEF ManagedOnce, Once, Tmfs
  <2> QED BY <1>3, <2>1 DEF ManagedInv
<1>5. CASE down[c][1].op \notin Ends
  <2>1. tmf' = tmf
    BY <1>1, <1>5, DownTypes DEF Received, Ends
  <2>2. ASSUME NEW i \in DOMAIN up'[c], up'[c][i].op = "abort"
        PROVE  \E v \in DOMAIN issued :
                 /\ tmf[c] = {v} /\ issued[v].tag = up'[c][i].tag
                 /\ \A x \in waits' : issued[x].conn = c /\ issued[x].tag = up'[c][i].tag => x = v
    BY <1>1, <1>2, <1>3, <2>2 DEF ManagedInv
  <2> QED BY <1>1, <2>1, <2>2 DEF ManagedInv
<1> QED BY <1>4, <1>5

\* A response: the write with its tag is stored.
LEMMA ReceiveResponse ==
  ASSUME SessionInv, NEW c \in Iscsi!Conns, Iscsi!Receive(c), down[c][1].op = "response"
  PROVE  AckedInv' /\ PipeInv(c)' /\ ConfirmedInv(c)' /\ ResponseInv(c)'
<1>1. /\ peer[c] = "open" /\ Received(c, down[c][1]) /\ 1 \in DOMAIN down[c]
      /\ \A i \in DOMAIN down'[c] : i + 1 \in DOMAIN down[c] /\ down'[c][i] = down[c][i + 1] /\ i + 1 # 1 /\ i \in Nat
      /\ UNCHANGED <<state, disk, peer, issued>> /\ Pipe(c)' = Pipe(c)
  BY ReceiveFacts
<1>2. PICK g : g = down[c][1].tag
  OBVIOUS
<1>3. waits' = waits \ Own(c, g) /\ acked' = acked \union Own(c, g) /\ tmf' = tmf /\ aborted' = aborted
  BY <1>1, <1>2 DEF Received
<1>4. /\ PipeInv(c) /\ ConfirmedInv(c) /\ ResponseInv(c) /\ AckedInv
  BY SessionFacts
<1>5. /\ \A w \in Own(c, g) : w \in waits /\ issued[w].conn = c /\ issued[w].tag = g /\ w \notin Pipe(c) /\ Stored(w)
      /\ Own(c, g) # {} => \A j \in DOMAIN down'[c] :
           down'[c][j].op = "response" => down'[c][j].tag # g
  <2>1. ASSUME NEW w \in Own(c, g)
        PROVE  /\ w \in waits /\ issued[w].conn = c /\ issued[w].tag = g /\ w \notin Pipe(c) /\ Stored(w)
               /\ \A j \in DOMAIN down'[c] : down'[c][j].op = "response" => down'[c][j].tag # g
    <3>1. w \in waits /\ issued[w].conn = c /\ issued[w].tag = g
      BY DEF Own
    <3>2. g # TmfTag
      BY <3>1, SessionFacts
    <3>3. PICK u \in waits : issued[u].conn = c /\ issued[u].tag = g /\ u \notin Pipe(c) /\ Stored(u)
      BY <1>1, <1>2, <1>4, <3>2 DEF ResponseInv
    <3>4. u = w
      BY <3>1, <3>3, TagsAreOfOne
    <3>5. \A j \in DOMAIN down'[c] : down'[c][j].op = "response" => down'[c][j].tag # g
      BY <1>1, <1>2, <1>4, <3>2 DEF ResponseInv
    <3> QED BY <3>1, <3>3, <3>4, <3>5
  <2> QED BY <2>1
<1>6. \A w : (Stored(w)' <=> Stored(w)) /\ (Latest(w)' <=> Latest(w))
  BY <1>1 DEF Stored, Latest
<1>7. AckedInv'
  BY <1>3, <1>4, <1>5, <1>6 DEF AckedInv
<1>8. PipeInv(c)'
  BY <1>1, <1>3, <1>4, <1>5, <1>6 DEF PipeInv
<1>9. ConfirmedInv(c)'
  <2>1. ASSUME NEW i \in DOMAIN down'[c], down'[c][i].op = "complete"
        PROVE  \E v \in waits' :
                 /\ tmf'[c] = {v} /\ issued'[v].conn = c /\ v \notin Pipe(c)'
                 /\ \A j \in DOMAIN down'[c] : down'[c][j].op = "response" => down'[c][j].tag # issued'[v].tag
    <3>1. PICK v \in waits :
            /\ tmf[c] = {v} /\ issued[v].conn = c /\ v \notin Pipe(c)
            /\ \A j \in DOMAIN down[c] : down[c][j].op = "response" => down[c][j].tag # issued[v].tag
      BY <1>1, <1>4, <2>1 DEF ConfirmedInv
    <3>2. v \notin Own(c, g)
      BY <1>1, <1>2, <3>1 DEF Own
    <3> QED BY <1>1, <1>3, <3>1, <3>2
  <2> QED BY <2>1 DEF ConfirmedInv
<1>10. ResponseInv(c)'
  <2>1. ASSUME NEW i \in DOMAIN down'[c], down'[c][i].op = "response", down'[c][i].tag # TmfTag
        PROVE  /\ \E u \in waits' : /\ issued'[u].conn = c /\ issued'[u].tag = down'[c][i].tag
                                    /\ u \notin Pipe(c)' /\ Stored(u)'
               /\ \A j \in DOMAIN down'[c] :
                    down'[c][j].op = "response" /\ down'[c][j].tag = down'[c][i].tag => i = j
    <3>1. i + 1 \in DOMAIN down[c] /\ down'[c][i] = down[c][i + 1]
      BY <1>1
    <3>2. /\ \E u \in waits : /\ issued[u].conn = c /\ issued[u].tag = down[c][i + 1].tag
                              /\ u \notin Pipe(c) /\ Stored(u)
          /\ \A j \in DOMAIN down[c] :
               down[c][j].op = "response" /\ down[c][j].tag = down[c][i + 1].tag => i + 1 = j
      BY <1>4, <2>1, <3>1 DEF ResponseInv
    <3>3. PICK u \in waits : /\ issued[u].conn = c /\ issued[u].tag = down'[c][i].tag
                             /\ u \notin Pipe(c) /\ Stored(u)
      BY <3>1, <3>2
    <3>4. u \notin Own(c, g)
      BY <1>5, <2>1, <3>3 DEF Own
    <3>5. ASSUME NEW j \in DOMAIN down'[c], down'[c][j].op = "response", down'[c][j].tag = down'[c][i].tag
          PROVE  i = j
      <4>1. j + 1 \in DOMAIN down[c] /\ down'[c][j] = down[c][j + 1] /\ i \in Nat /\ j \in Nat
        BY <1>1
      <4>2. i + 1 = j + 1
        BY <3>1, <3>2, <3>5, <4>1
      <4> QED BY <4>1, <4>2
    <3> QED BY <1>1, <1>3, <1>6, <3>3, <3>4, <3>5
  <2> QED BY <2>1 DEF ResponseInv
<1> QED BY <1>7, <1>8, <1>9, <1>10

\* The confirmation that a write has ended.
LEMMA ReceiveComplete ==
  ASSUME SessionInv, NEW c \in Iscsi!Conns, Iscsi!Receive(c), down[c][1].op = "complete"
  PROVE  AckedInv' /\ PipeInv(c)' /\ ConfirmedInv(c)' /\ ResponseInv(c)'
<1>1. /\ peer[c] = "open" /\ Received(c, down[c][1]) /\ 1 \in DOMAIN down[c]
      /\ \A i \in DOMAIN down'[c] : i + 1 \in DOMAIN down[c] /\ down'[c][i] = down[c][i + 1] /\ i + 1 # 1 /\ i \in Nat
      /\ UNCHANGED <<state, disk, peer, issued>> /\ Pipe(c)' = Pipe(c)
  BY ReceiveFacts
<1>2. /\ PipeInv(c) /\ ConfirmedInv(c) /\ ResponseInv(c) /\ AckedInv /\ ManagedOnce(c)
  BY SessionFacts, BaseTypes
<1>3. PICK v \in waits :
        /\ tmf[c] = {v} /\ issued[v].conn = c /\ v \notin Pipe(c)
        /\ \A j \in DOMAIN down[c] : down[c][j].op = "response" => down[c][j].tag # issued[v].tag
  BY <1>1, <1>2 DEF ConfirmedInv
<1>4. waits' = waits \ {v} /\ acked' = acked /\ aborted' \subseteq aborted \union {v}
  BY <1>1, <1>3 DEF Received
<1>6. \A w : (Stored(w)' <=> Stored(w)) /\ (Latest(w)' <=> Latest(w))
  BY <1>1 DEF Stored, Latest
<1>7. AckedInv'
  BY <1>2, <1>4, <1>6 DEF AckedInv
<1>8. PipeInv(c)'
  BY <1>1, <1>2, <1>3, <1>4, <1>6 DEF PipeInv
<1>9. ConfirmedInv(c)'
  <2>1. \A j \in DOMAIN down[c] : down[c][j].op \in Ends => 1 = j
    BY <1>1, <1>2 DEF ManagedOnce, Once, Ends
  <2>2. \A i \in DOMAIN down'[c] : down'[c][i].op # "complete"
    BY <1>1, <2>1 DEF Ends
  <2> QED BY <2>2 DEF ConfirmedInv
<1>10. ResponseInv(c)'
  <2>1. ASSUME NEW i \in DOMAIN down'[c], down'[c][i].op = "response", down'[c][i].tag # TmfTag
        PROVE  /\ \E u \in waits' : /\ issued'[u].conn = c /\ issued'[u].tag = down'[c][i].tag
                                    /\ u \notin Pipe(c)' /\ Stored(u)'
               /\ \A j \in DOMAIN down'[c] :
                    down'[c][j].op = "response" /\ down'[c][j].tag = down'[c][i].tag => i = j
    <3>1. i + 1 \in DOMAIN down[c] /\ down'[c][i] = down[c][i + 1]
      BY <1>1
    <3>2. /\ \E u \in waits : /\ issued[u].conn = c /\ issued[u].tag = down[c][i + 1].tag
                              /\ u \notin Pipe(c) /\ Stored(u)
          /\ \A j \in DOMAIN down[c] :
               down[c][j].op = "response" /\ down[c][j].tag = down[c][i + 1].tag => i + 1 = j
      BY <1>2, <2>1, <3>1 DEF ResponseInv
    <3>3. PICK u \in waits : /\ issued[u].conn = c /\ issued[u].tag = down'[c][i].tag
                             /\ u \notin Pipe(c) /\ Stored(u)
      BY <3>1, <3>2
    <3>4. u # v
      BY <1>3, <2>1, <3>1, <3>3
    <3>5. ASSUME NEW j \in DOMAIN down'[c], down'[c][j].op = "response", down'[c][j].tag = down'[c][i].tag
          PROVE  i = j
      <4>1. j + 1 \in DOMAIN down[c] /\ down'[c][j] = down[c][j + 1] /\ i \in Nat /\ j \in Nat
        BY <1>1
      <4>2. i + 1 = j + 1
        BY <3>1, <3>2, <3>5, <4>1
      <4> QED BY <4>1, <4>2
    <3> QED BY <1>1, <1>4, <1>6, <3>3, <3>4, <3>5
  <2> QED BY <2>1 DEF ResponseInv
<1> QED BY <1>7, <1>8, <1>9, <1>10

\* Anything else: no write is answered or ends.
LEMMA ReceiveOther ==
  ASSUME SessionInv, NEW c \in Iscsi!Conns, Iscsi!Receive(c), down[c][1].op \notin {"response", "complete"}
  PROVE  AckedInv' /\ PipeInv(c)' /\ ConfirmedInv(c)' /\ ResponseInv(c)'
<1>1. /\ peer[c] = "open" /\ Received(c, down[c][1]) /\ 1 \in DOMAIN down[c]
      /\ \A i \in DOMAIN down'[c] : i + 1 \in DOMAIN down[c] /\ down'[c][i] = down[c][i + 1] /\ i + 1 # 1 /\ i \in Nat
      /\ UNCHANGED <<state, disk, peer, issued>> /\ Pipe(c)' = Pipe(c)
  BY ReceiveFacts
<1>2. /\ PipeInv(c) /\ ConfirmedInv(c) /\ ResponseInv(c) /\ AckedInv /\ ManagedOnce(c)
  BY SessionFacts, BaseTypes
<1>3. waits' = waits /\ acked' = acked /\ aborted' = aborted /\ (tmf' = tmf \/ down[c][1].op = "no task")
  BY <1>1 DEF Received
<1>6. \A w : (Stored(w)' <=> Stored(w)) /\ (Latest(w)' <=> Latest(w))
  BY <1>1 DEF Stored, Latest
<1>7. AckedInv'
  BY <1>2, <1>3, <1>6 DEF AckedInv
<1>8. PipeInv(c)'
  BY <1>1, <1>2, <1>3, <1>6 DEF PipeInv
<1>9. ConfirmedInv(c)'
  <2>1. CASE down[c][1].op = "no task"
    <3>1. \A j \in DOMAIN down[c] : down[c][j].op \in Ends => 1 = j
      BY <1>1, <1>2, <2>1 DEF ManagedOnce, Once, Ends
    <3>2. \A i \in DOMAIN down'[c] : down'[c][i].op # "complete"
      BY <1>1, <3>1 DEF Ends
    <3> QED BY <3>2 DEF ConfirmedInv
  <2>2. CASE tmf' = tmf
    <3>1. ASSUME NEW i \in DOMAIN down'[c], down'[c][i].op = "complete"
          PROVE  \E v \in waits :
                   /\ tmf[c] = {v} /\ issued[v].conn = c /\ v \notin Pipe(c)
                   /\ \A j \in DOMAIN down'[c] : down'[c][j].op = "response" => down'[c][j].tag # issued[v].tag
      <4>1. PICK v \in waits :
              /\ tmf[c] = {v} /\ issued[v].conn = c /\ v \notin Pipe(c)
              /\ \A j \in DOMAIN down[c] : down[c][j].op = "response" => down[c][j].tag # issued[v].tag
        BY <1>1, <1>2, <3>1 DEF ConfirmedInv
      <4> QED BY <1>1, <4>1
    <3> QED BY <1>1, <1>3, <2>2, <3>1 DEF ConfirmedInv
  <2> QED BY <1>3, <2>1, <2>2
<1>10. ResponseInv(c)'
  <2>1. ASSUME NEW i \in DOMAIN down'[c], down'[c][i].op = "response", down'[c][i].tag # TmfTag
        PROVE  /\ \E u \in waits' : /\ issued'[u].conn = c /\ issued'[u].tag = down'[c][i].tag
                                    /\ u \notin Pipe(c)' /\ Stored(u)'
               /\ \A j \in DOMAIN down'[c] :
                    down'[c][j].op = "response" /\ down'[c][j].tag = down'[c][i].tag => i = j
    <3>1. i + 1 \in DOMAIN down[c] /\ down'[c][i] = down[c][i + 1]
      BY <1>1
    <3>2. /\ \E u \in waits : /\ issued[u].conn = c /\ issued[u].tag = down[c][i + 1].tag
                              /\ u \notin Pipe(c) /\ Stored(u)
          /\ \A j \in DOMAIN down[c] :
               down[c][j].op = "response" /\ down[c][j].tag = down[c][i + 1].tag => i + 1 = j
      BY <1>2, <2>1, <3>1 DEF ResponseInv
    <3>3. PICK u \in waits : /\ issued[u].conn = c /\ issued[u].tag = down'[c][i].tag
                             /\ u \notin Pipe(c) /\ Stored(u)
      BY <3>1, <3>2
    <3>5. ASSUME NEW j \in DOMAIN down'[c], down'[c][j].op = "response", down'[c][j].tag = down'[c][i].tag
          PROVE  i = j
      <4>1. j + 1 \in DOMAIN down[c] /\ down'[c][j] = down[c][j + 1] /\ i \in Nat /\ j \in Nat
        BY <1>1
      <4>2. i + 1 = j + 1
        BY <3>1, <3>2, <3>5, <4>1
      <4> QED BY <4>1, <4>2
    <3> QED BY <1>1, <1>3, <1>6, <3>3, <3>5
  <2> QED BY <2>1 DEF ResponseInv
<1> QED BY <1>7, <1>8, <1>9, <1>10

LEMMA ReceiveSession ==
  ASSUME SessionInv, BaseInv', NoResets', NEW c \in Iscsi!Conns, Iscsi!Receive(c) PROVE SessionInv'
<1>1. /\ peer[c] = "open" /\ UNCHANGED <<disk, peer, issued>>
      /\ Elsewhere(c) /\ IssuedKept /\ waits' \subseteq waits
      /\ Ordered(c)' /\ TaskInv(c)'
  BY ReceiveFacts
<1>2. AckedInv' /\ PipeInv(c)' /\ ConfirmedInv(c)' /\ ResponseInv(c)'
  BY ReceiveResponse, ReceiveComplete, ReceiveOther
<1>3. DataInv(c)' /\ ManagedInv(c)'
  BY ReceiveData, ReceiveManaged
<1>4. \A d \in Iscsi!Conns : d # c => ConnInv(d)'
  BY <1>1, IdleElsewhere
<1>5. OneSession'
  BY <1>1, OneSessionKept
<1>6. WaitsInv'
  BY <1>1, SessionFacts DEF WaitsInv, Latest
<1>7. ConnInv(c)'
  BY <1>1, <1>2, <1>3 DEF ConnInv
<1> QED BY <1>2, <1>4, <1>5, <1>6, <1>7 DEF SessionInv

---------------------------------------------------------------------------
LEMMA SessionInit == ASSUME Iscsi!Init PROVE SessionInv
<1>1. BaseInv
  BY BaseInit
<1>2. /\ NoResets /\ OneSession /\ WaitsInv /\ AckedInv
  BY OnePdu DEF Iscsi!Init, NoResets, OneSession, WaitsInv, AckedInv
<1>3. ASSUME NEW c \in Iscsi!Conns PROVE ConnInv(c)
  <2>1. /\ tasks[c] = <<>> /\ running[c] = None /\ up[c] = <<>> /\ down[c] = <<>>
    BY DEF Iscsi!Init
  <2>2. \A w : w \notin Pipe(c)
    BY <2>1 DEF Pipe, Commands, OfTasks
  <2>3. PipeInv(c)
    BY <2>2 DEF PipeInv
  <2>4. Ordered(c) /\ DataInv(c) /\ TaskInv(c) /\ ManagedInv(c) /\ ConfirmedInv(c) /\ ResponseInv(c)
    BY <2>1 DEF Ordered, DataInv, TaskInv, ManagedInv, ConfirmedInv, ResponseInv
  <2> QED BY <2>3, <2>4 DEF ConnInv
<1> QED BY <1>1, <1>2, <1>3 DEF SessionInv

LEMMA SessionKept == ASSUME SessionInv, UNCHANGED Iscsi!vars PROVE SessionInv'
<1>1. UNCHANGED <<state, nexus, reads, tasks, running, exp, ping, disk, up, down, peer, issued, waits, tmf, acked, aborted>>
  BY DEF Iscsi!vars, Iscsi!targetVars, Iscsi!peerVars
<1>2. BaseInv'
  BY SessionFacts, BaseKept
<1>3. NoResets' /\ OneSession' /\ WaitsInv' /\ AckedInv'
  BY <1>1, SessionFacts DEF NoResets, OneSession, Iscsi!Drained, WaitsInv, AckedInv, Latest, Stored
<1>4. ASSUME NEW c \in Iscsi!Conns PROVE ConnInv(c)'
  <2>1. Pipe(c)' = Pipe(c)
    BY <1>1 DEF Pipe
  <2>2. /\ PipeInv(c) /\ Ordered(c) /\ DataInv(c) /\ TaskInv(c) /\ ManagedInv(c)
        /\ ConfirmedInv(c) /\ ResponseInv(c)
    BY SessionFacts
  <2>3. PipeInv(c)'
    BY <1>1, <2>1, <2>2 DEF PipeInv, Latest
  <2>4. Ordered(c)' /\ DataInv(c)' /\ TaskInv(c)' /\ ManagedInv(c)'
    BY <1>1, <2>2 DEF Ordered, DataInv, TaskInv, ManagedInv
  <2>5. ConfirmedInv(c)' /\ ResponseInv(c)'
    BY <1>1, <2>1, <2>2 DEF ConfirmedInv, ResponseInv, Stored
  <2> QED BY <2>3, <2>4, <2>5 DEF ConnInv
<1> QED BY <1>2, <1>3, <1>4 DEF SessionInv

LEMMA HandleSession ==
  ASSUME SessionInv, BaseInv', NoResets', NEW c \in Iscsi!Conns, Iscsi!Handle(c) PROVE SessionInv'
<1>1. CASE Iscsi!HandleLongWrite(c) BY <1>1, HandleLongWriteSession
<1>2. CASE Iscsi!HandleShortWrite(c) BY <1>2, HandleShortWriteSession
<1>3. CASE Iscsi!HandleData(c) BY <1>3, HandleDataSession
<1>4. CASE Iscsi!HandleUnknownData(c) BY <1>4, HandleUnknownDataSession
<1>5. CASE Iscsi!HandleAbort(c) BY <1>5, HandleAbortSession
<1>6. CASE Iscsi!HandleReset(c) BY <1>6, HandleResetSession
<1>7. CASE Iscsi!HandlePong(c) BY <1>7, HandlePongSession
<1>8. CASE Iscsi!Execute(c) BY <1>8, ExecuteSession
<1>9. CASE Iscsi!ReadFails(c) BY <1>9, CloseSession DEF Iscsi!ReadFails
<1> QED BY <1>1, <1>2, <1>3, <1>4, <1>5, <1>6, <1>7, <1>8, <1>9 DEF Iscsi!Handle

LEMMA SessionStep == ASSUME SessionInv, Iscsi!Next, NoResets' PROVE SessionInv'
<1>0. BaseInv'
  BY SessionFacts, BaseStep
<1>1. PICK c \in Iscsi!Conns :
        \/ Iscsi!Login(c)
        \/ \E tag \in Tags, lba \in Lbas, len \in 1 .. Parts : Iscsi!Issue(c, tag, lba, len)
        \/ \E w \in waits : Iscsi!Abort(c, w)
        \/ Iscsi!ResetUnit(c)
        \/ Iscsi!Receive(c)
        \/ \E how \in {"closed", "silent"} : Iscsi!Leave(c, how)
        \/ Iscsi!SeeClosed(c)
        \/ Iscsi!Handle(c)
        \/ Iscsi!Worker(c)
  BY DEF Iscsi!Next
<1>2. CASE Iscsi!Login(c) BY <1>0, <1>2, LoginSession
<1>3. CASE \E tag \in Tags, lba \in Lbas, len \in 1 .. Parts : Iscsi!Issue(c, tag, lba, len)
  BY <1>0, <1>3, IssueSession
<1>4. CASE \E w \in waits : Iscsi!Abort(c, w) BY <1>0, <1>4, AbortSession
<1>5. CASE Iscsi!ResetUnit(c) BY <1>0, <1>5, ResetUnitSession
<1>6. CASE Iscsi!Receive(c) BY <1>0, <1>6, ReceiveSession
<1>7. CASE \E how \in {"closed", "silent"} : Iscsi!Leave(c, how) BY <1>0, <1>7, LeaveSession
<1>8. CASE Iscsi!SeeClosed(c) BY <1>0, <1>8, LeaveSession DEF Iscsi!SeeClosed
<1>9. CASE Iscsi!Handle(c) BY <1>0, <1>9, HandleSession
<1>10. CASE Iscsi!Ping(c) BY <1>0, <1>10, PingSession
<1>11. CASE Iscsi!PingTimeout(c) BY <1>0, <1>11, CloseSession DEF Iscsi!PingTimeout
<1> QED BY <1>1, <1>2, <1>3, <1>4, <1>5, <1>6, <1>7, <1>8, <1>9, <1>10, <1>11 DEF Iscsi!Worker

LEMMA SessionSafe == ASSUME SessionInv PROVE Iscsi!Safety
<1>1. Iscsi!TypeOK /\ Iscsi!NumberIsExpected
  BY SessionFacts, BaseTypes, BaseNumberIsExpected
<1>2. Iscsi!AcknowledgedIsStored
  BY SessionFacts DEF AckedInv, Latest, Stored, Iscsi!AcknowledgedIsStored
<1> QED BY <1>1, <1>2 DEF Iscsi!Safety

LEMMA OnlyExecuteWrites ==
  ASSUME Iscsi!Next
  PROVE  disk' = disk \/ \E c \in Iscsi!Conns : Iscsi!Execute(c)
<1>1. PICK c \in Iscsi!Conns :
        \/ Iscsi!Login(c)
        \/ \E tag \in Tags, lba \in Lbas, len \in 1 .. Parts : Iscsi!Issue(c, tag, lba, len)
        \/ \E w \in waits : Iscsi!Abort(c, w)
        \/ Iscsi!ResetUnit(c)
        \/ Iscsi!Receive(c)
        \/ \E how \in {"closed", "silent"} : Iscsi!Leave(c, how)
        \/ Iscsi!SeeClosed(c)
        \/ Iscsi!Handle(c)
        \/ Iscsi!Worker(c)
  BY DEF Iscsi!Next
<1>2. CASE Iscsi!Login(c) BY <1>2 DEF Iscsi!Login
<1>3. CASE \E tag \in Tags, lba \in Lbas, len \in 1 .. Parts : Iscsi!Issue(c, tag, lba, len)
  BY <1>3 DEF Iscsi!Issue, Iscsi!targetVars
<1>4. CASE \E w \in waits : Iscsi!Abort(c, w)
  BY <1>4 DEF Iscsi!Abort, Iscsi!Manage, Iscsi!targetVars
<1>5. CASE Iscsi!ResetUnit(c) BY <1>5 DEF Iscsi!ResetUnit, Iscsi!Manage, Iscsi!targetVars
<1>6. CASE Iscsi!Receive(c) BY <1>6 DEF Iscsi!Receive, Iscsi!targetVars
<1>7. CASE \E how \in {"closed", "silent"} : Iscsi!Leave(c, how)
  BY <1>7 DEF Iscsi!Leave, Iscsi!targetVars
<1>8. CASE Iscsi!SeeClosed(c) BY <1>8 DEF Iscsi!SeeClosed, Iscsi!Leave, Iscsi!targetVars
<1>9. CASE Iscsi!Handle(c)
  <2>1. CASE Iscsi!HandleLongWrite(c) BY <2>1 DEF Iscsi!HandleLongWrite
  <2>2. CASE Iscsi!HandleShortWrite(c) BY <2>2 DEF Iscsi!HandleShortWrite
  <2>3. CASE Iscsi!HandleData(c) BY <2>3 DEF Iscsi!HandleData
  <2>4. CASE Iscsi!HandleUnknownData(c) BY <2>4 DEF Iscsi!HandleUnknownData
  <2>5. CASE Iscsi!HandleAbort(c) BY <2>5 DEF Iscsi!HandleAbort
  <2>6. CASE Iscsi!HandleReset(c) BY <2>6 DEF Iscsi!HandleReset
  <2>7. CASE Iscsi!HandlePong(c) BY <2>7 DEF Iscsi!HandlePong
  <2>8. CASE Iscsi!ReadFails(c) BY <2>8 DEF Iscsi!ReadFails, Iscsi!Close
  <2> QED BY <1>9, <2>1, <2>2, <2>3, <2>4, <2>5, <2>6, <2>7, <2>8 DEF Iscsi!Handle
<1>10. CASE Iscsi!Worker(c) BY <1>10 DEF Iscsi!Worker, Iscsi!Ping, Iscsi!PingTimeout, Iscsi!Close
<1> QED BY <1>1, <1>2, <1>3, <1>4, <1>5, <1>6, <1>7, <1>8, <1>9, <1>10

LEMMA AbortedSafe ==
  ASSUME SessionInv, Iscsi!Next
  PROVE  \A p \in Iscsi!Places : Iscsi!WrittenAs(p) \notin aborted
<1> SUFFICES ASSUME NEW p \in Iscsi!Places PROVE Iscsi!WrittenAs(p) \notin aborted
  OBVIOUS
<1>0. 0 \notin aborted
  <2>1. DOMAIN issued = 1 .. Len(issued) /\ Len(issued) \in Nat
    BY SessionFacts, BaseTypes, TheIssued
  <2> QED BY <2>1, SessionFacts
<1>1. disk' = disk \/ \E c \in Iscsi!Conns : Iscsi!Execute(c)
  BY OnlyExecuteWrites
<1>2. CASE disk' = disk
  BY <1>0, <1>2 DEF Iscsi!WrittenAs
<1>3. CASE \E c \in Iscsi!Conns : Iscsi!Execute(c)
  <2>1. PICK c \in Iscsi!Conns : Iscsi!Execute(c)
    BY <1>3
  <2>2. PICK u : u = running[c].w
    OBVIOUS
  <2>3. u \in Pipe(c) /\ (disk'[p] = disk[p] \/ disk'[p] = u)
    BY <2>1, <2>2, ExecuteStores
  <2>4. u \notin aborted
    BY <2>3, PipeIssued
  <2> QED BY <1>0, <2>3, <2>4 DEF Iscsi!WrittenAs
<1> QED BY <1>1, <1>2, <1>3

---------------------------------------------------------------------------
(* The part that a behaviour chose keeps its invariant, the others do not move. *)

HostsInv ==
  /\ subject = "downloads" => DownIInv
  /\ subject = "one file" => Cache!TypeOK
  /\ subject = "machines" => VmIInv
  /\ subject \in {"writes", "logins"} => SessionInv
  /\ subject = "resets" => BaseInv

LEMMA HostsInit ==
  ASSUME Init PROVE HostsInv
BY TypeInit, DownInit, VmInit, SessionInit, BaseInit DEF Init, HostsInv

LEMMA DownloadMoves ==
  ASSUME HostsInv, subject \in {"downloads", "one file"}, [Next]_vars
  PROVE  /\ HostsInv' /\ subject' = subject /\ [Cache!Next]_(Cache!vars)
         /\ subject = "downloads" => [Cache!Next /\ Careful]_(Cache!vars)
<1>1. /\ subject' = subject /\ [Cache!Next]_(Cache!vars)
      /\ subject = "downloads" => [Cache!Next /\ Careful]_(Cache!vars)
  BY DEF Next, vars, downloadVars, Cache!vars
<1>2. CASE subject = "downloads"
  BY <1>1, <1>2, DownStep DEF HostsInv
<1>3. CASE subject = "one file"
  BY <1>1, <1>3, TypeStep DEF HostsInv
<1> QED BY <1>1, <1>2, <1>3

LEMMA MachinesMove ==
  ASSUME HostsInv, subject = "machines", [Next]_vars
  PROVE  HostsInv'
<1>1. subject' = subject /\ [Boxes!Next]_(Boxes!vars)
  BY DEF Next, vars, boxVars, Boxes!vars, Boxes!boxes
<1>2. VmIInv'
  BY <1>1, VmStep DEF HostsInv
<1> QED BY <1>1, <1>2 DEF HostsInv

LEMMA SessionMoves ==
  ASSUME subject \in {"writes", "logins", "resets"}, [Next]_vars
  PROVE  /\ subject' = subject
         /\ \/ Iscsi!Next /\ (subject # "resets" => NoResets')
            \/ UNCHANGED Iscsi!vars
<1>1. (UNCHANGED vars) => UNCHANGED Iscsi!vars /\ subject' = subject
  BY DEF vars, sessionVars, Iscsi!vars, Iscsi!targetVars, Iscsi!peerVars
<1>2. NoReset => NoResets'
  BY DEF NoReset, NoResets
<1> QED BY <1>1, <1>2 DEF Next

LEMMA SessionsMove ==
  ASSUME HostsInv, subject \in {"writes", "logins", "resets"}, [Next]_vars
  PROVE  HostsInv'
<1>1. subject' = subject
  BY SessionMoves
<1>2. CASE subject \in {"writes", "logins"}
  <2>1. SessionInv'
    BY <1>2, SessionMoves, SessionStep, SessionKept DEF HostsInv
  <2> QED BY <1>1, <1>2, <2>1 DEF HostsInv
<1>3. CASE subject = "resets"
  <2>1. BaseInv'
    BY <1>3, SessionMoves, BaseStep, BaseKept DEF HostsInv
  <2> QED BY <1>1, <1>3, <2>1 DEF HostsInv
<1> QED BY <1>2, <1>3

LEMMA HostsStep ==
  ASSUME HostsInv, [Next]_vars PROVE HostsInv'
<1>1. CASE subject \in {"downloads", "one file"}
  BY <1>1, DownloadMoves
<1>2. CASE subject = "machines"
  BY <1>2, MachinesMove
<1>3. CASE subject \in {"writes", "logins", "resets"}
  BY <1>3, SessionsMove
<1>4. CASE subject \notin {"downloads", "one file", "machines", "writes", "logins", "resets"}
  <2>1. subject' = subject
    BY <1>4 DEF Next, vars
  <2> QED BY <1>4, <2>1 DEF HostsInv
<1> QED BY <1>1, <1>2, <1>3, <1>4

\* The inductive invariant of the downloads, the machines and the sessions of a host.
THEOREM HostsInvHolds == Spec => []HostsInv
BY HostsInit, HostsStep, PTL DEF Spec

\* For any scripts and files of any size, any failures and restarts: what
\* concurrent_safe_download() returns is the file of the server, and one script
\* with one transfer works on it at a time (directories/prerequisites).
THEOREM DownloadSafetyHolds == Spec => []DownloadSafety
<1>1. HostsInv => DownloadSafety
  BY DownSafe DEF HostsInv, DownloadSafety
<1> QED BY <1>1, HostsInvHolds, PTL

\* For the same: what has been fetched is not fetched again (CurlProcess, which resumes).
THEOREM NothingIsFetchedTwiceHolds == Spec => NothingIsFetchedTwice
<1>1. ASSUME HostsInv, [Next]_vars
      PROVE  [(subject = "downloads") => \A f \in Files : Cache!Kept(f)]_vars
  <2> SUFFICES ASSUME subject = "downloads", NEW f \in Files PROVE Cache!Kept(f)
    OBVIOUS
  <2> QED BY <1>1, DownloadMoves, DownKept DEF HostsInv
<1> QED BY <1>1, HostsInvHolds, PTL DEF Spec, NothingIsFetchedTwice

\* For any processes, accounts, ranges of ports and snapshots, any failed commands and
\* kills: a machine in use is the one its process made, with its ports and its disk, and
\* what is not in use is gone, unless its purge failed or its process was killed
\* (claimed_port_range(), purge(), prepare()).
THEOREM HostSafetyHolds == Spec => []HostSafety
<1>1. HostsInv => HostSafety
  BY VmSafe DEF HostsInv, HostSafety
<1> QED BY <1>1, HostsInvHolds, PTL

\* For any number of logins and writes, writes of any length, any places, tags and
\* bursts, and machines that end at any moment and log in again when the old session
\* has drained: a write that was acknowledged is on the disk until its place is written
\* again, if no reset is asked for, and a command has the number that the target
\* expects (iscsid.go, which matches data, responses and task management to writes by
\* their tags, and counts ExpCmdSN in two places).
THEOREM SessionSafetyHolds == Spec => []SessionSafety
<1>1. SessionInv => Iscsi!Safety
  BY SessionSafe
<1>2. BaseInv => Iscsi!TypeOK /\ Iscsi!NumberIsExpected
  BY BaseTypes, BaseNumberIsExpected
<1>3. HostsInv => SessionSafety
  BY <1>1, <1>2 DEF HostsInv, SessionSafety
<1> QED BY <1>3, HostsInvHolds, PTL

\* For the same: no data of a write reaches the disk after ABORT TASK was confirmed for
\* it (RemoveByTag() in task_queue.go, and the goroutine that executes what it reads).
THEOREM AbortedIsNotWrittenHolds == Spec => AbortedIsNotWritten
<1>1. ASSUME HostsInv, [Next]_vars
      PROVE  [(subject \in {"writes", "logins"}) =>
                \A p \in Iscsi!Places : Iscsi!WrittenAs(p) \notin aborted]_vars
  <2>1. CASE UNCHANGED vars
    BY <2>1
  <2>2. CASE Next /\ subject \in {"writes", "logins"} /\ ~(UNCHANGED vars)
    <3>1. Iscsi!Next
      BY <2>2 DEF Next
    <3>2. SessionInv
      BY <1>1, <2>2 DEF HostsInv
    <3> QED BY <3>1, <3>2, AbortedSafe
  <2> QED BY <1>1, <2>1, <2>2
<1> QED BY <1>1, HostsInvHolds, PTL DEF Spec, AbortedIsNotWritten

=============================================================================
