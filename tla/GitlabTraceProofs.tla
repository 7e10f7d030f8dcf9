------------------------- MODULE GitlabTraceProofs --------------------------
(***************************************************************************)
(* Proofs about GitlabTrace for any number of updates and faults.          *)
(***************************************************************************)
EXTENDS GitlabTrace, FiniteSetTheorems, TLAPS

LatePatches == {r \in late : r.kind = "PATCH"}
LatePatchesOf(k) == {r \in LatePatches : r.update = k}
Copies(k) == {i \in DOMAIN trace : trace[i] = k}

\* No offset that was ever sent is beyond the end of the trace, and no late
\* request belongs to an update that was not read yet.
OffsetsInv ==
  /\ offset <= Len(trace)
  /\ request.offset <= Len(trace)
  /\ \A r \in late : r.update <= Current
  /\ \A r \in LatePatches : r.offset <= Len(trace)

\* Nothing in the trace is newer than the update being reported, nor newer than
\* a late chunk that would fit at the end.
OrderInv ==
  /\ \A i \in DOMAIN trace : trace[i] <= Current
  /\ \A r \in LatePatches :
        r.offset = Len(trace) => \A i \in DOMAIN trace : trace[i] <= r.update
  /\ OutputInOrder

Kept(k) == InTrace(k) \/ k \in dropped

\* What process_one_update() has achieved for the current update.
ReportInv ==
  /\ at = "put" => InTrace(Current)
  /\ at = "reported" => Kept(Current) \/ state # "running"
  /\ OutputNotForgotten

\* A late PUT cannot end the job before the output that belongs to it.
ResultInv ==
  /\ \A r \in late :
        (r.kind = "PUT" /\ state = "running") => \A k \in 1 .. r.update : Kept(k)
  /\ OutputBeforeResult

\* A second HTTP 416 for the same chunk is on its way.
WrongResync ==
  IF at = "patch" /\ request.resynced = "yes" /\ request.offset # Len(trace) THEN 1 ELSE 0

\* Each fault leaves one late request, and only such a request spoils an offset.
ExitsInv == exits + Cardinality(LatePatches) + WrongResync <= faults

\* Whether the chunk is still to be sent by the attempt in progress or to come.
ToSend(k) ==
  IF acked < k /\ ~(k = Current /\ at \in {"put", "reported"}) THEN 1 ELSE 0

\* Copies that are in the trace, and that may still get there while the job runs.
CopiesInv ==
  \A k \in 1 .. Updates :
     /\ Cardinality(Copies(k)) <= 1 + faults
     /\ state = "running" =>
           Cardinality(Copies(k)) + Cardinality(LatePatchesOf(k)) + ToSend(k) <= 1 + faults

\* The inductive invariant.
IInv ==
  /\ TypeOK
  /\ IsFiniteSet(late)
  /\ OffsetsInv
  /\ OrderInv
  /\ ReportInv
  /\ ResultInv
  /\ ExitsInv
  /\ CopiesInv

---------------------------------------------------------------------------
\* Initially the trace has the requester's line only.
LEMMA InitIInv == Init => IInv
  <1> SUFFICES ASSUME Init PROVE IInv
    OBVIOUS
  <1>0. Updates \in Nat
    BY ConstantsAssumption DEF ConstantsAssumption
  <1>1. TypeOK
    BY ConstantsAssumption DEF ConstantsAssumption, Init, TypeOK, ServerTypeOK,
       UpdaterTypeOK, HistoryTypeOK, Chunks, Request, FirstTry
  <1>2. IsFiniteSet(late) /\ LatePatches = {} /\ \A k : LatePatchesOf(k) = {}
    BY FS_EmptySet DEF Init, LatePatches, LatePatchesOf
  <1>3. DOMAIN trace = {1} /\ trace[1] = 0 /\ Len(trace) = 1
    BY DEF Init
  <1>4. OffsetsInv /\ OrderInv
    BY <1>2, <1>3 DEF Init, OffsetsInv, OrderInv, OutputInOrder, Current, FirstTry
  <1>5. ReportInv /\ ResultInv
    BY DEF Init, ReportInv, OutputNotForgotten, ResultInv, OutputBeforeResult
  <1>6. ExitsInv
    BY <1>2, FS_EmptySet DEF Init, ExitsInv, WrongResync
  <1>7. CopiesInv
    <2>1. \A k \in 1 .. Updates : Copies(k) = {}
      BY <1>3 DEF Copies
    <2>2. QED
      BY <1>0, <1>2, <2>1, FS_EmptySet DEF Init, CopiesInv, ToSend
  <1>8. QED
    BY <1>1, <1>2, <1>4, <1>5, <1>6, <1>7 DEF IInv

---------------------------------------------------------------------------
\* Appending a chunk keeps the earlier ones.
LEMMA ExtendAppends ==
  ASSUME ServerTypeOK, NEW k \in Chunks, Extend(k)
  PROVE  /\ trace' \in Seq(Chunks)
         /\ Len(trace) \in Nat
         /\ Len(trace') = Len(trace) + 1
         /\ DOMAIN trace = 1 .. Len(trace)
         /\ DOMAIN trace' = 1 .. Len(trace) + 1
         /\ \A i \in DOMAIN trace : trace'[i] = trace[i]
         /\ trace'[Len(trace) + 1] = k
  BY DEF ServerTypeOK, Extend

\* The request that a fault leaves to the network is a request of the current
\* update with an offset that was sent.
LEMMA PendingRequest ==
  ASSUME UpdaterTypeOK, at \in {"patch", "put"}
  PROVE  /\ Pending \in [kind : {"PATCH", "PUT"}, update : 1 .. Updates, offset : Nat]
         /\ Pending.update = Current
         /\ Pending.kind = "PATCH" => at = "patch" /\ Pending.offset = request.offset
         /\ Pending.kind = "PUT" => at = "put"
  <1>1. Current \in 1 .. Updates
    BY ConstantsAssumption DEF ConstantsAssumption, UpdaterTypeOK, Current
  <1>2. request.offset \in Nat
    BY DEF UpdaterTypeOK, Request
  <1>3. QED
    BY <1>1, <1>2 DEF Pending, Patch, Put

\* A step appends nothing, or the chunk of the current update or of a late
\* request at its own offset.
LEMMA TraceStep ==
  ASSUME TypeOK, [Next]_vars
  PROVE  \/ UNCHANGED trace
         \/ /\ PatchAccepted
            /\ Current \in Chunks
            /\ Extend(Current)
         \/ \E r \in LatePatches : /\ DeliverLate(r)
                                   /\ r.update \in Chunks
                                   /\ r.offset = Len(trace)
                                   /\ state = "running"
                                   /\ Extend(r.update)
  <1>1. CASE PatchAccepted
    BY <1>1, ConstantsAssumption DEF ConstantsAssumption, PatchAccepted, TypeOK, UpdaterTypeOK,
       Current, Chunks
  <1>2. ASSUME NEW r \in late, DeliverLate(r), ~UNCHANGED trace
        PROVE  \E q \in LatePatches : /\ DeliverLate(q)
                                      /\ q.update \in Chunks
                                      /\ q.offset = Len(trace)
                                      /\ state = "running"
                                      /\ Extend(q.update)
    <2>1. r \in LatePatches /\ r.offset = Len(trace) /\ state = "running" /\ Extend(r.update)
      BY <1>2 DEF DeliverLate, LatePatches, Misplaced, serverVars
    <2>2. r.update \in Chunks
      BY ConstantsAssumption DEF ConstantsAssumption, TypeOK, ServerTypeOK, Chunks
    <2>3. QED
      BY <1>2, <2>1, <2>2
  <1>3. QED
    BY <1>1, <1>2 DEF vars, serverVars, updaterVars, Next, Cancel, UpdaterStep, ReadUpdate,
       ReadNothing, PatchRefused, PatchMisplaced, PutAccepted, PutRefused, Acknowledge,
       RequestFailed, ReplyLost, Crash, Evict

\* A request gets into late only by a fault, and is the pending one.
LEMMA LateStep ==
  ASSUME TypeOK, [Next]_vars
  PROVE  \/ late' = late
         \/ \E r \in late : DeliverLate(r) /\ late' = late \ {r}
         \/ /\ at \in {"patch", "put"}
            /\ late' = late \union {Pending}
            /\ UNCHANGED serverVars
            /\ acked' = acked
  BY DEF vars, updaterVars, serverVars, Next, DeliverLate, Cancel, UpdaterStep, ReadUpdate,
     ReadNothing, PatchAccepted, PatchRefused, PatchMisplaced, PutAccepted, PutRefused,
     Acknowledge, RequestFailed, ReplyLost, Crash, Evict

\* Every step keeps the variables' types.
LEMMA NextTypeOK == TypeOK /\ [Next]_vars => TypeOK'
  <1> SUFFICES ASSUME TypeOK, ServerTypeOK, UpdaterTypeOK, HistoryTypeOK, [Next]_vars
               PROVE  TypeOK'
    BY DEF TypeOK
  <1>0. Updates \in Nat /\ RetryCount \in Nat \ {0} /\ MaxFaults \in Nat
    BY ConstantsAssumption DEF ConstantsAssumption
  <1>1. trace' \in Seq(Chunks)
    <2>1. UNCHANGED trace \/ \E k \in Chunks : Extend(k)
      BY TraceStep
    <2>2. QED
      BY <2>1, ExtendAppends DEF ServerTypeOK
  <1>2. late' \in SUBSET [kind : {"PATCH", "PUT"}, update : 1 .. Updates, offset : Nat]
    BY LateStep, PendingRequest DEF ServerTypeOK
  <1>3. state' \in {"running", "finished", "canceled"} /\ closedBy' \in Chunks
    <2>1. ASSUME NEW r \in late, DeliverLate(r)
          PROVE  state' \in {"running", "finished", "canceled"} /\ closedBy' \in Chunks
      <3>1. r.update \in Chunks
        BY <1>0 DEF ServerTypeOK, Chunks
      <3>2. QED
        BY <2>1, <3>1 DEF DeliverLate, Finish, ServerTypeOK, serverVars
    <2>2. CASE PutAccepted
      BY <1>0, <2>2 DEF PutAccepted, Finish, UpdaterTypeOK, Current, Chunks
    <2>3. CASE Cancel
      BY <2>3 DEF Cancel, ServerTypeOK
    <2>4. CASE UNCHANGED <<state, closedBy>>
      BY <2>4 DEF ServerTypeOK
    <2>5. QED
      BY <2>1, <2>2, <2>3, <2>4 DEF vars, serverVars, Next, UpdaterStep, ReadUpdate,
         ReadNothing, PatchAccepted, PatchRefused, PatchMisplaced, PutRefused, Acknowledge,
         RequestFailed, ReplyLost, Crash, Evict
  <1>4. UpdaterTypeOK'
    <2>1. Len(trace) \in Nat /\ Len(trace') \in Nat
      BY <1>1 DEF ServerTypeOK
    <2>2. \A n \in Nat : FirstTry(n) \in Request
      BY DEF FirstTry, Request
    <2>3. CASE UNCHANGED updaterVars
      BY <2>3 DEF updaterVars, UpdaterTypeOK
    <2>4. CASE ReadUpdate
      BY <1>0, <2>2, <2>4 DEF ReadUpdate, UpdaterTypeOK
    <2>5. CASE PatchAccepted
      BY <2>1, <2>2, <2>5 DEF PatchAccepted, UpdaterTypeOK
    <2>6. CASE PatchRefused \/ PutAccepted \/ PutRefused
      BY <2>6 DEF PatchRefused, PutAccepted, PutRefused, UpdaterTypeOK
    <2>7. ASSUME Exit, acked' = acked PROVE UpdaterTypeOK'
      BY <1>0, <2>2, <2>7 DEF Exit, UpdaterTypeOK
    <2>8. CASE PatchMisplaced
      BY <2>1, <2>7, <2>8 DEF PatchMisplaced, UpdaterTypeOK, Request
    <2>9. CASE RequestFailed
      BY <1>0, <2>2, <2>9 DEF RequestFailed, UpdaterTypeOK
    <2>10. CASE ReplyLost
      BY <2>7, <2>10 DEF ReplyLost, UpdaterTypeOK, Request
    <2>11. CASE Crash
      BY <2>7, <2>11 DEF Crash
    <2>12. CASE Acknowledge
      BY <1>0, <2>2, <2>12 DEF Acknowledge, UpdaterTypeOK
    <2>13. CASE Evict
      BY <2>13 DEF Evict, UpdaterTypeOK
    <2>14. QED
      BY <2>3, <2>4, <2>5, <2>6, <2>8, <2>9, <2>10, <2>11, <2>12, <2>13
         DEF vars, Next, UpdaterStep, DeliverLate, Cancel, ReadNothing, updaterVars
  <1>5. HistoryTypeOK'
    <2>1. Current \in 1 .. Updates \/ at = "idle"
      BY <1>0 DEF UpdaterTypeOK, Current
    <2>2. CASE RequestFailed
      <3>1. faults' \in 0 .. MaxFaults
        BY <1>0, <2>2 DEF RequestFailed, Fault, HistoryTypeOK
      <3>2. dropped' \in SUBSET (1 .. Updates)
        BY <2>1, <2>2 DEF RequestFailed, HistoryTypeOK
      <3>3. QED
        BY <2>2, <3>1, <3>2 DEF RequestFailed, HistoryTypeOK
    <2>3. CASE ReplyLost \/ Crash
      BY <1>0, <2>3 DEF ReplyLost, Crash, Fault, HistoryTypeOK
    <2>4. CASE UNCHANGED <<dropped, faults>> /\ exits' \in {exits, exits + 1}
      BY <2>4 DEF HistoryTypeOK
    <2>5. QED
      BY <2>2, <2>3, <2>4 DEF vars, Next, UpdaterStep, DeliverLate, Cancel, ReadUpdate,
         ReadNothing, PatchAccepted, PatchRefused, PatchMisplaced, PutAccepted, PutRefused,
         Acknowledge, Evict
  <1>6. QED
    BY <1>1, <1>2, <1>3, <1>4, <1>5 DEF TypeOK, ServerTypeOK

\* What was achieved stays: the trace and the updates given up grow, and a job
\* that has ended changes no more.
LEMMA Grows ==
  ASSUME TypeOK, [Next]_vars
  PROVE  /\ \A k : InTrace(k) => InTrace(k)'
         /\ dropped \subseteq dropped'
         /\ state # "running" => UNCHANGED serverVars
         /\ Len(trace) <= Len(trace')
         /\ Len(trace) \in Nat /\ Len(trace') \in Nat
         /\ faults \in Nat /\ faults' \in Nat /\ faults <= faults'
  <1>1. TypeOK'
    BY NextTypeOK
  <1>2. UNCHANGED trace \/ \E k \in Chunks : Extend(k)
    BY TraceStep
  <1>3. (\A k : InTrace(k) => InTrace(k)') /\ Len(trace) <= Len(trace')
    <2>1. CASE UNCHANGED trace
      BY <2>1 DEF InTrace, TypeOK, ServerTypeOK
    <2>2. ASSUME NEW k \in Chunks, Extend(k)
          PROVE  (\A j : InTrace(j) => InTrace(j)') /\ Len(trace) <= Len(trace')
      BY <2>2, ExtendAppends DEF InTrace, TypeOK
    <2>3. QED
      BY <1>2, <2>1, <2>2
  <1>4. dropped \subseteq dropped' /\ faults' \in {faults, faults + 1}
    BY DEF vars, Next, UpdaterStep, DeliverLate, Cancel, ReadUpdate, ReadNothing,
       PatchAccepted, PatchRefused, PatchMisplaced, PutAccepted, PutRefused, Acknowledge,
       RequestFailed, ReplyLost, Crash, Evict, Fault
  <1>5. state # "running" => UNCHANGED serverVars
    BY DEF vars, serverVars, Next, UpdaterStep, DeliverLate, Cancel, ReadUpdate, ReadNothing,
       PatchAccepted, PatchRefused, PatchMisplaced, PutAccepted, PutRefused, Acknowledge,
       RequestFailed, ReplyLost, Crash, Evict
  <1>6. Len(trace) \in Nat /\ Len(trace') \in Nat /\ faults \in Nat /\ faults' \in Nat
    BY <1>1 DEF TypeOK, ServerTypeOK, HistoryTypeOK
  <1>7. QED
    BY <1>3, <1>4, <1>5, <1>6

---------------------------------------------------------------------------
\* Every step keeps the offsets within the trace.
LEMMA NextOffsetsInv == TypeOK /\ OffsetsInv /\ [Next]_vars => OffsetsInv'
  <1> SUFFICES ASSUME TypeOK, UpdaterTypeOK, OffsetsInv, [Next]_vars PROVE OffsetsInv'
    BY DEF TypeOK
  <1>1. Len(trace) <= Len(trace') /\ Len(trace) \in Nat /\ Len(trace') \in Nat
    BY Grows
  <1>2. \A r \in late : r.offset \in Nat /\ r.update \in Nat
    BY ConstantsAssumption DEF ConstantsAssumption, TypeOK, ServerTypeOK
  <1>3. acked \in Nat /\ acked' \in {acked, acked + 1}
    BY DEF UpdaterTypeOK, vars, updaterVars, Next, UpdaterStep, DeliverLate, Cancel, ReadUpdate,
       ReadNothing, PatchAccepted, PatchRefused, PatchMisplaced, PutAccepted, PutRefused,
       Acknowledge, RequestFailed, ReplyLost, Crash, Evict
  <1>4. /\ \A r \in late' : r.update <= Current'
        /\ \A r \in LatePatches' : r.offset <= Len(trace')
    <2> SUFFICES ASSUME NEW r \in late'
                 PROVE  r.update <= Current' /\ (r.kind = "PATCH" => r.offset <= Len(trace'))
      BY DEF LatePatches
    <2>1. CASE r \in late
      BY <1>1, <1>2, <1>3, <2>1 DEF OffsetsInv, LatePatches, Current
    <2>2. CASE r \notin late
      <3>1. r = Pending /\ at \in {"patch", "put"}
        BY <2>2, LateStep
      <3>2. request.offset \in Nat
        BY DEF UpdaterTypeOK, Request
      <3>3. QED
        BY <1>1, <1>3, <3>1, <3>2, PendingRequest DEF OffsetsInv, Current
    <2>3. QED
      BY <2>1, <2>2
  <1>5. offset' <= Len(trace') /\ request'.offset <= Len(trace')
    <2>1. offset \in Nat /\ request.offset \in Nat
      BY DEF UpdaterTypeOK, Request
    <2>2. /\ offset' \in {offset, 0, Len(trace')}
          /\ \/ request'.offset \in {request.offset, offset, 0, Len(trace)}
             \/ request' = request
      BY DEF UpdaterTypeOK, Request, vars, updaterVars, Next, UpdaterStep, DeliverLate, Cancel,
         ReadUpdate, ReadNothing, PatchAccepted, PatchRefused, PatchMisplaced, PutAccepted,
         PutRefused, Acknowledge, RequestFailed, ReplyLost, Crash, Evict, Exit, FirstTry
    <2>3. QED
      BY <1>1, <2>1, <2>2 DEF OffsetsInv
  <1>6. QED
    BY <1>4, <1>5 DEF OffsetsInv

\* Every step keeps the order of the chunks.
LEMMA NextOrderInv == TypeOK /\ OffsetsInv /\ OrderInv /\ [Next]_vars => OrderInv'
  <1> SUFFICES ASSUME TypeOK, ServerTypeOK, UpdaterTypeOK, OffsetsInv, OrderInv, [Next]_vars
               PROVE  OrderInv'
    BY DEF TypeOK
  <1>1. acked \in Nat /\ acked' \in {acked, acked + 1}
    BY DEF UpdaterTypeOK, vars, updaterVars, Next, UpdaterStep, DeliverLate, Cancel, ReadUpdate,
       ReadNothing, PatchAccepted, PatchRefused, PatchMisplaced, PutAccepted, PutRefused,
       Acknowledge, RequestFailed, ReplyLost, Crash, Evict
  <1>2. /\ \A i \in DOMAIN trace : trace[i] \in Nat
        /\ DOMAIN trace = 1 .. Len(trace) /\ Len(trace) \in Nat
        /\ \A r \in late : r.update \in Nat /\ r.offset \in Nat
    BY ConstantsAssumption DEF ConstantsAssumption, ServerTypeOK, Chunks
  <1>3. CASE UNCHANGED trace
    <2>1. ASSUME NEW r \in LatePatches', r.offset = Len(trace), NEW i \in DOMAIN trace
          PROVE  trace[i] <= r.update
      <3>1. CASE r \in LatePatches
        BY <2>1, <3>1 DEF OrderInv
      <3>2. CASE r \notin LatePatches
        <4>1. r = Pending /\ at \in {"patch", "put"}
          BY <2>1, <3>2, LateStep DEF LatePatches
        <4>2. r.update = Current
          BY <4>1, PendingRequest
        <4>3. QED
          BY <4>2 DEF OrderInv
      <3>3. QED
        BY <3>1, <3>2
    <2>2. QED
      BY <1>1, <1>2, <1>3, <2>1 DEF OrderInv, OutputInOrder, Current
  <1>4. ASSUME NEW k \in Chunks, Extend(k), k <= Current, \A i \in DOMAIN trace : trace[i] <= k,
               LatePatches' \subseteq LatePatches
        PROVE  OrderInv'
    <2>1. k \in Nat
      BY ConstantsAssumption DEF ConstantsAssumption, Chunks
    <2>2. /\ Len(trace') = Len(trace) + 1
          /\ DOMAIN trace' = 1 .. Len(trace) + 1
          /\ \A i \in DOMAIN trace : trace'[i] = trace[i]
          /\ trace'[Len(trace) + 1] = k
      BY <1>4, ExtendAppends
    <2>3. \A r \in LatePatches' : r.offset # Len(trace')
      BY <1>2, <1>4, <2>2 DEF OffsetsInv, LatePatches
    <2>4. \A i \in DOMAIN trace' : trace'[i] <= k
      BY <1>2, <1>4, <2>1, <2>2
    <2>5. \A i \in DOMAIN trace' : trace'[i] \in Nat
      BY <1>2, <2>1, <2>2
    <2>6. \A i \in DOMAIN trace' : trace'[i] <= Current'
      BY <1>1, <1>4, <2>1, <2>4, <2>5 DEF Current
    <2>7. OutputInOrder'
      <3> SUFFICES ASSUME NEW i \in DOMAIN trace', NEW j \in DOMAIN trace', i < j
                   PROVE  trace'[i] <= trace'[j]
        BY DEF OutputInOrder
      <3>1. CASE j = Len(trace) + 1
        BY <2>2, <2>4, <3>1
      <3>2. CASE j \in DOMAIN trace
        <4>1. i \in DOMAIN trace
          BY <1>2, <2>2, <3>2
        <4>2. QED
          BY <2>2, <3>2, <4>1 DEF OrderInv, OutputInOrder
      <3>3. QED
        BY <1>2, <2>2, <3>1, <3>2
    <2>8. QED
      BY <2>3, <2>6, <2>7 DEF OrderInv
  <1>5. CASE PatchAccepted /\ Current \in Chunks /\ Extend(Current)
    <2>1. LatePatches' \subseteq LatePatches
      BY <1>5 DEF PatchAccepted, LatePatches
    <2>2. Current <= Current
      BY <1>1 DEF Current
    <2>3. QED
      BY <1>4, <1>5, <2>1, <2>2 DEF OrderInv
  <1>6. ASSUME NEW r \in LatePatches, DeliverLate(r), r.update \in Chunks,
               r.offset = Len(trace), Extend(r.update)
        PROVE  OrderInv'
    <2>1. LatePatches' \subseteq LatePatches
      BY <1>6 DEF DeliverLate, LatePatches
    <2>2. r.update <= Current
      BY DEF OffsetsInv, LatePatches
    <2>3. QED
      BY <1>4, <1>6, <2>1, <2>2 DEF OrderInv
  <1>7. QED
    BY <1>3, <1>5, <1>6, TraceStep

\* Every step keeps what was achieved for the current update.
LEMMA NextReportInv == TypeOK /\ ReportInv /\ [Next]_vars => ReportInv'
  <1> SUFFICES ASSUME TypeOK, UpdaterTypeOK, ReportInv, [Next]_vars PROVE ReportInv'
    BY DEF TypeOK
  <1>1. /\ \A k : Kept(k) => Kept(k)'
        /\ \A k : InTrace(k) => InTrace(k)'
        /\ state # "running" => state' # "running"
    BY Grows DEF Kept, serverVars
  <1>2. acked \in Nat
    BY DEF UpdaterTypeOK
  <1>3. CASE Acknowledge
    <2>1. at = "reported" /\ acked' = acked + 1 /\ at' = "idle"
      BY <1>3 DEF Acknowledge
    <2>2. \A k \in 1 .. acked' : k \in 1 .. acked \/ k = Current
      BY <1>2, <2>1 DEF Current
    <2>3. QED
      BY <1>1, <2>1, <2>2 DEF ReportInv, OutputNotForgotten, Kept
  <1>4. ASSUME acked' = acked,
               at' = "put" => InTrace(Current)',
               at' = "reported" => Kept(Current)' \/ state' # "running"
        PROVE  ReportInv'
    <2>1. Current' = Current
      BY <1>4 DEF Current
    <2>2. OutputNotForgotten'
      BY <1>1, <1>4 DEF ReportInv, OutputNotForgotten, Kept
    <2>3. QED
      BY <1>4, <2>1, <2>2 DEF ReportInv
  <1>5. CASE UNCHANGED <<acked, at>>
    <2>1. Current' = Current
      BY <1>5 DEF Current
    <2>2. QED
      BY <1>1, <1>4, <1>5, <2>1 DEF ReportInv
  <1>6. CASE PatchAccepted
    <2>1. Current \in Chunks /\ Extend(Current) /\ acked' = acked
      BY <1>6, ConstantsAssumption
         DEF ConstantsAssumption, PatchAccepted, UpdaterTypeOK, Current, Chunks
    <2>2. ServerTypeOK
      BY DEF TypeOK
    <2>3. Len(trace) + 1 \in DOMAIN trace' /\ trace'[Len(trace) + 1] = Current
      BY <2>1, <2>2, ExtendAppends
    <2>4. InTrace(Current)'
      BY <2>1, <2>3 DEF InTrace, Current
    <2>5. QED
      BY <1>4, <2>1, <2>4 DEF Kept
  <1>7. CASE PatchRefused \/ PutRefused
    BY <1>1, <1>4, <1>7 DEF PatchRefused, PutRefused
  <1>8. CASE PutAccepted
    BY <1>4, <1>8 DEF PutAccepted, Finish
  <1>9. ASSUME acked' = acked, at' \in {"idle", "patch"} PROVE ReportInv'
    BY <1>4, <1>9
  <1>10. CASE RequestFailed
    <2>1. CASE at' = "patch"
      BY <1>9, <1>10, <2>1 DEF RequestFailed
    <2>2. CASE at' = "reported" /\ dropped' = dropped \union {Current}
      <3>1. acked' = acked
        BY <1>10 DEF RequestFailed
      <3>2. Current' \in dropped'
        BY <2>2, <3>1 DEF Current
      <3>3. QED
        BY <1>4, <2>2, <3>1, <3>2 DEF Kept
    <2>3. QED
      BY <1>10, <2>1, <2>2 DEF RequestFailed
  <1>11. QED
    BY <1>3, <1>5, <1>6, <1>7, <1>8, <1>9, <1>10 DEF vars, updaterVars, Next, UpdaterStep,
       DeliverLate, Cancel, ReadUpdate, ReadNothing, PatchMisplaced, ReplyLost, Crash, Evict,
       Exit

\* Every step keeps that a result cannot overtake the output.
LEMMA NextResultInv ==
  TypeOK /\ ReportInv /\ ResultInv /\ [Next]_vars => ResultInv'
  <1> SUFFICES ASSUME TypeOK, UpdaterTypeOK, ReportInv, ResultInv, [Next]_vars PROVE ResultInv'
    BY DEF TypeOK
  <1>1. /\ \A k : Kept(k) => Kept(k)'
        /\ state # "running" => UNCHANGED serverVars
    BY Grows DEF Kept
  <1>2. at = "put" /\ state = "running" => \A k \in 1 .. Current : Kept(k)
    <2> SUFFICES ASSUME at = "put", state = "running", NEW k \in 1 .. Current PROVE Kept(k)
      OBVIOUS
    <2>1. k \in 1 .. acked \/ k = Current
      BY DEF UpdaterTypeOK, Current
    <2>2. QED
      BY <2>1 DEF ReportInv, OutputNotForgotten, Kept
  <1>3. ASSUME NEW r \in late', r.kind = "PUT", state' = "running", NEW k \in 1 .. r.update
        PROVE  Kept(k)'
    <2>1. state = "running"
      BY <1>1, <1>3 DEF serverVars
    <2>2. CASE r \in late
      BY <1>1, <1>3, <2>1, <2>2 DEF ResultInv
    <2>3. CASE r \notin late
      <3>1. r = Pending /\ at \in {"patch", "put"}
        BY <2>3, LateStep
      <3>2. r.update = Current /\ at = "put"
        BY <1>3, <3>1, PendingRequest
      <3>3. QED
        BY <1>1, <1>2, <1>3, <2>1, <3>2
    <2>4. QED
      BY <2>2, <2>3
  <1>4. OutputBeforeResult'
    <2>1. CASE UNCHANGED <<state, closedBy>>
      BY <1>1, <2>1 DEF ResultInv, OutputBeforeResult, Kept
    <2>2. CASE state' = "canceled"
      BY <2>2 DEF OutputBeforeResult
    <2>3. CASE PutAccepted
      BY <1>1, <1>2, <2>3 DEF PutAccepted, Finish, OutputBeforeResult, Kept
    <2>4. ASSUME NEW r \in late, DeliverLate(r), ~UNCHANGED <<state, closedBy>>
          PROVE  OutputBeforeResult'
      <3>1. r.kind = "PUT" /\ state = "running" /\ closedBy' = r.update
        BY <2>4 DEF DeliverLate, Finish, serverVars
      <3>2. QED
        BY <1>1, <3>1 DEF ResultInv, OutputBeforeResult, Kept
    <2>5. QED
      BY <2>1, <2>2, <2>3, <2>4 DEF vars, serverVars, Next, UpdaterStep, Cancel, ReadUpdate,
         ReadNothing, PatchAccepted, PatchRefused, PatchMisplaced, PutRefused, Acknowledge,
         RequestFailed, ReplyLost, Crash, Evict
  <1>5. QED
    BY <1>3, <1>4 DEF ResultInv

---------------------------------------------------------------------------
\* The late requests stay finitely many, so that they can be counted.
LEMMA NextFinite ==
  TypeOK /\ IsFiniteSet(late) /\ [Next]_vars => IsFiniteSet(late')
  <1> SUFFICES ASSUME TypeOK, IsFiniteSet(late), [Next]_vars PROVE IsFiniteSet(late')
    OBVIOUS
  <1>1. late' \subseteq late \/ late' = late \union {Pending}
    BY LateStep
  <1>2. QED
    BY <1>1, FS_AddElement, FS_Subset

\* How many late patches there are, of all updates or of one, after a step: a
\* delivery takes one away, and a fault while a patch is pending may add one.
LEMMA LateCounts ==
  ASSUME TypeOK, IsFiniteSet(late), [Next]_vars, NEW k
  PROVE  /\ Cardinality(LatePatches) \in Nat /\ Cardinality(LatePatches') \in Nat
         /\ Cardinality(LatePatchesOf(k)) \in Nat /\ Cardinality(LatePatchesOf(k)') \in Nat
         /\ \/ /\ Cardinality(LatePatches') <= Cardinality(LatePatches)
               /\ Cardinality(LatePatchesOf(k)') <= Cardinality(LatePatchesOf(k))
            \/ /\ at = "patch"
               /\ late' = late \union {Pending}
               /\ Cardinality(LatePatches') <= Cardinality(LatePatches) + 1
               /\ Cardinality(LatePatchesOf(k)') <=
                     Cardinality(LatePatchesOf(k)) + (IF k = Current THEN 1 ELSE 0)
         /\ \A r \in LatePatches : DeliverLate(r) =>
               /\ Cardinality(LatePatches') = Cardinality(LatePatches) - 1
               /\ r.update = k => Cardinality(LatePatchesOf(k)') = Cardinality(LatePatchesOf(k)) - 1
  <1>0. IsFiniteSet(late')
    BY NextFinite
  <1>1. /\ IsFiniteSet(LatePatches) /\ IsFiniteSet(LatePatches')
        /\ IsFiniteSet(LatePatchesOf(k)) /\ IsFiniteSet(LatePatchesOf(k)')
    <2>1. LatePatches \subseteq late /\ LatePatchesOf(k) \subseteq late
      BY DEF LatePatches, LatePatchesOf
    <2>2. LatePatches' \subseteq late' /\ LatePatchesOf(k)' \subseteq late'
      BY DEF LatePatches, LatePatchesOf
    <2>3. QED
      BY <1>0, <2>1, <2>2, FS_Subset
  <1>2. /\ Cardinality(LatePatches) \in Nat /\ Cardinality(LatePatches') \in Nat
        /\ Cardinality(LatePatchesOf(k)) \in Nat /\ Cardinality(LatePatchesOf(k)') \in Nat
    BY <1>1, FS_CardinalityType
  <1>3. ASSUME LatePatches' \subseteq LatePatches
        PROVE  /\ Cardinality(LatePatches') <= Cardinality(LatePatches)
               /\ Cardinality(LatePatchesOf(k)') <= Cardinality(LatePatchesOf(k))
    <2>1. LatePatchesOf(k)' \subseteq LatePatchesOf(k)
      BY <1>3 DEF LatePatchesOf
    <2>2. QED
      BY <1>1, <1>3, <2>1, FS_Subset
  <1>4. ASSUME at \in {"patch", "put"}, late' = late \union {Pending},
               ~(LatePatches' \subseteq LatePatches)
        PROVE  /\ at = "patch"
               /\ Cardinality(LatePatches') <= Cardinality(LatePatches) + 1
               /\ Cardinality(LatePatchesOf(k)') <=
                     Cardinality(LatePatchesOf(k)) + (IF k = Current THEN 1 ELSE 0)
    <2>1. UpdaterTypeOK
      BY DEF TypeOK
    <2>2. Pending.kind = "PATCH"
      BY <1>4 DEF LatePatches
    <2>3. at = "patch" /\ Pending.update = Current
      BY <1>4, <2>1, <2>2, PendingRequest
    <2>4. LatePatches' = LatePatches \union {Pending}
      BY <1>4, <2>2 DEF LatePatches
    <2>5. k = Current => LatePatchesOf(k)' = LatePatchesOf(k) \union {Pending}
      BY <2>3, <2>4 DEF LatePatchesOf
    <2>6. k # Current => LatePatchesOf(k)' = LatePatchesOf(k)
      BY <2>3, <2>4 DEF LatePatchesOf
    <2>7. Cardinality(LatePatches') <= Cardinality(LatePatches) + 1
      BY <1>1, <1>2, <2>4, FS_AddElement
    <2>8. Cardinality(LatePatchesOf(k)') <=
             Cardinality(LatePatchesOf(k)) + (IF k = Current THEN 1 ELSE 0)
      BY <1>1, <1>2, <2>5, <2>6, FS_AddElement
    <2>9. QED
      BY <2>3, <2>7, <2>8
  <1>5. \/ LatePatches' \subseteq LatePatches
        \/ at \in {"patch", "put"} /\ late' = late \union {Pending}
    BY LateStep DEF LatePatches
  <1>6. ASSUME NEW r \in LatePatches, DeliverLate(r)
        PROVE  /\ Cardinality(LatePatches') = Cardinality(LatePatches) - 1
               /\ r.update = k => Cardinality(LatePatchesOf(k)') = Cardinality(LatePatchesOf(k)) - 1
    <2>1. LatePatches' = LatePatches \ {r}
      BY <1>6 DEF DeliverLate, LatePatches
    <2>2. r.update = k => /\ r \in LatePatchesOf(k)
                          /\ LatePatchesOf(k)' = LatePatchesOf(k) \ {r}
      BY <2>1 DEF LatePatchesOf
    <2>3. QED
      BY <1>1, <2>1, <2>2, FS_RemoveElement
  <1>7. QED
    BY <1>2, <1>3, <1>4, <1>5, <1>6

\* The same of the copies of a chunk in the trace.
LEMMA CopiesCounts ==
  ASSUME TypeOK, [Next]_vars, NEW k \in 1 .. Updates
  PROVE  /\ Cardinality(Copies(k)) \in Nat /\ Cardinality(Copies(k)') \in Nat
         /\ UNCHANGED trace => Cardinality(Copies(k)') = Cardinality(Copies(k))
         /\ \A j \in Chunks : Extend(j) =>
               Cardinality(Copies(k)') = Cardinality(Copies(k)) + (IF j = k THEN 1 ELSE 0)
  <1>0. ServerTypeOK /\ ServerTypeOK'
    BY NextTypeOK DEF TypeOK
  <1>1. IsFiniteSet(Copies(k)) /\ IsFiniteSet(Copies(k)')
    <2>1. Copies(k) \subseteq 1 .. Len(trace) /\ Len(trace) \in Nat
      BY <1>0 DEF Copies, ServerTypeOK
    <2>2. Copies(k)' \subseteq 1 .. Len(trace') /\ Len(trace') \in Nat
      BY <1>0 DEF Copies, ServerTypeOK
    <2>3. IsFiniteSet(1 .. Len(trace)) /\ IsFiniteSet(1 .. Len(trace'))
      BY <2>1, <2>2, FS_Interval
    <2>4. QED
      BY <2>1, <2>2, <2>3, FS_Subset
  <1>2. Cardinality(Copies(k)) \in Nat /\ Cardinality(Copies(k)') \in Nat
    BY <1>1, FS_CardinalityType
  <1>3. UNCHANGED trace => Copies(k)' = Copies(k)
    BY DEF Copies
  <1>4. ASSUME NEW j \in Chunks, Extend(j)
        PROVE  Cardinality(Copies(k)') = Cardinality(Copies(k)) + (IF j = k THEN 1 ELSE 0)
    <2>1. /\ Len(trace) \in Nat
          /\ DOMAIN trace = 1 .. Len(trace)
          /\ DOMAIN trace' = 1 .. Len(trace) + 1
          /\ \A i \in DOMAIN trace : trace'[i] = trace[i]
          /\ trace'[Len(trace) + 1] = j
      BY <1>0, <1>4, ExtendAppends
    <2>2. j = k => Copies(k)' = Copies(k) \union {Len(trace) + 1}
      BY <2>1 DEF Copies
    <2>3. j # k => Copies(k)' = Copies(k)
      BY <2>1 DEF Copies
    <2>4. Len(trace) + 1 \notin Copies(k)
      BY <2>1 DEF Copies
    <2>5. QED
      BY <1>1, <1>2, <2>2, <2>3, <2>4, FS_AddElement
  <1>5. QED
    BY <1>2, <1>3, <1>4

---------------------------------------------------------------------------

\* Every step keeps that a wrong offset takes a fault.  In this and the next
\* proof a pair of names stands for a number before and after the step.
LEMMA NextExitsInv ==
  TypeOK /\ IsFiniteSet(late) /\ ExitsInv /\ [Next]_vars => ExitsInv'
  <1> SUFFICES ASSUME TypeOK, IsFiniteSet(late), ExitsInv, [Next]_vars
               PROVE  ExitsInv'
    OBVIOUS
  <1>2. PICK c \in Nat, d \in Nat : c = Cardinality(LatePatches) /\ d = Cardinality(LatePatches')
    BY LateCounts
  <1>3. PICK u \in {0, 1}, v \in {0, 1} : u = WrongResync /\ v = WrongResync'
    BY DEF WrongResync
  <1>4. /\ d <= c \/ (at = "patch" /\ late' = late \union {Pending} /\ d <= c + 1)
        /\ \A r \in LatePatches : DeliverLate(r) => d = c - 1
    BY <1>2, LateCounts
  <1>5. exits \in Nat /\ faults \in Nat /\ exits + c + u <= faults
    BY <1>2, <1>3 DEF TypeOK, HistoryTypeOK, ExitsInv
  <1>6. exits' + d + v <= faults' => ExitsInv'
    BY <1>2, <1>3 DEF ExitsInv
  <1>7. UNCHANGED late => d = c
    BY <1>2 DEF LatePatches
  <1>8. ASSUME UNCHANGED <<exits, faults>>, d <= c, v <= u PROVE ExitsInv'
    BY <1>5, <1>6, <1>8
  <1>9. ASSUME UNCHANGED exits, faults' = faults + 1, v <= u PROVE ExitsInv'
    BY <1>4, <1>5, <1>6, <1>9
  <1>10. CASE /\ UNCHANGED <<late, exits, faults>>
              /\ \/ at' # "patch"
                 \/ request'.resynced = "no"
                 \/ request'.offset = Len(trace')
                 \/ UNCHANGED <<at, request, trace>>
    <2>1. v <= u
      BY <1>3, <1>10 DEF WrongResync
    <2>2. QED
      BY <1>7, <1>8, <1>10, <2>1
  <1>11. ASSUME NEW r \in late, DeliverLate(r) PROVE ExitsInv'
    <2>1. UNCHANGED <<exits, faults, at, request>>
      BY <1>11 DEF DeliverLate, updaterVars
    <2>2. CASE UNCHANGED trace
      <3>1. v = u
        BY <1>3, <2>1, <2>2 DEF WrongResync
      <3>2. LatePatches' \subseteq LatePatches /\ IsFiniteSet(LatePatches)
        BY <1>11, FS_Subset DEF DeliverLate, LatePatches
      <3>3. d <= c
        BY <1>2, <3>2, FS_Subset
      <3>4. QED
        BY <1>8, <2>1, <3>1, <3>3
    <2>3. CASE ~UNCHANGED trace
      <3>1. r \in LatePatches
        BY <1>11, <2>3 DEF DeliverLate, LatePatches, serverVars
      <3>2. d = c - 1
        BY <1>4, <1>11, <3>1
      <3>3. QED
        BY <1>5, <1>6, <2>1, <3>2
    <2>4. QED
      BY <2>2, <2>3
  <1>12. CASE PatchMisplaced
    <2>1. /\ UNCHANGED <<late, trace, faults>>
          /\ at = "patch"
          /\ request.offset # Len(trace)
      BY <1>12 DEF PatchMisplaced, serverVars, Misplaced
    <2>2. CASE request' = [offset |-> Len(trace), sent |-> 1, resynced |-> "yes"] /\ exits' = exits
      BY <1>10, <2>1, <2>2
    <2>3. CASE request.resynced = "yes" /\ Exit /\ exits' = exits + 1
      <3>1. u = 1 /\ v = 0
        BY <1>3, <2>1, <2>3 DEF WrongResync, Exit
      <3>2. QED
        BY <1>5, <1>6, <1>7, <2>1, <2>3, <3>1
    <2>4. QED
      BY <1>12, <2>2, <2>3 DEF PatchMisplaced
  <1>13. CASE RequestFailed
    <2>1. exits' = exits /\ v = 0
      BY <1>3, <1>13 DEF RequestFailed, WrongResync, FirstTry
    <2>2. CASE Fault
      BY <1>9, <2>1, <2>2 DEF Fault
    <2>3. CASE at = "put" /\ UNCHANGED faults
      BY <1>4, <1>8, <2>1, <2>3
    <2>4. QED
      BY <1>13, <2>2, <2>3 DEF RequestFailed
  <1>14. CASE ReplyLost \/ Crash
    <2>1. exits' = exits /\ faults' = faults + 1
      BY <1>14 DEF ReplyLost, Crash, Fault
    <2>2. CASE Exit
      <3>1. v = 0
        BY <1>3, <2>2 DEF Exit, WrongResync
      <3>2. QED
        BY <1>9, <2>1, <3>1
    <2>3. CASE UNCHANGED <<at, trace>> /\ request' = [request EXCEPT !.sent = 2]
      <3>1. request'.offset = request.offset /\ request'.resynced = request.resynced
        BY <2>3 DEF TypeOK, UpdaterTypeOK, Request
      <3>2. v = u
        BY <1>3, <2>3, <3>1 DEF WrongResync
      <3>3. QED
        BY <1>9, <2>1, <3>2
    <2>4. QED
      BY <1>14, <2>2, <2>3 DEF ReplyLost, Crash, serverVars
  <1>15. QED
    BY <1>10, <1>11, <1>12, <1>13, <1>14 DEF vars, serverVars, updaterVars, Next, UpdaterStep,
       Cancel, ReadUpdate, ReadNothing, PatchAccepted, PatchRefused, PutAccepted, PutRefused,
       Acknowledge, Evict, FirstTry

\* Every step keeps that a repeated chunk takes a fault.
LEMMA NextCopiesInv ==
  TypeOK /\ IsFiniteSet(late) /\ CopiesInv /\ [Next]_vars => CopiesInv'
  <1> SUFFICES ASSUME TypeOK, IsFiniteSet(late), CopiesInv, [Next]_vars, NEW k \in 1 .. Updates
               PROVE  /\ Cardinality(Copies(k)') <= 1 + faults'
                      /\ state' = "running" =>
                            Cardinality(Copies(k)') + Cardinality(LatePatchesOf(k)') + ToSend(k)'
                               <= 1 + faults'
    BY DEF CopiesInv
  <1>1. PICK l \in Nat, m \in Nat :
           l = Cardinality(LatePatchesOf(k)) /\ m = Cardinality(LatePatchesOf(k)')
    BY LateCounts
  <1>2. PICK n \in Nat, o \in Nat : n = Cardinality(Copies(k)) /\ o = Cardinality(Copies(k)')
    BY CopiesCounts
  <1>3. PICK s \in {0, 1}, t \in {0, 1} : s = ToSend(k) /\ t = ToSend(k)'
    BY DEF ToSend
  <1> SUFFICES o <= 1 + faults' /\ (state' = "running" => o + m + t <= 1 + faults')
    BY <1>1, <1>2, <1>3
  <1>4. /\ m <= l \/ (at = "patch" /\ m <= l + (IF k = Current THEN 1 ELSE 0))
        /\ \A r \in LatePatches : (DeliverLate(r) /\ r.update = k) => m = l - 1
        /\ UNCHANGED late => m = l
    BY <1>1, LateCounts DEF LatePatchesOf, LatePatches
  <1>5. /\ UNCHANGED trace => o = n
        /\ \A j \in Chunks : Extend(j) => o = n + (IF j = k THEN 1 ELSE 0)
    BY <1>2, CopiesCounts
  <1>6. n <= 1 + faults /\ (state = "running" => n + l + s <= 1 + faults)
    BY <1>1, <1>2, <1>3 DEF CopiesInv
  <1>7. faults \in Nat /\ faults' \in Nat /\ faults <= faults' /\ acked \in Nat
    BY Grows DEF TypeOK, UpdaterTypeOK
  <1>8. CASE state # "running"
    <2>1. UNCHANGED serverVars
      BY <1>8, Grows
    <2>2. UNCHANGED <<state, trace>>
      BY <2>1 DEF serverVars
    <2>3. o = n
      BY <1>5, <2>2
    <2>4. state' # "running"
      BY <1>8, <2>2
    <2>5. n <= 1 + faults
      BY <1>6
    <2>6. PICK e \in Nat, f \in Nat : e = faults /\ f = faults'
      BY <1>7
    <2>7. n <= 1 + f
      <3>1. e <= f
        BY <1>7, <2>6
      <3>2. n <= 1 + e
        BY <2>5, <2>6
      <3>3. QED
        BY <3>1, <3>2
    <2>8. o <= 1 + faults'
      BY <2>3, <2>6, <2>7
    <2>9. QED
      BY <2>4, <2>8
  <1>9. ASSUME state = "running", UNCHANGED <<trace, faults>>, m <= l, t <= s
        PROVE  o <= 1 + faults' /\ o + m + t <= 1 + faults'
    BY <1>5, <1>6, <1>7, <1>9
  <1>10. ASSUME state = "running", NEW r \in late, DeliverLate(r)
         PROVE  o <= 1 + faults' /\ o + m + t <= 1 + faults'
    <2>1. UNCHANGED faults /\ t = s
      BY <1>3, <1>10 DEF DeliverLate, updaterVars, ToSend, Current
    <2>2. LatePatchesOf(k)' \subseteq LatePatchesOf(k) /\ IsFiniteSet(LatePatchesOf(k))
      BY <1>10, FS_Subset DEF DeliverLate, LatePatchesOf, LatePatches
    <2>3. m <= l
      BY <1>1, <2>2, FS_Subset
    <2>4. CASE UNCHANGED trace
      BY <1>9, <1>10, <2>1, <2>3, <2>4
    <2>5. CASE r.kind = "PATCH" /\ Extend(r.update)
      <3>1. r \in LatePatches /\ r.update \in Chunks
        BY <2>5, ConstantsAssumption
           DEF ConstantsAssumption, LatePatches, TypeOK, ServerTypeOK, Chunks
      <3>2. o + m <= n + l
        BY <1>4, <1>5, <1>10, <2>3, <2>5, <3>1
      <3>3. QED
        BY <1>6, <1>7, <1>10, <2>1, <3>2
    <2>6. QED
      BY <1>10, <2>4, <2>5 DEF DeliverLate, serverVars
  <1>11. CASE PatchAccepted
    <2>1. /\ state = "running" /\ UNCHANGED <<late, acked, faults>>
          /\ at = "patch" /\ at' \in {"put", "reported"}
          /\ Extend(Current)
      BY <1>11 DEF PatchAccepted
    <2>2. Current \in Chunks
      BY <1>11, ConstantsAssumption
         DEF ConstantsAssumption, PatchAccepted, TypeOK, UpdaterTypeOK, Current, Chunks
    <2>3. o + t <= n + s
      <3>1. CASE k = Current
        <4>1. s = 1 /\ t = 0
          BY <1>3, <1>7, <2>1, <3>1 DEF ToSend, Current
        <4>2. QED
          BY <1>5, <2>1, <2>2, <3>1, <4>1
      <3>2. CASE k # Current
        <4>1. s = t
          BY <1>3, <2>1, <3>2 DEF ToSend, Current
        <4>2. QED
          BY <1>5, <2>1, <2>2, <3>2, <4>1
      <3>3. QED
        BY <3>1, <3>2
    <2>4. QED
      BY <1>4, <1>6, <1>7, <2>1, <2>3
  <1>12. ASSUME state = "running", RequestFailed \/ ReplyLost \/ Crash
         PROVE  o <= 1 + faults' /\ o + m + t <= 1 + faults'
    <2>1. UNCHANGED <<trace, acked>> /\ faults' = faults + 1
      BY <1>12 DEF RequestFailed, ReplyLost, Crash, Fault, serverVars
    <2>2. m + t <= l + s + 1
      <3>1. CASE at = "patch"
        <4>1. t <= s
          BY <1>3, <2>1, <3>1 DEF ToSend, Current
        <4>2. QED
          BY <1>4, <4>1
      <3>2. CASE at # "patch"
        BY <1>4, <3>2
      <3>3. QED
        BY <3>1, <3>2
    <2>3. QED
      BY <1>5, <1>6, <1>7, <1>12, <2>1, <2>2
  <1>13. CASE state = "running" /\ Acknowledge
    <2>1. /\ UNCHANGED <<trace, late, faults>>
          /\ at = "reported" /\ at' = "idle" /\ acked' = acked + 1
      BY <1>13 DEF Acknowledge, serverVars
    <2>2. t <= s
      BY <1>3, <1>7, <2>1 DEF ToSend, Current
    <2>3. QED
      BY <1>4, <1>9, <1>13, <2>1, <2>2
  <1>14. ASSUME state = "running", UNCHANGED <<trace, late, faults, acked>>,
                \/ at' = at
                \/ at' = "reported"
                \/ at \in {"idle", "patch"} /\ at' \in {"idle", "patch"}
         PROVE  o <= 1 + faults' /\ o + m + t <= 1 + faults'
    <2>1. t <= s
      BY <1>3, <1>14 DEF ToSend, Current
    <2>2. QED
      BY <1>4, <1>9, <1>14, <2>1
  <1>15. QED
    BY <1>8, <1>10, <1>11, <1>12, <1>13, <1>14 DEF vars, serverVars, updaterVars, Next,
       UpdaterStep, Cancel, ReadUpdate, ReadNothing, PatchRefused, PatchMisplaced, PutAccepted,
       PutRefused, Evict, Exit

---------------------------------------------------------------------------
\* Every step keeps the inductive invariant.
LEMMA NextIInv == IInv /\ [Next]_vars => IInv'
  BY NextTypeOK, NextFinite, NextOffsetsInv, NextOrderInv, NextReportInv, NextResultInv,
     NextExitsInv, NextCopiesInv DEF IInv

\* The inductive invariant holds in every state that the updater, GitLab and
\* the network can be in.
THEOREM IInvHolds == Spec => []IInv
  BY InitIInv, NextIInv, PTL DEF Spec

\* GitLab, the network and the updater keep the values the code gives them.
THEOREM TypeCorrect == Spec => []TypeOK
  <1>1. IInv => TypeOK
    BY DEF IInv
  <1>2. QED
    BY <1>1, IInvHolds, PTL

\* However requests are resent, delayed or carried out late, the trace keeps
\* the order of the updates: a PATCH is bound to an offset.
THEOREM OutputInOrderHolds == Spec => []OutputInOrder
  <1>1. IInv => OutputInOrder
    BY DEF IInv, OrderInv
  <1>2. QED
    BY <1>1, IInvHolds, PTL

\* An acknowledged update is in the trace of a running job, or was given up.
THEOREM OutputNotForgottenHolds == Spec => []OutputNotForgotten
  <1>1. IInv => OutputNotForgotten
    BY DEF IInv, ReportInv
  <1>2. QED
    BY <1>1, IInvHolds, PTL

\* A job ends with a result only after its output: send_report() appends first.
THEOREM OutputBeforeResultHolds == Spec => []OutputBeforeResult
  <1>1. IInv => OutputBeforeResult
    BY DEF IInv, ResultInv
  <1>2. QED
    BY <1>1, IInvHolds, PTL

\* Chunks are repeated by faults only, a lost offset repeats none.
THEOREM RepeatedOutputIsFaultHolds == Spec => []RepeatedOutputIsFault
  <1>1. IInv => RepeatedOutputIsFault
    BY DEF IInv, CopiesInv, RepeatedOutputIsFault, Copies
  <1>2. QED
    BY <1>1, IInvHolds, PTL

\* The HTTP 416 that add() does not handle needs a fault each time.
THEOREM ExitsAreFaultsHolds == Spec => []ExitsAreFaults
  <1>1. IInv => ExitsAreFaults
    <2> SUFFICES ASSUME IInv PROVE exits <= faults
      BY DEF ExitsAreFaults
    <2>1. IsFiniteSet(LatePatches)
      BY FS_Subset DEF IInv, LatePatches
    <2>2. Cardinality(LatePatches) \in Nat /\ WrongResync \in {0, 1}
      BY <2>1, FS_CardinalityType DEF WrongResync
    <2>3. exits \in Nat /\ faults \in Nat
      BY DEF IInv, TypeOK, HistoryTypeOK
    <2>4. exits + Cardinality(LatePatches) + WrongResync <= faults
      BY DEF IInv, ExitsInv
    <2>5. QED
      BY <2>2, <2>3, <2>4
  <1>2. QED
    BY <1>1, IInvHolds, PTL

\* All of that together: the trace has the output up to what was given up, in its
\* order, and before the result.
THEOREM SafetyHolds == Spec => []Safety
<1>1. TypeOK /\ OutputInOrder /\ OutputNotForgotten /\ OutputBeforeResult => Safety
  BY DEF Safety
<1>2. QED
  BY <1>1, TypeCorrect, OutputInOrderHolds, OutputNotForgottenHolds, OutputBeforeResultHolds, PTL

\* Every repetition of output and every exit of the updater is paid by a fault.
THEOREM HarmIsBoundedHolds == Spec => []HarmIsBounded
<1>1. RepeatedOutputIsFault /\ ExitsAreFaults => HarmIsBounded
  BY DEF HarmIsBounded
<1>2. QED
  BY <1>1, RepeatedOutputIsFaultHolds, ExitsAreFaultsHolds, PTL
=============================================================================
