--------------------------- MODULE ServicesProofs ---------------------------
(***************************************************************************)
(* Proofs about the task services, for every value of the constants: the   *)
(* life of FT View jobs, the counters of their batches, the output of a    *)
(* task and the log handler.                                               *)
(***************************************************************************)
EXTENDS Services, FiniteSetTheorems, SequenceTheorems, TLAPS

---------------------------------------------------------------------------
(* What the instances take from the library is what this module takes. *)

LEMMA LogRange == \A s : Log!Range(s) = Range(s)
BY DEF Log!Range, Range

LEMMA LogCardinality ==
  \A S : /\ Log!Cardinality(S) = Cardinality(S)
BY DEF Log!Cardinality, Cardinality

LEMMA JobCardinality ==
  \A S : /\ Job!Cardinality(S) = Cardinality(S)
         /\ Job!IsFiniteSet(S) = IsFiniteSet(S)
BY DEF Job!Cardinality, Cardinality, Job!IsFiniteSet, IsFiniteSet

LEMMA BatchCardinality ==
  \A S : /\ Batch!Cardinality(S) = Cardinality(S)
         /\ Batch!IsFiniteSet(S) = IsFiniteSet(S)
BY DEF Batch!Cardinality, Cardinality, Batch!IsFiniteSet, IsFiniteSet

---------------------------------------------------------------------------
(* Sequences *)

LEMMA Appended ==
  ASSUME NEW S, NEW s \in Seq(S), NEW e \in S
  PROVE  /\ Append(s, e) \in Seq(S) /\ Append(s, e) # <<>>
         /\ Len(s) \in Nat /\ DOMAIN s = 1 .. Len(s)
         /\ DOMAIN Append(s, e) = 1 .. Len(s) + 1
         /\ Len(Append(s, e)) = Len(s) + 1
         /\ \A i \in 1 .. Len(s) : Append(s, e)[i] = s[i] /\ s[i] \in S
         /\ Append(s, e)[Len(s) + 1] = e
         /\ Job!Range(Append(s, e)) = Job!Range(s) \union {e}
<1>1. /\ Append(s, e) \in Seq(S) /\ Len(s) \in Nat /\ Len(Append(s, e)) = Len(s) + 1
      /\ \A i \in 1 .. Len(s) : Append(s, e)[i] = s[i] /\ s[i] \in S
      /\ Append(s, e)[Len(s) + 1] = e /\ Append(s, e) # <<>>
  BY AppendProperties, LenProperties, ElementOfSeq
<1>2. DOMAIN s = 1 .. Len(s) /\ DOMAIN Append(s, e) = 1 .. Len(s) + 1
  BY <1>1, LenProperties
<1>3. 1 .. Len(s) + 1 = (1 .. Len(s)) \union {Len(s) + 1}
  BY <1>1
<1>4. Job!Range(Append(s, e)) = Job!Range(s) \union {e}
  BY <1>1, <1>2, <1>3 DEF Job!Range
<1> QED BY <1>1, <1>2, <1>4

LEMMA Tailed ==
  ASSUME NEW S, NEW s \in Seq(S), s # <<>>
  PROVE  /\ Tail(s) \in Seq(S)
         /\ Len(s) \in Nat \ {0} /\ DOMAIN s = 1 .. Len(s)
         /\ DOMAIN Tail(s) = 1 .. Len(s) - 1
         /\ \A i \in 1 .. Len(s) - 1 : Tail(s)[i] = s[i + 1]
         /\ Head(s) = s[1] /\ Head(s) \in S
         /\ Job!Range(s) = {Head(s)} \union Job!Range(Tail(s))
<1>1. /\ Tail(s) \in Seq(S) /\ Len(s) \in Nat \ {0} /\ Len(Tail(s)) = Len(s) - 1
      /\ \A i \in 1 .. Len(s) - 1 : Tail(s)[i] = s[i + 1]
      /\ Head(s) = s[1] /\ Head(s) \in S
  BY HeadTailProperties, LenProperties, EmptySeq
<1>2. DOMAIN s = 1 .. Len(s) /\ DOMAIN Tail(s) = 1 .. Len(s) - 1
  BY <1>1, LenProperties
<1>3. /\ Job!Range(s) = {s[i] : i \in 1 .. Len(s)}
      /\ Job!Range(Tail(s)) = {s[i + 1] : i \in 1 .. Len(s) - 1}
  BY <1>1, <1>2 DEF Job!Range
<1>4. ASSUME NEW i \in 1 .. Len(s) PROVE s[i] \in {Head(s)} \union Job!Range(Tail(s))
  <2>1. CASE i = 1
    BY <1>1, <2>1
  <2>2. CASE i # 1
    <3>1. i - 1 \in 1 .. Len(s) - 1 /\ Tail(s)[i - 1] = s[i]
      BY <1>1, <2>2
    <3> QED BY <1>2, <3>1 DEF Job!Range
  <2> QED BY <2>1, <2>2
<1>5. Job!Range(s) = {Head(s)} \union Job!Range(Tail(s))
  BY <1>1, <1>3, <1>4
<1> QED BY <1>1, <1>2, <1>5

---------------------------------------------------------------------------
(* The life of a job *)

Ended(r, i) == \E k \in DOMAIN updates : k > i /\ updates[k] = Job!Update("finished", r)
Carried(r) == \E w \in Workers : held[w] = r /\ step[w] # "acknowledge"
Written == IF applied THEN 1 ELSE 0
Followed(s, r, i) ==
  /\ s = "running" => Ended(r, i) \/ Carried(r)
  /\ s = "enqueued" /\ r \notin late => Ended(r, i) \/ Carried(r) \/ r \in Job!Range(tasks)
  /\ s = "taken" /\ r \in ended => Ended(r, i)

AtWork ==
  /\ ingress.at # "request" => ingress.run \in Job!Runs
  /\ ingress.at = "request" => ingress.run = Job!NoRun
  /\ \A w \in Workers : step[w] # "read" => held[w] \in Job!Runs
  /\ applied => updates # <<>>

RowInv ==
  \A j \in Jobs :
    /\ progress[j].state \in {"taken", "enqueued", "running", "finished"} =>
         progress[j].run \in Job!RunsOf(j)
    /\ Followed(progress[j].state, progress[j].run, Written)

UpdatesFollowed == \A i \in DOMAIN updates : Followed(updates[i].status, updates[i].run, i)

TaskInv ==
  ingress.at = "write_update" /\ ingress.run \notin ended =>
    Carried(ingress.run) \/ ingress.run \in Job!Range(tasks)

CleanInv ==
  \A j \in Jobs : requested[j] /\ clean[j] =>
    /\ progress[j].state = "queued"
    /\ \A r \in Job!RunsOf(j) : ~Job!UnderWay(r)

JobIInv == Job!TypeOK /\ AtWork /\ Job!OneRunPerRequest /\ CleanInv /\ TaskInv /\ UpdatesFollowed /\ RowInv

\* A step that takes no run keeps the request of a job if it brings nothing of an earlier run
\* to work, and does not touch a row that is queued.
LEMMA RequestsKept ==
  ASSUME Job!OneRunPerRequest, CleanInv, Job!TypeOK,
         jobOf' = jobOf, requested' = requested, clean' = clean,
         \A r \in Job!Runs : Job!UnderWay(r)' => Job!UnderWay(r),
         \A j \in Jobs :
           \/ progress'[j] = progress[j]
           \/ progress'[j].state # "queued" /\ \E r \in Job!RunsOf(j) : Job!UnderWay(r)
  PROVE  Job!OneRunPerRequest' /\ CleanInv'
<1>1. Job!Runs' = Job!Runs /\ \A j \in Jobs : Job!RunsOf(j)' = Job!RunsOf(j) /\ Job!RunsOf(j) \subseteq Job!Runs
  BY DEF Job!Runs, Job!RunsOf
<1>2. Job!OneRunPerRequest'
  BY DEF Job!OneRunPerRequest
<1>3. CleanInv'
  <2> SUFFICES ASSUME NEW j \in Jobs, requested[j], clean[j]
               PROVE  /\ progress'[j].state = "queued"
                      /\ \A r \in Job!RunsOf(j) : ~Job!UnderWay(r)'
    BY <1>1 DEF CleanInv
  <2>1. progress[j].state = "queued" /\ \A r \in Job!RunsOf(j) : ~Job!UnderWay(r)
    BY DEF CleanInv
  <2>2. progress'[j] = progress[j]
    BY <2>1
  <2> QED BY <1>1, <2>1, <2>2
<1> QED BY <1>2, <1>3

LEMMA JobInit ==
  ASSUME Job!ConstantsAssumption, Job!Init
  PROVE  JobIInv
<1>1. Job!TypeOK
  <2>1. \A S : <<>> \in Seq(S)
    OBVIOUS
  <2>2. Len(jobOf) = 0 /\ Job!NoRun \in 0 .. Len(jobOf)
    BY DEF Job!Init, Job!NoRun
  <2>3. /\ progress \in [Jobs ->
              [state : {"created", "queued", "taken", "enqueued", "running", "finished"},
               run : 0 .. Len(jobOf)]]
        /\ ingress \in [at : {"request", "write_task", "write_update"}, run : 0 .. Len(jobOf)]
        /\ held \in [Workers -> 0 .. Len(jobOf)]
    BY <2>2 DEF Job!Init, Job!Row
  <2>4. tasks \in Seq(Job!Runs) /\ jobOf \in Seq(Jobs) /\ ended \in SUBSET Job!Runs /\ late \in SUBSET ended
    BY <2>1 DEF Job!Init
  <2>5. updates \in Seq([status : {"enqueued", "running", "finished"}, run : Job!Runs])
    BY <2>1 DEF Job!Init
  <2>6. /\ step \in [Workers -> {"read", "run", "finish", "acknowledge"}]
        /\ requested \in [Jobs -> BOOLEAN] /\ clean \in [Jobs -> BOOLEAN]
    BY DEF Job!Init
  <2>7. requests \in 0 .. MaxRequests /\ jobFaults \in 0 .. MaxFaults
    BY DEF Job!Init, Job!ConstantsAssumption
  <2>8. applied \in BOOLEAN
    BY DEF Job!Init
  <2> QED BY <2>3, <2>4, <2>5, <2>6, <2>7, <2>8 DEF Job!TypeOK
<1>2. DOMAIN updates = {} /\ Job!Runs = {}
  BY DEF Job!Init, Job!Runs
<1>3. AtWork /\ TaskInv
  BY DEF Job!Init, AtWork, TaskInv
<1>4. Job!OneRunPerRequest /\ CleanInv
  BY DEF Job!Init, Job!OneRunPerRequest, CleanInv, Job!Row
<1>5. UpdatesFollowed
  BY <1>2 DEF UpdatesFollowed
<1>6. RowInv
  BY DEF Job!Init, RowInv, Followed, Job!Row
<1> QED BY <1>1, <1>3, <1>4, <1>5, <1>6 DEF JobIInv

LEMMA ScheduleKeeps ==
  ASSUME Job!ConstantsAssumption, JobIInv, NEW chosen \in SUBSET Jobs, Job!Schedule(chosen)
  PROVE  JobIInv'
<1> USE DEF JobIInv, Job!Schedule, Job!service
<1>1. Job!TypeOK'
  <2>1. IsFiniteSet(chosen) /\ Job!Cardinality(chosen) \in Nat
    BY FS_Subset, FS_CardinalityType, JobCardinality DEF Job!ConstantsAssumption
  <2>2. requests' \in 0 .. MaxRequests
    BY <2>1 DEF Job!TypeOK, Job!ConstantsAssumption
  <2>3. progress' \in [Jobs ->
       [state : {"created", "queued", "taken", "enqueued", "running", "finished"}, run : 0 .. Len(jobOf)]]
    <3>1. Job!NoRun \in 0 .. Len(jobOf)
      BY LenProperties DEF Job!TypeOK, Job!NoRun
    <3> QED BY <3>1 DEF Job!TypeOK, Job!Row
  <2>4. requested' \in [Jobs -> BOOLEAN] /\ clean' \in [Jobs -> BOOLEAN]
    BY DEF Job!TypeOK
  <2> QED BY <2>2, <2>3, <2>4 DEF Job!TypeOK, Job!Runs
<1>2. AtWork' /\ TaskInv' /\ UpdatesFollowed'
  BY DEF AtWork, TaskInv, UpdatesFollowed, Followed, Ended, Carried, Job!Runs
<1>3. Job!OneRunPerRequest'
  BY DEF Job!OneRunPerRequest, Job!TypeOK
<1>4. CleanInv'
  <2> SUFFICES ASSUME NEW j \in Jobs, requested'[j], clean'[j]
               PROVE  progress'[j].state = "queued" /\ \A r \in Job!RunsOf(j) : ~Job!UnderWay(r)
    BY DEF CleanInv, Job!RunsOf, Job!Runs, Job!UnderWay
  <2>1. CASE j \in chosen
    BY <2>1 DEF Job!Row, Job!TypeOK
  <2>2. CASE j \notin chosen
    BY <2>2 DEF CleanInv, Job!TypeOK
  <2> QED BY <2>1, <2>2
<1>5. RowInv'
  <2> SUFFICES ASSUME NEW j \in Jobs
               PROVE  /\ progress'[j].state \in {"taken", "enqueued", "running", "finished"} =>
                           progress'[j].run \in Job!RunsOf(j)
                      /\ Followed(progress'[j].state, progress'[j].run, Written)
    BY DEF RowInv, Job!RunsOf, Job!Runs, Followed, Written, Ended, Carried
  <2>1. CASE j \in chosen
    BY <2>1 DEF Job!Row, Followed
  <2>2. CASE j \notin chosen
    BY <2>2 DEF RowInv
  <2> QED BY <2>1, <2>2
<1> QED BY <1>1, <1>2, <1>3, <1>4, <1>5

\* What the transaction of pop_job() keeps: the new run is the only one that changes.
LEMMA PopJobKeeps ==
  ASSUME Job!ConstantsAssumption, JobIInv, NEW j \in Jobs, Job!PopJob(j), UNCHANGED updates,
         UNCHANGED <<tasks, held, step, applied, clean, ended, late>>,
         ingress'.run \in {Job!NoRun, Len(jobOf')}
  PROVE  /\ Job!OneRunPerRequest' /\ CleanInv' /\ UpdatesFollowed' /\ RowInv'
         /\ jobOf' \in Seq(Jobs) /\ Len(jobOf') = Len(jobOf) + 1 /\ Len(jobOf) \in Nat
         /\ Job!Runs \subseteq Job!Runs' /\ Len(jobOf') \in Job!Runs'
         /\ progress' \in [Jobs ->
              [state : {"created", "queued", "taken", "enqueued", "running", "finished"},
               run : 0 .. Len(jobOf')]]
         /\ requested' \in [Jobs -> BOOLEAN]
<1> USE DEF JobIInv, Job!PopJob
<1>1. /\ jobOf' \in Seq(Jobs) /\ Len(jobOf') = Len(jobOf) + 1 /\ Len(jobOf) \in Nat
      /\ \A r \in Job!Runs : jobOf'[r] = jobOf[r]
      /\ jobOf'[Len(jobOf) + 1] = j
  BY Appended DEF Job!TypeOK, Job!Runs
<1>2. /\ Job!Runs \subseteq Job!Runs' /\ Len(jobOf') \in Job!Runs' /\ Job!Runs' = Job!Runs \union {Len(jobOf')}
      /\ Len(jobOf') \notin Job!Runs /\ Job!NoRun \notin Job!Runs'
  BY <1>1 DEF Job!Runs, Job!NoRun
<1>3. /\ progress' = [progress EXCEPT ![j] = Job!Row("taken", Len(jobOf'))]
      /\ progress' \in [Jobs ->
              [state : {"created", "queued", "taken", "enqueued", "running", "finished"},
               run : 0 .. Len(jobOf')]]
  BY <1>1 DEF Job!TypeOK, Job!Taken, Job!Row
<1>4. requested' = [requested EXCEPT ![j] = FALSE] /\ requested' \in [Jobs -> BOOLEAN]
  BY DEF Job!TypeOK
<1>5. Job!OneRunPerRequest'
  BY <1>3, <1>4 DEF Job!OneRunPerRequest, Job!TypeOK, Job!Row
<1>6. ASSUME NEW i \in Jobs, i # j PROVE Job!RunsOf(i)' = Job!RunsOf(i)
  BY <1>1, <1>2, <1>6 DEF Job!RunsOf
<1>7. CleanInv'
  <2> SUFFICES ASSUME NEW i \in Jobs, requested'[i], clean[i]
               PROVE  progress'[i].state = "queued" /\ \A r \in Job!RunsOf(i)' : ~Job!UnderWay(r)'
    BY DEF CleanInv
  <2>1. i # j /\ requested[i]
    BY <1>4 DEF Job!TypeOK
  <2>2. progress[i].state = "queued" /\ \A r \in Job!RunsOf(i) : ~Job!UnderWay(r)
    BY <2>1 DEF CleanInv
  <2>3. progress'[i].state = "queued"
    BY <2>1, <2>2, <1>3 DEF Job!TypeOK
  <2>4. ASSUME NEW r \in Job!RunsOf(i) PROVE ~Job!UnderWay(r)'
    <3>1. r \in Job!Runs /\ ~Job!UnderWay(r)
      BY <2>2 DEF Job!RunsOf
    <3>2. ingress'.run # r
      BY <3>1, <1>2
    <3> QED BY <3>1, <3>2 DEF Job!UnderWay
  <2> QED BY <2>1, <2>3, <2>4, <1>6
<1>8. UpdatesFollowed'
  BY DEF UpdatesFollowed, Followed, Ended, Carried
<1>9. RowInv'
  <2> SUFFICES ASSUME NEW i \in Jobs
               PROVE  /\ progress'[i].state \in {"taken", "enqueued", "running", "finished"} =>
                           progress'[i].run \in Job!RunsOf(i)'
                      /\ Followed(progress'[i].state, progress'[i].run, Written)
    BY DEF RowInv, Followed, Written, Ended, Carried
  <2>1. CASE i = j
    <3>1. progress'[i] = Job!Row("taken", Len(jobOf'))
      BY <2>1, <1>3 DEF Job!TypeOK
    <3>2. Len(jobOf') \in Job!RunsOf(i)'
      BY <2>1, <1>1, <1>2 DEF Job!RunsOf
    <3>3. Len(jobOf') \notin ended
      BY <1>2 DEF Job!TypeOK
    <3> QED BY <3>1, <3>2, <3>3 DEF Job!Row, Followed
  <2>2. CASE i # j
    BY <2>2, <1>3, <1>6 DEF RowInv, Job!TypeOK
  <2> QED BY <2>1, <2>2
<1> QED BY <1>1, <1>2, <1>3, <1>4, <1>5, <1>7, <1>8, <1>9

\* The types of what a step that takes a run leaves alone: there are more runs now.
LEMMA MoreRuns ==
  ASSUME Job!TypeOK, Job!Runs \subseteq Job!Runs', Len(jobOf') = Len(jobOf) + 1, Len(jobOf) \in Nat,
         UNCHANGED <<updates, tasks, held, step, applied, clean, ended, late, requests>>
  PROVE  /\ tasks' \in Seq(Job!Runs') /\ held' \in [Workers -> 0 .. Len(jobOf')]
         /\ step' \in [Workers -> {"read", "run", "finish", "acknowledge"}]
         /\ updates' \in Seq([status : {"enqueued", "running", "finished"}, run : Job!Runs'])
         /\ applied' \in BOOLEAN /\ clean' \in [Jobs -> BOOLEAN]
         /\ ended' \in SUBSET Job!Runs' /\ late' \in SUBSET ended'
         /\ requests' \in 0 .. MaxRequests
<1>1. Seq(Job!Runs) \subseteq Seq(Job!Runs')
  BY SeqMonotonic DEF Job!TypeOK
<1>2. [status : {"enqueued", "running", "finished"}, run : Job!Runs] \subseteq
        [status : {"enqueued", "running", "finished"}, run : Job!Runs']
  OBVIOUS
<1>3. updates \in Seq([status : {"enqueued", "running", "finished"}, run : Job!Runs'])
  <2>1. ASSUME NEW R, NEW Q, R \subseteq Q, NEW u \in Seq(R) PROVE u \in Seq(Q)
    BY <2>1, SeqMonotonic
  <2>2. updates \in Seq([status : {"enqueued", "running", "finished"}, run : Job!Runs])
    BY DEF Job!TypeOK
  <2> QED BY <1>2, <2>1, <2>2
<1>4. held' \in [Workers -> 0 .. Len(jobOf')]
  BY DEF Job!TypeOK
<1>5. tasks' \in Seq(Job!Runs') /\ ended' \in SUBSET Job!Runs' /\ late' \in SUBSET ended'
  BY <1>1 DEF Job!TypeOK
<1> HIDE DEF Job!Runs
<1>6. updates' = updates /\ step' = step /\ applied' = applied /\ clean' = clean /\ requests' = requests
  OBVIOUS
<1>7. /\ step \in [Workers -> {"read", "run", "finish", "acknowledge"}]
      /\ applied \in BOOLEAN /\ clean \in [Jobs -> BOOLEAN] /\ requests \in 0 .. MaxRequests
  BY DEF Job!TypeOK
<1> QED BY <1>3, <1>4, <1>5, <1>6, <1>7

LEMMA PopKeeps ==
  ASSUME Job!ConstantsAssumption, JobIInv, NEW j \in Jobs, Job!Pop(j)
  PROVE  JobIInv'
<1> USE DEF JobIInv, Job!Pop
<1>0. ingress' = [at |-> "write_task", run |-> Len(jobOf')]
  OBVIOUS
<1>1. /\ Job!OneRunPerRequest' /\ CleanInv' /\ UpdatesFollowed' /\ RowInv'
      /\ jobOf' \in Seq(Jobs) /\ Len(jobOf') = Len(jobOf) + 1 /\ Len(jobOf) \in Nat
      /\ Job!Runs \subseteq Job!Runs' /\ Len(jobOf') \in Job!Runs'
      /\ progress' \in [Jobs ->
           [state : {"created", "queued", "taken", "enqueued", "running", "finished"},
            run : 0 .. Len(jobOf')]]
      /\ requested' \in [Jobs -> BOOLEAN]
  BY PopJobKeeps, <1>0
<1>2. Job!TypeOK'
  <2>1. ingress' \in [at : {"request", "write_task", "write_update"}, run : 0 .. Len(jobOf')]
    BY <1>0, <1>1
  <2>2. jobFaults' \in 0 .. MaxFaults
    BY DEF Job!TypeOK
  <2> QED BY <2>1, <2>2, <1>1, MoreRuns DEF Job!TypeOK
<1>3. AtWork' /\ TaskInv'
  BY <1>0, <1>1 DEF AtWork, TaskInv
<1> QED BY <1>1, <1>2, <1>3

LEMMA PopUnansweredKeeps ==
  ASSUME Job!ConstantsAssumption, JobIInv, NEW j \in Jobs, Job!PopUnanswered(j)
  PROVE  JobIInv'
<1> USE DEF JobIInv, Job!PopUnanswered, Job!service
<1>0. ingress.at = "request" /\ ingress' = ingress /\ ingress.run = Job!NoRun
  BY DEF Job!PopJob, AtWork
<1>1. /\ Job!OneRunPerRequest' /\ CleanInv' /\ UpdatesFollowed' /\ RowInv'
      /\ jobOf' \in Seq(Jobs) /\ Len(jobOf') = Len(jobOf) + 1 /\ Len(jobOf) \in Nat
      /\ Job!Runs \subseteq Job!Runs' /\ Len(jobOf') \in Job!Runs'
      /\ progress' \in [Jobs ->
           [state : {"created", "queued", "taken", "enqueued", "running", "finished"},
            run : 0 .. Len(jobOf')]]
      /\ requested' \in [Jobs -> BOOLEAN]
  BY PopJobKeeps, <1>0
<1>2. Job!TypeOK'
  <2>1. jobFaults' \in 0 .. MaxFaults
    BY DEF Job!TypeOK, Job!ConstantsAssumption
  <2>2. ingress' \in [at : {"request", "write_task", "write_update"}, run : 0 .. Len(jobOf')]
    BY <1>0, <1>1 DEF Job!TypeOK
  <2> QED BY <2>1, <2>2, <1>1, MoreRuns DEF Job!TypeOK
<1>3. AtWork' /\ TaskInv'
  BY <1>0, <1>1 DEF AtWork, TaskInv
<1> QED BY <1>1, <1>2, <1>3

LEMMA WriteTaskKeeps ==
  ASSUME Job!ConstantsAssumption, JobIInv, Job!WriteTask
  PROVE  JobIInv'
<1> USE DEF JobIInv, Job!WriteTask, Job!history
<1>1. /\ ingress.run \in Job!Runs /\ ingress'.at = "write_update" /\ ingress'.run = ingress.run
      /\ ingress' \in [at : {"request", "write_task", "write_update"}, run : 0 .. Len(jobOf)]
      /\ Job!Runs' = Job!Runs
  BY DEF AtWork, Job!TypeOK, Job!Runs
<1>2. tasks' \in Seq(Job!Runs) /\ Job!Range(tasks') = Job!Range(tasks) \union {ingress.run}
  BY <1>1, Appended DEF Job!TypeOK
<1>3. Job!TypeOK'
  BY <1>1, <1>2 DEF Job!TypeOK
<1>4. AtWork' /\ TaskInv'
  BY <1>1, <1>2 DEF AtWork, TaskInv
<1>5. \A r \in Job!Runs : Job!UnderWay(r)' => Job!UnderWay(r)
  BY <1>1, <1>2 DEF Job!UnderWay
<1>6. Job!OneRunPerRequest' /\ CleanInv'
  BY <1>5, RequestsKept
<1>7. ASSUME NEW s, NEW r, NEW i, Followed(s, r, i) PROVE Followed(s, r, i)'
  BY <1>2, <1>7 DEF Followed, Ended, Carried
<1>8. UpdatesFollowed' /\ RowInv'
  BY <1>7 DEF UpdatesFollowed, RowInv, Written, Job!RunsOf, Job!Runs
<1> QED BY <1>3, <1>4, <1>6, <1>8

\* A longer stream of updates: what followed an update still follows it.
LEMMA StreamGrows ==
  ASSUME JobIInv, NEW u \in [status : {"enqueued", "running", "finished"}, run : Job!Runs],
         updates' = Append(updates, u)
  PROVE  /\ updates' \in Seq([status : {"enqueued", "running", "finished"}, run : Job!Runs])
         /\ updates' # <<>> /\ Len(updates) \in Nat /\ DOMAIN updates = 1 .. Len(updates)
         /\ DOMAIN updates' = 1 .. Len(updates) + 1
         /\ \A i \in DOMAIN updates : updates'[i] = updates[i]
         /\ updates'[Len(updates) + 1] = u
         /\ \A r, i : Ended(r, i) => Ended(r, i)'
         /\ applied => Len(updates) > 0
<1> DEFINE S == [status : {"enqueued", "running", "finished"}, run : Job!Runs]
<1>1. updates \in Seq(S)
  BY DEF JobIInv, Job!TypeOK
<1> HIDE DEF S
<1>2. u \in S
  BY DEF S
<1>3. /\ updates' \in Seq(S) /\ updates' # <<>>
      /\ Len(updates) \in Nat /\ DOMAIN updates = 1 .. Len(updates)
      /\ DOMAIN updates' = 1 .. Len(updates) + 1
      /\ \A i \in DOMAIN updates : updates'[i] = updates[i]
      /\ updates'[Len(updates) + 1] = u
  BY <1>1, <1>2, Appended
<1>4. \A r, i : Ended(r, i) => Ended(r, i)'
  BY <1>3 DEF Ended
<1>5. applied => Len(updates) > 0
  BY <1>1, <1>3, EmptySeq DEF JobIInv, AtWork
<1> QED BY <1>3, <1>4, <1>5 DEF S

LEMMA UpdateTypes ==
  ASSUME Job!TypeOK
  PROVE  /\ Len(updates) \in Nat /\ DOMAIN updates = 1 .. Len(updates)
         /\ \A i \in DOMAIN updates :
              updates[i] \in [status : {"enqueued", "running", "finished"}, run : Job!Runs]
         /\ \A i \in DOMAIN updates : updates[i].run \in Job!Runs
<1>1. ASSUME NEW S, NEW u \in Seq(S)
      PROVE  Len(u) \in Nat /\ DOMAIN u = 1 .. Len(u) /\ \A i \in DOMAIN u : u[i] \in S
  BY ElementOfSeq, LenProperties
<1>2. updates \in Seq([status : {"enqueued", "running", "finished"}, run : Job!Runs])
  BY DEF Job!TypeOK
<1>3. \A i \in DOMAIN updates :
        updates[i] \in [status : {"enqueued", "running", "finished"}, run : Job!Runs]
  BY <1>1, <1>2
<1> QED BY <1>1, <1>2, <1>3

\* An update goes to the end of the stream: it is followed, and so are the others.
LEMMA UpdateFollowed ==
  ASSUME JobIInv, NEW u \in [status : {"enqueued", "running", "finished"}, run : Job!Runs],
         updates' = Append(updates, u), NEW n, n = Len(updates) + 1,
         \A s : \A r \in Job!Runs, i \in 0 .. Len(updates) : Followed(s, r, i) => Followed(s, r, i)',
         Followed(u.status, u.run, n)'
  PROVE  UpdatesFollowed'
<1>1. /\ DOMAIN updates' = 1 .. n /\ Len(updates) \in Nat
      /\ DOMAIN updates = 1 .. Len(updates)
      /\ \A i \in DOMAIN updates : updates'[i] = updates[i]
      /\ updates'[n] = u
  BY StreamGrows
<1>2. \A i \in DOMAIN updates : updates[i].run \in Job!Runs
  BY UpdateTypes DEF JobIInv
<1>3. ASSUME NEW i \in 1 .. n
      PROVE  \E s, r : s = updates'[i].status /\ r = updates'[i].run /\ Followed(s, r, i)'
  <2>1. CASE i \in DOMAIN updates
    <3>1. PICK s, r : s = updates[i].status /\ r = updates[i].run
      OBVIOUS
    <3>2. Followed(s, r, i)'
      BY <2>1, <3>1, <1>1, <1>2 DEF JobIInv, UpdatesFollowed
    <3> QED BY <2>1, <3>1, <3>2, <1>1
  <2>2. CASE i = n
    <3>1. PICK s, r : s = u.status /\ r = u.run
      OBVIOUS
    <3> QED BY <2>2, <3>1, <1>1
  <2> QED BY <1>1, <2>1, <2>2
<1> QED BY <1>1, <1>3 DEF UpdatesFollowed

LEMMA WriteUpdateKeeps ==
  ASSUME Job!ConstantsAssumption, JobIInv, Job!WriteUpdate
  PROVE  JobIInv'
<1> USE DEF JobIInv, Job!WriteUpdate
<1>q. PICK q : q = ingress.run
  OBVIOUS
<1>n. PICK n : n = Len(updates) + 1
  OBVIOUS
<1>1. /\ q \in Job!Runs /\ ingress'.at = "request" /\ ingress'.run = Job!NoRun
      /\ ingress' \in [at : {"request", "write_task", "write_update"}, run : 0 .. Len(jobOf)]
      /\ Job!Runs' = Job!Runs
  <2>1. Job!NoRun \in 0 .. Len(jobOf)
    BY LenProperties DEF Job!TypeOK, Job!NoRun
  <2> QED BY <2>1, <1>q DEF AtWork, Job!TypeOK, Job!Runs
<1>2. /\ Job!Update("enqueued", q) \in [status : {"enqueued", "running", "finished"}, run : Job!Runs]
      /\ Job!Update("enqueued", q).status = "enqueued" /\ Job!Update("enqueued", q).run = q
  BY <1>1 DEF Job!Update
<1>3. /\ updates' \in Seq([status : {"enqueued", "running", "finished"}, run : Job!Runs])
      /\ updates' # <<>> /\ Len(updates) \in Nat /\ DOMAIN updates = 1 .. Len(updates)
      /\ DOMAIN updates' = 1 .. n
      /\ \A i \in DOMAIN updates : updates'[i] = updates[i]
      /\ updates'[n] = Job!Update("enqueued", q)
      /\ \A r, i : Ended(r, i) => Ended(r, i)'
  BY <1>q, <1>n, <1>2, StreamGrows
<1>4. late' \in SUBSET ended /\ late \subseteq late' /\ (q \notin late' => q \notin ended)
  BY <1>q DEF Job!TypeOK
<1>5. Job!TypeOK'
  BY <1>1, <1>3, <1>4 DEF Job!TypeOK
<1>6. AtWork' /\ TaskInv'
  BY <1>1, <1>3 DEF AtWork, TaskInv
<1>7. \A r \in Job!Runs : Job!UnderWay(r)' => Job!UnderWay(r)
  <2> SUFFICES ASSUME NEW r \in Job!Runs, NEW i \in DOMAIN updates', updates'[i].run = r
               PROVE  Job!UnderWay(r)
    BY <1>1 DEF Job!UnderWay, Job!NoRun, Job!Runs
  <2>1. i \in DOMAIN updates \/ i = n
    BY <1>n, <1>3
  <2>2. CASE i \in DOMAIN updates
    BY <2>2, <1>3 DEF Job!UnderWay
  <2>3. CASE i = n
    BY <2>3, <1>q, <1>2, <1>3 DEF Job!UnderWay
  <2> QED BY <2>1, <2>2, <2>3
<1>8. Job!OneRunPerRequest' /\ CleanInv'
  BY <1>7, RequestsKept
<1>9. ASSUME NEW s, NEW r, NEW i, Followed(s, r, i) PROVE Followed(s, r, i)'
  BY <1>3, <1>4, <1>9 DEF Followed, Carried
<1>10. Followed("enqueued", q, n)'
  <2>1. q \notin late' => Carried(q) \/ q \in Job!Range(tasks)
    BY <1>q, <1>4 DEF TaskInv
  <2> QED BY <2>1 DEF Followed, Carried
<1>11. UpdatesFollowed'
  BY <1>1, <1>2, <1>9, <1>10, <1>q, <1>n, UpdateFollowed
<1>12. RowInv'
  BY <1>9 DEF RowInv, Written, Job!RunsOf, Job!Runs
<1> QED BY <1>5, <1>6, <1>8, <1>11, <1>12

LEMMA CrashIngressKeeps ==
  ASSUME Job!ConstantsAssumption, JobIInv, Job!CrashIngress
  PROVE  JobIInv'
<1> USE DEF JobIInv, Job!CrashIngress, Job!history
<1>1. Job!TypeOK'
  <2>1. Job!NoRun \in 0 .. Len(jobOf)
    BY LenProperties DEF Job!TypeOK, Job!NoRun
  <2> QED BY <2>1 DEF Job!TypeOK, Job!Runs, Job!ConstantsAssumption
<1>2. AtWork' /\ TaskInv' /\ UpdatesFollowed' /\ RowInv'
  BY DEF AtWork, TaskInv, UpdatesFollowed, RowInv, Followed, Ended, Carried, Job!Runs, Job!RunsOf, Written
<1>3. \A r \in Job!Runs : Job!UnderWay(r)' => Job!UnderWay(r)
  BY DEF Job!UnderWay, Job!NoRun, Job!Runs
<1>4. Job!OneRunPerRequest' /\ CleanInv'
  BY <1>3, RequestsKept
<1> QED BY <1>1, <1>2, <1>4

LEMMA ReadKeeps ==
  ASSUME Job!ConstantsAssumption, JobIInv, NEW w \in Workers, Job!Read(w)
  PROVE  JobIInv'
<1> USE DEF JobIInv, Job!Read, Job!history
<1>t. PICK t : t = held'[w]
  OBVIOUS
<1>1. /\ tasks' \in Seq(Job!Runs) /\ held' \in [Workers -> 0 .. Len(jobOf)]
      /\ step' \in [Workers -> {"read", "run", "finish", "acknowledge"}]
      /\ t \in Job!Runs /\ held' = [held EXCEPT ![w] = t] /\ step' = [step EXCEPT ![w] = "run"]
      /\ \/ Job!Range(tasks') = Job!Range(tasks) /\ held' = held
         \/ Job!Range(tasks) = Job!Range(tasks') \union {t} /\ held[w] = Job!NoRun
  <2>1. CASE held[w] # Job!NoRun
    BY <2>1, <1>t DEF Job!TypeOK, Job!Runs, Job!NoRun
  <2>2. CASE held[w] = Job!NoRun
    <3>1. Tail(tasks) \in Seq(Job!Runs) /\ Head(tasks) \in Job!Runs /\ Job!Range(tasks) = {Head(tasks)} \union Job!Range(Tail(tasks))
      BY <2>2, Tailed DEF Job!TypeOK
    <3>2. tasks' = Tail(tasks) /\ held' = [held EXCEPT ![w] = Head(tasks)] /\ t = Head(tasks)
      BY <2>2, <1>t DEF Job!TypeOK
    <3>3. Job!Runs \subseteq 0 .. Len(jobOf)
      BY DEF Job!Runs
    <3>4. held' \in [Workers -> 0 .. Len(jobOf)]
      BY <3>1, <3>2, <3>3 DEF Job!TypeOK
    <3> QED BY <2>2, <3>1, <3>2, <3>4 DEF Job!TypeOK
  <2> QED BY <2>1, <2>2
<1>2. Job!TypeOK'
  BY <1>1 DEF Job!TypeOK, Job!Runs
<1>3. \A r \in Job!Runs : /\ Carried(r) => Carried(r)'
                          /\ r \in Job!Range(tasks) => r \in Job!Range(tasks') \/ Carried(r)'
  <2>1. ASSUME NEW r \in Job!Runs, Carried(r) PROVE Carried(r)'
    <3>1. PICK v \in Workers : held[v] = r /\ step[v] # "acknowledge"
      BY <2>1 DEF Carried
    <3>2. held'[v] = r /\ step'[v] # "acknowledge"
      BY <3>1, <1>1 DEF Job!TypeOK, Job!Runs, Job!NoRun
    <3> QED BY <3>2 DEF Carried
  <2>2. Carried(t)'
    BY <1>1, <1>t DEF Job!TypeOK, Carried
  <2> QED BY <2>1, <2>2, <1>1
<1>4. AtWork' /\ TaskInv'
  BY <1>1, <1>3 DEF AtWork, TaskInv, Job!Runs, Job!TypeOK
<1>5. \A r \in Job!Runs : Job!UnderWay(r)' => Job!UnderWay(r)
  <2> SUFFICES ASSUME NEW r \in Job!Runs, NEW v \in Workers, held'[v] = r PROVE Job!UnderWay(r)
    BY <1>1 DEF Job!UnderWay
  <2>1. held[v] = r \/ r \in Job!Range(tasks)
    BY <1>1 DEF Job!TypeOK
  <2> QED BY <2>1 DEF Job!UnderWay
<1>6. Job!OneRunPerRequest' /\ CleanInv'
  BY <1>5, RequestsKept
<1>7. ASSUME NEW s, NEW r \in Job!Runs, NEW i, Followed(s, r, i) PROVE Followed(s, r, i)'
  BY <1>3, <1>7 DEF Followed, Ended
<1>8. UpdatesFollowed'
  <2>1. \A i \in DOMAIN updates : updates[i].run \in Job!Runs
    BY UpdateTypes
  <2> QED BY <1>7, <2>1 DEF UpdatesFollowed
<1>9. RowInv'
  <2> SUFFICES ASSUME NEW j \in Jobs PROVE Followed(progress[j].state, progress[j].run, Written)'
    BY DEF RowInv, Job!RunsOf, Job!Runs
  <2>1. CASE progress[j].run \in Job!Runs
    BY <2>1, <1>7 DEF RowInv, Written
  <2>2. CASE progress[j].run \notin Job!Runs
    BY <2>2 DEF RowInv, Job!RunsOf, Followed
  <2> QED BY <2>1, <2>2
<1> QED BY <1>2, <1>4, <1>6, <1>8, <1>9

LEMMA RowsFollowed ==
  ASSUME JobIInv, UNCHANGED <<progress, jobOf, applied>>,
         \A s : \A r \in Job!Runs, i \in 0 .. Len(updates) : Followed(s, r, i) => Followed(s, r, i)'
  PROVE  RowInv'
<1>1. Written \in 0 .. Len(updates) /\ Written' = Written
  <2>1. updates \in Seq([status : {"enqueued", "running", "finished"}, run : Job!Runs])
    BY DEF JobIInv, Job!TypeOK
  <2>2. Len(updates) \in Nat /\ (updates # <<>> => Len(updates) > 0)
    BY <2>1, LenProperties, EmptySeq
  <2> QED BY <2>2 DEF JobIInv, AtWork, Job!TypeOK, Written
<1> SUFFICES ASSUME NEW j \in Jobs PROVE Followed(progress[j].state, progress[j].run, Written)'
  BY DEF JobIInv, RowInv, Job!RunsOf, Job!Runs
<1>2. PICK s, r, i : s = progress[j].state /\ r = progress[j].run /\ i = Written
  OBVIOUS
<1>3. Followed(s, r, i)'
  <2>1. CASE r \in Job!Runs
    BY <2>1, <1>1, <1>2 DEF JobIInv, RowInv
  <2>2. CASE r \notin Job!Runs
    BY <2>2, <1>2 DEF JobIInv, RowInv, Job!RunsOf, Followed
  <2> QED BY <2>1, <2>2
<1> QED BY <1>1, <1>2, <1>3

LEMMA SendRunningKeeps ==
  ASSUME Job!ConstantsAssumption, JobIInv, NEW w \in Workers, Job!SendRunning(w)
  PROVE  JobIInv'
<1> USE DEF JobIInv, Job!SendRunning, Job!history
<1>q. PICK q : q = held[w]
  OBVIOUS
<1>n. PICK n : n = Len(updates) + 1
  OBVIOUS
<1>1. q \in Job!Runs /\ Job!Runs' = Job!Runs
  BY <1>q DEF AtWork, Job!Runs
<1>2. /\ Job!Update("running", q) \in [status : {"enqueued", "running", "finished"}, run : Job!Runs]
      /\ Job!Update("running", q).status = "running" /\ Job!Update("running", q).run = q
  BY <1>1 DEF Job!Update
<1>3. /\ updates' \in Seq([status : {"enqueued", "running", "finished"}, run : Job!Runs])
      /\ updates' # <<>> /\ Len(updates) \in Nat /\ DOMAIN updates = 1 .. Len(updates)
      /\ DOMAIN updates' = 1 .. n
      /\ \A i \in DOMAIN updates : updates'[i] = updates[i]
      /\ updates'[n] = Job!Update("running", q)
      /\ \A r, i : Ended(r, i) => Ended(r, i)'
  BY <1>q, <1>n, <1>2, StreamGrows
<1>4. /\ step' \in [Workers -> {"read", "run", "finish", "acknowledge"}]
      /\ step'[w] = "finish" /\ \A v \in Workers : v # w => step'[v] = step[v]
  BY DEF Job!TypeOK
<1>5. Job!TypeOK'
  BY <1>1, <1>3, <1>4 DEF Job!TypeOK
<1>6. /\ \A r : Carried(r) => Carried(r)'
      /\ Carried(q)'
  BY <1>q, <1>4 DEF Carried
<1>7. AtWork' /\ TaskInv'
  BY <1>1, <1>3, <1>4, <1>6, <1>q DEF AtWork, TaskInv
<1>8. \A r \in Job!Runs : Job!UnderWay(r)' => Job!UnderWay(r)
  <2> SUFFICES ASSUME NEW r \in Job!Runs, NEW i \in DOMAIN updates', updates'[i].run = r
               PROVE  Job!UnderWay(r)
    BY DEF Job!UnderWay
  <2>1. i \in DOMAIN updates \/ i = n
    BY <1>n, <1>3
  <2>2. CASE i \in DOMAIN updates
    BY <2>2, <1>3 DEF Job!UnderWay
  <2>3. CASE i = n
    BY <2>3, <1>q, <1>2, <1>3 DEF Job!UnderWay
  <2> QED BY <2>1, <2>2, <2>3
<1>9. Job!OneRunPerRequest' /\ CleanInv'
  BY <1>8, RequestsKept
<1>10. ASSUME NEW s, NEW r, NEW i, Followed(s, r, i) PROVE Followed(s, r, i)'
  BY <1>3, <1>6, <1>10 DEF Followed
<1>11. Followed("running", q, n)'
  BY <1>6 DEF Followed
<1>12. UpdatesFollowed'
  BY <1>2, <1>10, <1>11, <1>q, <1>n, UpdateFollowed
<1>13. RowInv'
  BY <1>10, RowsFollowed
<1> QED BY <1>5, <1>7, <1>9, <1>12, <1>13

LEMMA SendFinishedKeeps ==
  ASSUME Job!ConstantsAssumption, JobIInv, NEW w \in Workers, Job!SendFinished(w)
  PROVE  JobIInv'
<1> USE DEF JobIInv, Job!SendFinished
<1>q. PICK q : q = held[w]
  OBVIOUS
<1>n. PICK n : n = Len(updates) + 1
  OBVIOUS
<1>1. q \in Job!Runs /\ Job!Runs' = Job!Runs /\ ended' = ended \union {q}
  BY <1>q DEF AtWork, Job!Runs
<1>2. /\ Job!Update("finished", q) \in [status : {"enqueued", "running", "finished"}, run : Job!Runs]
      /\ Job!Update("finished", q).status = "finished" /\ Job!Update("finished", q).run = q
  BY <1>1 DEF Job!Update
<1>3. /\ updates' \in Seq([status : {"enqueued", "running", "finished"}, run : Job!Runs])
      /\ updates' # <<>> /\ Len(updates) \in Nat /\ DOMAIN updates = 1 .. Len(updates)
      /\ DOMAIN updates' = 1 .. n
      /\ \A i \in DOMAIN updates : updates'[i] = updates[i]
      /\ updates'[n] = Job!Update("finished", q)
      /\ \A r, i : Ended(r, i) => Ended(r, i)'
  BY <1>q, <1>n, <1>2, StreamGrows
<1>4. /\ step' \in [Workers -> {"read", "run", "finish", "acknowledge"}]
      /\ step'[w] = "acknowledge" /\ \A v \in Workers : v # w => step'[v] = step[v]
  BY DEF Job!TypeOK
<1>5. Job!TypeOK'
  <2>1. ended' \in SUBSET Job!Runs /\ late \in SUBSET ended'
    BY <1>1 DEF Job!TypeOK
  <2> QED BY <2>1, <1>1, <1>3, <1>4 DEF Job!TypeOK
<1>6. /\ \A r : r # q /\ Carried(r) => Carried(r)'
      /\ \A i \in 0 .. Len(updates) : Ended(q, i)'
  <2>1. \A r : r # q /\ Carried(r) => Carried(r)'
    BY <1>q, <1>4 DEF Carried
  <2>2. n \in DOMAIN updates' /\ \A i \in 0 .. Len(updates) : n > i
    BY <1>n, <1>3
  <2>3. \A i \in 0 .. Len(updates) : Ended(q, i)'
    BY <2>2, <1>3 DEF Ended, Job!Update
  <2> QED BY <2>1, <2>3
<1>7. AtWork' /\ TaskInv'
  BY <1>1, <1>3, <1>4, <1>6, <1>q DEF AtWork, TaskInv
<1>8. \A r \in Job!Runs : Job!UnderWay(r)' => Job!UnderWay(r)
  <2> SUFFICES ASSUME NEW r \in Job!Runs, NEW i \in DOMAIN updates', updates'[i].run = r
               PROVE  Job!UnderWay(r)
    BY DEF Job!UnderWay
  <2>1. i \in DOMAIN updates \/ i = n
    BY <1>n, <1>3
  <2>2. CASE i \in DOMAIN updates
    BY <2>2, <1>3 DEF Job!UnderWay
  <2>3. CASE i = n
    BY <2>3, <1>q, <1>2, <1>3 DEF Job!UnderWay
  <2> QED BY <2>1, <2>2, <2>3
<1>9. Job!OneRunPerRequest' /\ CleanInv'
  BY <1>8, RequestsKept
<1>10. ASSUME NEW s, NEW r, NEW i \in 0 .. Len(updates), Followed(s, r, i)
       PROVE  Followed(s, r, i)'
  <2>1. CASE r = q
    BY <2>1, <1>6 DEF Followed
  <2>2. CASE r # q
    BY <2>2, <1>1, <1>3, <1>6, <1>10 DEF Followed
  <2> QED BY <2>1, <2>2
<1>11. Followed("finished", q, n)'
  BY DEF Followed
<1>12. UpdatesFollowed'
  BY <1>2, <1>10, <1>11, <1>q, <1>n, UpdateFollowed
<1>13. RowInv'
  BY <1>10, RowsFollowed
<1> QED BY <1>5, <1>7, <1>9, <1>12, <1>13

LEMMA AcknowledgeTaskKeeps ==
  ASSUME Job!ConstantsAssumption, JobIInv, NEW w \in Workers, Job!AcknowledgeTask(w)
  PROVE  JobIInv'
<1> USE DEF JobIInv, Job!AcknowledgeTask, Job!history, Job!service
<1>1. /\ step' \in [Workers -> {"read", "run", "finish", "acknowledge"}]
      /\ held' \in [Workers -> 0 .. Len(jobOf)]
      /\ step'[w] = "read" /\ held'[w] = Job!NoRun
      /\ \A v \in Workers : v # w => step'[v] = step[v] /\ held'[v] = held[v]
  <2>1. Job!NoRun \in 0 .. Len(jobOf)
    BY LenProperties DEF Job!TypeOK, Job!NoRun
  <2> QED BY <2>1 DEF Job!TypeOK
<1>2. Job!TypeOK'
  BY <1>1 DEF Job!TypeOK, Job!Runs
<1>3. \A r : Carried(r) => Carried(r)'
  BY <1>1 DEF Carried
<1>4. AtWork' /\ TaskInv'
  BY <1>1, <1>3 DEF AtWork, TaskInv, Job!Runs
<1>5. \A r \in Job!Runs : Job!UnderWay(r)' => Job!UnderWay(r)
  BY <1>1 DEF Job!UnderWay, Job!NoRun, Job!Runs
<1>6. Job!OneRunPerRequest' /\ CleanInv'
  BY <1>5, RequestsKept
<1>7. ASSUME NEW s, NEW r, NEW i, Followed(s, r, i) PROVE Followed(s, r, i)'
  BY <1>3, <1>7 DEF Followed, Ended
<1>8. UpdatesFollowed'
  BY <1>7 DEF UpdatesFollowed
<1>9. RowInv'
  BY <1>7, RowsFollowed
<1> QED BY <1>2, <1>4, <1>6, <1>8, <1>9

LEMMA CrashWorkerKeeps ==
  ASSUME Job!ConstantsAssumption, JobIInv, NEW w \in Workers, Job!CrashWorker(w)
  PROVE  JobIInv'
<1> USE DEF JobIInv, Job!CrashWorker, Job!history, Job!service
<1>1. /\ step' \in [Workers -> {"read", "run", "finish", "acknowledge"}]
      /\ held' = held
      /\ step'[w] = "read"
      /\ \A v \in Workers : v # w => step'[v] = step[v]
      /\ jobFaults' \in 0 .. MaxFaults
  BY DEF Job!TypeOK, Job!Kept, Job!ConstantsAssumption
<1>2. Job!TypeOK'
  BY <1>1 DEF Job!TypeOK, Job!Runs
<1>3. \A r : Carried(r) => Carried(r)'
  BY <1>1 DEF Carried
<1>4. AtWork' /\ TaskInv'
  BY <1>1, <1>3 DEF AtWork, TaskInv, Job!Runs
<1>5. \A r \in Job!Runs : Job!UnderWay(r)' => Job!UnderWay(r)
  BY <1>1 DEF Job!UnderWay
<1>6. Job!OneRunPerRequest' /\ CleanInv'
  BY <1>5, RequestsKept
<1>7. ASSUME NEW s, NEW r, NEW i, Followed(s, r, i) PROVE Followed(s, r, i)'
  BY <1>3, <1>7 DEF Followed, Ended
<1>8. UpdatesFollowed'
  BY <1>7 DEF UpdatesFollowed
<1>9. RowInv'
  BY <1>7, RowsFollowed
<1> QED BY <1>2, <1>4, <1>6, <1>8, <1>9

LEMMA ReportKeeps ==
  ASSUME Job!ConstantsAssumption, JobIInv, Job!Report
  PROVE  JobIInv'
<1> USE DEF JobIInv, Job!Report, Job!history, Job!service
<1>1. PICK u : u = updates[1]
  OBVIOUS
<1>2. PICK h : h = jobOf[u.run]
  OBVIOUS
<1>3. /\ u \in [status : {"enqueued", "running", "finished"}, run : Job!Runs]
      /\ 1 \in DOMAIN updates /\ u = Head(updates) /\ h \in Jobs
  <2>1. updates \in Seq([status : {"enqueued", "running", "finished"}, run : Job!Runs])
    BY DEF Job!TypeOK
  <2>2. Len(updates) \in Nat \ {0} /\ DOMAIN updates = 1 .. Len(updates) /\ Head(updates) = updates[1]
    BY <2>1, LenProperties, EmptySeq
  <2>3. u \in [status : {"enqueued", "running", "finished"}, run : Job!Runs]
    BY <2>2, <1>1, UpdateTypes
  <2>4. jobOf[u.run] \in Jobs
    BY <2>3, ElementOfSeq DEF Job!TypeOK, Job!Runs
  <2> QED BY <2>2, <2>3, <2>4, <1>1, <1>2
<1>4. progress' = [j \in Jobs |-> IF j = h THEN Job!Row(u.status, u.run) ELSE progress[j]]
  BY <1>2, <1>3 DEF Job!RowsOf
<1>5. Job!TypeOK'
  <2>1. u.run \in 0 .. Len(jobOf)
    BY <1>3 DEF Job!Runs
  <2>2. Job!Row(u.status, u.run) \in
          [state : {"created", "queued", "taken", "enqueued", "running", "finished"}, run : 0 .. Len(jobOf)]
    BY <2>1, <1>3 DEF Job!Row
  <2>3. progress' \in [Jobs ->
          [state : {"created", "queued", "taken", "enqueued", "running", "finished"}, run : 0 .. Len(jobOf)]]
    BY <1>4, <2>2 DEF Job!TypeOK
  <2> QED BY <2>3 DEF Job!TypeOK, Job!Runs
<1>6. AtWork' /\ TaskInv' /\ UpdatesFollowed'
  BY DEF AtWork, TaskInv, UpdatesFollowed, Followed, Ended, Carried, Job!Runs
<1>7. Job!OneRunPerRequest' /\ CleanInv'
  <2>1. \A r \in Job!Runs : Job!UnderWay(r)' => Job!UnderWay(r)
    BY DEF Job!UnderWay
  <2>2. progress'[h].state # "queued" /\ u.run \in Job!RunsOf(h) /\ Job!UnderWay(u.run)
    BY <1>1, <1>2, <1>3, <1>4 DEF Job!Row, Job!RunsOf, Job!UnderWay
  <2>3. \A j \in Jobs : j # h => progress'[j] = progress[j]
    BY <1>4
  <2> QED BY <2>1, <2>2, <2>3, RequestsKept
<1>8. RowInv'
  <2> SUFFICES ASSUME NEW j \in Jobs
               PROVE  /\ progress'[j].state \in {"taken", "enqueued", "running", "finished"} =>
                           progress'[j].run \in Job!RunsOf(j)
                      /\ Followed(progress'[j].state, progress'[j].run, 1)
    BY DEF RowInv, Followed, Ended, Carried, Job!RunsOf, Job!Runs, Written
  <2>1. CASE j = h
    <3>1. progress'[j] = Job!Row(u.status, u.run)
      BY <2>1, <1>4
    <3>2. Followed(u.status, u.run, 1)
      BY <1>1, <1>3 DEF UpdatesFollowed
    <3> QED BY <2>1, <3>1, <3>2, <1>2, <1>3 DEF Job!Row, Job!RunsOf
  <2>2. CASE j # h
    <3>1. progress'[j] = progress[j]
      BY <2>2, <1>4
    <3>2. /\ progress[j].state \in {"taken", "enqueued", "running", "finished"} =>
               progress[j].run \in Job!RunsOf(j)
          /\ Followed(progress[j].state, progress[j].run, 0)
      BY DEF RowInv, Written
    <3>3. ASSUME progress[j].run \in Job!RunsOf(j), Ended(progress[j].run, 0)
          PROVE  Ended(progress[j].run, 1)
      <4>1. PICK k \in DOMAIN updates : k > 0 /\ updates[k] = Job!Update("finished", progress[j].run)
        BY <3>3 DEF Ended
      <4>2. k # 1
        BY <4>1, <3>3, <2>2, <1>1, <1>2 DEF Job!Update, Job!RunsOf
      <4>3. k > 1
        BY <4>1, <4>2, UpdateTypes
      <4> QED BY <4>1, <4>3 DEF Ended
    <3> QED BY <3>1, <3>2, <3>3 DEF Followed
  <2> QED BY <2>1, <2>2
<1> QED BY <1>5, <1>6, <1>7, <1>8

LEMMA AcknowledgeUpdateKeeps ==
  ASSUME Job!ConstantsAssumption, JobIInv, Job!AcknowledgeUpdate
  PROVE  JobIInv'
<1> USE DEF JobIInv, Job!AcknowledgeUpdate, Job!history
<1>1. /\ updates' \in Seq([status : {"enqueued", "running", "finished"}, run : Job!Runs])
      /\ Len(updates) \in Nat \ {0}
      /\ DOMAIN updates = 1 .. Len(updates)
      /\ DOMAIN updates' = 1 .. Len(updates) - 1
      /\ \A i \in 1 .. Len(updates) - 1 : updates'[i] = updates[i + 1]
  <2>1. /\ updates \in Seq([status : {"enqueued", "running", "finished"}, run : Job!Runs])
        /\ updates # <<>>
    BY DEF Job!TypeOK, AtWork
  <2> QED BY <2>1, Tailed
<1>2. Job!TypeOK'
  BY <1>1 DEF Job!TypeOK, Job!Runs
<1>3. AtWork' /\ TaskInv'
  BY DEF AtWork, TaskInv, Carried, Job!Runs
<1>4. \A r \in Job!Runs : Job!UnderWay(r)' => Job!UnderWay(r)
  BY <1>1 DEF Job!UnderWay
<1>5. Job!OneRunPerRequest' /\ CleanInv'
  BY <1>4, RequestsKept
<1>6. ASSUME NEW s, NEW r, NEW i \in Nat, Followed(s, r, i + 1) PROVE Followed(s, r, i)'
  <2>1. ASSUME Ended(r, i + 1) PROVE Ended(r, i)'
    <3>1. PICK k \in DOMAIN updates : k > i + 1 /\ updates[k] = Job!Update("finished", r)
      BY <2>1 DEF Ended
    <3>2. k - 1 \in DOMAIN updates' /\ k - 1 > i /\ updates'[k - 1] = updates[k]
      BY <3>1, <1>1
    <3> QED BY <3>1, <3>2 DEF Ended, Job!Update
  <2> QED BY <2>1, <1>6 DEF Followed, Carried
<1>7. UpdatesFollowed'
  <2>1. ASSUME NEW i \in DOMAIN updates'
        PROVE  \E s, r : s = updates'[i].status /\ r = updates'[i].run /\ Followed(s, r, i)'
    <3>1. PICK s, r : s = updates'[i].status /\ r = updates'[i].run
      OBVIOUS
    <3>2. i \in Nat /\ i + 1 \in DOMAIN updates /\ updates'[i] = updates[i + 1]
      BY <1>1
    <3>3. Followed(s, r, i + 1)
      BY <3>1, <3>2 DEF UpdatesFollowed
    <3> QED BY <3>1, <3>2, <3>3, <1>6
  <2> QED BY <2>1 DEF UpdatesFollowed
<1>8. RowInv'
  <2> SUFFICES ASSUME NEW j \in Jobs PROVE Followed(progress[j].state, progress[j].run, 0)'
    BY DEF RowInv, Job!RunsOf, Job!Runs, Written
  <2>1. PICK s, r : s = progress[j].state /\ r = progress[j].run
    OBVIOUS
  <2>2. Followed(s, r, 0 + 1)
    BY <2>1 DEF RowInv, Written
  <2> QED BY <2>1, <2>2, <1>6
<1> QED BY <1>2, <1>3, <1>5, <1>7, <1>8

LEMMA CrashUpdaterKeeps ==
  ASSUME Job!ConstantsAssumption, JobIInv, Job!CrashUpdater
  PROVE  JobIInv'
<1> USE DEF JobIInv, Job!CrashUpdater, Job!history, Job!service
<1>1. Job!TypeOK'
  <2>1. jobFaults' \in 0 .. MaxFaults
    BY DEF Job!TypeOK, Job!ConstantsAssumption
  <2> QED BY <2>1 DEF Job!TypeOK, Job!Runs
<1>2. AtWork' /\ TaskInv' /\ UpdatesFollowed'
  BY DEF AtWork, TaskInv, UpdatesFollowed, Followed, Ended, Carried, Job!Runs
<1>3. \A r \in Job!Runs : Job!UnderWay(r)' => Job!UnderWay(r)
  BY DEF Job!UnderWay
<1>4. Job!OneRunPerRequest' /\ CleanInv'
  BY <1>3, RequestsKept
<1>5. RowInv'
  <2> SUFFICES ASSUME NEW j \in Jobs PROVE Followed(progress[j].state, progress[j].run, 0)
    BY DEF RowInv, Job!RunsOf, Job!Runs, Written, Followed, Ended, Carried
  <2>1. Followed(progress[j].state, progress[j].run, 1)
    BY DEF RowInv, Written
  <2>2. \A r : Ended(r, 1) => Ended(r, 0)
    BY UpdateTypes DEF Ended
  <2> QED BY <2>1, <2>2 DEF Followed
<1> QED BY <1>1, <1>2, <1>4, <1>5

LEMMA JobStutterKeeps ==
  ASSUME JobIInv, UNCHANGED Job!vars
  PROVE  JobIInv'
<1> USE DEF JobIInv, Job!vars, Job!history, Job!service
<1>1. Job!TypeOK' /\ Job!OneRunPerRequest'
  BY DEF Job!TypeOK, Job!Runs, Job!OneRunPerRequest
<1>2. AtWork' /\ TaskInv' /\ UpdatesFollowed' /\ RowInv'
  BY DEF AtWork, TaskInv, UpdatesFollowed, RowInv, Followed, Ended, Carried, Job!Runs, Job!RunsOf, Written
<1>3. CleanInv'
  BY DEF CleanInv, Job!UnderWay, Job!RunsOf, Job!Runs
<1> QED BY <1>1, <1>2, <1>3

LEMMA JobStep ==
  ASSUME Job!ConstantsAssumption, JobIInv, [Job!Next]_(Job!vars)
  PROVE  JobIInv'
<1>1. ASSUME NEW chosen \in SUBSET Jobs, Job!Schedule(chosen) PROVE JobIInv'
  BY <1>1, ScheduleKeeps
<1>2. ASSUME NEW j \in Jobs, Job!Pop(j) \/ Job!PopUnanswered(j) PROVE JobIInv'
  BY <1>2, PopKeeps, PopUnansweredKeeps
<1>3. CASE Job!WriteTask \/ Job!WriteUpdate \/ Job!CrashIngress
  BY <1>3, WriteTaskKeeps, WriteUpdateKeeps, CrashIngressKeeps
<1>4. ASSUME NEW w \in Workers, Job!Read(w) \/ Job!SendRunning(w) PROVE JobIInv'
  BY <1>4, ReadKeeps, SendRunningKeeps
<1>5. ASSUME NEW w \in Workers, Job!SendFinished(w) \/ Job!AcknowledgeTask(w) \/ Job!CrashWorker(w) PROVE JobIInv'
  BY <1>5, SendFinishedKeeps, AcknowledgeTaskKeeps, CrashWorkerKeeps
<1>6. CASE Job!Report \/ Job!AcknowledgeUpdate \/ Job!CrashUpdater
  BY <1>6, ReportKeeps, AcknowledgeUpdateKeeps, CrashUpdaterKeeps
<1>7. CASE Job!Done \/ UNCHANGED Job!vars
  BY <1>7, JobStutterKeeps DEF Job!Done
<1> QED BY <1>1, <1>2, <1>3, <1>4, <1>5, <1>6, <1>7 DEF Job!Next, Job!Requester, Job!Worker, Job!Updater

LEMMA JobIInvSafe ==
  ASSUME JobIInv
  PROVE  Job!Safety
<1> USE DEF JobIInv
<1>1. Job!RequestIsKept
  BY DEF CleanInv, Job!RequestIsKept
<1>2. Job!ResultIsShown
  <2> SUFFICES ASSUME NEW j \in Jobs, Job!AtRest(j), progress[j].state # "created",
                      Job!RunsOf(j) \intersect late = {},
                      progress[j].state # "finished"
               PROVE  progress[j].state = "taken" /\ progress[j].run \notin ended
    BY DEF Job!ResultIsShown
  <2>1. progress[j].state \in {"taken", "enqueued", "running"}
    BY DEF Job!AtRest, Job!Queued, Job!TypeOK
  <2>2. progress[j].run \in Job!RunsOf(j) /\ Followed(progress[j].state, progress[j].run, Written)
    BY <2>1 DEF RowInv
  <2>3. ~Job!UnderWay(progress[j].run) /\ progress[j].run \notin late
    BY <2>2 DEF Job!AtRest
  <2>4. ~Ended(progress[j].run, Written)
    BY <2>3 DEF Job!UnderWay, Ended, Job!Update
  <2>5. ~Carried(progress[j].run) /\ progress[j].run \notin Job!Range(tasks)
    BY <2>3 DEF Job!UnderWay, Carried
  <2> QED BY <2>1, <2>2, <2>3, <2>4, <2>5 DEF Followed
<1> QED BY <1>1, <1>2 DEF Job!Safety

---------------------------------------------------------------------------
(* The output of a task *)

OutputUpdate == [kind : {"output", "too much"}, first : Nat, last : Nat, shown : Nat]

\* What is in the buffer follows what was sent, as long as output is sent at all.
BufferInv ==
  /\ Output!Stopped => buffer = Output!Empty
  /\ ~Output!Stopped /\ at # "done" =>
       IF buffer = Output!Empty THEN total = read
       ELSE buffer.first = total + 1 /\ buffer.last = read /\ total < read
  /\ at = "done" => buffer = Output!Empty

\* The updates are about the bytes up to the total, in their order, to the first
\* update that would be over the limit.
SentInv ==
  /\ Output!Stopped <=> Output!Warned # {}
  /\ \A i \in Output!Shown : 1 <= sent[i].first /\ sent[i].first <= sent[i].last
  /\ \A i \in Output!Shown : at # "done" => sent[i].last <= total /\ sent[i].last <= TotalLimit
  /\ \A b \in 1 .. total :
       Output!Warned = {} => \E i \in Output!Shown : sent[i].first <= b /\ b <= sent[i].last

\* The task ends when everything the process wrote has been read.
ExitInv ==
  /\ exitCode => process # "running"
  /\ result = "none" <=> at # "done"
  /\ at = "finish" /\ exitCode => read = written
  /\ at = "done" /\ result = "exited" => read = written
  /\ at = "kill" => ~exitCode
  /\ at \in {"finish", "done"} => process # "running"

OutputIInv ==
  /\ Output!TypeOK /\ BufferInv /\ SentInv /\ ExitInv
  /\ Output!InOrder /\ Output!NothingIsMissed /\ Output!Bounded /\ Output!WarningIsLast

LEMMA MinOfTwo ==
  ASSUME NEW m \in Int, NEW n \in Int
  PROVE  Output!Min({m, n}) = IF m <= n THEN m ELSE n
<1>1. \E x \in {m, n} : \A y \in {m, n} : x <= y
  OBVIOUS
<1>2. Output!Min({m, n}) \in {m, n} /\ \A y \in {m, n} : Output!Min({m, n}) <= y
  BY <1>1 DEF Output!Min
<1> QED BY <1>2

\* An update that shows a part of the bytes from first to last.
LEMMA TruncatedOutput ==
  ASSUME NEW first \in Nat, NEW last \in Nat, first <= last, Output!ConstantsAssumption
  PROVE  /\ Output!Truncated(Output!Output(first, last)) \in OutputUpdate
         /\ Output!Truncated(Output!Output(first, last)).kind = "output"
         /\ Output!Truncated(Output!Output(first, last)).first = first
         /\ Output!Truncated(Output!Output(first, last)).last = last
         /\ Output!Truncated(Output!Output(first, last)).shown \in 0 .. ChunkLimit
         /\ Output!Truncated(Output!Output(first, last)).shown <= last - first + 1
<1> DEFINE size == last - first + 1
<1>1. Output!Min({size, ChunkLimit}) = IF size <= ChunkLimit THEN size ELSE ChunkLimit
  BY MinOfTwo DEF Output!ConstantsAssumption
<1>2. Output!Truncated(Output!Output(first, last))
        = [kind |-> "output", first |-> first, last |-> last, shown |-> Output!Min({size, ChunkLimit})]
  BY DEF Output!Truncated, Output!Output
<1> QED BY <1>1, <1>2 DEF OutputUpdate, Output!ConstantsAssumption

\* One more update leaves the others as they are.
LEMMA OneMoreSent ==
  ASSUME sent \in Seq(OutputUpdate), NEW u \in OutputUpdate, sent' = Append(sent, u)
  PROVE  /\ sent' \in Seq(OutputUpdate)
         /\ Len(sent') = Len(sent) + 1 /\ Len(sent) \in Nat
         /\ \A i \in 1 .. Len(sent) : sent'[i] = sent[i]
         /\ sent'[Len(sent) + 1] = u
         /\ Output!Shown \subseteq 1 .. Len(sent) /\ Output!Warned \subseteq 1 .. Len(sent)
         /\ Output!Shown' = Output!Shown \union (IF u.kind = "output" THEN {Len(sent) + 1} ELSE {})
         /\ Output!Warned' = Output!Warned \union (IF u.kind = "too much" THEN {Len(sent) + 1} ELSE {})
<1>1. /\ sent' \in Seq(OutputUpdate)
      /\ Len(sent') = Len(sent) + 1 /\ Len(sent) \in Nat
      /\ \A i \in 1 .. Len(sent) : sent'[i] = sent[i]
      /\ sent'[Len(sent) + 1] = u
      /\ DOMAIN sent = 1 .. Len(sent) /\ DOMAIN sent' = 1 .. Len(sent')
  BY AppendProperties, LenProperties
<1>2. DOMAIN sent' = DOMAIN sent \union {Len(sent) + 1}
  BY <1>1
<1>3. Len(sent) + 1 \notin DOMAIN sent
  BY <1>1
<1> QED BY <1>1, <1>2, <1>3 DEF Output!Shown, Output!Warned

LEMMA OutputNumbers ==
  ASSUME Output!ConstantsAssumption, OutputIInv
  PROVE  /\ read \in Nat /\ written \in Nat /\ read <= written /\ written <= MaxOutput
         /\ total \in Nat /\ total <= read
<1>1. written \in 0 .. MaxOutput /\ read \in 0 .. written /\ total \in 0 .. read
  BY DEF OutputIInv, Output!TypeOK
<1> QED BY <1>1 DEF Output!ConstantsAssumption

\* An update about the bytes after those that were sent: what it means for the
\* updates that are shown.
LEMMA ShownGrows ==
  ASSUME Output!ConstantsAssumption, SentInv, Output!InOrder, Output!Bounded, ~Output!Stopped, at # "done", total \in Nat,
         NEW u \in OutputUpdate, u.first = total + 1, u.first <= u.last,
         u.shown \in 0 .. ChunkLimit, u.shown <= u.last - u.first + 1,
         NEW k \in Nat, Output!Shown' = Output!Shown \union {k}, sent'[k] = u, Output!Warned = {},
         \A i \in Output!Shown : i \in Nat /\ i < k /\ sent'[i] = sent[i] /\ sent[i] \in OutputUpdate
  PROVE  /\ Output!InOrder' /\ Output!Bounded'
         /\ \A i \in Output!Shown' : /\ sent'[i].last \in Nat
                                     /\ 1 <= sent'[i].first /\ sent'[i].first <= sent'[i].last
                                     /\ sent'[i].last <= u.last
         /\ \A c \in 1 .. u.last : \E i \in Output!Shown' :
               sent'[i].first <= c /\ c <= sent'[i].last
<1>1. /\ u.first \in Nat /\ u.last \in Nat /\ u.shown \in Nat /\ total < u.last
      /\ ChunkLimit \in Nat /\ TotalLimit \in Nat
  <2>1. u.first \in Nat /\ u.last \in Nat /\ u.shown \in Nat
    BY DEF OutputUpdate
  <2> QED BY <2>1 DEF Output!ConstantsAssumption
<1>2. \A i \in Output!Shown : /\ sent[i].first \in Nat /\ sent[i].last \in Nat
                              /\ 1 <= sent[i].first /\ sent[i].first <= sent[i].last
                              /\ sent[i].last <= total /\ sent[i].last <= TotalLimit
  BY DEF SentInv, OutputUpdate
<1>3. Output!InOrder'
  <2> SUFFICES ASSUME NEW i \in Output!Shown', NEW j \in Output!Shown', i < j
               PROVE  sent'[i].last < sent'[j].first
    BY DEF Output!InOrder
  <2>1. i \in Output!Shown
    OBVIOUS
  <2>2. CASE j \in Output!Shown
    BY <2>1, <2>2 DEF Output!InOrder
  <2>3. CASE j = k
    BY <1>1, <1>2, <2>1, <2>3
  <2> QED BY <2>2, <2>3
<1>4. Output!Bounded'
  <2> SUFFICES ASSUME NEW i \in Output!Shown'
               PROVE  /\ sent'[i].shown \in 0 .. ChunkLimit
                      /\ sent'[i].shown <= sent'[i].last - sent'[i].first + 1
                      /\ \A j \in Output!Shown' : i < j => sent'[i].last <= TotalLimit
    BY DEF Output!Bounded
  <2>1. CASE i \in Output!Shown
    BY <1>2, <2>1 DEF Output!Bounded
  <2>2. CASE i = k
    <3>1. \A j \in Output!Shown' : ~(k < j)
      OBVIOUS
    <3> QED BY <2>2, <3>1
  <2> QED BY <2>1, <2>2
<1>5. \A i \in Output!Shown' : /\ sent'[i].last \in Nat
                               /\ 1 <= sent'[i].first /\ sent'[i].first <= sent'[i].last
                               /\ sent'[i].last <= u.last
  <2> TAKE i \in Output!Shown'
  <2>1. CASE i \in Output!Shown
    BY <1>1, <1>2, <2>1
  <2>2. CASE i = k
    BY <1>1, <2>2
  <2> QED BY <2>1, <2>2
<1>6. ASSUME NEW c \in 1 .. u.last
      PROVE  \E i \in Output!Shown' : sent'[i].first <= c /\ c <= sent'[i].last
  <2>1. CASE c <= total
    <3>1. c \in 1 .. total
      BY <1>1, <2>1
    <3>2. PICK i \in Output!Shown : sent[i].first <= c /\ c <= sent[i].last
      BY <3>1 DEF SentInv
    <3> QED BY <3>2
  <2>2. CASE c > total
    BY <1>1, <2>2
  <2> QED BY <1>1, <2>1, <2>2
<1> QED BY <1>3, <1>4, <1>5, <1>6

LEMMA OutputSent ==
  ASSUME Output!ConstantsAssumption, OutputIInv, ~Output!Stopped, at # "done",
         NEW u \in OutputUpdate, u.kind = "output", u.first = total + 1, u.first <= u.last,
         u.shown \in 0 .. ChunkLimit, u.shown <= u.last - u.first + 1,
         sent' = Append(sent, u)
  PROVE  /\ sent' \in Seq(OutputUpdate)
         /\ Output!Warned = {} /\ Output!Warned' = {}
         /\ Output!InOrder' /\ Output!Bounded' /\ Output!WarningIsLast'
         /\ \A i \in Output!Shown' : /\ sent'[i].last \in Nat
                                     /\ 1 <= sent'[i].first /\ sent'[i].first <= sent'[i].last
                                     /\ sent'[i].last <= u.last
         /\ \A c \in 1 .. u.last : \E i \in Output!Shown' :
               sent'[i].first <= c /\ c <= sent'[i].last
<1>1. Output!Warned = {} /\ total \in Nat
  BY OutputNumbers DEF OutputIInv, SentInv
<1>2. /\ sent' \in Seq(OutputUpdate) /\ sent'[Len(sent) + 1] = u
      /\ Output!Shown' = Output!Shown \union {Len(sent) + 1}
      /\ Output!Warned' = Output!Warned /\ Len(sent) \in Nat /\ Output!Shown \subseteq 1 .. Len(sent)
      /\ \A i \in 1 .. Len(sent) : sent'[i] = sent[i]
  BY OneMoreSent DEF OutputIInv, Output!TypeOK, OutputUpdate
<1>3. \A i \in 1 .. Len(sent) : sent[i] \in OutputUpdate
  BY ElementOfSeq DEF OutputIInv, Output!TypeOK, OutputUpdate
<1>4. \A i \in Output!Shown : i \in Nat /\ i < Len(sent) + 1 /\ sent'[i] = sent[i]
                              /\ sent[i] \in OutputUpdate
  BY <1>2, <1>3
<1>5. Output!WarningIsLast'
  BY <1>1, <1>2 DEF Output!WarningIsLast
<1>6. SentInv /\ Output!InOrder /\ Output!Bounded /\ Len(sent) + 1 \in Nat
  BY <1>2 DEF OutputIInv
<1> QED BY <1>1, <1>2, <1>4, <1>5, <1>6, ShownGrows

LEMMA OutputInit == Output!ConstantsAssumption /\ Output!Init => OutputIInv
<1> SUFFICES ASSUME Output!ConstantsAssumption, Output!Init PROVE OutputIInv
  OBVIOUS
<1>1. Output!Shown = {} /\ Output!Warned = {} /\ sent \in Seq(OutputUpdate)
  BY DEF Output!Init, Output!Shown, Output!Warned
<1>2. Output!TypeOK
  <2>1. buffer \in [first : 1 .. read + 1, last : 0 .. read] /\ total \in 0 .. read
    BY DEF Output!Init, Output!Empty
  <2>2. written \in 0 .. MaxOutput /\ read \in 0 .. written
    BY DEF Output!Init, Output!ConstantsAssumption
  <2> QED BY <1>1, <2>1, <2>2 DEF Output!Init, Output!TypeOK, OutputUpdate
<1>2a. ExitInv
  BY DEF Output!Init, ExitInv
<1>3. ~Output!Stopped /\ BufferInv /\ SentInv
  BY <1>1 DEF Output!Init, BufferInv, SentInv, Output!Stopped, Output!Empty, Output!ConstantsAssumption
<1>4. Output!InOrder /\ Output!NothingIsMissed /\ Output!Bounded /\ Output!WarningIsLast
  BY <1>1 DEF Output!Init, Output!InOrder, Output!NothingIsMissed, Output!Bounded, Output!WarningIsLast
<1> QED BY <1>2, <1>2a, <1>3, <1>4 DEF OutputIInv

\* A step that sends nothing and leaves the reader where it is.
LEMMA NothingSent ==
  ASSUME Output!ConstantsAssumption, OutputIInv, UNCHANGED <<read, buffer, total, sent, result>>,
         Output!TypeOK', ExitInv', at # "done" <=> at' # "done", written' = written \/ at # "done"
  PROVE  OutputIInv'
<1>1. Output!Shown' = Output!Shown /\ Output!Warned' = Output!Warned /\ Output!Stopped' = Output!Stopped
  BY DEF Output!Shown, Output!Warned, Output!Stopped
<1>2. BufferInv' /\ SentInv'
  BY <1>1 DEF OutputIInv, BufferInv, SentInv
<1>3. Output!InOrder' /\ Output!Bounded' /\ Output!WarningIsLast'
  BY <1>1 DEF OutputIInv, Output!InOrder, Output!Bounded, Output!WarningIsLast
<1>4. Output!NothingIsMissed'
  BY <1>1 DEF OutputIInv, Output!NothingIsMissed
<1> QED BY <1>2, <1>3, <1>4 DEF OutputIInv

LEMMA OutputStep == Output!ConstantsAssumption /\ OutputIInv /\ [Output!Next]_(Output!vars) => OutputIInv'
<1> SUFFICES ASSUME Output!ConstantsAssumption, OutputIInv, [Output!Next]_(Output!vars) PROVE OutputIInv'
  OBVIOUS
<1>1. ASSUME NEW n \in 1 .. MaxOutput, Output!Write(n) PROVE OutputIInv'
  <2>1. written' \in 0 .. MaxOutput /\ read \in 0 .. written'
    BY <1>1, OutputNumbers DEF Output!Write, Output!ConstantsAssumption
  <2>1a. at # "done"
    BY <1>1 DEF Output!Write, OutputIInv, ExitInv
  <2>2. Output!TypeOK' /\ ExitInv'
    BY <1>1, <2>1, <2>1a DEF Output!Write, OutputIInv, Output!TypeOK, ExitInv
  <2> QED BY <1>1, <2>1a, <2>2, NothingSent DEF Output!Write
<1>2. CASE Output!Exit
  BY <1>2, NothingSent DEF Output!Exit, OutputIInv, Output!TypeOK, ExitInv
<1>3. CASE Output!TimePasses
  BY <1>3, NothingSent DEF Output!TimePasses, OutputIInv, Output!TypeOK, ExitInv
<1>4. CASE Output!Wait
  BY <1>4, NothingSent DEF Output!Wait, OutputIInv, Output!TypeOK, ExitInv
<1>5. CASE Output!Kill
  BY <1>5, NothingSent DEF Output!Kill, OutputIInv, Output!TypeOK, ExitInv
<1>6. CASE UNCHANGED Output!vars
  BY <1>6, NothingSent DEF Output!vars, OutputIInv, Output!TypeOK, ExitInv
<1>7. CASE Output!ReadOutput
  <2>1. /\ at = "read" /\ at' # "done" /\ result = "none" /\ result' = "none"
        /\ read' = written /\ written' = written
    BY <1>7 DEF Output!ReadOutput, OutputIInv, ExitInv
  <2>2. ExitInv'
    BY <1>7, <2>1 DEF Output!ReadOutput, OutputIInv, Output!TypeOK, ExitInv
  <2>3. Output!NothingIsMissed'
    BY <2>1 DEF Output!NothingIsMissed
  <2>4. read \in Nat /\ written \in Nat /\ read <= written /\ total \in Nat /\ total <= read
    BY OutputNumbers
  <2>5. CASE Output!Stopped \/ written = read
    <3>1. UNCHANGED <<buffer, total, sent>>
      BY <1>7, <2>5 DEF Output!ReadOutput, Output!SendOutput
    <3>2. Output!Shown' = Output!Shown /\ Output!Warned' = Output!Warned /\ Output!Stopped' = Output!Stopped
      BY <3>1 DEF Output!Shown, Output!Warned, Output!Stopped
    <3>3. Output!TypeOK'
      <4>1. buffer' \in [first : 1 .. read' + 1, last : 0 .. read'] /\ total' \in 0 .. read'
        <5>1. buffer \in [first : 1 .. read + 1, last : 0 .. read]
          BY DEF OutputIInv, Output!TypeOK
        <5>2. 1 .. read + 1 \subseteq 1 .. written + 1 /\ 0 .. read \subseteq 0 .. written
          BY <2>4
        <5> QED BY <2>1, <2>4, <3>1, <5>1, <5>2
      <4>2. written' \in 0 .. MaxOutput /\ read' \in 0 .. written'
        BY <2>1, OutputNumbers
      <4> QED BY <1>7, <3>1, <4>1, <4>2 DEF Output!ReadOutput, OutputIInv, Output!TypeOK
    <3>4. BufferInv' /\ SentInv'
      BY <2>1, <2>5, <3>1, <3>2 DEF OutputIInv, BufferInv, SentInv
    <3>5. Output!InOrder' /\ Output!Bounded' /\ Output!WarningIsLast'
      BY <3>1, <3>2 DEF OutputIInv, Output!InOrder, Output!Bounded, Output!WarningIsLast
    <3> QED BY <2>2, <2>3, <3>3, <3>4, <3>5 DEF OutputIInv
  <2>6. CASE ~Output!Stopped /\ written # read
    <3> DEFINE b == Output!Extended(written)
    <3>1. b.first = total + 1 /\ b.last = written /\ b.first \in Nat /\ b.first <= b.last
          /\ b \in [first : 1 .. written + 1, last : 0 .. written] /\ b # Output!Empty
      BY <2>1, <2>4, <2>6 DEF Output!Extended, OutputIInv, BufferInv, Output!Empty
    <3>2. Output!Warned = {}
      BY <2>6 DEF OutputIInv, SentInv
    <3>3. total \in Nat /\ total <= TotalLimit /\ b.last - b.first + 1 = written - total
      BY <2>4, <2>6, <3>1 DEF Output!Stopped, Output!ConstantsAssumption
    <3>4. CASE buffer' = b /\ UNCHANGED <<total, sent>>
      <4>1. Output!Shown' = Output!Shown /\ Output!Warned' = Output!Warned /\ Output!Stopped' = Output!Stopped
        BY <3>4 DEF Output!Shown, Output!Warned, Output!Stopped
      <4>2. Output!TypeOK'
        <5>1. buffer' \in [first : 1 .. read' + 1, last : 0 .. read'] /\ total' \in 0 .. read'
          BY <2>1, <2>4, <3>1, <3>4
        <5>2. written' \in 0 .. MaxOutput /\ read' \in 0 .. written'
          BY <2>1, OutputNumbers
        <5> QED BY <1>7, <3>4, <5>1, <5>2 DEF Output!ReadOutput, OutputIInv, Output!TypeOK
      <4>3. BufferInv'
        BY <2>1, <2>4, <2>6, <3>1, <3>4, <4>1 DEF OutputIInv, BufferInv
      <4>4. SentInv'
        BY <2>1, <3>4, <4>1 DEF OutputIInv, SentInv
      <4>5. Output!InOrder' /\ Output!Bounded' /\ Output!WarningIsLast'
        BY <3>4, <4>1 DEF OutputIInv, Output!InOrder, Output!Bounded, Output!WarningIsLast
      <4> QED BY <2>2, <2>3, <4>2, <4>3, <4>4, <4>5 DEF OutputIInv
    <3>5. CASE /\ sent' = Append(sent, IF Output!Exceeds(b.last - b.first + 1) THEN Output!Warning
                                       ELSE Output!Truncated(Output!Output(b.first, b.last)))
               /\ buffer' = Output!Empty
               /\ total' = total + (b.last - b.first + 1)
      <4>1. total' = written
        BY <2>4, <3>3, <3>5
      <4>4. ASSUME sent' \in Seq(OutputUpdate) PROVE Output!TypeOK'
        <5>1. buffer' \in [first : 1 .. read' + 1, last : 0 .. read'] /\ total' \in 0 .. read'
          BY <2>1, <2>4, <3>5, <4>1 DEF Output!Empty
        <5>2. written' \in 0 .. MaxOutput /\ read' \in 0 .. written'
          BY <2>1, OutputNumbers
        <5> QED BY <1>7, <4>4, <5>1, <5>2 DEF Output!ReadOutput, OutputIInv, Output!TypeOK, OutputUpdate
      <4>2. CASE Output!Exceeds(written - total)
        <5>1. sent' = Append(sent, Output!Warning)
          BY <3>3, <3>5, <4>2
        <5>2. Output!Warning \in OutputUpdate /\ Output!Warning.kind = "too much"
          BY DEF Output!Warning, OutputUpdate
        <5>3. /\ Output!Shown' = Output!Shown /\ Output!Warned' = {Len(sent) + 1} /\ Output!Shown \subseteq 1 .. Len(sent)
              /\ Len(sent') = Len(sent) + 1 /\ sent' \in Seq(OutputUpdate)
              /\ \A i \in 1 .. Len(sent) : sent'[i] = sent[i]
          BY ZenonT(60), <3>2, <5>1, <5>2, OneMoreSent DEF OutputIInv, Output!TypeOK, OutputUpdate
        <5>4. Output!Stopped'
          BY <2>4, <4>1, <4>2 DEF Output!Stopped, Output!Exceeds, Output!ConstantsAssumption
        <5>5. Output!TypeOK' /\ BufferInv'
          BY <4>4, <5>3, <5>4, <2>1, <3>5 DEF BufferInv, OutputUpdate
        <5>6. SentInv'
          <6>1. \A i \in Output!Shown : i \in 1 .. Len(sent) /\ sent'[i] = sent[i]
                                        /\ sent[i].last \in Nat
            <7>1. \A i \in 1 .. Len(sent) : sent[i] \in OutputUpdate
              BY ElementOfSeq DEF OutputIInv, Output!TypeOK, OutputUpdate
            <7>2. \A i \in 1 .. Len(sent) : sent[i].last \in Nat
              BY <7>1 DEF OutputUpdate
            <7> QED BY <5>3, <7>2
          <6>2. \A i \in Output!Shown' : /\ 1 <= sent'[i].first /\ sent'[i].first <= sent'[i].last
                                         /\ sent'[i].last <= written /\ sent'[i].last <= TotalLimit
            BY <2>1, <2>4, <5>3, <6>1 DEF OutputIInv, SentInv
          <6> QED BY <4>1, <5>3, <5>4, <6>2 DEF SentInv
        <5>7. Output!InOrder' /\ Output!Bounded' /\ Output!WarningIsLast'
          BY <5>3 DEF OutputIInv, Output!InOrder, Output!Bounded, Output!WarningIsLast
        <5> QED BY <2>2, <2>3, <5>5, <5>6, <5>7 DEF OutputIInv
      <4>3. CASE ~Output!Exceeds(written - total)
        <5>0. LET u == Output!Truncated(Output!Output(b.first, b.last)) IN
                /\ u \in OutputUpdate
                /\ u.kind = "output" /\ u.first = total + 1 /\ u.last = written
                /\ u.shown \in 0 .. ChunkLimit /\ u.shown <= u.last - u.first + 1
          <6>1. b.first \in Nat /\ b.last \in Nat /\ b.first <= b.last
            BY <2>4, <3>1
          <6>2. /\ Output!Truncated(Output!Output(b.first, b.last)) \in OutputUpdate
                /\ Output!Truncated(Output!Output(b.first, b.last)).kind = "output"
                /\ Output!Truncated(Output!Output(b.first, b.last)).first = b.first
                /\ Output!Truncated(Output!Output(b.first, b.last)).last = b.last
                /\ Output!Truncated(Output!Output(b.first, b.last)).shown \in 0 .. ChunkLimit
                /\ Output!Truncated(Output!Output(b.first, b.last)).shown <= b.last - b.first + 1
            <7> HIDE DEF b
            <7> QED BY <6>1, TruncatedOutput
          <6> QED BY <3>1, <6>2
        <5>1. PICK u \in OutputUpdate :
                /\ sent' = Append(sent, u)
                /\ u.kind = "output" /\ u.first = total + 1 /\ u.last = written
                /\ u.shown \in 0 .. ChunkLimit /\ u.shown <= u.last - u.first + 1
          BY <3>3, <3>5, <4>3, <5>0
        <5>2. ~Output!Stopped' /\ written <= TotalLimit
          BY <2>4, <4>1, <4>3 DEF Output!Stopped, Output!Exceeds, Output!ConstantsAssumption
        <5>3. /\ sent' \in Seq(OutputUpdate) /\ Output!Warned' = {} /\ Output!InOrder' /\ Output!Bounded' /\ Output!WarningIsLast'
              /\ \A i \in Output!Shown' : /\ sent'[i].last \in Nat
                                          /\ 1 <= sent'[i].first /\ sent'[i].first <= sent'[i].last
                                          /\ sent'[i].last <= written
              /\ \A c \in 1 .. written : \E i \in Output!Shown' :
                    sent'[i].first <= c /\ c <= sent'[i].last
          <6>1. u.first <= u.last
            BY <3>1, <5>1
          <6> QED BY <2>1, <2>6, <5>1, <6>1, OutputSent
        <5>4. Output!TypeOK' /\ BufferInv'
          BY <4>1, <4>4, <5>2, <5>3, <2>1, <3>5 DEF BufferInv
        <5>5. SentInv'
          <6>1. \A i \in Output!Shown' : sent'[i].last <= TotalLimit
            <7> TAKE i \in Output!Shown'
            <7> QED BY <2>4, <5>2, <5>3 DEF Output!ConstantsAssumption
          <6> QED BY <4>1, <5>2, <5>3, <6>1 DEF SentInv
        <5> QED BY <2>2, <2>3, <5>3, <5>4, <5>5 DEF OutputIInv
      <4> QED BY <4>2, <4>3
    <3> QED BY <1>7, <2>6, <3>4, <3>5 DEF Output!ReadOutput, Output!SendOutput, Output!Cleared
  <2> QED BY <2>5, <2>6
<1>8. CASE Output!Finish
  <2>1. /\ at = "finish" /\ at' = "done" /\ process # "running" /\ (exitCode => read = written)
        /\ UNCHANGED <<process, written, read, exitCode, overdue, total>> /\ buffer' = Output!Empty
        /\ result' = IF exitCode THEN "exited" ELSE "timed_out"
    BY <1>8 DEF Output!Finish, Output!SendFinished, OutputIInv, ExitInv
  <2>2. ExitInv'
    BY <2>1 DEF OutputIInv, ExitInv
  <2>3. Output!Stopped' = Output!Stopped /\ BufferInv'
    BY <2>1 DEF Output!Stopped, BufferInv
  <2>4. ASSUME sent' \in Seq(OutputUpdate) PROVE Output!TypeOK'
    <3>1. buffer' \in [first : 1 .. read' + 1, last : 0 .. read']
      BY <2>1, OutputNumbers DEF Output!Empty
    <3> QED BY <2>1, <2>4, <3>1 DEF OutputIInv, Output!TypeOK, OutputUpdate
  <2>5. CASE buffer = Output!Empty
    <3>1. sent' = sent
      BY <1>8, <2>5 DEF Output!Finish, Output!SendFinished, Output!Flushed
    <3>2. Output!Shown' = Output!Shown /\ Output!Warned' = Output!Warned
      BY <3>1 DEF Output!Shown, Output!Warned
    <3>3. Output!TypeOK' /\ SentInv'
      BY <2>1, <2>3, <2>4, <3>1, <3>2 DEF OutputIInv, Output!TypeOK, OutputUpdate, SentInv
    <3>4. Output!InOrder' /\ Output!Bounded' /\ Output!WarningIsLast'
      BY <3>1, <3>2 DEF OutputIInv, Output!InOrder, Output!Bounded, Output!WarningIsLast
    <3>5. Output!NothingIsMissed'
      <4>1. CASE Output!Stopped
        BY <3>2, <4>1 DEF OutputIInv, SentInv, Output!NothingIsMissed
      <4>2. CASE ~Output!Stopped
        <5>1. total = read
          BY <2>1, <2>5, <4>2 DEF OutputIInv, BufferInv
        <5> QED BY <2>1, <3>1, <3>2, <5>1 DEF OutputIInv, SentInv, Output!NothingIsMissed
      <4> QED BY <4>1, <4>2
    <3> QED BY <2>2, <2>3, <3>3, <3>4, <3>5 DEF OutputIInv
  <2>6. CASE buffer # Output!Empty
    <3>1. ~Output!Stopped /\ buffer.first = total + 1 /\ buffer.last = read /\ total < read
      BY <2>1, <2>6 DEF OutputIInv, BufferInv
    <3>2. total \in Nat /\ read \in Nat
      BY OutputNumbers
    <3>7. LET u == Output!Truncated(Output!Output(buffer.first, buffer.last)) IN
            /\ u \in OutputUpdate
            /\ u.kind = "output" /\ u.first = total + 1 /\ u.last = read
            /\ u.shown \in 0 .. ChunkLimit /\ u.shown <= u.last - u.first + 1
      <4>1. buffer.first \in Nat /\ buffer.last \in Nat /\ buffer.first <= buffer.last
        BY <3>1, <3>2
      <4> QED BY <3>1, <4>1, TruncatedOutput
    <3>3. PICK u \in OutputUpdate :
            /\ sent' = Append(sent, u)
            /\ u.kind = "output" /\ u.first = total + 1 /\ u.last = read
            /\ u.shown \in 0 .. ChunkLimit /\ u.shown <= u.last - u.first + 1
      BY <1>8, <2>6, <3>7 DEF Output!Finish, Output!SendFinished, Output!Flushed
    <3>4. /\ sent' \in Seq(OutputUpdate) /\ Output!Warned = {} /\ Output!Warned' = {}
          /\ Output!InOrder' /\ Output!Bounded' /\ Output!WarningIsLast'
          /\ \A i \in Output!Shown' : 1 <= sent'[i].first /\ sent'[i].first <= sent'[i].last
          /\ \A c \in 1 .. read : \E i \in Output!Shown' :
                sent'[i].first <= c /\ c <= sent'[i].last
      <4>1. u.first <= u.last
        BY <3>1, <3>2, <3>3
      <4> QED BY <2>1, <3>1, <3>3, <4>1, OutputSent
    <3>5. SentInv'
      BY <2>1, <2>3, <3>1, <3>2, <3>4 DEF SentInv
    <3>6. Output!NothingIsMissed'
      BY <2>1, <3>4 DEF Output!NothingIsMissed
    <3> QED BY <2>2, <2>3, <2>4, <3>4, <3>5, <3>6 DEF OutputIInv
  <2> QED BY <2>5, <2>6
<1> QED BY <1>1, <1>2, <1>3, <1>4, <1>5, <1>6, <1>7, <1>8 DEF Output!Next, Output!Worker, Output!Done

---------------------------------------------------------------------------
(* The log handler *)

Increasing(s) == \A i, k \in 1 .. Len(s) : i < k => s[i] < s[k]

Waiting == Log!Range(queue) \ {Log!Stop}

Done == Log!Range(indexed) \union dropped

Places(e) == {h \in DOMAIN indexed : indexed[h] = e}

LogTypeInv ==
  /\ Log!TypeOK
  /\ queue \in Seq(Nat) /\ logged \in Seq(Nat) /\ blob \in Seq(Nat) /\ indexed \in Seq(Nat)
  /\ Log!Range(logged) \subseteq 1 .. emitted /\ Log!Range(blob) \subseteq 1 .. emitted

\* The events that were accepted are in the queue, the buffer, the batch and the index, in
\* the order of the calls; the stop marker is the last of them.
OrderInv ==
  /\ Increasing(blob) /\ Increasing(logged)
  /\ \A i, k \in 1 .. Len(queue) :
       i < k => queue[i] # Log!Stop /\ (queue[k] # Log!Stop => queue[i] < queue[k])
  /\ \A x \in Done \union Log!Range(blob) : \A y \in Log!Range(logged) \union Waiting : x < y
  /\ \A x \in Log!Range(logged) : \A y \in Waiting : x < y

\* What was done with earlier batches is earlier than the batch.
BatchInv ==
  \A x \in Done : \A b \in Log!Range(blob) : x \in Log!Range(blob) \/ x < b

\* An event is in the index once for each lost answer, and once more if its batch is done
\* or the thread failed.
CountInv ==
  \A e \in Nat : /\ Log!Cardinality(Places(e)) <= lost + 1
                 /\ (thread # "failed" /\ e \in Log!Range(blob)) => Log!Cardinality(Places(e)) <= lost

\* What ends the thread and the handler.
EndInv ==
  /\ closing \in {"no", "failed"} => Log!Stop \notin Log!Range(queue)
  /\ thread \in {"last", "ended"} =>
       queue = <<>> /\ logged = <<>> /\ closing \in {"join", "closed"}
  /\ thread \in {"get", "ended"} => blob = <<>>

LogIInv ==
  /\ LogTypeInv /\ OrderInv /\ BatchInv /\ CountInv /\ EndInv
  /\ Log!AcceptedIsKept /\ Log!ClosedIsSent /\ Log!InsertedInOrder

LEMMA RangeAppend ==
  ASSUME NEW s \in Seq(Nat), NEW e \in Nat
  PROVE  /\ Append(s, e) \in Seq(Nat) /\ Len(s) \in Nat /\ Len(Append(s, e)) = Len(s) + 1
         /\ \A i \in 1 .. Len(s) : Append(s, e)[i] = s[i]
         /\ Append(s, e)[Len(s) + 1] = e
         /\ Log!Range(Append(s, e)) = Log!Range(s) \union {e}
         /\ Log!Range(s) \subseteq Nat
         /\ \A i \in 1 .. Len(s) : s[i] \in Log!Range(s)
<1>1. /\ Append(s, e) \in Seq(Nat) /\ Len(s) \in Nat /\ Len(Append(s, e)) = Len(s) + 1
      /\ \A i \in 1 .. Len(s) : Append(s, e)[i] = s[i]
      /\ Append(s, e)[Len(s) + 1] = e
  BY AppendProperties, LenProperties
<1>2. /\ Log!Range(s) = {s[i] : i \in 1 .. Len(s)} /\ Log!Range(s) \subseteq Nat
      /\ Log!Range(Append(s, e)) = {Append(s, e)[i] : i \in 1 .. Len(s) + 1}
  BY <1>1, RangeEquality, RangeOfSeq, LogRange
<1>3. 1 .. Len(s) + 1 = (1 .. Len(s)) \union {Len(s) + 1}
  BY <1>1
<1>4. Log!Range(Append(s, e)) = Log!Range(s) \union {e}
  BY <1>1, <1>2, <1>3
<1> QED BY <1>1, <1>2, <1>4

LEMMA RangeTail ==
  ASSUME NEW s \in Seq(Nat), s # <<>>
  PROVE  /\ Tail(s) \in Seq(Nat) /\ Len(s) \in Nat \ {0} /\ Len(Tail(s)) = Len(s) - 1
         /\ \A i \in 1 .. Len(s) - 1 : Tail(s)[i] = s[i + 1]
         /\ Head(s) = s[1] /\ Head(s) \in Nat
         /\ Log!Range(s) = {Head(s)} \union Log!Range(Tail(s))
         /\ Log!Range(s) \subseteq Nat
         /\ \A i \in 1 .. Len(s) : s[i] \in Log!Range(s)
         /\ \A x \in Log!Range(Tail(s)) : \E i \in 2 .. Len(s) : x = s[i]
<1>1. /\ Tail(s) \in Seq(Nat) /\ Len(s) \in Nat \ {0} /\ Len(Tail(s)) = Len(s) - 1
      /\ \A i \in 1 .. Len(s) - 1 : Tail(s)[i] = s[i + 1]
      /\ Head(s) = s[1] /\ Head(s) \in Nat
  BY HeadTailProperties, LenProperties, EmptySeq
<1>2. /\ Log!Range(s) = {s[i] : i \in 1 .. Len(s)} /\ Log!Range(s) \subseteq Nat
      /\ Log!Range(Tail(s)) = {Tail(s)[i] : i \in 1 .. Len(s) - 1}
  BY <1>1, RangeEquality, RangeOfSeq, LogRange
<1>3. \A x \in Log!Range(Tail(s)) : \E i \in 2 .. Len(s) : x = s[i]
  BY <1>1, <1>2
<1>4. ASSUME NEW i \in 1 .. Len(s) PROVE s[i] \in {Head(s)} \union Log!Range(Tail(s))
  <2>1. CASE i = 1
    BY <1>1, <2>1
  <2>2. CASE i # 1
    <3>1. i - 1 \in 1 .. Len(s) - 1 /\ Tail(s)[i - 1] = s[i]
      BY <1>1, <2>2
    <3> QED BY <1>2, <3>1
  <2> QED BY <2>1, <2>2
<1>5. Log!Range(s) = {Head(s)} \union Log!Range(Tail(s))
  <2>1. Head(s) \in Log!Range(s) /\ 2 .. Len(s) \subseteq 1 .. Len(s)
    BY <1>1, <1>2
  <2> QED BY <1>2, <1>3, <1>4, <2>1
<1> QED BY <1>1, <1>2, <1>3, <1>5

LEMMA RangeEmpty == Log!Range(<<>>) = {}
<1>1. <<>> \in Seq(Nat) /\ Len(<<>>) = 0
  BY EmptySeq
<1>2. Log!Range(<<>>) = {<<>>[i] : i \in 1 .. 0}
  BY <1>1, RangeEquality, LogRange
<1> QED BY <1>2

\* An event that is refused now is later than those that are in the index.
LEMMA OrderStays ==
  ASSUME Log!InsertedInOrder, UNCHANGED <<indexed, lost>>, indexed \in Seq(Nat),
         refused' = refused \/ \A x \in Log!Range(indexed) : \A y \in refused' \ refused : x < y,
         refused \subseteq refused'
  PROVE  Log!InsertedInOrder'
<1>1. /\ DOMAIN indexed = 1 .. Len(indexed)
      /\ \A i \in DOMAIN indexed : indexed[i] \in Nat /\ indexed[i] \in Log!Range(indexed)
  BY LenProperties, RangeEquality, ElementOfSeq, LogRange
<1>2. ASSUME NEW i \in DOMAIN indexed, NEW j \in DOMAIN indexed
      PROVE  (indexed[j] .. indexed[i]) \ refused' = (indexed[j] .. indexed[i]) \ refused
  <2>1. CASE refused' = refused
    BY <2>1
  <2>2. CASE \A x \in Log!Range(indexed) : \A y \in refused' \ refused : x < y
    <3>1. \A y \in indexed[j] .. indexed[i] : ~(indexed[i] < y)
      BY <1>1
    <3> QED BY <1>1, <2>2, <3>1
  <2> QED BY <2>1, <2>2
<1> SUFFICES ASSUME NEW i \in DOMAIN indexed, NEW j \in DOMAIN indexed, i < j, indexed[j] <= indexed[i]
             PROVE  /\ lost > 0
                    /\ Log!Cardinality((indexed[j] .. indexed[i]) \ refused') <= BatchSize
                    /\ Log!Cardinality({h \in DOMAIN indexed : indexed[h] = indexed[j]}) <= lost + 1
  BY ZenonT(60) DEF Log!InsertedInOrder
<1> QED BY <1>2, Zenon DEF Log!InsertedInOrder

\* A step that inserts nothing and keeps the batch.
LEMMA NothingInserted ==
  ASSUME LogIInv, UNCHANGED <<blob, indexed, dropped, lost>>, thread' \in {thread, "failed"},
         refused' = refused \/ \A x \in Log!Range(indexed) : \A y \in refused' \ refused : x < y,
         refused \subseteq refused'
  PROVE  BatchInv' /\ CountInv' /\ Log!InsertedInOrder'
<1>1. \A e : Places(e)' = Places(e)
  BY DEF Places
<1>2. Log!InsertedInOrder'
  BY OrderStays DEF LogIInv, LogTypeInv
<1>3. BatchInv'
  BY DEF LogIInv, BatchInv, Done
<1>4. CountInv'
  BY <1>1 DEF LogIInv, CountInv
<1> QED BY <1>2, <1>3, <1>4

LEMMA EmitKeeps == Log!SizesAssumption /\ LogIInv /\ Log!Emit => LogIInv'
<1> SUFFICES ASSUME Log!SizesAssumption, LogIInv, Log!Emit PROVE LogIInv'
  OBVIOUS
<1>1. /\ emitted \in Nat /\ emitted' = emitted + 1 /\ emitted' <= MaxEvents /\ emitted' \in Nat
      /\ UNCHANGED <<thread, logged, blob, attempts, indexed, dropped, lost, closing>>
  BY DEF Log!Emit, Log!Sender, LogIInv, LogTypeInv, Log!TypeOK, Log!SizesAssumption
<1>2. /\ refused \subseteq 1 .. emitted /\ Log!Range(queue) \subseteq 0 .. emitted
      /\ Log!Range(indexed) \subseteq 1 .. emitted /\ Log!Range(logged) \subseteq 1 .. emitted
      /\ dropped \subseteq 1 .. emitted /\ Log!Range(blob) \subseteq 1 .. emitted
      /\ 0 .. emitted \subseteq 0 .. emitted' /\ 1 .. emitted \subseteq 1 .. emitted'
      /\ \A x \in 0 .. emitted : x < emitted'
      /\ 1 .. emitted' = (1 .. emitted) \union {emitted'} /\ emitted' \notin 1 .. emitted
  BY <1>1 DEF LogIInv, LogTypeInv, Log!TypeOK
<1>3. closing = "no" /\ Log!Stop \notin Log!Range(queue) /\ thread \notin {"last", "ended"}
  BY DEF Log!Emit, LogIInv, EndInv
<1>4. BatchInv' /\ CountInv' /\ Log!InsertedInOrder'
  <2>1. refused \subseteq refused' /\ refused' \subseteq refused \union {emitted'}
    BY DEF Log!Emit
  <2>2. \A x \in Log!Range(indexed) : \A y \in refused' \ refused : x < y
    BY <1>2, <2>1
  <2> QED BY <1>1, <2>1, <2>2, NothingInserted
<1>5. Log!ClosedIsSent'
  BY <1>1, <1>3 DEF Log!ClosedIsSent
<1>6. CASE queue' = Append(queue, emitted') /\ refused' = refused /\ Len(queue) < QueueSize
  <2>1. /\ queue \in Seq(Nat) /\ Append(queue, emitted') \in Seq(Nat) /\ Len(queue) \in Nat
        /\ Len(queue') = Len(queue) + 1
        /\ \A i \in 1 .. Len(queue) : queue'[i] = queue[i] /\ queue[i] \in Log!Range(queue)
        /\ queue'[Len(queue) + 1] = emitted'
        /\ Log!Range(queue') = Log!Range(queue) \union {emitted'}
    BY <1>1, <1>6, RangeAppend DEF LogIInv, LogTypeInv
  <2>2. LogTypeInv'
    <3>1. Len(queue') <= QueueSize
      BY <1>6, <2>1 DEF Log!SizesAssumption
    <3> QED BY <1>1, <1>2, <1>6, <2>1, <3>1 DEF LogIInv, LogTypeInv, Log!TypeOK
  <2>3. Waiting' = Waiting \union {emitted'}
    BY <1>1, <2>1 DEF Waiting, Log!Stop
  <2>4. OrderInv'
    <3>1. \A i, k \in 1 .. Len(queue') :
            i < k => queue'[i] # Log!Stop /\ (queue'[k] # Log!Stop => queue'[i] < queue'[k])
      <4> TAKE i, k \in 1 .. Len(queue')
      <4> HAVE i < k
      <4>1. i \in 1 .. Len(queue) /\ queue'[i] = queue[i] /\ queue[i] \in Log!Range(queue)
        BY <2>1
      <4>2. queue'[i] # Log!Stop /\ queue'[i] < emitted'
        BY <1>2, <1>3, <4>1
      <4>3. CASE k = Len(queue) + 1
        BY <2>1, <4>2, <4>3
      <4>4. CASE k # Len(queue) + 1
        <5>1. k \in 1 .. Len(queue) /\ queue'[k] = queue[k]
          BY <2>1, <4>4
        <5> QED BY <4>1, <4>2, <5>1 DEF LogIInv, OrderInv
      <4> QED BY <4>3, <4>4
    <3>2. \A x \in Done' \union Log!Range(blob') : \A y \in Log!Range(logged') \union Waiting' : x < y
      <4>1. Done' = Done /\ \A x \in Done \union Log!Range(blob) : x < emitted'
        <5>1. Done' = Done
          BY <1>1 DEF Done
        <5>2. Done \union Log!Range(blob) \subseteq 1 .. emitted
          BY <1>2 DEF Done
        <5>3. \A x \in 1 .. emitted : x < emitted'
          BY <1>1
        <5> QED BY <5>1, <5>2, <5>3
      <4> QED BY <1>1, <2>3, <4>1 DEF LogIInv, OrderInv
    <3>3. \A x \in Log!Range(logged') : \A y \in Waiting' : x < y
      BY <1>1, <1>2, <2>3 DEF LogIInv, OrderInv
    <3> QED BY <1>1, <3>1, <3>2, <3>3 DEF LogIInv, OrderInv
  <2>5. EndInv'
    BY <1>1, <1>3, <2>1 DEF LogIInv, EndInv, Log!Stop
  <2>6. Log!AcceptedIsKept'
    <3>1. Log!Accepted' = Log!Accepted \union {emitted'}
      BY <1>2, <1>6 DEF Log!Accepted
    <3> QED BY <1>1, <2>3, <3>1 DEF LogIInv, Log!AcceptedIsKept, Waiting
  <2> QED BY <1>4, <1>5, <2>2, <2>4, <2>5, <2>6 DEF LogIInv
<1>7. CASE queue' = queue /\ refused' = refused \union {emitted'}
  <2>1. LogTypeInv'
    BY <1>1, <1>2, <1>7 DEF LogIInv, LogTypeInv, Log!TypeOK
  <2>2. OrderInv' /\ EndInv'
    BY <1>1, <1>7 DEF LogIInv, OrderInv, EndInv, Waiting, Done
  <2>3. Log!AcceptedIsKept'
    <3>1. Log!Accepted' = Log!Accepted
      BY <1>2, <1>7 DEF Log!Accepted
    <3> QED BY <1>1, <1>7, <3>1 DEF LogIInv, Log!AcceptedIsKept
  <2> QED BY <1>4, <1>5, <2>1, <2>2, <2>3 DEF LogIInv
<1> QED BY <1>6, <1>7 DEF Log!Emit

LEMMA CloseKeeps == Log!SizesAssumption /\ LogIInv /\ Log!Close => LogIInv'
<1> SUFFICES ASSUME Log!SizesAssumption, LogIInv, Log!Close PROVE LogIInv'
  OBVIOUS
<1>1. /\ closing = "no" /\ Log!Stop \notin Log!Range(queue) /\ thread \notin {"last", "ended"}
      /\ UNCHANGED <<emitted, refused, thread, logged, blob, attempts, indexed, dropped, lost>>
  BY DEF Log!Close, Log!Sender, LogIInv, EndInv
<1>2. BatchInv' /\ CountInv' /\ Log!InsertedInOrder' /\ Log!ClosedIsSent'
  BY <1>1, NothingInserted DEF Log!ClosedIsSent
<1>3. CASE queue' = Append(queue, Log!Stop) /\ closing' = "join" /\ Len(queue) < QueueSize
  <2>1. /\ queue \in Seq(Nat) /\ queue' \in Seq(Nat) /\ Len(queue) \in Nat
        /\ Len(queue') = Len(queue) + 1
        /\ \A i \in 1 .. Len(queue) : queue'[i] = queue[i] /\ queue[i] \in Log!Range(queue)
        /\ queue'[Len(queue) + 1] = Log!Stop
        /\ Log!Range(queue') = Log!Range(queue) \union {Log!Stop}
    BY <1>3, RangeAppend DEF LogIInv, LogTypeInv, Log!Stop
  <2>2. LogTypeInv'
    <3>1. Len(queue') <= QueueSize
      BY <1>3, <2>1 DEF Log!SizesAssumption
    <3>2. Log!Stop \in 0 .. emitted
      BY DEF LogIInv, LogTypeInv, Log!TypeOK, Log!Stop, Log!SizesAssumption
    <3> QED BY <1>1, <1>3, <2>1, <3>1, <3>2 DEF LogIInv, LogTypeInv, Log!TypeOK
  <2>3. Waiting' = Waiting
    BY <2>1 DEF Waiting
  <2>4. OrderInv'
    <3>1. \A i, k \in 1 .. Len(queue') :
            i < k => queue'[i] # Log!Stop /\ (queue'[k] # Log!Stop => queue'[i] < queue'[k])
      <4> TAKE i, k \in 1 .. Len(queue')
      <4> HAVE i < k
      <4>0. i \in Nat /\ k \in 1 .. Len(queue) + 1 /\ Len(queue) \in Nat
        BY <2>1
      <4>1. i \in 1 .. Len(queue) /\ queue'[i] = queue[i] /\ queue[i] # Log!Stop
        BY <1>1, <2>1
      <4>2. CASE k = Len(queue) + 1
        BY <2>1, <4>1, <4>2
      <4>3. CASE k # Len(queue) + 1
        <5>1. k \in 1 .. Len(queue)
          BY <4>0, <4>3
        <5>2. queue'[k] = queue[k]
          BY <2>1, <5>1
        <5> QED BY <4>1, <5>1, <5>2 DEF LogIInv, OrderInv
      <4> QED BY <4>2, <4>3
    <3> QED BY <1>1, <2>3, <3>1 DEF LogIInv, OrderInv, Done
  <2>5. EndInv' /\ Log!AcceptedIsKept'
    BY <1>1, <1>3, <2>3 DEF LogIInv, EndInv, Log!AcceptedIsKept, Log!Accepted, Waiting
  <2> QED BY <1>2, <2>2, <2>4, <2>5 DEF LogIInv
<1>4. CASE queue' = queue /\ closing' = "failed"
  <2>1. LogTypeInv'
    BY <1>1, <1>4 DEF LogIInv, LogTypeInv, Log!TypeOK
  <2>2. OrderInv' /\ EndInv' /\ Log!AcceptedIsKept'
    BY <1>1, <1>4 DEF LogIInv, OrderInv, EndInv, Waiting, Done, Log!AcceptedIsKept, Log!Accepted
  <2> QED BY <1>2, <2>1, <2>2 DEF LogIInv
<1> QED BY <1>3, <1>4 DEF Log!Close

LEMMA JoinKeeps == Log!SizesAssumption /\ LogIInv /\ Log!Join => LogIInv'
<1> SUFFICES ASSUME Log!SizesAssumption, LogIInv, Log!Join PROVE LogIInv'
  OBVIOUS
<1>1. /\ closing = "join" /\ closing' = "closed" /\ thread \in {"ended", "failed"}
      /\ UNCHANGED <<emitted, refused, queue, thread, logged, blob, attempts, indexed, dropped, lost>>
  BY DEF Log!Join, Log!Sender
<1>2. BatchInv' /\ CountInv' /\ Log!InsertedInOrder'
  BY <1>1, NothingInserted
<1>3. LogTypeInv' /\ OrderInv' /\ EndInv' /\ Log!AcceptedIsKept'
  BY <1>1 DEF LogIInv, LogTypeInv, Log!TypeOK, OrderInv, EndInv, Log!AcceptedIsKept, Log!Accepted, Waiting, Done
<1>4. Log!ClosedIsSent'
  <2> SUFFICES ASSUME thread = "ended" PROVE Log!Accepted \subseteq Log!Range(indexed) \union dropped
    BY <1>1 DEF Log!ClosedIsSent, Log!Accepted
  <2>1. queue = <<>> /\ logged = <<>> /\ blob = <<>>
    BY DEF LogIInv, EndInv
  <2> QED BY <2>1, RangeEmpty DEF LogIInv, Log!AcceptedIsKept
<1> QED BY <1>2, <1>3, <1>4 DEF LogIInv

\* The events of a new batch are later than all that are in the index.
LEMMA BatchStarts ==
  ASSUME Log!SizesAssumption, LogIInv, UNCHANGED <<refused, indexed, dropped, lost>>, blob' \in Seq(Nat),
         \A x \in Done : \A y \in Log!Range(blob') : x < y
  PROVE  BatchInv' /\ CountInv' /\ Log!InsertedInOrder'
<1>1. \A e : Places(e)' = Places(e)
  BY DEF Places
<1>2. /\ DOMAIN indexed = 1 .. Len(indexed) /\ Log!Range(indexed) \subseteq Nat
      /\ \A i \in 1 .. Len(indexed) : indexed[i] \in Log!Range(indexed) /\ indexed[i] \in Nat
  BY LenProperties, RangeEquality, RangeOfSeq, LogRange DEF LogIInv, LogTypeInv
<1>3. Log!Range(blob') \subseteq Nat
  BY RangeOfSeq, LogRange
<1>4. \A e \in Log!Range(blob') : Places(e) = {}
  BY <1>2, <1>3 DEF Places, Done
<1>5. \A e \in Log!Range(blob') : Log!Cardinality(Places(e)) <= lost
  <2>1. lost \in 0 .. MaxLost
    BY DEF LogIInv, LogTypeInv, Log!TypeOK
  <2>2. 0 <= lost
    BY <2>1 DEF Log!SizesAssumption
  <2> TAKE e \in Log!Range(blob')
  <2>3. Places(e) = {}
    BY <1>4
  <2>4. Log!Cardinality(Places(e)) = 0
    BY <2>3, FS_EmptySet, LogCardinality
  <2> QED BY <2>2, <2>4
<1>6. CountInv'
  BY <1>1, <1>5 DEF LogIInv, CountInv
<1>7. BatchInv'
  BY DEF BatchInv, Done
<1>8. Log!InsertedInOrder'
  BY OrderStays DEF LogIInv, LogTypeInv
<1> QED BY <1>6, <1>7, <1>8

\* The buffer becomes the batch, with the event that was taken, if there is one.
LEMMA FlushKeeps ==
  ASSUME Log!SizesAssumption, LogIInv, thread = "get",
         UNCHANGED <<emitted, refused, closing, indexed, dropped, lost>>,
         queue' \in Seq(Nat), Log!Range(queue') \subseteq Log!Range(queue), Len(queue') <= Len(queue),
         \A i, k \in 1 .. Len(queue') :
           i < k => queue'[i] # Log!Stop /\ (queue'[k] # Log!Stop => queue'[i] < queue'[k]),
         NEW b \in Seq(Nat), Increasing(b), Len(b) <= BatchSize, Log!Range(b) \subseteq 1 .. emitted,
         Log!Range(b) \union Waiting' = Log!Range(logged) \union Waiting,
         \A x \in Log!Range(b) : \A y \in Waiting' : x < y,
         NEW then \in {"insert", "last"}, Log!Flush(b, then),
         then = "last" => queue' = <<>> /\ closing \in {"join", "closed"}
  PROVE  LogIInv'
<1>1. blob = <<>> /\ Log!Range(blob) = {} /\ blob \in Seq(Nat) /\ Len(blob) = 0
  BY RangeEmpty, EmptySeq DEF LogIInv, EndInv
<1>2. /\ logged' = <<>> /\ Log!Range(logged') = {} /\ logged' \in Seq(Nat) /\ Len(logged') = 0
      /\ 0 < BatchSize /\ Increasing(logged')
  <2>1. logged' = <<>> /\ 0 < BatchSize
    BY DEF Log!Flush, Log!SizesAssumption
  <2>2. <<>> \in Seq(Nat) /\ Len(<<>>) = 0
    BY EmptySeq
  <2>3. Increasing(<<>>)
    BY <2>2 DEF Increasing
  <2> QED BY <2>1, <2>2, <2>3, RangeEmpty
<1>3. /\ blob' = b /\ attempts' \in 0 .. Attempts
      /\ thread' \in {"insert", "last", "get", "ended"}
      /\ thread' \in {"last", "ended"} => then = "last"
      /\ thread' \in {"get", "ended"} => b = <<>>
  <2>1. CASE b = <<>>
    BY <1>1, <2>1 DEF Log!Flush, LogIInv, LogTypeInv, Log!TypeOK
  <2>2. CASE b # <<>>
    BY <2>2 DEF Log!Flush, Log!SizesAssumption
  <2> QED BY <2>1, <2>2
<1>4. Done' = Done /\ \A x \in Done : \A y \in Log!Range(b) \union Waiting' : x < y
  BY DEF LogIInv, OrderInv, Done
<1>5. BatchInv' /\ CountInv' /\ Log!InsertedInOrder'
  BY <1>3, <1>4, BatchStarts
<1>6. LogTypeInv'
  <2>1. Len(queue') <= QueueSize
    BY LenProperties DEF LogIInv, LogTypeInv, Log!TypeOK, Log!SizesAssumption
  <2> QED BY <1>2, <1>3, <2>1 DEF LogIInv, LogTypeInv, Log!TypeOK
<1>7. OrderInv'
  BY <1>2, <1>3, <1>4 DEF OrderInv
<1>8. EndInv'
  BY <1>2, <1>3 DEF LogIInv, EndInv
<1>9. Log!AcceptedIsKept' /\ Log!ClosedIsSent'
  <2>1. Log!Accepted = Waiting \union Log!Range(logged) \union Done
    BY <1>1 DEF LogIInv, Log!AcceptedIsKept, Waiting, Done
  <2>2. Log!Accepted' = Waiting' \union Log!Range(blob') \union Log!Range(indexed') \union dropped'
    BY <1>3, <2>1 DEF Log!Accepted, Done
  <2>3. Log!AcceptedIsKept'
    BY <1>2, <2>2 DEF Log!AcceptedIsKept, Waiting
  <2>4. thread' = "ended" => Log!Accepted' \subseteq Log!Range(indexed') \union dropped'
    BY <1>3, <2>2, RangeEmpty DEF Waiting
  <2> QED BY <2>3, <2>4 DEF Log!ClosedIsSent
<1> QED BY <1>5, <1>6, <1>7, <1>8, <1>9 DEF LogIInv

LEMMA GetKeeps == Log!SizesAssumption /\ LogIInv /\ Log!Get => LogIInv'
<1> SUFFICES ASSUME Log!SizesAssumption, LogIInv, Log!Get PROVE LogIInv'
  OBVIOUS
<1> DEFINE event == Head(queue)
           gathered == Append(logged, event)
<1>1. /\ thread = "get" /\ queue # <<>> /\ queue' = Tail(queue)
      /\ UNCHANGED <<emitted, refused, closing, indexed, dropped, lost>>
  BY DEF Log!Get
<1>2. /\ queue' \in Seq(Nat) /\ Len(queue) \in Nat \ {0} /\ Len(queue') = Len(queue) - 1
      /\ \A i \in 1 .. Len(queue) - 1 : queue'[i] = queue[i + 1]
      /\ event = queue[1] /\ event \in Nat
      /\ Log!Range(queue) = {event} \union Log!Range(queue')
      /\ \A x \in Log!Range(queue') : \E i \in 2 .. Len(queue) : x = queue[i]
  BY <1>1, RangeTail DEF LogIInv, LogTypeInv
<1>3. \A i, k \in 1 .. Len(queue') :
        i < k => queue'[i] # Log!Stop /\ (queue'[k] # Log!Stop => queue'[i] < queue'[k])
  <2> TAKE i, k \in 1 .. Len(queue')
  <2>1. /\ i + 1 \in 1 .. Len(queue) /\ k + 1 \in 1 .. Len(queue)
        /\ queue'[i] = queue[i + 1] /\ queue'[k] = queue[k + 1]
    BY <1>2
  <2>2. i < k => i + 1 < k + 1
    BY <1>2
  <2> QED BY <2>1, <2>2 DEF LogIInv, OrderInv
<1>4. \A i \in 2 .. Len(queue) : event # Log!Stop /\ (queue[i] # Log!Stop => event < queue[i])
  <2> TAKE i \in 2 .. Len(queue)
  <2>1. 1 \in 1 .. Len(queue) /\ i \in 1 .. Len(queue) /\ 1 < i
    BY <1>2
  <2> QED BY <1>2, <2>1 DEF LogIInv, OrderInv
<1>5. logged \in Seq(Nat) /\ Len(logged) \in Nat /\ Len(logged) < BatchSize
      /\ Increasing(logged) /\ Log!Range(logged) \subseteq 1 .. emitted
  BY LenProperties DEF LogIInv, LogTypeInv, Log!TypeOK, OrderInv
<1>6. CASE event = Log!Stop
  <2>1. queue' = <<>> /\ closing \in {"join", "closed"}
    <3>1. Len(queue) = 1
      BY <1>2, <1>4, <1>6
    <3>2. queue' = <<>>
      BY <1>2, <3>1, EmptySeq
    <3>3. closing \in {"no", "join", "closed", "failed"} /\ closing \notin {"no", "failed"}
      BY <1>2, <1>6 DEF LogIInv, LogTypeInv, Log!TypeOK, EndInv
    <3> QED BY <3>2, <3>3
  <2>2. Waiting' = {} /\ Waiting = {}
    BY <1>2, <1>6, <2>1, RangeEmpty DEF Waiting
  <2>3. Log!Flush(logged, "last")
    BY <1>6 DEF Log!Get
  <2>4. /\ Len(logged) <= BatchSize /\ Log!Range(queue') \subseteq Log!Range(queue)
        /\ Len(queue') <= Len(queue)
    BY <1>2, <1>5 DEF Log!SizesAssumption
  <2>5. /\ Log!Range(logged) \union Waiting' = Log!Range(logged) \union Waiting
        /\ \A x \in Log!Range(logged) : \A y \in Waiting' : x < y
    BY <2>2
  <2> HIDE DEF event, gathered
  <2> QED BY <1>1, <1>2, <1>3, <1>5, <2>1, <2>3, <2>4, <2>5, FlushKeeps
<1>7. CASE event # Log!Stop
  <2>1. /\ Waiting = {event} \union Waiting' /\ event \in 1 .. emitted
        /\ \A y \in Waiting' : event < y
    <3>1. event \in 0 .. emitted /\ emitted \in Nat
      BY <1>2 DEF LogIInv, LogTypeInv, Log!TypeOK
    <3> QED BY <1>2, <1>4, <1>7, <3>1 DEF Waiting, Log!Stop
  <2>2. \A x \in Log!Range(logged) : x < event
    BY <2>1 DEF LogIInv, OrderInv
  <2>3. /\ gathered \in Seq(Nat) /\ Len(gathered) = Len(logged) + 1
        /\ \A i \in 1 .. Len(logged) : gathered[i] = logged[i] /\ logged[i] \in Log!Range(logged)
        /\ gathered[Len(logged) + 1] = event
        /\ Log!Range(gathered) = Log!Range(logged) \union {event}
    BY <1>2, <1>5, RangeAppend
  <2>4. Increasing(gathered)
    <3> SUFFICES ASSUME NEW i \in 1 .. Len(gathered), NEW k \in 1 .. Len(gathered), i < k
                 PROVE  gathered[i] < gathered[k]
      BY DEF Increasing
    <3>1. i \in 1 .. Len(logged) /\ gathered[i] = logged[i] /\ logged[i] \in Log!Range(logged)
      BY <1>5, <2>3
    <3>2. CASE k = Len(logged) + 1
      BY <2>2, <2>3, <3>1, <3>2
    <3>3. CASE k # Len(logged) + 1
      <4>1. k \in 1 .. Len(logged) /\ gathered[k] = logged[k]
        BY <1>5, <2>3, <3>3
      <4> QED BY <1>5, <3>1, <4>1 DEF Increasing
    <3> QED BY <3>2, <3>3
  <2>5. \A x \in Log!Range(gathered) : \A y \in Waiting' : x < y
    BY <2>1, <2>3 DEF LogIInv, OrderInv
  <2>6. Len(gathered) <= BatchSize
    BY <1>5, <2>3 DEF Log!SizesAssumption
  <2>7. CASE Len(gathered) >= BatchSize
    <3>1. Log!Flush(gathered, "insert")
      BY <1>7, <2>7 DEF Log!Get
    <3>2. Log!Range(gathered) \union Waiting' = Log!Range(logged) \union Waiting
      BY <2>1, <2>3
    <3>3. Log!Range(gathered) \subseteq 1 .. emitted
      BY <1>5, <2>1, <2>3
    <3>4. Log!Range(queue') \subseteq Log!Range(queue) /\ Len(queue') <= Len(queue)
      BY <1>2
    <3> HIDE DEF gathered
    <3> QED BY <1>1, <1>2, <1>3, <2>3, <2>4, <2>5, <2>6, <3>1, <3>2, <3>3, <3>4, FlushKeeps
  <2>8. CASE ~(Len(gathered) >= BatchSize)
    <3>1. logged' = gathered /\ UNCHANGED <<thread, blob, attempts>>
      BY <1>7, <2>8 DEF Log!Get
    <3>2. Len(gathered) < BatchSize
      BY <1>5, <2>3, <2>8 DEF Log!SizesAssumption
    <3>3. BatchInv' /\ CountInv' /\ Log!InsertedInOrder' /\ Log!ClosedIsSent'
      BY <1>1, <3>1, NothingInserted DEF Log!ClosedIsSent
    <3> HIDE DEF gathered
    <3>4. LogTypeInv'
      <4>1. Len(queue') <= QueueSize
        BY <1>2 DEF LogIInv, LogTypeInv, Log!TypeOK, Log!SizesAssumption
      <4> QED BY <1>1, <1>2, <1>5, <2>1, <2>3, <3>1, <3>2, <4>1 DEF LogIInv, LogTypeInv, Log!TypeOK
    <3>5. OrderInv'
      <4>1. \A x \in Done \union Log!Range(blob) : \A y \in Log!Range(gathered) \union Waiting' : x < y
        BY <2>1, <2>3 DEF LogIInv, OrderInv
      <4>2. Done' = Done
        BY <1>1 DEF Done
      <4> QED BY <1>1, <1>3, <2>4, <2>5, <3>1, <4>1, <4>2 DEF LogIInv, OrderInv
    <3>6. EndInv'
      BY <1>1, <1>2, <3>1 DEF LogIInv, EndInv
    <3>7. Log!AcceptedIsKept'
      BY <1>1, <2>1, <2>3, <3>1 DEF LogIInv, Log!AcceptedIsKept, Log!Accepted, Waiting
    <3> QED BY <3>3, <3>4, <3>5, <3>6, <3>7 DEF LogIInv
  <2> QED BY <2>7, <2>8
<1> QED BY <1>6, <1>7

LEMMA GetTimeoutKeeps == Log!SizesAssumption /\ LogIInv /\ Log!GetTimeout => LogIInv'
<1> SUFFICES ASSUME Log!SizesAssumption, LogIInv, Log!GetTimeout PROVE LogIInv'
  OBVIOUS
<1>1. /\ thread = "get" /\ queue' = queue /\ Log!Flush(logged, "insert")
      /\ UNCHANGED <<emitted, refused, closing, indexed, dropped, lost>>
  BY DEF Log!GetTimeout
<1>2. /\ logged \in Seq(Nat) /\ queue \in Seq(Nat) /\ Len(logged) \in Nat /\ Len(queue) \in Nat
      /\ Len(logged) < BatchSize /\ Log!Range(logged) \subseteq 1 .. emitted
  BY LenProperties DEF LogIInv, LogTypeInv, Log!TypeOK
<1>3. Len(logged) <= BatchSize /\ Len(queue') <= Len(queue) /\ Waiting' = Waiting
  BY <1>1, <1>2 DEF Log!SizesAssumption, Waiting
<1>4. /\ Increasing(logged) /\ \A x \in Log!Range(logged) : \A y \in Waiting : x < y
      /\ \A i, k \in 1 .. Len(queue') :
           i < k => queue'[i] # Log!Stop /\ (queue'[k] # Log!Stop => queue'[i] < queue'[k])
  BY <1>1 DEF LogIInv, OrderInv
<1> QED BY <1>1, <1>2, <1>3, <1>4, FlushKeeps

\* What is inserted of a batch is in its order.
LEMMA PartOfBatch ==
  ASSUME NEW b \in Seq(Nat), Increasing(b), NEW part \in Log!Parts(b)
  PROVE  part \in Seq(Nat) /\ Increasing(part) /\ Log!Range(part) \subseteq Log!Range(b)
<1>0. PICK n \in 0 .. Len(b) : \E places \in Log!Selections(n, Len(b)) : part = Log!Chosen(b, places)
  BY DEF Log!Parts
<1>1. PICK places \in Log!Selections(n, Len(b)) : part = Log!Chosen(b, places)
  BY <1>0
<1>2. /\ places \in [1 .. n -> 1 .. Len(b)] /\ n \in Nat
      /\ \A i, k \in 1 .. n : i < k => places[i] < places[k]
  BY <1>1, LenProperties DEF Log!Selections
<1>3. /\ b \in [1 .. Len(b) -> Nat] /\ Len(b) \in Nat
      /\ \A i \in 1 .. Len(b) : b[i] \in Nat /\ b[i] \in Log!Range(b)
  BY LenProperties, RangeEquality, ElementOfSeq, LogRange
<1>4. part = [i \in 1 .. n |-> b[places[i]]]
  BY <1>1, <1>2 DEF Log!Chosen
<1>5. \A i \in 1 .. n : places[i] \in 1 .. Len(b) /\ part[i] = b[places[i]] /\ part[i] \in Nat
  BY <1>2, <1>3, <1>4
<1>6. part \in [1 .. n -> Nat]
  BY <1>4, <1>5
<1>7. part \in Seq(Nat) /\ Len(part) = n
  BY <1>2, <1>6, SeqDef, LenProperties
<1>8. Increasing(part)
  <2> SUFFICES ASSUME NEW i \in 1 .. n, NEW k \in 1 .. n, i < k PROVE part[i] < part[k]
    BY <1>7 DEF Increasing
  <2>1. places[i] < places[k]
    BY <1>2
  <2> QED BY <1>5, <2>1 DEF Increasing
<1>9. Log!Range(part) \subseteq Log!Range(b)
  <2>1. Log!Range(part) = {part[i] : i \in 1 .. n}
    BY <1>7, RangeEquality, LogRange
  <2> QED BY <1>3, <1>5, <2>1
<1> QED BY <1>7, <1>8, <1>9

\* The places of an event after a part of the batch was inserted.
LEMMA PlacesGrow ==
  ASSUME LogIInv, NEW part \in Seq(Nat), Increasing(part), indexed' = indexed \o part
  PROVE  /\ indexed' \in Seq(Nat) /\ Log!Range(indexed') = Log!Range(indexed) \union Log!Range(part)
         /\ Len(indexed) \in Nat /\ Len(part) \in Nat /\ Len(indexed') = Len(indexed) + Len(part)
         /\ \A i \in 1 .. Len(indexed) : indexed'[i] = indexed[i] /\ indexed[i] \in Nat
         /\ \A i \in 1 .. Len(part) : /\ indexed'[Len(indexed) + i] = part[i] /\ part[i] \in Nat
                                      /\ part[i] \in Log!Range(part)
         /\ \A e \in Log!Range(part) : \E i \in 1 .. Len(part) : e = part[i]
         /\ \A i \in 1 .. Len(indexed') : i \notin 1 .. Len(indexed) =>
               \E p \in 1 .. Len(part) : i = Len(indexed) + p
         /\ \A e \in Nat : /\ Log!Cardinality(Places(e)) \in Nat /\ Log!Cardinality(Places(e)') \in Nat
                           /\ Log!Cardinality(Places(e)') <= Log!Cardinality(Places(e)) + 1
                           /\ e \notin Log!Range(part) => Places(e)' = Places(e)
<1>1. indexed \in Seq(Nat) /\ part \in Seq(Nat)
  BY DEF LogIInv, LogTypeInv
<1>2. /\ indexed' \in Seq(Nat) /\ Log!Range(indexed') = Log!Range(indexed) \union Log!Range(part)
      /\ Len(indexed) \in Nat /\ Len(part) \in Nat /\ Len(indexed') = Len(indexed) + Len(part)
      /\ DOMAIN indexed = 1 .. Len(indexed) /\ DOMAIN indexed' = 1 .. Len(indexed')
      /\ Log!Range(part) = {part[i] : i \in 1 .. Len(part)}
  BY <1>1, ConcatProperties, LenProperties, RangeConcatenation, RangeEquality, LogRange
<1>3. \A i \in 1 .. Len(indexed) : indexed'[i] = indexed[i] /\ indexed[i] \in Nat
  BY <1>1, <1>2, ConcatProperties, ElementOfSeq
<1>4. \A i \in 1 .. Len(part) : indexed'[Len(indexed) + i] = part[i] /\ part[i] \in Nat
  <2> TAKE i \in 1 .. Len(part)
  <2>1. /\ Len(indexed) + i \in 1 .. Len(indexed) + Len(part) /\ ~(Len(indexed) + i <= Len(indexed))
        /\ Len(indexed) + i - Len(indexed) = i
    BY <1>2
  <2>2. indexed'[Len(indexed) + i] = part[Len(indexed) + i - Len(indexed)]
    BY <1>1, <2>1, ConcatProperties
  <2> QED BY <1>1, <2>1, <2>2, ElementOfSeq
<1>5. \A i \in 1 .. Len(indexed') : i \notin 1 .. Len(indexed) =>
        \E p \in 1 .. Len(part) : i = Len(indexed) + p
  <2> TAKE i \in 1 .. Len(indexed')
  <2> HAVE i \notin 1 .. Len(indexed)
  <2>1. i - Len(indexed) \in 1 .. Len(part) /\ i = Len(indexed) + (i - Len(indexed))
    BY <1>2
  <2> QED BY <2>1
<1>6. ASSUME NEW e \in Nat
      PROVE  /\ Log!Cardinality(Places(e)) \in Nat /\ Log!Cardinality(Places(e)') \in Nat
             /\ Log!Cardinality(Places(e)') <= Log!Cardinality(Places(e)) + 1
             /\ e \notin Log!Range(part) => Places(e)' = Places(e)
  <2>1. IsFiniteSet(Places(e)) /\ Log!Cardinality(Places(e)) \in Nat
    <3>1. IsFiniteSet(1 .. Len(indexed)) /\ Places(e) \in SUBSET (1 .. Len(indexed))
      BY <1>2, FS_Interval, LogCardinality DEF Places
    <3> QED BY <3>1, FS_Subset, FS_CardinalityType, LogCardinality
  <2>2. \A i \in 1 .. Len(indexed) : i \in Places(e)' <=> i \in Places(e)
    <3>1. \A i \in 1 .. Len(indexed) : i \in 1 .. Len(indexed')
      BY <1>2
    <3> QED BY <1>2, <1>3, <3>1 DEF Places
  <2>3. CASE e \notin Log!Range(part)
    <3>1. \A i \in Places(e)' : i \in 1 .. Len(indexed)
      <4> TAKE i \in Places(e)'
      <4>1. i \in 1 .. Len(indexed') /\ indexed'[i] = e
        BY <1>2 DEF Places
      <4> QED BY ZenonT(60), <1>2, <1>4, <1>5, <2>3, <4>1
    <3>2. Places(e) \subseteq 1 .. Len(indexed)
      BY <1>2 DEF Places
    <3>3. Places(e)' = Places(e)
      BY <2>2, <3>1, <3>2
    <3> QED BY <2>1, <3>3
  <2>4. CASE e \in Log!Range(part)
    <3>1. PICK p \in 1 .. Len(part) : part[p] = e
      BY <1>2, <2>4
    <3>2. \A q \in 1 .. Len(part) : part[q] = e => q = p
      BY SMTT(30), <1>2, <1>4, <3>1 DEF Increasing
    <3>3. Places(e)' = Places(e) \union {Len(indexed) + p}
      <4>1. \A i \in Places(e)' : i \in Places(e) \/ i = Len(indexed) + p
        <5> TAKE i \in Places(e)'
        <5>1. i \in 1 .. Len(indexed') /\ indexed'[i] = e
          BY <1>2 DEF Places
        <5> QED BY <1>4, <1>5, <2>2, <3>2, <5>1
      <4>2. Len(indexed) + p \in Places(e)'
        BY <1>2, <1>4, <3>1 DEF Places
      <4>3. \A i \in Places(e) : i \in Places(e)'
        BY <1>2, <2>2 DEF Places
      <4> QED BY <4>1, <4>2, <4>3
    <3>4. IsFiniteSet(Places(e)') /\ Log!Cardinality(Places(e)') <= Log!Cardinality(Places(e)) + 1
      <4> DEFINE P == Places(e)
                 n == Len(indexed) + p
      <4>1. IsFiniteSet(P) /\ Log!Cardinality(P) \in Nat
        BY <2>1
      <4>2. /\ IsFiniteSet(P \union {n})
            /\ Log!Cardinality(P \union {n}) \in {Log!Cardinality(P), Log!Cardinality(P) + 1}
        <5> HIDE DEF P, n
        <5> QED BY <4>1, FS_AddElement, LogCardinality
      <4> QED BY <3>3, <4>1, <4>2
    <3> QED BY <2>1, <2>4, <3>4, FS_CardinalityType, LogCardinality
  <2> QED BY <2>3, <2>4
<1>7. /\ \A i \in 1 .. Len(part) : part[i] \in Log!Range(part)
      /\ \A e \in Log!Range(part) : \E i \in 1 .. Len(part) : e = part[i]
  BY <1>2
<1> QED BY <1>2, <1>3, <1>4, <1>5, <1>6, <1>7

\* The events between two of the batch are of the batch, or were refused by the queue.
LEMMA BatchInterval ==
  ASSUME Log!SizesAssumption, LogIInv, thread # "failed",
         NEW e \in Log!Range(blob), NEW x \in Log!Range(blob)
  PROVE  Log!Cardinality((e .. x) \ refused) <= BatchSize
<1>1. /\ blob \in Seq(Nat) /\ Len(blob) \in Nat /\ Len(blob) <= BatchSize /\ BatchSize \in Nat
      /\ Log!Range(blob) \subseteq 1 .. emitted /\ emitted \in Nat
  BY LenProperties DEF LogIInv, LogTypeInv, Log!TypeOK, Log!SizesAssumption
<1>2. (e .. x) \ refused \subseteq Log!Range(blob)
  <2> SUFFICES ASSUME NEW y \in (e .. x) \ refused PROVE y \in Log!Range(blob)
    OBVIOUS
  <2>1. y \in 1 .. emitted /\ e <= y /\ y <= x /\ e \in Nat /\ x \in Nat /\ y \in Nat
    BY <1>1
  <2>2. y \in Log!Accepted
    BY <2>1 DEF Log!Accepted
  <2>3. y \in Waiting \union Log!Range(logged) \union Log!Range(blob) \union Done
    BY <2>2 DEF LogIInv, Log!AcceptedIsKept, Waiting, Done
  <2>4. y \notin Waiting \union Log!Range(logged)
    BY <2>1 DEF LogIInv, OrderInv
  <2>5. y \in Done => y \in Log!Range(blob)
    BY <2>1 DEF LogIInv, BatchInv
  <2> QED BY <2>3, <2>4, <2>5
<1>3. IsFiniteSet(Log!Range(blob)) /\ Cardinality(Log!Range(blob)) <= Len(blob)
  <2>1. Log!Range(blob) = {blob[i] : i \in 1 .. Len(blob)} /\ blob \in [1 .. Len(blob) -> Nat]
    BY <1>1, RangeEquality, LenProperties, LogRange
  <2>2. blob \in Surjection(1 .. Len(blob), Log!Range(blob))
    BY <2>1 DEF Surjection
  <2>3. IsFiniteSet(1 .. Len(blob)) /\ Cardinality(1 .. Len(blob)) = Len(blob)
    <3>1. 1 \in Int /\ Len(blob) \in Int
      BY <1>1
    <3>2. /\ IsFiniteSet(1 .. Len(blob))
          /\ Cardinality(1 .. Len(blob)) = IF 1 > Len(blob) THEN 0 ELSE Len(blob) - 1 + 1
      BY <3>1, FS_Interval, Zenon
    <3> QED BY <1>1, <3>2
  <2> QED BY <2>2, <2>3, FS_Surjection
<1>4. /\ Cardinality((e .. x) \ refused) <= Cardinality(Log!Range(blob))
      /\ Cardinality((e .. x) \ refused) \in Nat /\ Cardinality(Log!Range(blob)) \in Nat
  BY <1>2, <1>3, FS_Subset, FS_CardinalityType
<1>5. Cardinality((e .. x) \ refused) <= BatchSize
  BY <1>1, <1>3, <1>4
<1> QED BY <1>5, LogCardinality

\* However often the batch is inserted, it is overtaken by its own events only.
LEMMA Inserted ==
  ASSUME Log!SizesAssumption, LogIInv, thread \in {"insert", "last"},
         NEW part \in Seq(Nat), Increasing(part), Log!Range(part) \subseteq Log!Range(blob),
         indexed' = indexed \o part, refused' = refused, lost' \in Nat, lost \in Nat, lost <= lost'
  PROVE  /\ Log!InsertedInOrder'
         /\ \A e \in Nat : /\ Log!Cardinality(Places(e)') \in Nat
                           /\ Log!Cardinality(Places(e)') <= lost + 1
<1>1. ASSUME NEW e \in Nat
      PROVE  Log!Cardinality(Places(e)') \in Nat /\ Log!Cardinality(Places(e)') <= lost + 1
  <2>1. /\ Log!Cardinality(Places(e)) \in Nat /\ Log!Cardinality(Places(e)') \in Nat
        /\ Log!Cardinality(Places(e)') <= Log!Cardinality(Places(e)) + 1
        /\ e \notin Log!Range(part) => Places(e)' = Places(e)
    BY PlacesGrow
  <2>2. /\ Log!Cardinality(Places(e)) <= lost + 1
        /\ e \in Log!Range(blob) => Log!Cardinality(Places(e)) <= lost
    BY DEF LogIInv, CountInv
  <2>3. CASE e \in Log!Range(blob)
    BY <2>1, <2>2, <2>3
  <2>4. CASE e \notin Log!Range(blob)
    BY <2>1, <2>2, <2>4
  <2> QED BY <2>3, <2>4
<1>2. /\ DOMAIN indexed' = 1 .. Len(indexed') /\ DOMAIN indexed = 1 .. Len(indexed)
      /\ indexed' \in Seq(Nat) /\ Len(indexed) \in Nat /\ Len(part) \in Nat
      /\ \A i \in 1 .. Len(indexed) : indexed[i] \in Log!Range(indexed)
  BY PlacesGrow, LenProperties, RangeEquality, LogRange DEF LogIInv, LogTypeInv
<1>3. ASSUME NEW i \in 1 .. Len(indexed'), NEW j \in 1 .. Len(indexed'), NEW e \in Nat, NEW x \in Nat,
             indexed'[j] = e, indexed'[i] = x, i < j, e <= x
      PROVE  lost > 0 /\ Log!Cardinality((e .. x) \ refused) <= BatchSize
  <2>1. CASE j \in 1 .. Len(indexed)
    <3>1. i \in 1 .. Len(indexed)
      BY <1>2, <1>3, <2>1
    <3>2. indexed[j] = e /\ indexed[i] = x
      BY <1>3, <2>1, <3>1, PlacesGrow
    <3> QED BY <1>2, <1>3, <2>1, <3>1, <3>2 DEF LogIInv, Log!InsertedInOrder
  <2>2. CASE j \notin 1 .. Len(indexed)
    <3>1. PICK p \in 1 .. Len(part) : j = Len(indexed) + p
      BY <2>2, PlacesGrow
    <3>2. e = part[p] /\ e \in Log!Range(part) /\ e \in Log!Range(blob)
      BY <1>3, <3>1, PlacesGrow
    <3>3. i \in 1 .. Len(indexed)
      <4> SUFFICES ASSUME i \notin 1 .. Len(indexed) PROVE FALSE
        OBVIOUS
      <4>1. PICK q \in 1 .. Len(part) : i = Len(indexed) + q
        BY PlacesGrow
      <4>2. x = part[q]
        BY <1>3, <4>1, PlacesGrow
      <4>3. q < p
        BY <1>2, <1>3, <3>1, <4>1
      <4>4. x < e
        BY <3>2, <4>2, <4>3 DEF Increasing
      <4> QED BY <1>3, <4>4
    <3>4. indexed[i] = x /\ x \in Done
      BY <1>2, <1>3, <3>3, PlacesGrow DEF Done
    <3>5. x \in Log!Range(blob)
      BY <1>3, <3>2, <3>4 DEF LogIInv, BatchInv
    <3>6. lost > 0
      <4>1. Log!Cardinality(Places(x)) <= lost /\ Log!Cardinality(Places(x)) \in Nat
        BY <3>5, PlacesGrow DEF LogIInv, CountInv
      <4>2. IsFiniteSet(Places(x)) /\ Places(x) # {}
        <5>1. Places(x) \subseteq 1 .. Len(indexed) /\ i \in Places(x)
          BY <1>2, <3>3, <3>4 DEF Places
        <5>2. 1 \in Int /\ Len(indexed) \in Int
          BY <1>2
        <5>3. IsFiniteSet(1 .. Len(indexed))
          BY <5>2, FS_Interval, Zenon
        <5> QED BY <5>1, <5>3, FS_Subset
      <4>3. Cardinality(Places(x)) # 0
        BY <4>2, FS_EmptySet
      <4>4. Log!Cardinality(Places(x)) # 0
        BY <4>3, LogCardinality
      <4> QED BY <4>1, <4>4
    <3> QED BY <3>2, <3>5, <3>6, BatchInterval
  <2> QED BY <2>1, <2>2
<1>4. Log!InsertedInOrder'
  <2> SUFFICES ASSUME NEW i \in DOMAIN indexed', NEW j \in DOMAIN indexed',
                      i < j, indexed'[j] <= indexed'[i]
               PROVE  /\ lost' > 0
                      /\ Log!Cardinality((indexed'[j] .. indexed'[i]) \ refused') <= BatchSize
                      /\ Log!Cardinality({h \in DOMAIN indexed' : indexed'[h] = indexed'[j]}) <= lost' + 1
    BY ZenonT(60) DEF Log!InsertedInOrder
  <2>1. PICK e \in Nat, x \in Nat : e = indexed'[j] /\ x = indexed'[i]
    BY <1>2, ElementOfSeq
  <2>2. {h \in DOMAIN indexed' : indexed'[h] = indexed'[j]} = Places(e)'
    BY <2>1 DEF Places
  <2>3. lost > 0 /\ Log!Cardinality((e .. x) \ refused) <= BatchSize
    BY <1>2, <1>3, <2>1
  <2>4. Log!Cardinality(Places(e)') \in Nat /\ Log!Cardinality(Places(e)') <= lost + 1
    BY <1>1
  <2>5. lost' > 0 /\ Log!Cardinality(Places(e)') <= lost' + 1
    BY <2>3, <2>4
  <2> QED BY <2>1, <2>2, <2>3, <2>5
<1> QED BY <1>1, <1>4

LEMMA InsertSucceedsKeeps == Log!SizesAssumption /\ LogIInv /\ Log!InsertSucceeds => LogIInv'
<1> SUFFICES ASSUME Log!SizesAssumption, LogIInv, Log!InsertSucceeds PROVE LogIInv'
  OBVIOUS
<1>1. /\ thread \in {"insert", "last"} /\ blob' = <<>>
      /\ thread' = IF thread = "last" THEN "ended" ELSE "get"
      /\ UNCHANGED <<emitted, refused, queue, logged, attempts, closing, lost>>
  BY DEF Log!InsertSucceeds
<1>2. PICK part \in Log!Parts(blob) :
        indexed' = indexed \o part /\ dropped' = dropped \union (Log!Range(blob) \ Log!Range(part))
  BY DEF Log!InsertSucceeds
<1>3. part \in Seq(Nat) /\ Increasing(part) /\ Log!Range(part) \subseteq Log!Range(blob)
  BY PartOfBatch DEF LogIInv, LogTypeInv, OrderInv
<1>4. Log!Range(blob') = {} /\ blob' \in Seq(Nat) /\ Len(blob') = 0 /\ Increasing(blob')
  <2>1. <<>> \in Seq(Nat) /\ Len(<<>>) = 0
    BY EmptySeq
  <2>2. Increasing(<<>>)
    BY <2>1 DEF Increasing
  <2> QED BY <1>1, <2>1, <2>2, RangeEmpty
<1>5. lost \in Nat /\ lost' = lost
  BY <1>1 DEF LogIInv, LogTypeInv, Log!TypeOK, Log!SizesAssumption
<1>6. indexed' \in Seq(Nat) /\ Log!Range(indexed') = Log!Range(indexed) \union Log!Range(part)
  BY <1>2, <1>3, PlacesGrow
<1>7. Done' = Done \union Log!Range(blob)
  BY <1>2, <1>3, <1>6 DEF Done
<1>8. /\ Log!InsertedInOrder'
      /\ \A e \in Nat : /\ Log!Cardinality(Places(e)') \in Nat
                        /\ Log!Cardinality(Places(e)') <= lost + 1
  BY <1>1, <1>2, <1>3, <1>5, Inserted
<1>9. LogTypeInv'
  <2>1. Len(blob') <= BatchSize
    BY <1>4 DEF Log!SizesAssumption
  <2>2. Log!Range(indexed') \subseteq 1 .. emitted /\ dropped' \subseteq 1 .. emitted
    BY <1>2, <1>3, <1>6 DEF LogIInv, LogTypeInv, Log!TypeOK
  <2> QED BY <1>1, <1>4, <1>6, <2>1, <2>2 DEF LogIInv, LogTypeInv, Log!TypeOK
<1>10. OrderInv'
  BY <1>1, <1>4, <1>7 DEF LogIInv, OrderInv, Waiting
<1>11. BatchInv' /\ CountInv'
  BY <1>4, <1>5, <1>8 DEF BatchInv, CountInv
<1>12. EndInv'
  BY <1>1 DEF LogIInv, EndInv
<1>13. Log!Accepted' = Log!Accepted /\ Waiting' = Waiting
      /\ Log!Accepted = Waiting \union Log!Range(logged) \union Log!Range(blob) \union Done
  BY <1>1 DEF LogIInv, Log!Accepted, Waiting, Log!AcceptedIsKept, Done
<1>14. Log!AcceptedIsKept'
  BY <1>1, <1>4, <1>7, <1>13 DEF Log!AcceptedIsKept, Waiting, Done
<1>15. Log!ClosedIsSent'
  <2>1. thread = "last" => Waiting = {} /\ Log!Range(logged) = {}
    BY RangeEmpty DEF LogIInv, EndInv, Waiting
  <2> QED BY <1>1, <1>7, <1>13, <2>1 DEF Log!ClosedIsSent, Done
<1> QED BY <1>8, <1>9, <1>10, <1>11, <1>12, <1>14, <1>15 DEF LogIInv

\* What _bulk_insert() does after a failure does not touch the events.
LEMMA RetryKeeps ==
  ASSUME Log!SizesAssumption, LogIInv, thread \in {"insert", "last"}, Log!Retry,
         UNCHANGED <<emitted, refused, queue, logged, blob, closing, dropped>>
  PROVE  /\ thread' \in {thread, "failed"} /\ attempts' \in 0 .. Attempts
         /\ EndInv' /\ Log!ClosedIsSent' /\ Waiting' = Waiting /\ Log!Accepted' = Log!Accepted
<1>1. thread' \in {thread, "failed"} /\ attempts' \in 0 .. Attempts
  BY DEF Log!Retry, LogIInv, LogTypeInv, Log!TypeOK, Log!SizesAssumption
<1> QED BY <1>1 DEF LogIInv, EndInv, Log!ClosedIsSent, Waiting, Log!Accepted

LEMMA InsertFailsKeeps == Log!SizesAssumption /\ LogIInv /\ Log!InsertFails => LogIInv'
<1> SUFFICES ASSUME Log!SizesAssumption, LogIInv, Log!InsertFails PROVE LogIInv'
  OBVIOUS
<1>1. /\ thread \in {"insert", "last"} /\ Log!Retry
      /\ UNCHANGED <<emitted, refused, queue, logged, blob, closing, indexed, dropped, lost>>
  BY DEF Log!InsertFails
<1>2. /\ thread' \in {thread, "failed"} /\ attempts' \in 0 .. Attempts
      /\ EndInv' /\ Log!ClosedIsSent' /\ Waiting' = Waiting /\ Log!Accepted' = Log!Accepted
  BY <1>1, RetryKeeps
<1>3. BatchInv' /\ CountInv' /\ Log!InsertedInOrder'
  BY <1>1, <1>2, NothingInserted
<1>4. LogTypeInv' /\ OrderInv' /\ Log!AcceptedIsKept'
  BY <1>1, <1>2 DEF LogIInv, LogTypeInv, Log!TypeOK, OrderInv, Log!AcceptedIsKept, Done
<1> QED BY <1>2, <1>3, <1>4 DEF LogIInv

\* What a part of the batch in the index does not disturb.
LEMMA PartKeeps ==
  ASSUME LogIInv, NEW part \in Seq(Nat), Increasing(part), Log!Range(part) \subseteq Log!Range(blob),
         indexed' = indexed \o part, thread \in {"insert", "last"}, thread' \in {thread, "failed"},
         UNCHANGED <<emitted, refused, queue, logged, blob, dropped>>
  PROVE  /\ indexed' \in Seq(Nat) /\ Log!Range(indexed') \subseteq 1 .. emitted
         /\ OrderInv' /\ BatchInv' /\ Log!AcceptedIsKept'
<1>1. indexed' \in Seq(Nat) /\ Log!Range(indexed') = Log!Range(indexed) \union Log!Range(part)
  BY PlacesGrow
<1>2. Done \subseteq Done' /\ Done' \subseteq Done \union Log!Range(blob)
  BY <1>1 DEF Done
<1>3. Log!Range(indexed') \subseteq 1 .. emitted
  BY <1>1 DEF LogIInv, LogTypeInv, Log!TypeOK
<1>4. OrderInv' /\ BatchInv'
  BY <1>2 DEF LogIInv, OrderInv, BatchInv, Waiting
<1>5. Log!AcceptedIsKept'
  BY <1>1 DEF LogIInv, Log!AcceptedIsKept, Log!Accepted
<1> QED BY <1>1, <1>3, <1>4, <1>5

LEMMA AnswerLostKeeps == Log!SizesAssumption /\ LogIInv /\ Log!AnswerLost => LogIInv'
<1> SUFFICES ASSUME Log!SizesAssumption, LogIInv, Log!AnswerLost PROVE LogIInv'
  OBVIOUS
<1>1. /\ thread \in {"insert", "last"} /\ Log!Retry /\ lost < MaxLost /\ lost' = lost + 1
      /\ UNCHANGED <<emitted, refused, queue, logged, blob, closing, dropped>>
  BY DEF Log!AnswerLost
<1>2. PICK part \in Log!Parts(blob) : indexed' = indexed \o part
  BY DEF Log!AnswerLost
<1>3. part \in Seq(Nat) /\ Increasing(part) /\ Log!Range(part) \subseteq Log!Range(blob)
  BY PartOfBatch DEF LogIInv, LogTypeInv, OrderInv
<1>4. /\ thread' \in {thread, "failed"} /\ attempts' \in 0 .. Attempts
      /\ EndInv' /\ Waiting' = Waiting /\ Log!Accepted' = Log!Accepted
  BY <1>1, RetryKeeps
<1>5. lost \in Nat /\ lost' \in Nat /\ lost' \in 0 .. MaxLost /\ lost <= lost'
  BY <1>1 DEF LogIInv, LogTypeInv, Log!TypeOK, Log!SizesAssumption
<1>6. /\ indexed' \in Seq(Nat) /\ Log!Range(indexed') \subseteq 1 .. emitted
      /\ OrderInv' /\ BatchInv' /\ Log!AcceptedIsKept'
  BY <1>1, <1>2, <1>3, <1>4, PartKeeps
<1>7. /\ Log!InsertedInOrder'
      /\ \A e \in Nat : /\ Log!Cardinality(Places(e)') \in Nat
                        /\ Log!Cardinality(Places(e)') <= lost + 1
  BY <1>1, <1>2, <1>3, <1>5, Inserted
<1>8. LogTypeInv'
  BY <1>1, <1>4, <1>5, <1>6 DEF LogIInv, LogTypeInv, Log!TypeOK
<1>9. CountInv'
  <2>1. ASSUME NEW e \in Nat
        PROVE  Log!Cardinality(Places(e)') <= lost' /\ Log!Cardinality(Places(e)') <= lost' + 1
    BY <1>1, <1>5, <1>7
  <2> QED BY <2>1 DEF CountInv
<1>10. Log!ClosedIsSent'
  BY <1>1, <1>4 DEF Log!ClosedIsSent
<1> QED BY <1>4, <1>6, <1>7, <1>8, <1>9, <1>10 DEF LogIInv

LEMMA ThreadFailsKeeps == Log!SizesAssumption /\ LogIInv /\ Log!ThreadFails => LogIInv'
<1> SUFFICES ASSUME Log!SizesAssumption, LogIInv, Log!ThreadFails PROVE LogIInv'
  OBVIOUS
<1>1. /\ thread \in {"insert", "last"} /\ thread' = "failed"
      /\ UNCHANGED <<emitted, refused, queue, logged, blob, attempts, closing, dropped, lost>>
  BY DEF Log!ThreadFails
<1>2. PICK part \in Log!Parts(blob) : indexed' = indexed \o part
  BY DEF Log!ThreadFails
<1>3. part \in Seq(Nat) /\ Increasing(part) /\ Log!Range(part) \subseteq Log!Range(blob)
  BY PartOfBatch DEF LogIInv, LogTypeInv, OrderInv
<1>4. lost \in Nat
  BY DEF LogIInv, LogTypeInv, Log!TypeOK, Log!SizesAssumption
<1>5. /\ indexed' \in Seq(Nat) /\ Log!Range(indexed') \subseteq 1 .. emitted
      /\ OrderInv' /\ BatchInv' /\ Log!AcceptedIsKept'
  BY <1>1, <1>2, <1>3, PartKeeps
<1>6. /\ Log!InsertedInOrder'
      /\ \A e \in Nat : Log!Cardinality(Places(e)') <= lost + 1
  BY <1>1, <1>2, <1>3, <1>4, Inserted
<1>7. LogTypeInv'
  BY <1>1, <1>5 DEF LogIInv, LogTypeInv, Log!TypeOK
<1>8. CountInv' /\ EndInv' /\ Log!ClosedIsSent'
  BY <1>1, <1>6 DEF LogIInv, CountInv, EndInv, Log!ClosedIsSent
<1> QED BY <1>5, <1>6, <1>7, <1>8 DEF LogIInv

LEMMA LogStutterKeeps == LogIInv /\ UNCHANGED Log!vars => LogIInv'
<1> SUFFICES ASSUME LogIInv, UNCHANGED Log!vars PROVE LogIInv'
  OBVIOUS
<1>1. UNCHANGED <<emitted, refused, queue, thread, logged, blob, attempts, closing, indexed, dropped, lost>>
  BY DEF Log!vars
<1>2. BatchInv' /\ CountInv' /\ Log!InsertedInOrder'
  BY <1>1, NothingInserted
<1>3. LogTypeInv' /\ OrderInv' /\ EndInv' /\ Log!AcceptedIsKept' /\ Log!ClosedIsSent'
  BY <1>1 DEF LogIInv, LogTypeInv, Log!TypeOK, OrderInv, EndInv, Log!AcceptedIsKept, Log!ClosedIsSent, Waiting, Done, Log!Accepted
<1> QED BY <1>2, <1>3 DEF LogIInv

LEMMA LogInit == Log!SizesAssumption /\ Log!Init => LogIInv
<1> SUFFICES ASSUME Log!SizesAssumption, Log!Init PROVE LogIInv
  OBVIOUS
<1>1. /\ emitted = 0 /\ refused = {} /\ queue = <<>> /\ thread = "get" /\ logged = <<>>
      /\ blob = <<>> /\ attempts = 0 /\ closing = "no" /\ indexed = <<>> /\ dropped = {} /\ lost = 0
  BY DEF Log!Init
<1>2. <<>> \in Seq(Nat) /\ Len(<<>>) = 0 /\ DOMAIN <<>> = {} /\ Log!Range(<<>>) = {}
  <2>1. <<>> \in Seq(Nat) /\ Len(<<>>) = 0
    BY EmptySeq
  <2>2. DOMAIN <<>> = 1 .. 0
    BY <2>1, LenProperties
  <2> QED BY <2>1, <2>2, RangeEmpty
<1>3. LogTypeInv
  BY <1>1, <1>2 DEF LogTypeInv, Log!TypeOK, Log!SizesAssumption
<1>4. OrderInv /\ EndInv
  BY <1>1, <1>2 DEF OrderInv, EndInv, Increasing, Waiting, Done
<1>5. BatchInv /\ Log!InsertedInOrder
  BY <1>1, <1>2 DEF BatchInv, Done, Log!InsertedInOrder
<1>6. CountInv
  <2>1. \A e : Places(e) = {}
    BY <1>1, <1>2 DEF Places
  <2>2. \A e : Log!Cardinality(Places(e)) = 0
    BY <2>1, FS_EmptySet, LogCardinality
  <2> QED BY <1>1, <2>2 DEF CountInv
<1>7. Log!AcceptedIsKept /\ Log!ClosedIsSent
  BY <1>1, <1>2 DEF Log!AcceptedIsKept, Log!ClosedIsSent, Log!Accepted
<1> QED BY <1>3, <1>4, <1>5, <1>6, <1>7 DEF LogIInv

LEMMA LogStep == Log!SizesAssumption /\ LogIInv /\ [Log!Next]_(Log!vars) => LogIInv'
BY EmitKeeps, CloseKeeps, JoinKeeps, GetKeeps, GetTimeoutKeeps, InsertSucceedsKeeps,
   InsertFailsKeeps, AnswerLostKeeps, ThreadFailsKeeps, LogStutterKeeps DEF Log!Next, Log!SendingLoop

---------------------------------------------------------------------------
(* The counters of batches: the inductive invariant *)

At(c) == tx[c].at
HasJob == {"read", "changed", "batches"}
Lacking(c, b, j) ==
  At(c) \in {"changed", "batches"} /\ j = tx[c].job /\ (At(c) = "batches" => b \in tx[c].left)

\* The statuses that the counters of b for the transaction of c are about.
Counted(c, b) == [j \in BatchJobs |-> IF Lacking(c, b, j) THEN tx[c].before ELSE Batch!StatusFor(c, j)]

\* The row of j is there for the transaction of c.
KnownTo(c, j) == writer[j] = c \/ status[j] # "absent"

\* Rows of batches change in this order, and only the batches API adds jobs to them.
BatchRows ==
  \A b \in Batches :
    /\ members[b] \subseteq draft.members[b]
    /\ writer[b] # Api => draft.members[b] = members[b]
    /\ writer[b] = NoOne => draft.count[b] = count[b]
    /\ b \notin created => members[b] = {} /\ count[b] = Batch!Zero /\ writer[b] \in {NoOne, Api}
JobRows ==
  \A j \in BatchJobs :
    /\ writer[j] # NoOne => draft.status[j] # "absent"
    /\ status[j] = "absent" => writer[j] \in {NoOne, Api}
MembersAreKnown ==
  \A b \in Batches : (\A j \in members[b] : status[j] # "absent")
                     /\ (\A j \in draft.members[b] : KnownTo(Api, j))

\* What a transaction has read and locked at its step.
Proceeds(c) ==
  /\ At(c) = "idle" => \A r \in BatchJobs \union Batches : writer[r] # c
  /\ At(c) \in HasJob => KnownTo(c, tx[c].job)
  /\ At(c) \in HasJob \union {"rerun"} => \A j \in tx[c].todo : KnownTo(c, j)
  /\ At(c) \in {"changed", "batches"} => writer[tx[c].job] = c /\ draft.status[tx[c].job] = tx[c].new
  /\ At(c) = "batches" => \A b \in tx[c].left : tx[c].job \in Batch!MembersFor(c, b)
  /\ (At(c) = "count" /\ c # Api) => tx[c].batch \in created
  /\ (At(c) \in {"count", "choose"} /\ c = Api) =>
       members[tx[c].batch] \subseteq tx[c].jobs /\ \A j \in tx[c].jobs : KnownTo(c, j)

BatchStructure == Batch!TypeOK /\ BatchRows /\ JobRows /\ MembersAreKnown
     /\ \A c \in Batch!Clients : Proceeds(c)

\* The total of a batch is right, committed or not.
TotalsKept ==
  /\ Batch!TotalKept
  /\ \A b \in Batches : Batch!Total(draft.count[b]) = Batch!Cardinality(draft.members[b])

\* The counters that are committed.
CommittedRight == \A b \in Batches \ raced : count[b] = Batch!Exact(status, members[b])

\* What the transaction of c is going to commit for b, and what it has read before.
RightFor(c, b) ==
  /\ writer[b] = c => draft.count[b] = Batch!Exact(Counted(c, b), draft.members[b])
  /\ writer[b] # c => \A j \in members[b] : Counted(c, b)[j] = status[j]
  /\ (At(c) = "read" /\ tx[c].job \in Batch!MembersFor(c, b)) =>
       tx[c].before = Batch!StatusFor(c, tx[c].job)
DraftsRight == \A c \in Batch!Clients : \A b \in Batches \ raced : RightFor(c, b)

BatchIInv == BatchStructure /\ TotalsKept /\ CommittedRight /\ DraftsRight

---------------------------------------------------------------------------
(* Counting *)

LEMMA JobsAreFinite == \A M \in SUBSET BatchJobs : Batch!IsFiniteSet(M) /\ Batch!Cardinality(M) \in Nat
<1>1. Batch!IsFiniteSet(BatchJobs)
  BY PartsAssumption DEF Batch!ConstantsAssumption
<1> QED BY BatchCardinality, <1>1, FS_Subset, FS_CardinalityType

LEMMA ExactAgrees ==
  ASSUME NEW M, NEW f, NEW g, \A j \in M : f[j] = g[j]
  PROVE  Batch!Exact(f, M) = Batch!Exact(g, M)
<1>1. \A s : {j \in M : f[j] = s} = {j \in M : g[j] = s}
  OBVIOUS
<1> QED BY <1>1 DEF Batch!Exact

LEMMA ExactEmpty == \A f : Batch!Exact(f, {}) = Batch!Zero
<1>1. \A f, s : {j \in {} : f[j] = s} = {}
  OBVIOUS
<1>2. Batch!Cardinality({}) = 0
  BY BatchCardinality, FS_EmptySet
<1> QED BY <1>1, <1>2 DEF Batch!Exact, Batch!Zero

Those(f, M, s) == {j \in M : f[j] = s}

LEMMA ExactTyped ==
  ASSUME NEW M \in SUBSET BatchJobs, NEW f
  PROVE  Batch!Exact(f, M) \in Batch!Counts
              /\ \A s \in Batch!Status : Batch!Exact(f, M)[s] = Batch!Cardinality(Those(f, M, s))
<1>1. \A s : Batch!Cardinality({j \in M : f[j] = s}) \in Nat
  <2> SUFFICES ASSUME NEW s PROVE Batch!Cardinality({j \in M : f[j] = s}) \in Nat
    OBVIOUS
  <2>1. {j \in M : f[j] = s} \in SUBSET BatchJobs
    OBVIOUS
  <2> QED BY <2>1, JobsAreFinite
<1>2. Batch!Exact(f, M) = [s \in Batch!Status |-> Batch!Cardinality(Those(f, M, s))]
  BY DEF Batch!Exact, Those
<1>3. \A s : Batch!Cardinality(Those(f, M, s)) \in Nat
  BY <1>1 DEF Those
<1> QED BY <1>2, <1>3 DEF Batch!Counts

\* The counters of jobs whose rows are there add up to their number.
LEMMA ExactTotal ==
  ASSUME NEW M \in SUBSET BatchJobs, NEW f, \A j \in M : f[j] \in Batch!Status
  PROVE  Batch!Total(Batch!Exact(f, M)) = Batch!Cardinality(M)
<1>1. \A s : Those(f, M, s) \in SUBSET BatchJobs
  BY DEF Those
<1>2. \A s : Batch!IsFiniteSet(Those(f, M, s)) /\ Batch!Cardinality(Those(f, M, s)) \in Nat
  BY <1>1, JobsAreFinite
<1>3. Batch!Total(Batch!Exact(f, M)) = Batch!Cardinality(Those(f, M, "pending"))
           + Batch!Cardinality(Those(f, M, "running"))
                             + Batch!Cardinality(Those(f, M, "passed"))
                                  + Batch!Cardinality(Those(f, M, "failed"))
  BY ExactTyped DEF Batch!Total, Batch!Status
<1> DEFINE A == Those(f, M, "pending") \union Those(f, M, "running")
           B == Those(f, M, "passed") \union Those(f, M, "failed")
<1>4. /\ Those(f, M, "pending") \intersect Those(f, M, "running") = {}
      /\ Those(f, M, "passed") \intersect Those(f, M, "failed") = {}
      /\ A \intersect B = {} /\ M = A \union B
  BY DEF Batch!Status, Those
<1>5. \A S, T : (Batch!IsFiniteSet(S) /\ Batch!IsFiniteSet(T) /\ S \intersect T = {}) =>
                  /\ Batch!IsFiniteSet(S \union T)
                  /\ Batch!Cardinality(S \union T) = Batch!Cardinality(S) + Batch!Cardinality(T)
  <2> SUFFICES ASSUME NEW S, NEW T, Batch!IsFiniteSet(S), Batch!IsFiniteSet(T), S \intersect T = {}
               PROVE  /\ Batch!IsFiniteSet(S \union T)
                      /\ Batch!Cardinality(S \union T) = Batch!Cardinality(S) + Batch!Cardinality(T)
    OBVIOUS
  <2>1. /\ Batch!IsFiniteSet(S \union T)
        /\ Batch!Cardinality(S \union T) = Batch!Cardinality(S)
             + Batch!Cardinality(T) - Batch!Cardinality(S \intersect T)
    BY BatchCardinality, FS_Union
  <2>2. Batch!Cardinality(S \intersect T) = 0
    BY BatchCardinality, FS_EmptySet
  <2>3. Batch!Cardinality(S) \in Nat /\ Batch!Cardinality(T) \in Nat
    BY BatchCardinality, FS_CardinalityType
  <2> QED BY <2>1, <2>2, <2>3
<1>6. /\ Batch!IsFiniteSet(A)
           /\ Batch!Cardinality(A) = Batch!Cardinality(Those(f, M, "pending"))
                + Batch!Cardinality(Those(f, M, "running"))
      /\ Batch!IsFiniteSet(B)
           /\ Batch!Cardinality(B) = Batch!Cardinality(Those(f, M, "passed"))
                + Batch!Cardinality(Those(f, M, "failed"))
  BY <1>2, <1>4, <1>5
<1>7. Batch!Cardinality(M) = Batch!Cardinality(A) + Batch!Cardinality(B)
  BY <1>4, <1>5, <1>6
<1> HIDE DEF A, B
<1> QED BY <1>2, <1>3, <1>6, <1>7

\* The status of one job is another one.
LEMMA ExactChanged ==
  ASSUME NEW M \in SUBSET BatchJobs, NEW f, NEW g, NEW i \in M, NEW before \in Batch!Status,
              NEW new \in Batch!Status,
         f[i] = before, g[i] = new, \A j \in M \ {i} : f[j] = g[j]
  PROVE  Batch!Exact(g, M) = Batch!Add(Batch!Exact(f, M), before, new)
<1> DEFINE Rest(s) == Those(f, M \ {i}, s)
<1>1. \A s : Rest(s) \in SUBSET BatchJobs /\ i \notin Rest(s)
  BY DEF Those
<1>2. \A s : /\ Batch!IsFiniteSet(Rest(s)) /\ Batch!Cardinality(Rest(s)) \in Nat
             /\ Batch!Cardinality(Rest(s) \union {i}) = Batch!Cardinality(Rest(s)) + 1
  BY BatchCardinality, <1>1, JobsAreFinite, FS_AddElement
<1>3. \A s : /\ Those(f, M, s) = IF s = before THEN Rest(s) \union {i} ELSE Rest(s)
             /\ Those(g, M, s) = IF s = new THEN Rest(s) \union {i} ELSE Rest(s)
  BY DEF Those
<1>4. \A s \in Batch!Status : Batch!Exact(f, M)[s] = Batch!Cardinality(Those(f, M, s))
           /\ Batch!Exact(g, M)[s] = Batch!Cardinality(Those(g, M, s))
  BY ExactTyped
<1>5. ASSUME NEW s \in Batch!Status
      PROVE  Batch!Exact(g, M)[s] = Batch!Exact(f, M)[s] + (IF s = new THEN 1 ELSE 0) - (IF s
                  = before THEN 1 ELSE 0)
  <2> DEFINE n == Batch!Cardinality(Rest(s))
  <2>1. n \in Nat /\ Batch!Cardinality(Rest(s) \union {i}) = n + 1
    BY <1>2
  <2>2. Batch!Exact(f, M)[s] = IF s = before THEN n + 1 ELSE n
    BY <1>3, <1>4, <2>1
  <2>3. Batch!Exact(g, M)[s] = IF s = new THEN n + 1 ELSE n
    BY <1>3, <1>4, <2>1
  <2> HIDE DEF n
  <2> QED BY <2>1, <2>2, <2>3
<1>6. Batch!Exact(g, M) = [s \in Batch!Status |-> Batch!Exact(g, M)[s]]
  BY DEF Batch!Exact
<1> QED BY <1>5, <1>6 DEF Batch!Add

LEMMA AddKeepsTotal ==
  ASSUME NEW counts \in Batch!Counts, NEW before \in Batch!Status, NEW new \in Batch!Status
  PROVE  Batch!Add(counts, before, new) \in Batch!Counts
              /\ Batch!Total(Batch!Add(counts, before, new)) = Batch!Total(counts)
<1>1. \A s \in Batch!Status : counts[s] \in Int
  BY DEF Batch!Counts
<1>2. Batch!Add(counts, before, new) \in Batch!Counts
  BY <1>1 DEF Batch!Add, Batch!Counts
<1>3. \A s \in Batch!Status : Batch!Add(counts, before, new)[s]
                          = counts[s] + (IF s = new THEN 1 ELSE 0) - (IF s = before THEN 1 ELSE 0)
  BY DEF Batch!Add
<1>4. {"pending", "running", "passed", "failed"} = Batch!Status
  BY DEF Batch!Status
<1>5. \A s \in Batch!Status : Batch!Add(counts, before, new)[s] \in Int
  BY <1>2 DEF Batch!Counts
<1> HIDE DEF Batch!Add
<1> DEFINE a == Batch!Add(counts, before, new)
<1>6. /\ counts["pending"] \in Int /\ counts["running"] \in Int
      /\ counts["passed"] \in Int /\ counts["failed"] \in Int
  BY <1>1, <1>4
<1>7. /\ a["pending"] = counts["pending"] + (IF "pending" = new THEN 1 ELSE 0) - (IF "pending"
           = before THEN 1 ELSE 0)
      /\ a["running"] = counts["running"] + (IF "running" = new THEN 1 ELSE 0) - (IF "running"
           = before THEN 1 ELSE 0)
      /\ a["passed"] = counts["passed"] + (IF "passed" = new THEN 1 ELSE 0) - (IF "passed"
           = before THEN 1 ELSE 0)
      /\ a["failed"] = counts["failed"] + (IF "failed" = new THEN 1 ELSE 0) - (IF "failed"
           = before THEN 1 ELSE 0)
  BY <1>3, <1>4
<1> HIDE DEF a
<1>8. Batch!Total(a) = Batch!Total(counts)
  BY <1>4, <1>6, <1>7 DEF Batch!Total
<1> QED BY <1>2, <1>8 DEF a


---------------------------------------------------------------------------
(* Transactions *)

\* What a transaction remembers at its steps.
LEMMA TransactionFields ==
  ASSUME NEW t \in Batch!Transactions
  PROVE  /\ t.at \in {"idle", "read", "changed", "batches", "count", "choose", "rerun", "ended"}
         /\ t.at = "idle" <=> t = Batch!Idle
         /\ t.at \in HasJob => t.job \in BatchJobs /\ t.new \in Batch!Status
              /\ t.before \in Batch!Status
         /\ t.at = "read" => "job" \in DOMAIN t
         /\ t.at \in HasJob \union {"rerun"} => t.todo \in SUBSET BatchJobs
         /\ t.at = "batches" => t.left \in SUBSET Batches
         /\ t.at \in {"count", "choose"} => t.batch \in Batches /\ t.jobs \in SUBSET BatchJobs
         /\ t.at \in {"read", "changed"} => [t EXCEPT !.at = "changed"] \in Batch!Transactions
         /\ t.at = "batches" => \A b : [t EXCEPT !.left = @ \ {b}] \in Batch!Transactions
         /\ t.at \in {"count", "choose"} => [t EXCEPT !.at = "choose"] \in Batch!Transactions
<1>1. CASE t = Batch!Idle
  BY <1>1 DEF Batch!Idle, HasJob
<1>2. CASE t \in [at : {"read", "changed"}, job : BatchJobs, new : Batch!Status, before : Batch!Status, todo : SUBSET BatchJobs]
  <2>1. [t EXCEPT !.at = "changed"] \in
          [at : {"read", "changed"}, job : BatchJobs, new : Batch!Status, before : Batch!Status, todo : SUBSET BatchJobs]
    BY <1>2
  <2> QED BY <1>2, <2>1 DEF Batch!Idle, HasJob, Batch!Transactions
<1>3. CASE t \in [at : {"batches"}, job : BatchJobs, new : Batch!Status, before : Batch!Status, todo : SUBSET BatchJobs,
                  left : SUBSET Batches]
  <2>1. \A b : [t EXCEPT !.left = @ \ {b}] \in
          [at : {"batches"}, job : BatchJobs, new : Batch!Status, before : Batch!Status, todo : SUBSET BatchJobs,
           left : SUBSET Batches]
    BY <1>3
  <2> QED BY <1>3, <2>1 DEF Batch!Idle, HasJob, Batch!Transactions
<1>4. CASE t \in [at : {"count", "choose"}, batch : Batches, jobs : SUBSET BatchJobs]
  <2>1. [t EXCEPT !.at
             = "choose"] \in [at : {"count", "choose"}, batch : Batches, jobs : SUBSET BatchJobs]
    BY <1>4
  <2> QED BY <1>4, <2>1 DEF Batch!Idle, HasJob, Batch!Transactions
<1>5. CASE t \in [at : {"rerun"}, todo : SUBSET BatchJobs]
  BY <1>5 DEF Batch!Idle, HasJob
<1>6. CASE t \in [at : {"ended"}, job : BatchJobs] \/ t \in [at : {"ended"}, batch : Batches]
  BY <1>6 DEF Batch!Idle, HasJob
<1> QED BY <1>1, <1>2, <1>3, <1>4, <1>5, <1>6 DEF Batch!Transactions

LEMMA BatchTypes ==
  ASSUME Batch!TypeOK
  PROVE  /\ \A c \in Batch!Clients : tx[c] \in Batch!Transactions /\ c # NoOne
         /\ tx = [c \in Batch!Clients |-> tx[c]]
         /\ \A j \in BatchJobs : status[j] \in Batch!Status \union {"absent"}
                                 /\ draft.status[j] \in Batch!Status \union {"absent"}
         /\ \A b \in Batches : /\ members[b] \in SUBSET BatchJobs
              /\ draft.members[b] \in SUBSET BatchJobs
                               /\ count[b] \in Batch!Counts /\ draft.count[b] \in Batch!Counts
         /\ \A r \in BatchJobs \union Batches : writer[r] \in Batch!Clients \union {NoOne}
         /\ \A c \in Batch!Clients :
              \A j \in BatchJobs : Batch!StatusFor(c, j) \in Batch!Status \union {"absent"}
         /\ \A c \in Batch!Clients : \A b \in Batches : Batch!MembersFor(c, b) \in SUBSET BatchJobs
         /\ Api \in Batch!Clients /\ BatchJobs \intersect Batches = {} /\ "absent" \notin Batch!Status
<1>1. Api \in Batch!Clients /\ BatchJobs \intersect Batches = {} /\ "absent" \notin Batch!Status
  BY PartsAssumption DEF Batch!ConstantsAssumption, Batch!Clients, Batch!Status
<1>2. tx \in [Batch!Clients -> Batch!Transactions] /\ (\A c \in Batch!Clients : c # NoOne)
  BY PartsAssumption DEF Batch!TypeOK, Batch!ConstantsAssumption, Batch!Clients
<1>3. /\ \A j \in BatchJobs : status[j] \in Batch!Status \union {"absent"}
                              /\ draft.status[j] \in Batch!Status \union {"absent"}
      /\ \A b \in Batches : /\ members[b] \in SUBSET BatchJobs /\ draft.members[b] \in SUBSET BatchJobs
                            /\ count[b] \in Batch!Counts /\ draft.count[b] \in Batch!Counts
      /\ \A r \in BatchJobs \union Batches : writer[r] \in Batch!Clients \union {NoOne}
  BY DEF Batch!TypeOK, Batch!Drafts
<1> QED BY <1>1, <1>2, <1>3 DEF Batch!StatusFor, Batch!MembersFor

\* A step of c locks or unlocks rows that nobody else has locked, and changes only drafts of its own.
Isolated(c) ==
  /\ UNCHANGED <<Batch!rows, raced>>
  /\ \A d \in Batch!Clients \ {c} : tx'[d] = tx[d]
  /\ \A r \in BatchJobs \union Batches : \/ writer'[r] = writer[r]
                                         \/ writer'[r] \in {c, NoOne} /\ writer[r] \in {c, NoOne}
  /\ \A j \in BatchJobs : writer[j] \notin {c, NoOne} => draft'.status[j] = draft.status[j]
  /\ \A b \in Batches : writer[b] \notin {c, NoOne} =>
       draft'.members[b] = draft.members[b] /\ draft'.count[b] = draft.count[b]

LEMMA OthersSee ==
  ASSUME Batch!TypeOK, NEW c \in Batch!Clients, Isolated(c), NEW d \in Batch!Clients \ {c}
  PROVE  /\ At(d)' = At(d) /\ tx'[d] = tx[d]
         /\ \A r \in BatchJobs \union Batches : writer'[r] = d <=> writer[r] = d
         /\ \A j \in BatchJobs : Batch!StatusFor(d, j)' = Batch!StatusFor(d, j)
              /\ (KnownTo(d, j)' <=> KnownTo(d, j))
         /\ \A b \in Batches : Batch!MembersFor(d, b)' = Batch!MembersFor(d, b)
         /\ \A b \in Batches : writer[b] = d =>
              draft'.members[b] = draft.members[b] /\ draft'.count[b] = draft.count[b]
         /\ \A b \in Batches : Counted(d, b)' = Counted(d, b)
<1>1. d # NoOne /\ d # c /\ c # NoOne
  BY BatchTypes
<1>2. At(d)' = At(d) /\ tx'[d] = tx[d]
  BY DEF Isolated, At
<1>3. \A r \in BatchJobs \union Batches : writer'[r] = d <=> writer[r] = d
  BY <1>1 DEF Isolated
<1>4. status' = status /\ members' = members
  BY DEF Isolated, Batch!rows
<1>5. \A j \in BatchJobs : Batch!StatusFor(d, j)' = Batch!StatusFor(d, j)
           /\ (KnownTo(d, j)' <=> KnownTo(d, j))
  <2>1. \A j \in BatchJobs : writer[j] = d => draft'.status[j] = draft.status[j]
    BY <1>1 DEF Isolated
  <2> QED BY <1>3, <1>4, <2>1 DEF Batch!StatusFor, KnownTo
<1>6. \A b \in Batches : writer[b] = d =>
        draft'.members[b] = draft.members[b] /\ draft'.count[b] = draft.count[b]
  BY <1>1 DEF Isolated
<1>7. \A b \in Batches : Batch!MembersFor(d, b)' = Batch!MembersFor(d, b)
  BY <1>3, <1>4, <1>6 DEF Batch!MembersFor
<1>8. \A b \in Batches : Counted(d, b)' = Counted(d, b)
  BY <1>2, <1>5 DEF Counted, Lacking, At
<1> QED BY <1>2, <1>3, <1>5, <1>6, <1>7, <1>8

LEMMA OthersKeep ==
  ASSUME BatchStructure, DraftsRight, NEW c \in Batch!Clients, Isolated(c),
              NEW d \in Batch!Clients \ {c}
  PROVE  Proceeds(d)' /\ \A b \in Batches \ raced : RightFor(d, b)'
<1> USE DEF BatchStructure
<1>1. /\ At(d)' = At(d) /\ tx'[d] = tx[d] /\ d # NoOne
      /\ \A r \in BatchJobs \union Batches : writer'[r] = d <=> writer[r] = d
      /\ \A j \in BatchJobs : Batch!StatusFor(d, j)' = Batch!StatusFor(d, j)
           /\ (KnownTo(d, j)' <=> KnownTo(d, j))
      /\ \A b \in Batches : Batch!MembersFor(d, b)' = Batch!MembersFor(d, b)
      /\ \A b \in Batches : writer[b] = d =>
           draft'.members[b] = draft.members[b] /\ draft'.count[b] = draft.count[b]
      /\ \A b \in Batches : Counted(d, b)' = Counted(d, b)
  BY OthersSee, BatchTypes
<1>2. /\ status' = status /\ members' = members /\ created' = created
  BY DEF Isolated, Batch!rows
<1>3. tx[d] \in Batch!Transactions
  BY BatchTypes
<1>4. /\ At(d) \in HasJob => tx[d].job \in BatchJobs
      /\ At(d) \in HasJob \union {"rerun"} => tx[d].todo \in SUBSET BatchJobs
      /\ At(d) = "batches" => tx[d].left \in SUBSET Batches
      /\ At(d) \in {"count", "choose"} => tx[d].batch \in Batches /\ tx[d].jobs \in SUBSET BatchJobs
  BY <1>3, TransactionFields DEF At
<1>5. Proceeds(d)
  OBVIOUS
<1>6. Proceeds(d)'
  <2>1. (At(d) = "idle" => \A r \in BatchJobs \union Batches : writer[r] # d)'
    BY <1>1, <1>5 DEF Proceeds
  <2>2. /\ (At(d) \in HasJob => KnownTo(d, tx[d].job))'
        /\ (At(d) \in HasJob \union {"rerun"} => \A j \in tx[d].todo : KnownTo(d, j))'
    BY <1>1, <1>4, <1>5 DEF Proceeds, HasJob
  <2>5. (At(d) \in {"changed", "batches"} => writer[tx[d].job] = d
             /\ draft.status[tx[d].job] = tx[d].new)'
    <3>1. \A j \in BatchJobs : writer[j] = d => draft'.status[j] = draft.status[j]
      BY <1>1, BatchTypes DEF Isolated
    <3> QED BY <1>1, <1>4, <1>5, <3>1 DEF Proceeds, HasJob
  <2>3. (At(d) = "batches" => \A b \in tx[d].left : tx[d].job \in Batch!MembersFor(d, b))'
    BY <1>1, <1>4, <1>5 DEF Proceeds, HasJob
  <2>4. /\ ((At(d) = "count" /\ d # Api) => tx[d].batch \in created)'
        /\ ((At(d) \in {"count", "choose"} /\ d = Api) =>
              members[tx[d].batch] \subseteq tx[d].jobs /\ \A j \in tx[d].jobs : KnownTo(d, j))'
    BY <1>1, <1>2, <1>4, <1>5 DEF Proceeds
  <2> QED BY <2>1, <2>2, <2>3, <2>4, <2>5 DEF Proceeds
<1>7. ASSUME NEW b \in Batches \ raced PROVE RightFor(d, b)'
  <2>1. RightFor(d, b)
    BY DEF DraftsRight
  <2>2. (writer[b] = d => draft.count[b] = Batch!Exact(Counted(d, b), draft.members[b]))'
    <3>1. writer'[b] = d => draft'.count[b] = Batch!Exact(Counted(d, b)', draft'.members[b])
      BY <1>1, <2>1 DEF RightFor
    <3> QED BY <3>1
  <2>3. (writer[b] # d => \A j \in members[b] : Counted(d, b)[j] = status[j])'
    BY <1>1, <1>2, <2>1 DEF RightFor
  <2>4. ((At(d) = "read" /\ tx[d].job \in Batch!MembersFor(d, b)) =>
           tx[d].before = Batch!StatusFor(d, tx[d].job))'
    BY <1>1, <1>4, <2>1 DEF RightFor, HasJob
  <2> QED BY <2>2, <2>3, <2>4 DEF RightFor
<1> QED BY <1>6, <1>7


---------------------------------------------------------------------------
(* Steps within a transaction *)

LEMMA TransactionStepKeeps ==
  ASSUME BatchIInv, NEW c \in Batch!Clients, Isolated(c),
         Batch!TypeOK', BatchRows', JobRows', MembersAreKnown', Proceeds(c)',
         \A b \in Batches : (Batch!Total(draft.count[b]) = Batch!Cardinality(draft.members[b]))',
         \A b \in Batches \ raced : RightFor(c, b)'
  PROVE  BatchIInv'
<1>1. BatchStructure /\ DraftsRight /\ TotalsKept /\ CommittedRight
  BY DEF BatchIInv
<1>2. \A d \in Batch!Clients : Proceeds(d)' /\ \A b \in Batches \ raced : RightFor(d, b)'
  BY <1>1, OthersKeep
<1>3. status' = status /\ members' = members /\ count' = count /\ raced' = raced
  BY DEF Isolated, Batch!rows
<1>4. BatchStructure'
  BY <1>2 DEF BatchStructure
<1>5. TotalsKept'
  BY <1>1, <1>3 DEF TotalsKept, Batch!TotalKept
<1>6. CommittedRight'
  <2>1. \A b \in Batches \ raced : count[b] = Batch!Exact(status, members[b])
    BY <1>1 DEF CommittedRight
  <2>2. \A b \in Batches \ raced' : count'[b] = Batch!Exact(status', members'[b])
    BY <1>3, <2>1
  <2> QED BY <2>2 DEF CommittedRight
<1>7. DraftsRight'
  BY <1>2, <1>3 DEF DraftsRight
<1> QED BY <1>4, <1>5, <1>6, <1>7 DEF BatchIInv

\* A step that reads only.
LEMMA ReadingStep ==
  ASSUME BatchIInv, NEW c \in Batch!Clients, NEW t \in Batch!Transactions,
         UNCHANGED <<Batch!rows, writer, draft, raced>>, tx' = [tx EXCEPT ![c] = t],
         calls' \in 0 .. MaxCalls, faults' \in 0 .. MaxFaults,
         Proceeds(c)', \A b \in Batches \ raced : RightFor(c, b)'
  PROVE  BatchIInv'
<1>1. /\ status' = status /\ members' = members /\ created' = created /\ count' = count
      /\ writer' = writer /\ draft' = draft /\ raced' = raced
  BY DEF Batch!rows
<1>2. BatchStructure /\ TotalsKept
  BY DEF BatchIInv
<1>3. tx \in [Batch!Clients -> Batch!Transactions]
  BY <1>2 DEF BatchStructure, Batch!TypeOK
<1>4. tx'[c] = t /\ (\A d \in Batch!Clients \ {c} : tx'[d] = tx[d])
           /\ tx' \in [Batch!Clients -> Batch!Transactions]
  BY <1>3
<1>5. Isolated(c)
  BY <1>1, <1>4 DEF Isolated, Batch!rows
<1>6. Batch!TypeOK'
  BY <1>1, <1>2, <1>4 DEF BatchStructure, Batch!TypeOK
<1>7. BatchRows' /\ JobRows'
  BY <1>1, <1>2 DEF BatchStructure, BatchRows, JobRows
<1>8. MembersAreKnown'
  BY <1>1, <1>2 DEF BatchStructure, MembersAreKnown, KnownTo
<1>9. \A b \in Batches : (Batch!Total(draft.count[b]) = Batch!Cardinality(draft.members[b]))'
  BY <1>1, <1>2 DEF TotalsKept
<1> QED BY <1>5, <1>6, <1>7, <1>8, <1>9, TransactionStepKeeps

\* If the counters of b for the transaction of c are about the same statuses after
\* such a step, they are still right.
LEMMA ReadingKeepsRight ==
  ASSUME DraftsRight, NEW c \in Batch!Clients, NEW b \in Batches \ raced, Batch!TypeOK,
         UNCHANGED <<Batch!rows, writer, draft, raced>>,
         \A j \in Batch!MembersFor(c, b) : Counted(c, b)'[j] = Counted(c, b)[j],
         At(c)' = "read" => tx'[c].before = Batch!StatusFor(c, tx'[c].job)
  PROVE  RightFor(c, b)'
<1>1. /\ status' = status /\ members' = members /\ writer' = writer /\ draft' = draft
  BY DEF Batch!rows
<1>2. RightFor(c, b)
  BY DEF DraftsRight
<1>3. ASSUME writer[b] = c PROVE draft'.count[b] = Batch!Exact(Counted(c, b)', draft'.members[b])
  <2>1. Batch!Exact(Counted(c, b)', draft.members[b]) = Batch!Exact(Counted(c, b), draft.members[b])
    BY <1>3, ExactAgrees DEF Batch!MembersFor
  <2> QED BY <1>1, <1>2, <1>3, <2>1 DEF RightFor
<1>4. (writer[b] # c => \A j \in members[b] : Counted(c, b)[j] = status[j])'
  BY <1>1, <1>2 DEF RightFor, Batch!MembersFor
<1>5. ((At(c) = "read"
           /\ tx[c].job \in Batch!MembersFor(c, b)) => tx[c].before = Batch!StatusFor(c, tx[c].job))'
  BY <1>1 DEF Batch!StatusFor
<1> QED BY <1>1, <1>3, <1>4, <1>5 DEF RightFor

\* While no job of c lacks its addition, the counters are about what c reads.
LEMMA NothingLacks ==
  ASSUME NEW c \in Batch!Clients, NEW b \in Batches,
         At(c) \notin {"changed", "batches"} \/ (At(c) = "batches" /\ tx[c].left = {})
  PROVE  \A j \in BatchJobs : Counted(c, b)[j] = Batch!StatusFor(c, j)
BY DEF Counted, Lacking


LEMMA CallUpdateStatusKeeps ==
  ASSUME BatchIInv, NEW c \in Updaters, NEW j \in BatchJobs,
              NEW new \in Batch!Status, Batch!CallUpdateStatus(c, j, new)
  PROVE  BatchIInv'
<1> DEFINE t == [at |-> "read", job |-> j, new |-> new, before |-> Batch!StatusFor(c, j), todo |-> {}]
<1>1. /\ ~Batch!Open(c) /\ status[j] # "absent" /\ tx' = [tx EXCEPT ![c] = t]
      /\ UNCHANGED <<Batch!rows, writer, draft, raced>> /\ calls' \in 0 .. MaxCalls
           /\ faults' \in 0 .. MaxFaults
  <2>1. calls \in 0 .. MaxCalls /\ MaxCalls \in Nat /\ faults \in 0 .. MaxFaults
    BY PartsAssumption DEF Batch!ConstantsAssumption, BatchIInv, BatchStructure, Batch!TypeOK
  <2> QED BY <2>1 DEF Batch!CallUpdateStatus, Batch!ReadBefore, Batch!Goto
<1>2. Batch!TypeOK /\ DraftsRight /\ BatchStructure /\ JobRows /\ c \in Batch!Clients /\ Proceeds(c)
           /\ tx[c] = Batch!Idle
  BY <1>1 DEF BatchIInv, BatchStructure, Batch!Clients, Batch!Open
<1>3. \A r \in BatchJobs \union Batches : writer[r] # c
  BY <1>2 DEF Proceeds, At, Batch!Idle
<1>4. Batch!StatusFor(c, j) = status[j] /\ status[j] \in Batch!Status
  BY <1>1, <1>2, <1>3, BatchTypes DEF Batch!StatusFor
<1>5. t \in Batch!Transactions
  <2>1. t \in [at : {"read", "changed"}, job : BatchJobs, new : Batch!Status, before : Batch!Status, todo : SUBSET BatchJobs]
    BY <1>4
  <2> QED BY <2>1 DEF Batch!Transactions
<1>6. tx'[c] = t /\ At(c)' = "read"
  BY <1>1, <1>2, BatchTypes DEF At
<1>7. /\ status' = status /\ writer' = writer /\ draft' = draft
  BY <1>1 DEF Batch!rows
<1>8. Proceeds(c)'
  BY <1>1, <1>6, <1>7 DEF Proceeds, KnownTo, HasJob
<1>9. \A b \in Batches \ raced : RightFor(c, b)'
  <2> TAKE b \in Batches \ raced
  <2>1. \A i \in BatchJobs : Counted(c, b)[i] = Batch!StatusFor(c, i)
    BY <1>2, NothingLacks DEF At, Batch!Idle
  <2>2. \A i \in BatchJobs : Counted(c, b)'[i] = Batch!StatusFor(c, i)
    BY <1>6, <1>7 DEF Counted, Lacking, Batch!StatusFor
  <2>3. Batch!MembersFor(c, b) \in SUBSET BatchJobs
    BY <1>2, BatchTypes
  <2> QED BY <1>1, <1>2, <1>6, <2>1, <2>2, <2>3, ReadingKeepsRight
<1> HIDE DEF t
<1> QED BY <1>1, <1>2, <1>5, <1>8, <1>9, ReadingStep

LEMMA FindBatchesKeeps ==
  ASSUME BatchIInv, NEW c \in Batch!Clients, Batch!FindBatches(c)
  PROVE  BatchIInv'
<1> DEFINE u == tx[c]
           left == {b \in Batches : u.job \in Batch!MembersFor(c, b)}
           t == [at |-> "batches", job |-> u.job, new |-> u.new, before |-> u.before, todo |-> u.todo,
                 left |-> left]
<1>1. /\ At(c) = "changed" /\ tx' = [tx EXCEPT ![c] = t]
      /\ UNCHANGED <<Batch!rows, writer, draft, raced>> /\ calls' \in 0 .. MaxCalls
           /\ faults' \in 0 .. MaxFaults
  BY DEF Batch!FindBatches, Batch!Goto, At, BatchIInv, BatchStructure, Batch!TypeOK
<1>2. Batch!TypeOK /\ DraftsRight /\ Proceeds(c) /\ u \in Batch!Transactions
  BY BatchTypes DEF BatchIInv, BatchStructure
<1>3. u.job \in BatchJobs /\ u.new \in Batch!Status /\ u.before \in Batch!Status
           /\ u.todo \in SUBSET BatchJobs
  BY <1>1, <1>2, TransactionFields DEF At, HasJob
<1>4. t \in Batch!Transactions
  <2>1. t \in [at : {"batches"}, job : BatchJobs, new : Batch!Status, before : Batch!Status, todo : SUBSET BatchJobs,
               left : SUBSET Batches]
    BY <1>3
  <2> QED BY <2>1 DEF Batch!Transactions
<1>5. tx'[c] = t /\ At(c)' = "batches"
  BY <1>1, <1>2, BatchTypes DEF At
<1>6. /\ status' = status /\ members' = members /\ writer' = writer /\ draft' = draft
  BY <1>1 DEF Batch!rows
<1>7. Proceeds(c)'
  BY <1>1, <1>2, <1>5, <1>6 DEF Proceeds, KnownTo, HasJob, Batch!MembersFor
<1>8. \A b \in Batches \ raced : RightFor(c, b)'
  <2> TAKE b \in Batches \ raced
  <2>1. Batch!MembersFor(c, b) \in SUBSET BatchJobs
    BY <1>2, BatchTypes
  <2>2. \A i \in Batch!MembersFor(c, b) : Lacking(c, b, i)' <=> Lacking(c, b, i)
    BY <1>1, <1>5 DEF Lacking, At
  <2>3. \A i \in BatchJobs : Batch!StatusFor(c, i)' = Batch!StatusFor(c, i)
             /\ tx'[c].before = tx[c].before
    BY <1>5, <1>6 DEF Batch!StatusFor
  <2>4. \A i \in Batch!MembersFor(c, b) : Counted(c, b)'[i] = Counted(c, b)[i]
    BY <2>1, <2>2, <2>3 DEF Counted
  <2> QED BY <1>1, <1>2, <1>5, <2>4, ReadingKeepsRight
<1> HIDE DEF t
<1> QED BY <1>1, <1>4, <1>7, <1>8, ReadingStep

\* The reading steps of a transaction that has added all that it has to.
LEMMA IdleReading ==
  ASSUME BatchIInv, NEW c \in Batch!Clients, NEW t \in Batch!Transactions,
         UNCHANGED <<Batch!rows, writer, draft, raced>>, tx' = [tx EXCEPT ![c] = t],
         calls' \in 0 .. MaxCalls, faults' \in 0 .. MaxFaults,
         At(c) \notin {"changed", "batches"} \/ (At(c) = "batches" /\ tx[c].left = {}),
         t.at \notin {"changed", "batches"}, t.at = "read" => t.before = Batch!StatusFor(c, t.job),
         Proceeds(c)'
  PROVE  BatchIInv'
<1>1. Batch!TypeOK /\ DraftsRight
  BY DEF BatchIInv, BatchStructure
<1>2. tx'[c] = t /\ writer' = writer /\ draft' = draft /\ status' = status /\ At(c)' = t.at
  BY <1>1, BatchTypes DEF Batch!rows, At
<1>3. \A b \in Batches \ raced : RightFor(c, b)'
  <2> TAKE b \in Batches \ raced
  <2>1. \A i \in BatchJobs : Counted(c, b)[i] = Batch!StatusFor(c, i)
    BY NothingLacks
  <2>2. \A i \in BatchJobs : Counted(c, b)'[i] = Batch!StatusFor(c, i)
    BY <1>2 DEF Counted, Lacking, Batch!StatusFor, At
  <2>3. Batch!MembersFor(c, b) \in SUBSET BatchJobs
    BY <1>1, BatchTypes
  <2>4. At(c)' = "read" => tx'[c].before = Batch!StatusFor(c, tx'[c].job)
    BY <1>2
  <2> QED BY <1>1, <2>1, <2>2, <2>3, <2>4, ReadingKeepsRight
<1> QED BY <1>3, ReadingStep


LEMMA EndUpdateStatusKeeps ==
  ASSUME BatchIInv, NEW c \in Batch!Clients, Batch!EndUpdateStatus(c)
  PROVE  BatchIInv'
<1> DEFINE t == IF c
     = Api THEN [at |-> "rerun", todo |-> tx[c].todo] ELSE [at |-> "ended", job |-> tx[c].job]
<1>1. /\ At(c) = "batches" /\ tx[c].left = {} /\ tx' = [tx EXCEPT ![c] = t]
      /\ UNCHANGED <<Batch!rows, writer, draft, raced>> /\ calls' \in 0 .. MaxCalls
           /\ faults' \in 0 .. MaxFaults
  BY DEF Batch!EndUpdateStatus, Batch!Goto, At, BatchIInv, BatchStructure, Batch!TypeOK
<1>2. Batch!TypeOK /\ Proceeds(c) /\ tx[c] \in Batch!Transactions
  BY BatchTypes DEF BatchIInv, BatchStructure
<1>3. tx[c].job \in BatchJobs /\ tx[c].todo \in SUBSET BatchJobs
  BY <1>1, <1>2, TransactionFields DEF At, HasJob
<1>4. t \in Batch!Transactions /\ t.at \in {"rerun", "ended"} /\ (t.at = "rerun" => t.todo = tx[c].todo)
  BY <1>3 DEF Batch!Transactions
<1>5. tx'[c] = t /\ At(c)' = t.at
  BY <1>1, <1>2, BatchTypes DEF At
<1>6. /\ status' = status /\ writer' = writer
  BY <1>1 DEF Batch!rows
<1> HIDE DEF t
<1>7. Proceeds(c)'
  BY <1>1, <1>2, <1>4, <1>5, <1>6 DEF Proceeds, KnownTo, HasJob
<1> QED BY <1>1, <1>4, <1>7, IdleReading

LEMMA CallRecalculateKeeps ==
  ASSUME BatchIInv, NEW c \in Updaters, NEW b \in Batches, Batch!CallRecalculate(c, b)
  PROVE  BatchIInv'
<1> DEFINE t == [at |-> "count", batch |-> b, jobs |-> members[b]]
<1>1. /\ ~Batch!Open(c) /\ b \in created /\ tx' = [tx EXCEPT ![c] = t]
      /\ UNCHANGED <<Batch!rows, writer, draft, raced>> /\ calls' \in 0 .. MaxCalls
           /\ faults' \in 0 .. MaxFaults
  <2>1. calls \in 0 .. MaxCalls /\ MaxCalls \in Nat /\ faults \in 0 .. MaxFaults
    BY PartsAssumption DEF Batch!ConstantsAssumption, BatchIInv, BatchStructure, Batch!TypeOK
  <2> QED BY <2>1 DEF Batch!CallRecalculate, Batch!Goto
<1>2. Batch!TypeOK /\ c \in Batch!Clients /\ c # Api /\ At(c) = "idle"
  BY <1>1, PartsAssumption DEF BatchIInv, BatchStructure, Batch!Clients, Batch!Open,
     Batch!ConstantsAssumption, At, Batch!Idle
<1>3. t \in Batch!Transactions
  <2>1. t \in [at : {"count", "choose"}, batch : Batches, jobs : SUBSET BatchJobs]
    BY <1>2, BatchTypes
  <2> QED BY <2>1 DEF Batch!Transactions
<1>4. tx'[c] = t /\ At(c)' = "count" /\ created' = created
  BY <1>1, <1>2, BatchTypes DEF At, Batch!rows
<1>5. Proceeds(c)'
  BY <1>1, <1>2, <1>4 DEF Proceeds, HasJob
<1> QED BY <1>1, <1>2, <1>3, <1>5, IdleReading

LEMMA ChooseJobsKeeps ==
  ASSUME BatchIInv, Batch!ChooseJobs
  PROVE  BatchIInv'
<1> DEFINE failed == {j \in tx[Api].jobs : Batch!StatusFor(Api, j) = "failed"}
           todo == IF Batch!CountFor(Api, tx[Api].batch)["failed"] > MaxReruns THEN {} ELSE failed
           t == [at |-> "rerun", todo |-> todo]
<1>1. /\ At(Api) = "choose" /\ tx' = [tx EXCEPT ![Api] = t]
      /\ UNCHANGED <<Batch!rows, writer, draft, raced>> /\ calls' \in 0 .. MaxCalls
           /\ faults' \in 0 .. MaxFaults
  BY DEF Batch!ChooseJobs, Batch!Goto, At, BatchIInv, BatchStructure, Batch!TypeOK
<1>2. Batch!TypeOK /\ Api \in Batch!Clients /\ Proceeds(Api) /\ tx[Api] \in Batch!Transactions
  BY BatchTypes DEF BatchIInv, BatchStructure
<1>3. tx[Api].jobs \in SUBSET BatchJobs
  BY <1>1, <1>2, TransactionFields DEF At
<1>4. todo \in SUBSET tx[Api].jobs
  OBVIOUS
<1> HIDE DEF todo
<1>5. t \in Batch!Transactions
  BY <1>3, <1>4 DEF Batch!Transactions
<1>6. tx'[Api] = t /\ At(Api)' = "rerun" /\ status' = status /\ writer' = writer
  BY <1>1, <1>2, BatchTypes DEF At, Batch!rows
<1>7. Proceeds(Api)'
  BY <1>1, <1>2, <1>4, <1>6 DEF Proceeds, HasJob, KnownTo
<1> QED BY <1>1, <1>2, <1>5, <1>7, IdleReading

LEMMA RescheduleKeeps ==
  ASSUME BatchIInv, NEW j \in BatchJobs, Batch!Reschedule(j)
  PROVE  BatchIInv'
<1> DEFINE t == [at |-> "read", job |-> j, new |-> "pending", before |-> Batch!StatusFor(Api, j),
                 todo |-> tx[Api].todo \ {j}]
<1>1. /\ At(Api) = "rerun" /\ j \in tx[Api].todo /\ tx' = [tx EXCEPT ![Api] = t]
      /\ UNCHANGED <<Batch!rows, writer, draft, raced>> /\ calls' \in 0 .. MaxCalls
           /\ faults' \in 0 .. MaxFaults
  BY DEF Batch!Reschedule, Batch!ReadBefore, Batch!Goto, At, BatchIInv, BatchStructure, Batch!TypeOK
<1>2. Batch!TypeOK /\ JobRows /\ Api \in Batch!Clients /\ Proceeds(Api)
           /\ tx[Api] \in Batch!Transactions
  BY BatchTypes DEF BatchIInv, BatchStructure
<1>3. tx[Api].todo \in SUBSET BatchJobs
  BY <1>1, <1>2, TransactionFields DEF At
<1>4. KnownTo(Api, j)
  BY <1>1, <1>2 DEF Proceeds
<1>5. Batch!StatusFor(Api, j) \in Batch!Status
  BY <1>2, <1>4, BatchTypes DEF KnownTo, Batch!StatusFor, JobRows
<1>6. t \in Batch!Transactions
  <2>1. t \in [at : {"read", "changed"}, job : BatchJobs, new : Batch!Status, before : Batch!Status, todo : SUBSET BatchJobs]
    BY <1>3, <1>5 DEF Batch!Status
  <2> QED BY <2>1 DEF Batch!Transactions
<1>7. tx'[Api] = t /\ At(Api)' = "read" /\ status' = status /\ writer' = writer
  BY <1>1, <1>2, BatchTypes DEF At, Batch!rows
<1>8. Proceeds(Api)'
  BY <1>1, <1>2, <1>4, <1>7 DEF Proceeds, HasJob, KnownTo
<1> QED BY <1>1, <1>2, <1>6, <1>8, IdleReading


LEMMA ChangeJobKeeps ==
  ASSUME BatchIInv, NEW c \in Batch!Clients, Batch!ChangeJob(c)
  PROVE  BatchIInv'
<1> DEFINE u == tx[c]
           i == tx[c].job
           t == [u EXCEPT !.at = "changed"]
<1>1. /\ At(c) = "read" /\ Batch!Free(c, i) /\ tx' = [tx EXCEPT ![c] = t]
      /\ writer' = [writer EXCEPT ![i] = c] /\ draft' = [draft EXCEPT !.status[i] = u.new]
      /\ UNCHANGED <<Batch!rows, raced, calls, faults>>
  BY DEF Batch!ChangeJob, Batch!Goto, At
<1>2. Batch!TypeOK /\ DraftsRight /\ BatchStructure /\ TotalsKept /\ BatchRows /\ JobRows
           /\ MembersAreKnown
      /\ Proceeds(c) /\ u \in Batch!Transactions
  BY BatchTypes DEF BatchIInv, BatchStructure
<1>3. i \in BatchJobs /\ u.new \in Batch!Status /\ u.before \in Batch!Status
           /\ u.todo \in SUBSET BatchJobs /\ i \notin Batches
  BY <1>1, <1>2, TransactionFields, BatchTypes DEF At, HasJob
<1>4. t \in Batch!Transactions /\ t.at = "changed" /\ t.job = i /\ t.new = u.new /\ t.before = u.before
      /\ t.todo = u.todo
  <2>1. u.at = "read"
    BY <1>1 DEF At
  <2>2. u \in [at : {"read", "changed"}, job : BatchJobs, new : Batch!Status, before : Batch!Status, todo : SUBSET BatchJobs]
    BY <1>2, <2>1 DEF Batch!Transactions, Batch!Idle
  <2> QED BY <1>2, <2>1, <2>2, TransactionFields
<1>5. tx'[c] = t /\ At(c)' = "changed" /\ (\A d \in Batch!Clients \ {c} : tx'[d] = tx[d])
      /\ tx' \in [Batch!Clients -> Batch!Transactions]
  BY <1>1, <1>2, <1>4 DEF At, Batch!TypeOK
<1>6. /\ status' = status /\ members' = members /\ created' = created /\ count' = count
           /\ raced' = raced
  BY <1>1 DEF Batch!rows
<1>7. /\ writer'[i] = c /\ (\A r \in (BatchJobs \union Batches) \ {i} : writer'[r] = writer[r])
      /\ writer[i] \in {c, NoOne}
      /\ writer' \in [BatchJobs \union Batches -> Batch!Clients \union {NoOne}]
  BY <1>1, <1>2, <1>3 DEF Batch!TypeOK, Batch!Free
<1>8. /\ draft'.status[i] = u.new /\ (\A j \in BatchJobs \ {i} : draft'.status[j] = draft.status[j])
      /\ draft'.members = draft.members /\ draft'.count = draft.count
      /\ draft' \in Batch!Drafts
  <2>1. draft \in Batch!Drafts
    BY <1>2 DEF Batch!TypeOK
  <2> QED BY <1>1, <1>3, <2>1 DEF Batch!Drafts
<1> HIDE DEF t, u, i
<1>9. Isolated(c)
  BY <1>3, <1>5, <1>6, <1>7, <1>8 DEF Isolated, Batch!rows
<1>10. Batch!TypeOK'
  BY <1>1, <1>2, <1>5, <1>6, <1>7, <1>8 DEF Batch!TypeOK
<1>11. \A b \in Batches : writer'[b] = writer[b]
  BY <1>3, <1>7
<1>12. BatchRows'
  BY <1>2, <1>6, <1>8, <1>11 DEF BatchRows
<1>13. KnownTo(c, i)
  BY <1>1, <1>2 DEF Proceeds, HasJob, i
<1>14. JobRows'
  <2> SUFFICES ASSUME NEW j \in BatchJobs
               PROVE  /\ writer'[j] # NoOne => draft'.status[j] # "absent"
                      /\ status[j] = "absent" => writer'[j] \in {NoOne, Api}
    BY <1>6 DEF JobRows
  <2>1. CASE j = i
    BY <1>2, <1>3, <1>7, <1>8, <1>13, <2>1, BatchTypes DEF JobRows, KnownTo
  <2>2. CASE j # i
    BY <1>2, <1>7, <1>8, <2>2 DEF JobRows
  <2> QED BY <2>1, <2>2
<1>15. \A j \in BatchJobs : KnownTo(Api, j) => KnownTo(Api, j)'
  <2> SUFFICES ASSUME NEW j \in BatchJobs, KnownTo(Api, j)
        PROVE writer'[j] = Api \/ status[j] # "absent"
    BY <1>6 DEF KnownTo
  <2>1. CASE j = i
    BY <1>2, <1>3, <1>7, <1>13, <2>1, BatchTypes DEF JobRows, KnownTo
  <2> QED BY <1>7, <2>1 DEF KnownTo
<1>16. MembersAreKnown'
  <2>1. \A b \in Batches : draft.members[b] \in SUBSET BatchJobs
    BY <1>2, BatchTypes
  <2> QED BY <1>2, <1>6, <1>8, <1>15, <2>1 DEF MembersAreKnown
<1>17. Proceeds(c)'
  <2>1. \A j \in BatchJobs : KnownTo(c, j) => KnownTo(c, j)'
    BY <1>6, <1>7 DEF KnownTo
  <2>2. \A j \in u.todo : KnownTo(c, j)
    BY <1>1, <1>2 DEF Proceeds, HasJob, u
  <2> QED BY <1>3, <1>4, <1>5, <1>7, <1>8, <1>13, <2>1, <2>2 DEF Proceeds, HasJob
<1>18. \A b \in Batches : (Batch!Total(draft.count[b]) = Batch!Cardinality(draft.members[b]))'
  BY <1>2, <1>8 DEF TotalsKept
<1>19. \A b \in Batches \ raced : RightFor(c, b)'
  <2> TAKE b \in Batches \ raced
  <2>1. RightFor(c, b)
    BY <1>2 DEF DraftsRight
  <2>2. \A j \in BatchJobs : Counted(c, b)[j] = Batch!StatusFor(c, j)
    BY <1>1, NothingLacks
  <2>3. \A j \in BatchJobs : Counted(c, b)'[j] = IF j = i THEN u.before ELSE Batch!StatusFor(c, j)
    <3>1. \A j \in BatchJobs \ {i} : Batch!StatusFor(c, j)' = Batch!StatusFor(c, j)
      BY <1>6, <1>7, <1>8 DEF Batch!StatusFor
    <3>2. \A j \in BatchJobs : Lacking(c, b, j)' <=> j = i
      BY <1>4, <1>5 DEF Lacking
    <3> QED BY <1>4, <1>5, <3>1, <3>2 DEF Counted
  <2>4. i \in Batch!MembersFor(c, b) => u.before = Batch!StatusFor(c, i)
    BY <1>1, <2>1 DEF RightFor, i, u
  <2>5. Batch!MembersFor(c, b) \in SUBSET BatchJobs
    BY <1>2, BatchTypes
  <2>6. \A j \in Batch!MembersFor(c, b) : Counted(c, b)'[j] = Counted(c, b)[j]
    BY <2>2, <2>3, <2>4, <2>5
  <2>7. ASSUME writer[b] = c PROVE draft'.count[b] = Batch!Exact(Counted(c, b)', draft'.members[b])
    <3>1. Batch!Exact(Counted(c, b)', draft.members[b]) = Batch!Exact(Counted(c, b), draft.members[b])
      BY <2>6, <2>7, ExactAgrees DEF Batch!MembersFor
    <3> QED BY <1>8, <2>1, <2>7, <3>1 DEF RightFor
  <2>8. (writer[b] # c => \A j \in members[b] : Counted(c, b)[j] = status[j])'
    BY <1>6, <1>11, <2>1, <2>6 DEF RightFor, Batch!MembersFor
  <2>9. (writer[b] = c => draft.count[b] = Batch!Exact(Counted(c, b), draft.members[b]))'
    BY <1>11, <2>7
  <2> QED BY <1>5, <2>8, <2>9 DEF RightFor
<1> QED BY <1>9, <1>10, <1>12, <1>14, <1>16, <1>17, <1>18, <1>19, TransactionStepKeeps


LEMMA ChangeBatchKeeps ==
  ASSUME BatchIInv, NEW c \in Batch!Clients, NEW b \in Batches, Batch!ChangeBatch(c, b)
  PROVE  BatchIInv'
<1> DEFINE u == tx[c]
           i == tx[c].job
           t == [u EXCEPT !.left = @ \ {b}]
           new == Batch!Add(Batch!CountFor(c, b), u.before, u.new)
<1>1. /\ At(c) = "batches" /\ b \in u.left /\ Batch!Free(c, b) /\ tx' = [tx EXCEPT ![c] = t]
      /\ writer' = [writer EXCEPT ![b] = c] /\ draft' = [draft EXCEPT !.count[b] = new]
      /\ UNCHANGED <<Batch!rows, raced, calls, faults>>
  BY DEF Batch!ChangeBatch, Batch!Goto, At
<1>2. Batch!TypeOK /\ DraftsRight /\ BatchStructure /\ TotalsKept /\ Batch!TotalKept /\ BatchRows
           /\ JobRows /\ MembersAreKnown
      /\ Proceeds(c) /\ u \in Batch!Transactions
  BY BatchTypes DEF BatchIInv, BatchStructure, TotalsKept
<1>3. i \in BatchJobs /\ u.new \in Batch!Status /\ u.before \in Batch!Status
           /\ u.todo \in SUBSET BatchJobs
      /\ u.left \in SUBSET Batches /\ b \notin BatchJobs
  BY <1>1, <1>2, TransactionFields, BatchTypes DEF At, HasJob
<1>4. t \in Batch!Transactions /\ t.at = "batches" /\ t.job = i /\ t.new = u.new /\ t.before = u.before
      /\ t.todo = u.todo /\ t.left = u.left \ {b}
  <2>1. u.at = "batches"
    BY <1>1 DEF At
  <2>2. u \in [at : {"batches"}, job : BatchJobs, new : Batch!Status, before : Batch!Status, todo : SUBSET BatchJobs,
               left : SUBSET Batches]
    BY <1>2, <2>1 DEF Batch!Transactions, Batch!Idle
  <2> QED BY <1>2, <2>1, <2>2, TransactionFields
<1>5. tx'[c] = t /\ At(c)' = "batches" /\ (\A d \in Batch!Clients \ {c} : tx'[d] = tx[d])
      /\ tx' \in [Batch!Clients -> Batch!Transactions]
  BY <1>1, <1>2, <1>4 DEF At, Batch!TypeOK
<1>6. /\ status' = status /\ members' = members /\ created' = created /\ count' = count
           /\ raced' = raced
  BY <1>1 DEF Batch!rows
<1>7. /\ writer'[b] = c /\ (\A r \in (BatchJobs \union Batches) \ {b} : writer'[r] = writer[r])
      /\ writer[b] \in {c, NoOne}
      /\ writer' \in [BatchJobs \union Batches -> Batch!Clients \union {NoOne}]
  BY <1>1, <1>2, <1>3 DEF Batch!TypeOK, Batch!Free
<1>8. writer[b] # c => draft.members[b] = members[b] /\ draft.count[b] = count[b]
  BY <1>2, <1>7, PartsAssumption DEF BatchRows, Batch!ConstantsAssumption, Batch!Clients
<1>9. Batch!CountFor(c, b) = draft.count[b] /\ Batch!MembersFor(c, b) = draft.members[b]
  BY <1>7, <1>8 DEF Batch!CountFor, Batch!MembersFor
<1>10. new \in Batch!Counts /\ Batch!Total(new) = Batch!Total(draft.count[b])
  BY <1>2, <1>3, <1>9, BatchTypes, AddKeepsTotal
<1> HIDE DEF t, u, i
<1>11. /\ draft'.count[b] = new /\ (\A a \in Batches \ {b} : draft'.count[a] = draft.count[a])
       /\ draft'.members = draft.members /\ draft'.status = draft.status
       /\ draft' \in Batch!Drafts
  <2>1. draft \in Batch!Drafts
    BY <1>2 DEF Batch!TypeOK
  <2> HIDE DEF new
  <2> QED BY <1>1, <1>10, <2>1 DEF Batch!Drafts
<1>12. Isolated(c)
  BY <1>3, <1>5, <1>6, <1>7, <1>11 DEF Isolated, Batch!rows
<1>13. Batch!TypeOK'
  BY <1>1, <1>2, <1>5, <1>6, <1>7, <1>11 DEF Batch!TypeOK
<1>14. i \in Batch!MembersFor(c, b)
  BY <1>1, <1>2 DEF Proceeds, u, i
<1>15. BatchRows'
  <2> SUFFICES ASSUME NEW a \in Batches
               PROVE  /\ members[a] \subseteq draft.members[a]
                      /\ writer'[a] # Api => draft.members[a] = members[a]
                      /\ writer'[a] = NoOne => draft'.count[a] = count[a]
                      /\ a \notin created => members[a] = {} /\ count[a] = Batch!Zero
                           /\ writer'[a] \in {NoOne, Api}
    BY <1>6, <1>11 DEF BatchRows
  <2>1. CASE a = b
    <3>1. c # NoOne
      BY <1>2, BatchTypes
    <3>2. writer'[a] # Api => draft.members[a] = members[a]
      BY <1>2, <1>7, <1>8, <2>1 DEF BatchRows
    <3>3. a \notin created => c = Api
      BY <1>2, <1>7, <1>8, <1>9, <1>14, <2>1 DEF BatchRows
    <3> QED BY <1>2, <1>7, <2>1, <3>1, <3>2, <3>3 DEF BatchRows
  <2>2. CASE a # b
    BY <1>2, <1>7, <1>11, <2>2 DEF BatchRows
  <2> QED BY <2>1, <2>2
<1>16. \A j \in BatchJobs : writer'[j] = writer[j]
  BY <1>3, <1>7
<1>17. JobRows'
  BY <1>2, <1>6, <1>11, <1>16 DEF JobRows
<1>18. \A d, j : j \in BatchJobs => (KnownTo(d, j)' <=> KnownTo(d, j))
  BY <1>6, <1>16 DEF KnownTo
<1>19. MembersAreKnown'
  <2>1. \A a \in Batches : draft.members[a] \in SUBSET BatchJobs
    BY <1>2, BatchTypes
  <2> QED BY <1>2, <1>6, <1>11, <1>18, <2>1 DEF MembersAreKnown
<1>20. \A a \in Batches : Batch!MembersFor(c, a)' = Batch!MembersFor(c, a)
  BY <1>6, <1>7, <1>9, <1>11 DEF Batch!MembersFor
<1>21. Proceeds(c)'
  <2>1. /\ KnownTo(c, i) /\ (\A j \in u.todo : KnownTo(c, j))
        /\ writer[i] = c /\ draft.status[i] = u.new /\ (\A a \in u.left : i \in Batch!MembersFor(c, a))
    BY <1>1, <1>2 DEF Proceeds, HasJob, u, i
  <2>2. At(c)' = "batches" /\ tx'[c].job = i /\ tx'[c].new = u.new /\ tx'[c].todo = u.todo
        /\ tx'[c].left = u.left \ {b}
    BY <1>4, <1>5
  <2>3. (At(c) = "batches" => \A a \in tx[c].left : tx[c].job \in Batch!MembersFor(c, a))'
    BY <1>3, <1>20, <2>1, <2>2
  <2> QED BY <1>3, <1>11, <1>16, <1>18, <2>1, <2>2, <2>3 DEF Proceeds, HasJob
<1>22. \A a \in Batches : (Batch!Total(draft.count[a]) = Batch!Cardinality(draft.members[a]))'
  <2> HIDE DEF new
  <2> QED BY <1>2, <1>10, <1>11 DEF TotalsKept
<1>23. \A j \in BatchJobs : Batch!StatusFor(c, j)' = Batch!StatusFor(c, j)
  BY <1>6, <1>11, <1>16 DEF Batch!StatusFor
<1>24. \A a \in Batches \ {b} : \A j \in BatchJobs : Counted(c, a)'[j] = Counted(c, a)[j]
  <2>1. \A a \in Batches \ {b} : \A j : Lacking(c, a, j)' <=> Lacking(c, a, j)
    BY <1>1, <1>4, <1>5 DEF Lacking, At, u, i
  <2>2. tx'[c].before = tx[c].before
    BY <1>4, <1>5 DEF u
  <2> QED BY <1>23, <2>1, <2>2 DEF Counted
<1>25. \A a \in Batches \ raced : RightFor(c, a)'
  <2> TAKE a \in Batches \ raced
  <2>1. RightFor(c, a)
    BY <1>2 DEF DraftsRight
  <2>2. Batch!MembersFor(c, a) \in SUBSET BatchJobs /\ draft.members[a] \in SUBSET BatchJobs
    BY <1>2, BatchTypes
  <2>3. CASE a # b
    <3>1. writer'[a] = writer[a] /\ draft'.count[a] = draft.count[a]
      BY <1>7, <1>11, <2>3
    <3>2. ASSUME writer[a] = c PROVE draft'.count[a] = Batch!Exact(Counted(c, a)', draft'.members[a])
      <4>1. Batch!Exact(Counted(c, a)', draft.members[a]) = Batch!Exact(Counted(c, a), draft.members[a])
        BY <1>24, <2>2, <2>3, ExactAgrees
      <4> QED BY <1>11, <2>1, <3>1, <3>2, <4>1 DEF RightFor
    <3>3. (writer[a] # c => \A j \in members[a] : Counted(c, a)[j] = status[j])'
      BY <1>6, <1>24, <2>1, <2>2, <2>3, <3>1 DEF RightFor, Batch!MembersFor
    <3>4. (writer[a] = c => draft.count[a] = Batch!Exact(Counted(c, a), draft.members[a]))'
      BY <3>1, <3>2
    <3> QED BY <1>5, <3>3, <3>4 DEF RightFor
  <2>4. CASE a = b
    <3> DEFINE M == draft.members[b]
    <3>1. draft.count[b] = Batch!Exact(Counted(c, b), M)
      <4>1. CASE writer[b] = c
        BY <2>1, <2>4, <4>1 DEF RightFor
      <4>2. CASE writer[b] # c
        <5>1. count[b] = Batch!Exact(status, members[b])
          BY <2>4 DEF BatchIInv, CommittedRight
        <5>2. \A j \in members[b] : Counted(c, b)[j] = status[j]
          BY <2>1, <2>4, <4>2 DEF RightFor
        <5>3. Batch!Exact(Counted(c, b), members[b]) = Batch!Exact(status, members[b])
          BY <5>2, ExactAgrees
        <5> QED BY <1>8, <4>2, <5>1, <5>3
      <4> QED BY <4>1, <4>2
    <3>2. i \in M /\ M \in SUBSET BatchJobs
      BY <1>9, <1>14, <2>2, <2>4
    <3>3. Counted(c, b)[i] = u.before
      BY <1>1, <1>3 DEF Counted, Lacking, u, i
    <3>4. Counted(c, b)'[i] = u.new
      <4>1. \A j : ~Lacking(c, b, j)'
        BY <1>4, <1>5 DEF Lacking
      <4>2. Batch!StatusFor(c, i) = u.new
        BY <1>1, <1>2 DEF Proceeds, Batch!StatusFor, u, i
      <4> QED BY <1>3, <1>23, <4>1, <4>2 DEF Counted
    <3>5. \A j \in M \ {i} : Counted(c, b)[j] = Counted(c, b)'[j]
      <4>1. \A j \in M \ {i} : ~Lacking(c, b, j) /\ ~Lacking(c, b, j)'
        BY <1>4, <1>5 DEF Lacking, i
      <4> QED BY <1>23, <3>2, <4>1 DEF Counted
    <3> HIDE DEF M
    <3>6. Batch!Exact(Counted(c, b)', M) = Batch!Add(Batch!Exact(Counted(c, b), M), u.before, u.new)
      BY <1>3, <3>2, <3>3, <3>4, <3>5, ExactChanged
    <3>7. draft'.count[b] = Batch!Exact(Counted(c, b)', draft'.members[b])
      BY <1>9, <1>11, <3>1, <3>6 DEF M
    <3> QED BY <1>5, <1>7, <2>4, <3>7 DEF RightFor
  <2> QED BY <2>3, <2>4
<1> QED BY <1>12, <1>13, <1>15, <1>17, <1>19, <1>21, <1>22, <1>25, TransactionStepKeeps


LEMMA CallStartBatchKeeps ==
  ASSUME BatchIInv, NEW b \in Batches, NEW jobs \in SUBSET BatchJobs, Batch!CallStartBatch(b, jobs)
  PROVE  BatchIInv'
<1> DEFINE new == {j \in jobs : status[j] = "absent"}
           Locks(r) == r \in new \/ (r = b /\ b \notin created)
           t == [at |-> "count", batch |-> b, jobs |-> members[b] \union jobs]
<1>1. /\ ~Batch!Open(Api) /\ tx' = [tx EXCEPT ![Api] = t]
      /\ writer' = [r \in BatchJobs \union Batches |-> IF Locks(r) THEN Api ELSE writer[r]]
      /\ draft' = [draft EXCEPT !.status = [j \in BatchJobs |-> IF j \in new THEN "pending" ELSE @[j]]]
      /\ UNCHANGED <<Batch!rows, raced, faults>> /\ calls' \in 0 .. MaxCalls
  <2>1. calls \in 0 .. MaxCalls /\ MaxCalls \in Nat
    BY PartsAssumption DEF Batch!ConstantsAssumption, BatchIInv, BatchStructure, Batch!TypeOK
  <2> QED BY <2>1 DEF Batch!CallStartBatch, Batch!Goto
<1>2. Batch!TypeOK /\ DraftsRight /\ BatchStructure /\ TotalsKept /\ BatchRows /\ JobRows
           /\ MembersAreKnown
      /\ Proceeds(Api) /\ Api \in Batch!Clients /\ At(Api) = "idle" /\ Api # NoOne
  BY <1>1, BatchTypes DEF BatchIInv, BatchStructure, Batch!Open, At, Batch!Idle
<1>3. members[b] \in SUBSET BatchJobs
  BY <1>2, BatchTypes
<1>4. t \in Batch!Transactions /\ t.at = "count" /\ t.batch = b /\ t.jobs = members[b] \union jobs
  <2>1. t \in [at : {"count", "choose"}, batch : Batches, jobs : SUBSET BatchJobs]
    BY <1>3
  <2> QED BY <2>1 DEF Batch!Transactions
<1>5. tx'[Api] = t /\ At(Api)' = "count" /\ (\A d \in Batch!Clients \ {Api} : tx'[d] = tx[d])
      /\ tx' \in [Batch!Clients -> Batch!Transactions]
  BY <1>1, <1>2, <1>4 DEF At, Batch!TypeOK
<1>6. /\ status' = status /\ members' = members /\ created' = created /\ count' = count
           /\ raced' = raced
  BY <1>1 DEF Batch!rows
<1>7. \A r \in BatchJobs \union Batches : writer[r] # Api
  BY <1>2 DEF Proceeds
<1>8. \A r \in BatchJobs \union Batches : Locks(r) => writer[r] = NoOne
  <2>1. \A j \in new : j \in BatchJobs /\ status[j] = "absent"
    OBVIOUS
  <2> HIDE DEF new
  <2> QED BY <1>2, <1>7, <2>1 DEF JobRows, BatchRows
<1>9. /\ \A r \in BatchJobs \union Batches : writer'[r] = IF Locks(r) THEN Api ELSE writer[r]
      /\ writer' \in [BatchJobs \union Batches -> Batch!Clients \union {NoOne}]
  <2>1. \A r \in BatchJobs \union Batches : writer[r] \in Batch!Clients \union {NoOne}
    BY <1>2, BatchTypes
  <2> HIDE DEF Locks
  <2> QED BY <1>1, <1>2, <2>1
<1>10. \A j \in BatchJobs : (Locks(j) <=> j \in new) /\ (j \in new <=> (j \in jobs
            /\ status[j] = "absent"))
  BY <1>2, BatchTypes
<1>11. \A a \in Batches : Locks(a) <=> (a = b /\ b \notin created)
  BY <1>2, BatchTypes
<1> HIDE DEF t, Locks
<1>12. /\ \A j \in BatchJobs : draft'.status[j] = IF j \in new THEN "pending" ELSE draft.status[j]
       /\ draft'.members = draft.members /\ draft'.count = draft.count
       /\ draft' \in Batch!Drafts
  <2> HIDE DEF new
  <2> DEFINE s == [j \in BatchJobs |-> IF j \in new THEN "pending" ELSE draft.status[j]]
  <2>1. draft \in Batch!Drafts
    BY <1>2 DEF Batch!TypeOK
  <2>2. draft' = [draft EXCEPT !.status = s]
    BY <1>1
  <2>3. s \in [BatchJobs -> Batch!Status \union {"absent"}]
    BY <1>2, BatchTypes DEF Batch!Status
  <2>4. \A j \in BatchJobs : s[j] = IF j \in new THEN "pending" ELSE draft.status[j]
    OBVIOUS
  <2> HIDE DEF s
  <2>5. draft' \in Batch!Drafts /\ draft'.status = s /\ draft'.members = draft.members
             /\ draft'.count = draft.count
    BY <2>1, <2>2, <2>3 DEF Batch!Drafts
  <2> QED BY <2>4, <2>5
<1> HIDE DEF new
<1>13. Isolated(Api)
  BY <1>5, <1>6, <1>8, <1>9, <1>10, <1>12 DEF Isolated, Batch!rows
<1>14. Batch!TypeOK'
  BY <1>1, <1>2, <1>5, <1>6, <1>9, <1>12 DEF Batch!TypeOK
<1>15. BatchRows'
  <2> SUFFICES ASSUME NEW a \in Batches
               PROVE  /\ members[a] \subseteq draft.members[a]
                      /\ writer'[a] # Api => draft.members[a] = members[a]
                      /\ writer'[a] = NoOne => draft.count[a] = count[a]
                      /\ a \notin created => members[a] = {} /\ count[a] = Batch!Zero
                           /\ writer'[a] \in {NoOne, Api}
    BY <1>6, <1>12 DEF BatchRows
  <2> QED BY <1>2, <1>8, <1>9 DEF BatchRows
<1>16. JobRows'
  <2> SUFFICES ASSUME NEW j \in BatchJobs
               PROVE  /\ writer'[j] # NoOne => draft'.status[j] # "absent"
                      /\ status[j] = "absent" => writer'[j] \in {NoOne, Api}
    BY <1>6 DEF JobRows
  <2> QED BY <1>2, <1>9, <1>10, <1>12 DEF JobRows
<1>17. \A j \in BatchJobs : (KnownTo(Api, j) \/ j \in jobs) => KnownTo(Api, j)'
  BY <1>6, <1>9, <1>10 DEF KnownTo
<1>18. MembersAreKnown'
  <2>1. \A a \in Batches : draft.members[a] \in SUBSET BatchJobs
    BY <1>2, BatchTypes
  <2> QED BY <1>2, <1>6, <1>12, <1>17, <2>1 DEF MembersAreKnown
<1>19. Proceeds(Api)'
  <2>1. \A j \in members[b] \union jobs : KnownTo(Api, j)'
    <3>1. \A j \in members[b] : KnownTo(Api, j)
      BY <1>2 DEF MembersAreKnown, KnownTo
    <3> QED BY <1>3, <1>17, <3>1
  <2> QED BY <1>4, <1>5, <1>6, <2>1 DEF Proceeds, HasJob
<1>20. \A a \in Batches : (Batch!Total(draft.count[a]) = Batch!Cardinality(draft.members[a]))'
  BY <1>2, <1>12 DEF TotalsKept
<1>21. \A a \in Batches \ raced : RightFor(Api, a)'
  <2> TAKE a \in Batches \ raced
  <2>1. RightFor(Api, a)
    BY <1>2 DEF DraftsRight
  <2>2. \A j \in BatchJobs : Counted(Api, a)[j] = Batch!StatusFor(Api, j)
    BY <1>2, NothingLacks
  <2>3. \A j \in BatchJobs : status[j] # "absent" => Counted(Api, a)'[j] = Counted(Api, a)[j]
    <3>1. \A j \in BatchJobs : ~Lacking(Api, a, j)'
      BY <1>5 DEF Lacking
    <3>2. \A j \in BatchJobs : status[j] # "absent"
               => Batch!StatusFor(Api, j)' = Batch!StatusFor(Api, j)
      BY <1>6, <1>9, <1>10, <1>12 DEF Batch!StatusFor
    <3> QED BY <2>2, <3>1, <3>2 DEF Counted
  <2>4. \A j \in members[a] : j \in BatchJobs /\ status[j] # "absent"
    BY <1>2, BatchTypes DEF MembersAreKnown
  <2>5. (writer[a] # Api => \A j \in members[a] : Counted(Api, a)[j] = status[j])'
    BY <1>6, <1>7, <2>1, <2>3, <2>4 DEF RightFor
  <2>6. ASSUME writer'[a] = Api PROVE draft'.count[a] = Batch!Exact(Counted(Api, a)', draft'.members[a])
    <3>1. writer[a] = NoOne /\ a \notin created
      BY <1>7, <1>8, <1>9, <1>11, <2>6
    <3>2. draft.members[a] = {} /\ draft.count[a] = Batch!Zero
      BY <1>2, <3>1 DEF BatchRows
    <3> QED BY <1>12, <3>2, ExactEmpty
  <2>7. (writer[a] = Api => draft.count[a] = Batch!Exact(Counted(Api, a), draft.members[a]))'
    BY <2>6
  <2> QED BY <1>5, <2>5, <2>7 DEF RightFor
<1> QED BY <1>2, <1>13, <1>14, <1>15, <1>16, <1>18, <1>19, <1>20, <1>21, TransactionStepKeeps

LEMMA CountJobsKeeps ==
  ASSUME BatchIInv, NEW c \in Batch!Clients, Batch!CountJobs(c)
  PROVE  BatchIInv'
<1> DEFINE u == tx[c]
           b == tx[c].batch
           M == IF c = Api THEN u.jobs ELSE members[b]
           f == [j \in BatchJobs |-> Batch!StatusFor(c, j)]
           t == IF c = Api THEN [u EXCEPT !.at = "choose"] ELSE [at |-> "ended", batch |-> b]
<1>1. /\ At(c) = "count" /\ Batch!Free(c, b) /\ tx' = [tx EXCEPT ![c] = t]
      /\ writer' = [writer EXCEPT ![b] = c]
      /\ draft' = [draft EXCEPT !.members[b] = M, !.count[b] = Batch!Exact(f, M)]
      /\ UNCHANGED <<Batch!rows, raced, calls, faults>>
  BY DEF Batch!CountJobs, Batch!Goto, At
<1>2. Batch!TypeOK /\ DraftsRight /\ BatchStructure /\ TotalsKept /\ BatchRows /\ JobRows
           /\ MembersAreKnown
      /\ Proceeds(c) /\ u \in Batch!Transactions /\ c # NoOne
  BY BatchTypes DEF BatchIInv, BatchStructure
<1>3. b \in Batches /\ u.jobs \in SUBSET BatchJobs /\ b \notin BatchJobs
  <2>1. u.at = "count"
    BY <1>1 DEF At
  <2>2. b \in Batches /\ u.jobs \in SUBSET BatchJobs
    BY <1>2, <2>1, TransactionFields
  <2> QED BY <1>2, <2>2, BatchTypes
<1>4. M \in SUBSET BatchJobs
  BY <1>2, <1>3, BatchTypes
<1>5. t \in Batch!Transactions /\ t.at \in {"choose", "ended"} /\ (t.at = "choose" => c = Api)
      /\ (c = Api => t.batch = b /\ t.jobs = u.jobs)
  <2>1. u.at = "count"
    BY <1>1 DEF At
  <2>2. u \in [at : {"count", "choose"}, batch : Batches, jobs : SUBSET BatchJobs]
    BY <1>2, <2>1 DEF Batch!Transactions, Batch!Idle
  <2>3. [at |-> "ended", batch |-> b] \in Batch!Transactions
    BY <1>3 DEF Batch!Transactions
  <2>4. [u EXCEPT !.at = "choose"] \in Batch!Transactions
    BY <1>2, <2>1, TransactionFields
  <2> QED BY <2>2, <2>3, <2>4
<1>6. tx'[c] = t /\ At(c)' = t.at /\ (\A d \in Batch!Clients \ {c} : tx'[d] = tx[d])
      /\ tx' \in [Batch!Clients -> Batch!Transactions]
  BY <1>1, <1>2, <1>5 DEF At, Batch!TypeOK
<1>7. /\ status' = status /\ members' = members /\ created' = created /\ count' = count
           /\ raced' = raced
  BY <1>1 DEF Batch!rows
<1>8. /\ writer'[b] = c /\ (\A r \in (BatchJobs \union Batches) \ {b} : writer'[r] = writer[r])
      /\ writer[b] \in {c, NoOne}
      /\ writer' \in [BatchJobs \union Batches -> Batch!Clients \union {NoOne}]
  BY <1>1, <1>2, <1>3 DEF Batch!TypeOK, Batch!Free
<1>9. Batch!Exact(f, M) \in Batch!Counts
  BY <1>4, ExactTyped
<1>10. /\ draft'.members[b] = M /\ draft'.count[b] = Batch!Exact(f, M)
       /\ (\A a \in Batches \ {b} : draft'.count[a] = draft.count[a]
            /\ draft'.members[a] = draft.members[a])
       /\ draft'.status = draft.status
       /\ draft' \in Batch!Drafts
  <2> DEFINE exact == Batch!Exact(f, M)
  <2>1. draft \in Batch!Drafts /\ exact \in Batch!Counts
    BY <1>2, <1>9 DEF Batch!TypeOK
  <2>2. draft' = [draft EXCEPT !.members[b] = M, !.count[b] = exact]
    BY <1>1
  <2> HIDE DEF M, exact
  <2>3. /\ draft'.members[b] = M /\ draft'.count[b] = exact
        /\ (\A a \in Batches \ {b} : draft'.count[a] = draft.count[a]
             /\ draft'.members[a] = draft.members[a])
        /\ draft'.status = draft.status /\ draft' \in Batch!Drafts
    BY <1>3, <1>4, <2>1, <2>2 DEF Batch!Drafts
  <2> QED BY <2>3 DEF exact
<1>11. \A j \in M : Batch!StatusFor(c, j) \in Batch!Status /\ KnownTo(Api, j)
  <2>1. \A j \in M : j \in BatchJobs /\ KnownTo(Api, j) /\ (c # Api => status[j] # "absent")
    <3>1. CASE c = Api
      <4>1. \A j \in u.jobs : KnownTo(Api, j)
        BY <1>1, <1>2, <3>1 DEF Proceeds
      <4> QED BY <1>3, <3>1, <4>1
    <3>2. CASE c # Api
      <4>1. \A j \in members[b] : status[j] # "absent"
        BY <1>2, <1>3 DEF MembersAreKnown
      <4> QED BY <1>4, <3>2, <4>1 DEF KnownTo
    <3> QED BY <3>1, <3>2
  <2> HIDE DEF M
  <2> QED BY <1>2, <2>1, BatchTypes DEF KnownTo, JobRows, Batch!StatusFor
<1>12. members[b] \subseteq M /\ (c # Api => M = members[b] /\ b \in created)
  BY <1>1, <1>2 DEF Proceeds
<1>13. \A j \in BatchJobs : f[j] = Batch!StatusFor(c, j)
  OBVIOUS
<1>14. Batch!Total(Batch!Exact(f, M)) = Batch!Cardinality(M)
  BY <1>4, <1>11, <1>13, ExactTotal
<1> HIDE DEF t, M, f
<1>15. Isolated(c)
  BY <1>3, <1>6, <1>7, <1>8, <1>10 DEF Isolated, Batch!rows
<1>16. Batch!TypeOK'
  BY <1>1, <1>2, <1>6, <1>7, <1>8, <1>10 DEF Batch!TypeOK
<1>17. BatchRows'
  <2> SUFFICES ASSUME NEW a \in Batches
               PROVE  /\ members[a] \subseteq draft'.members[a]
                      /\ writer'[a] # Api => draft'.members[a] = members[a]
                      /\ writer'[a] = NoOne => draft'.count[a] = count[a]
                      /\ a \notin created => members[a] = {} /\ count[a] = Batch!Zero
                           /\ writer'[a] \in {NoOne, Api}
    BY <1>7 DEF BatchRows
  <2>1. CASE a = b
    BY <1>2, <1>8, <1>10, <1>12, <2>1 DEF BatchRows
  <2>2. CASE a # b
    BY <1>2, <1>8, <1>10, <2>2 DEF BatchRows
  <2> QED BY <2>1, <2>2
<1>18. \A j \in BatchJobs : writer'[j] = writer[j]
  BY <1>3, <1>8
<1>19. JobRows'
  BY <1>2, <1>7, <1>10, <1>18 DEF JobRows
<1>20. \A d, j : j \in BatchJobs => (KnownTo(d, j)' <=> KnownTo(d, j))
  BY <1>7, <1>18 DEF KnownTo
<1>21. MembersAreKnown'
  <2>1. \A a \in Batches : \A j \in draft'.members[a] : j \in BatchJobs /\ KnownTo(Api, j)
    <3>1. \A a \in Batches : draft.members[a] \in SUBSET BatchJobs
      BY <1>2, BatchTypes
    <3> QED BY <1>2, <1>4, <1>10, <1>11, <3>1 DEF MembersAreKnown
  <2> QED BY <1>2, <1>7, <1>20, <2>1 DEF MembersAreKnown
<1>22. Proceeds(c)'
  <2>1. c = Api => members[b] \subseteq u.jobs /\ (\A j \in u.jobs : KnownTo(c, j))
    BY <1>1, <1>2 DEF Proceeds
  <2> QED BY <1>3, <1>5, <1>6, <1>7, <1>20, <2>1 DEF Proceeds, HasJob
<1>23. \A a \in Batches : (Batch!Total(draft.count[a]) = Batch!Cardinality(draft.members[a]))'
  BY <1>2, <1>10, <1>14 DEF TotalsKept
<1>24. \A j \in BatchJobs : Batch!StatusFor(c, j)' = Batch!StatusFor(c, j)
  BY <1>7, <1>10, <1>18 DEF Batch!StatusFor
<1>25. \A a \in Batches : \A j \in BatchJobs : Counted(c, a)'[j] = Counted(c, a)[j]
            /\ Counted(c, a)'[j] = f[j]
  <2>1. \A a \in Batches : \A j : ~Lacking(c, a, j)'
    BY <1>5, <1>6 DEF Lacking
  <2>2. \A a \in Batches : \A j \in BatchJobs : Counted(c, a)[j] = Batch!StatusFor(c, j)
    BY <1>1, NothingLacks
  <2> QED BY <1>13, <1>24, <2>1, <2>2 DEF Counted
<1>26. \A a \in Batches \ raced : RightFor(c, a)'
  <2> TAKE a \in Batches \ raced
  <2>1. RightFor(c, a)
    BY <1>2 DEF DraftsRight
  <2>2. members[a] \in SUBSET BatchJobs /\ draft.members[a] \in SUBSET BatchJobs
    BY <1>2, BatchTypes
  <2>3. ASSUME writer'[a] = c PROVE draft'.count[a] = Batch!Exact(Counted(c, a)', draft'.members[a])
    <3>1. CASE a = b
      <4>1. Batch!Exact(Counted(c, a)', M) = Batch!Exact(f, M)
        BY <1>4, <1>25, ExactAgrees
      <4> QED BY <1>10, <3>1, <4>1
    <3>2. CASE a # b
      <4>1. Batch!Exact(Counted(c, a)', draft.members[a]) = Batch!Exact(Counted(c, a), draft.members[a])
        BY <1>25, <2>2, ExactAgrees
      <4> QED BY <1>8, <1>10, <2>1, <2>3, <3>2, <4>1 DEF RightFor
    <3> QED BY <3>1, <3>2
  <2>4. (writer[a] # c => \A j \in members[a] : Counted(c, a)[j] = status[j])'
    BY <1>7, <1>8, <1>25, <2>1, <2>2 DEF RightFor
  <2>5. (writer[a] = c => draft.count[a] = Batch!Exact(Counted(c, a), draft.members[a]))'
    BY <2>3
  <2> QED BY <1>5, <1>6, <2>4, <2>5 DEF RightFor
<1> QED BY <1>15, <1>16, <1>17, <1>19, <1>21, <1>22, <1>23, <1>26, TransactionStepKeeps


---------------------------------------------------------------------------
(* The end of a transaction *)

LEMMA AbortKeeps ==
  ASSUME BatchIInv, NEW c \in Batch!Clients, Batch!Abort(c), faults' \in 0 .. MaxFaults
  PROVE  BatchIInv'
<1>1. /\ writer' = [r \in DOMAIN writer |-> IF writer[r] = c THEN NoOne ELSE writer[r]]
      /\ tx' = [tx EXCEPT ![c] = Batch!Idle]
      /\ draft' = [status  |-> [j \in BatchJobs |-> IF writer[j]
           = c THEN status[j] ELSE draft.status[j]],
                   members |-> [b \in Batches |-> IF writer[b]
                        = c THEN members[b] ELSE draft.members[b]],
                   count   |-> [b \in Batches |-> IF writer[b] = c THEN count[b] ELSE draft.count[b]]]
      /\ UNCHANGED <<Batch!rows, raced, calls>>
  BY DEF Batch!Abort, Batch!Unlock, Batch!Goto
<1>2. Batch!TypeOK /\ BatchStructure /\ TotalsKept /\ Batch!TotalKept /\ BatchRows /\ JobRows
           /\ MembersAreKnown
      /\ c # NoOne /\ Api # NoOne
  BY BatchTypes DEF BatchIInv, BatchStructure, TotalsKept
<1>3. Batch!Idle \in Batch!Transactions /\ Batch!Idle.at = "idle"
  BY DEF Batch!Transactions, Batch!Idle
<1>4. tx'[c] = Batch!Idle /\ At(c)' = "idle" /\ (\A d \in Batch!Clients \ {c} : tx'[d] = tx[d])
      /\ tx' \in [Batch!Clients -> Batch!Transactions]
  BY <1>1, <1>2, <1>3 DEF At, Batch!TypeOK
<1>5. /\ status' = status /\ members' = members /\ created' = created /\ count' = count
           /\ raced' = raced
  BY <1>1 DEF Batch!rows
<1>6. /\ DOMAIN writer = BatchJobs \union Batches
      /\ \A r \in BatchJobs \union Batches : writer[r] \in Batch!Clients \union {NoOne}
  BY <1>2 DEF Batch!TypeOK
<1>7. /\ \A r \in BatchJobs \union Batches : writer'[r] = IF writer[r] = c THEN NoOne ELSE writer[r]
      /\ writer' \in [BatchJobs \union Batches -> Batch!Clients \union {NoOne}]
  BY <1>1, <1>6
<1>8. \A r \in BatchJobs \union Batches : writer'[r] # c
  BY <1>2, <1>7
<1>9. /\ \A j \in BatchJobs : draft'.status[j] = IF writer[j] = c THEN status[j] ELSE draft.status[j]
      /\ \A b \in Batches : draft'.members[b] = IF writer[b] = c THEN members[b] ELSE draft.members[b]
      /\ \A b \in Batches : draft'.count[b] = IF writer[b] = c THEN count[b] ELSE draft.count[b]
      /\ draft' \in Batch!Drafts
  <2> DEFINE s == [j \in BatchJobs |-> IF writer[j] = c THEN status[j] ELSE draft.status[j]]
             m == [b \in Batches |-> IF writer[b] = c THEN members[b] ELSE draft.members[b]]
             n == [b \in Batches |-> IF writer[b] = c THEN count[b] ELSE draft.count[b]]
  <2>1. /\ s \in [BatchJobs -> Batch!Status \union {"absent"}]
        /\ m \in [Batches -> SUBSET BatchJobs]
        /\ n \in [Batches -> Batch!Counts]
    BY <1>2, BatchTypes
  <2>2. draft' = [status |-> s, members |-> m, count |-> n]
    BY <1>1
  <2>3. draft'.status = s /\ draft'.members = m /\ draft'.count = n
    BY <2>2
  <2>4. draft' \in Batch!Drafts
    <3> HIDE DEF s, m, n
    <3> QED BY <2>1, <2>2 DEF Batch!Drafts
  <2> QED BY <2>3, <2>4
<1>10. Isolated(c)
  BY <1>4, <1>5, <1>7, <1>9 DEF Isolated, Batch!rows
<1>11. Batch!TypeOK'
  BY <1>1, <1>2, <1>4, <1>5, <1>7, <1>9 DEF Batch!TypeOK
<1>12. BatchRows'
  <2> SUFFICES ASSUME NEW a \in Batches
               PROVE  /\ members[a] \subseteq draft'.members[a]
                      /\ writer'[a] # Api => draft'.members[a] = members[a]
                      /\ writer'[a] = NoOne => draft'.count[a] = count[a]
                      /\ a \notin created => members[a] = {} /\ count[a] = Batch!Zero
                           /\ writer'[a] \in {NoOne, Api}
    BY <1>5 DEF BatchRows
  <2> QED BY <1>2, <1>7, <1>9 DEF BatchRows
<1>13. JobRows'
  <2> SUFFICES ASSUME NEW j \in BatchJobs
               PROVE  /\ writer'[j] # NoOne => draft'.status[j] # "absent"
                      /\ status[j] = "absent" => writer'[j] \in {NoOne, Api}
    BY <1>5 DEF JobRows
  <2> QED BY <1>2, <1>7, <1>9 DEF JobRows
<1>14. MembersAreKnown'
  <2>1. \A a \in Batches : \A j \in draft'.members[a] : writer'[j] = Api \/ status[j] # "absent"
    <3> SUFFICES ASSUME NEW a \in Batches, NEW j \in draft'.members[a], status[j] = "absent"
                 PROVE  writer'[j] = Api
      OBVIOUS
    <3>1. j \notin members[a]
      BY <1>2 DEF MembersAreKnown
    <3>2. writer[a] # c /\ j \in draft.members[a]
      BY <1>9, <3>1
    <3>3. writer[a] = Api
      BY <1>2, <3>1, <3>2 DEF BatchRows
    <3>4. writer[j] = Api /\ j \in BatchJobs
      BY <1>2, <3>2, BatchTypes DEF MembersAreKnown, KnownTo
    <3> QED BY <1>7, <3>2, <3>3, <3>4
  <2> QED BY <1>2, <1>5, <2>1 DEF MembersAreKnown, KnownTo
<1>15. Proceeds(c)'
  BY <1>4, <1>8 DEF Proceeds, HasJob
<1>16. \A a \in Batches : (Batch!Total(draft.count[a]) = Batch!Cardinality(draft.members[a]))'
  BY <1>2, <1>9 DEF TotalsKept, Batch!TotalKept
<1>17. \A a \in Batches \ raced : RightFor(c, a)'
  <2> TAKE a \in Batches \ raced
  <2>1. \A j : ~Lacking(c, a, j)'
    BY <1>4 DEF Lacking
  <2>2. \A j \in BatchJobs : Counted(c, a)'[j] = status[j]
    BY <1>5, <1>8, <2>1 DEF Counted, Batch!StatusFor
  <2>3. members[a] \in SUBSET BatchJobs
    BY <1>2, BatchTypes
  <2> QED BY <1>4, <1>5, <1>8, <2>2, <2>3 DEF RightFor
<1> QED BY <1>10, <1>11, <1>12, <1>13, <1>14, <1>15, <1>16, <1>17, TransactionStepKeeps


\* What the transactions of two processes are at work on.
LEMMA Touching ==
  ASSUME Batch!TypeOK, NEW c \in Batch!Clients
  PROVE  /\ \A j \in BatchJobs : writer[j] = c => j \in Batch!Touched(c)
         /\ \A b \in Batches : \A j : (writer[b] = c /\ j \in draft.members[b]
              /\ j \notin members[b]) =>
              j \in Batch!Touched(c)
         /\ At(c) = "read" => tx[c].job \in Batch!Touched(c)
<1>1. DOMAIN writer = BatchJobs \union Batches
  BY DEF Batch!TypeOK
<1>2. \A j \in BatchJobs : writer[j] = c => j \in Batch!Touched(c)
  BY <1>1 DEF Batch!Touched, Batch!Written
<1>3. ASSUME NEW b \in Batches, NEW j, writer[b] = c, j \in draft.members[b], j \notin members[b]
      PROVE  j \in Batch!Touched(c)
  <2>1. b \in Batch!Written(c) \intersect Batches
    BY <1>1, <1>3 DEF Batch!Written
  <2>2. j \in UNION {draft.members[a] \ members[a] : a \in Batch!Written(c) \intersect Batches}
    BY <1>3, <2>1
  <2> QED BY <2>2 DEF Batch!Touched
<1>4. ASSUME At(c) = "read" PROVE tx[c].job \in Batch!Touched(c)
  <2>1. tx[c] \in Batch!Transactions
    BY BatchTypes
  <2>2. "job" \in DOMAIN tx[c] /\ tx[c].job \in BatchJobs
    BY <1>4, <2>1, TransactionFields DEF At, HasJob
  <2> QED BY <2>2 DEF Batch!Touched
<1> QED BY <1>2, <1>3, <1>4

LEMMA RacedCommit ==
  ASSUME NEW c \in Batch!Clients, NEW d \in Batch!Clients, c # d, Batch!Commit(c),
              NEW b \in Batches, b \notin raced',
         NEW j \in Batch!Touched(c), j \in Batch!Touched(d)
  PROVE  j \notin Batch!MembersFor(c, b) /\ j \notin Batch!MembersFor(d, b)
<1>1. j \in UNION {Batch!Touched(e) : e \in Batch!Clients \ {c}}
  OBVIOUS
<1>2. j \in Batch!Overlapping(c)
  BY <1>1 DEF Batch!Overlapping
<1>3. \A e \in Batch!Clients : Batch!JobsOf(e, b) \intersect Batch!Overlapping(c) = {}
  BY DEF Batch!Commit
<1> QED BY <1>2, <1>3 DEF Batch!JobsOf

LEMMA CommitKeeps ==
  ASSUME BatchIInv, NEW c \in Batch!Clients, Batch!Commit(c)
  PROVE  BatchIInv'
<1>1. /\ Batch!Ended(c)
      /\ status' = [j \in BatchJobs |-> Batch!StatusFor(c, j)]
      /\ members' = [b \in Batches |-> Batch!MembersFor(c, b)]
      /\ count' = [b \in Batches |-> Batch!CountFor(c, b)]
      /\ created' = created \union (Batch!Written(c) \intersect Batches)
      /\ raced \subseteq raced' /\ raced' \in SUBSET Batches
      /\ writer' = [r \in DOMAIN writer |-> IF writer[r] = c THEN NoOne ELSE writer[r]]
      /\ tx' = [tx EXCEPT ![c] = Batch!Idle]
      /\ draft' = draft /\ calls' = calls /\ faults' = faults
  BY DEF Batch!Commit, Batch!Unlock, Batch!Goto, BatchIInv, BatchStructure, Batch!TypeOK
<1>2. Batch!TypeOK /\ BatchStructure /\ TotalsKept /\ Batch!TotalKept /\ BatchRows /\ JobRows
           /\ MembersAreKnown
      /\ CommittedRight /\ DraftsRight /\ c # NoOne /\ Api # NoOne
  BY BatchTypes DEF BatchIInv, BatchStructure, TotalsKept
<1>3. Batch!Idle \in Batch!Transactions /\ Batch!Idle.at = "idle"
  BY DEF Batch!Transactions, Batch!Idle
<1>4. tx'[c] = Batch!Idle /\ At(c)' = "idle" /\ (\A d \in Batch!Clients \ {c} : tx'[d] = tx[d])
      /\ tx' \in [Batch!Clients -> Batch!Transactions]
  BY <1>1, <1>2, <1>3 DEF At, Batch!TypeOK
<1>5. /\ DOMAIN writer = BatchJobs \union Batches
      /\ \A r \in BatchJobs \union Batches : writer[r] \in Batch!Clients \union {NoOne}
  BY <1>2 DEF Batch!TypeOK
<1>6. /\ \A r \in BatchJobs \union Batches : writer'[r] = IF writer[r] = c THEN NoOne ELSE writer[r]
      /\ writer' \in [BatchJobs \union Batches -> Batch!Clients \union {NoOne}]
  BY <1>1, <1>5
<1>7. \A r \in BatchJobs \union Batches : writer'[r] # c
  BY <1>2, <1>6
<1>8. /\ \A j \in BatchJobs : status'[j] = IF writer[j] = c THEN draft.status[j] ELSE status[j]
      /\ status' \in [BatchJobs -> Batch!Status \union {"absent"}]
  BY <1>1, <1>2, BatchTypes DEF Batch!StatusFor
<1>9. /\ \A b \in Batches : members'[b] = IF writer[b] = c THEN draft.members[b] ELSE members[b]
      /\ members' \in [Batches -> SUBSET BatchJobs]
  BY <1>1, <1>2, BatchTypes DEF Batch!MembersFor
<1>10. /\ \A b \in Batches : count'[b] = IF writer[b] = c THEN draft.count[b] ELSE count[b]
       /\ count' \in [Batches -> Batch!Counts]
  <2>1. \A b \in Batches : Batch!CountFor(c, b) \in Batch!Counts
    BY <1>2, BatchTypes DEF Batch!CountFor
  <2> QED BY <1>1, <2>1 DEF Batch!CountFor
<1>11. /\ \A b \in Batches : b \in created' <=> (b \in created \/ writer[b] = c)
       /\ created' \in SUBSET Batches
  BY <1>1, <1>2, <1>5 DEF Batch!Written, Batch!TypeOK
<1>12. At(c) \notin {"changed", "batches", "read", "count"}
  BY <1>1 DEF Batch!Ended, At
<1>13. Batch!TypeOK'
  BY <1>1, <1>2, <1>4, <1>6, <1>8, <1>9, <1>10, <1>11 DEF Batch!TypeOK
<1>14. BatchRows'
  <2> SUFFICES ASSUME NEW a \in Batches
               PROVE  /\ members'[a] \subseteq draft.members[a]
                      /\ writer'[a] # Api => draft.members[a] = members'[a]
                      /\ writer'[a] = NoOne => draft.count[a] = count'[a]
                      /\ a \notin created' => members'[a] = {} /\ count'[a] = Batch!Zero
                                              /\ writer'[a] \in {NoOne, Api}
    BY <1>1 DEF BatchRows
  <2>1. CASE writer[a] = c
    BY <1>2, <1>6, <1>9, <1>10, <1>11, <2>1
  <2>2. CASE writer[a] # c
    BY <1>2, <1>6, <1>9, <1>10, <1>11, <2>2 DEF BatchRows
  <2> QED BY <2>1, <2>2
<1>15. JobRows'
  <2> SUFFICES ASSUME NEW j \in BatchJobs
               PROVE  /\ writer'[j] # NoOne => draft.status[j] # "absent"
                      /\ status'[j] = "absent" => writer'[j] \in {NoOne, Api}
    BY <1>1 DEF JobRows
  <2> QED BY <1>2, <1>6, <1>8 DEF JobRows
<1>16. \A j \in BatchJobs : status[j] # "absent" => status'[j] # "absent"
  BY <1>2, <1>8 DEF JobRows
<1>17. \A d \in Batch!Clients, j \in BatchJobs : KnownTo(d, j)
            => (writer'[j] = d \/ status'[j] # "absent")
  <2>1. \A d \in Batch!Clients : d # NoOne
    BY <1>2, BatchTypes
  <2> QED BY <1>2, <1>6, <1>8, <1>16, <2>1 DEF KnownTo, JobRows
<1>18. Api \in Batch!Clients
  BY <1>2, BatchTypes
<1>19. MembersAreKnown'
  <2>1. \A a \in Batches : \A j \in draft.members[a] : j \in BatchJobs /\ KnownTo(Api, j)
    BY <1>2, BatchTypes DEF MembersAreKnown
  <2>2. \A a \in Batches : \A j \in members[a] : j \in BatchJobs /\ status[j] # "absent"
    BY <1>2, BatchTypes DEF MembersAreKnown
  <2>3. ASSUME NEW a \in Batches, NEW j \in members'[a] PROVE status'[j] # "absent"
    <3>1. CASE j \in members[a]
      BY <1>16, <2>2, <3>1
    <3>2. CASE j \notin members[a]
      <4>1. writer[a] = c /\ j \in draft.members[a]
        BY <1>9, <2>3, <3>2
      <4>2. c = Api
        BY <1>2, <3>2, <4>1 DEF BatchRows
      <4>3. j \in BatchJobs /\ KnownTo(c, j)
        BY <2>1, <4>1, <4>2
      <4> QED BY <1>2, <1>8, <1>16, <4>3 DEF KnownTo, JobRows
    <3> QED BY <3>1, <3>2
  <2>4. \A a \in Batches : \A j \in draft.members[a] : writer'[j] = Api \/ status'[j] # "absent"
    BY <1>17, <1>18, <2>1
  <2> QED BY <1>1, <2>3, <2>4 DEF MembersAreKnown, KnownTo
<1>20. \A d \in Batch!Clients : Proceeds(d)'
  <2> TAKE d \in Batch!Clients
  <2>1. CASE d = c
    BY <1>4, <1>7, <2>1 DEF Proceeds, HasJob
  <2>2. CASE d # c
    <3>1. tx'[d] = tx[d] /\ At(d)' = At(d) /\ tx[d] \in Batch!Transactions /\ Proceeds(d) /\ d # NoOne
      BY <1>2, <1>4, <2>2, BatchTypes DEF At, BatchStructure
    <3>2. /\ At(d) \in HasJob => tx[d].job \in BatchJobs
          /\ At(d) \in HasJob \union {"rerun"} => tx[d].todo \in SUBSET BatchJobs
          /\ At(d) = "batches" => tx[d].left \in SUBSET Batches
          /\ At(d) \in {"count", "choose"} => tx[d].batch \in Batches /\ tx[d].jobs \in SUBSET BatchJobs
      BY <3>1, TransactionFields DEF At
    <3>3. \A r \in BatchJobs \union Batches : writer'[r] = d <=> writer[r] = d
      BY <1>2, <1>6, <2>2, <3>1
    <3>4. \A j \in BatchJobs : KnownTo(d, j) => KnownTo(d, j)'
      BY <1>17 DEF KnownTo
    <3>5. \A a \in Batches : Batch!MembersFor(d, a) \subseteq Batch!MembersFor(d, a)'
      BY <1>1, <1>2, <1>9, <3>3 DEF Batch!MembersFor, BatchRows
    <3>6. (At(d) = "idle" => \A r \in BatchJobs \union Batches : writer[r] # d)'
      BY <3>1, <3>3 DEF Proceeds
    <3>7. /\ (At(d) \in HasJob => KnownTo(d, tx[d].job))'
          /\ (At(d) \in HasJob \union {"rerun"} => \A j \in tx[d].todo : KnownTo(d, j))'
      BY <3>1, <3>2, <3>4 DEF Proceeds
    <3>8. (At(d) \in {"changed", "batches"} => writer[tx[d].job] = d
               /\ draft.status[tx[d].job] = tx[d].new)'
      BY <1>1, <3>1, <3>2, <3>3 DEF Proceeds, HasJob
    <3>9. (At(d) = "batches" => \A b \in tx[d].left : tx[d].job \in Batch!MembersFor(d, b))'
      BY <3>1, <3>2, <3>5 DEF Proceeds
    <3>10. ((At(d) = "count" /\ d # Api) => tx[d].batch \in created)'
      BY <1>11, <3>1, <3>2 DEF Proceeds
    <3>11. ((At(d) \in {"count", "choose"} /\ d = Api) =>
              members[tx[d].batch] \subseteq tx[d].jobs /\ \A j \in tx[d].jobs : KnownTo(d, j))'
      <4>1. d = Api => \A a \in Batches : members'[a] = members[a]
        BY <1>2, <1>9, <2>2 DEF BatchRows
      <4> QED BY <3>1, <3>2, <3>4, <4>1 DEF Proceeds
    <3> QED BY <3>6, <3>7, <3>8, <3>9, <3>10, <3>11 DEF Proceeds
  <2> QED BY <2>1, <2>2
<1>21. TotalsKept'
  <2>1. \A b \in Batches : Batch!Total(count'[b]) = Batch!Cardinality(members'[b])
    BY <1>2, <1>9, <1>10 DEF Batch!TotalKept, TotalsKept
  <2>2. \A b \in Batches : Batch!Total(draft.count[b]) = Batch!Cardinality(draft.members[b])
    BY <1>2 DEF TotalsKept
  <2> QED BY <1>1, <2>1, <2>2 DEF TotalsKept, Batch!TotalKept
<1>22. \A b \in Batches : \A j \in BatchJobs : Counted(c, b)[j] = Batch!StatusFor(c, j)
            /\ status'[j] = Batch!StatusFor(c, j)
  BY <1>8, <1>12, NothingLacks DEF Batch!StatusFor
<1>23. \A b \in Batches \ raced' : /\ RightFor(c, b) /\ (\A d \in Batch!Clients : RightFor(d, b))
                                   /\ count[b] = Batch!Exact(status, members[b])
  BY <1>1, <1>2 DEF DraftsRight, CommittedRight
<1>24. \A b \in Batches : draft.members[b] \in SUBSET BatchJobs /\ members[b] \in SUBSET BatchJobs
                          /\ members[b] \subseteq draft.members[b]
  BY <1>2, BatchTypes DEF BatchRows
<1>25. CommittedRight'
  <2> SUFFICES ASSUME NEW b \in Batches \ raced' PROVE count'[b] = Batch!Exact(status', members'[b])
    BY DEF CommittedRight
  <2>1. CASE writer[b] = c
    <3>1. count'[b] = Batch!Exact(Counted(c, b), draft.members[b]) /\ members'[b] = draft.members[b]
      BY <1>9, <1>10, <1>23, <2>1 DEF RightFor
    <3>2. Batch!Exact(Counted(c, b), draft.members[b]) = Batch!Exact(status', draft.members[b])
      BY <1>22, <1>24, ExactAgrees
    <3> QED BY <3>1, <3>2
  <2>2. CASE writer[b] # c
    <3>1. count'[b] = Batch!Exact(status, members[b]) /\ members'[b] = members[b]
      BY <1>9, <1>10, <1>23, <2>2
    <3>2. \A j \in members[b] : status'[j] = status[j]
      BY <1>22, <1>23, <1>24, <2>2 DEF RightFor
    <3>3. Batch!Exact(status', members[b]) = Batch!Exact(status, members[b])
      BY <3>2, ExactAgrees
    <3> QED BY <3>1, <3>3
  <2> QED BY <2>1, <2>2
<1>26. DraftsRight'
  <2> SUFFICES ASSUME NEW d \in Batch!Clients, NEW b \in Batches \ raced' PROVE RightFor(d, b)'
    BY DEF DraftsRight
  <2>1. CASE d = c
    <3>1. \A j : ~Lacking(c, b, j)'
      BY <1>4 DEF Lacking
    <3>2. \A j \in BatchJobs : Counted(c, b)'[j] = status'[j]
      BY <1>7, <3>1 DEF Counted, Batch!StatusFor
    <3> QED BY <1>4, <1>7, <1>9, <2>1, <3>2 DEF RightFor
  <2>2. CASE d # c
    <3>1. tx'[d] = tx[d] /\ At(d)' = At(d) /\ tx[d] \in Batch!Transactions /\ d # NoOne
      BY <1>2, <1>4, <2>2, BatchTypes DEF At
    <3>2. \A r \in BatchJobs \union Batches : writer'[r] = d <=> writer[r] = d
      BY <1>2, <1>6, <2>2, <3>1
    <3>3. \A j \in BatchJobs : Batch!StatusFor(d, j)' = IF writer[j]
               = d THEN draft.status[j] ELSE Batch!StatusFor(c, j)
      BY <1>1, <1>22, <3>2 DEF Batch!StatusFor
    <3>4. \A j : Lacking(d, b, j)' <=> Lacking(d, b, j)
      BY <3>1 DEF Lacking
    <3>5. \A j \in BatchJobs : Counted(d, b)'[j]
               = IF Lacking(d, b, j) THEN tx[d].before ELSE Batch!StatusFor(d, j)'
      BY <3>1, <3>4 DEF Counted
    <3>6. \A j \in BatchJobs : Counted(d, b)[j]
               = IF Lacking(d, b, j) THEN tx[d].before ELSE Batch!StatusFor(d, j)
      BY DEF Counted
    \* A job that both are at work on is in no batch that is not marked.
    <3>7. \A j \in BatchJobs : (j \in Batch!Touched(c) /\ j \in Batch!Touched(d)) =>
                                 j \notin Batch!MembersFor(c, b) /\ j \notin Batch!MembersFor(d, b)
      BY <2>2, RacedCommit
    <3>8. RightFor(c, b) /\ RightFor(d, b)
      BY <1>23
    <3>9. ASSUME writer[b] = d PROVE draft.count[b] = Batch!Exact(Counted(d, b)', draft.members[b])
      <4>1. ASSUME NEW j \in draft.members[b], writer[j] = c PROVE Batch!StatusFor(c, j) = status[j]
        <5>1. CASE j \in members[b]
          BY <1>22, <1>24, <2>2, <3>8, <3>9, <5>1 DEF RightFor
        <5>2. CASE j \notin members[b]
          <6>1. j \in Batch!Touched(d) /\ j \in Batch!Touched(c)
            BY <1>2, <1>24, <3>9, <4>1, <5>2, Touching
          <6>2. j \in Batch!MembersFor(d, b) /\ j \in BatchJobs
            BY <1>24, <3>9 DEF Batch!MembersFor
          <6> QED BY <3>7, <6>1, <6>2
        <5> QED BY <5>1, <5>2
      <4>2. \A j \in draft.members[b] : Counted(d, b)'[j] = Counted(d, b)[j]
        BY <1>24, <3>3, <3>5, <3>6, <4>1 DEF Batch!StatusFor
      <4>3. Batch!Exact(Counted(d, b)', draft.members[b]) = Batch!Exact(Counted(d, b), draft.members[b])
        BY <4>2, ExactAgrees
      <4> QED BY <3>8, <3>9, <4>3 DEF RightFor
    <3>10. ASSUME writer[b] # d, NEW j \in members'[b] PROVE Counted(d, b)'[j] = status'[j]
      <4>1. j \in BatchJobs /\ j \in Batch!MembersFor(c, b)
        BY <1>9, <3>10 DEF Batch!MembersFor
      <4>2. CASE writer[j] = d
        <5>1. j \in members[b]
          <6> SUFFICES ASSUME j \notin members[b] PROVE FALSE
            OBVIOUS
          <6>1. writer[b] = c /\ j \in draft.members[b]
            BY <1>9, <3>10
          <6>2. j \in Batch!Touched(d) /\ j \in Batch!Touched(c)
            BY <1>2, <4>1, <4>2, <6>1, Touching
          <6> QED BY <3>7, <4>1, <6>2
        <5>2. Counted(d, b)[j] = status[j]
          BY <3>8, <3>10, <5>1 DEF RightFor
        <5>3. Batch!StatusFor(d, j)' = Batch!StatusFor(d, j) /\ status'[j] = status[j]
          BY <1>8, <2>2, <3>3, <4>1, <4>2 DEF Batch!StatusFor
        <5> QED BY <3>5, <3>6, <4>1, <5>2, <5>3
      <4>3. CASE writer[j] # d
        <5>1. ~Lacking(d, b, j)
          BY <1>2, <4>3 DEF Lacking, BatchStructure, Proceeds
        <5> QED BY <1>22, <3>3, <3>5, <4>1, <4>3, <5>1
      <4> QED BY <4>2, <4>3
    <3>11. ASSUME At(d) = "read", tx[d].job \in Batch!MembersFor(d, b)'
           PROVE  tx[d].before = Batch!StatusFor(d, tx[d].job)'
      <4>1. PICK j \in BatchJobs : j = tx[d].job /\ j \in Batch!Touched(d)
        BY <1>2, <3>1, <3>11, Touching, TransactionFields DEF At, HasJob
      <4>2. Batch!MembersFor(d, b)' = IF writer[b] = d THEN draft.members[b] ELSE members'[b]
        BY <1>1, <3>2 DEF Batch!MembersFor
      <4>3. j \in Batch!MembersFor(d, b)
        <5> SUFFICES ASSUME j \notin Batch!MembersFor(d, b) PROVE FALSE
          OBVIOUS
        <5>1. writer[b] = c /\ j \in draft.members[b] /\ j \notin members[b]
          BY <1>9, <3>1, <3>11, <4>1, <4>2 DEF Batch!MembersFor
        <5>2. j \in Batch!Touched(c) /\ j \in Batch!MembersFor(c, b)
          BY <1>2, <4>1, <5>1, Touching DEF Batch!MembersFor
        <5> QED BY <3>7, <4>1, <5>2
      <4>4. tx[d].before = Batch!StatusFor(d, j)
        BY <3>8, <3>11, <4>1, <4>3 DEF RightFor
      <4>5. writer[j] # c
        BY <1>2, <3>7, <4>1, <4>3, Touching
      <4>6. Batch!StatusFor(d, j)' = Batch!StatusFor(d, j)
        <5>1. Batch!StatusFor(d, j) = IF writer[j] = d THEN draft.status[j] ELSE Batch!StatusFor(c, j)
          BY <4>5 DEF Batch!StatusFor
        <5> QED BY <3>3, <4>1, <5>1
      <4> QED BY <3>1, <4>1, <4>4, <4>6
    <3>12. (writer[b] = d => draft.count[b] = Batch!Exact(Counted(d, b), draft.members[b]))'
      BY <1>1, <3>2, <3>9
    <3>13. (writer[b] # d => \A j \in members[b] : Counted(d, b)[j] = status[j])'
      BY <3>2, <3>10
    <3>14. ((At(d) = "read"
                /\ tx[d].job \in Batch!MembersFor(d, b))
                     => tx[d].before = Batch!StatusFor(d, tx[d].job))'
      BY <3>1, <3>11
    <3> QED BY <3>12, <3>13, <3>14 DEF RightFor
  <2> QED BY <2>1, <2>2
<1>27. BatchStructure'
  BY <1>13, <1>14, <1>15, <1>19, <1>20 DEF BatchStructure
<1> QED BY <1>21, <1>25, <1>26, <1>27 DEF BatchIInv


---------------------------------------------------------------------------
(* Every step *)

LEMMA BatchInit == Batch!Init => BatchIInv
<1> SUFFICES ASSUME Batch!Init PROVE BatchIInv
  OBVIOUS
<1>1. /\ status = [j \in BatchJobs |-> "absent"] /\ members = [b \in Batches |-> {}] /\ created = {}
      /\ count = [b \in Batches |-> Batch!Zero] /\ writer = [r \in BatchJobs \union Batches |-> NoOne]
      /\ draft = [status |-> status, members |-> members, count |-> count]
      /\ tx = [c \in Batch!Clients |-> Batch!Idle] /\ raced = {} /\ calls = 0 /\ faults = 0
  BY DEF Batch!Init
<1>2. draft.status = status /\ draft.members = members /\ draft.count = count
  BY <1>1
<1>3. Batch!Zero \in Batch!Counts /\ Batch!Total(Batch!Zero) = 0
  BY DEF Batch!Zero, Batch!Counts, Batch!Total, Batch!Status
<1>4. Batch!Idle \in Batch!Transactions /\ \A c \in Batch!Clients : At(c) = "idle" /\ c # NoOne
  BY <1>1, PartsAssumption DEF Batch!Transactions, Batch!Idle, At, Batch!ConstantsAssumption,
     Batch!Clients
<1>5. Batch!TypeOK
  <2>1. status \in [BatchJobs -> Batch!Status \union {"absent"}]
             /\ members \in [Batches -> SUBSET BatchJobs]
        /\ count \in [Batches -> Batch!Counts]
    BY <1>1, <1>3
  <2>2. draft \in Batch!Drafts
    BY <1>1, <2>1 DEF Batch!Drafts
  <2>3. calls \in 0 .. MaxCalls /\ faults \in 0 .. MaxFaults
    BY <1>1, PartsAssumption DEF Batch!ConstantsAssumption
  <2> QED BY <1>1, <1>4, <2>1, <2>2, <2>3 DEF Batch!TypeOK
<1>6. BatchRows /\ JobRows /\ MembersAreKnown
  BY <1>1, <1>2 DEF BatchRows, JobRows, MembersAreKnown
<1>7. \A c \in Batch!Clients : Proceeds(c)
  BY <1>1, <1>4 DEF Proceeds, HasJob
<1>8. BatchStructure
  BY <1>5, <1>6, <1>7 DEF BatchStructure
<1>9. TotalsKept
  <2>1. Batch!Cardinality({}) = 0
    BY BatchCardinality, FS_EmptySet
  <2> QED BY <1>1, <1>2, <1>3, <2>1 DEF TotalsKept, Batch!TotalKept
<1>10. CommittedRight
  BY <1>1, ExactEmpty DEF CommittedRight
<1>11. DraftsRight
  BY <1>1, <1>4 DEF DraftsRight, RightFor
<1> QED BY <1>8, <1>9, <1>10, <1>11 DEF BatchIInv

LEMMA BatchStutterKeeps == BatchIInv /\ UNCHANGED Batch!vars => BatchIInv'
<1> SUFFICES ASSUME BatchIInv, UNCHANGED Batch!vars PROVE BatchIInv'
  OBVIOUS
<1> DEFINE c == Api
           t == tx[c]
<1>1. UNCHANGED <<Batch!rows, writer, draft, raced>> /\ tx' = tx /\ calls' = calls /\ faults' = faults
  BY DEF Batch!vars
<1>2. Batch!TypeOK /\ DraftsRight /\ BatchStructure /\ c \in Batch!Clients
           /\ t \in Batch!Transactions /\ Proceeds(c)
  BY BatchTypes DEF BatchIInv, BatchStructure
<1>3. tx' = [tx EXCEPT ![c] = t] /\ calls' \in 0 .. MaxCalls /\ faults' \in 0 .. MaxFaults
  BY <1>1, <1>2 DEF Batch!TypeOK
<1>4. /\ status' = status /\ members' = members /\ created' = created /\ writer' = writer
           /\ draft' = draft
  BY <1>1 DEF Batch!rows
<1>5. Proceeds(c)'
  BY <1>1, <1>2, <1>4 DEF Proceeds, At, KnownTo, Batch!MembersFor
<1>6. \A b \in Batches \ raced : RightFor(c, b)'
  <2> TAKE b \in Batches \ raced
  <2>1. RightFor(c, b)
    BY <1>2 DEF DraftsRight
  <2>3. Batch!MembersFor(c, b)' = Batch!MembersFor(c, b) /\ At(c)' = At(c)
             /\ \A j : Batch!StatusFor(c, j)' = Batch!StatusFor(c, j)
    BY <1>1, <1>4 DEF Batch!MembersFor, At, Batch!StatusFor
  <2>4. Counted(c, b)' = Counted(c, b)
    BY <1>1, <1>4 DEF Counted, Lacking, Batch!StatusFor, At
  <2>5. (writer[b] = c => draft.count[b] = Batch!Exact(Counted(c, b), draft.members[b]))'
    <3>1. writer[b] = c => draft.count[b] = Batch!Exact(Counted(c, b)', draft.members[b])
      BY <2>1, <2>4 DEF RightFor
    <3> QED BY <1>4, <3>1
  <2>6. (writer[b] # c => \A j \in members[b] : Counted(c, b)[j] = status[j])'
    BY <1>4, <2>1, <2>4 DEF RightFor
  <2>7. ((At(c) = "read"
             /\ tx[c].job \in Batch!MembersFor(c, b)) => tx[c].before = Batch!StatusFor(c, tx[c].job))'
    BY <1>1, <2>1, <2>3 DEF RightFor
  <2> QED BY <2>5, <2>6, <2>7 DEF RightFor
<1> HIDE DEF t, c
<1> QED BY <1>1, <1>2, <1>3, <1>5, <1>6, ReadingStep

LEMMA BatchStep == BatchIInv /\ [Batch!Next]_(Batch!vars) => BatchIInv'
<1> SUFFICES ASSUME BatchIInv, [Batch!Next]_(Batch!vars) PROVE BatchIInv'
  OBVIOUS
<1>1. MaxFaults \in Nat /\ faults \in 0 .. MaxFaults
  BY PartsAssumption DEF Batch!ConstantsAssumption, BatchIInv, BatchStructure, Batch!TypeOK
<1>2. CASE UNCHANGED Batch!vars
  BY <1>2, BatchStutterKeeps
<1>3. ASSUME NEW c \in Updaters, NEW j \in BatchJobs,
           NEW s \in Batch!Status, Batch!CallUpdateStatus(c, j, s) PROVE BatchIInv'
  BY <1>3, CallUpdateStatusKeeps
<1>4. ASSUME NEW b \in Batches, NEW jobs \in SUBSET BatchJobs, Batch!CallStartBatch(b, jobs)
      PROVE BatchIInv'
  BY <1>4, CallStartBatchKeeps
<1>5. ASSUME NEW c \in Updaters, NEW b \in Batches, Batch!CallRecalculate(c, b) PROVE BatchIInv'
  BY <1>5, CallRecalculateKeeps
<1>6. ASSUME NEW c \in Batch!Clients, Batch!Step(c) PROVE BatchIInv'
  <2>1. CASE Batch!ChangeJob(c)
    BY <2>1, ChangeJobKeeps
  <2>2. CASE Batch!FindBatches(c)
    BY <2>2, FindBatchesKeeps
  <2>3. ASSUME NEW b \in Batches, Batch!ChangeBatch(c, b) PROVE BatchIInv'
    BY <2>3, ChangeBatchKeeps
  <2>4. CASE Batch!EndUpdateStatus(c)
    BY <2>4, EndUpdateStatusKeeps
  <2>5. CASE Batch!CountJobs(c)
    BY <2>5, CountJobsKeeps
  <2>6. CASE Batch!ChooseJobs
    BY <2>6, ChooseJobsKeeps
  <2>7. ASSUME NEW j \in BatchJobs, Batch!Reschedule(j) PROVE BatchIInv'
    BY <2>7, RescheduleKeeps
  <2>8. CASE Batch!Commit(c)
    BY <2>8, CommitKeeps
  <2>9. CASE Batch!Deadlock(c)
    BY <1>1, <2>9, AbortKeeps DEF Batch!Deadlock
  <2> QED BY <1>6, <2>1, <2>2, <2>3, <2>4, <2>5, <2>6, <2>7, <2>8, <2>9 DEF Batch!Step
<1>7. ASSUME NEW c \in Batch!Clients, Batch!LoseConnection(c) PROVE BatchIInv'
  <2>1. faults' \in 0 .. MaxFaults /\ Batch!Abort(c)
    BY <1>1, <1>7 DEF Batch!LoseConnection
  <2> QED BY <2>1, AbortKeeps
<1>8. ASSUME NEW c \in Batch!Clients, Batch!Wait(c) PROVE BatchIInv'
  BY <1>2, <1>8 DEF Batch!Wait
<1> QED BY <1>2, <1>3, <1>4, <1>5, <1>6, <1>7, <1>8 DEF Batch!Next

LEMMA BatchIsSafe == BatchIInv => Batch!Safety
<1> SUFFICES ASSUME BatchIInv PROVE Batch!Safety
  OBVIOUS
<1>1. Batch!TypeOK /\ Batch!TotalKept /\ CommittedRight
  BY DEF BatchIInv, BatchStructure, TotalsKept
<1>2. created \subseteq Batches
  BY <1>1 DEF Batch!TypeOK
<1>3. Batch!WrongOnlyIfRaced
  BY <1>1, <1>2 DEF CommittedRight, Batch!WrongOnlyIfRaced
<1> QED BY <1>1, <1>3 DEF Batch!Safety

---------------------------------------------------------------------------
(* The services *)

\* What each part keeps while it moves.
ServicesInv ==
  /\ subject = "batch" => BatchIInv
  /\ subject \in {"job", "two runs"} => JobIInv
  /\ subject = "output" => OutputIInv
  /\ subject = "log" => LogIInv

LEMMA ServicesInit ==
  ASSUME Init PROVE ServicesInv
BY PartsAssumption, BatchInit, JobInit, OutputInit, LogInit DEF Init, ServicesInv

LEMMA BatchMoves ==
  ASSUME ServicesInv, subject = "batch", [Next]_vars
  PROVE  ServicesInv'
<1>1. subject' = subject /\ [Batch!Next]_(Batch!vars)
  BY DEF Next, vars, batchVars, Batch!vars, Batch!rows
<1>2. BatchIInv'
  BY <1>1, BatchStep DEF ServicesInv
<1> QED BY <1>1, <1>2 DEF ServicesInv

LEMMA JobMoves ==
  ASSUME ServicesInv, subject \in {"job", "two runs"}, [Next]_vars
  PROVE  ServicesInv'
<1>1. subject' = subject /\ [Job!Next]_(Job!vars)
  BY DEF Next, vars, jobVars, Job!vars, Job!service, Job!history
<1>2. JobIInv'
  BY <1>1, PartsAssumption, JobStep DEF ServicesInv
<1> QED BY <1>1, <1>2 DEF ServicesInv

LEMMA OutputMoves ==
  ASSUME ServicesInv, subject = "output", [Next]_vars
  PROVE  ServicesInv'
<1>1. subject' = subject /\ [Output!Next]_(Output!vars)
  BY DEF Next, vars, outputVars, Output!vars
<1>2. OutputIInv'
  BY <1>1, PartsAssumption, OutputStep DEF ServicesInv
<1> QED BY <1>1, <1>2 DEF ServicesInv

LEMMA LogMoves ==
  ASSUME ServicesInv, subject = "log", [Next]_vars
  PROVE  ServicesInv'
<1>1. subject' = subject /\ [Log!Next]_(Log!vars)
  BY DEF Next, vars, logVars, Log!vars
<1>2. LogIInv'
  BY <1>1, PartsAssumption, LogStep DEF ServicesInv
<1> QED BY <1>1, <1>2 DEF ServicesInv

LEMMA ServicesStep ==
  ASSUME ServicesInv, [Next]_vars PROVE ServicesInv'
<1>1. CASE subject \in {"job", "two runs"}
  BY <1>1, JobMoves
<1>2. CASE subject = "output"
  BY <1>2, OutputMoves
<1>3. CASE subject = "log"
  BY <1>3, LogMoves
<1>4. CASE subject = "batch"
  BY <1>4, BatchMoves
<1>5. CASE subject \notin {"batch", "job", "two runs", "output", "log"}
  <2>1. subject' = subject
    BY DEF Next, vars
  <2> QED BY <1>5, <2>1 DEF ServicesInv
<1> QED BY <1>1, <1>2, <1>3, <1>4, <1>5

\* The inductive invariant of the services.
THEOREM ServicesInvHolds == Spec => []ServicesInv
BY ServicesInit, ServicesStep, PTL DEF Spec

\* For any jobs, batches, processes and faults: the counters of a batch add up to the number
\* of its jobs and differ from them only where two transactions were at work on the same job
\* (job_update_status(), start_batch(), batch_counters_update()).
THEOREM BatchSafetyHolds == Spec => []BatchSafety
<1>1. ServicesInv => BatchSafety
  BY BatchIsSafe DEF ServicesInv, BatchSafety
<1> QED BY <1>1, ServicesInvHolds, PTL

\* For any jobs, workers and faults: a request for a job makes one run of it, is not
\* hidden by an update of an earlier run, and leads to a result (pop_job(), send_report()).
THEOREM JobSafetyHolds == Spec => []JobSafety
<1>1. ServicesInv => JobSafety
  BY JobIInvSafe DEF ServicesInv, JobSafety
<1> QED BY <1>1, ServicesInvHolds, PTL

\* For any limits and any output: the updates show the output in its order, completely up
\* to the limit, and nothing follows the warning (send_output(), send_finished()).
THEOREM OutputSafetyHolds == Spec => []OutputSafety
<1>1. ServicesInv => OutputSafety
  BY DEF ServicesInv, OutputSafety, OutputIInv, Output!Safety
<1> QED BY <1>1, ServicesInvHolds, PTL

\* For any sizes of the queue and of a batch, and any lost answers: log records are not lost
\* while the thread lives, and not overtaken when a batch is repeated (emit(), _SendingLoop).
THEOREM LogSafetyHolds == Spec => []LogSafety
<1>1. ServicesInv => LogSafety
  BY DEF ServicesInv, LogSafety, LogIInv, LogTypeInv, Log!Safety
<1> QED BY <1>1, ServicesInvHolds, PTL

=============================================================================
