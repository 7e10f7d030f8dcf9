------------------------- MODULE TaskPipelineProofs -------------------------
(***************************************************************************)
(* Proofs about TaskPipeline for any jobs, workers and bounds.             *)
(***************************************************************************)
EXTENDS TaskPipeline, FiniteSetTheorems, TLAPS

\* What each worker knows of the task it holds.
WorkersInv ==
  \A w \in Workers :
     /\ worker[w] # "idle" => held[w] # 0
     /\ \A v \in Workers : (v # w /\ held[v] # 0) => held[v] # held[w]
     /\ worker[w] = "reported" => ResultsOf(tasks[held[w]]) # {}

\* A job is published once, and GitLab has given out what is in the streams.
JobsInv ==
  /\ \A i, j \in 1 .. Len(tasks) : tasks[i] = tasks[j] => i = j
  /\ \A i \in 1 .. Len(tasks) : status[tasks[i]] # "pending"
  /\ \A k \in 1 .. Len(updates) : status[updates[k].job] # "pending"
  /\ ingress.at \notin {"idle", "alive"} =>
        ingress.job \in Jobs /\ status[ingress.job] # "pending"
  /\ ingress.at \in {"requested", "taken"} =>
        \A i \in 1 .. Len(tasks) : tasks[i] # ingress.job

\* What the updater knows of the update it holds.
UpdaterInv ==
  /\ unacked \in {0, read}
  /\ updater # "idle" => unacked # 0
  /\ (updater = "reported" /\ updates[unacked].status \in Results) =>
        unacked \in dropped \/ status[updates[unacked].job] \in Final

\* The job that the ingress may still lose to an outage already counted.
AtRisk ==
  IF broker = "down" /\ ingress.at \in {"alive", "requested", "taken"} THEN 1 ELSE 0

LossInv == Cardinality(lost) + AtRisk <= faults

\* The inductive invariant.
IInv ==
  /\ TypeOK
  /\ WorkersInv
  /\ JobsInv
  /\ UpdaterInv
  /\ LossInv
  /\ TaskNotForgotten
  /\ ResultNotForgotten
  /\ FirstResultWins

---------------------------------------------------------------------------
\* Appending an update keeps the earlier ones and the results they bring.
LEMMA ReportGrows ==
  ASSUME UpdaterTypeOK, NEW j \in Jobs, NEW s \in {"enqueued", "running"} \union Results,
         Report(j, s)
  PROVE  /\ updates' \in Seq(Update)
         /\ Len(updates') = Len(updates) + 1
         /\ \A k \in 1 .. Len(updates) : updates'[k] = updates[k]
         /\ updates'[Len(updates) + 1] = [job |-> j, status |-> s]
         /\ \A i \in Jobs : ResultsOf(i) \subseteq ResultsOf(i)'
         /\ \A i \in Jobs : \A k \in ResultsOf(i)' :
               k \in ResultsOf(i) \/ (k = Len(updates) + 1 /\ i = j /\ s \in Results)
         /\ s \in Results => ResultsOf(j)' # {}
  <1>1. [job |-> j, status |-> s] \in Update
    BY DEF Update
  <1>2. updates \in Seq(Update)
    BY DEF UpdaterTypeOK
  <1>3. /\ updates' \in Seq(Update)
        /\ Len(updates') = Len(updates) + 1
        /\ \A k \in 1 .. Len(updates) : updates'[k] = updates[k]
        /\ updates'[Len(updates) + 1] = [job |-> j, status |-> s]
    BY <1>1, <1>2 DEF Report
  <1>4. /\ \A i \in Jobs : ResultsOf(i) \subseteq ResultsOf(i)'
        /\ \A i \in Jobs : \A k \in ResultsOf(i)' :
              k \in ResultsOf(i) \/ (k = Len(updates) + 1 /\ i = j /\ s \in Results)
    BY <1>2, <1>3 DEF ResultsOf
  <1>5. s \in Results => Len(updates) + 1 \in ResultsOf(j)'
    BY <1>2, <1>3 DEF ResultsOf
  <1>6. QED
    BY <1>3, <1>4, <1>5

\* Initially every job waits in GitLab or was canceled, and the streams are empty.
LEMMA InitIInv == Init => IInv
  <1> SUFFICES ASSUME Init PROVE IInv
    OBVIOUS
  <1>1. TypeOK
    <2>1. status \in [Jobs -> {"pending", "running"} \union Final]
      BY SMTT(30) DEF Init, Final
    <2>2. /\ tasks \in Seq(Jobs) /\ updates \in Seq(Update)
          /\ held \in [Workers -> 0 .. given]
          /\ worker \in [Workers -> {"idle", "ready", "running", "reported"}]
          /\ ingress \in [at : {"idle", "alive", "requested", "taken", "published"},
                          job : Jobs \union {NoJob}]
      BY DEF Init, Idle
    <2>3. QED
      BY <2>1, <2>2, ConstantsAssumption
         DEF ConstantsAssumption, Init, TypeOK, IngressTypeOK, WorkersTypeOK, UpdaterTypeOK
  <1>2. LossInv
    BY FS_EmptySet DEF Init, LossInv, AtRisk
  <1>3. WorkersInv /\ JobsInv /\ UpdaterInv
    BY DEF Init, WorkersInv, JobsInv, UpdaterInv, Idle
  <1>4. TaskNotForgotten /\ ResultNotForgotten /\ FirstResultWins
    BY DEF Init, TaskNotForgotten, ResultNotForgotten, FirstResultWins, ResultsOf
  <1>5. QED
    BY <1>1, <1>2, <1>3, <1>4 DEF IInv

---------------------------------------------------------------------------
\* The worker's task is an entry of the tasks stream, so a job.
LEMMA HeldTask ==
  ASSUME WorkersTypeOK, WorkersInv, NEW w \in Workers, worker[w] # "idle"
  PROVE  /\ held[w] \in 1 .. given
         /\ held[w] \in 1 .. Len(tasks)
         /\ tasks[held[w]] \in Jobs
  BY DEF WorkersTypeOK, WorkersInv

\* The same of the updater's update.
LEMMA UnackedUpdate ==
  ASSUME UpdaterTypeOK, UpdaterInv, updater # "idle"
  PROVE  /\ unacked = read
         /\ unacked \in 1 .. Len(updates)
         /\ updates[unacked] \in Update
         /\ updates[unacked].job \in Jobs
  <1>1. unacked \in 0 .. read /\ read \in 0 .. Len(updates) /\ updates \in Seq(Update)
    BY DEF UpdaterTypeOK
  <1>2. unacked = read /\ unacked \in 1 .. Len(updates)
    BY <1>1 DEF UpdaterInv
  <1>3. updates[unacked] \in Update
    BY <1>1, <1>2
  <1>4. QED
    BY <1>2, <1>3 DEF Update

\* What a worker writes is the status of a job.
LEMMA WorkerReports ==
  ASSUME WorkersTypeOK, WorkersInv, NEW w \in Workers,
         RefuseTask(w) \/ StartTask(w) \/ FinishTask(w)
  PROVE  /\ tasks[held[w]] \in Jobs
         /\ held[w] \in 1 .. given
         /\ \E s \in {"running"} \union Results : Report(tasks[held[w]], s)
  <1>1. worker[w] # "idle"
    BY DEF RefuseTask, StartTask, FinishTask
  <1>2. \E s \in {"running"} \union Results : Report(tasks[held[w]], s)
    BY DEF RefuseTask, StartTask, FinishTask, Results
  <1>3. QED
    BY <1>1, <1>2, HeldTask

\* Every step keeps the types of GitLab's and the ingress's variables.
LEMMA NextIngressTypeOK == IInv /\ [Next]_vars => IngressTypeOK'
  <1> SUFFICES ASSUME IngressTypeOK, JobsInv, UpdaterTypeOK, UpdaterInv, [Next]_vars
               PROVE  IngressTypeOK'
    BY DEF IInv, TypeOK
  <1> USE DEF gitlabVars, taskVars, updateVars, updaterVars, ingressVars
  <1>0. MaxFaults \in Nat
    BY ConstantsAssumption DEF ConstantsAssumption
  <1>1. CASE BrokerDown \/ BrokerUp
    BY <1>0, <1>1 DEF IngressTypeOK, BrokerDown, BrokerUp
  <1>2. ASSUME NEW j \in Jobs, Cancel(j) \/ RequestJobReplyLost(j) PROVE IngressTypeOK'
    BY <1>0, <1>2 DEF IngressTypeOK, Final, Cancel, RequestJobReplyLost
  <1>3. ASSUME NEW j \in Jobs, RequestJob(j) PROVE IngressTypeOK'
    BY <1>3 DEF IngressTypeOK, RequestJob
  <1>4. CASE CheckAlive \/ NoJobPending \/ WriteJobTaken
    BY <1>4 DEF IngressTypeOK, CheckAlive, NoJobPending, WriteJobTaken, Idle, NoJob
  <1>5. CASE RejectForeign
    BY <1>5 DEF IngressTypeOK, Final, JobsInv, RejectForeign, Idle, NoJob
  <1>6. CASE PublishTask \/ PublishEnqueued
    BY <1>6 DEF IngressTypeOK, JobsInv, PublishTask, PublishEnqueued, Idle, NoJob
  <1>7. CASE IngressCrash
    BY <1>0, <1>7 DEF IngressTypeOK, JobsInv, IngressCrash, Fault, Idle, NoJob
  <1>8. ASSUME NEW w \in Workers, WorkerStep(w) \/ WorkerCrash(w) PROVE IngressTypeOK'
    BY <1>0, <1>8 DEF IngressTypeOK, WorkerStep, ReadTask, RefuseTask, StartTask, FinishTask,
       AcknowledgeTask, WorkerCrash, Fault
  <1>9. AcceptUpdate => status' \in [Jobs -> {"pending", "running"} \union Final]
    BY DEF IngressTypeOK, AcceptUpdate, StatusOf, Final
  <1>10. CASE UpdaterStep \/ UpdaterCrash
    BY <1>0, <1>9, <1>10 DEF IngressTypeOK, UpdaterStep, ReadUpdate, ReportAccepted,
       ReportRefused, ReportFailed, AcknowledgeUpdate, UpdaterCrash, Fault
  <1>11. CASE UNCHANGED vars
    BY <1>11 DEF IngressTypeOK, vars
  <1>12. QED
    BY <1>1, <1>2, <1>3, <1>4, <1>5, <1>6, <1>7, <1>8, <1>10, <1>11 DEF Next, IngressStep

\* Every step keeps the types of the tasks stream's and the workers' variables.
LEMMA NextWorkersTypeOK == IInv /\ [Next]_vars => WorkersTypeOK'
  <1> SUFFICES ASSUME WorkersTypeOK, JobsInv, [Next]_vars PROVE WorkersTypeOK'
    BY DEF IInv, TypeOK
  <1> USE DEF gitlabVars, taskVars, updateVars, updaterVars, ingressVars
  <1>1. CASE PublishTask
    BY <1>1 DEF WorkersTypeOK, JobsInv, PublishTask
  <1>2. ASSUME NEW w \in Workers, WorkerStep(w) \/ WorkerCrash(w) PROVE WorkersTypeOK'
    BY SMTT(30), <1>2 DEF WorkersTypeOK, WorkerStep, ReadTask, RefuseTask, StartTask, FinishTask,
       AcknowledgeTask, WorkerCrash
  <1>3. CASE UNCHANGED <<taskVars, worker>>
    BY <1>3 DEF WorkersTypeOK
  <1>4. QED
    BY <1>1, <1>2, <1>3 DEF vars, Next, BrokerDown, BrokerUp, Cancel, RequestJobReplyLost,
       IngressStep, CheckAlive, RequestJob, NoJobPending, WriteJobTaken, RejectForeign,
       PublishEnqueued, IngressCrash, UpdaterStep, ReadUpdate, ReportAccepted, ReportRefused,
       ReportFailed, AcknowledgeUpdate, UpdaterCrash

\* Every step keeps the types of the updates stream's and the updater's variables.
LEMMA NextUpdaterTypeOK == IInv /\ [Next]_vars => UpdaterTypeOK'
  <1> SUFFICES ASSUME WorkersTypeOK, WorkersInv, JobsInv, UpdaterTypeOK, UpdaterInv,
                      [Next]_vars
               PROVE  UpdaterTypeOK'
    BY DEF IInv, TypeOK
  <1> USE DEF gitlabVars, taskVars, updateVars, updaterVars, ingressVars
  <1>1. ASSUME UNCHANGED <<read, unacked, updaterVars>>,
               NEW j \in Jobs, NEW s \in {"enqueued", "running"} \union Results, Report(j, s)
        PROVE  UpdaterTypeOK'
    <2>1. updates' \in Seq(Update) /\ Len(updates') = Len(updates) + 1
      BY <1>1, ReportGrows
    <2>2. Len(updates) \in Nat
      BY DEF UpdaterTypeOK
    <2>3. QED
      BY <1>1, <2>1, <2>2 DEF UpdaterTypeOK
  <1>2. CASE PublishEnqueued
    BY <1>1, <1>2 DEF PublishEnqueued, Report, JobsInv
  <1>3. ASSUME NEW w \in Workers, RefuseTask(w) \/ StartTask(w) \/ FinishTask(w)
        PROVE  UpdaterTypeOK'
    <2>1. UNCHANGED <<read, unacked, updaterVars>>
      BY <1>3 DEF RefuseTask, StartTask, FinishTask
    <2>2. QED
      BY <1>1, <1>3, <2>1, WorkerReports
  <1>4. CASE ReadUpdate \/ AcknowledgeUpdate
    <2>1. read' \in 0 .. Len(updates) /\ unacked' \in 0 .. read'
      BY <1>4 DEF UpdaterTypeOK, ReadUpdate, AcknowledgeUpdate
    <2>2. QED
      BY <1>4, <2>1 DEF UpdaterTypeOK, ReadUpdate, AcknowledgeUpdate
  <1>5. CASE ReportAccepted \/ ReportRefused \/ UpdaterCrash
    <2>1. 1 \in 1 .. RetryCount
      BY ConstantsAssumption DEF ConstantsAssumption
    <2>2. QED
      BY <1>5, <2>1 DEF UpdaterTypeOK, ReportAccepted, ReportRefused, UpdaterCrash
  <1>6. CASE ReportFailed
    <2>1. attempt' \in 1 .. RetryCount
      BY <1>6, ConstantsAssumption DEF ConstantsAssumption, UpdaterTypeOK, ReportFailed
    <2>2. unacked \in 1 .. Len(updates)
      BY <1>6, UnackedUpdate DEF ReportFailed
    <2>3. dropped' \in SUBSET (1 .. Len(updates))
      BY <1>6, <2>2 DEF UpdaterTypeOK, ReportFailed
    <2>4. QED
      BY <1>6, <2>1, <2>3 DEF UpdaterTypeOK, ReportFailed
  <1>7. CASE UNCHANGED <<updateVars, updaterVars>>
    BY <1>7 DEF UpdaterTypeOK
  <1>8. QED
    BY <1>2, <1>3, <1>4, <1>5, <1>6, <1>7 DEF vars, Next, BrokerDown, BrokerUp, Cancel,
       RequestJobReplyLost, IngressStep, CheckAlive, RequestJob, NoJobPending, WriteJobTaken,
       RejectForeign, PublishTask, IngressCrash, WorkerStep, ReadTask, AcknowledgeTask,
       WorkerCrash, UpdaterStep

\* No step loses more jobs than faults account for.
LEMMA NextLossInv == IInv /\ [Next]_vars => LossInv'
  <1> SUFFICES ASSUME IngressTypeOK, LossInv, [Next]_vars PROVE LossInv'
    BY DEF IInv, TypeOK
  <1> USE DEF gitlabVars, taskVars, updateVars, updaterVars, ingressVars
  <1>1. IsFiniteSet(lost) /\ Cardinality(lost) \in Nat
    BY ConstantsAssumption, FS_Subset, FS_CardinalityType DEF ConstantsAssumption, IngressTypeOK
  <1>2. ASSUME NEW j, lost' = lost \union {j} PROVE Cardinality(lost') \in 0 .. Cardinality(lost) + 1
    BY <1>1, <1>2, FS_AddElement
  <1>3. ASSUME UNCHANGED <<lost, broker, ingress>>, faults' = faults \/ faults' = faults + 1
        PROVE  LossInv'
    BY <1>1, <1>3 DEF IngressTypeOK, LossInv, AtRisk
  <1>4. CASE BrokerDown \/ BrokerUp
    BY <1>1, <1>4 DEF IngressTypeOK, LossInv, AtRisk, BrokerDown, BrokerUp
  <1>5. ASSUME NEW j \in Jobs, Cancel(j) PROVE LossInv'
    BY <1>3, <1>5 DEF Cancel
  <1>6. ASSUME NEW j \in Jobs, RequestJobReplyLost(j) PROVE LossInv'
    BY <1>1, <1>2, <1>6 DEF IngressTypeOK, LossInv, AtRisk, RequestJobReplyLost
  <1>7. ASSUME NEW j \in Jobs, RequestJob(j) PROVE LossInv'
    BY <1>1, <1>7 DEF IngressTypeOK, LossInv, AtRisk, RequestJob
  <1>8. CASE CheckAlive \/ NoJobPending \/ WriteJobTaken \/ RejectForeign
    BY <1>1, <1>8 DEF IngressTypeOK, LossInv, AtRisk, CheckAlive, NoJobPending, WriteJobTaken,
       RejectForeign, Idle
  <1>9. CASE PublishTask \/ PublishEnqueued
    BY <1>1, <1>9 DEF IngressTypeOK, LossInv, AtRisk, PublishTask, PublishEnqueued, Idle
  <1>10. CASE IngressCrash
    <2>1. ingress'.at = "idle" /\ broker' = broker
      BY <1>10 DEF IngressCrash, Idle
    <2>2. AtRisk' = 0
      BY <2>1 DEF AtRisk
    <2>3. CASE lost' = lost
      BY <1>1, <1>10, <2>2, <2>3 DEF IngressTypeOK, LossInv, AtRisk, IngressCrash, Fault
    <2>4. CASE lost' # lost
      <3>1. lost' = lost \union {ingress.job} /\ ingress.at \in {"requested", "taken"}
        BY <1>10, <2>4 DEF IngressCrash
      <3>2. Cardinality(lost') \in 0 .. Cardinality(lost) + 1
        BY <1>2, <3>1
      <3>3. QED
        BY <1>1, <1>10, <2>2, <3>1, <3>2 DEF IngressTypeOK, LossInv, AtRisk, IngressCrash, Fault
    <2>5. QED
      BY <2>3, <2>4
  <1>11. ASSUME NEW w \in Workers, WorkerStep(w) \/ WorkerCrash(w) PROVE LossInv'
    BY <1>3, <1>11 DEF WorkerStep, ReadTask, RefuseTask, StartTask, FinishTask,
       AcknowledgeTask, WorkerCrash, Fault
  <1>12. CASE UpdaterStep \/ UpdaterCrash
    BY <1>3, <1>12 DEF UpdaterStep, ReadUpdate, ReportAccepted, ReportRefused, ReportFailed,
       AcknowledgeUpdate, UpdaterCrash, Fault
  <1>13. CASE UNCHANGED vars
    BY <1>3, <1>13 DEF vars
  <1>14. QED
    BY <1>4, <1>5, <1>6, <1>7, <1>8, <1>9, <1>10, <1>11, <1>12, <1>13 DEF Next, IngressStep

---------------------------------------------------------------------------
\* Every step keeps what the workers know and forgets no task.
LEMMA NextWorkersInv == IInv /\ [Next]_vars => WorkersInv' /\ TaskNotForgotten'
  <1> SUFFICES ASSUME WorkersTypeOK, UpdaterTypeOK, WorkersInv, JobsInv, TaskNotForgotten,
                      [Next]_vars
               PROVE  WorkersInv' /\ TaskNotForgotten'
    BY DEF IInv, TypeOK
  <1> USE DEF gitlabVars, taskVars, updateVars, updaterVars, ingressVars
  <1>1. \A i \in 1 .. given : tasks[i] \in Jobs
    BY DEF WorkersTypeOK
  <1>2. CASE PublishTask
    <2>1. /\ UNCHANGED <<given, held, updates, worker>>
          /\ \A i \in 1 .. given : tasks'[i] = tasks[i]
      BY <1>2 DEF PublishTask, JobsInv, WorkersTypeOK
    <2>2. \A j : UNCHANGED ResultsOf(j)
      BY <2>1 DEF ResultsOf
    <2>3. ASSUME NEW w \in Workers, worker[w] # "idle"
          PROVE  tasks'[held[w]] = tasks[held[w]] /\ tasks[held[w]] \in Jobs
      BY <2>1, <2>3, HeldTask
    <2>4. WorkersInv'
      BY <2>1, <2>2, <2>3 DEF WorkersInv
    <2>5. TaskNotForgotten'
      BY <1>1, <2>1, <2>2 DEF TaskNotForgotten
    <2>6. QED
      BY <2>4, <2>5
  <1>3. ASSUME UNCHANGED taskVars, \A j \in Jobs : ResultsOf(j) \subseteq ResultsOf(j)'
        PROVE  TaskNotForgotten'
    BY <1>1, <1>3 DEF TaskNotForgotten
  <1>4. CASE PublishEnqueued
    <2>1. Report(ingress.job, "enqueued") /\ ingress.job \in Jobs
      BY <1>4 DEF PublishEnqueued, Report, JobsInv
    <2>2. \A j \in Jobs : ResultsOf(j) \subseteq ResultsOf(j)'
      BY <2>1, ReportGrows
    <2>3. UNCHANGED <<taskVars, worker>>
      BY <1>4 DEF PublishEnqueued
    <2>4. WorkersInv'
      BY <2>2, <2>3, HeldTask DEF WorkersInv
    <2>5. QED
      BY <1>3, <2>2, <2>3, <2>4
  <1>5. ASSUME NEW w \in Workers, ReadTask(w) PROVE WorkersInv' /\ TaskNotForgotten'
    <2>1. UNCHANGED <<tasks, updates>> /\ worker' = [worker EXCEPT ![w] = "ready"]
      BY <1>5 DEF ReadTask
    <2>2. \A j : UNCHANGED ResultsOf(j)
      BY <2>1 DEF ResultsOf
    <2>3. CASE UNCHANGED <<given, held>>
      <3>1. held[w] # 0 \/ given' = given + 1
        BY <1>5 DEF ReadTask
      <3>2. held[w] # 0
        BY <2>3, <3>1 DEF WorkersTypeOK
      <3>3. WorkersInv'
        BY <2>1, <2>2, <2>3, <3>2 DEF WorkersInv, WorkersTypeOK
      <3>4. QED
        BY <2>1, <2>2, <2>3, <3>3 DEF TaskNotForgotten
    <2>4. CASE held[w] = 0 /\ given' = given + 1 /\ held' = [held EXCEPT ![w] = given + 1]
      <3>1. \A v \in Workers : held[v] \in 0 .. given
        BY DEF WorkersTypeOK
      <3>2. \A v \in Workers \ {w} : held'[v] = held[v] /\ worker'[v] = worker[v]
        BY <2>1, <2>4 DEF WorkersTypeOK
      <3>3. held'[w] = given + 1 /\ worker'[w] = "ready" /\ given \in Nat
        BY <2>1, <2>4 DEF WorkersTypeOK
      <3>4. WorkersInv'
        BY <2>1, <2>2, <3>1, <3>2, <3>3 DEF WorkersInv
      <3>5. TaskNotForgotten'
        <4> SUFFICES ASSUME NEW i \in 1 .. given'
                     PROVE  (\E v \in Workers : held'[v] = i) \/ ResultsOf(tasks[i])' # {}
          BY DEF TaskNotForgotten
        <4>1. CASE i = given + 1
          BY <3>3, <4>1
        <4>2. CASE i \in 1 .. given
          BY <2>1, <2>2, <2>4, <3>2, <4>2 DEF TaskNotForgotten
        <4>3. QED
          BY <2>4, <3>3, <4>1, <4>2
      <3>6. QED
        BY <3>4, <3>5
    <2>5. QED
      BY <1>5, <2>3, <2>4 DEF ReadTask
  <1>6. ASSUME NEW w \in Workers, RefuseTask(w) \/ StartTask(w) \/ FinishTask(w)
        PROVE  WorkersInv' /\ TaskNotForgotten'
    <2>1. PICK s \in {"running"} \union Results : Report(tasks[held[w]], s)
      BY <1>6, WorkerReports
    <2>2. tasks[held[w]] \in Jobs
      BY <1>6, WorkerReports
    <2>3. UNCHANGED taskVars /\ worker[w] # "idle"
      BY <1>6 DEF RefuseTask, StartTask, FinishTask
    <2>4. /\ \A j \in Jobs : ResultsOf(j) \subseteq ResultsOf(j)'
          /\ s \in Results => ResultsOf(tasks[held[w]])' # {}
      BY <2>1, <2>2, <2>3, ReportGrows
    <2>5. /\ \A v \in Workers \ {w} : worker'[v] = worker[v]
          /\ worker'[w] \in {"running", "reported"}
      BY <1>6 DEF RefuseTask, StartTask, FinishTask, WorkersTypeOK
    <2>6. worker'[w] = "reported" => ResultsOf(tasks[held[w]])' # {}
      <3>1. CASE StartTask(w)
        BY <3>1 DEF StartTask, WorkersTypeOK
      <3>2. CASE RefuseTask(w) \/ FinishTask(w)
        <4>1. PICK r \in Results : Report(tasks[held[w]], r)
          BY <3>2 DEF RefuseTask, FinishTask, Results
        <4>2. QED
          BY <2>2, <2>3, <4>1, ReportGrows
      <3>3. QED
        BY <1>6, <3>1, <3>2
    <2>7. ASSUME NEW v \in Workers \ {w}, worker'[v] = "reported"
          PROVE  ResultsOf(tasks[held[v]])' # {}
      <3>1. worker[v] = "reported"
        BY <2>5, <2>7
      <3>2. tasks[held[v]] \in Jobs /\ ResultsOf(tasks[held[v]]) # {}
        BY <3>1, HeldTask DEF WorkersInv
      <3>3. QED
        BY <2>3, <2>4, <3>2
    <2>8. WorkersInv'
      BY <2>3, <2>5, <2>6, <2>7 DEF WorkersInv
    <2>9. QED
      BY <1>3, <2>3, <2>4, <2>8
  <1>7. ASSUME NEW w \in Workers, AcknowledgeTask(w)
        PROVE  WorkersInv' /\ TaskNotForgotten'
    <2>1. UNCHANGED <<tasks, given, updates>> /\ worker[w] = "reported"
      BY <1>7 DEF AcknowledgeTask
    <2>2. /\ \A v \in Workers \ {w} : held'[v] = held[v] /\ worker'[v] = worker[v]
          /\ held'[w] = 0 /\ worker'[w] = "idle"
      BY <1>7 DEF AcknowledgeTask, WorkersTypeOK
    <2>3. \A j : UNCHANGED ResultsOf(j)
      BY <2>1 DEF ResultsOf
    <2>4. WorkersInv'
      BY <2>1, <2>2, <2>3 DEF WorkersInv
    <2>5. ResultsOf(tasks[held[w]]) # {}
      BY <2>1 DEF WorkersInv
    <2>6. TaskNotForgotten'
      BY <2>1, <2>2, <2>3, <2>5 DEF TaskNotForgotten
    <2>7. QED
      BY <2>4, <2>6
  <1>8. ASSUME NEW w \in Workers, WorkerCrash(w) PROVE WorkersInv' /\ TaskNotForgotten'
    <2>1. UNCHANGED <<taskVars, updates>>
      BY <1>8 DEF WorkerCrash
    <2>2. \A j : UNCHANGED ResultsOf(j)
      BY <2>1 DEF ResultsOf
    <2>3. WorkersInv'
      BY <1>8, <2>1, <2>2 DEF WorkerCrash, WorkersInv, WorkersTypeOK
    <2>4. QED
      BY <1>3, <2>1, <2>2, <2>3
  <1>9. CASE UNCHANGED <<taskVars, updates, worker>>
    <2>1. \A j : UNCHANGED ResultsOf(j)
      BY <1>9 DEF ResultsOf
    <2>2. QED
      BY <1>9, <2>1 DEF WorkersInv, TaskNotForgotten
  <1>10. QED
    BY <1>2, <1>4, <1>5, <1>6, <1>7, <1>8, <1>9 DEF vars, Next, BrokerDown, BrokerUp, Cancel,
       RequestJobReplyLost, IngressStep, CheckAlive, RequestJob, NoJobPending, WriteJobTaken,
       RejectForeign, IngressCrash, WorkerStep, UpdaterStep, ReadUpdate, ReportAccepted,
       ReportRefused, ReportFailed, AcknowledgeUpdate, UpdaterCrash

---------------------------------------------------------------------------
\* Statuses only move on: no step makes a job pending, or leaves a final status.
LEMMA StatusMovesOn ==
  ASSUME IInv, [Next]_vars, NEW j \in Jobs
  PROVE  /\ status[j] # "pending" => status'[j] # "pending"
         /\ status[j] \in Final => status'[j] = status[j]
  <1>0. IngressTypeOK /\ JobsInv /\ UpdaterTypeOK /\ UpdaterInv
    BY DEF IInv, TypeOK
  <1> USE DEF gitlabVars, taskVars, updateVars, updaterVars, ingressVars
  <1>1. ASSUME NEW i \in Jobs, Cancel(i) \/ RequestJobReplyLost(i) \/ RequestJob(i)
        PROVE  /\ status[j] # "pending" => status'[j] # "pending"
               /\ status[j] \in Final => status'[j] = status[j]
    BY <1>0, <1>1 DEF IngressTypeOK, Final, Cancel, RequestJobReplyLost, RequestJob
  <1>2. CASE RejectForeign
    BY <1>0, <1>2 DEF IngressTypeOK, Final, JobsInv, RejectForeign
  <1>3. CASE AcceptUpdate
    BY <1>0, <1>3 DEF IngressTypeOK, Final, AcceptUpdate, StatusOf
  <1>4. CASE UNCHANGED status
    BY <1>4
  <1>5. QED
    BY <1>1, <1>2, <1>3, <1>4 DEF vars, Next, BrokerDown, BrokerUp, IngressStep, CheckAlive,
       NoJobPending, WriteJobTaken, PublishTask, PublishEnqueued, IngressCrash, WorkerStep,
       ReadTask, RefuseTask, StartTask, FinishTask, AcknowledgeTask, WorkerCrash, UpdaterStep,
       ReadUpdate, ReportAccepted, ReportRefused, ReportFailed, AcknowledgeUpdate, UpdaterCrash

\* Every step keeps that a job is given out, and published, once.
LEMMA NextJobsInv == IInv /\ [Next]_vars => JobsInv'
  <1> SUFFICES ASSUME IInv, IngressTypeOK, WorkersTypeOK, UpdaterTypeOK, WorkersInv, JobsInv,
                      [Next]_vars
               PROVE  JobsInv'
    BY DEF IInv, TypeOK
  <1> USE DEF gitlabVars, taskVars, updateVars, updaterVars, ingressVars
  <1>1. \A j \in Jobs : status[j] # "pending" => status'[j] # "pending"
    BY StatusMovesOn
  <1>2. /\ \A i \in 1 .. Len(tasks) : tasks[i] \in Jobs
        /\ \A k \in 1 .. Len(updates) : updates[k].job \in Jobs
    <2>1. \A k \in 1 .. Len(updates) : updates[k] \in Update
      BY DEF UpdaterTypeOK
    <2>2. QED
      BY <2>1 DEF WorkersTypeOK, Update
  <1>3. CASE UNCHANGED <<tasks, updates, ingress>>
    BY <1>1, <1>2, <1>3 DEF JobsInv
  <1>4. CASE /\ UNCHANGED <<tasks, updates>>
             /\ \/ ingress'.at \in {"idle", "alive"}
                \/ ingress.at = "requested" /\ ingress'.at = "taken" /\ ingress'.job = ingress.job
    BY <1>1, <1>2, <1>4 DEF JobsInv
  <1>5. ASSUME NEW j \in Jobs, RequestJob(j) PROVE JobsInv'
    <2>1. /\ UNCHANGED <<tasks, updates>>
          /\ ingress' = [at |-> "requested", job |-> j]
          /\ status[j] = "pending"
          /\ status'[j] = "running"
      BY <1>5 DEF RequestJob, IngressTypeOK
    <2>2. \A i \in 1 .. Len(tasks) : tasks[i] # j
      BY <2>1 DEF JobsInv
    <2>3. QED
      BY <1>1, <1>2, <2>1, <2>2 DEF JobsInv
  <1>6. CASE PublishTask
    <2>1. /\ UNCHANGED <<updates, status>>
          /\ ingress.at = "taken"
          /\ ingress'.at = "published" /\ ingress'.job = ingress.job
      BY <1>6 DEF PublishTask, IngressTypeOK
    <2>2. /\ ingress.job \in Jobs
          /\ status[ingress.job] # "pending"
          /\ \A i \in 1 .. Len(tasks) : tasks[i] # ingress.job
      BY <2>1 DEF JobsInv
    <2>3. /\ Len(tasks') = Len(tasks) + 1
          /\ Len(tasks) \in Nat
          /\ \A i \in 1 .. Len(tasks) : tasks'[i] = tasks[i]
          /\ tasks'[Len(tasks) + 1] = ingress.job
      BY <1>6, <2>2 DEF PublishTask, WorkersTypeOK
    <2>4. QED
      BY <2>1, <2>2, <2>3 DEF JobsInv
  <1>7. ASSUME UNCHANGED <<tasks, status>>, ingress' = ingress \/ ingress'.at = "idle",
               NEW j \in Jobs, NEW s \in {"enqueued", "running"} \union Results, Report(j, s),
               status[j] # "pending"
        PROVE  JobsInv'
    <2>1. /\ Len(updates') = Len(updates) + 1
          /\ \A k \in 1 .. Len(updates) : updates'[k] = updates[k]
          /\ updates'[Len(updates) + 1] = [job |-> j, status |-> s]
      BY <1>7, ReportGrows
    <2>2. Len(updates) \in Nat
      BY DEF UpdaterTypeOK
    <2>3. QED
      BY <1>7, <2>1, <2>2 DEF JobsInv
  <1>8. CASE PublishEnqueued
    BY <1>7, <1>8 DEF PublishEnqueued, Report, JobsInv, Idle
  <1>9. ASSUME NEW w \in Workers, RefuseTask(w) \/ StartTask(w) \/ FinishTask(w) PROVE JobsInv'
    <2>1. UNCHANGED <<tasks, status, ingress>> /\ worker[w] # "idle"
      BY <1>9 DEF RefuseTask, StartTask, FinishTask
    <2>2. status[tasks[held[w]]] # "pending"
      BY <2>1, HeldTask DEF JobsInv
    <2>3. QED
      BY <1>7, <1>9, <2>1, <2>2, WorkerReports
  <1>10. CASE CheckAlive \/ NoJobPending \/ RejectForeign \/ IngressCrash \/ WriteJobTaken
    BY <1>4, <1>10 DEF CheckAlive, NoJobPending, WriteJobTaken, RejectForeign, IngressCrash,
       Idle, IngressTypeOK
  <1>11. QED
    BY <1>3, <1>5, <1>6, <1>8, <1>9, <1>10 DEF vars, Next, BrokerDown, BrokerUp, Cancel,
       RequestJobReplyLost, IngressStep, WorkerStep, ReadTask, AcknowledgeTask, WorkerCrash,
       UpdaterStep, ReadUpdate, ReportAccepted, ReportRefused, ReportFailed, AcknowledgeUpdate,
       UpdaterCrash

\* A step appends at most one update and keeps the earlier ones.
LEMMA UpdatesGrow ==
  ASSUME IInv, [Next]_vars
  PROVE  /\ Len(updates) \in Nat
         /\ Len(updates') \in {Len(updates), Len(updates) + 1}
         /\ \A k \in 1 .. Len(updates) : updates'[k] = updates[k]
  <1>0. WorkersTypeOK /\ WorkersInv /\ UpdaterTypeOK /\ JobsInv
    BY DEF IInv, TypeOK
  <1>1. Len(updates) \in Nat
    BY <1>0 DEF UpdaterTypeOK
  <1>2. CASE UNCHANGED updates
    BY <1>1, <1>2
  <1>3. CASE PublishEnqueued
    <2>1. Report(ingress.job, "enqueued") /\ ingress.job \in Jobs
      BY <1>0, <1>3 DEF PublishEnqueued, Report, JobsInv
    <2>2. QED
      BY <1>0, <1>1, <2>1, ReportGrows
  <1>4. ASSUME NEW w \in Workers, RefuseTask(w) \/ StartTask(w) \/ FinishTask(w)
        PROVE  /\ Len(updates') = Len(updates) + 1
               /\ \A k \in 1 .. Len(updates) : updates'[k] = updates[k]
    BY <1>0, <1>4, WorkerReports, ReportGrows
  <1>5. QED
    BY <1>1, <1>2, <1>3, <1>4 DEF vars, updateVars, Next, BrokerDown, BrokerUp, Cancel,
       RequestJobReplyLost, IngressStep, CheckAlive, RequestJob, NoJobPending, WriteJobTaken,
       RejectForeign, PublishTask, IngressCrash, WorkerStep, ReadTask, AcknowledgeTask,
       WorkerCrash, UpdaterStep, ReadUpdate, ReportAccepted, ReportRefused, ReportFailed,
       AcknowledgeUpdate, UpdaterCrash

\* What has been read brings the same results before and after a step.
LEMMA ReadResults ==
  ASSUME IInv, [Next]_vars, NEW j \in Jobs, NEW k \in 1 .. Len(updates)
  PROVE  k \in ResultsOf(j)' <=> k \in ResultsOf(j)
  <1>1. updates \in Seq(Update) /\ updates' \in Seq(Update)
    <2>1. UpdaterTypeOK
      BY DEF IInv, TypeOK
    <2>2. UpdaterTypeOK'
      BY NextUpdaterTypeOK
    <2>3. QED
      BY <2>1, <2>2 DEF UpdaterTypeOK
  <1>2. QED
    BY <1>1, UpdatesGrow DEF ResultsOf

\* Every step keeps what the updater knows of its update.
LEMMA NextUpdaterInv == IInv /\ [Next]_vars => UpdaterInv'
  <1> SUFFICES ASSUME IInv, IngressTypeOK, WorkersTypeOK, UpdaterTypeOK, WorkersInv, JobsInv,
                      UpdaterInv, [Next]_vars
               PROVE  UpdaterInv'
    BY DEF IInv, TypeOK
  <1> USE DEF gitlabVars, taskVars, updateVars, updaterVars, ingressVars
  <1>1. \A j \in Jobs : status[j] \in Final => status'[j] = status[j]
    BY StatusMovesOn
  <1>2. CASE UNCHANGED <<read, unacked, updaterVars>>
    <2>1. updater # "idle" => updates'[unacked] = updates[unacked]
      BY UpdatesGrow, UnackedUpdate
    <2>2. QED
      BY <1>1, <1>2, <2>1, UnackedUpdate DEF UpdaterInv
  <1>3. CASE ReadUpdate
    BY <1>3 DEF ReadUpdate, UpdaterInv, UpdaterTypeOK
  <1>4. CASE AcknowledgeUpdate \/ UpdaterCrash
    BY <1>4 DEF AcknowledgeUpdate, UpdaterCrash, UpdaterInv
  <1>5. CASE ReportAccepted
    <2>1. /\ UNCHANGED <<updates, read, unacked, dropped>>
          /\ updater = "reporting" /\ updater' = "reported"
          /\ AcceptUpdate
      BY <1>5 DEF ReportAccepted
    <2>2. updates[unacked].status \in Results => status'[updates[unacked].job] \in Final
      BY <2>1, UnackedUpdate DEF AcceptUpdate, StatusOf, Final, IngressTypeOK
    <2>3. QED
      BY <2>1, <2>2 DEF UpdaterInv
  <1>6. CASE ReportRefused
    <2>1. /\ UNCHANGED <<updates, read, unacked, dropped, status>>
          /\ updater = "reporting" /\ updater' = "reported"
          /\ status[updates[unacked].job] # "running"
      BY <1>6 DEF ReportRefused
    <2>2. status[updates[unacked].job] \in Final
      BY <2>1, UnackedUpdate DEF JobsInv, IngressTypeOK
    <2>3. QED
      BY <2>1, <2>2 DEF UpdaterInv
  <1>7. CASE ReportFailed
    <2>1. UNCHANGED <<updates, read, unacked>> /\ updater = "reporting"
      BY <1>7 DEF ReportFailed
    <2>2. updater' = "reported" => (updates[unacked].status \in Results => unacked \in dropped')
      BY <1>7 DEF ReportFailed
    <2>3. QED
      BY <2>1, <2>2 DEF UpdaterInv
  <1>8. QED
    BY <1>2, <1>3, <1>4, <1>5, <1>6, <1>7 DEF vars, Next, BrokerDown, BrokerUp, Cancel,
       RequestJobReplyLost, IngressStep, CheckAlive, RequestJob, NoJobPending, WriteJobTaken,
       RejectForeign, PublishTask, PublishEnqueued, IngressCrash, WorkerStep, ReadTask,
       RefuseTask, StartTask, FinishTask, AcknowledgeTask, WorkerCrash, UpdaterStep

---------------------------------------------------------------------------
\* Every step keeps that no result is forgotten.
LEMMA NextResultNotForgotten == IInv /\ [Next]_vars => ResultNotForgotten'
  <1> SUFFICES ASSUME IInv, [Next]_vars, NEW j \in Jobs, NEW k \in ResultsOf(j)', k <= read'
               PROVE  k = unacked' \/ k \in dropped' \/ status'[j] \in Final
    BY DEF ResultNotForgotten
  <1>1. UpdaterTypeOK /\ UpdaterInv /\ ResultNotForgotten
    BY DEF IInv, TypeOK
  <1>2. status[j] \in Final => status'[j] \in Final
    BY StatusMovesOn
  <1>3. k \in Nat \ {0} /\ read \in 0 .. Len(updates) /\ Len(updates) \in Nat
    <2>1. UpdaterTypeOK'
      BY NextUpdaterTypeOK
    <2>2. updates' \in Seq(Update)
      BY <2>1 DEF UpdaterTypeOK
    <2>3. QED
      BY <1>1, <2>2 DEF UpdaterTypeOK, ResultsOf
  <1>4. k <= read => k \in ResultsOf(j)
    BY <1>3, ReadResults
  <1>5. k <= read => k = unacked \/ k \in dropped \/ status[j] \in Final
    BY <1>1, <1>4 DEF ResultNotForgotten
  <1>6. CASE UNCHANGED <<read, unacked>> /\ dropped \subseteq dropped'
    BY <1>2, <1>5, <1>6
  <1>7. CASE ReadUpdate
    <2>1. UNCHANGED dropped
      BY <1>7 DEF ReadUpdate, updaterVars
    <2>2. CASE unacked = 0 /\ read' = read + 1 /\ unacked' = read + 1
      <3>1. k = read + 1 \/ k <= read
        BY <1>3, <2>2
      <3>2. QED
        BY <1>2, <1>3, <1>5, <2>1, <2>2, <3>1
    <2>3. QED
      BY <1>6, <1>7, <2>1, <2>2 DEF ReadUpdate
  <1>8. CASE AcknowledgeUpdate
    <2>1. updater = "reported" /\ UNCHANGED <<read, dropped>>
      BY <1>8 DEF AcknowledgeUpdate
    <2>2. k = unacked => k \in dropped \/ status[j] \in Final
      <3> SUFFICES ASSUME k = unacked PROVE k \in dropped \/ status[j] \in Final
        OBVIOUS
      <3>1. updates[k].job = j /\ updates[k].status \in Results
        BY <1>4, <2>1 , UnackedUpdate, <1>1, <1>3 DEF ResultsOf
      <3>2. QED
        BY <1>1, <2>1, <3>1 DEF UpdaterInv
    <2>3. QED
      BY <1>2, <1>5, <2>1, <2>2
  <1>9. QED
    BY <1>6, <1>7, <1>8 DEF vars, updateVars, updaterVars, Next, BrokerDown, BrokerUp, Cancel,
       RequestJobReplyLost, IngressStep, CheckAlive, RequestJob, NoJobPending, WriteJobTaken,
       RejectForeign, PublishTask, PublishEnqueued, IngressCrash, WorkerStep, ReadTask,
       RefuseTask, StartTask, FinishTask, AcknowledgeTask, WorkerCrash, UpdaterStep,
       ReportAccepted, ReportRefused, ReportFailed, UpdaterCrash

\* Only the updater decides a job of a known project, by the update it holds.
LEMMA DecidedByUpdate ==
  ASSUME IInv, [Next]_vars, NEW j \in Jobs \ Foreign,
         status'[j] \in {"success", "failed"}, status'[j] # status[j]
  PROVE  /\ updater # "idle"
         /\ status[j] = "running"
         /\ updates[unacked].job = j
         /\ updates[unacked].status \in Results
         /\ status'[j] = StatusOf(updates[unacked].status)
         /\ UNCHANGED <<read, unacked>>
  <1>0. IngressTypeOK
    BY DEF IInv, TypeOK
  <1>1. ASSUME AcceptUpdate
        PROVE  /\ status[j] = "running"
               /\ updates[unacked].job = j
               /\ updates[unacked].status \in Results
               /\ status'[j] = StatusOf(updates[unacked].status)
    BY <1>0, <1>1 DEF IngressTypeOK, AcceptUpdate
  <1>2. ASSUME NEW i \in Jobs, Cancel(i) \/ RequestJobReplyLost(i) \/ RequestJob(i) PROVE FALSE
    BY <1>0, <1>2 DEF IngressTypeOK, Cancel, RequestJobReplyLost, RequestJob
  <1>3. ~RejectForeign
    BY <1>0 DEF IngressTypeOK, RejectForeign
  <1>4. AcceptUpdate /\ (ReportAccepted \/ ReportFailed \/ UpdaterCrash)
    BY <1>2, <1>3 DEF vars, gitlabVars, Next, BrokerDown, BrokerUp, IngressStep, CheckAlive,
       NoJobPending, WriteJobTaken, PublishTask, PublishEnqueued, IngressCrash, WorkerStep,
       ReadTask, RefuseTask, StartTask, FinishTask, AcknowledgeTask, WorkerCrash, UpdaterStep,
       ReadUpdate, ReportAccepted, ReportRefused, ReportFailed, AcknowledgeUpdate, UpdaterCrash
  <1>5. QED
    BY <1>1, <1>4 DEF ReportAccepted, ReportFailed, UpdaterCrash, updateVars

\* Every step keeps that the first result decides.
LEMMA NextFirstResultWins == IInv /\ [Next]_vars => FirstResultWins'
  <1> SUFFICES ASSUME IInv, [Next]_vars, NEW j \in Jobs \ Foreign,
                      status'[j] \in {"success", "failed"}
               PROVE  \E k \in ResultsOf(j)' :
                         /\ k <= read'
                         /\ status'[j] = StatusOf(updates'[k].status)
                         /\ \A i \in ResultsOf(j)' : i < k => i \in dropped'
    BY DEF FirstResultWins
  <1>1. UpdaterTypeOK /\ UpdaterInv /\ ResultNotForgotten /\ FirstResultWins
    BY DEF IInv, TypeOK
  <1>2. read \in 0 .. Len(updates) /\ Len(updates) \in Nat
    BY <1>1 DEF UpdaterTypeOK
  <1>3. dropped \subseteq dropped' /\ read' \in {read, read + 1}
    BY DEF vars, updateVars, updaterVars, Next, BrokerDown, BrokerUp, Cancel,
       RequestJobReplyLost, IngressStep, CheckAlive, RequestJob, NoJobPending, WriteJobTaken,
       RejectForeign, PublishTask, PublishEnqueued, IngressCrash, WorkerStep, ReadTask,
       RefuseTask, StartTask, FinishTask, AcknowledgeTask, WorkerCrash, UpdaterStep,
       ReadUpdate, ReportAccepted, ReportRefused, ReportFailed, AcknowledgeUpdate, UpdaterCrash
  <1>4. \A k \in ResultsOf(j)' : k \in Nat \ {0}
    <2>1. UpdaterTypeOK'
      BY NextUpdaterTypeOK
    <2>2. updates' \in Seq(Update)
      BY <2>1 DEF UpdaterTypeOK
    <2>3. QED
      BY <2>2 DEF ResultsOf
  <1>5. \A k \in 1 .. read : k \in ResultsOf(j)' <=> k \in ResultsOf(j)
    BY <1>2, ReadResults
  <1>6. \A k \in 1 .. read : updates'[k] = updates[k]
    BY <1>2, UpdatesGrow
  <1>7. CASE status'[j] = status[j]
    <2>1. PICK k \in ResultsOf(j) : /\ k <= read
                                   /\ status[j] = StatusOf(updates[k].status)
                                   /\ \A i \in ResultsOf(j) : i < k => i \in dropped
      BY <1>1, <1>7 DEF FirstResultWins
    <2>2. k \in 1 .. read
      BY <1>1, <1>2, <2>1 DEF ResultsOf, UpdaterTypeOK
    <2>3. ASSUME NEW i \in ResultsOf(j)', i < k PROVE i \in dropped'
      <3>1. i \in 1 .. read
        BY <1>2, <1>4, <2>2, <2>3
      <3>2. QED
        BY <1>3, <1>5, <2>1, <2>3, <3>1
    <2>4. QED
      BY <1>2, <1>3, <1>5, <1>6, <1>7, <2>1, <2>2, <2>3
  <1>8. CASE status'[j] # status[j]
    <2>1. /\ updater # "idle"
          /\ status[j] = "running"
          /\ updates[unacked].job = j
          /\ updates[unacked].status \in Results
          /\ status'[j] = StatusOf(updates[unacked].status)
          /\ UNCHANGED <<read, unacked>>
      BY <1>8, DecidedByUpdate
    <2>2. unacked = read /\ unacked \in 1 .. Len(updates)
      BY <1>1, <2>1, UnackedUpdate
    <2>3. unacked \in ResultsOf(j)
      BY <1>1, <2>1, <2>2 DEF ResultsOf, UpdaterTypeOK
    <2>4. ASSUME NEW i \in ResultsOf(j)', i < unacked PROVE i \in dropped'
      <3>1. i \in 1 .. read /\ i # unacked /\ i <= read
        BY <1>2, <1>4, <2>2, <2>4
      <3>2. i \in ResultsOf(j)
        BY <1>5, <2>4, <3>1
      <3>3. i \in dropped \/ status[j] \in Final
        BY <1>1, <3>1, <3>2 DEF ResultNotForgotten
      <3>4. QED
        BY <1>3, <2>1, <3>3 DEF Final
    <2>5. unacked \in 1 .. read
      BY <1>2, <2>2
    <2>6. QED
      BY <1>2, <1>5, <1>6, <2>1, <2>2, <2>3, <2>4, <2>5
  <1>9. QED
    BY <1>7, <1>8

---------------------------------------------------------------------------
\* Every step keeps the inductive invariant.
LEMMA NextIInv == IInv /\ [Next]_vars => IInv'
  BY NextIngressTypeOK, NextWorkersTypeOK, NextUpdaterTypeOK, NextWorkersInv, NextJobsInv,
     NextUpdaterInv, NextLossInv, NextResultNotForgotten, NextFirstResultWins DEF IInv, TypeOK

\* The inductive invariant holds in every state the pipeline can be in.
THEOREM IInvHolds == Spec => []IInv
  BY InitIInv, NextIInv, PTL DEF Spec

\* The streams, GitLab and the processes keep the values the code gives them.
THEOREM TypeCorrect == Spec => []TypeOK
  <1>1. IInv => TypeOK
    BY DEF IInv
  <1>2. QED
    BY <1>1, IInvHolds, PTL

\* A task given to a worker is with a worker until a result was written, for
\* whatever crashes and outages: run_single_task() acknowledges last.
THEOREM TaskNotForgottenHolds == Spec => []TaskNotForgotten
  <1>1. IInv => TaskNotForgotten
    BY DEF IInv
  <1>2. QED
    BY <1>1, IInvHolds, PTL

\* A result that was read is being reported, was given up, or decided the job:
\* process_one_update() acknowledges last.
THEOREM ResultNotForgottenHolds == Spec => []ResultNotForgotten
  <1>1. IInv => ResultNotForgotten
    BY DEF IInv
  <1>2. QED
    BY <1>1, IInvHolds, PTL

\* No two workers hold tasks of the same job.
THEOREM OneWorkerPerJobHolds == Spec => []OneWorkerPerJob
  <1>1. IInv => OneWorkerPerJob
    <2> SUFFICES ASSUME IInv, NEW v \in Workers, NEW w \in Workers,
                        v # w, held[v] # 0, held[w] # 0
                 PROVE  tasks[held[v]] # tasks[held[w]]
      BY DEF OneWorkerPerJob
    <2>1. held[v] # held[w]
      BY DEF IInv, WorkersInv
    <2>2. held[v] \in 1 .. Len(tasks) /\ held[w] \in 1 .. Len(tasks)
      BY DEF IInv, TypeOK, WorkersTypeOK
    <2>3. QED
      BY <2>1, <2>2 DEF IInv, JobsInv
  <1>2. QED
    BY <1>1, IInvHolds, PTL

\* However often crashes repeat a job, the first result that was not given up
\* is the one GitLab shows.
THEOREM FirstResultWinsHolds == Spec => []FirstResultWins
  <1>1. IInv => FirstResultWins
    BY DEF IInv
  <1>2. QED
    BY <1>1, IInvHolds, PTL

\* A fault loses at most one job: the ingress requests no job while the broker
\* does not answer.
THEOREM LossesAreFaultsHolds == Spec => []LossesAreFaults
  <1>1. IInv => LossesAreFaults
    <2> SUFFICES ASSUME IInv PROVE Cardinality(lost) <= faults
      BY DEF LossesAreFaults
    <2>1. IsFiniteSet(lost)
      BY ConstantsAssumption, FS_Subset DEF ConstantsAssumption, IInv, TypeOK, IngressTypeOK
    <2>2. Cardinality(lost) \in Nat /\ faults \in Nat
      BY <2>1, FS_CardinalityType DEF IInv, TypeOK, IngressTypeOK
    <2>3. QED
      BY <2>2 DEF IInv, LossInv, AtRisk
  <1>2. QED
    BY <1>1, IInvHolds, PTL

\* All of that together: crashes and outages forget neither a task nor a result,
\* and a job is with one worker.
THEOREM SafetyHolds == Spec => []Safety
<1>1. TypeOK /\ TaskNotForgotten /\ ResultNotForgotten /\ OneWorkerPerJob /\ LossesAreFaults => Safety
  BY DEF Safety
<1>2. QED
  BY <1>1, TypeCorrect, TaskNotForgottenHolds, ResultNotForgottenHolds, OneWorkerPerJobHolds, LossesAreFaultsHolds, PTL

---------------------------------------------------------------------------
\* What bounds the executions of a job: it has none before a worker was given its
\* task, and a worker that may execute it once more has one fault to spare.
Waiting(w) == held[w] # 0 /\ (broker = "down" \/ worker[w] \in {"idle", "ready"})

RunsInv ==
  \A j \in Jobs :
     /\ IsFiniteSet(Runs(j))
     /\ Cardinality(Runs(j)) <= 1 + faults
     /\ (\A i \in 1 .. given : tasks[i] # j) => Runs(j) = {}
     /\ \A w \in Workers : (Waiting(w) /\ tasks[held[w]] = j) => Cardinality(Runs(j)) <= faults

\* An update is an execution of its job or none.
LEMMA ReportRuns ==
  ASSUME UpdaterTypeOK, NEW j \in Jobs, NEW i \in Jobs,
         NEW s \in {"enqueued", "running"} \union Results, Report(i, s)
  PROVE  Runs(j)' = IF i = j /\ s = "running" THEN Runs(j) \union {Len(updates) + 1} ELSE Runs(j)
  <1>1. updates \in Seq(Update) /\ updates' \in Seq(Update)
    BY ReportGrows DEF UpdaterTypeOK
  <1>2. /\ Len(updates') = Len(updates) + 1 /\ Len(updates) \in Nat
        /\ \A k \in 1 .. Len(updates) : updates'[k] = updates[k]
        /\ updates'[Len(updates) + 1] = [job |-> i, status |-> s]
    BY <1>1, ReportGrows
  <1>3. /\ Runs(j) = {k \in 1 .. Len(updates) : updates[k] = [job |-> j, status |-> "running"]}
        /\ Runs(j)' = {k \in 1 .. Len(updates) + 1 :
                          updates'[k] = [job |-> j, status |-> "running"]}
    BY <1>1, <1>2 DEF Runs
  <1>4. [job |-> i, status |-> s] = [job |-> j, status |-> "running"] <=> i = j /\ s = "running"
    OBVIOUS
  <1>5. QED
    BY <1>2, <1>3, <1>4

\* The executions of a job grow by one, by the worker that starts its task.
LEMMA RunsGrow ==
  ASSUME IInv, [Next]_vars, NEW j \in Jobs
  PROVE  \/ Runs(j)' = Runs(j)
         \/ \E w \in Workers : /\ StartTask(w)
                               /\ tasks[held[w]] = j
                               /\ Runs(j)' = Runs(j) \union {Len(updates) + 1}
  <1>0. WorkersTypeOK /\ WorkersInv /\ UpdaterTypeOK /\ JobsInv
    BY DEF IInv, TypeOK
  <1>1. CASE UNCHANGED updates
    BY <1>1 DEF Runs
  <1>2. CASE PublishEnqueued
    <2>1. Report(ingress.job, "enqueued") /\ ingress.job \in Jobs
      BY <1>0, <1>2 DEF PublishEnqueued, Report, JobsInv
    <2>2. QED
      BY <1>0, <2>1, ReportRuns
  <1>3. ASSUME NEW w \in Workers, RefuseTask(w) \/ FinishTask(w) PROVE Runs(j)' = Runs(j)
    <2>1. tasks[held[w]] \in Jobs
      BY <1>0, <1>3, HeldTask DEF RefuseTask, FinishTask
    <2>2. PICK s \in Results : Report(tasks[held[w]], s)
      BY <1>3 DEF RefuseTask, FinishTask, Results
    <2>3. QED
      BY <1>0, <2>1, <2>2, ReportRuns DEF Results
  <1>4. ASSUME NEW w \in Workers, StartTask(w)
        PROVE  Runs(j)' = IF tasks[held[w]] = j THEN Runs(j) \union {Len(updates) + 1} ELSE Runs(j)
    <2>1. tasks[held[w]] \in Jobs
      BY <1>0, <1>4, HeldTask DEF StartTask
    <2>2. Report(tasks[held[w]], "running")
      BY <1>4 DEF StartTask
    <2>3. QED
      BY <1>0, <2>1, <2>2, ReportRuns
  <1>5. QED
    BY <1>1, <1>2, <1>3, <1>4 DEF vars, updateVars, Next, BrokerDown, BrokerUp, Cancel,
       RequestJobReplyLost, IngressStep, CheckAlive, RequestJob, NoJobPending, WriteJobTaken,
       RejectForeign, PublishTask, IngressCrash, WorkerStep, ReadTask, AcknowledgeTask,
       WorkerCrash, UpdaterStep, ReadUpdate, ReportAccepted, ReportRefused, ReportFailed,
       AcknowledgeUpdate, UpdaterCrash

\* A worker begins to wait for a task by a fault, or with a task that is new.
LEMMA WaitingBegins ==
  ASSUME IInv, [Next]_vars, NEW w \in Workers, Waiting(w)', tasks' = tasks
  PROVE  \/ Waiting(w) /\ held'[w] = held[w]
         \/ held[w] # 0 /\ held'[w] = held[w] /\ faults' = faults + 1
         \/ held'[w] = given + 1 /\ given < Len(tasks)
  <1>0. WorkersTypeOK /\ WorkersInv
    BY DEF IInv, TypeOK
  <1> USE DEF gitlabVars, taskVars, updateVars, updaterVars, ingressVars
  <1>1. CASE UNCHANGED <<held, worker, broker>>
    BY <1>1 DEF Waiting
  <1>2. CASE BrokerDown \/ BrokerUp
    BY <1>2 DEF Waiting, BrokerDown, BrokerUp
  <1>3. ASSUME NEW v \in Workers, ReadTask(v)
        PROVE  \/ Waiting(w) /\ held'[w] = held[w]
               \/ held'[w] = given + 1 /\ given < Len(tasks)
    BY <1>0, <1>3 DEF Waiting, ReadTask, WorkersTypeOK
  <1>4. ASSUME NEW v \in Workers, WorkerCrash(v)
        PROVE  \/ Waiting(w) /\ held'[w] = held[w]
               \/ held[w] # 0 /\ held'[w] = held[w] /\ faults' = faults + 1
    BY <1>0, <1>4 DEF Waiting, WorkerCrash, Fault, WorkersTypeOK
  <1>5. ASSUME NEW v \in Workers, RefuseTask(v) \/ StartTask(v) \/ FinishTask(v)
        PROVE  Waiting(w) /\ held'[w] = held[w]
    BY <1>0, <1>5 DEF Waiting, RefuseTask, StartTask, FinishTask, WorkersTypeOK
  <1>6. ASSUME NEW v \in Workers, AcknowledgeTask(v)
        PROVE  Waiting(w) /\ held'[w] = held[w]
    BY <1>0, <1>6 DEF Waiting, AcknowledgeTask, WorkersTypeOK
  <1>7. QED
    BY <1>1, <1>2, <1>3, <1>4, <1>5, <1>6 DEF vars, Next, Cancel, RequestJobReplyLost,
       IngressStep, CheckAlive, RequestJob, NoJobPending, WriteJobTaken, RejectForeign,
       PublishTask, PublishEnqueued, IngressCrash, WorkerStep, UpdaterStep, ReadUpdate,
       ReportAccepted, ReportRefused, ReportFailed, AcknowledgeUpdate, UpdaterCrash

\* Every step keeps the bound on the executions of a job.
LEMMA NextRunsInv == IInv /\ RunsInv /\ [Next]_vars => RunsInv'
  <1> SUFFICES ASSUME IInv, RunsInv, [Next]_vars, NEW j \in Jobs
               PROVE  /\ IsFiniteSet(Runs(j)')
                      /\ Cardinality(Runs(j)') <= 1 + faults'
                      /\ (\A i \in 1 .. given' : tasks'[i] # j) => Runs(j)' = {}
                      /\ \A w \in Workers : (Waiting(w)' /\ tasks'[held'[w]] = j)
                                            => Cardinality(Runs(j)') <= faults'
    BY DEF RunsInv
  <1>1. WorkersTypeOK /\ WorkersInv /\ JobsInv /\ IngressTypeOK
    BY DEF IInv, TypeOK
  <1>2. given \in 0 .. Len(tasks) /\ Len(tasks) \in Nat /\ faults \in Nat
    BY <1>1 DEF WorkersTypeOK, IngressTypeOK
  <1>3. faults' \in {faults, faults + 1}
    BY DEF vars, Next, BrokerDown, BrokerUp, Cancel, RequestJobReplyLost, IngressStep,
       CheckAlive, RequestJob, NoJobPending, WriteJobTaken, RejectForeign, PublishTask,
       PublishEnqueued, IngressCrash, WorkerStep, ReadTask, RefuseTask, StartTask, FinishTask,
       AcknowledgeTask, WorkerCrash, UpdaterStep, ReadUpdate, ReportAccepted, ReportRefused,
       ReportFailed, AcknowledgeUpdate, UpdaterCrash, Fault
  <1>4. /\ tasks' = tasks \/ PublishTask
        /\ given' \in {given, given + 1}
    BY DEF vars, taskVars, Next, BrokerDown, BrokerUp, Cancel, RequestJobReplyLost, IngressStep,
       CheckAlive, RequestJob, NoJobPending, WriteJobTaken, RejectForeign, PublishTask,
       PublishEnqueued, IngressCrash, WorkerStep, ReadTask, RefuseTask, StartTask, FinishTask,
       AcknowledgeTask, WorkerCrash, UpdaterStep, ReadUpdate, ReportAccepted, ReportRefused,
       ReportFailed, AcknowledgeUpdate, UpdaterCrash
  <1>5. \A i \in 1 .. Len(tasks) : tasks'[i] = tasks[i]
    BY <1>1, <1>4 DEF WorkersTypeOK, PublishTask
  <1>6. /\ IsFiniteSet(Runs(j)) /\ Cardinality(Runs(j)) \in Nat
        /\ Cardinality(Runs(j)) <= 1 + faults
        /\ (\A i \in 1 .. given : tasks[i] # j) => Runs(j) = {}
        /\ \A w \in Workers : (Waiting(w) /\ tasks[held[w]] = j) => Cardinality(Runs(j)) <= faults
    BY FS_CardinalityType DEF RunsInv
  <1>7. CASE Runs(j)' = Runs(j)
    <2>1. (\A i \in 1 .. given' : tasks'[i] # j) => Runs(j)' = {}
      BY <1>2, <1>4, <1>5, <1>6, <1>7
    <2>2. ASSUME NEW w \in Workers, Waiting(w)', tasks'[held'[w]] = j
          PROVE  Cardinality(Runs(j)) <= faults'
      <3>1. CASE PublishTask
        <4>1. Waiting(w) /\ held[w] \in 1 .. given /\ held'[w] = held[w]
          BY <1>1, <2>2, <3>1 DEF PublishTask, Waiting, WorkersTypeOK
        <4>2. tasks[held[w]] = j
          BY <1>2, <1>5, <2>2, <4>1
        <4>3. QED
          BY <1>2, <1>3, <1>6, <4>1, <4>2
      <3>2. CASE tasks' = tasks
        <4>1. CASE Waiting(w) /\ held'[w] = held[w]
          BY <1>2, <1>3, <1>6, <2>2, <3>2, <4>1
        <4>2. CASE held[w] # 0 /\ held'[w] = held[w] /\ faults' = faults + 1
          BY <1>2, <1>6, <4>2
        <4>3. CASE held'[w] = given + 1 /\ given < Len(tasks)
          <5>1. given + 1 \in 1 .. Len(tasks) /\ tasks[given + 1] = j
            BY <1>2, <2>2, <3>2, <4>3
          <5>2. \A i \in 1 .. given : tasks[i] # j
            BY <1>1, <1>2, <5>1 DEF JobsInv
          <5>3. Cardinality(Runs(j)) = 0
            BY <1>6, <5>2, FS_EmptySet
          <5>4. QED
            BY <1>2, <1>3, <5>3
        <4>4. QED
          BY <2>2, <3>2, <4>1, <4>2, <4>3, WaitingBegins
      <3>3. QED
        BY <1>4, <3>1, <3>2
    <2>3. QED
      BY <1>2, <1>3, <1>6, <1>7, <2>1, <2>2
  <1>8. ASSUME NEW v \in Workers, StartTask(v), tasks[held[v]] = j,
               Runs(j)' = Runs(j) \union {Len(updates) + 1}
        PROVE  /\ IsFiniteSet(Runs(j)')
               /\ Cardinality(Runs(j)') <= 1 + faults'
               /\ (\A i \in 1 .. given' : tasks'[i] # j) => Runs(j)' = {}
               /\ \A w \in Workers : ~(Waiting(w)' /\ tasks'[held'[w]] = j)
    <2>1. /\ worker[v] = "ready" /\ broker = "up" /\ broker' = "up"
          /\ UNCHANGED <<tasks, given, held, faults>>
          /\ worker' = [worker EXCEPT ![v] = "running"]
      BY <1>8 DEF StartTask, taskVars
    <2>2. held[v] \in 1 .. given /\ held[v] # 0
      BY <1>1, <2>1, HeldTask
    <2>3. Cardinality(Runs(j)) <= faults
      BY <1>6, <1>8, <2>1, <2>2 DEF Waiting
    <2>4. IsFiniteSet(Runs(j)') /\ Cardinality(Runs(j)') <= Cardinality(Runs(j)) + 1
      <3> DEFINE old == Runs(j)
                 k == Len(updates) + 1
      <3>1. IsFiniteSet(old) /\ Cardinality(old) \in Nat
        BY <1>6
      <3>2. /\ IsFiniteSet(old \union {k})
            /\ Cardinality(old \union {k}) \in {Cardinality(old), Cardinality(old) + 1}
        <4> HIDE DEF old, k
        <4> QED
          BY <3>1, FS_AddElement
      <3>3. QED
        BY <1>8, <3>1, <3>2
    <2>5. Cardinality(Runs(j)') \in Nat
      BY <2>4, FS_CardinalityType
    <2>6. ASSUME NEW w \in Workers, Waiting(w)', tasks'[held'[w]] = j PROVE FALSE
      <3>1. w # v
        BY <1>1, <2>1, <2>6 DEF Waiting, WorkersTypeOK
      <3>2. held[w] # 0 /\ held[w] # held[v]
        BY <1>1, <2>1, <2>2, <2>6, <3>1 DEF Waiting, WorkersInv
      <3>3. held[w] \in 1 .. Len(tasks) /\ held[v] \in 1 .. Len(tasks)
        BY <1>1, <1>2, <2>2, <3>2 DEF WorkersTypeOK
      <3>4. QED
        BY <1>1, <1>8, <2>1, <2>6, <3>2, <3>3 DEF JobsInv
    <2>7. QED
      BY <1>2, <1>6, <1>8, <2>1, <2>2, <2>3, <2>4, <2>5, <2>6
  <1>9. QED
    BY <1>7, <1>8, RunsGrow

\* However workers crash, a job is executed once and once more for each fault.
THEOREM RepetitionsAreFaultsHold == Spec => []RepetitionsAreFaults
  <1>1. Init => RunsInv
    <2> SUFFICES ASSUME Init, NEW j \in Jobs
                 PROVE  /\ Runs(j) = {} /\ faults = 0
                        /\ \A w \in Workers : ~Waiting(w)
      BY FS_EmptySet DEF RunsInv
    <2> QED
      BY DEF Init, Runs, Waiting
  <1>2. RunsInv => RepetitionsAreFaults
    BY DEF RunsInv, RepetitionsAreFaults
  <1>3. QED
    BY <1>1, <1>2, IInvHolds, NextRunsInv, PTL DEF Spec
=============================================================================
