--------------------------- MODULE TaskPipeline ----------------------------
(***************************************************************************)
(* The way of a GitLab job through the infrastructure:                     *)
(*                                                                         *)
(*   GitLab -> TaskIngress -> tasks stream -> Worker                       *)
(*   GitLab <- UpdateService <- updates stream <- TaskIngress, Worker      *)
(*                                                                         *)
(* The ingress (_task.py, gitlab_job_requester), the workers (worker/) and *)
(* the updater (_task_update.py, gitlab_job_updater) are processes that    *)
(* share nothing but the two streams and that systemd restarts.  A stream  *)
(* with its group is used here as ConsumerGroup establishes it: each       *)
(* consumer has at most one unacknowledged entry and gets it again first.  *)
(* Output of the tasks is left to GitlabTrace.                             *)
(***************************************************************************)
EXTENDS Naturals, Sequences, FiniteSets

CONSTANTS
  Jobs,        \* GitLab jobs meant for the runner
  Foreign,     \* those of a project the runner does not know
  Malformed,   \* those whose task make_local_task() refuses, as it may when
               \* another version of the ingress made it
  Cancelled,   \* those that users may cancel
  Workers,     \* worker processes
  RetryCount,  \* attempts to report an update, 12 in the code
  MaxFaults    \* bound on outages, crashes and lost replies

ASSUME ConstantsAssumption ==
  /\ IsFiniteSet(Jobs)
  /\ Foreign \subseteq Jobs
  /\ Malformed \subseteq Jobs
  /\ Cancelled \subseteq Jobs
  /\ RetryCount \in Nat \ {0}
  /\ MaxFaults \in Nat

VARIABLES
  status,   \* per job, its status in GitLab
  broker,   \* whether the message broker answers
  \* the tasks stream and the group of the workers
  tasks,    \* the entries: jobs
  given,    \* the last entry given to a worker
  held,     \* per worker, its unacknowledged entry; 0 if none
  \* the updates stream and the group of the only updater
  updates,  \* the entries: a job and the status it is said to have
  read,     \* the last entry given to the updater
  unacked,  \* the updater's unacknowledged entry; 0 if none
  \* the processes
  ingress,  \* where process_one_task() is and the job it has
  worker,   \* per worker, where run_single_task() is
  updater,  \* where process_one_update() is
  attempt,  \* the attempt it makes; 1 while it makes none
  \* history and bounds
  lost,     \* jobs that GitLab gave out and no stream received
  dropped,  \* entries of updates with a result that were given up
  faults

gitlabVars == <<status>>
taskVars == <<tasks, given, held>>
updateVars == <<updates, read, unacked>>
updaterVars == <<updater, attempt, dropped>>
ingressVars == <<ingress, lost>>
vars == <<gitlabVars, broker, taskVars, updateVars, ingressVars, worker, updaterVars, faults>>

Results == {"succeed", "failed"}
Final == {"success", "failed", "canceled"}
Update == [job : Jobs, status : {"enqueued", "running"} \union Results]
NoJob == "none"

IngressTypeOK ==
  /\ status \in [Jobs -> {"pending", "running"} \union Final]
  /\ broker \in {"up", "down"}
  /\ ingress \in [at : {"idle", "alive", "requested", "taken", "published"},
                 job : Jobs \union {NoJob}]
  /\ lost \in SUBSET Jobs
  /\ faults \in 0 .. MaxFaults

WorkersTypeOK ==
  /\ tasks \in Seq(Jobs)
  /\ given \in 0 .. Len(tasks)
  /\ held \in [Workers -> 0 .. given]
  /\ worker \in [Workers -> {"idle", "ready", "running", "reported"}]

UpdaterTypeOK ==
  /\ updates \in Seq(Update)
  /\ read \in 0 .. Len(updates)
  /\ unacked \in 0 .. read
  /\ updater \in {"idle", "reporting", "reported"}
  /\ attempt \in 1 .. RetryCount
  /\ dropped \in SUBSET (1 .. Len(updates))

TypeOK == IngressTypeOK /\ WorkersTypeOK /\ UpdaterTypeOK

Published == {tasks[i] : i \in DOMAIN tasks}

\* The entries of the updates stream that bring a result for the job.
ResultsOf(j) == {k \in DOMAIN updates : updates[k].job = j /\ updates[k].status \in Results}

\* What set_success() and set_failure() make of the job.
StatusOf(result) == IF result = "succeed" THEN "success" ELSE "failed"

Idle == [at |-> "idle", job |-> NoJob]

\* Users may have canceled jobs before the ingress asks for the first one.
Init ==
  /\ status \in [Jobs -> {"pending", "canceled"}]
  /\ \A j \in Jobs : status[j] = "canceled" => j \in Cancelled
  /\ broker = "up"
  /\ tasks = <<>>
  /\ given = 0
  /\ held = [w \in Workers |-> 0]
  /\ updates = <<>>
  /\ read = 0
  /\ unacked = 0
  /\ ingress = Idle
  /\ worker = [w \in Workers |-> "idle"]
  /\ updater = "idle"
  /\ attempt = 1
  /\ lost = {}
  /\ dropped = {}
  /\ faults = 0

---------------------------------------------------------------------------
\* A fault of its own, or a consequence of the broker's outage.
Fault ==
  \/ /\ faults < MaxFaults
     /\ faults' = faults + 1
  \/ /\ broker = "down"
     /\ UNCHANGED faults

BrokerDown ==
  /\ broker = "up"
  /\ faults < MaxFaults
  /\ broker' = "down"
  /\ faults' = faults + 1
  /\ UNCHANGED <<gitlabVars, taskVars, updateVars, ingressVars, worker, updaterVars>>

BrokerUp ==
  /\ broker = "down"
  /\ broker' = "up"
  /\ UNCHANGED <<gitlabVars, taskVars, updateVars, ingressVars, worker, updaterVars, faults>>

\* A user cancels the job in GitLab.
Cancel(j) ==
  /\ j \in Cancelled
  /\ status[j] \in {"pending", "running"}
  /\ status' = [status EXCEPT ![j] = "canceled"]
  /\ UNCHANGED <<broker, taskVars, updateVars, ingressVars, worker, updaterVars, faults>>

---------------------------------------------------------------------------
\* TaskIngress.process_one_task(), one action per call to another system.

\* is_alive(): PING answered; otherwise no job is requested.
CheckAlive ==
  /\ ingress.at = "idle"
  /\ broker = "up"
  /\ ingress' = [at |-> "alive", job |-> NoJob]
  /\ UNCHANGED <<gitlabVars, broker, taskVars, updateVars, lost, worker, updaterVars, faults>>

\* request_new_job(): GitLab gives a job to the runner, which is running then.
RequestJob(j) ==
  /\ ingress.at = "alive"
  /\ status[j] = "pending"
  /\ status' = [status EXCEPT ![j] = "running"]
  /\ ingress' = [at |-> "requested", job |-> j]
  /\ UNCHANGED <<broker, taskVars, updateVars, lost, worker, updaterVars, faults>>

\* The reply with the job is lost: GitLabConnection.request() asks again and
\* will be given another job.
RequestJobReplyLost(j) ==
  /\ ingress.at = "alive"
  /\ status[j] = "pending"
  /\ faults < MaxFaults
  /\ faults' = faults + 1
  /\ status' = [status EXCEPT ![j] = "running"]
  /\ lost' = lost \union {j}
  /\ UNCHANGED <<broker, taskVars, updateVars, ingress, worker, updaterVars>>

\* HTTP 204.
NoJobPending ==
  /\ ingress.at = "alive"
  /\ \A j \in Jobs : status[j] # "pending"
  /\ ingress' = Idle
  /\ UNCHANGED <<gitlabVars, broker, taskVars, updateVars, lost, worker, updaterVars, faults>>

\* request_new_job() writes the first line of the job's trace; for a job that
\* was cancelled meanwhile HTTP 403 ends the process, and the job is forgotten.
WriteJobTaken ==
  /\ ingress.at = "requested"
  /\ ingress' = IF status[ingress.job] = "running" THEN [ingress EXCEPT !.at = "taken"] ELSE Idle
  /\ UNCHANGED <<gitlabVars, broker, taskVars, updateVars, lost, worker, updaterVars, faults>>

\* GitlabJobInput.request_new_task() fails the job of an unknown project.
RejectForeign ==
  /\ ingress.at = "taken"
  /\ ingress.job \in Foreign
  /\ status' = IF status[ingress.job] = "running"
               THEN [status EXCEPT ![ingress.job] = "failed"]
               ELSE status
  /\ ingress' = Idle
  /\ UNCHANGED <<broker, taskVars, updateVars, lost, worker, updaterVars, faults>>

\* The write of the task.
PublishTask ==
  /\ ingress.at = "taken"
  /\ ingress.job \notin Foreign
  /\ broker = "up"
  /\ tasks' = Append(tasks, ingress.job)
  /\ ingress' = [ingress EXCEPT !.at = "published"]
  /\ UNCHANGED <<gitlabVars, broker, given, held, updateVars, lost, worker, updaterVars, faults>>

\* The write of the update that the task is enqueued, after the task itself.
PublishEnqueued ==
  /\ ingress.at = "published"
  /\ broker = "up"
  /\ updates' = Append(updates, [job |-> ingress.job, status |-> "enqueued"])
  /\ ingress' = Idle
  /\ UNCHANGED <<gitlabVars, broker, taskVars, read, unacked, lost, worker, updaterVars, faults>>

IngressCrash ==
  /\ ingress.at # "idle"
  /\ Fault
  /\ lost' = IF ingress.at \in {"requested", "taken"} THEN lost \union {ingress.job} ELSE lost
  /\ ingress' = Idle
  /\ UNCHANGED <<gitlabVars, broker, taskVars, updateVars, worker, updaterVars>>

---------------------------------------------------------------------------
\* Worker.run_single_task()

Report(j, s) == updates' = Append(updates, [job |-> j, status |-> s])

\* Faulty variant of ReadTask: the unacknowledged task is not asked for.
ReadNewTask(w) ==
  /\ worker[w] = "idle"
  /\ broker = "up"
  /\ given < Len(tasks)
  /\ given' = given + 1
  /\ held' = [held EXCEPT ![w] = given + 1]
  /\ worker' = [worker EXCEPT ![w] = "ready"]
  /\ UNCHANGED <<gitlabVars, broker, tasks, updateVars, ingressVars, updaterVars, faults>>

\* _get_raw_task(): the worker's own unacknowledged task first, else a new one.
ReadTask(w) ==
  /\ worker[w] = "idle"
  /\ broker = "up"
  /\ \/ held[w] # 0 /\ UNCHANGED <<given, held>>
     \/ /\ held[w] = 0
        /\ given < Len(tasks)
        /\ given' = given + 1
        /\ held' = [held EXCEPT ![w] = given + 1]
  /\ worker' = [worker EXCEPT ![w] = "ready"]
  /\ UNCHANGED <<gitlabVars, broker, tasks, updateVars, ingressVars, updaterVars, faults>>

\* make_local_task() fails: send_extraction_failed().
RefuseTask(w) ==
  /\ worker[w] = "ready"
  /\ tasks[held[w]] \in Malformed
  /\ broker = "up"
  /\ Report(tasks[held[w]], "failed")
  /\ worker' = [worker EXCEPT ![w] = "reported"]
  /\ UNCHANGED <<gitlabVars, broker, taskVars, read, unacked, ingressVars, updaterVars, faults>>

\* send_running(), then the script runs.
StartTask(w) ==
  /\ worker[w] = "ready"
  /\ tasks[held[w]] \notin Malformed
  /\ broker = "up"
  /\ Report(tasks[held[w]], "running")
  /\ worker' = [worker EXCEPT ![w] = "running"]
  /\ UNCHANGED <<gitlabVars, broker, taskVars, read, unacked, ingressVars, updaterVars, faults>>

\* The script ended or was killed at the timeout: send_finished().
FinishTask(w) ==
  /\ worker[w] = "running"
  /\ broker = "up"
  /\ \E result \in Results : Report(tasks[held[w]], result)
  /\ worker' = [worker EXCEPT ![w] = "reported"]
  /\ UNCHANGED <<gitlabVars, broker, taskVars, read, unacked, ingressVars, updaterVars, faults>>

\* Faulty variant of AcknowledgeTask: the entry stays pending.
KeepTask(w) ==
  /\ worker[w] = "reported"
  /\ broker = "up"
  /\ worker' = [worker EXCEPT ![w] = "idle"]
  /\ UNCHANGED <<gitlabVars, broker, taskVars, updateVars, ingressVars, updaterVars, faults>>

AcknowledgeTask(w) ==
  /\ worker[w] = "reported"
  /\ broker = "up"
  /\ held' = [held EXCEPT ![w] = 0]
  /\ worker' = [worker EXCEPT ![w] = "idle"]
  /\ UNCHANGED <<gitlabVars, broker, tasks, given, updateVars, ingressVars, updaterVars, faults>>

\* The worker's process ends before it acknowledges; the entry stays pending.
WorkerCrash(w) ==
  /\ worker[w] # "idle"
  /\ Fault
  /\ worker' = [worker EXCEPT ![w] = "idle"]
  /\ UNCHANGED <<gitlabVars, broker, taskVars, updateVars, ingressVars, updaterVars>>

---------------------------------------------------------------------------
\* UpdateService.process_one_update() with GitlabJobReportFactory.send_report()

ReadUpdate ==
  /\ updater = "idle"
  /\ broker = "up"
  /\ \/ unacked # 0 /\ UNCHANGED <<read, unacked>>
     \/ /\ unacked = 0
        /\ read < Len(updates)
        /\ read' = read + 1
        /\ unacked' = read + 1
  /\ updater' = "reporting"
  /\ UNCHANGED <<gitlabVars, broker, taskVars, updates, ingressVars, worker, attempt, dropped,
                 faults>>

\* Faulty variant of AcceptUpdate: the result of a finished job is set again.
AcceptAnyUpdate ==
  LET u == updates[unacked]
  IN  status' = IF u.status \in Results
                THEN [status EXCEPT ![u.job] = StatusOf(u.status)]
                ELSE status

\* GitLab takes the update: the trace of a running job only, and then the
\* status if the update is a result.
AcceptUpdate ==
  LET u == updates[unacked]
  IN  /\ status[u.job] = "running"
      /\ status' = IF u.status \in Results
                   THEN [status EXCEPT ![u.job] = StatusOf(u.status)]
                   ELSE status

\* HTTP 202 and 200.
ReportAccepted ==
  /\ updater = "reporting"
  /\ AcceptUpdate
  /\ updater' = "reported"
  /\ attempt' = 1
  /\ UNCHANGED <<broker, taskVars, updateVars, ingressVars, worker, dropped, faults>>

\* HTTP 403, GitlabJobNotRunning, or 400: PermanentReportError.
ReportRefused ==
  /\ updater = "reporting"
  /\ status[updates[unacked].job] # "running"
  /\ updater' = "reported"
  /\ attempt' = 1
  /\ UNCHANGED <<gitlabVars, broker, taskVars, updateVars, ingressVars, worker, dropped, faults>>

\* Any other HTTP error: TemporaryReportError, which may follow a change that
\* GitLab did make.  The last attempt gives the update up.
ReportFailed ==
  /\ updater = "reporting"
  /\ AcceptUpdate \/ UNCHANGED status
  /\ \/ /\ attempt < RetryCount
        /\ attempt' = attempt + 1
        /\ UNCHANGED <<updater, dropped>>
     \/ /\ attempt = RetryCount
        /\ attempt' = 1
        /\ updater' = "reported"
        /\ dropped' = dropped \union {k \in {unacked} : updates[k].status \in Results}
  /\ UNCHANGED <<broker, taskVars, updateVars, ingressVars, worker, faults>>

\* Faulty variant of AcknowledgeUpdate: acknowledged whatever the report's fate.
AcknowledgeUpdateEarly ==
  /\ updater \in {"reporting", "reported"}
  /\ broker = "up"
  /\ unacked' = 0
  /\ updater' = "idle"
  /\ UNCHANGED <<gitlabVars, broker, taskVars, updates, read, ingressVars, worker, attempt,
                 dropped, faults>>

AcknowledgeUpdate ==
  /\ updater = "reported"
  /\ broker = "up"
  /\ unacked' = 0
  /\ updater' = "idle"
  /\ UNCHANGED <<gitlabVars, broker, taskVars, updates, read, ingressVars, worker, attempt,
                 dropped, faults>>

\* An unhandled exception or a kill, possibly after GitLab took the update.
UpdaterCrash ==
  /\ updater # "idle"
  /\ Fault
  /\ \/ UNCHANGED status
     \/ updater = "reporting" /\ AcceptUpdate
  /\ updater' = "idle"
  /\ attempt' = 1
  /\ UNCHANGED <<broker, taskVars, updateVars, ingressVars, worker, dropped>>

---------------------------------------------------------------------------
IngressStep ==
  \/ CheckAlive
  \/ \E j \in Jobs : RequestJob(j)
  \/ NoJobPending
  \/ WriteJobTaken
  \/ RejectForeign
  \/ PublishTask
  \/ PublishEnqueued

WorkerStep(w) ==
  ReadTask(w) \/ RefuseTask(w) \/ StartTask(w) \/ FinishTask(w) \/ AcknowledgeTask(w)

UpdaterStep ==
  ReadUpdate \/ ReportAccepted \/ ReportRefused \/ ReportFailed \/ AcknowledgeUpdate

Next ==
  \/ BrokerDown
  \/ BrokerUp
  \/ \E j \in Jobs : Cancel(j) \/ RequestJobReplyLost(j)
  \/ IngressStep
  \/ IngressCrash
  \/ \E w \in Workers : WorkerStep(w) \/ WorkerCrash(w)
  \/ UpdaterStep
  \/ UpdaterCrash

Spec == Init /\ [][Next]_vars

\* systemd restarts every process and each of them works in a loop; the script
\* of a task ends or is killed after an hour; an outage of the broker ends.
FairSpec ==
  /\ Spec
  /\ WF_vars(BrokerUp)
  /\ WF_vars(IngressStep)
  /\ \A w \in Workers : WF_vars(WorkerStep(w))
  /\ WF_vars(UpdaterStep)

---------------------------------------------------------------------------
(***************************************************************************)
(* Properties                                                              *)
(***************************************************************************)

\* A task that was given to a worker is pending at a worker until its result is
\* in the updates stream: run_single_task() acknowledges last, and a worker that
\* crashed takes the same task again.
TaskNotForgotten ==
  \A i \in 1 .. given :
     \/ \E w \in Workers : held[w] = i
     \/ ResultsOf(tasks[i]) # {}

\* A result that the updater has read is being reported, or was given up after
\* all attempts, or the job is not running any more: process_one_update()
\* acknowledges only then.
ResultNotForgotten ==
  \A j \in Jobs : \A k \in ResultsOf(j) :
     k <= read => \/ k = unacked
                  \/ k \in dropped
                  \/ status[j] \in Final

\* A job runs on one worker at a time: GitLab gives a job out once, the ingress
\* publishes it once, and its entry stays with the worker that got it.
OneWorkerPerJob ==
  \A v, w \in Workers :
     (v # w /\ held[v] # 0 /\ held[w] # 0) => tasks[held[v]] # tasks[held[w]]

\* When a job has been executed more than once, the first result that was not
\* given up decides, and no later one overrides it.
FirstResultWins ==
  \A j \in Jobs \ Foreign :
     status[j] \in {"success", "failed"} =>
        \E k \in ResultsOf(j) :
           /\ k <= read
           /\ status[j] = StatusOf(updates[k].status)
           /\ \A i \in ResultsOf(j) : i < k => i \in dropped

\* The executions of a job: the updates that say that it is running.
Runs(j) == {k \in DOMAIN updates : updates[k] = [job |-> j, status |-> "running"]}

\* A job is executed again only because of a fault: one fault, one repetition
\* (run_single_task() acknowledges a task once it was executed).
RepetitionsAreFaults == \A j \in Jobs : Cardinality(Runs(j)) <= 1 + faults

\* One fault loses at most one job, however long the broker is away: the ingress
\* requests a job only when the stream that will receive it answers.
LossesAreFaults == Cardinality(lost) <= faults

\* A running job that was published, and whose update was not given up, is
\* finished in GitLab at last, whatever crashed meanwhile.
PublishedJobFinishes ==
  \A j \in Jobs :
     j \in Published ~> (status[j] \in Final \/ ResultsOf(j) \intersect dropped # {})

\* The promises of a pipeline whose processes crash: no task, result or job is
\* forgotten but by a fault, and a job is with one worker.
Safety ==
  /\ TypeOK
  /\ TaskNotForgotten
  /\ ResultNotForgotten
  /\ OneWorkerPerJob
  /\ LossesAreFaults
=============================================================================
