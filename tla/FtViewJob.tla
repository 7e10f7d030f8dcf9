----------------------------- MODULE FtViewJob ------------------------------
(***************************************************************************)
(* A job of FT View from the request to run it to the status of its run.   *)
(* The web UI and the batches API put "queued" into the column progress of *)
(* the job; the job requester takes a queued job (pop_job()), writes a task*)
(* and an update "enqueued"; a worker runs the task and reports "running"  *)
(* and the result; the job updater writes each update into progress.       *)
(*                                                                         *)
(* The column is written from three sides with no regard to what it holds. *)
(***************************************************************************)
EXTENDS Integers, Sequences, FiniteSets, SequencesExt

CONSTANTS
  Jobs,         \* rows of the table job
  Workers,
  MaxRequests,  \* bound: how often a job is queued
  MaxFaults     \* bound: crashes of a service or a worker, lost replies

ConstantsAssumption ==
  /\ IsFiniteSet(Jobs) /\ IsFiniteSet(Workers)
  /\ MaxRequests \in Nat /\ MaxFaults \in Nat

VARIABLES
  progress,   \* per job, a state and the run it is about
  jobOf,      \* the runs, in the order they were taken, each with its job
  ingress,    \* the job requester: what it does next, and for which run
  tasks,      \* the stream of tasks: those no worker has read
  held,       \* per worker, the task that it read and did not acknowledge
  step,       \* per worker, what it does next
  updates,    \* the stream of updates, from the first not acknowledged
  applied,    \* the first of the updates is in the database
  requested,  \* history: per job, requested since it was last taken
  clean,      \* history: per job, no earlier run was under way at that time
  ended,      \* history: runs with a result in the stream of updates
  late,       \* history: runs "enqueued" after their result was reported
  requests,
  faults

service == <<ingress, tasks, updates>>
history == <<requested, clean, ended, late>>
vars == <<progress, jobOf, service, held, step, applied, history, requests, faults>>

NoRun == 0
Runs == 1 .. Len(jobOf)
Row(s, r) == [state |-> s, run |-> r]
Update(s, r) == [status |-> s, run |-> r]

Queued == {j \in Jobs : progress[j].state = "queued"}

\* A run has a task or an update that is still to be worked on.
UnderWay(r) ==
  \/ ingress.run = r
  \/ r \in Range(tasks)
  \/ \E w \in Workers : held[w] = r
  \/ \E i \in DOMAIN updates : updates[i].run = r

RunsOf(j) == {r \in Runs : jobOf[r] = j}

TypeOK ==
  /\ progress \in [Jobs ->
       [state : {"created", "queued", "taken", "enqueued", "running", "finished"}, run : 0 .. Len(jobOf)]]
  /\ jobOf \in Seq(Jobs)
  /\ ingress \in [at : {"request", "write_task", "write_update"}, run : 0 .. Len(jobOf)]
  /\ tasks \in Seq(Runs)
  /\ held \in [Workers -> 0 .. Len(jobOf)]
  /\ step \in [Workers -> {"read", "run", "finish", "acknowledge"}]
  /\ updates \in Seq([status : {"enqueued", "running", "finished"}, run : Runs])
  /\ applied \in BOOLEAN
  /\ requested \in [Jobs -> BOOLEAN] /\ clean \in [Jobs -> BOOLEAN]
  /\ ended \in SUBSET Runs /\ late \in SUBSET ended
  /\ requests \in 0 .. MaxRequests /\ faults \in 0 .. MaxFaults

Init ==
  /\ progress = [j \in Jobs |-> Row("created", NoRun)]
  /\ jobOf = <<>>
  /\ ingress = [at |-> "request", run |-> NoRun]
  /\ tasks = <<>>
  /\ held = [w \in Workers |-> NoRun]
  /\ step = [w \in Workers |-> "read"]
  /\ updates = <<>>
  /\ applied = FALSE
  /\ requested = [j \in Jobs |-> FALSE]
  /\ clean = [j \in Jobs |-> FALSE]
  /\ ended = {}
  /\ late = {}
  /\ requests = 0
  /\ faults = 0

-----------------------------------------------------------------------------
(* Requests *)

\* start_batch() and the button "schedule", each in one transaction.  Which
\* jobs start_batch() chooses depends on their status: module FtViewBatch.
Schedule(chosen) ==
  /\ requests' = requests + Cardinality(chosen) /\ requests' <= MaxRequests
  /\ progress' = [j \in Jobs |-> IF j \in chosen THEN Row("queued", NoRun) ELSE progress[j]]
  /\ requested' = [j \in Jobs |-> requested[j] \/ j \in chosen]
  /\ clean' = [j \in Jobs |-> IF j \in chosen THEN ~\E r \in RunsOf(j) : UnderWay(r) ELSE clean[j]]
  /\ UNCHANGED <<jobOf, service, held, step, applied, ended, late, faults>>

-----------------------------------------------------------------------------
(* The job requester: TaskIngress with FTViewJobInput *)

\* What the UPDATE of pop_job() does to the row.
Taken(j, r) == [progress EXCEPT ![j] = Row("taken", r)]

\* pop_job() commits.  Rows come by priority and by time, but those locked at
\* the moment are skipped, so that any queued job may be the one taken.
PopJob(j) ==
  /\ ingress.at = "request"
  /\ j \in Queued
  /\ jobOf' = Append(jobOf, j)
  /\ progress' = Taken(j, Len(jobOf'))
  /\ requested' = [requested EXCEPT ![j] = FALSE]

Pop(j) ==
  /\ PopJob(j)
  /\ ingress' = [at |-> "write_task", run |-> Len(jobOf')]
  /\ UNCHANGED <<tasks, updates, held, step, applied, clean, ended, late, requests, faults>>

\* The reply is lost or the service dies before it has it.
PopUnanswered(j) ==
  /\ PopJob(j)
  /\ faults < MaxFaults /\ faults' = faults + 1
  /\ UNCHANGED <<service, held, step, applied, clean, ended, late, requests>>

WriteTask ==
  /\ ingress.at = "write_task"
  /\ tasks' = Append(tasks, ingress.run)
  /\ ingress' = [ingress EXCEPT !.at = "write_update"]
  /\ UNCHANGED <<progress, jobOf, updates, held, step, applied, history, requests, faults>>

WriteUpdate ==
  /\ ingress.at = "write_update"
  /\ updates' = Append(updates, Update("enqueued", ingress.run))
  /\ late' = late \union ({ingress.run} \intersect ended)
  /\ ingress' = [at |-> "request", run |-> NoRun]
  /\ UNCHANGED <<progress, jobOf, tasks, held, step, applied, requested, clean, ended, requests, faults>>

CrashIngress ==
  /\ ingress.at # "request"
  /\ faults < MaxFaults /\ faults' = faults + 1
  /\ ingress' = [at |-> "request", run |-> NoRun]
  /\ UNCHANGED <<progress, jobOf, tasks, updates, held, step, applied, history, requests>>

-----------------------------------------------------------------------------
(* Workers: run_single_task() *)

Read(w) ==
  /\ step[w] = "read"
  /\ IF held[w] # NoRun
     THEN UNCHANGED <<held, tasks>>
     ELSE /\ tasks # <<>>
          /\ held' = [held EXCEPT ![w] = Head(tasks)]
          /\ tasks' = Tail(tasks)
  /\ step' = [step EXCEPT ![w] = "run"]
  /\ UNCHANGED <<progress, jobOf, ingress, updates, applied, history, requests, faults>>

SendRunning(w) ==
  /\ step[w] = "run"
  /\ updates' = Append(updates, Update("running", held[w]))
  /\ step' = [step EXCEPT ![w] = "finish"]
  /\ UNCHANGED <<progress, jobOf, ingress, tasks, held, applied, history, requests, faults>>

SendFinished(w) ==
  /\ step[w] = "finish"
  /\ updates' = Append(updates, Update("finished", held[w]))
  /\ ended' = ended \union {held[w]}
  /\ step' = [step EXCEPT ![w] = "acknowledge"]
  /\ UNCHANGED <<progress, jobOf, ingress, tasks, held, applied, requested, clean, late, requests, faults>>

AcknowledgeTask(w) ==
  /\ step[w] = "acknowledge"
  /\ held' = [held EXCEPT ![w] = NoRun]
  /\ step' = [step EXCEPT ![w] = "read"]
  /\ UNCHANGED <<progress, jobOf, service, applied, history, requests, faults>>

\* What a worker that dies leaves in its name: the task is read again.
Kept(w) == held[w]

CrashWorker(w) ==
  /\ step[w] # "read"
  /\ faults < MaxFaults /\ faults' = faults + 1
  /\ held' = [held EXCEPT ![w] = Kept(w)]
  /\ step' = [step EXCEPT ![w] = "read"]
  /\ UNCHANGED <<progress, jobOf, service, applied, history, requests>>

-----------------------------------------------------------------------------
(* The job updater: UpdateService with FTViewJobReportFactory *)

\* Faulty variant of RowsOf: the condition compares only a part of cmdline.
AllRows(r) == Jobs

\* The rows that send_report() changes: those with the cmdline of the task.
RowsOf(r) == {jobOf[r]}

Report ==
  /\ updates # <<>> /\ ~applied
  /\ LET u == Head(updates) IN
       progress' = [j \in Jobs |-> IF j \in RowsOf(u.run) THEN Row(u.status, u.run) ELSE progress[j]]
  /\ applied' = TRUE
  /\ UNCHANGED <<jobOf, service, held, step, history, requests, faults>>

AcknowledgeUpdate ==
  /\ applied
  /\ updates' = Tail(updates)
  /\ applied' = FALSE
  /\ UNCHANGED <<progress, jobOf, ingress, tasks, held, step, history, requests, faults>>

\* The updater dies before it acknowledges, or the database closes the
\* connection, which ends it as well: the update is read and written again.
CrashUpdater ==
  /\ applied
  /\ faults < MaxFaults /\ faults' = faults + 1
  /\ applied' = FALSE
  /\ UNCHANGED <<progress, jobOf, service, held, step, history, requests>>

-----------------------------------------------------------------------------
Done ==
  /\ requests = MaxRequests /\ Queued = {} /\ updates = <<>> /\ tasks = <<>>
  /\ ingress.at = "request" /\ \A w \in Workers : held[w] = NoRun
  /\ UNCHANGED vars

Requester == \/ \E j \in Jobs : Pop(j)
             \/ WriteTask
             \/ WriteUpdate

Worker(w) == Read(w) \/ SendRunning(w) \/ SendFinished(w) \/ AcknowledgeTask(w)

Updater == Report \/ AcknowledgeUpdate

Next ==
  \/ \E chosen \in SUBSET Jobs : chosen # {} /\ Schedule(chosen)
  \/ Requester
  \/ \E j \in Jobs : PopUnanswered(j)
  \/ CrashIngress
  \/ \E w \in Workers : Worker(w) \/ CrashWorker(w)
  \/ Updater
  \/ CrashUpdater
  \/ Done

Spec == Init /\ [][Next]_vars

\* The services and the workers are restarted and go on.
FairSpec ==
  /\ Spec
  /\ WF_vars(Requester)
  /\ WF_vars(Updater)
  /\ \A w \in Workers : WF_vars(Worker(w))

-----------------------------------------------------------------------------
(* Properties *)

\* A job is queued only if somebody asked for a run and no run was taken
\* since: updates never queue a job again (pop_job(), send_report()).
OneRunPerRequest == \A j \in Jobs : progress[j].state = "queued" => requested[j]

\* A job that was requested while none of its runs was under way stays queued
\* until it is taken: nobody else's update hides the request, neither one that
\* is late nor one that is written again after a crash (send_report()).
RequestIsKept == \A j \in Jobs : requested[j] /\ clean[j] => progress[j].state = "queued"

\* Nothing of the job is left to be worked on.
AtRest(j) == j \notin Queued /\ \A r \in RunsOf(j) : ~UnderWay(r)

\* When everything is worked off, a job whose run reached a worker shows
\* a result, whatever crashed on the way, unless "enqueued" was written late
\* (TaskIngress, run_single_task(), UpdateService).
ResultIsShown ==
  \A j \in Jobs :
    AtRest(j) /\ progress[j].state # "created" /\ RunsOf(j) \intersect late = {}
      => \/ progress[j].state = "finished"
         \* taken, and the requester died with it
         \/ progress[j].state = "taken" /\ progress[j].run \notin ended

\* A job that was requested while none of its runs was under way is taken
\* (pop_job(), TaskIngress).
RequestIsServed ==
  \A j \in Jobs : requested[j] /\ clean[j] ~> ~requested[j]

\* A job is not shown as running for good, though workers die
\* (run_single_task(), UpdateService).
RunningEnds ==
  \A j \in Jobs : progress[j].state = "running" ~> progress[j].state # "running"

\* The promises of the life of a job: a request makes one run, is not hidden, and
\* the job shows a result in the end.
Safety ==
  /\ TypeOK
  /\ OneRunPerRequest
  /\ RequestIsKept
  /\ ResultIsShown

\* A requested job is run, and its run is shown as ended.
RequestsComeToAnEnd == RequestIsServed /\ RunningEnds
=============================================================================
