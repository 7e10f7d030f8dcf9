------------------------------ MODULE Services ------------------------------
(***************************************************************************)
(* The parts of the task services that do not share state: a behaviour     *)
(* chooses one part at its start and only that part moves, so that the     *)
(* states of the parts are added and not multiplied.                       *)
(***************************************************************************)
EXTENDS Naturals

CONSTANTS
  \* FtViewBatch
  BatchJobs, Batches, Updaters, Api, NoOne, MaxReruns, MaxCalls,
  \* FtViewJob
  Jobs, Workers, MaxRequests,
  FirstJob,     \* the only job that is asked for when all workers work
  FirstWorker,  \* the only worker that works when all jobs are asked for
  \* TaskOutput
  TotalLimit, ChunkLimit, MaxOutput,
  \* ElasticLog
  MaxEvents, QueueSize, BatchSize, Attempts, MaxLost,
  \* FtViewBatch and FtViewJob
  MaxFaults

VARIABLES
  subject,  \* the part that moves
  \* FtViewBatch
  status, members, created, count, writer, draft, tx, raced, calls, faults,
  \* FtViewJob
  progress, jobOf, ingress, tasks, held, step, updates, applied, requested, clean,
  ended, late, requests, jobFaults,
  \* TaskOutput
  process, written, read, exitCode, overdue, at, buffer, total, sent, result,
  \* ElasticLog
  emitted, refused, queue, thread, logged, blob, attempts, closing, indexed, dropped, lost

Batch == INSTANCE FtViewBatch WITH Jobs <- BatchJobs

Job == INSTANCE FtViewJob WITH faults <- jobFaults

Output == INSTANCE TaskOutput WITH late <- overdue, updates <- sent

Log == INSTANCE ElasticLog WITH buffer <- logged

ASSUME PartsAssumption ==
  /\ Batch!ConstantsAssumption
  /\ Job!ConstantsAssumption
  /\ Output!ConstantsAssumption
  /\ Log!SizesAssumption

batchVars == <<status, members, created, count, writer, draft, tx, raced, calls, faults>>
jobVars ==
  <<progress, jobOf, ingress, tasks, held, step, updates, applied, requested, clean,
    ended, late, requests, jobFaults>>
outputVars ==
  <<process, written, read, exitCode, overdue, at, buffer, total, sent, result>>
logVars ==
  <<emitted, refused, queue, thread, logged, blob, attempts, closing, indexed, dropped, lost>>
vars == <<subject, batchVars, jobVars, outputVars, logVars>>

Init ==
  /\ subject \in {"batch", "job", "two runs", "output", "log"}
  /\ Batch!Init
  /\ Job!Init
  /\ Output!Init
  /\ Log!Init

Next ==
  \/ /\ subject = "batch"
     /\ Batch!Next
     /\ UNCHANGED <<subject, jobVars, outputVars, logVars>>
  \/ /\ subject = "job"
     /\ Job!Next
     /\ \A w \in Workers \ {FirstWorker} : step'[w] = "read"
     /\ UNCHANGED <<subject, batchVars, outputVars, logVars>>
  \* workers may be at runs of one job at once
  \/ /\ subject = "two runs"
     /\ Job!Next
     /\ \A j \in Jobs \ {FirstJob} : ~requested'[j]
     /\ UNCHANGED <<subject, batchVars, outputVars, logVars>>
  \/ /\ subject = "output"
     /\ Output!Next
     /\ UNCHANGED <<subject, batchVars, jobVars, logVars>>
  \/ /\ subject = "log"
     /\ Log!Next
     /\ UNCHANGED <<subject, batchVars, jobVars, outputVars>>
  \* the handler of the log ends, the other parts never stop
  \/ /\ subject = "log"
     /\ UNCHANGED vars

Spec == Init /\ [][Next]_vars

\* The fairness of each part, as its own FairSpec states it.
FairSpec ==
  /\ Spec
  /\ \A c \in Batch!Clients : WF_batchVars(subject = "batch" /\ Batch!Step(c))
  /\ WF_jobVars(subject = "job" /\ Job!Requester)
  /\ WF_jobVars(subject = "job" /\ Job!Updater)
  /\ WF_jobVars(subject = "job" /\ Job!Worker(FirstWorker))
  /\ WF_outputVars(subject = "output" /\ Output!Worker)
  /\ WF_outputVars(subject = "output" /\ Output!TimePasses)
  /\ WF_logVars(subject = "log" /\ Log!SendingLoop)
  /\ WF_logVars(subject = "log" /\ Log!Join)

---------------------------------------------------------------------------
(***************************************************************************)
(* Properties: those of the parts, of the behaviours in which they move    *)
(***************************************************************************)

\* The counters of a batch add up to the number of its jobs and differ from them
\* only where two transactions raced (job_update_status(), start_batch()).
BatchSafety == subject = "batch" => Batch!Safety

\* Every call to the database ends, though transactions lock jobs and batches in
\* different orders (job_update_status(), start_batch()).
EveryCallEnds == subject = "batch" => Batch!EveryCallEnds

\* A request for a job makes one run of it, is not hidden by a late update of an
\* earlier run, and leads to a result (pop_job(), send_report()).
JobSafety == subject \in {"job", "two runs"} => Job!Safety

\* A requested job is taken, and is not shown as running for good, though the
\* requester, workers and the updater crash.
RequestsComeToAnEnd == subject = "job" => Job!RequestsComeToAnEnd

\* The output of a task is shown in its order and completely up to the limit, and
\* nothing follows the warning (send_output(), send_finished()).
OutputSafety == subject = "output" => Output!Safety

\* A task ends, also when its process does not (LocalTask.run()).
TaskEnds == subject = "output" => Output!TaskEnds

\* While the thread of the handler lives, log records are lost only if
\* Elasticsearch refuses them, and are overtaken only within a batch whose
\* insertion is repeated (emit(), _sending_loop(), _bulk_insert()).
LogSafety == subject = "log" => Log!Safety

\* close() returns, whatever Elasticsearch does.
CloseReturns == subject = "log" => Log!CloseReturns
=============================================================================
