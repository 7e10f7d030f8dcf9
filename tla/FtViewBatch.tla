---------------------------- MODULE FtViewBatch ----------------------------
(***************************************************************************)
(* The counters of FT View's batches in PostgreSQL: job_update_status(),   *)
(* called by the service of run updates and by the web UI, start_batch(),  *)
(* called by the batches API, and batch_counters_update(), called by the   *)
(* button "recalculate" of the web UI.  Each process has one connection    *)
(* with autocommit (_db.py), so that a call is one transaction.            *)
(*                                                                         *)
(* Transactions are read committed: a statement sees what was committed    *)
(* before it and the transaction's own changes; a row changed by an open   *)
(* transaction is locked until that one ends.                              *)
(***************************************************************************)
EXTENDS Integers, FiniteSets

CONSTANTS
  Jobs,         \* job.cmdline
  Batches,      \* batch.cmdline
  Updaters,     \* processes that call job_update_status(): run updates, web UI
  Api,          \* the process of the batches API
  NoOne,        \* the writer of a row that is not locked
  MaxReruns,    \* 3 in start_batch()
  MaxCalls,     \* bound on the number of calls
  MaxFaults     \* bound on the number of lost connections

ConstantsAssumption ==
  /\ IsFiniteSet(Jobs)
  /\ Jobs \intersect Batches = {}
  /\ Api \notin Updaters
  /\ NoOne \notin Updaters \union {Api}
  /\ MaxReruns \in Nat /\ MaxCalls \in Nat /\ MaxFaults \in Nat

VARIABLES
  \* committed rows
  status,    \* job.status; "absent" if there is no row
  members,   \* per batch, its jobs in batch_job
  created,   \* the rows of batch
  count,     \* batch.data: the counters
  \* open transactions
  writer,    \* per row of job and batch, the transaction that changed it
  draft,     \* the rows as their writers see them
  tx,        \* per process, where its transaction is
  \* history and bounds
  raced,     \* batches with a job on which two transactions overlapped
  calls,
  faults

rows == <<status, members, created, count>>
vars == <<rows, writer, draft, tx, raced, calls, faults>>

Clients == Updaters \union {Api}
Status == {"pending", "running", "passed", "failed"}
Counts == [Status -> Int]
Zero == [s \in Status |-> 0]

Total(counts) == counts["pending"] + counts["running"] + counts["passed"] + counts["failed"]

Drafts ==
  [status : [Jobs -> Status \union {"absent"}], members : [Batches -> SUBSET Jobs],
   count : [Batches -> Counts]]

Idle == [at |-> "idle"]
Transactions ==
  {Idle}
    \union [at : {"read", "changed"}, job : Jobs, new : Status, before : Status, todo : SUBSET Jobs]
    \union [at : {"batches"}, job : Jobs, new : Status, before : Status, todo : SUBSET Jobs,
            left : SUBSET Batches]
    \union [at : {"count", "choose"}, batch : Batches, jobs : SUBSET Jobs]
    \union [at : {"rerun"}, todo : SUBSET Jobs]
    \union [at : {"ended"}, job : Jobs] \union [at : {"ended"}, batch : Batches]
Open(c) == tx[c] # Idle

\* What a statement of the transaction of c reads.
StatusFor(c, j) == IF writer[j] = c THEN draft.status[j] ELSE status[j]
MembersFor(c, b) == IF writer[b] = c THEN draft.members[b] ELSE members[b]
CountFor(c, b) == IF writer[b] = c THEN draft.count[b] ELSE count[b]
Free(c, row) == writer[row] \in {c, NoOne}

\* batch_counters_aggregate()
Exact(of, jobs) == [s \in Status |-> Cardinality({j \in jobs : of[j] = s})]

TypeOK ==
  /\ status \in [Jobs -> Status \union {"absent"}]
  /\ members \in [Batches -> SUBSET Jobs]
  /\ created \in SUBSET Batches
  /\ count \in [Batches -> Counts]
  /\ writer \in [Jobs \union Batches -> Clients \union {NoOne}]
  /\ draft \in Drafts
  /\ tx \in [Clients -> Transactions]
  /\ raced \in SUBSET Batches
  /\ calls \in 0 .. MaxCalls
  /\ faults \in 0 .. MaxFaults

Init ==
  /\ status = [j \in Jobs |-> "absent"]
  /\ members = [b \in Batches |-> {}]
  /\ created = {}
  /\ count = [b \in Batches |-> Zero]
  /\ writer = [r \in Jobs \union Batches |-> NoOne]
  /\ draft = [status |-> status, members |-> members, count |-> count]
  /\ tx = [c \in Clients |-> Idle]
  /\ raced = {}
  /\ calls = 0
  /\ faults = 0

Goto(c, t) == tx' = [tx EXCEPT ![c] = t]

---------------------------------------------------------------------------
\* job_update_status() ---------------------------------------------------

\* The SELECT into delta_before; nothing is locked.
ReadBefore(c, j, new, todo) ==
  Goto(c, [at |-> "read", job |-> j, new |-> new, before |-> StatusFor(c, j), todo |-> todo])

\* For a job that is not in the table the function changes nothing.
CallUpdateStatus(c, j, new) ==
  /\ c \in Updaters
  /\ ~Open(c)
  /\ calls < MaxCalls
  /\ calls' = calls + 1
  /\ status[j] # "absent"
  /\ ReadBefore(c, j, new, {})
  /\ UNCHANGED <<rows, writer, draft, raced, faults>>

\* The UPDATE of the job waits for another writer of the row.
ChangeJob(c) ==
  /\ tx[c].at = "read"
  /\ LET j == tx[c].job IN
       /\ Free(c, j)
       /\ writer' = [writer EXCEPT ![j] = c]
       /\ draft' = [draft EXCEPT !.status[j] = tx[c].new]
  /\ Goto(c, [tx[c] EXCEPT !.at = "changed"])
  /\ UNCHANGED <<rows, raced, calls, faults>>

\* The UPDATE of the batches begins: it finds those the job is known to be in.
FindBatches(c) ==
  /\ tx[c].at = "changed"
  /\ Goto(c, [at |-> "batches", job |-> tx[c].job, new |-> tx[c].new, before |-> tx[c].before,
              todo |-> tx[c].todo, left |-> {b \in Batches : tx[c].job \in MembersFor(c, b)}])
  /\ UNCHANGED <<rows, writer, draft, raced, calls, faults>>

\* jsonb_numeric_merge(): the difference is added, status by status.
Add(counts, before, new) ==
  [s \in Status |-> counts[s] + (IF s = new THEN 1 ELSE 0) - (IF s = before THEN 1 ELSE 0)]

\* Faulty variant of ChangeBatch: the counters are those of the statement's
\* snapshot, not of the row after its lock was obtained.
ChangeBatchUnlocked(c, b) ==
  /\ tx[c].at = "batches"
  /\ b \in tx[c].left
  /\ writer' = [writer EXCEPT ![b] = c]
  /\ draft' = [draft EXCEPT !.count[b] = Add(count[b], tx[c].before, tx[c].new)]
  /\ Goto(c, [tx[c] EXCEPT !.left = @ \ {b}])
  /\ UNCHANGED <<rows, raced, calls, faults>>

\* It goes through them in any order, and waits for the writer of each.
ChangeBatch(c, b) ==
  /\ tx[c].at = "batches"
  /\ b \in tx[c].left
  /\ Free(c, b)
  /\ writer' = [writer EXCEPT ![b] = c]
  /\ draft' = [draft EXCEPT !.count[b] = Add(CountFor(c, b), tx[c].before, tx[c].new)]
  /\ Goto(c, [tx[c] EXCEPT !.left = @ \ {b}])
  /\ UNCHANGED <<rows, raced, calls, faults>>

EndUpdateStatus(c) ==
  /\ tx[c].at = "batches"
  /\ tx[c].left = {}
  /\ Goto(c, IF c = Api THEN [at |-> "rerun", todo |-> tx[c].todo]
                        ELSE [at |-> "ended", job |-> tx[c].job])
  /\ UNCHANGED <<rows, writer, draft, raced, calls, faults>>

---------------------------------------------------------------------------
\* start_batch() and batch_counters_update() ------------------------------

\* The three INSERTs, ON CONFLICT DO NOTHING: other transactions see none of
\* the new rows yet, and only this process inserts.
CallStartBatch(b, jobs) ==
  /\ ~Open(Api)
  /\ calls < MaxCalls
  /\ calls' = calls + 1
  /\ LET new == {j \in jobs : status[j] = "absent"} IN
       /\ writer' = [r \in Jobs \union Batches |->
                       IF r \in new \/ (r = b /\ b \notin created) THEN Api ELSE writer[r]]
       /\ draft' = [draft EXCEPT !.status = [j \in Jobs |-> IF j \in new THEN "pending" ELSE @[j]]]
       /\ Goto(Api, [at |-> "count", batch |-> b, jobs |-> members[b] \union jobs])
  /\ UNCHANGED <<rows, raced, faults>>

\* _batch_recalculate() of the web UI.
CallRecalculate(c, b) ==
  /\ c \in Updaters
  /\ ~Open(c)
  /\ calls < MaxCalls
  /\ calls' = calls + 1
  /\ b \in created
  /\ Goto(c, [at |-> "count", batch |-> b, jobs |-> members[b]])
  /\ UNCHANGED <<rows, writer, draft, raced, faults>>

\* batch_counters_update(): the UPDATE waits for the writer of the batch, then
\* counts again.
CountJobs(c) ==
  /\ tx[c].at = "count"
  /\ LET b == tx[c].batch
         jobs == IF c = Api THEN tx[c].jobs ELSE members[b] IN
       /\ Free(c, b)
       /\ writer' = [writer EXCEPT ![b] = c]
       /\ draft' = [draft EXCEPT
                      !.members[b] = jobs,
                      !.count[b] = Exact([j \in Jobs |-> StatusFor(c, j)], jobs)]
  /\ Goto(c, IF c = Api THEN [tx[c] EXCEPT !.at = "choose"] ELSE [at |-> "ended", batch |-> tx[c].batch])
  /\ UNCHANGED <<rows, raced, calls, faults>>

\* batch_reschedule_failed_jobs(): no job is scheduled again if too many have
\* failed; of the statuses that it selects, only "failed" is still written.
ChooseJobs ==
  /\ tx[Api].at = "choose"
  /\ LET b == tx[Api].batch
         failed == {j \in tx[Api].jobs : StatusFor(Api, j) = "failed"} IN
       Goto(Api, [at |-> "rerun",
                  todo |-> IF CountFor(Api, b)["failed"] > MaxReruns THEN {} ELSE failed])
  /\ UNCHANGED <<rows, writer, draft, raced, calls, faults>>

Reschedule(j) ==
  /\ tx[Api].at = "rerun"
  /\ j \in tx[Api].todo
  /\ ReadBefore(Api, j, "pending", tx[Api].todo \ {j})
  /\ UNCHANGED <<rows, writer, draft, raced, calls, faults>>

---------------------------------------------------------------------------
\* The end of a transaction ------------------------------------------------

Written(c) == {r \in DOMAIN writer : writer[r] = c}

\* Jobs that the open transaction of c has read or changed, or puts in a batch.
Touched(c) ==
  (Written(c) \intersect Jobs)
    \union {j \in Jobs : "job" \in DOMAIN tx[c] /\ tx[c].job = j}
    \union UNION {draft.members[b] \ members[b] : b \in Written(c) \intersect Batches}
    \union {j \in Jobs : "jobs" \in DOMAIN tx[c] /\ j \in tx[c].jobs \ members[tx[c].batch]}

\* Jobs of the transaction of c on which another one is at work.
Overlapping(c) == Touched(c) \intersect UNION {Touched(d) : d \in Clients \ {c}}

\* The jobs of a batch for the transaction of d.
JobsOf(d, b) ==
  MembersFor(d, b) \union (IF "jobs" \in DOMAIN tx[d] /\ tx[d].batch = b THEN tx[d].jobs ELSE {})

Ended(c) ==
  \/ tx[c].at = "ended"
  \/ tx[c].at = "rerun" /\ tx[c].todo = {}

Unlock(c) ==
  /\ writer' = [r \in DOMAIN writer |-> IF writer[r] = c THEN NoOne ELSE writer[r]]
  /\ Goto(c, Idle)

\* Faulty variant of Commit: the connection is not in the mode autocommit.
CommitNothing(c) ==
  /\ Ended(c)
  /\ UNCHANGED vars

Commit(c) ==
  /\ Ended(c)
  /\ status' = [j \in Jobs |-> StatusFor(c, j)]
  /\ members' = [b \in Batches |-> MembersFor(c, b)]
  /\ count' = [b \in Batches |-> CountFor(c, b)]
  /\ created' = created \union (Written(c) \intersect Batches)
  /\ raced' = raced \union {b \in Batches : \E d \in Clients :
                               JobsOf(d, b) \intersect Overlapping(c) # {}}
  /\ Unlock(c)
  /\ UNCHANGED <<draft, calls, faults>>

\* The rows are as they were; the service of run updates ends and will read
\* the update again, the other two answer with an error.
Abort(c) ==
  /\ Unlock(c)
  /\ draft' = [status  |-> [j \in Jobs |-> IF writer[j] = c THEN status[j] ELSE draft.status[j]],
               members |-> [b \in Batches |-> IF writer[b] = c THEN members[b] ELSE draft.members[b]],
               count   |-> [b \in Batches |-> IF writer[b] = c THEN count[b] ELSE draft.count[b]]]
  /\ UNCHANGED <<rows, raced, calls>>

LoseConnection(c) ==
  /\ Open(c)
  /\ faults < MaxFaults
  /\ faults' = faults + 1
  /\ Abort(c)

\* Rows without which the transaction of c cannot go on.
Needed(c) ==
  CASE tx[c].at = "read"    -> {tx[c].job}
    [] tx[c].at = "batches" -> tx[c].left
    [] tx[c].at = "count"   -> {tx[c].batch}
    [] OTHER                -> {}

WaitsFor(c) == {writer[r] : r \in Needed(c)} \ {c, NoOne}

\* PostgreSQL ends a transaction that waits in a circle.
Deadlock(c) ==
  /\ \E d \in WaitsFor(c) :
       \/ c \in WaitsFor(d)
       \/ \E e \in WaitsFor(d) : c \in WaitsFor(e)
  /\ Abort(c)
  /\ UNCHANGED faults

\* The processes wait for calls.
Wait(c) == ~Open(c) /\ UNCHANGED vars

Step(c) ==
  \/ ChangeJob(c)
  \/ FindBatches(c)
  \/ \E b \in Batches : ChangeBatch(c, b)
  \/ EndUpdateStatus(c)
  \/ CountJobs(c)
  \/ c = Api /\ (ChooseJobs \/ \E j \in Jobs : Reschedule(j))
  \/ Commit(c)
  \/ Deadlock(c)

Next ==
  \/ \E c \in Updaters, j \in Jobs, s \in Status : CallUpdateStatus(c, j, s)
  \/ \E b \in Batches, jobs \in SUBSET Jobs : CallStartBatch(b, jobs)
  \/ \E c \in Updaters, b \in Batches : CallRecalculate(c, b)
  \/ \E c \in Clients : Step(c) \/ LoseConnection(c) \/ Wait(c)

Spec == Init /\ [][Next]_vars

\* A transaction goes on as long as it is not waiting.
FairSpec == Spec /\ \A c \in Clients : WF_vars(Step(c))

---------------------------------------------------------------------------
(***************************************************************************)
(* Properties                                                              *)
(***************************************************************************)

\* However the transactions interleave, and whichever of them fail, the counters
\* of a batch add up to the number of its jobs: job_update_status() takes away
\* what it adds, and the lock on the batch keeps additions from being lost.
TotalKept ==
  \A b \in Batches : Total(count[b]) = Cardinality(members[b])

\* The counters tell the statuses of the batch's jobs apart correctly, unless
\* two transactions were at work on the same job at once: then one takes away a
\* status that the other has already replaced, or does not know the batch yet.
WrongOnlyIfRaced ==
  \A b \in created \ raced : count[b] = Exact(status, members[b])

\* Transactions lock jobs and batches in different orders, but none waits for
\* ever: PostgreSQL ends one of those that wait for each other.
EveryCallEnds ==
  \A c \in Clients : Open(c) ~> ~Open(c)

\* The promises of the counters of batches, under concurrent transactions.
Safety ==
  /\ TypeOK
  /\ TotalKept
  /\ WrongOnlyIfRaced
=============================================================================
