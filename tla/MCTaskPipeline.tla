-------------------------- MODULE MCTaskPipeline ---------------------------
(***************************************************************************)
(* TaskPipeline with three jobs and two workers, for TLC.  A behaviour has *)
(* a few of them at work: one job that both workers execute, or at one     *)
(* worker two jobs, of which one is refused or of an unknown project.  The *)
(* other jobs were canceled before the ingress started.                    *)
(***************************************************************************)
EXTENDS TaskPipeline, Functions

CONSTANTS j1, j2, j3, w1, w2

VARIABLE subject  \* the jobs that are pending at the start

MCVars == <<vars, subject>>

MCJobs == {j1, j2, j3}
MCWorkers == {w1, w2}

MCInit ==
  /\ Init
  /\ subject \in {{j1}, {j1, j2}, {j1, j3}}
  /\ \A j \in Jobs : (status[j] = "pending") = (j \in subject)

\* Two workers and two faults for the job alone, one worker and one fault for two.
Works(w) == subject = {j1} \/ w = w1

\* Users cancel the job that has a foreign one beside it, and the job that has a
\* refused one beside it succeeds.
MCNext ==
  /\ Next
  /\ \A w \in Workers : ~Works(w) => held'[w] = 0
  /\ subject # {j1} => faults' <= 1
  /\ subject # {j1, j3} => \A j \in Jobs : status'[j] = "canceled" => status[j] = "canceled"
  /\ subject = {j1, j2} => [job |-> j1, status |-> "failed"] \notin Range(updates')
  /\ UNCHANGED subject

\* The fairness of FairSpec.
MCFairSpec ==
  /\ MCInit /\ [][MCNext]_MCVars
  /\ WF_vars(BrokerUp)
  /\ WF_vars(IngressStep)
  /\ \A w \in Workers : WF_vars(Works(w) /\ WorkerStep(w))
  /\ WF_vars(UpdaterStep)
=============================================================================
