---------------------------- MODULE GitlabTrace ----------------------------
(***************************************************************************)
(* How the updates of one job become the job's trace and status in GitLab: *)
(* UpdateService (_task_update.py) reports them one by one through         *)
(* GitlabJobReportFactory (gitlab_job_updater/_job_update.py), that appends *)
(* with the offset protocol of _GitlabJobTrace (gitlab_api/_job_api.py)    *)
(* over a GitLabConnection (gitlab_api/_connection.py), which sends a      *)
(* request again when the connection breaks or the reply does not come in  *)
(* 20 seconds.                                                             *)
(*                                                                         *)
(* A chunk of output counts as one unit of length and is named by the      *)
(* update that brings it.  Chunk 0 is the line written by the requester    *)
(* when it took the job; the updater does not know of it.                  *)
(***************************************************************************)
EXTENDS Naturals, Sequences, FiniteSets

CONSTANTS
  Updates,     \* number of updates of the job in the stream
  ResultsAt,   \* those of them that are results; a repeated job brings many
  RetryCount,  \* attempts to report an update, 12 in the code
  MaxFaults    \* bound on errors, lost replies and crashes

ASSUME ConstantsAssumption ==
  /\ Updates \in Nat
  /\ ResultsAt \subseteq 1 .. Updates
  /\ RetryCount \in Nat \ {0}
  /\ MaxFaults \in Nat

VARIABLES
  \* GitLab
  state,     \* "running" until a result or a user ends the job
  trace,     \* the chunks appended so far
  closedBy,  \* the update whose result ended the job; 0 if none did
  \* the network
  late,      \* requests without a reply, which GitLab may still carry out
  \* the updater
  acked,     \* the updates acknowledged are 1 .. acked
  at,        \* where process_one_update() is
  offset,    \* _offset of the cached _GitlabJobTrace; 0 of a new one
  request,   \* the PATCH: its offset, how often it was sent, and whether
             \* add() sends it a second time, after HTTP 416
  attempt,   \* the attempt of process_one_update()
  \* history and bounds
  dropped,   \* updates given up after RetryCount attempts
  exits,     \* how often an unhandled _InvalidOffset ended the process
  faults

serverVars == <<state, trace, closedBy>>
updaterVars == <<acked, at, offset, request, attempt>>
vars == <<serverVars, late, updaterVars, dropped, exits, faults>>

Current == acked + 1

Chunks == 0 .. Updates

Request == [offset : Nat, sent : 1 .. 2, resynced : {"no", "yes"}]

\* What is on the way in a lost request.
Patch(k, o) == [kind |-> "PATCH", update |-> k, offset |-> o]
Put(k) == [kind |-> "PUT", update |-> k, offset |-> 0]

ServerTypeOK ==
  /\ state \in {"running", "finished", "canceled"}
  /\ trace \in Seq(Chunks)
  /\ closedBy \in Chunks
  /\ late \in SUBSET [kind : {"PATCH", "PUT"}, update : 1 .. Updates, offset : Nat]

UpdaterTypeOK ==
  /\ acked \in 0 .. Updates
  /\ at \in {"idle", "patch", "put", "reported"}
  /\ at # "idle" => acked < Updates
  /\ offset \in Nat
  /\ request \in Request
  /\ attempt \in 1 .. RetryCount

HistoryTypeOK ==
  /\ dropped \in SUBSET (1 .. Updates)
  /\ exits \in Nat
  /\ faults \in 0 .. MaxFaults

TypeOK == ServerTypeOK /\ UpdaterTypeOK /\ HistoryTypeOK

FirstTry(o) == [offset |-> o, sent |-> 1, resynced |-> "no"]

Init ==
  /\ state = "running"
  /\ trace = <<0>>
  /\ closedBy = 0
  /\ late = {}
  /\ acked = 0
  /\ at = "idle"
  /\ offset = 0
  /\ request = FirstTry(0)
  /\ attempt = 1
  /\ dropped = {}
  /\ exits = 0
  /\ faults = 0

---------------------------------------------------------------------------
\* GitLab

\* Faulty variant of Misplaced: the range of the chunk is not sent.
MisplacedBeyond(o) == o > Len(trace)

\* PATCH /trace is carried out for a running job and at the end of the trace.
Misplaced(o) == o # Len(trace)

Extend(k) == trace' = Append(trace, k)

\* PUT is carried out for a running job.
Finish(k) ==
  /\ state' = "finished"
  /\ closedBy' = k

\* GitLab carries out a request whose reply nobody waits for, or refuses it.
DeliverLate(r) ==
  /\ r \in late
  /\ late' = late \ {r}
  /\ \/ /\ r.kind = "PATCH" /\ state = "running" /\ ~Misplaced(r.offset)
        /\ Extend(r.update)
        /\ UNCHANGED <<state, closedBy>>
     \/ /\ r.kind = "PUT" /\ state = "running"
        /\ Finish(r.update)
        /\ UNCHANGED trace
     \/ /\ state # "running" \/ (r.kind = "PATCH" /\ Misplaced(r.offset))
        /\ UNCHANGED serverVars
  /\ UNCHANGED <<updaterVars, dropped, exits, faults>>

\* A user cancels the job.
Cancel ==
  /\ state = "running"
  /\ state' = "canceled"
  /\ UNCHANGED <<trace, closedBy, late, updaterVars, dropped, exits, faults>>

---------------------------------------------------------------------------
\* The updater

\* The request that the updater waits for.
Pending == IF at = "patch" THEN Patch(Current, request.offset) ELSE Put(Current)

Fault ==
  /\ faults < MaxFaults
  /\ faults' = faults + 1

\* read_message() and the first call of send_report().
ReadUpdate ==
  /\ at = "idle"
  /\ acked < Updates
  /\ at' = "patch"
  /\ request' = FirstTry(offset)
  /\ UNCHANGED <<serverVars, late, acked, offset, attempt, dropped, exits, faults>>

\* read_message() returns None.
ReadNothing ==
  /\ at = "idle"
  /\ acked = Updates
  /\ UNCHANGED vars

\* HTTP 202 with the new length; a result is to be set next.
PatchAccepted ==
  /\ at = "patch"
  /\ state = "running"
  /\ ~Misplaced(request.offset)
  /\ Extend(Current)
  /\ offset' = Len(trace')
  /\ at' = IF Current \in ResultsAt THEN "put" ELSE "reported"
  /\ request' = FirstTry(0)
  /\ UNCHANGED <<state, closedBy, late, acked, attempt, dropped, exits, faults>>

\* Faulty variant of PatchRefused: the refusal is taken for a temporary error.
PatchRefusedForNow ==
  /\ at = "patch"
  /\ state # "running"
  /\ request' = FirstTry(offset)
  /\ UNCHANGED <<serverVars, late, acked, at, offset, attempt, dropped, exits, faults>>

\* HTTP 403: GitlabJobNotRunning, a PermanentReportError.
PatchRefused ==
  /\ at = "patch"
  /\ state # "running"
  /\ at' = "reported"
  /\ UNCHANGED <<serverVars, late, acked, offset, request, attempt, dropped, exits, faults>>

\* The process ends, and with it the cached state; systemd starts it again.
Exit ==
  /\ at' = "idle"
  /\ offset' = 0
  /\ attempt' = 1
  /\ request' = FirstTry(0)

\* Faulty variant of PatchMisplaced: the offset that GitLab tells is not used.
PatchSentAgain ==
  /\ at = "patch"
  /\ state = "running"
  /\ Misplaced(request.offset)
  /\ \/ /\ request.resynced = "no"
        /\ request' = [request EXCEPT !.resynced = "yes"]
        /\ UNCHANGED <<at, offset, attempt, exits>>
     \/ /\ request.resynced = "yes"
        /\ Exit
        /\ exits' = exits + 1
  /\ UNCHANGED <<serverVars, late, acked, dropped, faults>>

\* HTTP 416 tells the length of the trace: add() sends the chunk once more, and
\* does not handle a second 416.
PatchMisplaced ==
  /\ at = "patch"
  /\ state = "running"
  /\ Misplaced(request.offset)
  /\ \/ /\ request.resynced = "no"
        /\ request' = [offset |-> Len(trace), sent |-> 1, resynced |-> "yes"]
        /\ UNCHANGED <<at, offset, attempt, exits>>
     \/ /\ request.resynced = "yes"
        /\ Exit
        /\ exits' = exits + 1
  /\ UNCHANGED <<serverVars, late, acked, dropped, faults>>

\* HTTP 200.
PutAccepted ==
  /\ at = "put"
  /\ state = "running"
  /\ Finish(Current)
  /\ at' = "reported"
  /\ UNCHANGED <<trace, late, acked, offset, request, attempt, dropped, exits, faults>>

\* HTTP 400: GitlabStateTransitionError, a PermanentReportError.
PutRefused ==
  /\ at = "put"
  /\ state # "running"
  /\ at' = "reported"
  /\ UNCHANGED <<serverVars, late, acked, offset, request, attempt, dropped, exits, faults>>

\* Another HTTP error: TemporaryReportError.  It may be GitLab's answer to the
\* PUT for a job that has ended; otherwise it is a fault, and the request may
\* have been carried out, or may be yet.  send_report() starts over, with the
\* output.
RequestFailed ==
  /\ at \in {"patch", "put"}
  /\ \/ Fault
     \/ at = "put" /\ state # "running" /\ UNCHANGED faults
  /\ late' = late \union {Pending}
  /\ \/ /\ attempt < RetryCount
        /\ attempt' = attempt + 1
        /\ at' = "patch"
        /\ request' = FirstTry(offset)
        /\ UNCHANGED dropped
     \/ /\ attempt = RetryCount
        /\ at' = "reported"
        /\ dropped' = dropped \union {Current}
        /\ UNCHANGED <<attempt, request>>
  /\ UNCHANGED <<serverVars, acked, offset, exits>>

\* The connection breaks or the reply is late: GitLabConnection.request() sends
\* the same request once more; the second time the process ends.
ReplyLost ==
  /\ at \in {"patch", "put"}
  /\ Fault
  /\ late' = late \union {Pending}
  /\ \/ /\ request.sent = 1
        /\ request' = [request EXCEPT !.sent = 2]
        /\ UNCHANGED <<at, offset, attempt>>
     \/ /\ request.sent = 2
        /\ Exit
  /\ UNCHANGED <<serverVars, acked, dropped, exits>>

\* The process is killed between any two steps.
Crash ==
  /\ at # "idle"
  /\ Fault
  /\ late' = IF at \in {"patch", "put"} THEN late \union {Pending} ELSE late
  /\ Exit
  /\ UNCHANGED <<serverVars, acked, dropped, exits>>

Acknowledge ==
  /\ at = "reported"
  /\ acked' = acked + 1
  /\ at' = "idle"
  /\ attempt' = 1
  /\ request' = FirstTry(0)
  /\ UNCHANGED <<serverVars, late, offset, dropped, exits, faults>>

\* The cache is full when another job's update is reported: the oldest state is
\* dropped from _store.
Evict ==
  /\ at = "idle"
  /\ offset # 0
  /\ offset' = 0
  /\ UNCHANGED <<serverVars, late, acked, at, request, attempt, dropped, exits, faults>>

UpdaterStep ==
  \/ ReadUpdate
  \/ ReadNothing
  \/ PatchAccepted
  \/ PatchRefused
  \/ PatchMisplaced
  \/ PutAccepted
  \/ PutRefused
  \/ Acknowledge

Next ==
  \/ \E r \in late : DeliverLate(r)
  \/ Cancel
  \/ UpdaterStep
  \/ RequestFailed
  \/ ReplyLost
  \/ Crash
  \/ Evict

Spec == Init /\ [][Next]_vars

\* The updater's process works in a loop and is restarted; GitLab answers.
FairSpec == Spec /\ WF_vars(UpdaterStep)

---------------------------------------------------------------------------
(***************************************************************************)
(* Properties                                                              *)
(***************************************************************************)

InTrace(k) == \E i \in DOMAIN trace : trace[i] = k

\* The output appears in the order in which it was written: repeated chunks stand
\* next to the first copy, and neither a request that was resent nor one that
\* GitLab carries out late puts a chunk behind a later one, because it is
\* bound to an offset.
OutputInOrder ==
  \A i, j \in DOMAIN trace : i < j => trace[i] <= trace[j]

\* What was acknowledged is in the trace, unless the job had ended or all the
\* attempts failed.
OutputNotForgotten ==
  \A k \in 1 .. acked : InTrace(k) \/ k \in dropped \/ state # "running"

\* The updater does not know, when it repeats a request, whether GitLab carried
\* it out, so output may be repeated; but losing the cached offset repeats
\* nothing, and one fault repeats a chunk at most once.
RepeatedOutputIsFault ==
  \A k \in 1 .. Updates :
     Cardinality({i \in DOMAIN trace : trace[i] = k}) <= 1 + faults

\* The updater's process does not die of a wrong offset by itself: the second
\* HTTP 416 that add() does not handle takes a fault each time, so an unknown
\* offset never becomes a crash loop.
ExitsAreFaults == exits <= faults

\* A job is ended by a result only after the output of that update and of all
\* earlier ones was appended or given up.
OutputBeforeResult ==
  state = "finished" => \A k \in 1 .. closedBy : InTrace(k) \/ k \in dropped

\* Every update is reported at last, and the updater goes on to the next.
EverythingReported == <>(acked = Updates)

\* The promises of the trace: the output is complete up to what was given up, in
\* its order, and before the result.
Safety ==
  /\ TypeOK
  /\ OutputInOrder
  /\ OutputNotForgotten
  /\ OutputBeforeResult

\* Neither an eviction nor a wrong offset does more harm than the faults that
\* happened: they repeat output and end the process as often at most.
HarmIsBounded == RepeatedOutputIsFault /\ ExitsAreFaults
=============================================================================
