----------------------------- MODULE TaskOutput -----------------------------
(***************************************************************************)
(* The output of a task from its process to the updates of a worker.  The  *)
(* process writes into a file, which LocalTask.run() reads while it waits; *)
(* TaskUpdate collects what was read, sends it every few seconds, cuts what*)
(* is too big for an update and stops with a warning at a total size.      *)
(*                                                                         *)
(* A byte is its position in the output.                                   *)
(***************************************************************************)
EXTENDS Integers, Sequences, FiniteSets, SequencesExt, FiniteSetsExt

CONSTANTS
  TotalLimit,  \* _output_total_size_limit, 5 MiB
  ChunkLimit,  \* _output_chunk_size_limit, 64 KiB
  MaxOutput    \* bound: bytes the process writes

ConstantsAssumption ==
  TotalLimit \in Nat /\ ChunkLimit \in Nat \ {0} /\ MaxOutput \in Nat

VARIABLES
  process,   \* "running", "exited", "killed"
  written,   \* bytes in the file
  read,      \* bytes that run() has read
  exitCode,  \* run() has seen the end of the process
  late,      \* the timeout of the task has passed
  at,        \* the worker's next step
  buffer,    \* the bytes in _output_buffer, from first to last
  total,     \* _output_total_size
  updates,   \* what was sent
  result     \* the status in send_finished()

vars == <<process, written, read, exitCode, late, at, buffer, total, updates, result>>

\* An update shows the last bytes of what was in the buffer.
Output(first, last) ==
  [kind |-> "output", first |-> first, last |-> last, shown |-> last - first + 1]
Warning == [kind |-> "too much", first |-> 0, last |-> 0, shown |-> 0]

Empty == [first |-> 1, last |-> 0]

TypeOK ==
  /\ process \in {"running", "exited", "killed"}
  /\ written \in 0 .. MaxOutput /\ read \in 0 .. written
  /\ buffer \in [first : 1 .. read + 1, last : 0 .. read]
  /\ exitCode \in BOOLEAN /\ late \in BOOLEAN
  /\ at \in {"wait", "read", "kill", "finish", "done"}
  /\ total \in 0 .. read
  /\ updates \in Seq([kind : {"output", "too much"}, first : Nat, last : Nat, shown : Nat])
  /\ result \in {"none", "exited", "timed_out"}

Init ==
  /\ process = "running" /\ written = 0 /\ read = 0
  /\ exitCode = FALSE /\ late = FALSE /\ at = "wait"
  /\ buffer = Empty /\ total = 0 /\ updates = <<>> /\ result = "none"

-----------------------------------------------------------------------------
(* The process and the clock *)

Write(n) ==
  /\ process = "running" /\ written + n <= MaxOutput
  /\ written' = written + n
  /\ UNCHANGED <<process, read, exitCode, late, at, buffer, total, updates, result>>

Exit ==
  /\ process = "running"
  /\ process' = "exited"
  /\ UNCHANGED <<written, read, exitCode, late, at, buffer, total, updates, result>>

TimePasses ==
  /\ ~late
  /\ late' = TRUE
  /\ UNCHANGED <<process, written, read, exitCode, at, buffer, total, updates, result>>

-----------------------------------------------------------------------------
(* TaskUpdate *)

\* _truncate_output()
Truncated(update) == [update EXCEPT !.shown = Min({@, ChunkLimit})]

\* The output with the buffer is over the limit.
Exceeds(size) == total + size > TotalLimit

\* send_output() ignores everything after the limit.
Stopped == total > TotalLimit

\* _output_buffer.extend()
Extended(now) == [first |-> IF buffer = Empty THEN read + 1 ELSE buffer.first, last |-> now]

\* _output_buffer.clear()
Cleared(b) == Empty

\* send_output(), when bytes up to "now" were read.  The buffer is sent if the
\* last update is five seconds old, or if there was none.
SendOutput(now) ==
  IF now = read \/ Stopped
  THEN UNCHANGED <<buffer, total, updates>>
  ELSE LET b == Extended(now)
           size == b.last - b.first + 1 IN
         \/ /\ updates # <<>>
            /\ buffer' = b
            /\ UNCHANGED <<total, updates>>
         \/ /\ updates' = Append(updates, IF Exceeds(size) THEN Warning
                                          ELSE Truncated(Output(b.first, b.last)))
            /\ buffer' = Cleared(b)
            /\ total' = total + size

\* Faulty variant of Flushed: only the result is sent.
NotFlushed == updates

\* What is left in the buffer is sent before the result.
Flushed == IF buffer = Empty THEN updates
           ELSE Append(updates, Truncated(Output(buffer.first, buffer.last)))

\* send_finished()
SendFinished(status) ==
  /\ updates' = Flushed
  /\ buffer' = Empty
  /\ result' = status

-----------------------------------------------------------------------------
(* LocalTask.run() *)

\* process.wait(1)
Wait ==
  /\ at = "wait"
  /\ exitCode' = (process # "running")
  /\ at' = "read"
  /\ UNCHANGED <<process, written, read, late, buffer, total, updates, result>>

\* Faulty variant of Overdue: nothing ends a task that does not end by itself.
NeverOverdue == FALSE

Overdue == late

\* stdout_input.read() and what follows from the exit code and the time.
ReadOutput ==
  /\ at = "read"
  /\ SendOutput(written)
  /\ read' = written
  /\ at' = IF exitCode THEN "finish" ELSE IF Overdue THEN "kill" ELSE "wait"
  /\ UNCHANGED <<process, written, exitCode, late, result>>

Kill ==
  /\ at = "kill"
  /\ process' = IF process = "running" THEN "killed" ELSE process
  /\ at' = "finish"
  /\ UNCHANGED <<written, read, exitCode, late, buffer, total, updates, result>>

Finish ==
  /\ at = "finish"
  /\ SendFinished(IF exitCode THEN "exited" ELSE "timed_out")
  /\ at' = "done"
  /\ UNCHANGED <<process, written, read, exitCode, late, total>>

Done == at = "done" /\ process # "running" /\ UNCHANGED vars

Worker == Wait \/ ReadOutput \/ Kill \/ Finish

Next ==
  \/ \E n \in 1 .. MaxOutput : Write(n)
  \/ Exit
  \/ TimePasses
  \/ Worker
  \/ Done

Spec == Init /\ [][Next]_vars

\* The worker goes on and its clock as well.  The process need not end.
FairSpec == Spec /\ WF_vars(Worker) /\ WF_vars(TimePasses)

-----------------------------------------------------------------------------
(* Properties *)

Shown == {i \in DOMAIN updates : updates[i].kind = "output"}
Warned == {i \in DOMAIN updates : updates[i].kind = "too much"}

\* Updates show the output in its order and no byte twice (send_output(),
\* send_finished()).
InOrder ==
  \A i, k \in Shown : i < k => updates[i].last < updates[k].first

\* When the process has ended by itself, every byte it wrote is in an update,
\* if only cut, or the reader was warned that the output goes on
\* (LocalTask.run(), send_output(), send_finished()).
NothingIsMissed ==
  at = "done" /\ result = "exited" =>
    \A b \in 1 .. written :
      \/ \E i \in Shown : updates[i].first <= b /\ b <= updates[i].last
      \/ Warned # {}

\* All updates together show no more than the limit and one more update: all but
\* the last one are about bytes within the limit, and none shows more than a
\* chunk of its bytes (_output_total_size_limit, _truncate_output(), send_finished()).
Bounded ==
  \A i \in Shown :
    /\ updates[i].shown \in 0 .. ChunkLimit
    /\ updates[i].shown <= updates[i].last - updates[i].first + 1
    /\ \A k \in Shown : i < k => updates[i].last <= TotalLimit

\* "No more updates will be sent" is the last output (send_output()).
WarningIsLast == \A i \in Warned : i = Len(updates)

\* A task ends, also when its process does not (timeout_sec in run()).
TaskEnds == <>(at = "done")

\* The promises of the output of a task: it is shown in its order, up to the limit
\* completely, and after the warning not at all.
Safety ==
  /\ TypeOK
  /\ InOrder
  /\ NothingIsMissed
  /\ Bounded
  /\ WarningIsLast
=============================================================================
