----------------------------- MODULE ElasticLog -----------------------------
(***************************************************************************)
(* The logging handler that ships log records to Elasticsearch             *)
(* (infrastructure/elasticsearch_logging).  A logging call puts an event   *)
(* into a bounded queue; one daemon thread takes the events, gathers them  *)
(* in a buffer and inserts the buffer as a batch, with retries.  The       *)
(* thread is not protected: an insertion that fails for the last time ends *)
(* it, and the program goes on without it.  An item that Elasticsearch     *)
(* refuses in its answer is written to stderr and dropped.                 *)
(*                                                                         *)
(* Logging calls are serialised by the handler's own lock, so one counter  *)
(* stands for all threads that log.  An event is its number.               *)
(***************************************************************************)
EXTENDS Naturals, Sequences, FiniteSets, SequencesExt

CONSTANTS
  MaxEvents,  \* bound: logging calls
  QueueSize,  \* maxsize of the queue (100000)
  BatchSize,  \* events of a full buffer (100)
  Attempts,   \* attempts_left of a batch (5)
  MaxLost     \* bound: answers of Elasticsearch that do not arrive

SizesAssumption ==
  MaxEvents \in Nat /\ QueueSize \in Nat \ {0} /\ BatchSize \in Nat \ {0} /\ Attempts \in Nat
  /\ MaxLost \in Nat

VARIABLES
  emitted,   \* logging calls so far
  refused,   \* events whose logging call was left by queue.Full
  queue,     \* events, and Stop
  thread,    \* "get", "insert", "last" (insert after Stop), "ended" or "failed"
  buffer,    \* events gathered
  blob,      \* the batch that is being inserted
  attempts,  \* attempts left for it
  closing,   \* "no", "join", "closed" or "failed"
  indexed,   \* events in Elasticsearch in the order of their insertion
  dropped,   \* events that the answer to their batch refused
  lost       \* answers that did not arrive

vars == <<emitted, refused, queue, thread, buffer, blob, attempts, closing, indexed, dropped, lost>>

Stop == 0

Init ==
  /\ emitted = 0 /\ refused = {} /\ queue = <<>>
  /\ thread = "get" /\ buffer = <<>> /\ blob = <<>> /\ attempts = 0
  /\ closing = "no" /\ indexed = <<>> /\ dropped = {} /\ lost = 0

Sender == <<thread, buffer, blob, attempts, indexed, dropped, lost>>

\* emit(): put_nowait() raises queue.Full, which leaves the logging call.
Emit ==
  /\ closing = "no" /\ emitted < MaxEvents
  /\ emitted' = emitted + 1
  /\ \/ /\ Len(queue) < QueueSize
        /\ queue' = Append(queue, emitted') /\ UNCHANGED refused
     \/ /\ Len(queue) = QueueSize
        /\ refused' = refused \cup {emitted'} /\ UNCHANGED queue
  /\ UNCHANGED <<closing, Sender>>

\* close() puts the stop marker; there may be no room for it either.
Close ==
  /\ closing = "no"
  /\ \/ /\ Len(queue) < QueueSize
        /\ queue' = Append(queue, Stop) /\ closing' = "join"
     \/ /\ Len(queue) = QueueSize
        /\ closing' = "failed" /\ UNCHANGED queue
  /\ UNCHANGED <<emitted, refused, Sender>>

\* Faulty variant of Join: close() waits until the queue is empty.
JoinQueue ==
  /\ closing = "join" /\ queue = <<>>
  /\ closing' = "closed"
  /\ UNCHANGED <<emitted, refused, queue, Sender>>

\* close() waits until the thread has exited, in either way.
Join ==
  /\ closing = "join" /\ thread \in {"ended", "failed"}
  /\ closing' = "closed"
  /\ UNCHANGED <<emitted, refused, queue, Sender>>

\* _flush(): the buffer is read out and its insertion starts; when it is empty
\* the thread goes on.
Flush(b, then) ==
  IF b = <<>> THEN /\ thread' = IF then = "last" THEN "ended" ELSE "get"
                   /\ buffer' = <<>> /\ UNCHANGED <<blob, attempts>>
  ELSE thread' = then /\ buffer' = <<>> /\ blob' = b /\ attempts' = Attempts

\* The thread takes an event or the stop marker.
Get ==
  /\ thread = "get" /\ queue # <<>>
  /\ queue' = Tail(queue)
  /\ LET event == Head(queue)
         gathered == Append(buffer, event)
     IN IF event = Stop THEN Flush(buffer, "last")
        ELSE IF Len(gathered) >= BatchSize THEN Flush(gathered, "insert")
        ELSE buffer' = gathered /\ UNCHANGED <<thread, blob, attempts>>
  /\ UNCHANGED <<emitted, refused, closing, indexed, dropped, lost>>

\* Ten seconds without an event.
GetTimeout ==
  /\ thread = "get" /\ queue = <<>> /\ buffer # <<>>
  /\ Flush(buffer, "insert")
  /\ UNCHANGED <<emitted, refused, queue, closing, indexed, dropped, lost>>

\* The parts of a batch that Elasticsearch may take: any of its events, in the
\* order of the batch.
Selections(n, length) ==
  {places \in [1 .. n -> 1 .. length] : \A i, k \in 1 .. n : i < k => places[i] < places[k]}
Chosen(batch, places) == [i \in DOMAIN places |-> batch[places[i]]]
Parts(batch) ==
  UNION {{Chosen(batch, places) : places \in Selections(n, Len(batch))} : n \in 0 .. Len(batch)}

\* The answer arrives.  _perform_request() writes the items that it refuses to
\* stderr and returns, as if everything had been inserted.
InsertSucceeds ==
  /\ thread \in {"insert", "last"}
  /\ \E part \in Parts(blob) :
       /\ indexed' = indexed \o part
       /\ dropped' = dropped \cup (Range(blob) \ Range(part))
  /\ blob' = <<>>
  /\ thread' = IF thread = "last" THEN "ended" ELSE "get"
  /\ UNCHANGED <<emitted, refused, queue, buffer, attempts, closing, lost>>

\* The except branch of _bulk_insert(): a delay, or the exception ends the thread.
Retry ==
  IF attempts = 0 THEN thread' = "failed" /\ UNCHANGED attempts
  ELSE attempts' = attempts - 1 /\ UNCHANGED thread

\* Faulty variant of InsertFails: the events of a failed batch go back into the queue.
InsertLater ==
  /\ thread = "insert" /\ Len(queue) + Len(blob) <= QueueSize
  /\ queue' = queue \o blob /\ blob' = <<>> /\ thread' = "get"
  /\ UNCHANGED <<emitted, refused, buffer, attempts, closing, indexed, dropped, lost>>

\* URLError, ConnectionError or TimeoutError, nothing is inserted.
InsertFails ==
  /\ thread \in {"insert", "last"}
  /\ Retry
  /\ UNCHANGED <<emitted, refused, queue, buffer, blob, closing, indexed, dropped, lost>>

\* What could be inserted is, the answer does not arrive, and the whole batch is
\* sent again.
AnswerLost ==
  /\ thread \in {"insert", "last"} /\ lost < MaxLost
  /\ lost' = lost + 1
  /\ \E part \in Parts(blob) : indexed' = indexed \o part
  /\ Retry
  /\ UNCHANGED <<emitted, refused, queue, buffer, blob, closing, dropped>>

\* Any other exception, such as an answer that is not JSON or has an item of
\* another form, ends the thread, whatever was inserted before.
ThreadFails ==
  /\ thread \in {"insert", "last"}
  /\ \E part \in Parts(blob) : indexed' = indexed \o part
  /\ thread' = "failed"
  /\ UNCHANGED <<emitted, refused, queue, buffer, blob, attempts, closing, dropped, lost>>

SendingLoop == Get \/ GetTimeout \/ InsertSucceeds \/ InsertFails \/ AnswerLost \/ ThreadFails

Next == Emit \/ Close \/ Join \/ SendingLoop

Spec == Init /\ [][Next]_vars
\* The thread runs until it exits; join() returns then.
FairSpec == Spec /\ WF_vars(SendingLoop) /\ WF_vars(Join)

----------------------------------------------------------------------------
(* Properties *)

Accepted == (1 .. emitted) \ refused

\* The state is well-formed; the buffer never reaches the size of a batch.
TypeOK ==
  /\ emitted \in 0 .. MaxEvents /\ refused \subseteq 1 .. emitted
  /\ Range(queue) \subseteq 0 .. emitted /\ Len(queue) <= QueueSize
  /\ thread \in {"get", "insert", "last", "ended", "failed"}
  /\ closing \in {"no", "join", "closed", "failed"}
  /\ attempts \in 0 .. Attempts
  /\ Len(buffer) < BatchSize /\ Len(blob) <= BatchSize
  /\ Range(indexed) \subseteq 1 .. emitted /\ dropped \subseteq 1 .. emitted
  /\ lost \in 0 .. MaxLost

\* While the thread lives an accepted event waits, is in Elasticsearch or was
\* refused by it, and none is left behind when the thread ends: the batch that
\* read_out() takes from the buffer is otherwise lost only with the thread.
AcceptedIsKept ==
  thread # "failed" =>
    Accepted = (Range(queue) \ {Stop}) \cup Range(buffer) \cup Range(blob) \cup Range(indexed) \cup dropped

\* A handler that was closed with a living thread has sent everything: what is
\* not in Elasticsearch was refused by it.
ClosedIsSent ==
  closing = "closed" /\ thread = "ended" => Accepted \subseteq Range(indexed) \cup dropped

\* Events enter Elasticsearch in the order of the logging calls, but for those
\* that come again, or come late, in a batch whose answer was lost: they are no
\* farther apart than the size of a batch, and one event comes as often again
\* as answers were lost.
InsertedInOrder ==
  \A i, j \in DOMAIN indexed :
    i < j /\ indexed[j] <= indexed[i] =>
      /\ lost > 0
      /\ Cardinality((indexed[j] .. indexed[i]) \ refused) <= BatchSize
      /\ Cardinality({h \in DOMAIN indexed : indexed[h] = indexed[j]}) <= lost + 1

\* close() returns once the stop marker is in the queue, whatever Elasticsearch
\* does: the end of a program does not wait for ever.
CloseReturns == closing = "join" ~> closing = "closed"

\* The promises of the handler: while its thread lives, an accepted event is lost
\* only if Elasticsearch refuses it, and is overtaken only in its own batch; it
\* is sent before close() returns.
Safety ==
  /\ TypeOK
  /\ AcceptedIsKept
  /\ ClosedIsSent
  /\ InsertedInOrder
=============================================================================
