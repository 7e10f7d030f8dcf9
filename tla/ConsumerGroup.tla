--------------------------- MODULE ConsumerGroup ---------------------------
(***************************************************************************)
(* One stream of the message broker with one consumer group: the producer  *)
(* (message_broker/_producer.py), the consumers (_consumer.py), each a     *)
(* process that systemd restarts under the same consumer name (_uri.py),   *)
(* and the administrator's commands (_redis_admin.py).                     *)
(*                                                                         *)
(* Entries are numbered 1 .. added in the order of XADD.  What Redis does  *)
(* with a stream is modelled from the commands these files send.           *)
(***************************************************************************)
EXTENDS Naturals, FiniteSets

CONSTANTS
  Consumers,    \* consumer names: get_process_uri() of each process
  MaxLen,       \* the maxlen of XADD, 1_000_000 in the code
  MaxMessages,  \* bound on the number of entries
  MaxCrashes,   \* bound on the number of process crashes
  MaxCommands   \* bound on the number of administrator's commands

ASSUME ConstantsAssumption ==
  /\ IsFiniteSet(Consumers)
  /\ MaxLen \in Nat \ {0}
  /\ MaxMessages \in Nat
  /\ MaxCrashes \in Nat
  /\ MaxCommands \in Nat

VARIABLES
  \* Redis
  added,      \* number of entries ever added
  oldest,     \* the oldest entry still kept; added + 1 if none is
  group,      \* whether the consumer group exists
  delivered,  \* the last entry given to the group
  pending,    \* per consumer, the entries given to it and not acknowledged
  \* the consumer processes
  pc,
  current,    \* _current_message_id; 0 stands for None
  \* history and bounds
  handled,    \* entries whose handling was completed at least once
  lost,       \* unfinished entries given up by trimming, by a command, or
              \* written while there was no group
  crashes,
  commands

redisVars == <<added, oldest, group, delivered, pending>>
vars == <<redisVars, pc, current, handled, lost, crashes, commands>>

Messages == 1 .. MaxMessages
None == 0

TypeOK ==
  /\ added \in 0 .. MaxMessages
  /\ oldest \in 1 .. MaxMessages + 1
  /\ group \in {"absent", "present"}
  /\ delivered \in 0 .. MaxMessages
  /\ pending \in [Consumers -> SUBSET Messages]
  /\ pc \in [Consumers -> {"down", "idle", "polling", "handling", "done"}]
  /\ current \in [Consumers -> Messages \union {None}]
  /\ handled \in SUBSET Messages
  /\ lost \in SUBSET Messages
  /\ crashes \in 0 .. MaxCrashes
  /\ commands \in 0 .. MaxCommands

AllPending == UNION {pending[c] : c \in Consumers}

\* Entries the group has not been given yet and Redis still keeps.
Undelivered == {m \in 1 .. added : group = "present" /\ m > delivered /\ m >= oldest}

Init ==
  /\ added = 0
  /\ oldest = 1
  /\ group = "absent"
  /\ delivered = 0
  /\ pending = [c \in Consumers |-> {}]
  /\ pc = [c \in Consumers |-> "down"]
  /\ current = [c \in Consumers |-> None]
  /\ handled = {}
  /\ lost = {}
  /\ crashes = 0
  /\ commands = 0

---------------------------------------------------------------------------
\* RedisProducer.write_message().  The trimming is approximate: Redis may
\* keep more than MaxLen entries, never fewer.
Write ==
  /\ added < MaxMessages
  /\ added' = added + 1
  /\ oldest' \in {n \in oldest .. added' : n = oldest \/ n + MaxLen <= added' + 1}
  /\ lost' = lost \union {m \in Undelivered : m < oldest'}
                  \union {m \in {added'} : group = "absent"}
  /\ UNCHANGED <<group, delivered, pending, pc, current, handled, crashes, commands>>

\* Faulty variant of Start: the group is created at the beginning, id='0'.
StartFromBeginning(c) ==
  /\ pc[c] = "down"
  /\ pc' = [pc EXCEPT ![c] = "idle"]
  /\ group' = "present"
  /\ delivered' = IF group = "present" THEN delivered ELSE 0
  /\ UNCHANGED <<added, oldest, pending, current, handled, lost, crashes, commands>>

\* RedisConsumer.__init__(): the group is created at the end of the stream,
\* BUSYGROUP is ignored.
Start(c) ==
  /\ pc[c] = "down"
  /\ pc' = [pc EXCEPT ![c] = "idle"]
  /\ group' = "present"
  /\ delivered' = IF group = "present" THEN delivered ELSE added
  /\ UNCHANGED <<added, oldest, pending, current, handled, lost, crashes, commands>>

Exit(c) ==
  /\ pc' = [pc EXCEPT ![c] = "down"]
  /\ current' = [current EXCEPT ![c] = None]

\* Faulty variant of ReadUnacknowledged: only new entries are asked for.
SkipUnacknowledged(c) ==
  /\ pc[c] = "idle"
  /\ pc' = [pc EXCEPT ![c] = "polling"]
  /\ UNCHANGED <<redisVars, current, handled, lost, crashes, commands>>

\* read_message(): the first XREADGROUP, from 0-0, gives an entry that this
\* consumer was given before and never acknowledged.  If the entry itself has
\* been trimmed, or if the group is gone, the process fails.
ReadUnacknowledged(c) ==
  /\ pc[c] = "idle"
  /\ current[c] = None
  /\ \/ /\ group = "present"
        /\ pending[c] = {}
        /\ pc' = [pc EXCEPT ![c] = "polling"]
        /\ UNCHANGED current
     \/ \E m \in pending[c] :
           /\ group = "present"
           /\ \A n \in pending[c] : m <= n
           /\ m >= oldest
           /\ pc' = [pc EXCEPT ![c] = "handling"]
           /\ current' = [current EXCEPT ![c] = m]
     \/ \E m \in pending[c] :
           /\ \A n \in pending[c] : m <= n
           /\ m < oldest
           /\ Exit(c)
     \/ group = "absent" /\ Exit(c)
  /\ UNCHANGED <<redisVars, handled, lost, crashes, commands>>

\* read_message(): the second XREADGROUP, from >, gives the group's next entry
\* to this consumer, or nothing.
ReadNew(c) ==
  /\ pc[c] = "polling"
  /\ \/ \E m \in Undelivered :
           /\ \A n \in Undelivered : m <= n
           /\ delivered' = m
           /\ pending' = [pending EXCEPT ![c] = @ \union {m}]
           /\ pc' = [pc EXCEPT ![c] = "handling"]
           /\ current' = [current EXCEPT ![c] = m]
     \/ /\ group = "present"
        /\ Undelivered = {}
        /\ pc' = [pc EXCEPT ![c] = "idle"]
        /\ UNCHANGED <<delivered, pending, current>>
     \/ /\ group = "absent"
        /\ Exit(c)
        /\ UNCHANGED <<delivered, pending>>
  /\ UNCHANGED <<added, oldest, group, handled, lost, crashes, commands>>

\* The service's own work on the message, between read_message() and
\* acknowledge().
Handle(c) ==
  /\ pc[c] = "handling"
  /\ handled' = handled \union {current[c]}
  /\ pc' = [pc EXCEPT ![c] = "done"]
  /\ UNCHANGED <<redisVars, current, lost, crashes, commands>>

\* Faulty variant of Acknowledge: acknowledged before the work is done.
AcknowledgeEarly(c) ==
  /\ pc[c] \in {"handling", "done"}
  /\ pending' = [pending EXCEPT ![c] = @ \ {current[c]}]
  /\ current' = [current EXCEPT ![c] = None]
  /\ pc' = [pc EXCEPT ![c] = "idle"]
  /\ UNCHANGED <<added, oldest, group, delivered, handled, lost, crashes, commands>>

\* acknowledge(): XACK of an entry that is not pending changes nothing.
Acknowledge(c) ==
  /\ pc[c] = "done"
  /\ pending' = [pending EXCEPT ![c] = @ \ {current[c]}]
  /\ current' = [current EXCEPT ![c] = None]
  /\ pc' = [pc EXCEPT ![c] = "idle"]
  /\ UNCHANGED <<added, oldest, group, delivered, handled, lost, crashes, commands>>

\* The process dies between any two of its steps; __init__() runs again.
Crash(c) ==
  /\ pc[c] # "down"
  /\ crashes < MaxCrashes
  /\ crashes' = crashes + 1
  /\ Exit(c)
  /\ UNCHANGED <<redisVars, handled, lost, commands>>

---------------------------------------------------------------------------
\* DeleteConsumer.run(): XGROUP DELCONSUMER discards what is pending.
DeleteConsumer(c) ==
  /\ commands < MaxCommands
  /\ commands' = commands + 1
  /\ group = "present"
  /\ lost' = lost \union pending[c]
  /\ pending' = [pending EXCEPT ![c] = {}]
  /\ UNCHANGED <<added, oldest, group, delivered, pc, current, handled, crashes>>

\* The XGROUP DESTROY that ends DeleteGroup.run(); the DELCONSUMER commands it
\* sends first are DeleteConsumer steps.
DestroyGroup ==
  /\ commands < MaxCommands
  /\ commands' = commands + 1
  /\ group = "present"
  /\ lost' = lost \union AllPending \union Undelivered
  /\ group' = "absent"
  /\ pending' = [c \in Consumers |-> {}]
  /\ UNCHANGED <<added, oldest, delivered, pc, current, handled, crashes>>

\* The DEL that ends DeleteStream.run(): the groups go with the stream.
DeleteStream ==
  /\ commands < MaxCommands
  /\ commands' = commands + 1
  /\ lost' = lost \union AllPending \union Undelivered
  /\ oldest' = added + 1
  /\ group' = "absent"
  /\ pending' = [c \in Consumers |-> {}]
  /\ UNCHANGED <<added, delivered, pc, current, handled, crashes>>

Read(c) == ReadUnacknowledged(c) \/ ReadNew(c)

Next ==
  \/ Write
  \/ \E c \in Consumers :
        \/ Start(c)
        \/ Read(c)
        \/ Handle(c)
        \/ Acknowledge(c)
        \/ Crash(c)
        \/ DeleteConsumer(c)
  \/ DestroyGroup
  \/ DeleteStream

Spec == Init /\ [][Next]_vars

\* systemd restarts a process (Restart=, RestartSec=), and a running process
\* keeps calling read_message(); crashes are not fair and not systematic.
FairSpec ==
  /\ Spec
  /\ \A c \in Consumers :
        WF_vars(Start(c) \/ Read(c) \/ Handle(c) \/ Acknowledge(c))

---------------------------------------------------------------------------
(***************************************************************************)
(* Properties                                                              *)
(***************************************************************************)

\* An entry that was never handled to the end is still due to some consumer,
\* or it was given up by an event outside the read/acknowledge protocol: the
\* consumer acknowledges after the handling, and a crash in between leaves the
\* entry pending under a name that the restarted process uses again.
NothingForgotten ==
  \A m \in 1 .. added :
     \/ m \in handled
     \/ m \in lost
     \/ m \in Undelivered
     \/ m \in AllPending

\* read_message() looks at this consumer's own unacknowledged entry before it
\* asks for a new one, so that a crashed process never hoards entries.
AtMostOnePending ==
  \A c \in Consumers : Cardinality(pending[c]) <= 1

\* No entry is being handled by two processes at once: XREADGROUP > gives it to
\* one consumer, and neither a crash nor an administrator's command hands it to
\* another one.
HandledByOne ==
  \A c, d \in Consumers :
     (c # d /\ current[c] # None) => current[c] # current[d]

\* A process takes up an entry only after all earlier ones were finished, given
\* up, or given to the other processes: a crash makes it repeat its last entry,
\* never skip it.  A stream with one consumer name is thus handled in the order
\* in which it was written, which is what the updates of a task rely on.
HandledInOrder ==
  \A c \in Consumers : pc[c] \in {"handling", "done"} =>
    \A n \in 1 .. current[c] - 1 :
      n \in handled \union lost \union UNION {pending[d] : d \in Consumers \ {c}}

\* A group is created at the end of the stream (id='$'), so a restarted process
\* never replays what was finished: nobody is given an entry that everybody
\* has finished with, even when the group was destroyed and created again.
NoReplay ==
  [][\A c \in Consumers, m \in Messages :
        (m \in pending'[c] /\ m \notin pending[c]) => m \notin handled \union lost]_vars

\* The consumer group implements the queue that the services rely on.
Queue == INSTANCE AtLeastOnce WITH
  published <- added,
  outstanding <- AllPending \union Undelivered

ImplementsQueue == Queue!Spec

\* A consumer whose unacknowledged entry was trimmed: it fails on it at every
\* start, until the consumer is deleted.
Stuck(c) == \E m \in pending[c] : m < oldest

\* Every entry that is not given up is handled, and acknowledged, although
\* processes crash: the restarted process takes up what the crashed one left.
\* The exceptions are an entry that is trimmed while it is pending and what
\* comes after it when no consumer is left that has no such entry.
EventuallyFinished ==
  \A m \in Messages :
     (m <= added) ~>
        \/ m \in lost \/ m \in handled \ (AllPending \union Undelivered)
        \/ m < oldest \/ \A c \in Consumers : Stuck(c)

\* The promises of the consumer group to the services that read their streams
\* through it: an entry is with one consumer, which has one at a time, until it
\* was handled or given up.
Safety ==
  /\ TypeOK
  /\ NothingForgotten
  /\ AtMostOnePending
  /\ HandledByOne
=============================================================================
