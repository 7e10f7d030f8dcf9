------------------------------ MODULE ArmMarket -----------------------------
(***************************************************************************)
(* The market of contracts on physical machines: the sessions of           *)
(* arm_manager/server.py put out a tender on a socket (market.py), and the *)
(* contractors (snapshots.py), one process per machine, connect to it,     *)
(* boot the machine from a pending snapshot, accept the contract, and      *)
(* commit or roll back the snapshot.                                       *)
(*                                                                         *)
(* A stream is a connection of a contractor to a tender.  A message that   *)
(* was sent before its sender closed the stream can still be read.         *)
(***************************************************************************)
EXTENDS Integers, Sequences

CONSTANTS
  Machines,     \* contractors
  Sessions,     \* clients' connections to the manager
  Streams,      \* bound on the streams at a time: a set of numbers
  None,
  MaxCrashes    \* bound on the crashes of contractors

ConstantsAssumption ==
  /\ Streams \subseteq Nat
  /\ None \notin Sessions
  /\ MaxCrashes \in Nat

VARIABLES
  machine,   \* per contractor, where it is and on which stream
  session,   \* per session, what it does and on which stream
  gone,      \* sessions whose client has closed its connection
  stream,    \* both ends of each stream and the messages on their way
  disk,      \* contractors with a pending snapshot on the disk
  crashes

vars == <<machine, session, gone, stream, disk, crashes>>

\* Ends of a stream: the contractor's is open or not; the manager's waits in the
\* backlog, is offered the contract, is in _pending_contracts, executes a command.
Ends == {"queued", "offered", "pending", "command", "closed"}
Unused == [session |-> None, machine |-> None, open |-> FALSE, end |-> "closed",
           toMachine |-> <<>>, toSession |-> <<>>, done |-> FALSE]
Free(i) == stream[i] = Unused

Searching == [at |-> "search", on |-> 0]
Ready == [at |-> "ready", on |-> 0]

TypeOK ==
  /\ machine \in [Machines -> [at : {"search", "connected", "offered", "booting", "booted",
                                    "executing", "committing", "committed", "rollback"},
                              on : Streams \union {0}]]
  /\ session \in [Sessions -> [at : {"ready", "finding", "offering", "command", "closed"},
                              on : Streams \union {0}]]
  /\ stream \in [Streams ->
       [session : Sessions \union {None}, machine : Machines \union {None}, open : BOOLEAN,
        end : Ends, toMachine : {<<>>, <<"description">>, <<"commit">>},
        toSession : {<<>>, <<"rejected">>, <<"executing">>, <<"failure">>, <<"success">>},
        done : BOOLEAN]]
  /\ gone \subseteq Sessions
  /\ disk \subseteq Machines
  /\ crashes \in 0 .. MaxCrashes

Init ==
  /\ machine = [m \in Machines |-> Searching]
  /\ session = [s \in Sessions |-> Ready]
  /\ gone = {}
  /\ stream = [i \in Streams |-> Unused]
  /\ disk = {}
  /\ crashes = 0

On(m) == stream[machine[m].on]
MachineAt(m, at) == machine[m].at = at
MachineTo(m, at) == machine' = [machine EXCEPT ![m].at = at]
SessionAt(s, at) == session[s].at = at
SessionTo(s, at, i) == session' = [session EXCEPT ![s] = [at |-> at, on |-> i]]

\* A stream with one end closed.  With both closed it is forgotten.
WithoutMachine(st) == IF st.end = "closed" THEN Unused ELSE [st EXCEPT !.open = FALSE, !.toMachine = <<>>]
WithoutSession(st) == IF st.open THEN [st EXCEPT !.end = "closed", !.toSession = <<>>] ELSE Unused

\* The manager closes its ends of a set of streams.
Hanging(closed) == [i \in Streams |-> IF i \in closed THEN WithoutSession(stream[i]) ELSE stream[i]]
Of(s, ends) == {i \in Streams : stream[i].session = s /\ stream[i].end \in ends}

---------------------------------------------------------------------------
\* Sessions ----------------------------------------------------------------

\* A request for a machine: find_contractor() opens a socket for the tender.
GetSnapshot(s) ==
  /\ SessionAt(s, "ready")
  /\ s \notin gone
  /\ SessionTo(s, "finding", 0)
  /\ UNCHANGED <<machine, gone, stream, disk, crashes>>

\* wait_signed_contract() takes the next stream and offers the contract.
OfferContract(s) ==
  \E i \in Of(s, {"queued"}) :
    /\ SessionAt(s, "finding")
    /\ stream' = [stream EXCEPT ![i].end = "offered",
                                ![i].toMachine = IF stream[i].open THEN <<"description">> ELSE <<>>]
    /\ SessionTo(s, "offering", i)
    /\ UNCHANGED <<machine, gone, disk, crashes>>

\* The contractor closed the stream, or did not answer within 10 seconds.
OfferIgnored(s) ==
  /\ SessionAt(s, "offering")
  /\ stream' = Hanging({session[s].on})
  /\ SessionTo(s, "finding", 0)
  /\ UNCHANGED <<machine, gone, disk, crashes>>

Answer(s) == stream[session[s].on].toSession

\* The tender is closed with those who wait in its backlog.
ContractRejected(s) ==
  /\ SessionAt(s, "offering")
  /\ Answer(s) = <<"rejected">>
  /\ stream' = Hanging({session[s].on} \union Of(s, {"queued"}))
  /\ SessionTo(s, "ready", 0)
  /\ UNCHANGED <<machine, gone, disk, crashes>>

\* _pending_contracts is indexed by the name of the machine: an earlier contract
\* with it, whose contractor has quit, is forgotten.
ContractSigned(s) ==
  LET i == session[s].on
      same == {j \in Of(s, {"pending"}) : stream[j].machine = stream[i].machine} IN
  /\ SessionAt(s, "offering")
  /\ Answer(s) = <<"executing">>
  /\ stream' = [Hanging(Of(s, {"queued"}) \union same) EXCEPT
                  ![i].end = "pending", ![i].toSession = <<>>]
  /\ SessionTo(s, "ready", 0)
  /\ UNCHANGED <<machine, gone, disk, crashes>>

\* Faulty variant of CloseSession: the contracts of the session stay.
CloseSocketOnly(s) ==
  /\ stream' = Hanging(Of(s, {"queued", "offered"}))
  /\ session' = [session EXCEPT ![s] = [at |-> "closed", on |-> 0]]

\* _serve() ends, and _close_pending_contracts() with it.
CloseSession(s) ==
  /\ stream' = Hanging(Of(s, Ends))
  /\ session' = [session EXCEPT ![s] = [at |-> "closed", on |-> 0]]

\* The timeout of the request (1800 seconds) is not handled and ends the session.
RequestTimeout(s) ==
  /\ session[s].at \in {"finding", "offering"}
  /\ CloseSession(s)
  /\ UNCHANGED <<machine, gone, disk, crashes>>

UnlockMachine(s) ==
  \E i \in Of(s, {"pending"}) :
    /\ SessionAt(s, "ready")
    /\ stream' = Hanging({i})
    /\ UNCHANGED <<machine, session, gone, disk, crashes>>

CommitSnapshot(s) ==
  \E i \in Of(s, {"pending"}) :
    /\ SessionAt(s, "ready")
    /\ s \notin gone
    /\ stream' = [stream EXCEPT ![i].end = "command",
                                ![i].toMachine = IF stream[i].open THEN <<"commit">> ELSE <<>>]
    /\ SessionTo(s, "command", i)
    /\ UNCHANGED <<machine, gone, disk, crashes>>

\* Success, CommandFailed, or ContractorQuit; there is no timeout.
CommitAnswered(s) ==
  /\ SessionAt(s, "command")
  /\ \/ Answer(s) # <<>>
     \/ ~stream[session[s].on].open
  /\ stream' = Hanging({session[s].on})
  /\ SessionTo(s, "ready", 0)
  /\ UNCHANGED <<machine, gone, disk, crashes>>

ClientLeaves(s) ==
  /\ ~SessionAt(s, "closed")
  /\ s \notin gone
  /\ gone' = gone \union {s}
  /\ UNCHANGED <<machine, session, stream, disk, crashes>>

\* The end of the client's stream is seen between two requests only.
EndSession(s) ==
  /\ SessionAt(s, "ready")
  /\ s \in gone
  /\ CloseSession(s)
  /\ UNCHANGED <<machine, gone, disk, crashes>>

\* Another client.
NewSession(s) ==
  /\ SessionAt(s, "closed")
  /\ gone' = gone \ {s}
  /\ session' = [session EXCEPT ![s] = Ready]
  /\ UNCHANGED <<machine, stream, disk, crashes>>

\* The manager is restarted.
ManagerCrash ==
  /\ stream' = Hanging(Streams)
  /\ session' = [s \in Sessions |-> [at |-> "closed", on |-> 0]]
  /\ UNCHANGED <<machine, gone, disk, crashes>>

---------------------------------------------------------------------------
\* Contractors -------------------------------------------------------------

\* The contractor closes its end and looks for another contract.
Quit(m) ==
  /\ stream' = [stream EXCEPT ![machine[m].on] = WithoutMachine(@)]
  /\ machine' = [machine EXCEPT ![m] = Searching]

\* iter_active_by_age(): the backlog of a tender has room for one.
Connect(m, s) ==
  \E i \in Streams :
    /\ MachineAt(m, "search")
    /\ session[s].at \in {"finding", "offering"}
    /\ Of(s, {"queued"}) = {}
    /\ Free(i) /\ \A j \in Streams : j < i => ~Free(j)
    /\ stream' = [stream EXCEPT ![i] = [Unused EXCEPT !.session = s, !.machine = m,
                                                      !.open = TRUE, !.end = "queued"]]
    /\ machine' = [machine EXCEPT ![m] = [at |-> "connected", on |-> i]]
    /\ UNCHANGED <<session, gone, disk, crashes>>

ReadDescription(m) ==
  /\ MachineAt(m, "connected")
  /\ On(m).toMachine # <<>>
  /\ stream' = [stream EXCEPT ![machine[m].on].toMachine = <<>>]
  /\ MachineTo(m, "offered")
  /\ UNCHANGED <<session, gone, disk, crashes>>

\* Closed, or nothing came within a second; or the contract does not suit.
PassBy(m) ==
  /\ machine[m].at \in {"connected", "offered"}
  /\ Quit(m)
  /\ UNCHANGED <<session, gone, disk, crashes>>

\* The snapshot is being created, exists, or has no parent.
Send(m, answer) == [stream EXCEPT ![machine[m].on].toSession = <<answer>>]

Reject(m) ==
  /\ MachineAt(m, "offered")
  /\ stream' = IF On(m).end = "closed" THEN [stream EXCEPT ![machine[m].on] = Unused]
               ELSE [Send(m, "rejected") EXCEPT ![machine[m].on].open = FALSE]
  /\ machine' = [machine EXCEPT ![m] = Searching]
  /\ UNCHANGED <<session, gone, disk, crashes>>

MakeSnapshot(m) ==
  /\ MachineAt(m, "offered")
  /\ disk' = disk \union {m}
  /\ MachineTo(m, "booting")
  /\ UNCHANGED <<session, gone, stream, crashes>>

Boot(m) ==
  /\ MachineAt(m, "booting")
  /\ MachineTo(m, "booted")
  /\ UNCHANGED <<session, gone, stream, disk, crashes>>

\* Faulty variant of Accept: the machine is booted after the contract is signed.
AcceptEarly(m) ==
  /\ machine[m].at \in {"booting", "booted"}
  /\ On(m).end # "closed"
  /\ stream' = Send(m, "executing")
  /\ machine' = [machine EXCEPT ![m].at = IF MachineAt(m, "booted") THEN "executing" ELSE @]
  /\ UNCHANGED <<session, gone, disk, crashes>>

Accept(m) ==
  /\ MachineAt(m, "booted")
  /\ On(m).end # "closed"
  /\ stream' = Send(m, "executing")
  /\ MachineTo(m, "executing")
  /\ UNCHANGED <<session, gone, disk, crashes>>

\* The stream is closed: too late to accept, or the client has what it wanted.
\* A snapshot that was not committed is rolled back after the stream is closed.
Leave(m) ==
  /\ stream' = [stream EXCEPT ![machine[m].on] = WithoutMachine(@)]
  /\ machine' = [machine EXCEPT ![m] = [at |-> "rollback", on |-> 0]]

ContractOver(m) ==
  /\ machine[m].at \in {"booted", "executing"}
  /\ On(m).end = "closed"
  /\ On(m).toMachine = <<>>
  /\ IF On(m).done THEN Quit(m) ELSE Leave(m)
  /\ UNCHANGED <<session, gone, disk, crashes>>

ReadCommand(m) ==
  /\ MachineAt(m, "executing")
  /\ On(m).toMachine = <<"commit">>
  /\ stream' = [stream EXCEPT ![machine[m].on].toMachine = <<>>]
  /\ MachineTo(m, "committing")
  /\ UNCHANGED <<session, gone, disk, crashes>>

\* The machine is shut down, the disk detached and renamed.
Commit(m) ==
  /\ MachineAt(m, "committing")
  /\ disk' = disk \ {m}
  /\ stream' = [stream EXCEPT ![machine[m].on].done = TRUE]
  /\ MachineTo(m, "committed")
  /\ UNCHANGED <<session, gone, crashes>>

\* The failure is reported and the process ends.
CommitFails(m) ==
  /\ MachineAt(m, "committing")
  /\ stream' = IF On(m).end = "closed" THEN [stream EXCEPT ![machine[m].on] = Unused]
               ELSE [Send(m, "failure") EXCEPT ![machine[m].on].open = FALSE]
  /\ machine' = [machine EXCEPT ![m] = [at |-> "rollback", on |-> 0]]
  /\ UNCHANGED <<session, gone, disk, crashes>>

ReportSuccess(m) ==
  /\ MachineAt(m, "committed")
  /\ IF On(m).end = "closed"
       THEN Quit(m)                    \* the process ends, the snapshot stays
       ELSE stream' = Send(m, "success") /\ MachineTo(m, "executing")
  /\ UNCHANGED <<session, gone, disk, crashes>>

Rollback(m) ==
  /\ MachineAt(m, "rollback")
  /\ disk' = disk \ {m}
  /\ machine' = [machine EXCEPT ![m] = Searching]
  /\ UNCHANGED <<session, gone, stream, crashes>>

\* The process ends without a rollback: the boot or the rollback has failed too.
Crash(m) ==
  /\ ~MachineAt(m, "search")
  /\ crashes < MaxCrashes
  /\ crashes' = crashes + 1
  /\ disk' = disk \ {m}
  /\ IF MachineAt(m, "rollback") THEN machine' = [machine EXCEPT ![m] = Searching] /\ UNCHANGED stream
                                 ELSE Quit(m)
  /\ UNCHANGED <<session, gone>>

---------------------------------------------------------------------------
MachineStep(m) ==
  \/ ReadDescription(m) \/ PassBy(m) \/ Reject(m) \/ MakeSnapshot(m) \/ Boot(m)
  \/ Accept(m) \/ ContractOver(m) \/ ReadCommand(m)
  \/ Commit(m) \/ CommitFails(m) \/ ReportSuccess(m) \/ Rollback(m)

\* What a session does without its client.
SessionStep(s) ==
  \/ OfferContract(s) \/ OfferIgnored(s) \/ ContractRejected(s) \/ ContractSigned(s)
  \/ CommitAnswered(s) \/ EndSession(s)

Next ==
  \/ \E m \in Machines : MachineStep(m) \/ Crash(m) \/ \E s \in Sessions : Connect(m, s)
  \/ \E s \in Sessions :
       \/ SessionStep(s)
       \/ GetSnapshot(s) \/ RequestTimeout(s) \/ UnlockMachine(s) \/ CommitSnapshot(s)
       \/ ClientLeaves(s) \/ NewSession(s)
  \/ ManagerCrash

Spec == Init /\ [][Next]_vars

\* Timers go off, and nobody stops for ever; clients need not do anything.
FairSpec ==
  /\ Spec
  /\ \A m \in Machines : WF_vars(MachineStep(m))
  /\ \A s \in Sessions : WF_vars(SessionStep(s)) /\ WF_vars(RequestTimeout(s))

---------------------------------------------------------------------------
(***************************************************************************)
(* Properties                                                              *)
(***************************************************************************)

\* Who is at work with a stream has its own end of that stream open: a contractor, and
\* a session that waits for an answer; and no two of them are at work with one.
OwnEnds ==
  /\ \A m \in Machines : machine[m].at \notin {"search", "rollback"} =>
       machine[m].on \in Streams /\ On(m).open /\ On(m).machine = m
  /\ \A s \in Sessions : session[s].at \in {"offering", "command"} =>
       /\ session[s].on \in Streams
       /\ stream[session[s].on].session = s
       /\ stream[session[s].on].end = IF SessionAt(s, "offering") THEN "offered" ELSE "command"

\* A machine that a client was given is booted from its snapshot and serves that
\* contract only, until its contractor has quit.
SignedIsServed ==
  \A i \in Streams :
    stream[i].end \in {"pending", "command"} /\ stream[i].open =>
      LET m == stream[i].machine IN
        /\ machine[m].on = i
        /\ machine[m].at \in {"executing", "committing", "committed"}
        /\ m \in disk \/ stream[i].done

\* Whatever ends a contract, the pending snapshot is committed or rolled back
\* before the contractor looks for another one, unless its process crashed.
NoDiskForgotten ==
  \A m \in disk : machine[m].at \in {"booting", "booted", "executing", "committing", "rollback"}

\* A client that is told that its snapshot was committed has it.
OkMeansCommitted ==
  \A i \in Streams : stream[i].toSession = <<"success">> => stream[i].done

\* A machine comes back from a client that has gone, whatever the session was
\* doing at that moment.
MachineComesBack ==
  \A m \in Machines, s \in Sessions :
    (s \in gone /\ ~MachineAt(m, "search") /\ \E i \in Of(s, {"pending", "command"}) :
        stream[i].machine = m /\ stream[i].open)
      ~> MachineAt(m, "search")

\* The promises of the market: a signed contract is served by its machine, ends
\* with its disk committed or rolled back, and the client is told which.
Safety ==
  /\ TypeOK
  /\ OwnEnds
  /\ SignedIsServed
  /\ NoDiskForgotten
  /\ OkMeansCommitted
=============================================================================
