---------------------------- MODULE IscsiSession ----------------------------
(***************************************************************************)
(* Sessions of the iSCSI target (arms/qcow2target/pkg/iscsi_target):       *)
(* writes whose data is asked for in bursts, task management, pings, and   *)
(* connections that end while commands are under way.  An ARM machine logs *)
(* in with one connection at a time; the next one is a new session.  At    *)
(* most one goroutine at a time reads a connection and handles what it     *)
(* has read.  The initiator is external.                                   *)
(***************************************************************************)
EXTENDS Naturals, Sequences, FiniteSets

CONSTANTS
  Tags, TmfTag, \* task tags of writes; the one of task management requests
  Lbas,         \* places on the disk
  MaxConn,      \* bound on the logins
  MaxWrite,     \* bound on the writes
  Parts,        \* bound on the length of a write; its first part is immediate
  Burst,        \* MaxBurstLength
  Functions,    \* task management functions the initiator uses
  Overlap,      \* it may log in again before the old session has drained
  None          \* no task, no request: not a set of writes either

ConstantsAssumption ==
  /\ {MaxConn, MaxWrite, Parts, Burst} \subseteq Nat \ {0}
  /\ TmfTag \notin Tags
  /\ Functions \subseteq {"abort", "reset"}
  /\ Overlap \in BOOLEAN
  /\ \A ended \in SUBSET (1 .. MaxWrite) : ended # None

Conns == 1 .. MaxConn
Places == Lbas \X (1 .. Parts)

VARIABLES
  state,   \* of the connection at the target: free, scsi or closed
  nexus,   \* connections whose ITNexus the target lists
  reads,   \* is there a goroutine that reads the connection
  tasks,   \* PendingTasks
  running, \* the task that the goroutine executes
  exp,     \* ExpCmdSN
  ping,    \* what the ping worker waits for: a request or a response
  disk,    \* per place, the write its data is of, or 0
  up,      \* PDUs to the target
  down,    \* PDUs to the initiator
  peer,    \* the initiator's end: none, open, closed or silent
  issued,  \* every write: its connection, tag, place, length
  waits,   \* writes that the initiator waits for
  tmf,     \* per connection, its task management request: the writes it ends
  acked,   \* writes that were acknowledged
  aborted  \* writes whose abortion was confirmed

targetVars == <<state, nexus, reads, tasks, running, exp, ping, disk>>
peerVars == <<peer, issued, waits, tmf, acked, aborted>>
vars == <<targetVars, up, down, peerVars>>

Last == Cardinality({c \in Conns : peer[c] # "none"})
Task(w, sn, tag) ==
  [w |-> w, tag |-> tag, sn |-> sn, offset |-> 1, left |-> issued[w].len - 1,
   data |-> [p \in 1 .. issued[w].len |-> IF p = 1 THEN w ELSE 0]]

TypeOK ==
  /\ state \in [Conns -> {"free", "scsi", "closed"}]
  /\ nexus \subseteq Conns
  /\ reads \in [Conns -> BOOLEAN]
  /\ \A c \in Conns :
       /\ \A i \in DOMAIN tasks[c] : tasks[c][i].w \in DOMAIN issued
       /\ running[c] = None \/ running[c].w \in DOMAIN issued
       /\ tmf[c] = None \/ tmf[c] \subseteq DOMAIN issued
  /\ exp \in [Conns -> 1 .. MaxWrite + 1]
  /\ ping \in [Conns -> {"request", "response"}]
  /\ disk \in [Places -> 0 .. MaxWrite]
  /\ peer \in [Conns -> {"none", "open", "closed", "silent"}]
  /\ Len(issued) <= MaxWrite
  /\ waits \union acked \union aborted \subseteq DOMAIN issued

Init ==
  /\ state = [c \in Conns |-> "free"]
  /\ nexus = {}
  /\ reads = [c \in Conns |-> FALSE]
  /\ tasks = [c \in Conns |-> <<>>]
  /\ running = [c \in Conns |-> None]
  /\ exp = [c \in Conns |-> 1]
  /\ ping = [c \in Conns |-> "request"]
  /\ disk = [p \in Places |-> 0]
  /\ up = [c \in Conns |-> <<>>]
  /\ down = [c \in Conns |-> <<>>]
  /\ peer = [c \in Conns |-> "none"]
  /\ issued = <<>>
  /\ waits = {}
  /\ tmf = [c \in Conns |-> None]
  /\ acked = {}
  /\ aborted = {}

-----------------------------------------------------------------------------
(* The initiator *)

Drained(c) == state[c] = "closed" /\ running[c] = None

\* A login, the request and its answers: the session has a nexus of its own,
\* whatever sessions of the initiator there are.
Login(c) ==
  /\ c = Last + 1
  /\ \A d \in 1 .. Last : peer[d] # "open" /\ (Overlap \/ Drained(d))
  /\ peer' = [peer EXCEPT ![c] = "open"]
  /\ state' = [state EXCEPT ![c] = "scsi"]
  /\ nexus' = nexus \union {c}
  /\ reads' = [reads EXCEPT ![c] = TRUE]
  /\ UNCHANGED <<tasks, running, exp, ping, disk, up, down, issued, waits, tmf,
                 acked, aborted>>

\* What is sent to a target that has closed the connection is lost.
Put(c, pdus) == up' = [up EXCEPT ![c] = IF state[c] = "scsi" THEN @ \o pdus ELSE @]

Busy(c) == {issued[w].tag : w \in {v \in waits : issued[v].conn = c}}
Sent(c) == Cardinality({w \in DOMAIN issued : issued[w].conn = c})

\* A write to a place that no write under way is to.
Issue(c, tag, lba, len) ==
  /\ peer[c] = "open" /\ tmf[c] = None
  /\ Len(issued) < MaxWrite
  /\ tag \notin Busy(c)
  /\ \A w \in waits : issued[w].lba # lba
  /\ LET w == Len(issued) + 1
     IN /\ issued' = Append(issued, [conn |-> c, tag |-> tag, lba |-> lba, len |-> len])
        /\ waits' = waits \union {w}
        /\ Put(c, <<[op |-> "command", w |-> w, tag |-> tag, sn |-> Sent(c) + 1]>>)
  /\ UNCHANGED <<targetVars, down, peer, tmf, acked, aborted>>

Manage(c, ended, pdu) ==
  /\ peer[c] = "open" /\ tmf[c] = None
  /\ ended # {}
  /\ tmf' = [tmf EXCEPT ![c] = ended]
  /\ Put(c, <<pdu>>)
  /\ UNCHANGED <<targetVars, down, peer, issued, waits, acked, aborted>>

Abort(c, w) ==
  /\ "abort" \in Functions
  /\ w \in waits /\ issued[w].conn = c
  /\ Manage(c, {w}, [op |-> "abort", tag |-> issued[w].tag])

ResetUnit(c) ==
  /\ "reset" \in Functions
  /\ Manage(c, {w \in waits : issued[w].conn = c}, [op |-> "reset"])

\* The data that an R2T asks for, in PDUs of one part.
Data(w, n) == [i \in 1 .. n |-> [op |-> "data", w |-> w, tag |-> issued[w].tag, final |-> i = n]]

Receive(c) ==
  LET pdu == Head(down[c])
      own == {w \in waits : issued[w].conn = c /\ issued[w].tag = pdu.tag}
  IN /\ peer[c] = "open" /\ down[c] # <<>>
     /\ down' = [down EXCEPT ![c] = Tail(@)]
     /\ \/ /\ pdu.op = "r2t" /\ own # {}
           /\ Put(c, Data(CHOOSE w \in own : TRUE, pdu.len))
           /\ UNCHANGED <<waits, tmf, acked, aborted>>
        \/ /\ pdu.op = "response"
           /\ waits' = waits \ own
           /\ acked' = acked \union own
           /\ UNCHANGED <<up, tmf, aborted>>
        \/ /\ pdu.op = "complete"
           /\ waits' = waits \ tmf[c]
           /\ aborted' = aborted \union (tmf[c] \ acked)
           /\ tmf' = [tmf EXCEPT ![c] = None]
           /\ UNCHANGED <<up, acked>>
        \/ /\ pdu.op = "no task"
           /\ tmf' = [tmf EXCEPT ![c] = None]
           /\ UNCHANGED <<up, waits, acked, aborted>>
        \/ /\ pdu.op = "ping"
           /\ Put(c, <<[op |-> "pong"]>>)
           /\ UNCHANGED <<waits, tmf, acked, aborted>>
     /\ UNCHANGED <<targetVars, peer, issued>>

\* The initiator closes the connection, or the machine loses its power.
Leave(c, how) ==
  /\ peer[c] = "open"
  /\ peer' = [peer EXCEPT ![c] = how]
  /\ waits' = waits \ {w \in waits : issued[w].conn = c}
  /\ tmf' = [tmf EXCEPT ![c] = None]
  /\ down' = [down EXCEPT ![c] = <<>>]
  /\ UNCHANGED <<targetVars, up, issued, acked, aborted>>

-----------------------------------------------------------------------------
(* The target *)

\* What is written to a connection whose peer has left is lost.
Send(c, pdus) ==
  down' = [down EXCEPT ![c] = IF peer[c] = "open" /\ state[c] = "scsi" THEN @ \o pdus ELSE @]

\* The goroutine has read a PDU.
Read(c, ops) ==
  /\ state[c] = "scsi" /\ reads[c] /\ running[c] = None
  /\ up[c] # <<>> /\ Head(up[c]).op \in ops
  /\ up' = [up EXCEPT ![c] = Tail(@)]
  /\ ping' = [ping EXCEPT ![c] = "request"]

Ready(task) == [op |-> "r2t", tag |-> task.tag,
                len |-> IF task.left > Burst THEN Burst ELSE task.left]

Expect(c, sn) == exp' = [exp EXCEPT ![c] = sn]

\* A command whose data is not all there waits for it.
HandleLongWrite(c) ==
  LET pdu == Head(up[c])
      task == Task(pdu.w, pdu.sn, pdu.tag)
  IN /\ Read(c, {"command"})
     /\ task.left > 0
     /\ Expect(c, exp[c] + 1)
     /\ tasks' = [tasks EXCEPT ![c] = Append(@, task)]
     /\ Send(c, <<Ready(task)>>)
     /\ UNCHANGED <<state, nexus, reads, running, disk, peerVars>>

\* A command that has its data is executed when its number is expected.
HandleShortWrite(c) ==
  LET pdu == Head(up[c])
      task == Task(pdu.w, pdu.sn, pdu.tag)
  IN /\ Read(c, {"command"})
     /\ task.left = 0
     /\ pdu.sn = exp[c]
     /\ Expect(c, pdu.sn + 1)
     /\ running' = [running EXCEPT ![c] = task]
     /\ UNCHANGED <<state, nexus, reads, tasks, disk, down, peerVars>>

\* GetByTag: the first task with the tag.
WithTag(c, tag) == {i \in DOMAIN tasks[c] : tasks[c][i].tag = tag}
FirstIndex(c, tag) == CHOOSE i \in WithTag(c, tag) : \A j \in WithTag(c, tag) : i <= j
RemoveByTag(c, tag) ==
  LET i == FirstIndex(c, tag)
  IN IF WithTag(c, tag) = {} THEN tasks[c]
     ELSE SubSeq(tasks[c], 1, i - 1) \o SubSeq(tasks[c], i + 1, Len(tasks[c]))

\* The part is copied to the offset of the task; nothing is copied past the end
\* of the buffer.
Copied(task, w) ==
  [task EXCEPT !.offset = @ + 1, !.left = IF @ > 0 THEN @ - 1 ELSE 0,
               !.data = [p \in DOMAIN task.data |->
                           IF p = task.offset + 1 THEN w ELSE task.data[p]]]

\* Data for a task: the goroutine reads on, asks for the rest, or executes it.
HandleData(c) ==
  LET pdu == Head(up[c])
      i == FirstIndex(c, pdu.tag)
      task == Copied(tasks[c][i], pdu.w)
  IN /\ Read(c, {"data"})
     /\ WithTag(c, pdu.tag) # {}
     /\ tasks' = [tasks EXCEPT ![c][i] = task]
     /\ \/ /\ ~pdu.final
           /\ UNCHANGED <<running, down>>
        \/ /\ pdu.final /\ task.left > 0
           /\ Send(c, <<Ready(task)>>)
           /\ UNCHANGED running
        \/ /\ pdu.final /\ task.left = 0
           /\ running' = [running EXCEPT ![c] = task]
           /\ UNCHANGED down
     /\ UNCHANGED <<state, nexus, reads, exp, disk, peerVars>>

\* Data for no task: the handler returns an error, and no goroutine reads on.
HandleUnknownData(c) ==
  /\ Read(c, {"data"})
  /\ WithTag(c, Head(up[c]).tag) = {}
  /\ reads' = [reads EXCEPT ![c] = FALSE]
  /\ UNCHANGED <<state, nexus, tasks, running, exp, disk, down, peerVars>>

\* Faulty: the task stays among the pending ones.
ExecuteAndKeep(c) ==
  LET task == running[c]
      lba == issued[task.w].lba
  IN /\ task # None
     /\ disk' = [p \in Places |->
                   IF p[1] = lba /\ p[2] \in DOMAIN task.data THEN task.data[p[2]] ELSE disk[p]]
     /\ running' = [running EXCEPT ![c] = None]
     /\ Send(c, <<[op |-> "response", tag |-> task.tag]>>)
     /\ UNCHANGED <<state, nexus, reads, tasks, exp, ping, up, peerVars>>

\* The goroutine executes a command, answers and reads on.
Execute(c) ==
  LET task == running[c]
      lba == issued[task.w].lba
  IN /\ task # None
     /\ disk' = [p \in Places |->
                   IF p[1] = lba /\ p[2] \in DOMAIN task.data THEN task.data[p[2]] ELSE disk[p]]
     /\ running' = [running EXCEPT ![c] = None]
     /\ tasks' = [tasks EXCEPT ![c] = IF Len(task.data) > 1 THEN RemoveByTag(c, task.tag) ELSE @]
     /\ Send(c, <<[op |-> "response", tag |-> task.tag]>>)
     /\ UNCHANGED <<state, nexus, reads, exp, ping, up, peerVars>>

\* Faulty: the task is looked up and not removed.
HandleAbortKept(c) ==
  LET tag == Head(up[c]).tag
  IN /\ Read(c, {"abort"})
     /\ Send(c, IF WithTag(c, tag) = {} THEN <<[op |-> "no task", tag |-> TmfTag]>>
                ELSE <<[op |-> "response", tag |-> TmfTag], [op |-> "complete", tag |-> TmfTag]>>)
     /\ UNCHANGED <<state, nexus, reads, tasks, running, exp, disk, peerVars>>

\* A task is aborted with a response, which has the tag of the request.
HandleAbort(c) ==
  LET tag == Head(up[c]).tag
  IN /\ Read(c, {"abort"})
     /\ tasks' = [tasks EXCEPT ![c] = RemoveByTag(c, tag)]
     /\ Send(c, IF WithTag(c, tag) = {} THEN <<[op |-> "no task", tag |-> TmfTag]>>
                ELSE <<[op |-> "response", tag |-> TmfTag], [op |-> "complete", tag |-> TmfTag]>>)
     /\ UNCHANGED <<state, nexus, reads, running, exp, disk, peerVars>>

\* ABORT TASK SET and LOGICAL UNIT RESET are confirmed.
HandleReset(c) ==
  /\ Read(c, {"reset"})
  /\ Send(c, <<[op |-> "complete", tag |-> TmfTag]>>)
  /\ UNCHANGED <<state, nexus, reads, tasks, running, exp, disk, peerVars>>

HandlePong(c) ==
  /\ Read(c, {"pong"})
  /\ UNCHANGED <<state, nexus, reads, tasks, running, exp, disk, down, peerVars>>

\* UnBindISCSISession() and close(): a goroutine that executes a command goes on.
Close(c) ==
  /\ state' = [state EXCEPT ![c] = "closed"]
  /\ nexus' = nexus \ {c}
  /\ up' = [up EXCEPT ![c] = <<>>]
  /\ UNCHANGED <<reads, tasks, running, exp, ping, disk, down, peerVars>>

\* Everything has been read when the end of the connection is.
ReadFails(c) ==
  /\ state[c] = "scsi" /\ reads[c] /\ running[c] = None
  /\ peer[c] = "closed" /\ up[c] = <<>>
  /\ Close(c)

\* Faulty: pings are sent by the goroutine that reads.
PingOfReader(c) ==
  /\ state[c] = "scsi" /\ ping[c] = "request" /\ reads[c]
  /\ up[c] = <<>> \/ running[c] # None
  /\ ping' = [ping EXCEPT ![c] = "response"]
  /\ Send(c, <<[op |-> "ping", tag |-> TmfTag]>>)
  /\ UNCHANGED <<state, nexus, reads, tasks, running, exp, disk, up, peerVars>>

\* No request in five seconds, as there is none, a command takes long, or nobody
\* reads: a ping, whose answer is waited for a second.
Ping(c) ==
  /\ state[c] = "scsi" /\ ping[c] = "request"
  /\ up[c] = <<>> \/ running[c] # None \/ ~reads[c]
  /\ ping' = [ping EXCEPT ![c] = "response"]
  /\ Send(c, <<[op |-> "ping", tag |-> TmfTag]>>)
  /\ UNCHANGED <<state, nexus, reads, tasks, running, exp, disk, up, peerVars>>

PingTimeout(c) ==
  /\ state[c] = "scsi" /\ ping[c] = "response"
  /\ Close(c)

\* The initiator sees that the target has closed the connection.
SeeClosed(c) == state[c] = "closed" /\ down[c] = <<>> /\ Leave(c, "closed")

Handle(c) ==
  \/ HandleLongWrite(c) \/ HandleShortWrite(c) \/ HandleData(c)
  \/ HandleUnknownData(c) \/ HandleAbort(c) \/ HandleReset(c) \/ HandlePong(c)
  \/ Execute(c) \/ ReadFails(c)

Worker(c) == Ping(c) \/ PingTimeout(c)

Next == \E c \in Conns :
  \/ Login(c)
  \/ \E tag \in Tags, lba \in Lbas, len \in 1 .. Parts : Issue(c, tag, lba, len)
  \/ \E w \in waits : Abort(c, w)
  \/ ResetUnit(c)
  \/ Receive(c)
  \/ \E how \in {"closed", "silent"} : Leave(c, how)
  \/ SeeClosed(c)
  \/ Handle(c)
  \/ Worker(c)

Spec == Init /\ [][Next]_vars

\* Goroutines run; the initiator, while its machine runs, takes what it is sent.
FairSpec ==
  /\ Spec
  /\ \A c \in Conns : /\ WF_vars(Handle(c)) /\ WF_vars(Worker(c))
                      /\ WF_vars(Receive(c)) /\ WF_vars(SeeClosed(c))

-----------------------------------------------------------------------------
(* Properties *)

\* A write that was acknowledged is on the disk, until another write to its
\* place is issued: data is put into the task, and a response refers to the
\* write, that it belongs to.
AcknowledgedIsStored ==
  \A w \in acked :
    (\A v \in w + 1 .. Len(issued) : issued[v].lba # issued[w].lba) =>
      \A p \in 1 .. issued[w].len : disk[<<issued[w].lba, p>>] = w

\* A command on a connection always has the number that the target expects,
\* though numbers are counted in two ways: otherwise it is not answered.
NumberIsExpected ==
  \A c \in Conns :
    up[c] # <<>> /\ Head(up[c]).op = "command" => Head(up[c]).sn = exp[c]

\* The write whose data a step puts to a place, 0 if none.
WrittenAs(p) == IF disk'[p] # disk[p] THEN disk'[p] ELSE 0

\* Nothing is written for a write whose abortion was confirmed.
\* ("aborts all Tasks issued via this session on the logical unit", task.go:11.)
AbortedIsNotWritten == [][\A p \in Places : WrittenAs(p) \notin aborted]_vars

\* The target gives up a connection whose machine has left: the disk of the
\* machine can be detached.
LostIsUnbound ==
  \A c \in Conns : (peer[c] \in {"closed", "silent"}) ~> (c \notin nexus)

\* Every write is answered, aborted, or fails with its connection, also when
\* nobody reads the connection any more.
EveryWriteEnds ==
  \A w \in 1 .. MaxWrite : (w \in waits) ~> (w \notin waits)

\* The promises of a session: commands are in step with the target, and a write
\* that was acknowledged is stored.
Safety ==
  /\ TypeOK
  /\ AcknowledgedIsStored
  /\ NumberIsExpected

\* Nothing is waited for without an end, at either end of a connection.
EverythingEnds == LostIsUnbound /\ EveryWriteEnds
=============================================================================
