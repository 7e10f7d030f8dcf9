----------------------------- MODULE TftpServer -----------------------------
(***************************************************************************)
(* The main loop of the TFTP server (arms/ptftp/_server.py) with its       *)
(* sessions, which are threads: requests that clients repeat until they    *)
(* are answered, the places for sessions, and the end of the daemon.  What *)
(* a session does is TftpTransfer.                                         *)
(***************************************************************************)
EXTENDS Naturals, FiniteSets

CONSTANTS
  Clients,      \* addresses: an IP and a port
  MaxSessions,  \* 16 in __main__.py
  MaxInbox,     \* bound on the unread requests of a client
  NoRequest     \* no request was received in time

ASSUME ConstantsAssumption ==
  /\ IsFiniteSet(Clients)
  /\ MaxSessions \in Nat
  /\ MaxInbox \in Nat \ {0}
  /\ NoRequest \notin Clients

VARIABLES
  kind,      \* per client, what its request meets
  inbox,     \* per client, its requests that are in the socket
  loop,      \* where the main thread is
  request,   \* the client whose request it handles
  unchecked, \* sessions that _pop_finished() or the end have yet to look at
  active,    \* _active_sessions: the clients that are taken for served
  threads,   \* per client, the live threads that serve it
  answer     \* per client, the answer to its last request

clientVars == <<kind, inbox>>
loopVars == <<loop, request, unchecked, active>>
vars == <<clientVars, loopVars, threads, answer>>

\* A file that is served; one that does not exist; an address for which there
\* is no directory; a file that cannot be opened for another reason; an
\* operation that is not supported; not TFTP at all.
Kinds == {"file", "missing", "unknown", "unreadable", "illegal", "noise"}

Live == {c \in Clients : threads[c] > 0}

TypeOK ==
  /\ kind \in [Clients -> Kinds]
  /\ inbox \in [Clients -> 0 .. MaxInbox]
  /\ loop \in {"listening", "popping", "stopped", "closing", "closed", "busy"}
  /\ request \in Clients \union {NoRequest}
  /\ unchecked \subseteq active
  /\ active \subseteq Clients
  /\ threads \in [Clients -> Nat]
  /\ answer \in [Clients -> {"none", "session", "error"}]

Init ==
  /\ kind \in [Clients -> Kinds]
  /\ inbox = [c \in Clients |-> 0]
  /\ loop = "listening"
  /\ request = NoRequest
  /\ unchecked = {}
  /\ active = {}
  /\ threads = [c \in Clients |-> 0]
  /\ answer = [c \in Clients |-> "none"]

-----------------------------------------------------------------------------
(* Clients *)

\* A client asks once more if the answer does not come soon enough, or asks
\* for another file when it has got one.
Ask(c) ==
  /\ inbox[c] < MaxInbox
  /\ inbox' = [inbox EXCEPT ![c] = @ + 1]
  /\ answer' = [answer EXCEPT ![c] = "none"]
  /\ UNCHANGED <<kind, loopVars, threads>>

-----------------------------------------------------------------------------
(* The main loop *)

Pop(r) ==
  /\ loop' = "popping"
  /\ request' = r
  /\ unchecked' = active

\* Faulty variant of Ignored: a request that is repeated is served again.
IgnoredNoiseOnly(c) == kind[c] = "noise"

Ignored(c) == kind[c] = "noise" \/ (kind[c] # "illegal" /\ c \in active)

\* A session that has finished counts until the next _pop_finished().
Receive(c) ==
  /\ loop = "listening"
  /\ inbox[c] > 0
  /\ inbox' = [inbox EXCEPT ![c] = @ - 1]
  /\ \/ /\ Ignored(c)
        /\ UNCHANGED <<loopVars, answer>>
     \/ /\ kind[c] = "illegal"
        /\ answer' = [answer EXCEPT ![c] = "error"]
        /\ UNCHANGED loopVars
     \/ /\ ~Ignored(c)
        /\ kind[c] # "illegal"
        /\ Pop(c)
        /\ UNCHANGED <<active, answer>>
  /\ UNCHANGED <<kind, threads>>

\* Faulty variant of NothingReceived: finished sessions are not looked for.
NothingDone ==
  /\ loop = "listening"
  /\ loop' = "popping"
  /\ request' = NoRequest
  /\ unchecked' = {}
  /\ UNCHANGED <<clientVars, active, threads, answer>>

\* A second has passed, in which requests may have been ignored.
NothingReceived ==
  /\ loop = "listening"
  /\ Pop(NoRequest)
  /\ UNCHANGED <<clientVars, active, threads, answer>>

PopFinished(c) ==
  /\ loop = "popping"
  /\ c \in unchecked
  /\ unchecked' = unchecked \ {c}
  /\ active' = IF threads[c] = 0 THEN active \ {c} ELSE active
  /\ UNCHANGED <<clientVars, loop, request, threads, answer>>

Maintained ==
  /\ loop = "popping"
  /\ unchecked = {}
  /\ request = NoRequest
  /\ loop' = "listening"
  /\ UNCHANGED <<clientVars, request, unchecked, active, threads, answer>>

NoSlots == Cardinality(active) > MaxSessions

Decided ==
  /\ loop = "popping"
  /\ unchecked = {}
  /\ request # NoRequest
  /\ request' = NoRequest
  /\ UNCHANGED <<clientVars, unchecked>>

\* There is no free place, no such file or no directory for the client.
Refuse ==
  /\ Decided
  /\ NoSlots \/ kind[request] \in {"missing", "unknown"}
  /\ answer' = [answer EXCEPT ![request] = "error"]
  /\ loop' = "listening"
  /\ UNCHANGED <<active, threads>>

StartSession ==
  /\ Decided
  /\ ~NoSlots
  /\ kind[request] = "file"
  /\ active' = active \union {request}
  /\ threads' = [threads EXCEPT ![request] = @ + 1]
  /\ answer' = [answer EXCEPT ![request] = "session"]
  /\ loop' = "listening"

\* Only FileNotFoundError is handled: any other OSError ends the loop.
StopServing ==
  /\ Decided
  /\ ~NoSlots
  /\ kind[request] = "unreadable"
  /\ loop' = "stopped"
  /\ UNCHANGED <<active, threads, answer>>

EndSession(c) ==
  /\ threads[c] > 0
  /\ threads' = [threads EXCEPT ![c] = @ - 1]
  /\ UNCHANGED <<clientVars, loopVars, answer>>

-----------------------------------------------------------------------------
(* The end of the daemon *)

KeyboardInterrupt ==
  /\ loop \in {"listening", "popping"}
  /\ loop' = "closing"
  /\ request' = NoRequest
  /\ unchecked' = active
  /\ UNCHANGED <<clientVars, active, threads, answer>>

\* The thread has ended, or 30 seconds have passed.
WaitRequestDone(c) ==
  /\ loop = "closing"
  /\ c \in unchecked
  /\ unchecked' = unchecked \ {c}
  /\ active' = IF threads[c] = 0 THEN active \ {c} ELSE active
  /\ UNCHANGED <<clientVars, loop, request, threads, answer>>

Closed ==
  /\ loop = "closing"
  /\ unchecked = {}
  /\ loop' = IF active = {} THEN "closed" ELSE "busy"
  /\ UNCHANGED <<clientVars, request, unchecked, active, threads, answer>>

-----------------------------------------------------------------------------
LoopStep ==
  \/ \E c \in Clients : Receive(c) \/ PopFinished(c) \/ WaitRequestDone(c)
  \/ Maintained \/ Refuse \/ StartSession \/ StopServing \/ Closed

Next ==
  \/ LoopStep
  \/ NothingReceived
  \/ KeyboardInterrupt
  \/ \E c \in Clients : Ask(c) \/ EndSession(c)

Spec == Init /\ [][Next]_vars

\* The loop runs and its second passes; TftpTransfer shows that sessions end;
\* a request that a client repeats gets through the network and its turn
\* in the socket.
FairSpec ==
  /\ Spec
  /\ WF_vars(LoopStep)
  /\ WF_vars(NothingReceived)
  /\ \A c \in Clients : WF_vars(EndSession(c)) /\ SF_vars(Receive(c))

-----------------------------------------------------------------------------
(* Properties *)

\* A client is served by at most one thread, however often it repeats its
\* request and whenever its session ends (_server.py, _get_request() and
\* _pop_finished(); test_server.py, test_ignore_repeated_request).
OneSessionPerClient == \A c \in Clients : threads[c] <= 1

\* No more threads than places; the check lets one more than max_sessions in
\* (_server.py, serve_forever()).
SlotsBound == Cardinality(Live) <= MaxSessions + 1

\* "Server closed" means that every session has ended (_server.py,
\* wait_requests_done()).
ClosedIsIdle == loop = "closed" => Live = {}

\* A client that goes on asking is answered by a session or by an error, as
\* long as the server runs: neither its own past session nor those of others
\* keep it out for ever (_server.py, serve_forever()).
Serving == loop \in {"listening", "popping"}

EveryoneIsAnswered ==
  \A c \in Clients :
     []<>(inbox[c] > 0) /\ kind[c] # "noise"
     => []<>(answer[c] # "none") \/ <>~Serving

\* The promises of the server: one thread per client, no more than there are
\* places, and none when it has closed.
Safety ==
  /\ TypeOK
  /\ OneSessionPerClient
  /\ SlotsBound
  /\ ClosedIsIdle
=============================================================================
