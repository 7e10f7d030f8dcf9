---------------------------- MODULE TftpTransfer ----------------------------
(***************************************************************************)
(* One session of the TFTP server (arms/ptftp/_server.py): a thread sends  *)
(* the acknowledgement of the options and the blocks of a file, each until *)
(* it is acknowledged, to a client at the other end of a UDP connection.   *)
(*                                                                         *)
(* A datagram that was sent may arrive late, more than once, or never.     *)
(* Block numbers are 16 bits long and wrap around, so that a datagram that *)
(* is very late could be taken for another one: the network is assumed to  *)
(* have lost those that are more than Lag blocks old.  For a file with no  *)
(* more than Lag blocks nothing is assumed.                                *)
(***************************************************************************)
EXTENDS Integers, Sequences

CONSTANTS
  Blocks,      \* number of blocks in the file, the short one at the end included
  Wrap,        \* number of block numbers, 2 ** 16 in the code
  Lag,         \* how many blocks a datagram may be late
  RetryCount,  \* attempts to send a message, 5 in the code
  Timeouts,    \* values of the option "timeout" that clients send
  NoTimeout    \* no such option in the request

ASSUME ConstantsAssumption ==
  /\ Blocks \in Nat \ {0}
  /\ Wrap \in Nat \ {0}
  /\ Lag \in Nat
  /\ Lag + 1 < Wrap
  /\ RetryCount \in Nat \ {0}
  /\ Timeouts \subseteq Int
  /\ NoTimeout \notin Int

VARIABLES
  options,   \* options of the request
  session,   \* where _client_session() is, or how it ended
  index,     \* the message being sent: 0 is the options, i is block i
  attempt,   \* the attempt to send it
  sends,     \* per message, how many times it was sent
  client,    \* what the client does
  received,  \* the blocks that the client has, as it took them
  acks,      \* the acknowledgements that the client has sent
  notice     \* another message from the client: an error or anything else

serverVars == <<options, session, index, attempt, sends>>
clientVars == <<client, received, acks, notice>>
vars == <<serverVars, clientVars>>

Options == [timeout : Timeouts \union {NoTimeout},
            blksize : {"none", "valid", "outside", "unparseable"},
            tsize : BOOLEAN]
Ended == {"done", "unacknowledged", "terminated", "illegal", "refused", "crashed"}

TypeOK ==
  /\ options \in Options
  /\ session \in {"starting", "sending", "waiting"} \union Ended
  /\ index \in 0 .. Blocks
  /\ attempt \in 1 .. RetryCount
  /\ sends \in [0 .. Blocks -> Nat]
  /\ client \in {"receiving", "complete", "stopped"}
  /\ received \in Seq(1 .. Blocks)
  /\ acks \subseteq 0 .. Blocks
  /\ notice \in {"none", "error", "other"}

Init ==
  /\ options \in Options
  /\ session = "starting"
  /\ index = 0
  /\ attempt = 1
  /\ sends = [i \in 0 .. Blocks |-> 0]
  /\ client = "receiving"
  /\ received = <<>>
  /\ acks = {}
  /\ notice = "none"

-----------------------------------------------------------------------------
(* Options *)

\* _AckTimeout: a value outside of 1 .. 255 is reported as ignored and kept.
RequestedTimeout == IF options.timeout = NoTimeout THEN 0 ELSE options.timeout

OptionsRequested ==
  RequestedTimeout > 0 \/ options.blksize = "valid" \/ options.tsize

\* The number of a message on the wire.  _enumerate() counts blocks from 1
\* and starts over from 0.
Number(i) == i % Wrap

\* Datagrams about message i are neither unsent nor too old.
InFlight(i) == i >= index - Lag

-----------------------------------------------------------------------------
(* The session *)

\* Nobody handles the ValueError of int(): the thread ends.
Start ==
  /\ session = "starting"
  /\ \/ /\ options.blksize = "unparseable"
        /\ session' = "crashed"
        /\ UNCHANGED index
     \/ /\ options.blksize = "outside"
        /\ session' = "refused"
        /\ UNCHANGED index
     \/ /\ options.blksize \in {"none", "valid"}
        /\ session' = "sending"
        /\ index' = IF OptionsRequested THEN 0 ELSE 1
  /\ UNCHANGED <<options, attempt, sends, clientVars>>

Send ==
  /\ session = "sending"
  /\ session' = "waiting"
  /\ sends' = [sends EXCEPT ![index] = @ + 1]
  /\ UNCHANGED <<options, index, attempt, clientVars>>

IsAcknowledgedBy(a) == Number(a) = Number(index)

\* Faulty variant of Acknowledged: any other acknowledgement makes the server
\* send the message again.
AcknowledgedOrRepeated ==
  /\ session = "waiting"
  /\ \E a \in acks :
        /\ InFlight(a)
        /\ \/ /\ IsAcknowledgedBy(a)
              /\ attempt' = 1
              /\ session' = IF index = Blocks THEN "done" ELSE "sending"
              /\ index' = IF index = Blocks THEN index ELSE index + 1
           \/ /\ ~IsAcknowledgedBy(a)
              /\ session' = "sending"
              /\ UNCHANGED <<index, attempt>>
  /\ UNCHANGED <<options, sends, clientVars>>

\* Any other acknowledgement is ignored: the server goes on waiting.
Acknowledged ==
  /\ session = "waiting"
  /\ \E a \in acks : InFlight(a) /\ IsAcknowledgedBy(a)
  /\ attempt' = 1
  /\ \/ /\ index = Blocks
        /\ session' = "done"
        /\ UNCHANGED index
     \/ /\ index < Blocks
        /\ session' = "sending"
        /\ index' = index + 1
  /\ UNCHANGED <<options, sends, clientVars>>

\* Faulty variants of NotAcknowledged: a timeout that is noticed only when a
\* datagram has come; attempts that go on after the acknowledgement.
NotAcknowledgedOnTraffic ==
  /\ session = "waiting"
  /\ \E a \in acks : InFlight(a)
  /\ \/ /\ attempt < RetryCount
        /\ attempt' = attempt + 1
        /\ session' = "sending"
     \/ /\ attempt = RetryCount
        /\ session' = "unacknowledged"
        /\ UNCHANGED attempt
  /\ UNCHANGED <<options, index, sends, clientVars>>

NotAcknowledgedWhenDone ==
  /\ session \in {"waiting", "done"}
  /\ \/ /\ attempt < RetryCount
        /\ attempt' = attempt + 1
        /\ session' = "sending"
     \/ /\ attempt = RetryCount
        /\ session' = "unacknowledged"
        /\ UNCHANGED attempt
  /\ UNCHANGED <<options, index, sends, clientVars>>

NotAcknowledged ==
  /\ session = "waiting"
  /\ \/ /\ attempt < RetryCount
        /\ attempt' = attempt + 1
        /\ session' = "sending"
     \/ /\ attempt = RetryCount
        /\ session' = "unacknowledged"
        /\ UNCHANGED attempt
  /\ UNCHANGED <<options, index, sends, clientVars>>

\* The client sent an error, or a message that is no acknowledgement.
Interrupted ==
  /\ session = "waiting"
  /\ \/ notice = "error" /\ session' = "terminated"
     \/ notice = "other" /\ session' = "illegal"
  /\ UNCHANGED <<options, index, attempt, sends, clientVars>>

SessionStep == Start \/ Send \/ Acknowledged \/ NotAcknowledged \/ Interrupted

-----------------------------------------------------------------------------
(* The client and the network, which are not in the repository.  RFC 1350: *)
(* the client takes the block it expects, acknowledges what it has and     *)
(* ends with the first short block.                                        *)

Expected == Len(received) + 1

ReceiveOptions ==
  /\ client = "receiving"
  /\ sends[0] > 0 /\ InFlight(0)
  /\ received = <<>>
  /\ acks' = acks \union {0}
  /\ UNCHANGED <<serverVars, client, received, notice>>

\* A block with any other number is ignored or acknowledged again, which sends
\* no acknowledgement that was not in flight before.
ReceiveBlock(i) ==
  /\ client = "receiving"
  /\ sends[i] > 0 /\ InFlight(i)
  /\ Number(i) = Expected % Wrap
  /\ received' = Append(received, i)
  /\ acks' = acks \union {Expected}
  /\ client' = IF i = Blocks THEN "complete" ELSE client
  /\ UNCHANGED <<serverVars, notice>>

\* With or without a word; a Raspberry Pi does it when it has learnt the size.
ClientStops ==
  /\ client = "receiving"
  /\ client' = "stopped"
  /\ notice' \in {"none", "error", "other"}
  /\ UNCHANGED <<serverVars, received, acks>>

-----------------------------------------------------------------------------
Next ==
  \/ SessionStep
  \/ ReceiveOptions
  \/ \E i \in 1 .. Blocks : ReceiveBlock(i)
  \/ ClientStops

Spec == Init /\ [][Next]_vars

\* The thread runs and its timeouts pass; nothing is expected of the client.
FairSpec == Spec /\ WF_vars(SessionStep)

-----------------------------------------------------------------------------
(* Properties *)

\* The client has the first blocks of the file, in their order and each once,
\* however late or often datagrams arrive (_server.py, _enumerate() and
\* _ReliableStream.send_acknowledged()).
ReceivedInOrder == \A i \in 1 .. Len(received) : received[i] = i

\* "Successfully sent" is logged only when the client has the whole file: an
\* acknowledgement of an earlier block is never taken for that of the last one
\* (_server.py, is_acknowledged_by()).
DoneIsComplete == session = "done" => Len(received) = Blocks

\* A message is sent at most RetryCount times: late acknowledgements do not
\* make the server repeat what it has already sent, whatever the traffic
\* (_server.py, _AckTimeout.send_acknowledged()).
SentWithinRetries == \A i \in 0 .. Blocks : sends[i] <= RetryCount

\* A session ends, whatever its client does: with it end the thread, the
\* socket and the place among the server's active sessions.
SessionEnds == <>(session \in Ended)

\* The session implements the promise of FileTransfer.
Outcome ==
  IF session = "done" THEN "delivered"
  ELSE IF session \in Ended THEN "given up"
  ELSE "open"

Transfer == INSTANCE FileTransfer WITH outcome <- Outcome

TransferSpec == Transfer!Spec

\* The promises of a session: the client has the beginning of the file, all of it
\* when the server says so, and nothing is sent more often than it may be.
Safety ==
  /\ TypeOK
  /\ ReceivedInOrder
  /\ DoneIsComplete
  /\ SentWithinRetries
=============================================================================
