------------------------- MODULE TftpTransferProofs -------------------------
(***************************************************************************)
(* For a file of any length and any number of block numbers: the client    *)
(* gets the blocks in order, the server's success is true, and the session *)
(* implements FileTransfer, as long as no datagram is Wrap - 1 blocks late.*)
(***************************************************************************)
EXTENDS TftpTransfer, TLAPS

\* Numbers that are less than Wrap apart and equal modulo Wrap are equal.
LEMMA SameNumber ==
  ASSUME NEW a \in Nat, NEW b \in Nat, a <= b, b - a < Wrap, a % Wrap = b % Wrap
  PROVE  a = b
<1> DEFINE qa == a \div Wrap
           qb == b \div Wrap
<1>1. /\ qa \in Int /\ qb \in Int
      /\ a = Wrap * qa + (a % Wrap)
      /\ b = Wrap * qb + (b % Wrap)
      /\ Wrap \in Nat /\ Wrap > 0
      /\ a % Wrap \in Int
  BY ConstantsAssumption
<1> HIDE DEF qa, qb
<1>2. b - a = Wrap * qb - Wrap * qa
  BY <1>1
<1>3. CASE qb >= qa + 1
  <2>1. Wrap * qb >= Wrap * (qa + 1)
    BY <1>1, <1>3
  <2>2. Wrap * (qa + 1) = Wrap * qa + Wrap
    BY <1>1
  <2> QED BY <2>1, <2>2, <1>1, <1>2
<1>4. CASE qb = qa
  BY <1>1, <1>2, <1>4
<1>5. CASE qb <= qa - 1
  <2>1. Wrap * qb <= Wrap * (qa - 1)
    BY <1>1, <1>5
  <2>2. Wrap * (qa - 1) = Wrap * qa - Wrap
    BY <1>1
  <2> QED BY <2>1, <2>2, <1>1, <1>2
<1> QED BY <1>1, <1>3, <1>4, <1>5

-----------------------------------------------------------------------------
(* The inductive invariant. *)

\* Before the session has started nothing was sent; no message after the
\* current one was ever sent.
Untouched ==
  /\ session = "starting" => index = 0 /\ attempt = 1 /\ received = <<>>
  /\ session = "starting" => \A i \in 0 .. Blocks : sends[i] = 0
  /\ \A i \in 0 .. Blocks : i > index => sends[i] = 0

\* An attempt is counted before the message is sent again.
Counted ==
  /\ session = "sending" => sends[index] < attempt
  /\ session # "done" => sends[index] <= attempt
  /\ SentWithinRetries

\* The client is at most one block behind the server, and never before it.
InStep ==
  /\ Len(received) <= index
  /\ index <= Len(received) + 1
  /\ ReceivedInOrder

AcksAreTrue == \A a \in acks : a <= Len(received)

IInv == TypeOK /\ Untouched /\ Counted /\ InStep /\ AcksAreTrue /\ DoneIsComplete

LEMMA InitIInv == Init => IInv
BY ConstantsAssumption
   DEF Init, IInv, TypeOK, Untouched, Counted, InStep, AcksAreTrue, DoneIsComplete,
       ReceivedInOrder, SentWithinRetries, Ended

\* The block that the client takes is the one that the server is sending.
LEMMA BlockIsExpected ==
  ASSUME IInv, NEW i \in 1 .. Blocks, ReceiveBlock(i)
  PROVE  i = Expected /\ i = index
<1>1. /\ i <= index /\ i >= index - Lag
      /\ i % Wrap = Expected % Wrap
  BY DEF IInv, TypeOK, Untouched, ReceiveBlock, InFlight, Number
<1>2. Expected \in Nat /\ Expected >= index /\ Expected <= index + 1
  BY DEF IInv, TypeOK, InStep, Expected
<1>3. i <= Expected /\ Expected - i < Wrap
  BY <1>1, <1>2, ConstantsAssumption DEF IInv, TypeOK
<1>4. i = Expected
  BY <1>1, <1>2, <1>3, SameNumber
<1> QED BY <1>1, <1>2, <1>4 DEF IInv, TypeOK

\* What the server takes for the acknowledgement of a message is one: the
\* client has that message.
LEMMA AcknowledgedIsReceived ==
  ASSUME IInv, Acknowledged
  PROVE  Len(received) = index
<1>1. PICK a \in acks : a >= index - Lag /\ a % Wrap = index % Wrap
  BY DEF Acknowledged, InFlight, IsAcknowledgedBy, Number
<1>2. a \in Nat /\ index \in Nat /\ Len(received) \in Nat /\ a <= Len(received) /\ Len(received) <= index
  BY DEF IInv, TypeOK, AcksAreTrue, InStep
<1>3. a <= index /\ index - a < Wrap
  BY <1>1, <1>2, ConstantsAssumption
<1>4. a = index
  BY <1>1, <1>2, <1>3, SameNumber
<1> QED BY <1>2, <1>4

LEMMA NextIInv == IInv /\ [Next]_vars => IInv'
<1> SUFFICES ASSUME IInv, [Next]_vars PROVE IInv'
  OBVIOUS
<1> USE ConstantsAssumption
<1>1. CASE Start
  BY <1>1 DEF Start, IInv, TypeOK, Untouched, Counted, InStep, AcksAreTrue, DoneIsComplete,
              ReceivedInOrder, SentWithinRetries, Ended, clientVars
<1>2. CASE Send
  BY <1>2 DEF Send, IInv, TypeOK, Untouched, Counted, InStep, AcksAreTrue, DoneIsComplete,
              ReceivedInOrder, SentWithinRetries, Ended, clientVars
<1>3. CASE Acknowledged
  <2>1. Len(received) = index
    BY <1>3, AcknowledgedIsReceived
  <2> QED
    BY SMTT(30), <1>3, <2>1 DEF Acknowledged, IInv, TypeOK, Untouched, Counted, InStep, AcksAreTrue,
         DoneIsComplete, ReceivedInOrder, SentWithinRetries, Ended, clientVars
<1>4. CASE NotAcknowledged
  BY SMTT(30), <1>4 DEF NotAcknowledged, IInv, TypeOK, Untouched, Counted, InStep, AcksAreTrue,
              DoneIsComplete, ReceivedInOrder, SentWithinRetries, Ended, clientVars
<1>5. CASE Interrupted
  BY <1>5 DEF Interrupted, IInv, TypeOK, Untouched, Counted, InStep, AcksAreTrue,
              DoneIsComplete, ReceivedInOrder, SentWithinRetries, Ended, clientVars
<1>6. CASE ReceiveOptions
  BY <1>6 DEF ReceiveOptions, IInv, TypeOK, Untouched, Counted, InStep, AcksAreTrue,
              DoneIsComplete, ReceivedInOrder, SentWithinRetries, serverVars
<1>7. ASSUME NEW i \in 1 .. Blocks, ReceiveBlock(i) PROVE IInv'
  <2>1. i = Len(received) + 1 /\ i = index
    BY <1>7, BlockIsExpected DEF Expected
  <2>2. /\ UNCHANGED <<serverVars, notice>>
        /\ received' = Append(received, i)
        /\ acks' = acks \union {i}
        /\ client' \in {client, "complete"}
        /\ sends[i] > 0
    BY <1>7, <2>1 DEF ReceiveBlock, Expected
  <2>3. /\ received' \in Seq(1 .. Blocks)
        /\ Len(received') = i
        /\ \A k \in 1 .. Len(received') : received'[k] = k
    BY <2>1, <2>2 DEF IInv, TypeOK, InStep, ReceivedInOrder
  <2>4. TypeOK' /\ Untouched' /\ Counted'
    BY SMTT(30), <2>1, <2>2, <2>3 DEF IInv, TypeOK, Untouched, Counted, SentWithinRetries, serverVars
  <2>5. InStep' /\ AcksAreTrue' /\ DoneIsComplete'
    BY <2>1, <2>2, <2>3 DEF IInv, TypeOK, InStep, AcksAreTrue, DoneIsComplete, ReceivedInOrder, serverVars
  <2> QED BY <2>4, <2>5 DEF IInv
<1>8. CASE ClientStops
  BY <1>8 DEF ClientStops, IInv, TypeOK, Untouched, Counted, InStep, AcksAreTrue,
              DoneIsComplete, ReceivedInOrder, SentWithinRetries, serverVars
<1>9. CASE UNCHANGED vars
  BY <1>9 DEF vars, serverVars, clientVars, IInv, TypeOK, Untouched, Counted, InStep,
              AcksAreTrue, DoneIsComplete, ReceivedInOrder, SentWithinRetries
<1> QED BY <1>1, <1>2, <1>3, <1>4, <1>5, <1>6, <1>7, <1>8, <1>9 DEF Next, SessionStep

LEMMA Inductive == Spec => []IInv
BY InitIInv, NextIInv, PTL DEF Spec

-----------------------------------------------------------------------------
(* What follows from it. *)

\* The state of a session is well-formed.
THEOREM TypeCorrect == Spec => []TypeOK
<1>1. IInv => TypeOK
  BY DEF IInv
<1> QED BY <1>1, Inductive, PTL

\* The client is given the blocks of the file in order and each once.
THEOREM Ordered == Spec => []ReceivedInOrder
<1>1. IInv => ReceivedInOrder
  BY DEF IInv, InStep
<1> QED BY <1>1, Inductive, PTL

\* A transfer that the server takes for successful is complete.
THEOREM Complete == Spec => []DoneIsComplete
<1>1. IInv => DoneIsComplete
  BY DEF IInv
<1> QED BY <1>1, Inductive, PTL

\* No message is sent more often than the attempts allow.
THEOREM Limited == Spec => []SentWithinRetries
<1>1. IInv => SentWithinRetries
  BY DEF IInv, Counted
<1> QED BY <1>1, Inductive, PTL

\* All of that together: a client has the beginning of the file, all of it when
\* the server says so, and nothing was sent more often than it may be.
THEOREM SafetyHolds == Spec => []Safety
<1>1. TypeOK /\ ReceivedInOrder /\ DoneIsComplete /\ SentWithinRetries => Safety
  BY DEF Safety
<1>2. QED
  BY <1>1, TypeCorrect, Ordered, Complete, Limited, PTL

LEMMA InitTransfer == Init => Transfer!Init
BY DEF Init, Transfer!Init, Outcome, Ended

LEMMA NextTransfer == IInv /\ [Next]_vars => [Transfer!Next]_(Transfer!vars)
<1> SUFFICES ASSUME IInv, [Next]_vars
             PROVE  Transfer!Next \/ UNCHANGED <<received, Outcome>>
  BY DEF Transfer!vars
<1>1. CASE Start
  BY <1>1 DEF Start, Outcome, Ended, clientVars, Transfer!Next, Transfer!GiveUp
<1>2. CASE Send
  BY <1>2 DEF Send, Outcome, Ended, clientVars
<1>3. CASE Acknowledged
  <2>1. Len(received) = index
    BY <1>3, AcknowledgedIsReceived
  <2> QED BY <1>3, <2>1 DEF Acknowledged, Outcome, Ended, clientVars, Transfer!Next, Transfer!Deliver
<1>4. CASE NotAcknowledged
  BY <1>4 DEF NotAcknowledged, Outcome, Ended, clientVars, Transfer!Next, Transfer!GiveUp
<1>5. CASE Interrupted
  BY <1>5 DEF Interrupted, Outcome, Ended, clientVars, Transfer!Next, Transfer!GiveUp
<1>6. CASE ReceiveOptions
  BY <1>6 DEF ReceiveOptions, Outcome, Ended, serverVars
<1>7. ASSUME NEW i \in 1 .. Blocks, ReceiveBlock(i) PROVE Transfer!Next
  <2>1. i = Len(received) + 1
    BY <1>7, BlockIsExpected DEF Expected
  <2>2. received' = Append(received, Len(received) + 1) /\ session' = session
    BY <1>7, <2>1 DEF ReceiveBlock, serverVars
  <2>3. Len(received) < Blocks
    BY <2>1, ConstantsAssumption DEF IInv, TypeOK
  <2>4. UNCHANGED Outcome
    BY <2>2 DEF Outcome
  <2> QED BY <2>2, <2>3, <2>4 DEF Transfer!Next, Transfer!Receive
<1>8. CASE ClientStops
  BY <1>8 DEF ClientStops, Outcome, Ended, serverVars
<1>9. CASE UNCHANGED vars
  BY <1>9 DEF vars, serverVars, clientVars, Outcome, Ended
<1> QED BY <1>1, <1>2, <1>3, <1>4, <1>5, <1>6, <1>7, <1>8, <1>9 DEF Next, SessionStep

\* The session implements FileTransfer.
THEOREM Implements == Spec => TransferSpec
BY InitTransfer, NextTransfer, Inductive, PTL DEF Spec, TransferSpec, Transfer!Spec
=============================================================================
