-------------------------- MODULE TftpServerProofs --------------------------
(***************************************************************************)
(* For any number of clients and places: a client is served by at most one *)
(* thread, and the threads do not exceed the places by more than one.      *)
(***************************************************************************)
EXTENDS TftpServer, FiniteSetTheorems, TLAPS

\* Between two requests the loop holds none; the one that it holds came from a
\* client that was not taken for served, and nobody else adds to those.  It
\* closes with nobody left.
RequestIsNew ==
  /\ loop # "popping" => request = NoRequest
  /\ request # NoRequest => request \notin active
  /\ loop = "closed" => active = {}

\* What is live is known, and starting one more session needs a place.
IInv ==
  /\ TypeOK
  /\ RequestIsNew
  /\ OneSessionPerClient
  /\ Live \subseteq active
  /\ Cardinality(active) <= MaxSessions + 1

LEMMA FiniteActive ==
  ASSUME NEW S \in SUBSET Clients
  PROVE  IsFiniteSet(S) /\ Cardinality(S) \in Nat
BY ConstantsAssumption, FS_Subset, FS_CardinalityType

LEMMA SmallerActive ==
  ASSUME NEW S \in SUBSET Clients, NEW T \in SUBSET S, Cardinality(S) <= MaxSessions + 1
  PROVE  Cardinality(T) <= MaxSessions + 1
<1>1. Cardinality(T) <= Cardinality(S)
  BY FiniteActive, FS_Subset
<1>2. Cardinality(T) \in Nat /\ Cardinality(S) \in Nat
  BY FiniteActive
<1> QED BY <1>1, <1>2, ConstantsAssumption

LEMMA InitIInv == Init => IInv
<1> SUFFICES ASSUME Init PROVE IInv
  OBVIOUS
<1>1. TypeOK /\ RequestIsNew /\ OneSessionPerClient /\ Live \subseteq active
  BY ConstantsAssumption
     DEF Init, TypeOK, RequestIsNew, OneSessionPerClient, Live
<1>2. Cardinality(active) = 0
  BY FS_EmptySet DEF Init
<1> QED BY <1>1, <1>2, ConstantsAssumption DEF IInv

\* The steps that take nobody in: active does not grow, threads end at most.
LEMMA Shrinking ==
  ASSUME IInv, TypeOK', RequestIsNew',
         active' \subseteq active,
         \A c \in Clients : threads'[c] <= threads[c],
         \A c \in active \ active' : threads'[c] = 0
  PROVE  IInv'
<1>1. OneSessionPerClient' /\ Live' \subseteq active'
  BY DEF IInv, TypeOK, OneSessionPerClient, Live
<1>2. (Cardinality(active) <= MaxSessions + 1)'
  BY SmallerActive DEF IInv, TypeOK
<1> QED BY <1>1, <1>2 DEF IInv

LEMMA StartKeeps == IInv /\ StartSession => IInv'
<1> SUFFICES ASSUME IInv, StartSession PROVE IInv'
  OBVIOUS
<1>1. request \in Clients /\ request \notin active /\ threads[request] = 0
  BY ConstantsAssumption DEF IInv, TypeOK, RequestIsNew, Live, StartSession, Decided
<1>2. TypeOK' /\ RequestIsNew'
  BY <1>1, ConstantsAssumption
     DEF IInv, TypeOK, RequestIsNew, StartSession, Decided, clientVars
<1>3. OneSessionPerClient' /\ Live' \subseteq active'
  BY <1>1 DEF IInv, TypeOK, OneSessionPerClient, Live, StartSession
<1>4. Cardinality(active') = Cardinality(active) + 1
  BY <1>1, FiniteActive, FS_AddElement DEF IInv, TypeOK, StartSession
<1>5. ~(Cardinality(active) > MaxSessions) /\ Cardinality(active) \in Nat
  BY FiniteActive DEF StartSession, NoSlots, IInv, TypeOK
<1>6. (Cardinality(active) <= MaxSessions + 1)'
  BY <1>4, <1>5, ConstantsAssumption
<1> QED BY <1>2, <1>3, <1>6 DEF IInv

LEMMA NextIInv == IInv /\ [Next]_vars => IInv'
<1> SUFFICES ASSUME IInv, [Next]_vars PROVE IInv'
  OBVIOUS
<1> USE ConstantsAssumption DEF IInv, TypeOK, RequestIsNew
<1>1. ASSUME NEW c \in Clients, Receive(c) PROVE IInv'
  <2>1. TypeOK' /\ RequestIsNew' /\ active' = active /\ threads' = threads
    BY <1>1 DEF Receive, Pop, Ignored, loopVars
  <2> QED BY <2>1, Shrinking
<1>2. ASSUME NEW c \in Clients, PopFinished(c) \/ WaitRequestDone(c) PROVE IInv'
  <2>1. /\ TypeOK' /\ RequestIsNew' /\ threads' = threads /\ active' \subseteq active
        /\ \A d \in active \ active' : threads[d] = 0
    BY <1>2 DEF PopFinished, WaitRequestDone, clientVars
  <2> QED BY <2>1, Shrinking
<1>3. CASE Maintained \/ Refuse \/ StopServing \/ Closed \/ NothingReceived \/ KeyboardInterrupt
  <2>1. TypeOK' /\ RequestIsNew' /\ active' = active /\ threads' = threads
    BY <1>3 DEF Maintained, Refuse, StopServing, Closed, NothingReceived, KeyboardInterrupt,
                Decided, Pop, clientVars
  <2> QED BY <2>1, Shrinking
<1>4. CASE StartSession
  BY <1>4, StartKeeps
<1>5. ASSUME NEW c \in Clients, Ask(c) \/ EndSession(c) PROVE IInv'
  <2>1. /\ TypeOK' /\ RequestIsNew' /\ active' = active
        /\ \A d \in Clients : threads'[d] <= threads[d]
    BY <1>5 DEF Ask, EndSession, clientVars, loopVars
  <2> QED BY <2>1, Shrinking
<1>6. CASE UNCHANGED vars
  <2>1. TypeOK' /\ RequestIsNew' /\ active' = active /\ threads' = threads
    BY <1>6 DEF vars, clientVars, loopVars
  <2> QED BY <2>1, Shrinking
<1> QED BY <1>1, <1>2, <1>3, <1>4, <1>5, <1>6 DEF Next, LoopStep

LEMMA Inductive == Spec => []IInv
BY InitIInv, NextIInv, PTL DEF Spec

-----------------------------------------------------------------------------
\* The state of the server is well-formed.
THEOREM TypeCorrect == Spec => []TypeOK
<1>1. IInv => TypeOK
  BY DEF IInv
<1> QED BY <1>1, Inductive, PTL

\* A client is never served by two threads.
THEOREM OneSession == Spec => []OneSessionPerClient
<1>1. IInv => OneSessionPerClient
  BY DEF IInv
<1> QED BY <1>1, Inductive, PTL

\* There is at most one thread more than places.
THEOREM Slots == Spec => []SlotsBound
<1>1. IInv => SlotsBound
  <2> SUFFICES ASSUME IInv PROVE SlotsBound
    OBVIOUS
  <2> QED BY SmallerActive DEF IInv, TypeOK, SlotsBound
<1> QED BY <1>1, Inductive, PTL

\* The server says that it is closed only when its threads have ended.
THEOREM Idle == Spec => []ClosedIsIdle
<1>1. IInv => ClosedIsIdle
  BY DEF IInv, RequestIsNew, ClosedIsIdle
<1> QED BY <1>1, Inductive, PTL

\* All of that together: one thread per client, no more than there are places, and
\* none when the server has closed.
THEOREM SafetyHolds == Spec => []Safety
<1>1. TypeOK /\ OneSessionPerClient /\ SlotsBound /\ ClosedIsIdle => Safety
  BY DEF Safety
<1>2. QED
  BY <1>1, TypeCorrect, OneSession, Slots, Idle, PTL
=============================================================================
