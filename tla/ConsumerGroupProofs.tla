------------------------ MODULE ConsumerGroupProofs ------------------------
(***************************************************************************)
(* Proofs about ConsumerGroup for any consumers, bounds and MaxLen.        *)
(***************************************************************************)
EXTENDS ConsumerGroup, FiniteSetTheorems, TLAPS

Handling(c) == pc[c] \in {"handling", "done"}

Positions ==
  /\ delivered <= added
  /\ oldest <= added + 1

PendingInv ==
  \A c \in Consumers :
     /\ \A m \in pending[c] : m <= delivered
     /\ \A d \in Consumers : c # d => pending[c] \intersect pending[d] = {}

ProcessInv ==
  \A c \in Consumers :
     /\ pc[c] = "polling" => pending[c] = {}
     /\ Handling(c) => /\ current[c] \in 1 .. delivered
                       /\ pending[c] \subseteq {current[c]}
     /\ ~Handling(c) => current[c] = None
     /\ pc[c] = "done" => current[c] \in handled
     /\ \A m, n \in pending[c] : m = n

OwnerInv ==
  \A c, d \in Consumers :
     (c # d /\ current[c] # None) =>
        /\ current[c] # current[d]
        /\ current[c] \notin pending[d]

HistoryInv ==
  /\ handled \subseteq 1 .. delivered
  /\ lost \subseteq 1 .. added
  /\ lost \intersect Undelivered = {}
  /\ NothingForgotten

\* The inductive invariant.
IInv == TypeOK /\ Positions /\ PendingInv /\ ProcessInv /\ OwnerInv /\ HistoryInv

---------------------------------------------------------------------------
\* Initially nothing has been written and no process runs.
LEMMA InitIInv == Init => IInv
  BY ConstantsAssumption DEF ConstantsAssumption, Init, IInv, TypeOK, Messages, None,
     Positions, PendingInv, ProcessInv, OwnerInv, HistoryInv, NothingForgotten,
     Handling, Undelivered

\* Every step keeps the inductive invariant.
LEMMA NextIInv == IInv /\ [Next]_vars => IInv'
  <1> SUFFICES ASSUME IInv, [Next]_vars PROVE IInv'
    OBVIOUS
  <1>1. CASE Write
    <2>1. /\ added' = added + 1
          /\ added' \in 1 .. MaxMessages
          /\ oldest' \in oldest .. added'
          /\ UNCHANGED <<group, delivered, pending, pc, current, handled, crashes, commands>>
      BY <1>1, ConstantsAssumption DEF ConstantsAssumption, Write, IInv, TypeOK
    <2>2. lost' = lost \union {m \in Undelivered : m < oldest'}
                       \union {m \in {added'} : group = "absent"}
      BY <1>1 DEF Write
    <2>3. lost' \subseteq 1 .. added'
      <3> SUFFICES ASSUME NEW m \in lost' PROVE m \in 1 .. added'
        OBVIOUS
      <3>1. m \in lost \/ m \in Undelivered \/ m = added'
        BY <2>2
      <3>2. CASE m \in lost
        BY <2>1, <3>2 DEF IInv, TypeOK, HistoryInv
      <3>3. CASE m \in Undelivered \/ m = added'
        BY <2>1, <3>3 DEF IInv, TypeOK, Undelivered
      <3>4. QED
        BY <3>1, <3>2, <3>3
    <2>4. TypeOK'
      <3>1. lost' \in SUBSET Messages
        BY <2>1, <2>3, ConstantsAssumption DEF ConstantsAssumption, Messages
      <3>2. QED
        BY <2>1, <3>1, ConstantsAssumption DEF ConstantsAssumption, IInv, TypeOK
    <2>5. Positions' /\ PendingInv' /\ ProcessInv' /\ OwnerInv'
      BY <2>1 DEF IInv, TypeOK, Positions, PendingInv, ProcessInv, OwnerInv, Handling
    <2>6. lost' \intersect Undelivered' = {}
      BY <2>1, <2>2 DEF IInv, TypeOK, HistoryInv, Undelivered, Positions
    <2>7. NothingForgotten'
      <3> SUFFICES ASSUME NEW m \in 1 .. added', m \notin handled', m \notin lost',
                          m \notin AllPending'
                   PROVE  m \in Undelivered'
        BY DEF NothingForgotten
      <3>1. m \notin AllPending
        BY <2>1 DEF AllPending
      <3>2. CASE m = added'
        BY <2>1, <2>2, <3>2 DEF IInv, TypeOK, Positions, Undelivered
      <3>3. CASE m # added'
        <4>1. m \in 1 .. added
          BY <2>1, <3>3 DEF IInv, TypeOK
        <4>2. m \in Undelivered
          BY <2>1, <2>2, <3>1, <4>1 DEF IInv, HistoryInv, NothingForgotten
        <4>3. ~(m < oldest')
          BY <2>2, <4>2
        <4>4. QED
          BY <2>1, <4>1, <4>2, <4>3 DEF IInv, TypeOK, Undelivered
      <3>4. QED
        BY <3>2, <3>3
    <2>8. HistoryInv'
      BY <2>1, <2>3, <2>6, <2>7 DEF IInv, HistoryInv
    <2>9. QED
      BY <2>4, <2>5, <2>8 DEF IInv
  <1>2. ASSUME NEW c \in Consumers, Start(c) PROVE IInv'
    <2>1. /\ pc[c] = "down" /\ pc' = [pc EXCEPT ![c] = "idle"]
          /\ group' = "present"
          /\ delivered' = IF group = "present" THEN delivered ELSE added
          /\ UNCHANGED <<added, oldest, pending, current, handled, lost, crashes, commands>>
      BY <1>2 DEF Start
    <2>2. delivered <= delivered' /\ delivered' <= added /\ delivered' \in Nat
      BY <2>1, ConstantsAssumption DEF ConstantsAssumption, IInv, TypeOK, Positions
    <2>3. TypeOK'
      BY <2>1, ConstantsAssumption DEF ConstantsAssumption, IInv, TypeOK
    <2>4. Positions'
      BY <2>1, <2>2 DEF IInv, Positions
    <2>5. PendingInv'
      BY <2>1, <2>2 DEF IInv, TypeOK, Messages, PendingInv
    <2>6. ProcessInv'
      BY <2>1, <2>2 DEF IInv, TypeOK, ProcessInv, Handling
    <2>7. OwnerInv'
      BY <2>1 DEF IInv, OwnerInv
    <2>8. Undelivered' = Undelivered
      BY <2>1 DEF IInv, TypeOK, Undelivered
    <2>9. HistoryInv'
      <3>1. handled' \subseteq 1 .. delivered'
        BY <2>1, <2>2 DEF IInv, TypeOK, HistoryInv
      <3>2. QED
        BY <2>1, <2>8, <3>1 DEF IInv, HistoryInv, NothingForgotten, AllPending
    <2>10. QED
      BY <2>3, <2>4, <2>5, <2>6, <2>7, <2>9 DEF IInv
  <1>3. ASSUME NEW c \in Consumers, ReadUnacknowledged(c) PROVE IInv'
    <2>1. UNCHANGED <<added, oldest, group, delivered, pending, handled, lost, crashes, commands>>
      BY <1>3 DEF ReadUnacknowledged, redisVars
    <2>2. pc[c] = "idle" /\ current[c] = None
      BY <1>3 DEF ReadUnacknowledged
    <2>3. Positions' /\ PendingInv' /\ HistoryInv'
      BY <2>1 DEF IInv, Positions, PendingInv, HistoryInv, NothingForgotten, Undelivered, AllPending
    <2>4. CASE /\ pending[c] = {}
               /\ pc' = [pc EXCEPT ![c] = "polling"]
               /\ UNCHANGED current
      <3>1. TypeOK' /\ OwnerInv'
        BY <2>1, <2>4 DEF IInv, TypeOK, OwnerInv
      <3>2. ProcessInv'
        BY <2>1, <2>2, <2>4 DEF IInv, TypeOK, ProcessInv, Handling
      <3>3. QED
        BY <2>3, <3>1, <3>2 DEF IInv
    <2>5. ASSUME NEW m \in pending[c],
                 pc' = [pc EXCEPT ![c] = "handling"],
                 current' = [current EXCEPT ![c] = m]
          PROVE  IInv'
      <3>1. m \in Messages /\ m \in 1 .. delivered /\ m # None
        BY <2>5 DEF IInv, TypeOK, Messages, PendingInv, None
      <3>2. TypeOK'
        BY <2>1, <2>5, <3>1 DEF IInv, TypeOK
      <3>3. \A d \in Consumers : c # d => m \notin pending[d] /\ current[d] # m
        BY <2>5, <3>1 DEF IInv, PendingInv, OwnerInv
      <3>4. OwnerInv'
        BY <2>1, <2>5, <3>3 DEF IInv, TypeOK, OwnerInv
      <3>5. ProcessInv'
        <4>1. pc'[c] = "handling" /\ current'[c] = m /\ pending[c] \subseteq {m}
          BY <2>5 DEF IInv, TypeOK, ProcessInv
        <4>2. \A d \in Consumers : d # c => pc'[d] = pc[d] /\ current'[d] = current[d]
          BY <2>5 DEF IInv, TypeOK
        <4>3. QED
          BY <2>1, <3>1, <4>1, <4>2 DEF IInv, ProcessInv, Handling
      <3>6. QED
        BY <2>3, <3>2, <3>4, <3>5 DEF IInv
    <2>6. CASE Exit(c)
      <3>1. TypeOK' /\ OwnerInv'
        BY <2>1, <2>6 DEF IInv, TypeOK, OwnerInv, Exit
      <3>2. ProcessInv'
        BY <2>1, <2>6 DEF IInv, TypeOK, ProcessInv, Handling, Exit
      <3>3. QED
        BY <2>3, <3>1, <3>2 DEF IInv
    <2>7. QED
      BY <1>3, <2>4, <2>5, <2>6 DEF ReadUnacknowledged
  <1>4. ASSUME NEW c \in Consumers, ReadNew(c) PROVE IInv'
    <2>1. pc[c] = "polling" /\ pending[c] = {} /\ current[c] = None
      BY <1>4 DEF ReadNew, IInv, ProcessInv, Handling
    <2>2. UNCHANGED <<added, oldest, group, handled, lost, crashes, commands>>
      BY <1>4 DEF ReadNew
    <2>3. ASSUME NEW m \in Undelivered, \A n \in Undelivered : m <= n,
                 delivered' = m,
                 pending' = [pending EXCEPT ![c] = @ \union {m}],
                 pc' = [pc EXCEPT ![c] = "handling"],
                 current' = [current EXCEPT ![c] = m]
          PROVE  IInv'
      <3>1. /\ m \in 1 .. added /\ m \in Messages /\ m # None
            /\ m > delivered /\ delivered \in Nat
        BY <2>3, ConstantsAssumption DEF ConstantsAssumption, IInv, TypeOK, Undelivered, Messages, None
      <3>2. TypeOK'
        BY <2>2, <2>3, <3>1, ConstantsAssumption
           DEF ConstantsAssumption, IInv, TypeOK, Messages
      <3>3. Positions'
        BY <2>2, <2>3, <3>1 DEF IInv, Positions
      <3>4. pending'[c] = {m} /\ \A d \in Consumers : c # d => pending'[d] = pending[d]
        BY <2>1, <2>3 DEF IInv, TypeOK
      <3>5. \A d \in Consumers : \A n \in pending[d] : n \in Nat /\ n < m
        BY <3>1 DEF IInv, TypeOK, Messages, PendingInv
      <3>6. PendingInv'
        <4>1. \A d \in Consumers : \A n \in pending'[d] : n <= delivered'
          BY <2>3, <3>1, <3>4, <3>5
        <4>2. \A d \in Consumers : m \notin pending[d]
          BY <3>1, <3>5
        <4>3. \A d, e \in Consumers : d # e => pending'[d] \intersect pending'[e] = {}
          BY <3>4, <4>2 DEF IInv, PendingInv
        <4>4. QED
          BY <4>1, <4>3 DEF PendingInv
      <3>7. ProcessInv'
        <4>1. \A d \in Consumers : d # c =>
                /\ pc'[d] = pc[d] /\ current'[d] = current[d]
                /\ pending'[d] = pending[d]
          BY <2>3, <3>4 DEF IInv, TypeOK
        <4>2. pc'[c] = "handling" /\ current'[c] = m
          BY <2>3 DEF IInv, TypeOK
        <4>3. 1 .. delivered \subseteq 1 .. delivered' /\ m \in 1 .. delivered'
          BY <2>3, <3>1
        <4> SUFFICES ASSUME NEW d \in Consumers
                     PROVE  /\ pc'[d] = "polling" => pending'[d] = {}
                            /\ Handling(d)' => /\ current'[d] \in 1 .. delivered'
                                              /\ pending'[d] \subseteq {current'[d]}
                            /\ ~Handling(d)' => current'[d] = None
                            /\ pc'[d] = "done" => current'[d] \in handled'
                            /\ \A k, n \in pending'[d] : k = n
          BY DEF ProcessInv, Handling
        <4>4. CASE d = c
          BY <3>4, <4>2, <4>3, <4>4 DEF Handling
        <4>5. CASE d # c
          BY <2>2, <4>1, <4>3, <4>5 DEF IInv, ProcessInv, Handling
        <4>6. QED
          BY <4>4, <4>5
      <3>8. OwnerInv'
        <4>1. \A d \in Consumers : current[d] # m /\ m \notin pending[d]
          BY <3>1, <3>5 DEF IInv, ProcessInv, Handling, None
        <4>2. \A d \in Consumers : d # c => current'[d] = current[d]
          BY <2>3 DEF IInv, TypeOK
        <4>3. current'[c] = m
          BY <2>3 DEF IInv, TypeOK
        <4>4. QED
          BY <3>4, <4>1, <4>2, <4>3 DEF IInv, OwnerInv
      <3>9. Undelivered' = Undelivered \ {m}
        BY <2>2, <2>3, <3>1 DEF IInv, TypeOK, Undelivered
      <3>10. HistoryInv'
        <4>1. handled' \subseteq 1 .. delivered'
          BY <2>2, <2>3, <3>1 DEF IInv, HistoryInv
        <4>2. AllPending' = AllPending \union {m}
          BY <2>3 DEF AllPending, IInv, TypeOK
        <4>3. QED
          BY <2>2, <3>9, <4>1, <4>2 DEF IInv, HistoryInv, NothingForgotten
      <3>11. QED
        BY <3>2, <3>3, <3>6, <3>7, <3>8, <3>10 DEF IInv
    <2>4. ASSUME UNCHANGED <<delivered, pending>>,
                 \/ pc' = [pc EXCEPT ![c] = "idle"] /\ UNCHANGED current
                 \/ Exit(c)
          PROVE  IInv'
      <3>1. Positions' /\ PendingInv' /\ HistoryInv'
        BY <2>2, <2>4 DEF IInv, Positions, PendingInv, HistoryInv, NothingForgotten, Undelivered, AllPending
      <3>2. TypeOK' /\ OwnerInv'
        BY <2>2, <2>4 DEF IInv, TypeOK, OwnerInv, Exit
      <3>3. ProcessInv'
        BY <2>1, <2>2, <2>4 DEF IInv, TypeOK, ProcessInv, Handling, Exit
      <3>4. QED
        BY <3>1, <3>2, <3>3 DEF IInv
    <2>5. QED
      BY <1>4, <2>3, <2>4 DEF ReadNew
  <1>5. ASSUME NEW c \in Consumers, Handle(c) PROVE IInv'
    <2>1. current[c] \in 1 .. delivered /\ current[c] \in Messages
      BY <1>5, ConstantsAssumption
      DEF ConstantsAssumption, Handle, IInv, ProcessInv, Handling, TypeOK, Messages
    <2>2. handled' = handled \union {current[c]}
      BY <1>5 DEF Handle
    <2>3. TypeOK'
      <3>1. handled' \in SUBSET Messages
        BY <2>1, <2>2 DEF IInv, TypeOK
      <3>2. QED
        BY <1>5, <3>1 DEF IInv, TypeOK, Handle, redisVars
    <2>4. Positions' /\ PendingInv' /\ OwnerInv'
      BY <1>5 DEF Handle, redisVars, IInv, Positions, PendingInv, OwnerInv
    <2>5. ProcessInv'
      BY <1>5, <2>2 DEF Handle, redisVars, IInv, ProcessInv, Handling, TypeOK
    <2>6. HistoryInv'
      <3>1. handled' \subseteq 1 .. delivered'
        BY <1>5, <2>1, <2>2 DEF IInv, HistoryInv, Handle, redisVars
      <3>2. UNCHANGED <<added, lost, Undelivered, AllPending>>
        BY <1>5 DEF Handle, redisVars, Undelivered, AllPending
      <3>3. QED
        BY <3>1, <3>2, <2>2 DEF IInv, HistoryInv, NothingForgotten
    <2>7. QED
      BY <2>3, <2>4, <2>5, <2>6 DEF IInv
  <1>6. ASSUME NEW c \in Consumers, Acknowledge(c) PROVE IInv'
    <2>1. /\ pc[c] = "done"
          /\ pending' = [pending EXCEPT ![c] = @ \ {current[c]}]
          /\ current' = [current EXCEPT ![c] = None]
          /\ pc' = [pc EXCEPT ![c] = "idle"]
          /\ UNCHANGED <<added, oldest, group, delivered, handled, lost, crashes, commands>>
      BY <1>6 DEF Acknowledge
    <2>2. TypeOK'
      BY <2>1 DEF IInv, TypeOK
    <2>3. Positions'
      BY <2>1 DEF IInv, Positions
    <2>4. \A d \in Consumers : pending'[d] \subseteq pending[d]
      BY <2>1 DEF IInv, TypeOK
    <2>5. PendingInv'
      BY <2>1, <2>4 DEF IInv, PendingInv
    <2>6. ProcessInv'
      BY <2>1, <2>4 DEF IInv, TypeOK, ProcessInv, Handling
    <2>7. OwnerInv'
      BY <2>1, <2>4 DEF IInv, TypeOK, OwnerInv
    <2>8. \A m \in AllPending : m \in AllPending' \/ m \in handled
      BY <2>1 DEF IInv, TypeOK, ProcessInv, AllPending
    <2>9. UNCHANGED Undelivered
      BY <2>1 DEF Undelivered
    <2>10. HistoryInv'
      BY <2>1, <2>8, <2>9 DEF IInv, HistoryInv, NothingForgotten
    <2>11. QED
      BY <2>2, <2>3, <2>5, <2>6, <2>7, <2>10 DEF IInv
  <1>7. ASSUME NEW c \in Consumers, Crash(c) PROVE IInv'
    <2>1. /\ UNCHANGED <<added, oldest, group, delivered, pending, handled, lost, commands>>
          /\ crashes' \in 0 .. MaxCrashes
          /\ Exit(c)
      BY <1>7, ConstantsAssumption DEF ConstantsAssumption, Crash, redisVars, IInv, TypeOK
    <2>2. Positions' /\ PendingInv' /\ HistoryInv'
      BY <2>1 DEF IInv, Positions, PendingInv, HistoryInv, NothingForgotten, Undelivered, AllPending
    <2>3. TypeOK' /\ OwnerInv'
      BY <2>1 DEF IInv, TypeOK, OwnerInv, Exit
    <2>4. ProcessInv'
      BY <2>1 DEF IInv, TypeOK, ProcessInv, Handling, Exit
    <2>5. QED
      BY <2>2, <2>3, <2>4 DEF IInv
  <1>8. ASSUME NEW c \in Consumers, DeleteConsumer(c) PROVE IInv'
    <2>1. /\ lost' = lost \union pending[c]
          /\ pending' = [pending EXCEPT ![c] = {}]
          /\ UNCHANGED <<added, oldest, group, delivered, pc, current, handled, crashes>>
          /\ commands' \in 0 .. MaxCommands
      BY <1>8, ConstantsAssumption DEF ConstantsAssumption, DeleteConsumer, IInv, TypeOK
    <2>2. lost' \subseteq 1 .. added'
      <3> SUFFICES ASSUME NEW m \in lost' PROVE m \in 1 .. added'
        OBVIOUS
      <3>1. CASE m \in lost
        BY <2>1, <3>1 DEF IInv, HistoryInv
      <3>2. CASE m \in pending[c]
        BY <2>1, <3>2 DEF IInv, TypeOK, Messages, PendingInv, Positions
      <3>3. QED
        BY <2>1, <3>1, <3>2
    <2>3. TypeOK'
      <3>1. lost' \in SUBSET Messages
        BY <2>1, <2>2, ConstantsAssumption DEF ConstantsAssumption, Messages, IInv, TypeOK
      <3>2. QED
        BY <1>8, <2>1, <3>1, ConstantsAssumption DEF ConstantsAssumption, DeleteConsumer, IInv, TypeOK
    <2>4. Positions' /\ PendingInv' /\ OwnerInv' /\ ProcessInv'
      BY <1>8, <2>1 DEF DeleteConsumer, IInv, TypeOK, Positions, PendingInv, OwnerInv, ProcessInv, Handling
    <2>5. lost' \intersect Undelivered' = {}
      BY <1>8, <2>1 DEF DeleteConsumer, IInv, TypeOK, HistoryInv, PendingInv, Positions, Undelivered
    <2>6. NothingForgotten'
      BY <1>8, <2>1 DEF DeleteConsumer, IInv, HistoryInv, NothingForgotten, TypeOK, AllPending, Undelivered
    <2>7. HistoryInv'
      BY <2>1, <2>2, <2>5, <2>6 DEF IInv, HistoryInv
    <2>8. QED
      BY <2>3, <2>4, <2>7 DEF IInv
  <1>9. CASE DestroyGroup
    <2>1. /\ lost' = lost \union AllPending \union Undelivered
          /\ pending' = [c \in Consumers |-> {}]
          /\ UNCHANGED <<added, oldest, delivered, pc, current, handled, crashes>>
          /\ commands' \in 0 .. MaxCommands
      BY <1>9, ConstantsAssumption DEF ConstantsAssumption, DestroyGroup, IInv, TypeOK
    <2>2. lost' \subseteq 1 .. added'
      <3> SUFFICES ASSUME NEW m \in lost' PROVE m \in 1 .. added'
        OBVIOUS
      <3>1. CASE m \in lost
        BY <2>1, <3>1 DEF IInv, HistoryInv
      <3>2. CASE m \in AllPending \union Undelivered
        <4>1. CASE m \in Undelivered
          BY <2>1, <4>1 DEF Undelivered
        <4>2. CASE \E c \in Consumers : m \in pending[c]
          BY <2>1, <4>2 DEF IInv, TypeOK, Messages, PendingInv, Positions
        <4>3. QED
          BY <3>2, <4>1, <4>2 DEF AllPending
      <3>3. QED
        BY <2>1, <3>1, <3>2
    <2>3. TypeOK'
      <3>1. lost' \in SUBSET Messages
        BY <2>1, <2>2, ConstantsAssumption DEF ConstantsAssumption, Messages, IInv, TypeOK
      <3>2. QED
        BY <1>9, <2>1, <3>1, ConstantsAssumption DEF ConstantsAssumption, DestroyGroup, IInv, TypeOK
    <2>4. Positions' /\ PendingInv' /\ OwnerInv' /\ ProcessInv'
      BY <1>9, <2>1 DEF DestroyGroup, IInv, TypeOK, Positions, PendingInv, OwnerInv, ProcessInv, Handling
    <2>5. lost' \intersect Undelivered' = {}
      BY <1>9, <2>1 DEF DestroyGroup, IInv, TypeOK, HistoryInv, PendingInv, Positions, AllPending, Undelivered
    <2>6. NothingForgotten'
      BY <1>9, <2>1 DEF DestroyGroup, IInv, HistoryInv, NothingForgotten, TypeOK, AllPending, Undelivered
    <2>7. HistoryInv'
      BY <2>1, <2>2, <2>5, <2>6 DEF IInv, HistoryInv
    <2>8. QED
      BY <2>3, <2>4, <2>7 DEF IInv
  <1>10. CASE DeleteStream
    <2>1. /\ lost' = lost \union AllPending \union Undelivered
          /\ pending' = [c \in Consumers |-> {}]
          /\ UNCHANGED <<added, delivered, pc, current, handled, crashes>>
          /\ commands' \in 0 .. MaxCommands
      BY <1>10, ConstantsAssumption DEF ConstantsAssumption, DeleteStream, IInv, TypeOK
    <2>2. lost' \subseteq 1 .. added'
      <3> SUFFICES ASSUME NEW m \in lost' PROVE m \in 1 .. added'
        OBVIOUS
      <3>1. CASE m \in lost
        BY <2>1, <3>1 DEF IInv, HistoryInv
      <3>2. CASE m \in AllPending \union Undelivered
        <4>1. CASE m \in Undelivered
          BY <2>1, <4>1 DEF Undelivered
        <4>2. CASE \E c \in Consumers : m \in pending[c]
          BY <2>1, <4>2 DEF IInv, TypeOK, Messages, PendingInv, Positions
        <4>3. QED
          BY <3>2, <4>1, <4>2 DEF AllPending
      <3>3. QED
        BY <2>1, <3>1, <3>2
    <2>3. TypeOK'
      <3>1. lost' \in SUBSET Messages
        BY <2>1, <2>2, ConstantsAssumption DEF ConstantsAssumption, Messages, IInv, TypeOK
      <3>2. QED
        BY <1>10, <2>1, <3>1, ConstantsAssumption DEF ConstantsAssumption, DeleteStream, IInv, TypeOK
    <2>4. Positions' /\ PendingInv' /\ OwnerInv' /\ ProcessInv'
      BY <1>10, <2>1 DEF DeleteStream, IInv, TypeOK, Positions, PendingInv, OwnerInv, ProcessInv, Handling
    <2>5. lost' \intersect Undelivered' = {}
      BY <1>10, <2>1 DEF DeleteStream, IInv, TypeOK, HistoryInv, PendingInv, Positions, AllPending, Undelivered
    <2>6. NothingForgotten'
      BY <1>10, <2>1 DEF DeleteStream, IInv, HistoryInv, NothingForgotten, TypeOK, AllPending, Undelivered
    <2>7. HistoryInv'
      BY <2>1, <2>2, <2>5, <2>6 DEF IInv, HistoryInv
    <2>8. QED
      BY <2>3, <2>4, <2>7 DEF IInv
  <1>11. CASE UNCHANGED vars
    BY <1>11 DEF vars, redisVars, IInv, TypeOK, Positions, PendingInv, ProcessInv,
                 OwnerInv, HistoryInv, NothingForgotten, Handling, Undelivered, AllPending
  <1>12. QED
    BY <1>1, <1>2, <1>3, <1>4, <1>5, <1>6, <1>7, <1>8, <1>9, <1>10, <1>11 DEF Next, Read

---------------------------------------------------------------------------
\* The inductive invariant holds: positions of the group, what is pending, what
\* each process is at, who owns an entry, and where every entry has gone.
THEOREM IInvHolds == Spec => []IInv
  BY InitIInv, NextIInv, PTL DEF Spec

\* The state of the broker and of the consumer processes stays in its ranges:
\* TypeOK alone is not inductive, for the entry that Handle adds is current[c].
THEOREM TypeCorrect == Spec => []TypeOK
<1>1. IInv => TypeOK
  BY DEF IInv
<1>2. QED
  BY <1>1, IInvHolds, PTL

\* No entry leaves the group unhandled unless trimming or a command took it:
\* acknowledge() comes after the handling, and pending entries survive crashes.
THEOREM NothingForgottenHolds == Spec => []NothingForgotten
<1>1. IInv => NothingForgotten
  BY DEF IInv, HistoryInv
<1>2. QED
  BY <1>1, IInvHolds, PTL

\* read_message() never lets a consumer hold a second unacknowledged entry.
THEOREM AtMostOnePendingHolds == Spec => []AtMostOnePending
<1>1. IInv => AtMostOnePending
  <2> SUFFICES ASSUME IInv, NEW c \in Consumers PROVE Cardinality(pending[c]) <= 1
    BY DEF AtMostOnePending
  <2>1. CASE pending[c] = {}
    BY <2>1, FS_EmptySet
  <2>2. CASE pending[c] # {}
    <3>1. PICK m \in pending[c] : TRUE
      BY <2>2
    <3>2. pending[c] = {m}
      BY <3>1 DEF IInv, ProcessInv
    <3>3. Cardinality({m}) = 1
      BY FS_Singleton, Zenon
    <3>4. QED
      BY <3>2, <3>3
  <2>3. QED
    BY <2>1, <2>2
<1>2. QED
  BY <1>1, IInvHolds, PTL

\* Two processes never handle the same entry at the same time.
THEOREM HandledByOneHolds == Spec => []HandledByOne
<1>1. IInv => HandledByOne
  BY DEF IInv, OwnerInv, HandledByOne
<1>2. QED
  BY <1>1, IInvHolds, PTL

\* All of that together: an entry is with one consumer, which has one at a time,
\* until it was handled or given up.
THEOREM SafetyHolds == Spec => []Safety
<1>1. TypeOK /\ NothingForgotten /\ AtMostOnePending /\ HandledByOne => Safety
  BY DEF Safety
<1>2. QED
  BY <1>1, TypeCorrect, NothingForgottenHolds, AtMostOnePendingHolds, HandledByOneHolds, PTL

\* No process overtakes its own entry: what is earlier was finished, given up or
\* given to others, whatever crashes happen on the way.
THEOREM HandledInOrderHolds == Spec => []HandledInOrder
<1>1. IInv => HandledInOrder
  <2> SUFFICES ASSUME IInv, NEW c \in Consumers, pc[c] \in {"handling", "done"},
                      NEW n \in 1 .. current[c] - 1
               PROVE  n \in handled \union lost \union UNION {pending[d] : d \in Consumers \ {c}}
    BY DEF HandledInOrder
  <2>1. current[c] \in 1 .. delivered /\ pending[c] \subseteq {current[c]}
    BY DEF IInv, ProcessInv, Handling
  <2>2. n \in 1 .. delivered /\ n # current[c]
    BY <2>1 DEF IInv, TypeOK
  <2>3. n \notin pending[c] /\ n \notin Undelivered
    BY <2>1, <2>2 DEF Undelivered, IInv, TypeOK
  <2>4. n \in handled \union lost \union AllPending
    BY <2>2, <2>3 DEF IInv, TypeOK, Positions, HistoryInv, NothingForgotten
  <2> QED
    BY <2>3, <2>4 DEF AllPending
<1>2. QED
  BY <1>1, IInvHolds, PTL

\* A process that starts never makes the group give out finished entries again.
THEOREM NoReplayHolds == Spec => NoReplay
<1>1. IInv /\ [Next]_vars =>
        [\A c \in Consumers, m \in Messages :
            (m \in pending'[c] /\ m \notin pending[c]) => m \notin handled \union lost]_vars
  <2> SUFFICES ASSUME IInv, Next, NEW c \in Consumers, NEW m \in Messages,
                      m \in pending'[c], m \notin pending[c]
               PROVE  m \notin handled \union lost
    OBVIOUS
  <2>1. PICK d \in Consumers : ReadNew(d)
    BY DEF Next, Read, redisVars, Write, Start, ReadUnacknowledged, Handle, Acknowledge,
           Crash, Exit, DeleteConsumer, DestroyGroup, DeleteStream, IInv, TypeOK
  <2>2. m \in Undelivered
    BY <2>1 DEF ReadNew, IInv, TypeOK
  <2>3. QED
    BY <2>2 DEF IInv, TypeOK, HistoryInv, Undelivered
<1>2. QED
  BY <1>1, IInvHolds, PTL DEF Spec, NoReplay

---------------------------------------------------------------------------
\* The stream with its group, its crashing consumers and its administrator
\* implements AtLeastOnce: entries leave AllPending and Undelivered only by
\* being handled first or by being lost.
THEOREM QueueImplemented == Spec => ImplementsQueue
<1> DEFINE outstanding == AllPending \union Undelivered
<1>1. Init => Queue!Init
  BY DEF Init, Queue!Init, AllPending, Undelivered
<1>2. IInv /\ [Next]_vars => [Queue!Next]_(Queue!vars)
  <2> SUFFICES ASSUME IInv, [Next]_vars PROVE [Queue!Next]_(Queue!vars)
    OBVIOUS
  <2>1. CASE Write
    <3>1. /\ added < MaxMessages /\ added' = added + 1
          /\ oldest' \in oldest .. added'
          /\ UNCHANGED <<group, delivered, pending, handled>>
      BY <2>1 DEF Write, IInv, TypeOK
    <3> DEFINE gone == {m \in Undelivered : m < oldest'}
                         \union {m \in {added'} : group = "absent"}
    <3>2. lost' = lost \union gone
      BY <2>1 DEF Write
    <3>3. gone \subseteq outstanding \union {added'}
      OBVIOUS
    <3>4. Undelivered' = (Undelivered \union {added'}) \ gone
      BY <3>1 DEF IInv, TypeOK, Positions, Undelivered
    <3>5. AllPending' = AllPending
      BY <3>1 DEF AllPending
    <3>6. AllPending \intersect gone = {}
      BY <3>1 DEF AllPending, IInv, TypeOK, PendingInv, Positions, Undelivered
    <3>7. outstanding' = (outstanding \union {added'}) \ gone
      BY <3>4, <3>5, <3>6
    <3>8. Queue!Publish
      BY <3>1, <3>2, <3>3, <3>7 DEF Queue!Publish
    <3>9. QED
      BY <3>8 DEF Queue!Next
  <2>2. ASSUME NEW c \in Consumers, Start(c) PROVE UNCHANGED Queue!vars
    <3>1. Undelivered' = Undelivered
      BY <2>2 DEF Start, Undelivered, IInv, TypeOK
    <3>2. QED
      BY <2>2, <3>1 DEF Start, AllPending, Queue!vars
  <2>3. ASSUME NEW c \in Consumers, ReadUnacknowledged(c) PROVE UNCHANGED Queue!vars
    BY <2>3 DEF ReadUnacknowledged, redisVars, Undelivered, AllPending, Queue!vars
  <2>4. ASSUME NEW c \in Consumers, ReadNew(c) PROVE UNCHANGED Queue!vars
    <3>1. CASE UNCHANGED <<delivered, pending>>
      BY <2>4, <3>1 DEF ReadNew, Undelivered, AllPending, Queue!vars
    <3>2. CASE \E m \in Undelivered : /\ \A n \in Undelivered : m <= n
                                     /\ delivered' = m
                                     /\ pending' = [pending EXCEPT ![c] = @ \union {m}]
      <4>1. PICK m \in Undelivered : /\ \A n \in Undelivered : m <= n
                                     /\ delivered' = m
                                     /\ pending' = [pending EXCEPT ![c] = @ \union {m}]
        BY <3>2
      <4>2. AllPending' = AllPending \union {m}
        BY <4>1 DEF AllPending, IInv, TypeOK
      <4>3. Undelivered' = Undelivered \ {m}
        BY <2>4, <4>1 DEF ReadNew, Undelivered, IInv, TypeOK
      <4>4. outstanding' = outstanding
        BY <4>1, <4>2, <4>3
      <4>5. QED
        BY <2>4, <4>4 DEF ReadNew, Queue!vars
    <3>3. QED
      BY <2>4, <3>1, <3>2 DEF ReadNew
  <2>5. ASSUME NEW c \in Consumers, Handle(c) PROVE Queue!Next
    <3>1. current[c] \in 1 .. added
      BY <2>5 DEF Handle, IInv, TypeOK, Positions, ProcessInv, Handling
    <3>2. Queue!Handle(current[c])
      BY <2>5 DEF Handle, redisVars, Undelivered, AllPending, Queue!Handle
    <3>3. QED
      BY <3>1, <3>2 DEF Queue!Next
  <2>6. ASSUME NEW c \in Consumers, Acknowledge(c) PROVE Queue!Next \/ UNCHANGED Queue!vars
    <3> DEFINE m == current[c]
    <3>1. m \in 1 .. added /\ m \in handled /\ m \notin Undelivered
      BY <2>6 DEF Acknowledge, IInv, TypeOK, Positions, ProcessInv, Handling, Undelivered
    <3>2. /\ pending' = [pending EXCEPT ![c] = @ \ {m}]
          /\ UNCHANGED <<added, oldest, group, delivered, handled, lost>>
      BY <2>6 DEF Acknowledge
    <3>3. \A d \in Consumers : d # c => m \notin pending[d]
      BY <2>6, <3>1 DEF Acknowledge, IInv, OwnerInv, TypeOK, Messages, None
    <3>4. AllPending' = AllPending \ {m}
      BY <3>2, <3>3 DEF AllPending, IInv, TypeOK
    <3>5. Undelivered' = Undelivered
      BY <3>2 DEF Undelivered
    <3>6. outstanding' = outstanding \ {m}
      BY <3>1, <3>4, <3>5
    <3>7. CASE m \in outstanding
      <4>1. Queue!Finish(m)
        BY <3>1, <3>2, <3>6, <3>7 DEF Queue!Finish
      <4>2. QED
        BY <3>1, <4>1 DEF Queue!Next
    <3>8. CASE m \notin outstanding
      BY <3>2, <3>6, <3>8 DEF Queue!vars
    <3>9. QED
      BY <3>7, <3>8
  <2>7. ASSUME NEW c \in Consumers, Crash(c) PROVE UNCHANGED Queue!vars
    BY <2>7 DEF Crash, redisVars, Undelivered, AllPending, Queue!vars
  <2>8. ASSUME NEW c \in Consumers, DeleteConsumer(c) PROVE Queue!Next
    <3>1. /\ lost' = lost \union pending[c]
          /\ pending' = [pending EXCEPT ![c] = {}]
          /\ UNCHANGED <<added, oldest, group, delivered, handled>>
      BY <2>8 DEF DeleteConsumer
    <3>2. pending[c] \subseteq outstanding
      BY DEF AllPending
    <3>3. Undelivered' = Undelivered
      BY <3>1 DEF Undelivered
    <3>4. pending[c] \intersect Undelivered = {}
      BY DEF IInv, TypeOK, PendingInv, Undelivered, Messages
    <3>5. AllPending' = AllPending \ pending[c]
      BY <3>1 DEF AllPending, IInv, TypeOK, PendingInv
    <3>6. outstanding' = outstanding \ pending[c]
      BY <3>3, <3>4, <3>5
    <3>7. Queue!Lose
      BY <3>1, <3>2, <3>6 DEF Queue!Lose
    <3>8. QED
      BY <3>7 DEF Queue!Next
  <2>9. CASE DestroyGroup
    <3>1. /\ lost' = lost \union outstanding
          /\ UNCHANGED <<added, handled>>
      BY <2>9 DEF DestroyGroup
    <3>2. outstanding' = {}
      BY <2>9 DEF DestroyGroup, AllPending, Undelivered
    <3>3. outstanding' = outstanding \ outstanding
      BY <3>2
    <3>4. Queue!Lose
      BY <3>1, <3>3 DEF Queue!Lose
    <3>5. QED
      BY <3>4 DEF Queue!Next
  <2>10. CASE DeleteStream
    <3>1. /\ lost' = lost \union outstanding
          /\ UNCHANGED <<added, handled>>
      BY <2>10 DEF DeleteStream
    <3>2. outstanding' = {}
      BY <2>10 DEF DeleteStream, AllPending, Undelivered
    <3>3. outstanding' = outstanding \ outstanding
      BY <3>2
    <3>4. Queue!Lose
      BY <3>1, <3>3 DEF Queue!Lose
    <3>5. QED
      BY <3>4 DEF Queue!Next
  <2>11. CASE UNCHANGED vars
    BY <2>11 DEF vars, redisVars, Undelivered, AllPending, Queue!vars
  <2>12. QED
    BY <2>1, <2>2, <2>3, <2>4, <2>5, <2>6, <2>7, <2>8, <2>9, <2>10, <2>11 DEF Next, Read
<1>3. QED
  BY <1>1, <1>2, IInvHolds, PTL DEF Spec, ImplementsQueue, Queue!Spec
=============================================================================
