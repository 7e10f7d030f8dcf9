----------------------------- MODULE ArmsProofs -----------------------------
(***************************************************************************)
(* Proofs about the contractors of ARM machines, for every value of the    *)
(* constants: the market of contracts, the storage of snapshots and the    *)
(* disks of the machines.                                                  *)
(***************************************************************************)
EXTENDS Arms, FiniteSetTheorems, TLAPS

---------------------------------------------------------------------------
(* What an instance takes from the library is what this module takes. *)

LEMMA StorageCardinality ==
  \A S : /\ Storage!Cardinality(S) = Cardinality(S)
         /\ Storage!IsFiniteSet(S) = IsFiniteSet(S)
BY DEF Storage!Cardinality, Cardinality, Storage!IsFiniteSet, IsFiniteSet

---------------------------------------------------------------------------
(* The market *)

\* The messages of a stream.
Orders == {<<>>, <<"description">>, <<"commit">>}
Answers == {<<>>, <<"rejected">>, <<"executing">>, <<"failure">>, <<"success">>}
StreamStates ==
  [session : Sessions \union {None}, machine : Machines \union {None}, open : BOOLEAN,
   end : Market!Ends, toMachine : Orders, toSession : Answers, done : BOOLEAN]

Early == {"connected", "offered", "booting", "booted"}
Away == {"search", "rollback"}

\* The open end of a stream is that of the contractor that is at work with it.
Held ==
  \A i \in Streams : stream[i].open =>
    /\ stream[i].machine \in Machines
    /\ machine[stream[i].machine].on = i
    /\ machine[stream[i].machine].at \notin Away

\* How far a contractor with a stream is: nobody takes its contract for signed before it is,
\* and the disk is there until it is committed.
Honest(at, st, m, disks) ==
  /\ at \in Early =>
       ~st.done /\ st.toSession # <<"executing">> /\ st.end \notin {"pending", "command"}
  /\ at = "committed" => st.done
  /\ st.done => m \notin disks
  /\ at \in {"booting", "booted", "executing", "committing"} => m \in disks \/ st.done

Contracts ==
  \A m \in Machines : machine[m].at \notin Away => Honest(machine[m].at, Market!On(m), m, disk)

MarketIInv ==
  Market!TypeOK /\ Market!OwnEnds /\ Held /\ Contracts /\ Market!NoDiskForgotten /\ Market!OkMeansCommitted

LEMMA Messages ==
  /\ <<"rejected">> # <<>> /\ <<"executing">> # <<>> /\ <<"failure">> # <<>> /\ <<"success">> # <<>>
  /\ <<"executing">> # <<"rejected">> /\ <<"executing">> # <<"failure">> /\ <<"executing">> # <<"success">>
  /\ <<"success">> # <<"rejected">> /\ <<"success">> # <<"failure">>
OBVIOUS

LEMMA MarketIInvSafe == MarketIInv => Market!Safety
<1> SUFFICES ASSUME MarketIInv, NEW i \in Streams,
                    stream[i].end \in {"pending", "command"}, stream[i].open
             PROVE  LET m == stream[i].machine IN
                      /\ machine[m].on = i
                      /\ machine[m].at \in {"executing", "committing", "committed"}
                      /\ m \in disk \/ stream[i].done
  BY DEF MarketIInv, Market!Safety, Market!SignedIsServed
<1>1. PICK m \in Machines : m = stream[i].machine
  BY DEF MarketIInv, Held
<1>2. machine[m].on = i /\ machine[m].at \notin Away /\ Honest(machine[m].at, stream[i], m, disk)
  BY <1>1 DEF MarketIInv, Held, Contracts, Market!On
<1>3. machine[m].at \in {"search", "connected", "offered", "booting", "booted",
                         "executing", "committing", "committed", "rollback"}
  BY DEF MarketIInv, Market!TypeOK
<1> QED BY <1>1, <1>2, <1>3 DEF Honest, Early, Away

\* What a step of the manager leaves of a stream.
Kept(st, new) ==
  /\ new.open = st.open
  /\ st.open => new.machine = st.machine /\ new.done = st.done
  /\ new.toSession # <<>> => new.toSession = st.toSession /\ new.done = st.done
  /\ new.end \in {"pending", "command"} =>
       st.end \in {"pending", "command"} \/ st.toSession = <<"executing">>

LEMMA KeptItself == \A st \in StreamStates : Kept(st, st)
BY DEF Kept

LEMMA ClosedIsKept ==
  \A st \in StreamStates : Market!WithoutSession(st) \in StreamStates /\ Kept(st, Market!WithoutSession(st))
BY DEF Kept, Market!WithoutSession, StreamStates, Market!Unused, Market!Ends, Orders, Answers

\* The manager closes its ends of some streams.
LEMMA HangingKeeps ==
  ASSUME stream \in [Streams -> StreamStates], NEW closed
  PROVE  /\ Market!Hanging(closed) \in [Streams -> StreamStates]
         /\ \A i \in Streams : Kept(stream[i], Market!Hanging(closed)[i])
         /\ \A i \in Streams \ closed : Market!Hanging(closed)[i] = stream[i]
BY ClosedIsKept, KeptItself DEF Market!Hanging

\* The contractors do not see more of what the manager does.
LEMMA StreamsKept ==
  ASSUME MarketIInv, UNCHANGED <<machine, disk, crashes>>,
         stream' \in [Streams -> StreamStates],
         \A i \in Streams : Kept(stream[i], stream'[i])
  PROVE  /\ \A m \in Machines : machine'[m].at \notin Away =>
              machine'[m].on \in Streams /\ Market!On(m)'.open /\ Market!On(m)'.machine = m
         /\ Held' /\ Contracts' /\ Market!NoDiskForgotten' /\ Market!OkMeansCommitted'
<1>1. \A m \in Machines : machine[m].at \notin Away =>
        machine[m].on \in Streams /\ Market!On(m).open /\ Market!On(m).machine = m
  BY DEF MarketIInv, Market!OwnEnds, Away
<1>2. ASSUME NEW m \in Machines, machine[m].at \notin Away
      PROVE  Market!On(m)'.open /\ Market!On(m)'.machine = m /\ Honest(machine[m].at, Market!On(m)', m, disk)
  <2>1. /\ machine[m].on \in Streams /\ Market!On(m).open /\ Market!On(m).machine = m
        /\ Kept(Market!On(m), Market!On(m)') /\ Honest(machine[m].at, Market!On(m), m, disk)
    BY <1>1, <1>2 DEF Market!On, MarketIInv, Contracts
  <2> QED BY <2>1, Messages DEF Kept, Honest
<1>3. Held'
  BY DEF MarketIInv, Held, Kept
<1>4. Market!OkMeansCommitted'
  <2> SUFFICES ASSUME NEW i \in Streams, stream'[i].toSession = <<"success">>
               PROVE  stream'[i].done
    BY DEF Market!OkMeansCommitted
  <2>1. Kept(stream[i], stream'[i]) /\ (stream[i].toSession = <<"success">> => stream[i].done)
    BY DEF MarketIInv, Market!OkMeansCommitted
  <2> QED BY <2>1, Messages DEF Kept
<1>5. Market!NoDiskForgotten'
  BY DEF MarketIInv, Market!NoDiskForgotten
<1> QED BY <1>1, <1>2, <1>3, <1>4, <1>5 DEF Contracts

SessionStates == {"ready", "finding", "offering", "command", "closed"}

\* A session does something with streams of its own.
LEMMA SessionMoves ==
  ASSUME MarketIInv, NEW s \in Sessions, UNCHANGED <<machine, disk, crashes>>, gone' \subseteq Sessions,
         NEW at \in SessionStates, NEW k \in Streams \union {0},
         session' = [session EXCEPT ![s] = [at |-> at, on |-> k]],
         stream' \in [Streams -> StreamStates],
         \A i \in Streams : Kept(stream[i], stream'[i]),
         \A i \in Streams : stream[i].session # s => stream'[i] = stream[i],
         at \in {"offering", "command"} =>
           /\ k \in Streams /\ stream'[k].session = s
           /\ stream'[k].end = IF at = "offering" THEN "offered" ELSE "command"
  PROVE  MarketIInv'
<1>1. /\ \A m \in Machines : machine'[m].at \notin Away =>
           machine'[m].on \in Streams /\ Market!On(m)'.open /\ Market!On(m)'.machine = m
      /\ Held' /\ Contracts' /\ Market!NoDiskForgotten' /\ Market!OkMeansCommitted'
  BY StreamsKept
<1>2. session \in [Sessions -> [at : SessionStates, on : Streams \union {0}]]
  BY DEF MarketIInv, Market!TypeOK, SessionStates
<1>3. Market!TypeOK'
  <2>1. session' \in [Sessions -> [at : SessionStates, on : Streams \union {0}]]
    BY <1>2
  <2> QED BY <2>1 DEF MarketIInv, Market!TypeOK, SessionStates, StreamStates, Orders, Answers
<1>4. ASSUME NEW t \in Sessions, session'[t].at \in {"offering", "command"}
      PROVE  /\ session'[t].on \in Streams
             /\ stream'[session'[t].on].session = t
             /\ stream'[session'[t].on].end = IF session'[t].at = "offering" THEN "offered" ELSE "command"
  <2>1. CASE t = s
    BY <1>2, <1>4, <2>1
  <2>2. CASE t # s
    <3>1. session'[t] = session[t]
      BY <1>2, <2>2
    <3>2. /\ session[t].on \in Streams
          /\ stream[session[t].on].session = t
          /\ stream[session[t].on].end = IF session[t].at = "offering" THEN "offered" ELSE "command"
      BY <1>4, <3>1 DEF MarketIInv, Market!OwnEnds, Market!SessionAt
    <3> QED BY <2>2, <3>1, <3>2
  <2> QED BY <2>1, <2>2
<1>5. Market!OwnEnds'
  BY <1>1, <1>4 DEF Market!OwnEnds, Market!SessionAt, Away
<1> QED BY <1>1, <1>3, <1>5 DEF MarketIInv

MachineStates == {"search", "connected", "offered", "booting", "booted",
                  "executing", "committing", "committed", "rollback"}

\* A contractor does something with a stream k of its own, or takes one.
MachineMove(m, k, r, st) ==
  /\ UNCHANGED <<session, gone>> /\ crashes' \in 0 .. MaxCrashes
  /\ r \in [at : MachineStates, on : Streams \union {0}] /\ machine' = [machine EXCEPT ![m] = r]
  /\ st \in StreamStates /\ stream' = [stream EXCEPT ![k] = st]
  /\ \A n \in Machines : n # m /\ machine[n].at \notin Away => machine[n].on # k
  /\ \A i \in Streams : i # k /\ stream[i].open => stream[i].machine # m
  /\ disk' \subseteq Machines /\ \A n \in Machines : n # m => (n \in disk' <=> n \in disk)
  /\ r.at \in Away => ~st.open
  /\ r.at \notin Away => r.on = k /\ st.open /\ st.machine = m /\ Honest(r.at, st, m, disk')
  /\ m \in disk' => r.at \in {"booting", "booted", "executing", "committing", "rollback"}
  /\ st.toSession = <<"success">> => st.done
  /\ stream[k].end \in {"offered", "command"} =>
       st.session = stream[k].session /\ st.end = stream[k].end

LEMMA MachineMoves ==
  ASSUME MarketIInv, NEW m \in Machines, NEW k \in Streams, NEW r, NEW st, MachineMove(m, k, r, st)
  PROVE  MarketIInv'
<1> USE DEF MachineMove
<1>1. /\ machine \in [Machines -> [at : MachineStates, on : Streams \union {0}]]
      /\ stream \in [Streams -> StreamStates]
  BY DEF MarketIInv, Market!TypeOK, MachineStates, StreamStates, Orders, Answers
<1>2. /\ machine' \in [Machines -> [at : MachineStates, on : Streams \union {0}]]
      /\ stream' \in [Streams -> StreamStates]
      /\ machine'[m] = r /\ stream'[k] = st
      /\ \A n \in Machines : n # m => machine'[n] = machine[n]
      /\ \A i \in Streams : i # k => stream'[i] = stream[i]
  BY <1>1
<1>3. Market!TypeOK'
  BY <1>2 DEF MarketIInv, Market!TypeOK, MachineStates, StreamStates, Orders, Answers
<1>4. \A n \in Machines : machine[n].at \notin Away =>
        machine[n].on \in Streams /\ Market!On(n).open /\ Market!On(n).machine = n
  BY DEF MarketIInv, Market!OwnEnds, Away
<1>5. ASSUME NEW n \in Machines, machine'[n].at \notin Away
      PROVE  /\ machine'[n].on \in Streams /\ Market!On(n)'.open /\ Market!On(n)'.machine = n
             /\ Honest(machine'[n].at, Market!On(n)', n, disk')
  <2>1. CASE n = m
    BY <1>2, <1>5, <2>1 DEF Market!On
  <2>2. CASE n # m
    <3>1. machine'[n] = machine[n] /\ machine[n].at \notin Away /\ machine[n].on # k
      BY <1>2, <1>5, <2>2
    <3>2. /\ Market!On(n)' = Market!On(n) /\ (n \in disk' <=> n \in disk)
          /\ machine[n].on \in Streams /\ Market!On(n).open /\ Market!On(n).machine = n
      BY <1>2, <1>4, <2>2, <3>1 DEF Market!On
    <3>3. Honest(machine[n].at, Market!On(n), n, disk)
      BY <3>1 DEF MarketIInv, Contracts
    <3> QED BY <3>1, <3>2, <3>3 DEF Honest
  <2> QED BY <2>1, <2>2
<1>6. ASSUME NEW s \in Sessions, session[s].at \in {"offering", "command"}
      PROVE  /\ session[s].on \in Streams
             /\ stream'[session[s].on].session = s
             /\ stream'[session[s].on].end = IF session[s].at = "offering" THEN "offered" ELSE "command"
  <2>1. /\ session[s].on \in Streams
        /\ stream[session[s].on].session = s
        /\ stream[session[s].on].end = IF session[s].at = "offering" THEN "offered" ELSE "command"
    BY <1>6 DEF MarketIInv, Market!OwnEnds, Market!SessionAt
  <2>2. CASE session[s].on = k
    BY <1>2, <2>1, <2>2
  <2>3. CASE session[s].on # k
    BY <1>2, <2>1, <2>3
  <2> QED BY <2>2, <2>3
<1>7. Market!OwnEnds'
  BY <1>5, <1>6 DEF Market!OwnEnds, Market!SessionAt, Away
<1>8. Held'
  <2> SUFFICES ASSUME NEW i \in Streams, stream'[i].open
               PROVE  /\ stream'[i].machine \in Machines
                      /\ machine'[stream'[i].machine].on = i
                      /\ machine'[stream'[i].machine].at \notin Away
    BY DEF Held
  <2>1. CASE i = k
    BY <1>2, <2>1
  <2>2. CASE i # k
    <3>1. stream'[i] = stream[i] /\ stream[i].machine # m /\ stream[i].open
      BY <1>2, <2>2
    <3>2. /\ stream[i].machine \in Machines
          /\ machine[stream[i].machine].on = i
          /\ machine[stream[i].machine].at \notin Away
      BY <3>1 DEF MarketIInv, Held
    <3> QED BY <1>2, <3>1, <3>2
  <2> QED BY <2>1, <2>2
<1>9. Market!NoDiskForgotten'
  BY <1>2 DEF MarketIInv, Market!NoDiskForgotten
<1>10. Market!OkMeansCommitted'
  BY <1>2 DEF MarketIInv, Market!OkMeansCommitted
<1> QED BY <1>3, <1>5, <1>7, <1>8, <1>9, <1>10 DEF MarketIInv, Contracts

LEMMA MarketTypes ==
  ASSUME MarketIInv
  PROVE  /\ machine \in [Machines -> [at : MachineStates, on : Streams \union {0}]]
         /\ session \in [Sessions -> [at : SessionStates, on : Streams \union {0}]]
         /\ stream \in [Streams -> StreamStates]
         /\ gone \subseteq Sessions /\ disk \subseteq Machines /\ crashes \in 0 .. MaxCrashes
BY DEF MarketIInv, Market!TypeOK, MachineStates, SessionStates, StreamStates, Orders, Answers

LEMMA GetSnapshotKeeps ==
  ASSUME MarketIInv, NEW s \in Sessions, Market!GetSnapshot(s) PROVE MarketIInv'
<1>1. stream' = stream /\ session' = [session EXCEPT ![s] = [at |-> "finding", on |-> 0]]
  BY DEF Market!GetSnapshot, Market!SessionTo
<1>2. \A i \in Streams : Kept(stream[i], stream'[i])
  BY <1>1, KeptItself, MarketTypes
<1> QED BY <1>1, <1>2, MarketTypes, SessionMoves DEF Market!GetSnapshot, SessionStates

LEMMA OfferContractKeeps ==
  ASSUME MarketIInv, NEW s \in Sessions, Market!OfferContract(s) PROVE MarketIInv'
<1>1. PICK i \in Market!Of(s, {"queued"}) :
        /\ stream' = [stream EXCEPT ![i].end = "offered",
                                    ![i].toMachine = IF stream[i].open THEN <<"description">> ELSE <<>>]
        /\ session' = [session EXCEPT ![s] = [at |-> "offering", on |-> i]]
  BY DEF Market!OfferContract, Market!SessionTo
<1>2. i \in Streams /\ stream[i].session = s /\ stream[i].end = "queued"
  BY DEF Market!Of
<1>3. PICK st : st = [stream[i] EXCEPT !.end = "offered",
                                       !.toMachine = IF stream[i].open THEN <<"description">> ELSE <<>>]
  OBVIOUS
<1>4. st \in StreamStates /\ Kept(stream[i], st) /\ st.session = s /\ st.end = "offered"
  BY <1>2, <1>3, MarketTypes DEF Kept, StreamStates, Market!Ends, Orders
<1>5. stream' = [stream EXCEPT ![i] = st]
  BY <1>1, <1>2, <1>3, MarketTypes
<1>6. /\ stream' \in [Streams -> StreamStates] /\ stream'[i] = st
      /\ \A j \in Streams : j # i => stream'[j] = stream[j]
  BY <1>2, <1>4, <1>5, MarketTypes
<1>7. /\ \A j \in Streams : Kept(stream[j], stream'[j])
      /\ \A j \in Streams : stream[j].session # s => stream'[j] = stream[j]
  BY <1>2, <1>4, <1>6, KeptItself, MarketTypes
<1> QED BY <1>1, <1>2, <1>4, <1>6, <1>7, MarketTypes, SessionMoves DEF Market!OfferContract, SessionStates

\* Streams that a session closes are its own.
LEMMA SessionCloses ==
  ASSUME MarketIInv, NEW s \in Sessions, UNCHANGED <<machine, gone, disk, crashes>>,
         NEW closed, \A i \in closed \intersect Streams : stream[i].session = s, stream' = Market!Hanging(closed),
         NEW at \in {"ready", "finding", "closed"}, NEW k \in Streams \union {0},
         session' = [session EXCEPT ![s] = [at |-> at, on |-> k]]
  PROVE  MarketIInv'
<1>1. /\ stream' \in [Streams -> StreamStates]
      /\ \A i \in Streams : Kept(stream[i], stream'[i])
      /\ \A i \in Streams : stream[i].session # s => stream'[i] = stream[i]
  BY HangingKeeps, MarketTypes
<1> QED BY <1>1, MarketTypes, SessionMoves DEF SessionStates

LEMMA OwnStream ==
  ASSUME MarketIInv, NEW s \in Sessions, session[s].at \in {"offering", "command"}
  PROVE  session[s].on \in Streams /\ stream[session[s].on].session = s
BY DEF MarketIInv, Market!OwnEnds

LEMMA OfferIgnoredKeeps ==
  ASSUME MarketIInv, NEW s \in Sessions, Market!OfferIgnored(s) PROVE MarketIInv'
<1>1. /\ stream' = Market!Hanging({session[s].on})
      /\ session' = [session EXCEPT ![s] = [at |-> "finding", on |-> 0]]
      /\ session[s].at \in {"offering", "command"} /\ UNCHANGED <<machine, gone, disk, crashes>>
  BY DEF Market!OfferIgnored, Market!SessionTo, Market!SessionAt
<1> QED BY ZenonT(60), <1>1, OwnStream, SessionCloses

LEMMA ContractRejectedKeeps ==
  ASSUME MarketIInv, NEW s \in Sessions, Market!ContractRejected(s) PROVE MarketIInv'
<1>1. /\ stream' = Market!Hanging({session[s].on} \union Market!Of(s, {"queued"}))
      /\ session' = [session EXCEPT ![s] = [at |-> "ready", on |-> 0]]
      /\ session[s].at \in {"offering", "command"} /\ UNCHANGED <<machine, gone, disk, crashes>>
  BY DEF Market!ContractRejected, Market!SessionTo, Market!SessionAt
<1> QED BY <1>1, OwnStream, SessionCloses DEF Market!Of

LEMMA ContractSignedKeeps ==
  ASSUME MarketIInv, NEW s \in Sessions, Market!ContractSigned(s) PROVE MarketIInv'
<1> DEFINE i == session[s].on
           closed == Market!Of(s, {"queued"}) \union {j \in Market!Of(s, {"pending"}) : stream[j].machine = stream[i].machine}
<1>1. /\ stream' = [Market!Hanging(closed) EXCEPT ![i].end = "pending", ![i].toSession = <<>>]
      /\ session' = [session EXCEPT ![s] = [at |-> "ready", on |-> 0]]
      /\ session[s].at = "offering" /\ stream[i].toSession = <<"executing">>
      /\ UNCHANGED <<machine, gone, disk, crashes>>
  BY SMTT(30) DEF Market!ContractSigned, Market!SessionTo, Market!SessionAt, Market!Answer
<1>2. i \in Streams /\ stream[i].session = s /\ stream[i].end = "offered"
  BY <1>1 DEF MarketIInv, Market!OwnEnds, Market!SessionAt
<1>3. i \notin closed /\ \A j \in closed : stream[j].session = s
  BY <1>2 DEF Market!Of
<1>4. /\ Market!Hanging(closed) \in [Streams -> StreamStates]
      /\ \A j \in Streams : Kept(stream[j], Market!Hanging(closed)[j])
      /\ \A j \in Streams \ closed : Market!Hanging(closed)[j] = stream[j]
  BY HangingKeeps, MarketTypes
<1>5. PICK st : st = [stream[i] EXCEPT !.end = "pending", !.toSession = <<>>]
  BY SMTT(30)
<1>6. st \in StreamStates /\ Kept(stream[i], st)
  <2>1. PICK old \in StreamStates : old = stream[i]
    BY SMTT(30), <1>2, MarketTypes
  <2>2. st = [old EXCEPT !.end = "pending", !.toSession = <<>>] /\ old.toSession = <<"executing">>
    BY <1>1, <1>5, <2>1
  <2>3. st \in StreamStates /\ Kept(old, st)
    BY <2>1, <2>2 DEF Kept, StreamStates, Market!Ends, Answers
  <2> QED BY SMTT(30), <2>1, <2>3
<1> HIDE DEF i, closed
<1>7. /\ stream' = [Market!Hanging(closed) EXCEPT ![i] = st]
      /\ stream' \in [Streams -> StreamStates] /\ stream'[i] = st
      /\ \A j \in Streams : j # i => stream'[j] = Market!Hanging(closed)[j]
  BY <1>1, <1>2, <1>3, <1>4, <1>5, <1>6
<1>8. /\ \A j \in Streams : Kept(stream[j], stream'[j])
      /\ \A j \in Streams : stream[j].session # s => stream'[j] = stream[j]
  BY <1>2, <1>3, <1>4, <1>6, <1>7
<1> QED BY ZenonT(60), <1>1, <1>7, <1>8, MarketTypes, SessionMoves DEF SessionStates

LEMMA CloseSessionKeeps ==
  ASSUME MarketIInv, NEW s \in Sessions, Market!CloseSession(s), UNCHANGED <<machine, gone, disk, crashes>>
  PROVE  MarketIInv'
BY SessionCloses DEF Market!CloseSession, Market!Of

LEMMA RequestTimeoutKeeps ==
  ASSUME MarketIInv, NEW s \in Sessions, Market!RequestTimeout(s) PROVE MarketIInv'
BY CloseSessionKeeps DEF Market!RequestTimeout

LEMMA EndSessionKeeps ==
  ASSUME MarketIInv, NEW s \in Sessions, Market!EndSession(s) PROVE MarketIInv'
BY CloseSessionKeeps DEF Market!EndSession

LEMMA UnlockMachineKeeps ==
  ASSUME MarketIInv, NEW s \in Sessions, Market!UnlockMachine(s) PROVE MarketIInv'
<1>1. PICK i \in Market!Of(s, {"pending"}) : stream' = Market!Hanging({i})
  BY DEF Market!UnlockMachine
<1>2. session[s] = [at |-> "ready", on |-> session[s].on] /\ session[s].on \in Streams \union {0}
  BY MarketTypes DEF Market!UnlockMachine, Market!SessionAt
<1>3. session' = [session EXCEPT ![s] = [at |-> "ready", on |-> session[s].on]]
  BY <1>2, MarketTypes DEF Market!UnlockMachine
<1> QED BY <1>1, <1>2, <1>3, SessionCloses DEF Market!UnlockMachine, Market!Of

LEMMA CommitSnapshotKeeps ==
  ASSUME MarketIInv, NEW s \in Sessions, Market!CommitSnapshot(s) PROVE MarketIInv'
<1>1. PICK i \in Market!Of(s, {"pending"}) :
        /\ stream' = [stream EXCEPT ![i].end = "command",
                                    ![i].toMachine = IF stream[i].open THEN <<"commit">> ELSE <<>>]
        /\ session' = [session EXCEPT ![s] = [at |-> "command", on |-> i]]
  BY DEF Market!CommitSnapshot, Market!SessionTo
<1>2. i \in Streams /\ stream[i].session = s /\ stream[i].end = "pending"
  BY DEF Market!Of
<1>3. PICK st : st = [stream[i] EXCEPT !.end = "command",
                                       !.toMachine = IF stream[i].open THEN <<"commit">> ELSE <<>>]
  OBVIOUS
<1>4. st \in StreamStates /\ Kept(stream[i], st) /\ st.session = s /\ st.end = "command"
  BY <1>2, <1>3, MarketTypes DEF Kept, StreamStates, Market!Ends, Orders
<1>5. stream' = [stream EXCEPT ![i] = st]
  BY <1>1, <1>2, <1>3, MarketTypes
<1>6. /\ stream' \in [Streams -> StreamStates] /\ stream'[i] = st
      /\ \A j \in Streams : j # i => stream'[j] = stream[j]
  BY <1>2, <1>4, <1>5, MarketTypes
<1>7. /\ \A j \in Streams : Kept(stream[j], stream'[j])
      /\ \A j \in Streams : stream[j].session # s => stream'[j] = stream[j]
  BY <1>2, <1>4, <1>6, KeptItself, MarketTypes
<1> QED BY <1>1, <1>2, <1>4, <1>6, <1>7, MarketTypes, SessionMoves DEF Market!CommitSnapshot, SessionStates

LEMMA CommitAnsweredKeeps ==
  ASSUME MarketIInv, NEW s \in Sessions, Market!CommitAnswered(s) PROVE MarketIInv'
<1>1. /\ stream' = Market!Hanging({session[s].on})
      /\ session' = [session EXCEPT ![s] = [at |-> "ready", on |-> 0]]
      /\ session[s].at \in {"offering", "command"} /\ UNCHANGED <<machine, gone, disk, crashes>>
  BY DEF Market!CommitAnswered, Market!SessionTo, Market!SessionAt
<1> QED BY <1>1, OwnStream, SessionCloses

LEMMA ClientsKeep ==
  ASSUME MarketIInv, NEW s \in Sessions, Market!ClientLeaves(s) \/ Market!NewSession(s) PROVE MarketIInv'
<1>1. \A i \in Streams : Kept(stream[i], stream[i])
  BY KeptItself, MarketTypes
<1>2. CASE Market!ClientLeaves(s)
  <2>1. /\ session[s] = [at |-> session[s].at, on |-> session[s].on]
        /\ session[s].at \in SessionStates /\ session[s].on \in Streams \union {0}
    BY MarketTypes
  <2>2. session' = [session EXCEPT ![s] = [at |-> session[s].at, on |-> session[s].on]]
    BY <1>2, <2>1, MarketTypes DEF Market!ClientLeaves
  <2>3. session[s].at \in {"offering", "command"} =>
          /\ session[s].on \in Streams /\ stream[session[s].on].session = s
          /\ stream[session[s].on].end = IF session[s].at = "offering" THEN "offered" ELSE "command"
    BY DEF MarketIInv, Market!OwnEnds, Market!SessionAt
  <2>4. gone' \subseteq Sessions /\ UNCHANGED <<machine, stream, disk, crashes>>
    BY <1>2, MarketTypes DEF Market!ClientLeaves
  <2> QED BY <1>1, <2>1, <2>2, <2>3, <2>4, MarketTypes, SessionMoves
<1>3. CASE Market!NewSession(s)
  BY <1>1, <1>3, MarketTypes, SessionMoves DEF Market!NewSession, Market!Ready, SessionStates
<1> QED BY <1>2, <1>3

LEMMA ManagerCrashKeeps ==
  ASSUME MarketIInv, Market!ManagerCrash PROVE MarketIInv'
<1>1. /\ stream' \in [Streams -> StreamStates]
      /\ \A i \in Streams : Kept(stream[i], stream'[i])
  BY HangingKeeps, MarketTypes DEF Market!ManagerCrash
<1>2. /\ \A m \in Machines : machine'[m].at \notin Away =>
           machine'[m].on \in Streams /\ Market!On(m)'.open /\ Market!On(m)'.machine = m
      /\ Held' /\ Contracts' /\ Market!NoDiskForgotten' /\ Market!OkMeansCommitted'
  BY <1>1, StreamsKept DEF Market!ManagerCrash
<1>3. /\ session' \in [Sessions -> [at : SessionStates, on : Streams \union {0}]]
      /\ \A s \in Sessions : session'[s].at = "closed"
  BY DEF Market!ManagerCrash, SessionStates
<1>4. Market!TypeOK'
  BY <1>1, <1>3 DEF Market!ManagerCrash, MarketIInv, Market!TypeOK, SessionStates, StreamStates, Orders, Answers
<1>5. Market!OwnEnds'
  BY <1>2, <1>3 DEF Market!OwnEnds, Away
<1> QED BY <1>2, <1>4, <1>5 DEF MarketIInv

LEMMA ConnectKeeps ==
  ASSUME MarketIInv, NEW m \in Machines, NEW s \in Sessions, Market!Connect(m, s) PROVE MarketIInv'
<1>1. PICK k \in Streams :
        /\ stream[k] = Market!Unused
        /\ stream' = [stream EXCEPT ![k] = [Market!Unused EXCEPT !.session = s, !.machine = m,
                                                                 !.open = TRUE, !.end = "queued"]]
        /\ machine' = [machine EXCEPT ![m] = [at |-> "connected", on |-> k]]
  BY DEF Market!Connect, Market!Free
<1>2. machine[m].at = "search" /\ UNCHANGED <<session, gone, disk, crashes>>
  BY DEF Market!Connect, Market!MachineAt
<1>3. PICK st : st = [Market!Unused EXCEPT !.session = s, !.machine = m, !.open = TRUE, !.end = "queued"]
  OBVIOUS
<1>4. /\ st \in StreamStates /\ st.open /\ st.machine = m /\ ~st.done /\ st.end = "queued"
      /\ st.toSession = <<>>
  BY <1>3 DEF Market!Unused, StreamStates, Market!Ends, Orders, Answers
<1>5. m \notin disk
  BY <1>2 DEF MarketIInv, Market!NoDiskForgotten
<1>6. Honest("connected", st, m, disk)
  BY <1>4, <1>5, Messages DEF Honest, Early
<1>7. \A n \in Machines : n # m /\ machine[n].at \notin Away => machine[n].on # k
  BY <1>1 DEF MarketIInv, Market!OwnEnds, Market!On, Market!Unused, Away
<1>8. \A i \in Streams : i # k /\ stream[i].open => stream[i].machine # m
  BY <1>2 DEF MarketIInv, Held, Away
<1>9. stream[k].end \notin {"offered", "command"}
  BY <1>1 DEF Market!Unused
<1>10. PICK r : r = [at |-> "connected", on |-> k]
  OBVIOUS
<1>11. r \in [at : MachineStates, on : Streams \union {0}] /\ r.at \notin Away /\ r.on = k
       /\ r.at = "connected"
  BY <1>10 DEF MachineStates, Away
<1>12. stream' = [stream EXCEPT ![k] = st] /\ machine' = [machine EXCEPT ![m] = r] /\ UNCHANGED disk
  BY <1>1, <1>2, <1>3, <1>10
<1>13. st.toSession # <<"success">>
  BY <1>4, Messages
<1>14. MachineMove(m, k, r, st)
  BY <1>2, <1>4, <1>5, <1>6, <1>7, <1>8, <1>9, <1>11, <1>12, <1>13, MarketTypes DEF MachineMove
<1> QED BY <1>14, MachineMoves

\* The contractor m with its stream k.
LEMMA AtWork ==
  ASSUME MarketIInv, NEW m \in Machines, machine[m].at \notin Away
  PROVE  \E k \in Streams, old \in StreamStates :
           /\ k = machine[m].on /\ old = stream[k] /\ Market!On(m) = old /\ old.open /\ old.machine = m
           /\ Honest(machine[m].at, old, m, disk)
           /\ \A n \in Machines : n # m /\ machine[n].at \notin Away => machine[n].on # k
           /\ \A i \in Streams : i # k /\ stream[i].open => stream[i].machine # m
           /\ old.toSession = <<"success">> => old.done
<1>1. /\ machine[m].on \in Streams /\ Market!On(m).open /\ Market!On(m).machine = m
      /\ Honest(machine[m].at, Market!On(m), m, disk)
  BY DEF MarketIInv, Market!OwnEnds, Contracts, Away
<1>2. stream[machine[m].on] \in StreamStates
  BY <1>1, MarketTypes
<1>3. \A n \in Machines : n # m /\ machine[n].at \notin Away => machine[n].on # machine[m].on
  BY <1>1 DEF MarketIInv, Market!OwnEnds, Market!On, Away
<1>4. \A i \in Streams : i # machine[m].on /\ stream[i].open => stream[i].machine # m
  BY DEF MarketIInv, Held
<1>5. Market!On(m).toSession = <<"success">> => Market!On(m).done
  BY <1>1 DEF MarketIInv, Market!OkMeansCommitted, Market!On
<1> QED BY <1>1, <1>2, <1>3, <1>4, <1>5 DEF Market!On

\* It goes on with it.
LEMMA GoesOn ==
  ASSUME MarketIInv, NEW m \in Machines, machine[m].at \notin Away, UNCHANGED <<session, gone, crashes>>,
         NEW at \in MachineStates \ Away, machine' = [machine EXCEPT ![m].at = at],
         NEW st \in StreamStates, stream' = [stream EXCEPT ![machine[m].on] = st],
         st.open, st.machine = m, st.session = Market!On(m).session, st.end = Market!On(m).end,
         st.toSession = <<"success">> => st.done,
         disk' \subseteq Machines, \A n \in Machines : n # m => (n \in disk' <=> n \in disk),
         m \in disk' => at \in {"booting", "booted", "executing", "committing"},
         Honest(at, st, m, disk')
  PROVE  MarketIInv'
<1>1. PICK k \in Streams, old \in StreamStates :
           /\ k = machine[m].on /\ old = stream[k] /\ Market!On(m) = old /\ old.open /\ old.machine = m
           /\ \A n \in Machines : n # m /\ machine[n].at \notin Away => machine[n].on # k
           /\ \A i \in Streams : i # k /\ stream[i].open => stream[i].machine # m
  BY AtWork
<1>2. PICK r : r = [at |-> at, on |-> k]
  OBVIOUS
<1>3. r \in [at : MachineStates, on : Streams \union {0}] /\ r.at = at /\ r.on = k
  BY <1>2
<1>4. [machine[m] EXCEPT !.at = at] = r
  <2>1. machine[m] \in [at : MachineStates, on : Streams \union {0}]
    BY MarketTypes
  <2> QED BY <1>1, <1>2, <2>1
<1>5. machine' = [machine EXCEPT ![m] = r]
  BY <1>4, MarketTypes
<1>6. crashes' \in 0 .. MaxCrashes
  BY MarketTypes
<1>7. stream' = [stream EXCEPT ![k] = st]
  BY <1>1
<1>8. MachineMove(m, k, r, st)
  BY <1>1, <1>3, <1>5, <1>6, <1>7 DEF MachineMove
<1> QED BY <1>8, MachineMoves

\* It closes its end.
LEMMA GoesAway ==
  ASSUME MarketIInv, NEW m \in Machines, machine[m].at \notin Away, UNCHANGED <<session, gone>>,
         crashes' \in 0 .. MaxCrashes,
         NEW at \in Away, machine' = [machine EXCEPT ![m] = [at |-> at, on |-> 0]],
         NEW st \in StreamStates, stream' = [stream EXCEPT ![machine[m].on] = st],
         ~st.open, st.toSession = <<"success">> => st.done,
         Market!On(m).end \in {"offered", "command"} => st.session = Market!On(m).session /\ st.end = Market!On(m).end,
         disk' \subseteq Machines, \A n \in Machines : n # m => (n \in disk' <=> n \in disk),
         m \in disk' => at = "rollback"
  PROVE  MarketIInv'
<1>1. PICK k \in Streams, old \in StreamStates :
           /\ k = machine[m].on /\ old = stream[k] /\ Market!On(m) = old
           /\ \A n \in Machines : n # m /\ machine[n].at \notin Away => machine[n].on # k
           /\ \A i \in Streams : i # k /\ stream[i].open => stream[i].machine # m
  BY AtWork
<1>2. PICK r : r = [at |-> at, on |-> 0]
  OBVIOUS
<1>3. r \in [at : MachineStates, on : Streams \union {0}] /\ r.at = at
  BY <1>2 DEF MachineStates, Away
<1>4. machine' = [machine EXCEPT ![m] = r] /\ stream' = [stream EXCEPT ![k] = st]
  BY <1>1, <1>2
<1>5. m \in disk' => r.at \in {"booting", "booted", "executing", "committing", "rollback"}
  BY <1>3
<1>6. MachineMove(m, k, r, st)
  BY <1>1, <1>3, <1>4, <1>5 DEF MachineMove
<1> QED BY <1>6, MachineMoves

\* What is left of a stream.
LEMMA LeftStream ==
  ASSUME NEW st \in StreamStates, st.toSession = <<"success">> => st.done
  PROVE  /\ Market!WithoutMachine(st) \in StreamStates /\ ~Market!WithoutMachine(st).open
         /\ Market!WithoutMachine(st).toSession = <<"success">> => Market!WithoutMachine(st).done
         /\ st.end \in {"offered", "command"} =>
              Market!WithoutMachine(st).session = st.session /\ Market!WithoutMachine(st).end = st.end
         /\ Market!Unused \in StreamStates /\ ~Market!Unused.open /\ Market!Unused.toSession # <<"success">>
BY Messages DEF Market!WithoutMachine, StreamStates, Market!Unused, Market!Ends, Orders, Answers

LEMMA QuitKeeps ==
  ASSUME MarketIInv, NEW m \in Machines, machine[m].at \notin Away, Market!Quit(m), UNCHANGED <<session, gone>>,
         crashes' \in 0 .. MaxCrashes, disk' \subseteq disk, disk \ {m} \subseteq disk', m \notin disk'
  PROVE  MarketIInv'
<1>1. PICK k \in Streams, old \in StreamStates :
        k = machine[m].on /\ old = stream[k] /\ Market!On(m) = old /\ (old.toSession = <<"success">> => old.done)
  BY AtWork
<1>2. stream' = [stream EXCEPT ![k] = Market!WithoutMachine(old)]
  BY <1>1 DEF Market!Quit
<1>3. machine' = [machine EXCEPT ![m] = [at |-> "search", on |-> 0]] /\ "search" \in Away
  BY DEF Market!Quit, Market!Searching, Away
<1> QED BY <1>1, <1>2, <1>3, LeftStream, MarketTypes, GoesAway

LEMMA LeaveKeeps ==
  ASSUME MarketIInv, NEW m \in Machines, machine[m].at \notin Away, Market!Leave(m),
         UNCHANGED <<session, gone, disk, crashes>>
  PROVE  MarketIInv'
<1>1. PICK k \in Streams, old \in StreamStates :
        k = machine[m].on /\ old = stream[k] /\ Market!On(m) = old /\ (old.toSession = <<"success">> => old.done)
  BY AtWork
<1>2. stream' = [stream EXCEPT ![k] = Market!WithoutMachine(old)]
  BY <1>1 DEF Market!Leave
<1>3. machine' = [machine EXCEPT ![m] = [at |-> "rollback", on |-> 0]] /\ "rollback" \in Away
  BY DEF Market!Leave, Away
<1> QED BY <1>1, <1>2, <1>3, LeftStream, MarketTypes, GoesAway

LEMMA ReadDescriptionKeeps ==
  ASSUME MarketIInv, NEW m \in Machines, Market!ReadDescription(m) PROVE MarketIInv'
<1>1. machine[m].at = "connected" /\ machine[m].at \notin Away
  BY DEF Market!ReadDescription, Market!MachineAt, Away
<1>2. PICK k \in Streams, old \in StreamStates :
        /\ k = machine[m].on /\ old = stream[k] /\ Market!On(m) = old /\ old.open /\ old.machine = m
        /\ Honest(machine[m].at, old, m, disk) /\ (old.toSession = <<"success">> => old.done)
  BY <1>1, AtWork
<1>3. PICK st : st = [old EXCEPT !.toMachine = <<>>]
  OBVIOUS
<1>4. /\ st \in StreamStates /\ st.open /\ st.machine = m /\ st.session = old.session
      /\ st.end = old.end /\ st.toSession = old.toSession /\ st.done = old.done
  BY <1>2, <1>3 DEF StreamStates, Orders
<1>5. stream' = [stream EXCEPT ![machine[m].on] = st]
  BY <1>2, <1>3, MarketTypes DEF Market!ReadDescription
<1>6. machine' = [machine EXCEPT ![m].at = "offered"] /\ "offered" \in MachineStates \ Away
  BY DEF Market!ReadDescription, Market!MachineTo, MachineStates, Away
<1>7. Honest("offered", st, m, disk) /\ m \notin disk
  BY <1>1, <1>2, <1>4 DEF Honest, Early, MarketIInv, Market!NoDiskForgotten
<1>8. /\ UNCHANGED <<session, gone, crashes, disk>> /\ disk' \subseteq Machines
      /\ st.session = Market!On(m).session /\ st.end = Market!On(m).end /\ (st.toSession = <<"success">> => st.done)
  BY <1>2, <1>4, MarketTypes DEF Market!ReadDescription
<1> QED BY <1>1, <1>4, <1>5, <1>6, <1>7, <1>8, GoesOn

LEMMA PassByKeeps ==
  ASSUME MarketIInv, NEW m \in Machines, Market!PassBy(m) PROVE MarketIInv'
BY QuitKeeps, MarketTypes DEF Market!PassBy, Away, MarketIInv, Market!NoDiskForgotten

LEMMA RejectKeeps ==
  ASSUME MarketIInv, NEW m \in Machines, Market!Reject(m) PROVE MarketIInv'
<1>1. machine[m].at = "offered" /\ machine[m].at \notin Away
  BY DEF Market!Reject, Market!MachineAt, Away
<1>2. PICK k \in Streams, old \in StreamStates :
        /\ k = machine[m].on /\ old = stream[k] /\ Market!On(m) = old
        /\ (old.toSession = <<"success">> => old.done)
  BY <1>1, AtWork
<1>3. PICK st : st = IF old.end = "closed" THEN Market!Unused
                     ELSE [old EXCEPT !.toSession = <<"rejected">>, !.open = FALSE]
  OBVIOUS
<1>4. /\ st \in StreamStates /\ ~st.open /\ st.toSession # <<"success">>
      /\ old.end \in {"offered", "command"} => st.session = old.session /\ st.end = old.end
  BY <1>2, <1>3, LeftStream, Messages DEF StreamStates, Answers
<1>5. stream' = [stream EXCEPT ![machine[m].on] = st]
  BY <1>2, <1>3, MarketTypes DEF Market!Reject, Market!Send
<1>6. machine' = [machine EXCEPT ![m] = [at |-> "search", on |-> 0]] /\ "search" \in Away /\ m \notin disk
  BY <1>1 DEF Market!Reject, Market!Searching, Away, MarketIInv, Market!NoDiskForgotten
<1> QED BY <1>1, <1>2, <1>4, <1>5, <1>6, MarketTypes, GoesAway DEF Market!Reject

\* Nothing but the disk changes.
LEMMA DiskWork ==
  ASSUME MarketIInv, NEW m \in Machines, Market!MakeSnapshot(m) \/ Market!Boot(m) PROVE MarketIInv'
<1>1. machine[m].at \in {"offered", "booting"} /\ machine[m].at \notin Away
  BY DEF Market!MakeSnapshot, Market!Boot, Market!MachineAt, Away
<1>2. PICK k \in Streams, old \in StreamStates :
        /\ k = machine[m].on /\ old = stream[k] /\ Market!On(m) = old /\ old.open /\ old.machine = m
        /\ Honest(machine[m].at, old, m, disk) /\ (old.toSession = <<"success">> => old.done)
  BY <1>1, AtWork
<1>3. stream' = [stream EXCEPT ![machine[m].on] = old]
  BY <1>2, MarketTypes DEF Market!MakeSnapshot, Market!Boot
<1>4. PICK at \in {"booting", "booted"} : machine' = [machine EXCEPT ![m].at = at]
  BY DEF Market!MakeSnapshot, Market!Boot, Market!MachineTo
<1>5. /\ disk' \subseteq Machines /\ m \in disk' /\ \A n \in Machines : n # m => (n \in disk' <=> n \in disk)
  BY <1>1, <1>2, MarketTypes DEF Market!MakeSnapshot, Market!Boot, Market!MachineAt, Honest, Early
<1>6. Honest(at, old, m, disk')
  BY <1>1, <1>2, <1>4, <1>5 DEF Honest, Early
<1>7. at \in MachineStates \ Away /\ UNCHANGED <<session, gone, crashes>>
  BY <1>4 DEF MachineStates, Away, Market!MakeSnapshot, Market!Boot
<1> QED BY <1>1, <1>2, <1>3, <1>4, <1>5, <1>6, <1>7, MarketTypes, GoesOn

LEMMA AcceptKeeps ==
  ASSUME MarketIInv, NEW m \in Machines, Market!Accept(m) PROVE MarketIInv'
<1>1. machine[m].at = "booted" /\ machine[m].at \notin Away
  BY DEF Market!Accept, Market!MachineAt, Away
<1>2. PICK k \in Streams, old \in StreamStates :
        /\ k = machine[m].on /\ old = stream[k] /\ Market!On(m) = old /\ old.open /\ old.machine = m
        /\ Honest(machine[m].at, old, m, disk)
  BY <1>1, AtWork
<1>3. PICK st : st = [old EXCEPT !.toSession = <<"executing">>]
  OBVIOUS
<1>4. /\ st \in StreamStates /\ st.open /\ st.machine = m /\ st.session = old.session
      /\ st.end = old.end /\ st.toSession # <<"success">> /\ st.done = old.done
  BY <1>2, <1>3, Messages DEF StreamStates, Answers
<1>5. stream' = [stream EXCEPT ![machine[m].on] = st]
  BY <1>2, <1>3, MarketTypes DEF Market!Accept, Market!Send
<1>6. machine' = [machine EXCEPT ![m].at = "executing"] /\ "executing" \in MachineStates \ Away
  BY DEF Market!Accept, Market!MachineTo, MachineStates, Away
<1>7. Honest("executing", st, m, disk)
  BY <1>1, <1>2, <1>4 DEF Honest, Early
<1>8. /\ UNCHANGED <<session, gone, crashes, disk>> /\ disk' \subseteq Machines
      /\ st.session = Market!On(m).session /\ st.end = Market!On(m).end /\ (st.toSession = <<"success">> => st.done)
  BY <1>2, <1>4, MarketTypes DEF Market!Accept
<1> QED BY <1>1, <1>4, <1>5, <1>6, <1>7, <1>8, GoesOn

LEMMA ContractOverKeeps ==
  ASSUME MarketIInv, NEW m \in Machines, Market!ContractOver(m) PROVE MarketIInv'
<1>1. machine[m].at \in {"booted", "executing"} /\ machine[m].at \notin Away
  BY DEF Market!ContractOver, Away
<1>2. Market!On(m).done => m \notin disk
  BY <1>1 DEF MarketIInv, Contracts, Honest
<1> QED BY <1>1, <1>2, QuitKeeps, LeaveKeeps, MarketTypes DEF Market!ContractOver

LEMMA ReadCommandKeeps ==
  ASSUME MarketIInv, NEW m \in Machines, Market!ReadCommand(m) PROVE MarketIInv'
<1>1. machine[m].at = "executing" /\ machine[m].at \notin Away
  BY DEF Market!ReadCommand, Market!MachineAt, Away
<1>2. PICK k \in Streams, old \in StreamStates :
        /\ k = machine[m].on /\ old = stream[k] /\ Market!On(m) = old /\ old.open /\ old.machine = m
        /\ Honest(machine[m].at, old, m, disk) /\ (old.toSession = <<"success">> => old.done)
  BY <1>1, AtWork
<1>3. PICK st : st = [old EXCEPT !.toMachine = <<>>]
  OBVIOUS
<1>4. /\ st \in StreamStates /\ st.open /\ st.machine = m /\ st.session = old.session
      /\ st.end = old.end /\ st.toSession = old.toSession /\ st.done = old.done
  BY <1>2, <1>3 DEF StreamStates, Orders
<1>5. stream' = [stream EXCEPT ![machine[m].on] = st]
  BY <1>2, <1>3, MarketTypes DEF Market!ReadCommand
<1>6. machine' = [machine EXCEPT ![m].at = "committing"] /\ "committing" \in MachineStates \ Away
  BY DEF Market!ReadCommand, Market!MachineTo, MachineStates, Away
<1>7. Honest("committing", st, m, disk)
  BY <1>1, <1>2, <1>4 DEF Honest, Early
<1>8. /\ UNCHANGED <<session, gone, crashes, disk>> /\ disk' \subseteq Machines
      /\ st.session = Market!On(m).session /\ st.end = Market!On(m).end /\ (st.toSession = <<"success">> => st.done)
  BY <1>2, <1>4, MarketTypes DEF Market!ReadCommand
<1> QED BY <1>1, <1>4, <1>5, <1>6, <1>7, <1>8, GoesOn

LEMMA MarketCommitKeeps ==
  ASSUME MarketIInv, NEW m \in Machines, Market!Commit(m) PROVE MarketIInv'
<1>1. machine[m].at = "committing" /\ machine[m].at \notin Away
  BY DEF Market!Commit, Market!MachineAt, Away
<1>2. PICK k \in Streams, old \in StreamStates :
        /\ k = machine[m].on /\ old = stream[k] /\ Market!On(m) = old /\ old.open /\ old.machine = m
  BY <1>1, AtWork
<1>3. PICK st : st = [old EXCEPT !.done = TRUE]
  OBVIOUS
<1>4. /\ st \in StreamStates /\ st.open /\ st.machine = m /\ st.session = old.session
      /\ st.end = old.end /\ st.done
  BY <1>2, <1>3 DEF StreamStates
<1>5. stream' = [stream EXCEPT ![machine[m].on] = st]
  BY <1>2, <1>3, MarketTypes DEF Market!Commit
<1>6. machine' = [machine EXCEPT ![m].at = "committed"] /\ "committed" \in MachineStates \ Away
  BY DEF Market!Commit, Market!MachineTo, MachineStates, Away
<1>7. /\ disk' \subseteq Machines /\ m \notin disk' /\ \A n \in Machines : n # m => (n \in disk' <=> n \in disk)
  BY MarketTypes DEF Market!Commit
<1>8. Honest("committed", st, m, disk')
  BY <1>4, <1>7 DEF Honest, Early
<1> QED BY <1>1, <1>2, <1>4, <1>5, <1>6, <1>7, <1>8, GoesOn DEF Market!Commit

LEMMA CommitFailsKeeps ==
  ASSUME MarketIInv, NEW m \in Machines, Market!CommitFails(m) PROVE MarketIInv'
<1>1. machine[m].at = "committing" /\ machine[m].at \notin Away
  BY DEF Market!CommitFails, Market!MachineAt, Away
<1>2. PICK k \in Streams, old \in StreamStates :
        /\ k = machine[m].on /\ old = stream[k] /\ Market!On(m) = old
        /\ (old.toSession = <<"success">> => old.done)
  BY <1>1, AtWork
<1>3. PICK st : st = IF old.end = "closed" THEN Market!Unused
                     ELSE [old EXCEPT !.toSession = <<"failure">>, !.open = FALSE]
  OBVIOUS
<1>4. /\ st \in StreamStates /\ ~st.open /\ st.toSession # <<"success">>
      /\ old.end \in {"offered", "command"} => st.session = old.session /\ st.end = old.end
  BY <1>2, <1>3, LeftStream, Messages DEF StreamStates, Answers
<1>5. stream' = [stream EXCEPT ![machine[m].on] = st]
  BY <1>2, <1>3, MarketTypes DEF Market!CommitFails, Market!Send
<1>6. machine' = [machine EXCEPT ![m] = [at |-> "rollback", on |-> 0]] /\ "rollback" \in Away
  BY DEF Market!CommitFails, Away
<1> QED BY <1>1, <1>2, <1>4, <1>5, <1>6, MarketTypes, GoesAway DEF Market!CommitFails

LEMMA ReportSuccessKeeps ==
  ASSUME MarketIInv, NEW m \in Machines, Market!ReportSuccess(m) PROVE MarketIInv'
<1>1. machine[m].at = "committed" /\ machine[m].at \notin Away /\ m \notin disk
  BY DEF Market!ReportSuccess, Market!MachineAt, Away, MarketIInv, Market!NoDiskForgotten
<1>2. CASE Market!On(m).end = "closed"
  BY <1>1, <1>2, QuitKeeps, MarketTypes DEF Market!ReportSuccess
<1>3. CASE Market!On(m).end # "closed"
  <2>1. PICK k \in Streams, old \in StreamStates :
        /\ k = machine[m].on /\ old = stream[k] /\ Market!On(m) = old /\ old.open /\ old.machine = m
        /\ Honest(machine[m].at, old, m, disk)
    BY <1>1, AtWork
  <2>2. PICK st : st = [old EXCEPT !.toSession = <<"success">>]
    OBVIOUS
  <2>3. /\ st \in StreamStates /\ st.open /\ st.machine = m /\ st.session = old.session
        /\ st.end = old.end /\ st.done
    BY <1>1, <2>1, <2>2 DEF StreamStates, Answers, Honest
  <2>4. stream' = [stream EXCEPT ![machine[m].on] = st]
    BY <1>3, <2>1, <2>2, MarketTypes DEF Market!ReportSuccess, Market!Send
  <2>5. machine' = [machine EXCEPT ![m].at = "executing"] /\ "executing" \in MachineStates \ Away
    BY <1>3 DEF Market!ReportSuccess, Market!MachineTo, MachineStates, Away
  <2>6. Honest("executing", st, m, disk)
    BY <1>1, <2>3 DEF Honest, Early
  <2>7. /\ UNCHANGED <<session, gone, crashes, disk>> /\ disk' \subseteq Machines
        /\ st.session = Market!On(m).session /\ st.end = Market!On(m).end
    BY <2>1, <2>3, MarketTypes DEF Market!ReportSuccess
  <2> QED BY <1>1, <2>3, <2>4, <2>5, <2>6, <2>7, GoesOn
<1> QED BY <1>2, <1>3

\* A contractor without a stream is done with its disk.
LEMMA RolledBack ==
  ASSUME MarketIInv, NEW m \in Machines, machine[m].at = "rollback", disk' = disk \ {m},
         machine' = [machine EXCEPT ![m] = Market!Searching], UNCHANGED <<session, gone, stream>>,
         crashes' \in 0 .. MaxCrashes
  PROVE  MarketIInv'
<1>1. machine' \in [Machines -> [at : MachineStates, on : Streams \union {0}]] /\ machine'[m].at = "search"
  BY MarketTypes DEF Market!Searching, MachineStates
<1>2. \A n \in Machines : n # m => machine'[n] = machine[n]
  BY MarketTypes
<1>3. Market!TypeOK'
  BY <1>1 DEF MarketIInv, Market!TypeOK, MachineStates
<1>4. Market!OwnEnds'
  BY <1>1, <1>2 DEF MarketIInv, Market!OwnEnds, Market!On, Market!SessionAt
<1>5. Held'
  <2>1. \A i \in Streams : stream[i].open => stream[i].machine # m
    BY DEF MarketIInv, Held, Away
  <2> QED BY <1>2, <2>1 DEF MarketIInv, Held
<1>6. Contracts'
  BY <1>1, <1>2 DEF MarketIInv, Contracts, Market!On, Honest, Away
<1>7. Market!NoDiskForgotten' /\ Market!OkMeansCommitted'
  BY <1>2 DEF MarketIInv, Market!NoDiskForgotten, Market!OkMeansCommitted
<1> QED BY <1>3, <1>4, <1>5, <1>6, <1>7 DEF MarketIInv

LEMMA MarketRollbackKeeps ==
  ASSUME MarketIInv, NEW m \in Machines, Market!Rollback(m) PROVE MarketIInv'
BY RolledBack, MarketTypes DEF Market!Rollback, Market!MachineAt

LEMMA MarketCrashKeeps ==
  ASSUME MarketIInv, NEW m \in Machines, Market!Crash(m), Market!ConstantsAssumption PROVE MarketIInv'
<1>1. crashes' \in 0 .. MaxCrashes /\ disk' = disk \ {m} /\ UNCHANGED <<session, gone>>
  BY MarketTypes DEF Market!Crash, Market!ConstantsAssumption
<1>2. CASE machine[m].at = "rollback"
  BY <1>1, <1>2, RolledBack DEF Market!Crash, Market!MachineAt
<1>3. CASE machine[m].at # "rollback"
  <2>1. machine[m].at \notin Away /\ Market!Quit(m)
    BY <1>3 DEF Market!Crash, Market!MachineAt, Away
  <2> QED BY <1>1, <2>1, QuitKeeps, MarketTypes
<1> QED BY <1>2, <1>3

LEMMA MarketInit == Market!Init /\ Market!ConstantsAssumption => MarketIInv
<1> SUFFICES ASSUME Market!Init, Market!ConstantsAssumption PROVE MarketIInv
  OBVIOUS
<1>1. Market!Unused \in StreamStates
  BY DEF StreamStates, Market!Unused, Market!Ends, Orders, Answers
<1>2. Market!TypeOK
  BY <1>1 DEF Market!Init, Market!TypeOK, StreamStates, Orders, Answers, Market!Searching, Market!Ready, Market!ConstantsAssumption
<1>3. Market!OwnEnds /\ Held /\ Contracts /\ Market!NoDiskForgotten
  BY DEF Market!Init, Market!OwnEnds, Held, Contracts, Market!NoDiskForgotten, Market!Searching, Market!Ready, Market!Unused, Away
<1>4. Market!OkMeansCommitted
  BY Messages DEF Market!Init, Market!OkMeansCommitted, Market!Unused
<1> QED BY <1>2, <1>3, <1>4 DEF MarketIInv

LEMMA MarketStutter == MarketIInv /\ UNCHANGED Market!vars => MarketIInv'
BY DEF Market!vars, MarketIInv, Market!TypeOK, Market!OwnEnds, Held, Contracts, Market!NoDiskForgotten, Market!OkMeansCommitted, Market!On, Market!SessionAt

LEMMA MarketStep == Market!ConstantsAssumption /\ MarketIInv /\ [Market!Next]_(Market!vars) => MarketIInv'
BY MarketStutter, GetSnapshotKeeps, OfferContractKeeps, OfferIgnoredKeeps, ContractRejectedKeeps,
   ContractSignedKeeps, RequestTimeoutKeeps, EndSessionKeeps, UnlockMachineKeeps, CommitSnapshotKeeps,
   CommitAnsweredKeeps, ClientsKeep, ManagerCrashKeeps, ConnectKeeps, ReadDescriptionKeeps, PassByKeeps,
   RejectKeeps, DiskWork, AcceptKeeps, ContractOverKeeps, ReadCommandKeeps, MarketCommitKeeps, CommitFailsKeeps,
   ReportSuccessKeeps, MarketRollbackKeeps, MarketCrashKeeps DEF Market!Next, Market!MachineStep, Market!SessionStep

---------------------------------------------------------------------------
(* The storage of snapshots *)

RootStates == {"prune", "leaf", "mkdir", "open", "locked"}

RootInv == \A p \in Contractors : proc[p].pc \in RootStates <=> storageRoot = p

\* A directory without subdirectories, which a pending one never has.
IsLeaf(d) ==
  d[2] = "final" =>
    \A t \in Storage!Children(d[1]) : dirs[Storage!Tmp(t)] = "none" /\ dirs[Storage!Final(t)] = "none"

\* What a process that is at r relies on: its descriptor is of a directory that is there; a
\* path still means that directory, if it means one; no leaf has become a parent.
Fits(r, p) ==
  /\ r.fd # Storage!Gone => dirs[r.fd] # "none"
  /\ r.pc \in {"prune", "leaf"} => \A d \in r.leafs : IsLeaf(d)
  /\ r.pc = "leaf" =>
       /\ r.path \in Storage!Dirs /\ IsLeaf(r.path)
       /\ dirs[r.path] # "none" => r.fd = r.path
       /\ r.path[2] = "final" => dirs[r.path] # "none"
  /\ r.pc \in {"open", "locked"} =>
       /\ r.fd \in {Storage!Tmp(r.snapshot), Storage!Final(r.snapshot), Storage!Gone}
       /\ dirs[Storage!Tmp(r.snapshot)] # "none" => r.fd = Storage!Tmp(r.snapshot)
  /\ r.pc = "locked" /\ r.fd = Storage!Tmp(r.snapshot) => locker[r.fd] = p
  /\ r.pc \in {"check", "making"} =>
       /\ r.fd = Storage!Tmp(r.snapshot)
       /\ dirs[Storage!Tmp(r.snapshot)] = "disk" /\ locker[Storage!Tmp(r.snapshot)] = p
  /\ r.pc = "making" => dirs[Storage!Final(r.snapshot)] = "none"
  /\ r.pc = "unlock" => r.fd \in {Storage!Final(r.snapshot), Storage!Gone}

ProcInv == \A p \in Contractors : Fits(proc[p], p)

\* Nobody but the process that is about to write the disk locks an empty directory.
EmptyInv ==
  \A s \in Snapshots : dirs[Storage!Tmp(s)] = "empty" =>
    \A p \in Contractors : locker[Storage!Tmp(s)] = p => Storage!At(p, "locked") /\ Storage!Target(p) = s

\* A disk that nobody makes, or a directory in which nobody is about to make one.
Deserted(s) ==
  \/ /\ dirs[Storage!Tmp(s)] = "disk"
     /\ \A p \in Contractors : Storage!Target(p) = s => ~Storage!Making(p)
  \/ /\ dirs[Storage!Tmp(s)] = "empty"
     /\ \A p \in Contractors : Storage!Target(p) = s => proc[p].pc \notin {"mkdir", "open", "locked"}
Leftovers == {s \in Snapshots : Deserted(s)}

CountInv == Storage!IsFiniteSet(Leftovers) /\ Storage!Cardinality(Leftovers) <= storageCrashes

StorageIInv == Storage!TypeOK /\ RootInv /\ ProcInv /\ Storage!ChainComplete /\ EmptyInv /\ CountInv

LEMMA DirFacts ==
  ASSUME Storage!ConstantsAssumption
  PROVE  /\ \A s \in Snapshots : Storage!Tmp(s) \in Storage!Dirs /\ Storage!Final(s) \in Storage!Dirs
         /\ \A d \in Storage!Dirs : d[1] \in Snapshots /\ (d = Storage!Tmp(d[1]) \/ d = Storage!Final(d[1]))
         /\ \A s, t : Storage!Tmp(s) # Storage!Final(t) /\ (Storage!Tmp(s) = Storage!Tmp(t) <=> s = t) /\ (Storage!Final(s) = Storage!Final(t) <=> s = t)
         /\ \A s : Storage!Tmp(s)[1] = s /\ Storage!Final(s)[1] = s /\ Storage!Tmp(s)[2] # "final" /\ Storage!Final(s)[2] = "final"
         /\ Storage!Gone \notin Storage!Dirs
         /\ \A s \in Snapshots : Storage!Tmp(s) # Storage!Gone /\ Storage!Final(s) # Storage!Gone
BY DEF Storage!ConstantsAssumption, Storage!Dirs, Storage!Tmp, Storage!Final, Storage!Gone

ProcStates == [pc : Storage!States, snapshot : Snapshots, leafs : SUBSET Storage!Dirs,
               path : Storage!Dirs \union {Storage!Gone}, fd : Storage!Dirs \union {Storage!Gone}]

LEMMA StorageTypes ==
  ASSUME StorageIInv
  PROVE  /\ dirs \in [Storage!Dirs -> {"none", "empty", "disk"}]
         /\ locker \in [Storage!Dirs -> Contractors \union {None}]
         /\ storageRoot \in Contractors \union {None}
         /\ proc \in [Contractors -> ProcStates]
         /\ \A s \in Snapshots : dirs[Storage!Final(s)] # "empty"
         /\ \A d \in Storage!Dirs : dirs[d] = "none" => locker[d] = None
         /\ storageCrashes \in 0 .. MaxCrashes
BY DEF StorageIInv, Storage!TypeOK, ProcStates

LEMMA StorageIInvSafe == Storage!ConstantsAssumption /\ StorageIInv => Storage!Safety
<1> SUFFICES ASSUME Storage!ConstantsAssumption, StorageIInv PROVE Storage!Safety
  OBVIOUS
<1>1. Storage!MakerOwnsDisk
  BY DEF StorageIInv, ProcInv, Fits, Storage!MakerOwnsDisk, Storage!Making, Storage!Target, Storage!At
<1>2. Storage!LeftoversAreCrashes
  <2> DEFINE L == {s \in Snapshots : /\ dirs[Storage!Tmp(s)] # "none"
                                     /\ \A p \in Contractors :
                                          Storage!Target(p) = s => proc[p].pc \notin {"mkdir", "open", "locked"}
                                                                   /\ ~Storage!Making(p)}
  <2>1. L \subseteq Leftovers
    BY StorageTypes, DirFacts DEF Leftovers, Deserted
  <2>2. Storage!IsFiniteSet(L) /\ Storage!Cardinality(L) <= Storage!Cardinality(Leftovers)
    BY <2>1, FS_Subset, StorageCardinality DEF StorageIInv, CountInv
  <2>3. Storage!Cardinality(L) \in Nat /\ Storage!Cardinality(Leftovers) \in Nat /\ storageCrashes \in Int
    BY <2>2, FS_CardinalityType, StorageTypes, StorageCardinality DEF StorageIInv, CountInv
  <2>4. Storage!Cardinality(L) <= storageCrashes
    BY <2>2, <2>3 DEF StorageIInv, CountInv
  <2> QED BY <2>4 DEF Storage!LeftoversAreCrashes
<1> QED BY <1>1, <1>2 DEF StorageIInv, Storage!Safety

\* Fewer directories are deserted, or one more after a crash.
LEMMA CountKept ==
  ASSUME StorageIInv, Leftovers' \subseteq Leftovers, UNCHANGED storageCrashes
  PROVE  CountInv'
<1>1. Storage!IsFiniteSet(Leftovers') /\ Storage!Cardinality(Leftovers') <= Storage!Cardinality(Leftovers)
  BY FS_Subset, StorageCardinality DEF StorageIInv, CountInv
<1>2. Storage!Cardinality(Leftovers') \in Nat /\ Storage!Cardinality(Leftovers) \in Nat /\ storageCrashes \in Int
  BY <1>1, FS_CardinalityType, StorageTypes, StorageCardinality DEF StorageIInv, CountInv
<1>3. Storage!Cardinality(Leftovers') <= storageCrashes
  BY <1>1, <1>2 DEF StorageIInv, CountInv
<1> QED BY <1>1, <1>3 DEF CountInv

LEMMA CountCrash ==
  ASSUME StorageIInv, NEW s, Leftovers' \subseteq Leftovers \union {s}, storageCrashes' = storageCrashes + 1
  PROVE  CountInv'
<1>1. Storage!IsFiniteSet(Leftovers \union {s}) /\ Storage!Cardinality(Leftovers \union {s}) <= Storage!Cardinality(Leftovers) + 1
  <2>1. Storage!IsFiniteSet(Leftovers) /\ Storage!Cardinality(Leftovers) \in Nat
    BY FS_CardinalityType, StorageCardinality DEF StorageIInv, CountInv
  <2> QED BY <2>1, FS_AddElement, StorageCardinality
<1>2. Storage!IsFiniteSet(Leftovers') /\ Storage!Cardinality(Leftovers') <= Storage!Cardinality(Leftovers \union {s})
  BY <1>1, FS_Subset, StorageCardinality
<1>3. /\ Storage!Cardinality(Leftovers') \in Nat /\ Storage!Cardinality(Leftovers) \in Nat /\ storageCrashes \in Int
      /\ Storage!Cardinality(Leftovers \union {s}) \in Nat
  BY <1>1, <1>2, FS_CardinalityType, StorageTypes, StorageCardinality DEF StorageIInv, CountInv
<1>4. Storage!Cardinality(Leftovers') <= storageCrashes + 1
  BY <1>1, <1>2, <1>3 DEF StorageIInv, CountInv
<1> QED BY <1>2, <1>4 DEF CountInv

LEMMA AllFit ==
  ASSUME \A q \in Contractors : \A x : x = proc'[q] => Fits(x, q)'
  PROVE  ProcInv'
BY DEF ProcInv, Fits, IsLeaf

\* A process moves on from its place to r, and no directory changes.
Moves(p, r) ==
  /\ r \in ProcStates /\ proc' = [proc EXCEPT ![p] = r]
  /\ UNCHANGED <<dirs, locker, storageCrashes>>
  /\ storageRoot' \in Contractors \union {None}
  /\ storageRoot' # storageRoot => storageRoot \in {p, None} /\ storageRoot' \in {p, None}
  /\ r.pc \in RootStates <=> storageRoot' = p
  /\ Fits(r, p)
  /\ proc[p].pc = "locked" => dirs[Storage!Tmp(proc[p].snapshot)] # "empty"
  /\ Storage!Making(p) => r.pc \in {"check", "making"} /\ r.snapshot = proc[p].snapshot
  /\ proc[p].pc \in {"mkdir", "open"} =>
       \/ dirs[Storage!Tmp(proc[p].snapshot)] # "empty"
       \/ r.pc \in {"open", "locked"} /\ r.snapshot = proc[p].snapshot

LEMMA MovesKeep ==
  ASSUME Storage!ConstantsAssumption, StorageIInv, NEW p \in Contractors, NEW r, Moves(p, r)
  PROVE  StorageIInv'
<1> USE DEF Moves
<1>0. /\ proc \in [Contractors -> ProcStates] /\ proc' \in [Contractors -> ProcStates]
      /\ proc'[p] = r /\ \A q \in Contractors : q # p => proc'[q] = proc[q]
  BY StorageTypes
<1>1. Storage!TypeOK'
  BY <1>0 DEF StorageIInv, Storage!TypeOK, ProcStates
<1>2. RootInv'
  <2> SUFFICES ASSUME NEW q \in Contractors PROVE proc'[q].pc \in RootStates <=> storageRoot' = q
    BY DEF RootInv
  <2>1. None \notin Contractors /\ (proc[q].pc \in RootStates <=> storageRoot = q)
    BY DEF Storage!ConstantsAssumption, StorageIInv, RootInv
  <2> QED BY <1>0, <2>1
<1>3. ProcInv'
  <2> SUFFICES ASSUME NEW q \in Contractors, NEW x, x = proc'[q] PROVE Fits(x, q)'
    BY AllFit
  <2>1. Fits(x, q)
    BY <1>0 DEF StorageIInv, ProcInv
  <2>2. dirs' = dirs /\ locker' = locker
    OBVIOUS
  <2> QED BY <2>1, <2>2 DEF Fits, IsLeaf
<1>4. Storage!ChainComplete'
  BY DEF StorageIInv, Storage!ChainComplete
<1>5. EmptyInv'
  BY <1>0 DEF StorageIInv, EmptyInv, Storage!At, Storage!Target
<1>6. Leftovers' \subseteq Leftovers
  <2> SUFFICES ASSUME NEW s \in Snapshots, Deserted(s)' PROVE Deserted(s)
    BY DEF Leftovers
  <2>1. CASE dirs[Storage!Tmp(s)] = "disk"
    BY <1>0, <2>1 DEF Deserted, Storage!Target, Storage!Making
  <2>2. CASE dirs[Storage!Tmp(s)] = "empty"
    BY <1>0, <2>2 DEF Deserted, Storage!Target
  <2> QED BY <2>1, <2>2 DEF Deserted
<1>7. CountInv'
  BY <1>6, CountKept
<1> QED BY <1>1, <1>2, <1>3, <1>4, <1>5, <1>7 DEF StorageIInv

\* What a process is at, as a record, and what it relies on.
LEMMA Place ==
  ASSUME StorageIInv, NEW p \in Contractors
  PROVE  \E old \in ProcStates :
           /\ old = proc[p] /\ Fits(old, p) /\ (old.pc \in RootStates <=> storageRoot = p)
           /\ (Storage!Making(p) <=> old.pc \in {"check", "making"}) /\ Storage!Target(p) = old.snapshot
BY StorageTypes DEF StorageIInv, ProcInv, RootInv, Storage!Making, Storage!Target

\* The contract of p is over.
LEMMA LeaveMoves ==
  ASSUME Storage!ConstantsAssumption, StorageIInv, NEW p \in Contractors, Storage!Leave(p), ~Storage!Making(p),
         UNCHANGED <<dirs, locker, storageCrashes>>,
         \/ proc[p].pc \notin RootStates /\ UNCHANGED storageRoot
         \/ proc[p].pc \in RootStates /\ storageRoot' = None,
         proc[p].pc \in {"mkdir", "open", "locked"} => dirs[Storage!Tmp(Storage!Target(p))] # "empty"
  PROVE  StorageIInv'
<1>1. PICK old \in ProcStates :
        /\ old = proc[p] /\ Fits(old, p) /\ (old.pc \in RootStates <=> storageRoot = p) /\ Storage!Target(p) = old.snapshot
  BY Place
<1>2. PICK r : r = Storage!Idle(old.snapshot)
  OBVIOUS
<1>3. /\ r \in ProcStates /\ r.pc = "idle" /\ r.fd = Storage!Gone /\ r.leafs = {}
  BY <1>2 DEF Storage!Idle, ProcStates, Storage!States
<1>4. proc' = [proc EXCEPT ![p] = r]
  BY <1>1, <1>2 DEF Storage!Leave
<1>5. Fits(r, p)
  BY <1>3 DEF Fits
<1>6. None \notin Contractors /\ storageRoot \in Contractors \union {None}
  BY StorageTypes DEF Storage!ConstantsAssumption
<1>7. Moves(p, r)
  BY <1>1, <1>3, <1>4, <1>5, <1>6 DEF Moves, RootStates
<1> QED BY <1>7, MovesKeep

LEMMA RequestKeeps ==
  ASSUME Storage!ConstantsAssumption, StorageIInv, NEW p \in Contractors, NEW s \in Snapshots, Storage!Request(p, s)
  PROVE  StorageIInv'
<1>1. PICK old \in ProcStates : old = proc[p] /\ (old.pc \in RootStates <=> storageRoot = p)
  BY Place
<1>2. PICK r : r = [Storage!Idle(s) EXCEPT !.pc = "asked"]
  OBVIOUS
<1>3. r \in ProcStates /\ r.pc = "asked" /\ r.fd = Storage!Gone
  BY <1>2 DEF Storage!Idle, ProcStates, Storage!States
<1>4. Fits(r, p)
  BY <1>3 DEF Fits
<1>5. proc[p].pc = "idle" /\ UNCHANGED <<dirs, locker, storageRoot, storageCrashes>> /\ proc' = [proc EXCEPT ![p] = r]
  BY <1>2 DEF Storage!Request, Storage!At
<1>6. Moves(p, r)
  BY <1>1, <1>3, <1>4, <1>5, StorageTypes DEF Moves, RootStates, Storage!Making
<1> QED BY <1>6, MovesKeep

LEMMA CollectLeafsKeeps ==
  ASSUME Storage!ConstantsAssumption, StorageIInv, NEW p \in Contractors, Storage!CollectLeafs(p)
  PROVE  StorageIInv'
<1>1. PICK old \in ProcStates : old = proc[p] /\ Fits(old, p)
  BY Place
<1>2. PICK r : r = [old EXCEPT !.pc = "prune", !.leafs = Storage!Leafs]
  OBVIOUS
<1>3. /\ r \in ProcStates /\ r.pc = "prune" /\ r.fd = old.fd /\ r.leafs = Storage!Leafs
  BY <1>2 DEF ProcStates, Storage!States, Storage!Leafs
<1>4. Fits(r, p)
  BY <1>1, <1>3 DEF Fits, Storage!Leafs, IsLeaf
<1>5. /\ proc[p].pc = "asked" /\ UNCHANGED <<dirs, locker, storageCrashes>> /\ storageRoot = None /\ storageRoot' = p
      /\ proc' = [proc EXCEPT ![p] = r]
  BY <1>1, <1>2 DEF Storage!CollectLeafs, Storage!At
<1>6. Moves(p, r)
  BY <1>3, <1>4, <1>5 DEF Moves, RootStates, Storage!Making
<1> QED BY <1>6, MovesKeep

\* The loop of prune() goes on with the same directories.
LEMMA PruneMoves ==
  ASSUME Storage!ConstantsAssumption, StorageIInv, NEW p \in Contractors, proc[p].pc \in {"prune", "leaf"},
         NEW r \in ProcStates, proc' = [proc EXCEPT ![p] = r], UNCHANGED <<dirs, locker, storageRoot, storageCrashes>>,
         r.pc \in {"prune", "leaf"}, Fits(r, p)
  PROVE  StorageIInv'
<1>1. proc[p].pc \in RootStates <=> storageRoot = p
  BY Place
<1>2. Moves(p, r)
  BY <1>1, StorageTypes DEF Moves, RootStates, Storage!Making
<1> QED BY <1>2, MovesKeep

LEMMA KeepLeafKeeps ==
  ASSUME Storage!ConstantsAssumption, StorageIInv, NEW p \in Contractors, NEW d \in Storage!Dirs, Storage!KeepLeaf(p, d)
  PROVE  StorageIInv'
<1>1. PICK old \in ProcStates : old = proc[p] /\ Fits(old, p)
  BY Place
<1>2. PICK r : r = [old EXCEPT !.leafs = @ \ {d}]
  OBVIOUS
<1>3. old.pc = "prune" /\ proc' = [proc EXCEPT ![p] = r]
  BY <1>1, <1>2 DEF Storage!KeepLeaf, Storage!At
<1>4. r \in ProcStates /\ r.pc = "prune" /\ r.fd = old.fd /\ r.leafs \subseteq old.leafs
  BY <1>2, <1>3 DEF ProcStates
<1>5. Fits(r, p)
  BY <1>1, <1>3, <1>4 DEF Fits
<1> QED BY <1>1, <1>3, <1>4, <1>5, PruneMoves DEF Storage!KeepLeaf

LEMMA OpenLeafKeeps ==
  ASSUME Storage!ConstantsAssumption, StorageIInv, NEW p \in Contractors, NEW d \in Storage!Dirs, Storage!OpenLeaf(p, d)
  PROVE  StorageIInv'
<1>1. PICK old \in ProcStates : old = proc[p] /\ Fits(old, p)
  BY Place
<1>2. PICK r : r = [old EXCEPT !.pc = "leaf", !.leafs = @ \ {d}, !.path = d, !.fd = d]
  OBVIOUS
<1>3. old.pc = "prune" /\ d \in old.leafs /\ dirs[d] # "none" /\ proc' = [proc EXCEPT ![p] = r]
  BY <1>1, <1>2 DEF Storage!OpenLeaf, Storage!At
<1>4. /\ r \in ProcStates /\ r.pc = "leaf" /\ r.fd = d /\ r.path = d /\ r.leafs \subseteq old.leafs
  BY <1>2, <1>3 DEF ProcStates, Storage!States
<1>5. Fits(r, p)
  BY <1>1, <1>3, <1>4 DEF Fits
<1> QED BY <1>1, <1>3, <1>4, <1>5, PruneMoves DEF Storage!OpenLeaf

LEMMA SkipLockedLeafKeeps ==
  ASSUME Storage!ConstantsAssumption, StorageIInv, NEW p \in Contractors, Storage!SkipLockedLeaf(p)
  PROVE  StorageIInv'
<1>1. PICK old \in ProcStates : old = proc[p] /\ Fits(old, p)
  BY Place
<1>2. PICK r : r = [old EXCEPT !.pc = "prune", !.path = Storage!Gone, !.fd = Storage!Gone]
  OBVIOUS
<1>3. old.pc = "leaf" /\ proc' = [proc EXCEPT ![p] = r]
  BY <1>1, <1>2 DEF Storage!SkipLockedLeaf, Storage!At
<1>4. r \in ProcStates /\ r.pc = "prune" /\ r.fd = Storage!Gone /\ r.leafs = old.leafs
  BY <1>2 DEF ProcStates, Storage!States
<1>5. Fits(r, p)
  BY <1>1, <1>3, <1>4 DEF Fits
<1> QED BY <1>1, <1>3, <1>4, <1>5, PruneMoves DEF Storage!SkipLockedLeaf

LEMMA RemoveMissingLeafKeeps ==
  ASSUME Storage!ConstantsAssumption, StorageIInv, NEW p \in Contractors, Storage!RemoveMissingLeaf(p)
  PROVE  StorageIInv'
BY LeaveMoves DEF Storage!RemoveMissingLeaf, Storage!LeaveRoot, Storage!At, RootStates, Storage!Making

LEMMA EndPruneKeeps ==
  ASSUME Storage!ConstantsAssumption, StorageIInv, NEW p \in Contractors, Storage!EndPrune(p)
  PROVE  StorageIInv'
<1>1. PICK old \in ProcStates : old = proc[p] /\ Fits(old, p) /\ (old.pc \in RootStates <=> storageRoot = p)
  BY Place
<1>2. PICK r : r = [old EXCEPT !.pc = "pruned"]
  OBVIOUS
<1>3. /\ old.pc = "prune" /\ proc' = [proc EXCEPT ![p] = r] /\ storageRoot' = None
      /\ UNCHANGED <<dirs, locker, storageCrashes>>
  BY <1>1, <1>2 DEF Storage!EndPrune, Storage!At, Storage!Goto
<1>4. r \in ProcStates /\ r.pc = "pruned" /\ r.fd = old.fd
  BY <1>2 DEF ProcStates, Storage!States
<1>5. Fits(r, p)
  BY <1>1, <1>3, <1>4 DEF Fits
<1>6. Moves(p, r)
  BY <1>1, <1>3, <1>4, <1>5 DEF Moves, RootStates, Storage!Making, Storage!ConstantsAssumption
<1> QED BY <1>6, MovesKeep

LEMMA ParentNotExistKeeps ==
  ASSUME Storage!ConstantsAssumption, StorageIInv, NEW p \in Contractors, Storage!ParentNotExist(p)
  PROVE  StorageIInv'
BY LeaveMoves DEF Storage!ParentNotExist, Storage!At, RootStates, Storage!Making

LEMMA OpenDirKeeps ==
  ASSUME Storage!ConstantsAssumption, StorageIInv, NEW p \in Contractors, Storage!OpenDir(p)
  PROVE  StorageIInv'
<1>1. CASE dirs[Storage!Tmp(Storage!Target(p))] = "none"
  BY <1>1, LeaveMoves DEF Storage!OpenDir, Storage!LeaveRoot, Storage!At, RootStates, Storage!Making
<1>2. CASE dirs[Storage!Tmp(Storage!Target(p))] # "none"
  <2>1. PICK old \in ProcStates :
          /\ old = proc[p] /\ Fits(old, p) /\ (old.pc \in RootStates <=> storageRoot = p) /\ Storage!Target(p) = old.snapshot
    BY Place
  <2>2. PICK r : r = [old EXCEPT !.pc = "open", !.fd = Storage!Tmp(old.snapshot), !.path = Storage!Tmp(old.snapshot)]
    OBVIOUS
  <2>3. /\ old.pc = "mkdir" /\ proc' = [proc EXCEPT ![p] = r]
        /\ UNCHANGED <<dirs, locker, storageRoot, storageCrashes>>
    BY <1>2, <2>1, <2>2 DEF Storage!OpenDir, Storage!At
  <2>4. /\ r \in ProcStates /\ r.pc = "open" /\ r.fd = Storage!Tmp(r.snapshot) /\ r.snapshot = old.snapshot
    BY <2>2, DirFacts DEF ProcStates, Storage!States
  <2>5. Fits(r, p)
    BY <1>2, <2>1, <2>4 DEF Fits
  <2>6. Moves(p, r)
    BY <2>1, <2>3, <2>4, <2>5, StorageTypes DEF Moves, RootStates, Storage!Making
  <2> QED BY <2>6, MovesKeep
<1> QED BY <1>1, <1>2

LEMMA AlreadyLockedKeeps ==
  ASSUME Storage!ConstantsAssumption, StorageIInv, NEW p \in Contractors, Storage!AlreadyLocked(p)
  PROVE  StorageIInv'
<1>1. PICK old \in ProcStates :
        /\ old = proc[p] /\ Fits(old, p) /\ (old.pc \in RootStates <=> storageRoot = p) /\ Storage!Target(p) = old.snapshot
  BY Place
<1>2. old.pc = "open" /\ storageRoot = p
  BY <1>1 DEF Storage!AlreadyLocked, Storage!At, RootStates
<1>3. ASSUME dirs[Storage!Tmp(old.snapshot)] = "empty" PROVE FALSE
  <2>1. old.fd = Storage!Tmp(old.snapshot) /\ old.snapshot \in Snapshots
    BY <1>1, <1>2, <1>3 DEF Fits, ProcStates
  <2>2. locker[Storage!Tmp(old.snapshot)] # None /\ Storage!Tmp(old.snapshot) \in Storage!Dirs
    BY <1>1, <2>1, DirFacts DEF Storage!AlreadyLocked, Storage!Locked
  <2>3. PICK q \in Contractors : locker[Storage!Tmp(old.snapshot)] = q
    BY <2>2, StorageTypes
  <2>4. proc[q].pc = "locked"
    BY <1>3, <2>1, <2>3 DEF StorageIInv, EmptyInv, Storage!At
  <2>5. q = p
    BY <1>2, <2>4 DEF StorageIInv, RootInv, RootStates
  <2> QED BY <1>1, <1>2, <2>4, <2>5
<1>4. ~Storage!Making(p)
  BY <1>1, <1>2 DEF Storage!Making
<1> QED BY <1>1, <1>2, <1>3, <1>4, LeaveMoves DEF Storage!AlreadyLocked, Storage!LeaveRoot, RootStates

LEMMA DiskExistsKeeps ==
  ASSUME Storage!ConstantsAssumption, StorageIInv, NEW p \in Contractors, Storage!DiskExists(p)
  PROVE  StorageIInv'
BY LeaveMoves DEF Storage!DiskExists, Storage!LeaveRoot, Storage!At, RootStates, Storage!Making

LEMMA DirNotExistKeeps ==
  ASSUME Storage!ConstantsAssumption, StorageIInv, NEW p \in Contractors, Storage!DirNotExist(p)
  PROVE  StorageIInv'
BY LeaveMoves DEF Storage!DirNotExist, Storage!LeaveRoot, Storage!At, RootStates, Storage!Making

LEMMA ChildNotExistKeeps ==
  ASSUME Storage!ConstantsAssumption, StorageIInv, NEW p \in Contractors, Storage!ChildNotExist(p)
  PROVE  StorageIInv'
<1>1. PICK old \in ProcStates :
        /\ old = proc[p] /\ Fits(old, p) /\ (old.pc \in RootStates <=> storageRoot = p) /\ Storage!Target(p) = old.snapshot
  BY Place
<1>2. PICK r : r = [old EXCEPT !.pc = "making"]
  OBVIOUS
<1>3. /\ old.pc = "check" /\ proc' = [proc EXCEPT ![p] = r]
      /\ UNCHANGED <<dirs, locker, storageRoot, storageCrashes>> /\ dirs[Storage!Final(old.snapshot)] # "disk"
  BY <1>1, <1>2 DEF Storage!ChildNotExist, Storage!At, Storage!Goto
<1>4. r \in ProcStates /\ r.pc = "making" /\ r.fd = old.fd /\ r.snapshot = old.snapshot
  BY <1>2 DEF ProcStates, Storage!States
<1>5. dirs[Storage!Final(old.snapshot)] = "none"
  BY <1>3, StorageTypes, DirFacts DEF ProcStates
<1>6. Fits(r, p)
  BY <1>1, <1>3, <1>4, <1>5 DEF Fits
<1>7. Moves(p, r)
  BY <1>1, <1>3, <1>4, <1>6, StorageTypes DEF Moves, RootStates
<1> QED BY <1>7, MovesKeep

\* Steps that change directories or locks.

\* The descriptors follow a directory that p moves or removes.
Followed(p, d, new, r) ==
  /\ proc' \in [Contractors -> ProcStates] /\ proc'[p] = r
  /\ \A q \in Contractors : q # p =>
       /\ proc'[q].pc = proc[q].pc /\ proc'[q].snapshot = proc[q].snapshot
       /\ proc'[q].leafs = proc[q].leafs /\ proc'[q].path = proc[q].path
       /\ proc'[q].fd = IF proc[q].fd = d THEN new ELSE proc[q].fd

LEMMA FollowIt ==
  ASSUME proc \in [Contractors -> ProcStates], NEW p \in Contractors, NEW d \in Storage!Dirs,
         NEW new \in Storage!Dirs \union {Storage!Gone}, NEW r \in ProcStates, proc' = [Storage!Follow(d, new) EXCEPT ![p] = r]
  PROVE  Followed(p, d, new, r)
<1>1. PICK f : f = Storage!Follow(d, new)
  OBVIOUS
<1>2. \A q \in Contractors : f[q] = IF proc[q].fd = d THEN [proc[q] EXCEPT !.fd = new] ELSE proc[q]
  BY <1>1 DEF Storage!Follow
<1>3. ASSUME NEW q \in Contractors
      PROVE  /\ f[q] \in ProcStates
             /\ f[q].pc = proc[q].pc /\ f[q].snapshot = proc[q].snapshot
             /\ f[q].leafs = proc[q].leafs /\ f[q].path = proc[q].path
             /\ f[q].fd = IF proc[q].fd = d THEN new ELSE proc[q].fd
  <2>1. PICK x \in ProcStates : x = proc[q]
    OBVIOUS
  <2>2. f[q] = IF x.fd = d THEN [x EXCEPT !.fd = new] ELSE x
    BY <1>2, <2>1
  <2> QED BY <2>1, <2>2 DEF ProcStates
<1>4. f \in [Contractors -> ProcStates]
  <2>1. f = [q \in Contractors |-> f[q]]
    BY <1>1 DEF Storage!Follow
  <2> QED BY <1>3, <2>1
<1>5. proc' = [f EXCEPT ![p] = r]
  BY <1>1
<1>6. proc' \in [Contractors -> ProcStates] /\ proc'[p] = r /\ \A q \in Contractors : q # p => proc'[q] = f[q]
  BY <1>4, <1>5
<1> QED BY <1>3, <1>6 DEF Followed

\* p removes a directory that is nobody else's, and in which there is no other.
Removes(p, d, r) ==
  /\ dirs[d] # "none" /\ locker[d] \in {p, None}
  /\ dirs' = [dirs EXCEPT ![d] = "none"] /\ locker' = [locker EXCEPT ![d] = None]
  /\ Followed(p, d, Storage!Gone, r)
  /\ \/ storageRoot = p /\ IsLeaf(d)
     \/ d[2] # "final"
  /\ proc[p].pc \notin {"mkdir", "open", "locked"}
  /\ Storage!Making(p) => d = Storage!Tmp(Storage!Target(p))
  /\ r.pc \in RootStates <=> storageRoot = p
  /\ UNCHANGED <<storageRoot, storageCrashes>>

LEMMA RemovesKeep ==
  ASSUME Storage!ConstantsAssumption, StorageIInv, NEW p \in Contractors, NEW d \in Storage!Dirs, NEW r \in ProcStates,
         Removes(p, d, r), Fits(r, p)'
  PROVE  StorageIInv'
<1> USE DEF Removes, Followed
<1>1. PICK old \in ProcStates : old = proc[p] /\ Fits(old, p) /\ (old.pc \in RootStates <=> storageRoot = p)
  BY Place
<1>5. /\ \A e \in Storage!Dirs : dirs'[e] = IF e = d THEN "none" ELSE dirs[e]
      /\ \A e \in Storage!Dirs : locker'[e] = IF e = d THEN None ELSE locker[e]
      /\ dirs' \in [Storage!Dirs -> {"none", "empty", "disk"}] /\ locker' \in [Storage!Dirs -> Contractors \union {None}]
  BY StorageTypes
<1>10. Storage!TypeOK'
  BY <1>5, StorageTypes, DirFacts DEF Storage!TypeOK, ProcStates
<1>11. RootInv'
  BY DEF StorageIInv, RootInv
<1>12. \A e \in Storage!Dirs : IsLeaf(e) => IsLeaf(e)'
  BY <1>5, DirFacts DEF IsLeaf, Storage!Children
<1>13. ProcInv'
  <2> SUFFICES ASSUME NEW q \in Contractors, NEW x, x = proc'[q] PROVE Fits(x, q)'
    BY AllFit
  <2>1. CASE q = p
    BY <2>1
  <2>2. CASE q # p
    <3>1. PICK y \in ProcStates : y = proc[q] /\ Fits(y, q) /\ (y.pc \in RootStates <=> storageRoot = q)
      BY Place
    <3>2. /\ x \in ProcStates /\ x.pc = y.pc /\ x.snapshot = y.snapshot /\ x.leafs = y.leafs /\ x.path = y.path
          /\ x.fd = IF y.fd = d THEN Storage!Gone ELSE y.fd
      BY <2>2, <3>1
    <3>3. y.pc \in RootStates => d[2] # "final"
      BY <2>2, <3>1
    <3>4. y.snapshot \in Snapshots /\ Storage!Tmp(y.snapshot) \in Storage!Dirs /\ Storage!Final(y.snapshot) \in Storage!Dirs
      BY DirFacts DEF ProcStates
    <3>5. y.pc \in {"check", "making"} => Storage!Tmp(y.snapshot) # d
      BY <2>2, <3>1 DEF Fits, Storage!ConstantsAssumption
    <3>6. x.fd # Storage!Gone => dirs'[x.fd] # "none"
      BY <1>5, <3>1, <3>2 DEF Fits, ProcStates
    <3>7. x.pc \in {"prune", "leaf"} => \A e \in x.leafs : IsLeaf(e)'
      BY <1>12, <3>1, <3>2 DEF Fits, ProcStates
    <3>8. x.pc = "leaf" =>
            /\ x.path \in Storage!Dirs /\ IsLeaf(x.path)'
            /\ dirs'[x.path] # "none" => x.fd = x.path
            /\ x.path[2] = "final" => dirs'[x.path] # "none"
      BY <1>5, <1>12, <3>1, <3>2, <3>3 DEF Fits, RootStates
    <3> QED BY <1>5, <3>1, <3>2, <3>4, <3>5, <3>6, <3>7, <3>8, DirFacts DEF Fits
  <2> QED BY <2>1, <2>2
<1>14. Storage!ChainComplete'
  <2> SUFFICES ASSUME NEW s \in Snapshots, dirs'[Storage!Tmp(s)] # "none" \/ dirs'[Storage!Final(s)] # "none"
               PROVE  Storage!InRoot(s) \/ dirs'[Storage!Final(Parent[s])] = "disk"
    BY DEF Storage!ChainComplete
  <2>1. dirs[Storage!Tmp(s)] # "none" \/ dirs[Storage!Final(s)] # "none"
    BY <1>5, DirFacts
  <2>2. CASE Storage!InRoot(s)
    BY <2>2
  <2>3. CASE ~Storage!InRoot(s)
    <3>1. Parent[s] \in Snapshots /\ dirs[Storage!Final(Parent[s])] = "disk"
      BY <2>1, <2>3 DEF StorageIInv, Storage!ChainComplete, Storage!InRoot, Storage!ConstantsAssumption
    <3>2. d # Storage!Final(Parent[s])
      BY <2>1, <3>1, DirFacts DEF IsLeaf, Storage!Children
    <3> QED BY <1>5, <3>1, <3>2, DirFacts
  <2> QED BY <2>2, <2>3
<1>15. EmptyInv'
  <2> SUFFICES ASSUME NEW s \in Snapshots, dirs'[Storage!Tmp(s)] = "empty",
                      NEW q \in Contractors, locker'[Storage!Tmp(s)] = q
               PROVE  proc'[q].pc = "locked" /\ proc'[q].snapshot = s
    BY DEF EmptyInv, Storage!At, Storage!Target
  <2>1. Storage!Tmp(s) # d /\ dirs[Storage!Tmp(s)] = "empty" /\ locker[Storage!Tmp(s)] = q
    BY <1>5, DirFacts
  <2>2. proc[q].pc = "locked" /\ proc[q].snapshot = s
    BY <2>1 DEF StorageIInv, EmptyInv, Storage!At, Storage!Target
  <2> QED BY <2>2
<1>16. Leftovers' \subseteq Leftovers
  <2> SUFFICES ASSUME NEW s \in Snapshots, Deserted(s)' PROVE Deserted(s)
    BY DEF Leftovers
  <2>1. Storage!Tmp(s) # d /\ dirs[Storage!Tmp(s)] = dirs'[Storage!Tmp(s)]
    BY <1>5, DirFacts DEF Deserted
  <2>2. \A q \in Contractors : q # p => proc'[q].pc = proc[q].pc /\ proc'[q].snapshot = proc[q].snapshot
    OBVIOUS
  <2>3. Storage!Making(p) => Storage!Target(p) # s
    BY <2>1
  <2> QED BY <2>1, <2>2, <2>3 DEF Deserted, Storage!Making, Storage!Target
<1>17. CountInv'
  BY <1>16, CountKept
<1> QED BY <1>10, <1>11, <1>13, <1>14, <1>15, <1>17 DEF StorageIInv

LEMMA RemoveLeafKeeps ==
  ASSUME Storage!ConstantsAssumption, StorageIInv, NEW p \in Contractors, Storage!RemoveLeaf(p)
  PROVE  StorageIInv'
<1>1. PICK old \in ProcStates : old = proc[p] /\ Fits(old, p) /\ (old.pc \in RootStates <=> storageRoot = p)
  BY Place
<1>2. PICK d : d = old.path
  OBVIOUS
<1>3. /\ old.pc = "leaf" /\ d \in Storage!Dirs /\ dirs[d] # "none" /\ storageRoot = p /\ IsLeaf(d)
      /\ locker[d] = None
  <2>1. old.pc = "leaf" /\ dirs[d] # "none"
    BY <1>1, <1>2 DEF Storage!RemoveLeaf, Storage!At
  <2>2. d \in Storage!Dirs /\ old.fd = d /\ storageRoot = p /\ IsLeaf(d)
    BY <1>1, <1>2, <2>1 DEF Fits, RootStates
  <2>3. locker[d] = None
    BY <1>1, <2>2, DirFacts DEF Storage!RemoveLeaf, Storage!Locked
  <2> QED BY <2>1, <2>2, <2>3
<1>4. /\ dirs' = [dirs EXCEPT ![d] = "none"] /\ locker' = [locker EXCEPT ![d] = None]
      /\ proc' = [Storage!Follow(d, Storage!Gone) EXCEPT ![p].pc = "prune", ![p].path = Storage!Gone, ![p].fd = Storage!Gone]
      /\ UNCHANGED <<storageRoot, storageCrashes>>
  BY <1>1, <1>2 DEF Storage!RemoveLeaf, Storage!Remove
<1>5. PICK r : r = [old EXCEPT !.pc = "prune", !.path = Storage!Gone, !.fd = Storage!Gone]
  OBVIOUS
<1>6. r \in ProcStates /\ r.pc = "prune" /\ r.fd = Storage!Gone /\ r.leafs = old.leafs
  BY <1>5 DEF ProcStates, Storage!States
<1>7. proc' = [Storage!Follow(d, Storage!Gone) EXCEPT ![p] = r]
  <2>1. Storage!Follow(d, Storage!Gone)[p] = IF old.fd = d THEN [old EXCEPT !.fd = Storage!Gone] ELSE old
    BY <1>1 DEF Storage!Follow
  <2>2. PICK f : f = Storage!Follow(d, Storage!Gone)
    OBVIOUS
  <2>3. [f[p] EXCEPT !.pc = "prune", !.path = Storage!Gone, !.fd = Storage!Gone] = r
    BY <1>5, <2>1, <2>2 DEF ProcStates
  <2>4. DOMAIN f = Contractors
    BY <2>2 DEF Storage!Follow
  <2> QED BY <1>4, <2>2, <2>3, <2>4
<1>8. Followed(p, d, Storage!Gone, r)
  BY <1>3, <1>6, <1>7, FollowIt, StorageTypes
<1>9. Removes(p, d, r)
  BY <1>1, <1>3, <1>4, <1>6, <1>8 DEF Removes, RootStates, Storage!Making
<1>10. \A e \in Storage!Dirs : IsLeaf(e) => IsLeaf(e)'
  <2>1. \A e \in Storage!Dirs : dirs'[e] = IF e = d THEN "none" ELSE dirs[e]
    BY <1>4, StorageTypes
  <2> QED BY <2>1, DirFacts DEF IsLeaf, Storage!Children
<1>11. Fits(r, p)'
  BY <1>1, <1>3, <1>6, <1>10 DEF Fits, ProcStates
<1> QED BY <1>3, <1>6, <1>9, <1>11, RemovesKeep

\* The maker of a snapshot removes its pending directory.
LEMMA MakerRemoves ==
  ASSUME Storage!ConstantsAssumption, StorageIInv, NEW p \in Contractors, Storage!Making(p), Storage!Remove(Storage!Tmp(Storage!Target(p))),
         NEW r \in ProcStates, proc' = [Storage!Follow(Storage!Tmp(Storage!Target(p)), Storage!Gone) EXCEPT ![p] = r],
         r.fd = Storage!Gone, r.pc \in {"idle", "unlock"}, UNCHANGED <<storageRoot, storageCrashes>>
  PROVE  StorageIInv'
<1>1. PICK old \in ProcStates :
        /\ old = proc[p] /\ Fits(old, p) /\ (old.pc \in RootStates <=> storageRoot = p) /\ Storage!Target(p) = old.snapshot
        /\ old.pc \in {"check", "making"}
  BY Place
<1>2. PICK d : d = Storage!Tmp(Storage!Target(p))
  OBVIOUS
<1>3. d \in Storage!Dirs /\ dirs[d] = "disk" /\ locker[d] = p /\ d[2] # "final"
  BY <1>1, <1>2, DirFacts DEF Fits, ProcStates
<1>4. Followed(p, d, Storage!Gone, r)
  BY <1>2, <1>3, FollowIt, StorageTypes
<1>5. Removes(p, d, r)
  BY <1>1, <1>2, <1>3, <1>4 DEF Removes, Storage!Remove, RootStates
<1>6. Fits(r, p)'
  BY DEF Fits
<1> QED BY <1>3, <1>5, <1>6, RemovesKeep

LEMMA ChildExistsKeeps ==
  ASSUME Storage!ConstantsAssumption, StorageIInv, NEW p \in Contractors, Storage!ChildExists(p)
  PROVE  StorageIInv'
<1>1. PICK r : r = Storage!Idle(Storage!Target(p))
  OBVIOUS
<1>2. r \in ProcStates /\ r.fd = Storage!Gone /\ r.pc = "idle"
  BY <1>1, StorageTypes DEF Storage!Idle, ProcStates, Storage!States, Storage!Target
<1>3. Storage!Making(p)
  BY DEF Storage!ChildExists, Storage!At, Storage!Making
<1> QED BY <1>1, <1>2, <1>3, MakerRemoves DEF Storage!ChildExists

LEMMA StorageRollbackKeeps ==
  ASSUME Storage!ConstantsAssumption, StorageIInv, NEW p \in Contractors, Storage!Rollback(p)
  PROVE  StorageIInv'
<1>1. PICK old \in ProcStates :
        old = proc[p] /\ Fits(old, p) /\ Storage!Target(p) = old.snapshot /\ old.pc = "making"
  BY Place DEF Storage!Rollback, Storage!At
<1>2. PICK r : r = [old EXCEPT !.pc = "unlock", !.fd = Storage!Gone]
  OBVIOUS
<1>3. r \in ProcStates /\ r.fd = Storage!Gone /\ r.pc = "unlock"
  BY <1>2 DEF ProcStates, Storage!States
<1>4. PICK f : f = Storage!Follow(Storage!Tmp(Storage!Target(p)), Storage!Gone)
  OBVIOUS
<1>5. DOMAIN f = Contractors /\ f[p] = [old EXCEPT !.fd = Storage!Gone]
  BY <1>1, <1>4 DEF Storage!Follow, Fits
<1>6. [f[p] EXCEPT !.pc = "unlock"] = r
  BY <1>2, <1>5 DEF ProcStates
<1>7. proc' = [f EXCEPT ![p] = r]
  BY <1>4, <1>5, <1>6 DEF Storage!Rollback
<1>8. Storage!Making(p)
  BY <1>1 DEF Storage!Making
<1> QED BY <1>3, <1>4, <1>7, <1>8, MakerRemoves DEF Storage!Rollback

LEMMA StorageCommitKeeps ==
  ASSUME Storage!ConstantsAssumption, StorageIInv, NEW p \in Contractors, Storage!Commit(p)
  PROVE  StorageIInv'
<1>1. PICK old \in ProcStates :
        old = proc[p] /\ Fits(old, p) /\ (old.pc \in RootStates <=> storageRoot = p) /\ Storage!Target(p) = old.snapshot
        /\ old.pc = "making"
  BY Place DEF Storage!Commit, Storage!At
<1>2. PICK t \in Snapshots : t = Storage!Target(p)
  BY <1>1 DEF ProcStates
<1>3. /\ dirs[Storage!Tmp(t)] = "disk" /\ dirs[Storage!Final(t)] = "none" /\ locker[Storage!Tmp(t)] = p /\ old.fd = Storage!Tmp(t)
      /\ Storage!Tmp(t) \in Storage!Dirs /\ Storage!Final(t) \in Storage!Dirs /\ Storage!Tmp(t) # Storage!Final(t)
  BY <1>1, <1>2, DirFacts DEF Fits
<1>4. /\ dirs' = [dirs EXCEPT ![Storage!Final(t)] = dirs[Storage!Tmp(t)], ![Storage!Tmp(t)] = "none"]
      /\ locker' = [locker EXCEPT ![Storage!Final(t)] = locker[Storage!Tmp(t)], ![Storage!Tmp(t)] = None]
      /\ proc' = [Storage!Follow(Storage!Tmp(t), Storage!Final(t)) EXCEPT ![p].pc = "unlock"]
      /\ UNCHANGED <<storageRoot, storageCrashes>>
  BY <1>2 DEF Storage!Commit
<1>5. /\ \A e \in Storage!Dirs : dirs'[e] = IF e = Storage!Tmp(t) THEN "none" ELSE IF e = Storage!Final(t) THEN "disk" ELSE dirs[e]
      /\ \A e \in Storage!Dirs : locker'[e] = IF e = Storage!Tmp(t) THEN None ELSE IF e = Storage!Final(t) THEN p ELSE locker[e]
      /\ dirs' \in [Storage!Dirs -> {"none", "empty", "disk"}] /\ locker' \in [Storage!Dirs -> Contractors \union {None}]
  BY <1>3, <1>4, StorageTypes
<1>6. PICK r : r = [old EXCEPT !.pc = "unlock", !.fd = Storage!Final(t)]
  OBVIOUS
<1>7. r \in ProcStates /\ r.fd = Storage!Final(t) /\ r.pc = "unlock" /\ r.snapshot = t
  BY <1>1, <1>2, <1>3, <1>6 DEF ProcStates, Storage!States
<1>8. Followed(p, Storage!Tmp(t), Storage!Final(t), r)
  <2>1. PICK f : f = Storage!Follow(Storage!Tmp(t), Storage!Final(t))
    OBVIOUS
  <2>2. DOMAIN f = Contractors /\ f[p] = [old EXCEPT !.fd = Storage!Final(t)]
    BY <1>1, <1>3, <2>1 DEF Storage!Follow
  <2>3. [f[p] EXCEPT !.pc = "unlock"] = r
    BY <1>6, <2>2 DEF ProcStates
  <2>4. proc' = [f EXCEPT ![p] = r]
    BY <1>4, <2>1, <2>2, <2>3
  <2> QED BY <1>3, <1>7, <2>1, <2>4, FollowIt, StorageTypes
<1> USE DEF Followed
<1>9. Storage!TypeOK'
  <2>1. \A s \in Snapshots : dirs'[Storage!Final(s)] # "empty"
    BY <1>5, StorageTypes, DirFacts
  <2>2. \A d \in Storage!Dirs : dirs'[d] = "none" => locker'[d] = None
    BY <1>3, <1>5, StorageTypes
  <2>3. storageRoot' \in Contractors \union {None} /\ storageCrashes' \in 0 .. MaxCrashes
    BY <1>4, StorageTypes
  <2>4. proc' \in [Contractors -> ProcStates]
    BY <1>8
  <2> QED BY <1>5, <2>1, <2>2, <2>3, <2>4 DEF Storage!TypeOK, ProcStates
<1>10. RootInv'
  BY <1>1, <1>4, <1>7, <1>8 DEF StorageIInv, RootInv, RootStates
<1>11. \A e \in Storage!Dirs : IsLeaf(e) => IsLeaf(e)'
  <2> SUFFICES ASSUME NEW e \in Storage!Dirs, IsLeaf(e), e[2] = "final", NEW u \in Storage!Children(e[1])
               PROVE  dirs'[Storage!Tmp(u)] = "none" /\ dirs'[Storage!Final(u)] = "none"
    BY DEF IsLeaf, Storage!Children
  <2>1. dirs[Storage!Tmp(u)] = "none" /\ dirs[Storage!Final(u)] = "none" /\ u \in Snapshots
    BY DEF IsLeaf, Storage!Children
  <2>2. u # t
    BY <1>3, <2>1
  <2> QED BY <1>5, <2>1, <2>2, DirFacts
<1>12. ProcInv'
  <2> SUFFICES ASSUME NEW q \in Contractors, NEW x, x = proc'[q] PROVE Fits(x, q)'
    BY AllFit
  <2>1. CASE q = p
    BY <1>3, <1>5, <1>7, <1>8, <2>1 DEF Fits
  <2>2. CASE q # p
    <3>1. PICK y \in ProcStates : y = proc[q] /\ Fits(y, q)
      BY Place
    <3>2. /\ x \in ProcStates /\ x.pc = y.pc /\ x.snapshot = y.snapshot /\ x.leafs = y.leafs /\ x.path = y.path
          /\ x.fd = IF y.fd = Storage!Tmp(t) THEN Storage!Final(t) ELSE y.fd
      BY <1>8, <2>2, <3>1
    <3>3. y.snapshot \in Snapshots /\ Storage!Tmp(y.snapshot) \in Storage!Dirs /\ Storage!Final(y.snapshot) \in Storage!Dirs
      BY DirFacts DEF ProcStates
    <3>4. y.pc \in {"check", "making"} => y.snapshot # t
      BY <1>3, <2>2, <3>1 DEF Fits
    <3>5. x.fd # Storage!Gone => dirs'[x.fd] # "none"
      BY <1>3, <1>5, <3>1, <3>2 DEF Fits, ProcStates
    <3>6. x.pc \in {"prune", "leaf"} => \A e \in x.leafs : IsLeaf(e)'
      BY <1>11, <3>1, <3>2 DEF Fits, ProcStates
    <3>7. x.pc = "leaf" =>
            /\ x.path \in Storage!Dirs /\ IsLeaf(x.path)'
            /\ dirs'[x.path] # "none" => x.fd = x.path
            /\ x.path[2] = "final" => dirs'[x.path] # "none"
      <4> SUFFICES ASSUME y.pc = "leaf"
                   PROVE  /\ x.path \in Storage!Dirs /\ IsLeaf(x.path)'
                          /\ dirs'[x.path] # "none" => x.fd = x.path
                          /\ x.path[2] = "final" => dirs'[x.path] # "none"
        BY <3>2
      <4>1. /\ y.path \in Storage!Dirs /\ IsLeaf(y.path) /\ (dirs[y.path] # "none" => y.fd = y.path)
            /\ (y.path[2] = "final" => dirs[y.path] # "none")
        BY <3>1 DEF Fits
      <4>2. y.path # Storage!Final(t)
        BY <1>3, <4>1, DirFacts
      <4>3. CASE y.path = Storage!Tmp(t)
        BY <1>5, <1>11, <3>2, <4>1, <4>3, DirFacts
      <4>4. CASE y.path # Storage!Tmp(t)
        BY <1>5, <1>11, <3>2, <4>1, <4>2, <4>4
      <4> QED BY <4>3, <4>4
    <3>8. CASE y.snapshot = t
      BY <1>3, <1>5, <3>1, <3>2, <3>3, <3>4, <3>5, <3>6, <3>7, <3>8, DirFacts DEF Fits
    <3>9. CASE y.snapshot # t
      BY <1>3, <1>5, <3>1, <3>2, <3>3, <3>5, <3>6, <3>7, <3>9, DirFacts DEF Fits
    <3> QED BY <3>8, <3>9
  <2> QED BY <2>1, <2>2
<1>13. Storage!ChainComplete'
  <2> SUFFICES ASSUME NEW s \in Snapshots, dirs'[Storage!Tmp(s)] # "none" \/ dirs'[Storage!Final(s)] # "none"
               PROVE  Storage!InRoot(s) \/ dirs'[Storage!Final(Parent[s])] = "disk"
    BY DEF Storage!ChainComplete
  <2>1. dirs[Storage!Tmp(s)] # "none" \/ dirs[Storage!Final(s)] # "none"
    BY <1>3, <1>5, DirFacts
  <2>2. CASE Storage!InRoot(s)
    BY <2>2
  <2>3. CASE ~Storage!InRoot(s)
    <3>1. Parent[s] \in Snapshots /\ dirs[Storage!Final(Parent[s])] = "disk"
      BY <2>1, <2>3 DEF StorageIInv, Storage!ChainComplete, Storage!InRoot, Storage!ConstantsAssumption
    <3> QED BY <1>5, <3>1, DirFacts
  <2> QED BY <2>2, <2>3
<1>14. EmptyInv'
  <2> SUFFICES ASSUME NEW s \in Snapshots, dirs'[Storage!Tmp(s)] = "empty",
                      NEW q \in Contractors, locker'[Storage!Tmp(s)] = q
               PROVE  proc'[q].pc = "locked" /\ proc'[q].snapshot = s
    BY DEF EmptyInv, Storage!At, Storage!Target
  <2>1. dirs[Storage!Tmp(s)] = "empty" /\ locker[Storage!Tmp(s)] = q
    BY <1>5, DirFacts
  <2>2. proc[q].pc = "locked" /\ proc[q].snapshot = s
    BY <2>1 DEF StorageIInv, EmptyInv, Storage!At, Storage!Target
  <2> QED BY <1>1, <1>8, <2>2
<1>15. Leftovers' \subseteq Leftovers
  <2> SUFFICES ASSUME NEW s \in Snapshots, Deserted(s)' PROVE Deserted(s)
    BY DEF Leftovers
  <2>1. s # t /\ dirs[Storage!Tmp(s)] = dirs'[Storage!Tmp(s)]
    BY <1>5, DirFacts DEF Deserted
  <2>2. \A q \in Contractors : q # p => proc'[q].pc = proc[q].pc /\ proc'[q].snapshot = proc[q].snapshot
    BY <1>8
  <2> QED BY <1>2, <2>1, <2>2 DEF Deserted, Storage!Making, Storage!Target
<1>16. CountInv'
  BY <1>4, <1>15, CountKept
<1> QED BY <1>9, <1>10, <1>12, <1>13, <1>14, <1>16 DEF StorageIInv

LEMMA MakeDirKeeps ==
  ASSUME Storage!ConstantsAssumption, StorageIInv, NEW p \in Contractors, Storage!MakeDir(p)
  PROVE  StorageIInv'
<1>1. PICK old \in ProcStates :
        old = proc[p] /\ Fits(old, p) /\ Storage!Target(p) = old.snapshot /\ old.pc = "pruned"
  BY Place DEF Storage!MakeDir, Storage!At
<1>2. PICK t \in Snapshots : t = Storage!Target(p)
  BY <1>1 DEF ProcStates
<1>3. PICK r : r = [old EXCEPT !.pc = "mkdir"]
  OBVIOUS
<1>4. r \in ProcStates /\ r.pc = "mkdir" /\ r.fd = old.fd /\ r.snapshot = t
  BY <1>1, <1>2, <1>3 DEF ProcStates, Storage!States
<1>5. /\ proc' = [proc EXCEPT ![p] = r] /\ storageRoot = None /\ storageRoot' = p /\ UNCHANGED <<locker, storageCrashes>>
      /\ dirs' = [dirs EXCEPT ![Storage!Tmp(t)] = IF @ = "none" THEN "empty" ELSE @] /\ Storage!ParentExists(t)
  BY <1>1, <1>2, <1>3 DEF Storage!MakeDir, Storage!Goto
<1>6. /\ Storage!Tmp(t) \in Storage!Dirs
      /\ \A e \in Storage!Dirs : dirs'[e] = IF e = Storage!Tmp(t) /\ dirs[e] = "none" THEN "empty" ELSE dirs[e]
      /\ dirs' \in [Storage!Dirs -> {"none", "empty", "disk"}]
  BY <1>5, StorageTypes, DirFacts
<1>7. /\ proc' \in [Contractors -> ProcStates] /\ proc'[p] = r
      /\ \A q \in Contractors : q # p => proc'[q] = proc[q]
  BY <1>4, <1>5, StorageTypes
<1>8. Storage!TypeOK'
  <2>1. \A s \in Snapshots : dirs'[Storage!Final(s)] # "empty"
    BY <1>6, StorageTypes, DirFacts
  <2>2. \A d \in Storage!Dirs : dirs'[d] = "none" => locker'[d] = None
    BY <1>5, <1>6, StorageTypes
  <2>3. storageRoot' \in Contractors \union {None} /\ storageCrashes' \in 0 .. MaxCrashes
        /\ locker' \in [Storage!Dirs -> Contractors \union {None}]
    BY <1>5, StorageTypes
  <2> QED BY <1>6, <1>7, <2>1, <2>2, <2>3 DEF Storage!TypeOK, ProcStates
<1>9. \A q \in Contractors : proc[q].pc \notin RootStates
  BY <1>5 DEF StorageIInv, RootInv, Storage!ConstantsAssumption
<1>10. RootInv'
  BY <1>4, <1>5, <1>7, <1>9 DEF RootInv, RootStates
<1>11. ProcInv'
  <2> SUFFICES ASSUME NEW q \in Contractors, NEW x, x = proc'[q] PROVE Fits(x, q)'
    BY AllFit
  <2>1. CASE q = p
    BY <1>1, <1>4, <1>6, <1>7, <2>1 DEF Fits, ProcStates
  <2>2. CASE q # p
    <3>1. PICK y \in ProcStates : y = proc[q] /\ Fits(y, q)
      BY Place
    <3>2. x = y /\ y.pc \notin RootStates /\ Storage!Tmp(y.snapshot) \in Storage!Dirs /\ Storage!Final(y.snapshot) \in Storage!Dirs
      BY <1>7, <1>9, <2>2, <3>1, DirFacts DEF ProcStates
    <3> QED BY <1>5, <1>6, <3>1, <3>2, DirFacts DEF Fits, RootStates, ProcStates
  <2> QED BY <2>1, <2>2
<1>12. Storage!ChainComplete'
  <2> SUFFICES ASSUME NEW s \in Snapshots, dirs'[Storage!Tmp(s)] # "none" \/ dirs'[Storage!Final(s)] # "none"
               PROVE  Storage!InRoot(s) \/ dirs'[Storage!Final(Parent[s])] = "disk"
    BY DEF Storage!ChainComplete
  <2>1. CASE s = t
    <3>1. Storage!InRoot(s) \/ (Parent[s] \in Snapshots /\ dirs[Storage!Final(Parent[s])] # "none")
      BY <1>5, <2>1 DEF Storage!ParentExists, Storage!InRoot, Storage!ConstantsAssumption
    <3> QED BY <1>6, <3>1, StorageTypes, DirFacts
  <2>2. CASE s # t
    <3>1. dirs[Storage!Tmp(s)] # "none" \/ dirs[Storage!Final(s)] # "none"
      BY <1>6, <2>2, DirFacts
    <3>2. Storage!InRoot(s) \/ (Parent[s] \in Snapshots /\ dirs[Storage!Final(Parent[s])] = "disk")
      BY <3>1 DEF StorageIInv, Storage!ChainComplete, Storage!InRoot, Storage!ConstantsAssumption
    <3> QED BY <1>6, <3>2, DirFacts
  <2> QED BY <2>1, <2>2
<1>13. EmptyInv'
  <2> SUFFICES ASSUME NEW s \in Snapshots, dirs'[Storage!Tmp(s)] = "empty",
                      NEW q \in Contractors, locker'[Storage!Tmp(s)] = q
               PROVE  FALSE
    BY DEF EmptyInv
  <2>1. locker[Storage!Tmp(s)] = q /\ Storage!Tmp(s) \in Storage!Dirs
    BY <1>5, DirFacts
  <2>2. dirs[Storage!Tmp(s)] = "empty"
    BY <1>6, <2>1, StorageTypes DEF Storage!ConstantsAssumption
  <2> QED BY <1>9, <2>1, <2>2 DEF StorageIInv, EmptyInv, Storage!At, RootStates
<1>14. Leftovers' \subseteq Leftovers
  <2> SUFFICES ASSUME NEW s \in Snapshots, Deserted(s)' PROVE Deserted(s)
    BY DEF Leftovers
  <2>1. CASE s = t
    <3>1. dirs'[Storage!Tmp(s)] # "empty"
      BY <1>4, <1>7, <2>1 DEF Deserted, Storage!Target
    <3>2. dirs[Storage!Tmp(s)] = "disk"
      BY <1>6, <2>1, <3>1 DEF Deserted
    <3> QED BY <1>1, <1>7, <3>1, <3>2 DEF Deserted, Storage!Making, Storage!Target
  <2>2. CASE s # t
    <3>1. dirs'[Storage!Tmp(s)] = dirs[Storage!Tmp(s)]
      BY <1>6, <2>2, DirFacts
    <3> QED BY <1>1, <1>2, <1>7, <2>2, <3>1 DEF Deserted, Storage!Making, Storage!Target
  <2> QED BY <2>1, <2>2
<1>15. CountInv'
  BY <1>5, <1>14, CountKept
<1> QED BY <1>8, <1>10, <1>11, <1>12, <1>13, <1>15 DEF StorageIInv

LEMMA LockDirKeeps ==
  ASSUME Storage!ConstantsAssumption, StorageIInv, NEW p \in Contractors, Storage!LockDir(p)
  PROVE  StorageIInv'
<1>1. PICK old \in ProcStates :
        /\ old = proc[p] /\ Fits(old, p) /\ Storage!Target(p) = old.snapshot /\ old.pc = "open"
        /\ (old.pc \in RootStates <=> storageRoot = p)
  BY Place DEF Storage!LockDir, Storage!At
<1>2. PICK r : r = [old EXCEPT !.pc = "locked"]
  OBVIOUS
<1>3. r \in ProcStates /\ r.pc = "locked" /\ r.fd = old.fd /\ r.snapshot = old.snapshot
  BY <1>2 DEF ProcStates, Storage!States
<1>4. /\ proc' = [proc EXCEPT ![p] = r] /\ UNCHANGED <<dirs, storageRoot, storageCrashes>>
      /\ locker' = [d \in Storage!Dirs |-> IF d = old.fd THEN p ELSE locker[d]]
      /\ old.fd # Storage!Gone => locker[old.fd] = None
  BY <1>1, <1>2 DEF Storage!LockDir, Storage!Goto, Storage!Locked
<1>5. /\ \A e \in Storage!Dirs : locker'[e] = IF e = old.fd THEN p ELSE locker[e]
      /\ locker' \in [Storage!Dirs -> Contractors \union {None}]
  BY <1>4, StorageTypes
<1>6. /\ proc' \in [Contractors -> ProcStates] /\ proc'[p] = r
      /\ \A q \in Contractors : q # p => proc'[q] = proc[q]
  BY <1>3, <1>4, StorageTypes
<1>7. storageRoot = p /\ \A q \in Contractors : q # p => proc[q].pc \notin RootStates
  BY <1>1 DEF StorageIInv, RootInv, RootStates
<1>8. Storage!TypeOK'
  <2>1. \A d \in Storage!Dirs : dirs[d] = "none" => locker'[d] = None
    BY <1>1, <1>5, StorageTypes, DirFacts DEF Fits
  <2> QED BY <1>4, <1>5, <1>6, <2>1, StorageTypes DEF Storage!TypeOK, ProcStates
<1>9. RootInv'
  BY <1>3, <1>4, <1>6, <1>7 DEF RootInv, RootStates
<1>10. old.snapshot \in Snapshots /\ Storage!Tmp(old.snapshot) \in Storage!Dirs
  BY DirFacts DEF ProcStates
<1>11. ProcInv'
  <2> SUFFICES ASSUME NEW q \in Contractors, NEW x, x = proc'[q] PROVE Fits(x, q)'
    BY AllFit
  <2>1. CASE q = p
    BY <1>1, <1>3, <1>4, <1>5, <1>6, <1>10, <2>1 DEF Fits
  <2>2. CASE q # p
    <3>1. PICK y \in ProcStates : y = proc[q] /\ Fits(y, q)
      BY Place
    <3>2. x = y /\ y.pc \notin RootStates /\ Storage!Tmp(y.snapshot) \in Storage!Dirs /\ Storage!Tmp(y.snapshot) # Storage!Gone
      BY <1>6, <1>7, <2>2, <3>1, DirFacts DEF ProcStates
    <3>3. y.pc \in {"check", "making"} => Storage!Tmp(y.snapshot) # old.fd
      BY <1>4, <3>1, <3>2 DEF Fits, Storage!ConstantsAssumption
    <3> QED BY <1>4, <1>5, <3>1, <3>2, <3>3 DEF Fits, RootStates
  <2> QED BY <2>1, <2>2
<1>12. Storage!ChainComplete'
  BY <1>4 DEF StorageIInv, Storage!ChainComplete
<1>13. EmptyInv'
  <2> SUFFICES ASSUME NEW s \in Snapshots, dirs'[Storage!Tmp(s)] = "empty",
                      NEW q \in Contractors, locker'[Storage!Tmp(s)] = q
               PROVE  proc'[q].pc = "locked" /\ proc'[q].snapshot = s
    BY DEF EmptyInv, Storage!At, Storage!Target
  <2>1. CASE Storage!Tmp(s) = old.fd
    <3>1. q = p /\ s = old.snapshot
      BY <1>1, <1>5, <2>1, DirFacts DEF Fits
    <3> QED BY <1>3, <1>6, <3>1
  <2>2. CASE Storage!Tmp(s) # old.fd
    <3>1. proc[q].pc = "locked" /\ proc[q].snapshot = s
      BY <1>4, <1>5, <2>2, DirFacts DEF StorageIInv, EmptyInv, Storage!At, Storage!Target
    <3> QED BY <1>1, <1>6, <3>1
  <2> QED BY <2>1, <2>2
<1>14. Leftovers' \subseteq Leftovers
  BY <1>1, <1>3, <1>4, <1>6 DEF Leftovers, Deserted, Storage!Making, Storage!Target
<1>15. CountInv'
  BY <1>4, <1>14, CountKept
<1> QED BY <1>8, <1>9, <1>11, <1>12, <1>13, <1>15 DEF StorageIInv

LEMMA WriteDiskKeeps ==
  ASSUME Storage!ConstantsAssumption, StorageIInv, NEW p \in Contractors, Storage!WriteDisk(p)
  PROVE  StorageIInv'
<1>1. PICK old \in ProcStates :
        /\ old = proc[p] /\ Fits(old, p) /\ Storage!Target(p) = old.snapshot /\ old.pc = "locked"
        /\ (old.pc \in RootStates <=> storageRoot = p)
  BY Place DEF Storage!WriteDisk, Storage!At
<1>2. PICK t \in Snapshots : t = Storage!Target(p)
  BY <1>1 DEF ProcStates
<1>3. PICK r : r = [old EXCEPT !.pc = "check"]
  OBVIOUS
<1>4. r \in ProcStates /\ r.pc = "check" /\ r.fd = old.fd /\ r.snapshot = t
  BY <1>1, <1>2, <1>3 DEF ProcStates, Storage!States
<1>5. /\ proc' = [proc EXCEPT ![p] = r] /\ storageRoot' = None /\ UNCHANGED <<locker, storageCrashes>>
      /\ dirs' = [dirs EXCEPT ![Storage!Tmp(t)] = "disk"] /\ dirs[Storage!Tmp(t)] = "empty"
  BY <1>1, <1>2, <1>3 DEF Storage!WriteDisk, Storage!Goto
<1>6. /\ Storage!Tmp(t) \in Storage!Dirs /\ \A e \in Storage!Dirs : dirs'[e] = IF e = Storage!Tmp(t) THEN "disk" ELSE dirs[e]
      /\ dirs' \in [Storage!Dirs -> {"none", "empty", "disk"}]
  BY <1>5, StorageTypes, DirFacts
<1>7. /\ proc' \in [Contractors -> ProcStates] /\ proc'[p] = r
      /\ \A q \in Contractors : q # p => proc'[q] = proc[q]
  BY <1>4, <1>5, StorageTypes
<1>8. Storage!TypeOK'
  BY <1>5, <1>6, <1>7, StorageTypes, DirFacts DEF Storage!TypeOK, ProcStates
<1>9. storageRoot = p /\ \A q \in Contractors : q # p => proc[q].pc \notin RootStates
  BY <1>1 DEF StorageIInv, RootInv, RootStates
<1>10. RootInv'
  BY <1>4, <1>5, <1>7, <1>9 DEF RootInv, RootStates, Storage!ConstantsAssumption
<1>11. ProcInv'
  <2> SUFFICES ASSUME NEW q \in Contractors, NEW x, x = proc'[q] PROVE Fits(x, q)'
    BY AllFit
  <2>1. CASE q = p
    <3>1. old.fd = Storage!Tmp(t) /\ locker[Storage!Tmp(t)] = p
      BY <1>1, <1>2, <1>5 DEF Fits
    <3> QED BY <1>4, <1>5, <1>6, <1>7, <2>1, <3>1 DEF Fits
  <2>2. CASE q # p
    <3>1. PICK y \in ProcStates : y = proc[q] /\ Fits(y, q)
      BY Place
    <3>2. x = y /\ y.pc \notin RootStates /\ Storage!Tmp(y.snapshot) \in Storage!Dirs /\ Storage!Final(y.snapshot) \in Storage!Dirs
      BY <1>7, <1>9, <2>2, <3>1, DirFacts DEF ProcStates
    <3> QED BY <1>5, <1>6, <3>1, <3>2, DirFacts DEF Fits, RootStates, ProcStates
  <2> QED BY <2>1, <2>2
<1>12. Storage!ChainComplete'
  <2> SUFFICES ASSUME NEW s \in Snapshots, dirs'[Storage!Tmp(s)] # "none" \/ dirs'[Storage!Final(s)] # "none"
               PROVE  Storage!InRoot(s) \/ dirs'[Storage!Final(Parent[s])] = "disk"
    BY DEF Storage!ChainComplete
  <2>1. dirs[Storage!Tmp(s)] # "none" \/ dirs[Storage!Final(s)] # "none"
    BY <1>5, <1>6, DirFacts
  <2>2. Storage!InRoot(s) \/ (Parent[s] \in Snapshots /\ dirs[Storage!Final(Parent[s])] = "disk")
    BY <2>1 DEF StorageIInv, Storage!ChainComplete, Storage!InRoot, Storage!ConstantsAssumption
  <2> QED BY <1>6, <2>2, DirFacts
<1>13. EmptyInv'
  <2> SUFFICES ASSUME NEW s \in Snapshots, dirs'[Storage!Tmp(s)] = "empty",
                      NEW q \in Contractors, locker'[Storage!Tmp(s)] = q
               PROVE  proc'[q].pc = "locked" /\ proc'[q].snapshot = s
    BY DEF EmptyInv, Storage!At, Storage!Target
  <2>1. s # t /\ dirs[Storage!Tmp(s)] = "empty" /\ locker[Storage!Tmp(s)] = q
    BY <1>5, <1>6, DirFacts
  <2>2. proc[q].pc = "locked" /\ proc[q].snapshot = s
    BY <2>1 DEF StorageIInv, EmptyInv, Storage!At, Storage!Target
  <2> QED BY <1>1, <1>2, <1>7, <2>1, <2>2
<1>14. Leftovers' \subseteq Leftovers
  <2> SUFFICES ASSUME NEW s \in Snapshots, Deserted(s)' PROVE Deserted(s)
    BY DEF Leftovers
  <2>1. s # t
    BY <1>4, <1>6, <1>7 DEF Deserted, Storage!Making, Storage!Target
  <2>2. dirs'[Storage!Tmp(s)] = dirs[Storage!Tmp(s)]
    BY <1>6, <2>1, DirFacts
  <2> QED BY <1>1, <1>2, <1>7, <2>1, <2>2 DEF Deserted, Storage!Making, Storage!Target
<1>15. CountInv'
  BY <1>5, <1>14, CountKept
<1> QED BY <1>8, <1>10, <1>11, <1>12, <1>13, <1>15 DEF StorageIInv

\* Locks are given back, and p is idle.
LEMMA LocksGivenBack ==
  ASSUME Storage!ConstantsAssumption, StorageIInv, NEW p \in Contractors, Storage!Leave(p), UNCHANGED dirs,
         storageRoot' = IF storageRoot = p THEN None ELSE storageRoot,
         locker' \in [Storage!Dirs -> Contractors \union {None}],
         \A d \in Storage!Dirs : locker'[d] \in {locker[d], None},
         \A s \in Snapshots : locker[Storage!Tmp(s)] # p => locker'[Storage!Tmp(s)] = locker[Storage!Tmp(s)],
         \A s \in Snapshots : dirs[Storage!Tmp(s)] = "empty" => locker'[Storage!Tmp(s)] # p,
         storageCrashes' \in 0 .. MaxCrashes, CountInv'
  PROVE  StorageIInv'
<1>1. PICK r : r = Storage!Idle(Storage!Target(p))
  OBVIOUS
<1>2. r \in ProcStates /\ r.pc = "idle" /\ r.fd = Storage!Gone
  BY <1>1, StorageTypes DEF Storage!Idle, ProcStates, Storage!States, Storage!Target
<1>3. /\ proc' \in [Contractors -> ProcStates] /\ proc'[p] = r
      /\ \A q \in Contractors : q # p => proc'[q] = proc[q]
  BY <1>1, <1>2, StorageTypes DEF Storage!Leave
<1>4. Storage!TypeOK'
  <2>1. \A d \in Storage!Dirs : dirs[d] = "none" => locker'[d] = None
    BY StorageTypes
  <2> QED BY <1>3, <2>1, StorageTypes DEF Storage!TypeOK, ProcStates
<1>5. RootInv'
  BY <1>2, <1>3 DEF StorageIInv, RootInv, RootStates, Storage!ConstantsAssumption
<1>6. ProcInv'
  <2> SUFFICES ASSUME NEW q \in Contractors, NEW x, x = proc'[q] PROVE Fits(x, q)'
    BY AllFit
  <2>1. CASE q = p
    BY <1>2, <1>3, <2>1 DEF Fits
  <2>2. CASE q # p
    <3>1. PICK y \in ProcStates : y = proc[q] /\ Fits(y, q)
      BY Place
    <3>2. x = y /\ y.snapshot \in Snapshots
      BY <1>3, <2>2, <3>1 DEF ProcStates
    <3> QED BY <2>2, <3>1, <3>2 DEF Fits, IsLeaf
  <2> QED BY <2>1, <2>2
<1>7. Storage!ChainComplete'
  BY DEF StorageIInv, Storage!ChainComplete
<1>8. EmptyInv'
  <2> SUFFICES ASSUME NEW s \in Snapshots, dirs'[Storage!Tmp(s)] = "empty",
                      NEW q \in Contractors, locker'[Storage!Tmp(s)] = q
               PROVE  proc'[q].pc = "locked" /\ proc'[q].snapshot = s
    BY DEF EmptyInv, Storage!At, Storage!Target
  <2>1. dirs[Storage!Tmp(s)] = "empty" /\ locker[Storage!Tmp(s)] = q /\ q # p
    BY DirFacts DEF Storage!ConstantsAssumption
  <2>2. proc[q].pc = "locked" /\ proc[q].snapshot = s
    BY <2>1 DEF StorageIInv, EmptyInv, Storage!At, Storage!Target
  <2> QED BY <1>3, <2>1, <2>2
<1> QED BY <1>4, <1>5, <1>6, <1>7, <1>8 DEF StorageIInv

LEMMA UnlockKeeps ==
  ASSUME Storage!ConstantsAssumption, StorageIInv, NEW p \in Contractors, Storage!Unlock(p)
  PROVE  StorageIInv'
<1>1. PICK old \in ProcStates :
        /\ old = proc[p] /\ Fits(old, p) /\ Storage!Target(p) = old.snapshot /\ old.pc = "unlock"
        /\ (old.pc \in RootStates <=> storageRoot = p) /\ old.snapshot \in Snapshots
  BY Place DEF Storage!Unlock, Storage!At, ProcStates
<1>2. /\ locker' = [d \in Storage!Dirs |-> IF d = old.fd THEN None ELSE locker[d]]
      /\ Storage!Leave(p) /\ UNCHANGED <<dirs, storageRoot, storageCrashes>>
  BY <1>1 DEF Storage!Unlock
<1>3. old.fd \in {Storage!Final(old.snapshot), Storage!Gone} /\ storageRoot # p
  BY <1>1 DEF Fits, RootStates
<1>4. /\ locker' \in [Storage!Dirs -> Contractors \union {None}]
      /\ \A d \in Storage!Dirs : locker'[d] \in {locker[d], None}
      /\ \A s \in Snapshots : locker'[Storage!Tmp(s)] = locker[Storage!Tmp(s)]
  BY <1>2, <1>3, StorageTypes, DirFacts
<1>5. ASSUME NEW s \in Snapshots, dirs[Storage!Tmp(s)] = "empty" PROVE locker'[Storage!Tmp(s)] # p
  BY <1>1, <1>4, <1>5 DEF StorageIInv, EmptyInv, Storage!At
<1>6. proc' = [proc EXCEPT ![p] = Storage!Idle(Storage!Target(p))] /\ Storage!Idle(Storage!Target(p)).pc = "idle"
  BY <1>2 DEF Storage!Leave, Storage!Idle
<1>7. \A q \in Contractors : q # p => proc'[q] = proc[q]
  BY <1>6, StorageTypes
<1>8. Leftovers' \subseteq Leftovers
  BY <1>1, <1>2, <1>7 DEF Leftovers, Deserted, Storage!Making, Storage!Target
<1>9. CountInv' /\ storageCrashes' \in 0 .. MaxCrashes
  BY <1>2, <1>8, CountKept, StorageTypes
<1> QED BY <1>2, <1>3, <1>4, <1>5, <1>9, LocksGivenBack

LEMMA StorageCrashKeeps ==
  ASSUME Storage!ConstantsAssumption, StorageIInv, NEW p \in Contractors, Storage!Crash(p)
  PROVE  StorageIInv'
<1>1. /\ locker' = [d \in Storage!Dirs |-> IF locker[d] = p THEN None ELSE locker[d]]
      /\ Storage!Leave(p) /\ UNCHANGED dirs /\ storageRoot' = IF storageRoot = p THEN None ELSE storageRoot
      /\ storageCrashes' = storageCrashes + 1 /\ storageCrashes' \in 0 .. MaxCrashes
  BY StorageTypes DEF Storage!Crash, Storage!ConstantsAssumption
<1>2. /\ locker' \in [Storage!Dirs -> Contractors \union {None}]
      /\ \A d \in Storage!Dirs : locker'[d] \in {locker[d], None} /\ (locker[d] # p => locker'[d] = locker[d])
      /\ \A d \in Storage!Dirs : locker'[d] # p
  BY <1>1, StorageTypes DEF Storage!ConstantsAssumption
<1>3. proc' = [proc EXCEPT ![p] = Storage!Idle(Storage!Target(p))]
  BY <1>1 DEF Storage!Leave
<1>4. \A q \in Contractors : q # p => proc'[q] = proc[q]
  BY <1>3, StorageTypes
<1>5. Leftovers' \subseteq Leftovers \union {Storage!Target(p)}
  BY <1>1, <1>4 DEF Leftovers, Deserted, Storage!Making, Storage!Target
<1>6. CountInv'
  BY <1>1, <1>5, CountCrash
<1> QED BY <1>1, <1>2, <1>6, DirFacts, LocksGivenBack

LEMMA StorageInit == Storage!ConstantsAssumption /\ Storage!Init => StorageIInv
<1> SUFFICES ASSUME Storage!ConstantsAssumption, Storage!Init PROVE StorageIInv
  OBVIOUS
<1>1. PICK s \in Snapshots : s = CHOOSE t \in Snapshots : Storage!InRoot(t)
  BY DEF Storage!ConstantsAssumption, Storage!InRoot
<1>2. Storage!Idle(s) \in ProcStates /\ Storage!Idle(s).pc = "idle" /\ Storage!Idle(s).fd = Storage!Gone
  BY DEF Storage!Idle, ProcStates, Storage!States
<1>3. \A p \in Contractors : proc[p] = Storage!Idle(s)
  BY <1>1 DEF Storage!Init
<1>4. proc \in [Contractors -> ProcStates]
  <2>1. proc \in [Contractors -> {Storage!Idle(s)}]
    BY <1>1 DEF Storage!Init
  <2> QED BY <1>2, <2>1
<1>5. \A d \in Storage!Dirs : dirs[d] = "none" /\ locker[d] = None
  BY DEF Storage!Init
<1>6. Storage!TypeOK
  BY <1>4, <1>5, DirFacts DEF Storage!Init, Storage!TypeOK, ProcStates, Storage!ConstantsAssumption
<1>7. RootInv /\ ProcInv
  BY <1>2, <1>3 DEF Storage!Init, RootInv, ProcInv, Fits, RootStates, Storage!ConstantsAssumption
<1>8. Storage!ChainComplete /\ EmptyInv
  BY <1>5, DirFacts DEF Storage!ChainComplete, EmptyInv
<1>9. Leftovers = {} /\ storageCrashes = 0
  BY <1>5, DirFacts DEF Storage!Init, Leftovers, Deserted
<1>10. CountInv
  BY <1>9, FS_EmptySet, StorageCardinality DEF CountInv
<1> QED BY <1>6, <1>7, <1>8, <1>10 DEF StorageIInv

LEMMA StorageStutter == StorageIInv /\ UNCHANGED Storage!vars => StorageIInv'
<1> SUFFICES ASSUME StorageIInv, UNCHANGED Storage!vars PROVE StorageIInv'
  OBVIOUS
<1>1. Storage!TypeOK' /\ RootInv' /\ Storage!ChainComplete' /\ EmptyInv'
  BY DEF Storage!vars, StorageIInv, Storage!TypeOK, RootInv, Storage!ChainComplete, EmptyInv, Storage!At, Storage!Target
<1>2. ProcInv'
  BY DEF Storage!vars, StorageIInv, ProcInv, Fits, IsLeaf
<1>3. CountInv'
  BY CountKept DEF Storage!vars, Leftovers, Deserted, Storage!Making, Storage!Target
<1> QED BY <1>1, <1>2, <1>3 DEF StorageIInv

LEMMA StorageStep == Storage!ConstantsAssumption /\ StorageIInv /\ [Storage!Next]_(Storage!vars) => StorageIInv'
BY StorageStutter, RequestKeeps, CollectLeafsKeeps, KeepLeafKeeps, OpenLeafKeeps, SkipLockedLeafKeeps,
   RemoveLeafKeeps, RemoveMissingLeafKeeps, EndPruneKeeps, MakeDirKeeps, ParentNotExistKeeps, OpenDirKeeps,
   LockDirKeeps, AlreadyLockedKeeps, WriteDiskKeeps, DiskExistsKeeps, DirNotExistKeeps, ChildNotExistKeeps,
   ChildExistsKeeps, StorageRollbackKeeps, StorageCommitKeeps, UnlockKeeps, StorageCrashKeeps DEF Storage!Next, Storage!Step

---------------------------------------------------------------------------
(* The machines' disks *)

LivePower == {"running", "halting"}

\* Images that contractors work with are pending, and each with one contractor;
\* what a machine still has of an earlier contract is left behind.
Owned ==
  /\ \A m \in Machines : current[m] # None => file[current[m]] = "pending"
  /\ \A m, n \in Machines : current[m] = current[n] /\ current[m] # None => m = n
  /\ \A m \in Machines : \A i \in Disk!Images :
       i \in luns[m] \/ i = root[m] =>
         /\ file[i] \in {"pending", "left"}
         /\ file[i] = "pending" => i = current[m]
  /\ \A i \in Disk!Images : file[i] = "none" => i \notin torn

\* Without power from the time at which the machine has been seen down until the
\* new image is attached; the target has one image at most.
Still(m) ==
  /\ (pc[m] \in {"detaching", "attaching", "creating", "reattaching", "starting", "finishing"}
      \/ (pc[m] = "stopping" /\ "down" \in met[m])) => (~port[m] /\ power[m] = "off")
  /\ pc[m] \in {"attaching", "creating", "reattaching", "finishing"} => luns[m] = {}
  /\ pc[m] \in {"starting", "serving"} => luns[m] \subseteq {current[m]}
  /\ \A i, j \in luns[m] : i = j

\* A machine that runs has the image that it has booted from.
Runs(m) ==
  /\ power[m] \in {"running", "halting", "halted"} =>
       (root[m] \in Disk!Images /\ luns[m] \subseteq {root[m]})
  /\ power[m] \in {"off", "booting"} => root[m] = None
  /\ (power[m] \in LivePower /\ nexus[m]) => luns[m] # {}
  /\ dirty[m] => power[m] \in LivePower

\* The stages of a contract.
Stage(m) ==
  /\ pc[m] \in {"attaching", "creating", "reattaching", "starting", "serving"} => goal[m] = "boot"
  /\ pc[m] \in {"shutting", "cutting"} => goal[m] = "commit"
  /\ pc[m] = "finishing" => goal[m] # "boot"
  /\ pc[m] = "stopping" => goal[m] # "commit"
  /\ (goal[m] = "boot" /\ pc[m] \in {"stopping", "detaching"}) =>
       (root[m] # current[m] /\ current[m] \notin luns[m])
  /\ pc[m] \in {"serving", "shutting"} => port[m]
  /\ pc[m] = "serving" =>
       (power[m] \in {"off", "booting", "running"} /\ root[m] \in {None, current[m]})
  /\ pc[m] = "shutting" =>
       (power[m] \in {"running", "halting", "halted"} /\ root[m] = current[m])

\* What the machine wrote is on its disk when it has shut down, unless it lost its
\* session before.
Written(m) ==
  current[m] # None /\ goal[m] # "rollback" /\ current[m] \notin lost =>
    /\ current[m] \notin torn
    /\ pc[m] \in {"serving", "shutting"} /\ power[m] \in LivePower =>
         (nexus[m] /\ (pc[m] = "shutting" => "disconnected" \notin met[m]))
    /\ pc[m] = "cutting" => (power[m] = "halted" \/ (power[m] = "off" /\ ~port[m]))

DiskFits(m) == Still(m) /\ Runs(m) /\ Stage(m) /\ Written(m)

DiskIInv ==
  /\ Disk!TypeOK
  /\ Owned
  /\ \A m \in Machines : DiskFits(m)
  /\ Disk!CommittedIsComplete

\* The steps of a contractor.
LEMMA SeeDisconnectedKeeps ==
  ASSUME Disk!ConstantsAssumption, DiskIInv, NEW m \in Machines, Disk!SeeDisconnected(m)
  PROVE  DiskIInv'
<1> USE DEF Disk!SeeDisconnected, Disk!contractorVars, Disk!machineVars, Disk!daemonVars
<1>1. Disk!TypeOK'
  BY DEF DiskIInv, Disk!TypeOK
<1>2. Owned'
  BY DEF DiskIInv, Disk!TypeOK, Owned
<1>3. \A n \in Machines : Still(n)'
  BY DEF DiskIInv, Disk!TypeOK, DiskFits, Still
<1>4. \A n \in Machines : Runs(n)'
  BY DEF DiskIInv, Disk!TypeOK, DiskFits, Runs
<1>5. \A n \in Machines : Stage(n)'
  BY DEF DiskIInv, Disk!TypeOK, DiskFits, Stage
<1>6. \A n \in Machines : Written(n)'
  BY DEF DiskIInv, Disk!TypeOK, DiskFits, Written
<1>7. Disk!CommittedIsComplete'
  BY DEF DiskIInv, Disk!TypeOK, Disk!CommittedIsComplete
<1> QED BY <1>1, <1>2, <1>3, <1>4, <1>5, <1>6, <1>7 DEF DiskIInv, DiskFits

LEMMA SwitchOffKeeps ==
  ASSUME Disk!ConstantsAssumption, DiskIInv, NEW m \in Machines, Disk!SwitchOff(m)
  PROVE  DiskIInv'
<1> USE DEF Disk!SwitchOff, Disk!contractorVars, Disk!machineVars, Disk!daemonVars
<1>1. Disk!TypeOK'
  BY DEF DiskIInv, Disk!TypeOK
<1>2. Owned'
  BY DEF DiskIInv, Disk!TypeOK, Owned
<1>3. \A n \in Machines : Still(n)'
  BY DEF DiskIInv, Disk!TypeOK, DiskFits, Still
<1>4. \A n \in Machines : Runs(n)'
  BY DEF DiskIInv, Disk!TypeOK, DiskFits, Runs
<1>5. \A n \in Machines : Stage(n)'
  BY DEF DiskIInv, Disk!TypeOK, DiskFits, Stage
<1>6. \A n \in Machines : Written(n)'
  BY DEF DiskIInv, Disk!TypeOK, DiskFits, Written
<1>7. Disk!CommittedIsComplete'
  BY DEF DiskIInv, Disk!TypeOK, Disk!CommittedIsComplete
<1> QED BY <1>1, <1>2, <1>3, <1>4, <1>5, <1>6, <1>7 DEF DiskIInv, DiskFits

LEMMA SeeDownKeeps ==
  ASSUME Disk!ConstantsAssumption, DiskIInv, NEW m \in Machines, Disk!SeeDown(m)
  PROVE  DiskIInv'
<1> USE DEF Disk!SeeDown, Disk!Goto, Disk!contractorVars, Disk!machineVars, Disk!daemonVars
<1>1. Disk!TypeOK'
  BY DEF DiskIInv, Disk!TypeOK, Disk!Steps
<1>2. Owned'
  BY DEF DiskIInv, Disk!TypeOK, Owned
<1>3. \A n \in Machines : Still(n)'
  BY DEF DiskIInv, Disk!TypeOK, DiskFits, Still
<1>4. \A n \in Machines : Runs(n)'
  BY DEF DiskIInv, Disk!TypeOK, DiskFits, Runs
<1>5. \A n \in Machines : Stage(n)'
  BY DEF DiskIInv, Disk!TypeOK, DiskFits, Stage
<1>6. \A n \in Machines : Written(n)'
  BY DEF DiskIInv, Disk!TypeOK, DiskFits, Written
<1>7. Disk!CommittedIsComplete'
  BY DEF DiskIInv, Disk!TypeOK, Disk!CommittedIsComplete
<1> QED BY <1>1, <1>2, <1>3, <1>4, <1>5, <1>6, <1>7 DEF DiskIInv, DiskFits

LEMMA StoppedKeeps ==
  ASSUME Disk!ConstantsAssumption, DiskIInv, NEW m \in Machines, Disk!Stopped(m)
  PROVE  DiskIInv'
<1> USE DEF Disk!Stopped, Disk!Goto, Disk!contractorVars, Disk!machineVars, Disk!daemonVars
<1>1. Disk!TypeOK'
  BY DEF DiskIInv, Disk!TypeOK, Disk!Steps
<1>2. Owned'
  BY DEF DiskIInv, Disk!TypeOK, Owned
<1>3. \A n \in Machines : Still(n)'
  BY DEF DiskIInv, Disk!TypeOK, DiskFits, Still
<1>4. \A n \in Machines : Runs(n)'
  BY DEF DiskIInv, Disk!TypeOK, DiskFits, Runs
<1>5. \A n \in Machines : Stage(n)'
  BY DEF DiskIInv, Disk!TypeOK, DiskFits, Stage
<1>6. \A n \in Machines : Written(n)'
  BY DEF DiskIInv, Disk!TypeOK, DiskFits, Written
<1>7. Disk!CommittedIsComplete'
  BY DEF DiskIInv, Disk!TypeOK, Disk!CommittedIsComplete
<1> QED BY <1>1, <1>2, <1>3, <1>4, <1>5, <1>6, <1>7 DEF DiskIInv, DiskFits

LEMMA TellShutdownKeeps ==
  ASSUME Disk!ConstantsAssumption, DiskIInv, NEW m \in Machines, Disk!TellShutdown(m)
  PROVE  DiskIInv'
<1> USE DEF Disk!TellShutdown, Disk!contractorVars, Disk!machineVars, Disk!daemonVars
<1>1. Disk!TypeOK'
  BY DEF DiskIInv, Disk!TypeOK
<1>2. Owned'
  BY DEF DiskIInv, Disk!TypeOK, Owned
<1>3. \A n \in Machines : Still(n)'
  BY DEF DiskIInv, Disk!TypeOK, DiskFits, Still
<1>4. \A n \in Machines : Runs(n)'
  BY DEF DiskIInv, Disk!TypeOK, DiskFits, Runs, LivePower
<1>5. \A n \in Machines : Stage(n)'
  BY DEF DiskIInv, Disk!TypeOK, DiskFits, Stage
<1>6. \A n \in Machines : Written(n)'
  BY DEF DiskIInv, Disk!TypeOK, DiskFits, Written, LivePower
<1>7. Disk!CommittedIsComplete'
  BY DEF DiskIInv, Disk!TypeOK, Disk!CommittedIsComplete
<1> QED BY <1>1, <1>2, <1>3, <1>4, <1>5, <1>6, <1>7 DEF DiskIInv, DiskFits

LEMMA ShutDownKeeps ==
  ASSUME Disk!ConstantsAssumption, DiskIInv, NEW m \in Machines, Disk!ShutDown(m)
  PROVE  DiskIInv'
<1> USE DEF Disk!ShutDown, Disk!Goto, Disk!contractorVars, Disk!machineVars, Disk!daemonVars
<1>1. Disk!TypeOK'
  BY DEF DiskIInv, Disk!TypeOK, Disk!Steps
<1>2. Owned'
  BY DEF DiskIInv, Disk!TypeOK, Owned
<1>3. \A n \in Machines : Still(n)'
  BY DEF DiskIInv, Disk!TypeOK, DiskFits, Still
<1>4. \A n \in Machines : Runs(n)'
  BY DEF DiskIInv, Disk!TypeOK, DiskFits, Runs
<1>5. \A n \in Machines : Stage(n)'
  BY DEF DiskIInv, Disk!TypeOK, DiskFits, Stage
<1>6. \A n \in Machines : Written(n)'
  BY DEF DiskIInv, Disk!TypeOK, DiskFits, Stage, Written, LivePower
<1>7. Disk!CommittedIsComplete'
  BY DEF DiskIInv, Disk!TypeOK, Disk!CommittedIsComplete
<1> QED BY <1>1, <1>2, <1>3, <1>4, <1>5, <1>6, <1>7 DEF DiskIInv, DiskFits

LEMMA DetachKeeps ==
  ASSUME Disk!ConstantsAssumption, DiskIInv, NEW m \in Machines, Disk!Detach(m)
  PROVE  DiskIInv'
<1> USE DEF Disk!Detach, Disk!Goto, Disk!AfterDetach, Disk!contractorVars, Disk!machineVars, Disk!daemonVars
<1>1. Disk!TypeOK'
  BY DEF DiskIInv, Disk!TypeOK, Disk!Steps
<1>2. Owned'
  BY DEF DiskIInv, Disk!TypeOK, Owned
<1>3. \A n \in Machines : Still(n)'
  BY DEF DiskIInv, Disk!TypeOK, DiskFits, Still
<1>4. \A n \in Machines : Runs(n)'
  BY DEF DiskIInv, Disk!TypeOK, DiskFits, Runs
<1>5. \A n \in Machines : Stage(n)'
  BY DEF DiskIInv, Disk!TypeOK, DiskFits, Stage
<1>6. \A n \in Machines : Written(n)'
  BY DEF DiskIInv, Disk!TypeOK, DiskFits, Written
<1>7. Disk!CommittedIsComplete'
  BY DEF DiskIInv, Disk!TypeOK, Disk!CommittedIsComplete
<1> QED BY <1>1, <1>2, <1>3, <1>4, <1>5, <1>6, <1>7 DEF DiskIInv, DiskFits

LEMMA HangKeeps ==
  ASSUME Disk!ConstantsAssumption, DiskIInv, NEW m \in Machines, Disk!Hang(m)
  PROVE  DiskIInv'
<1> USE DEF Disk!Hang, Disk!contractorVars, Disk!machineVars, Disk!daemonVars
<1>1. Disk!TypeOK'
  BY DEF DiskIInv, Disk!TypeOK
<1>2. Owned'
  BY DEF DiskIInv, Disk!TypeOK, Owned
<1>3. \A n \in Machines : Still(n)'
  BY DEF DiskIInv, Disk!TypeOK, DiskFits, Still
<1>4. \A n \in Machines : Runs(n)'
  BY DEF DiskIInv, Disk!TypeOK, DiskFits, Runs
<1>5. \A n \in Machines : Stage(n)'
  BY DEF DiskIInv, Disk!TypeOK, DiskFits, Stage
<1>6. \A n \in Machines : Written(n)'
  BY DEF DiskIInv, Disk!TypeOK, DiskFits, Written
<1>7. Disk!CommittedIsComplete'
  BY DEF DiskIInv, Disk!TypeOK, Disk!CommittedIsComplete
<1> QED BY <1>1, <1>2, <1>3, <1>4, <1>5, <1>6, <1>7 DEF DiskIInv, DiskFits

LEMMA AttachKeeps ==
  ASSUME Disk!ConstantsAssumption, DiskIInv, NEW m \in Machines, Disk!Attach(m)
  PROVE  DiskIInv'
<1> USE DEF Disk!Attach, Disk!Goto, Disk!contractorVars, Disk!machineVars, Disk!daemonVars
<1>1. Disk!TypeOK'
  BY DEF DiskIInv, Disk!TypeOK, Disk!Steps
<1>2. Owned'
  BY DEF DiskIInv, Disk!TypeOK, Owned
<1>3. \A n \in Machines : Still(n)'
  BY DEF DiskIInv, Disk!TypeOK, DiskFits, Still
<1>4. \A n \in Machines : Runs(n)'
  BY DEF DiskIInv, Disk!TypeOK, DiskFits, Still, Runs
<1>5. \A n \in Machines : Stage(n)'
  BY DEF DiskIInv, Disk!TypeOK, DiskFits, Stage
<1>6. \A n \in Machines : Written(n)'
  BY DEF DiskIInv, Disk!TypeOK, DiskFits, Written
<1>7. Disk!CommittedIsComplete'
  BY DEF DiskIInv, Disk!TypeOK, Disk!CommittedIsComplete
<1> QED BY <1>1, <1>2, <1>3, <1>4, <1>5, <1>6, <1>7 DEF DiskIInv, DiskFits

LEMMA AttachToNoneKeeps ==
  ASSUME Disk!ConstantsAssumption, DiskIInv, NEW m \in Machines, Disk!AttachToNone(m)
  PROVE  DiskIInv'
<1> USE DEF Disk!AttachToNone, Disk!Goto, Disk!contractorVars, Disk!machineVars, Disk!daemonVars
<1>1. Disk!TypeOK'
  BY DEF DiskIInv, Disk!TypeOK, Disk!Steps
<1>2. Owned'
  BY DEF DiskIInv, Disk!TypeOK, Owned
<1>3. \A n \in Machines : Still(n)'
  BY DEF DiskIInv, Disk!TypeOK, DiskFits, Still
<1>4. \A n \in Machines : Runs(n)'
  BY DEF DiskIInv, Disk!TypeOK, DiskFits, Runs
<1>5. \A n \in Machines : Stage(n)'
  BY DEF DiskIInv, Disk!TypeOK, DiskFits, Stage
<1>6. \A n \in Machines : Written(n)'
  BY DEF DiskIInv, Disk!TypeOK, DiskFits, Written
<1>7. Disk!CommittedIsComplete'
  BY DEF DiskIInv, Disk!TypeOK, Disk!CommittedIsComplete
<1> QED BY <1>1, <1>2, <1>3, <1>4, <1>5, <1>6, <1>7 DEF DiskIInv, DiskFits

LEMMA AddTargetKeeps ==
  ASSUME Disk!ConstantsAssumption, DiskIInv, NEW m \in Machines, Disk!AddTarget(m)
  PROVE  DiskIInv'
<1> USE DEF Disk!AddTarget, Disk!Goto, Disk!contractorVars, Disk!machineVars, Disk!daemonVars
<1>1. Disk!TypeOK'
  BY DEF DiskIInv, Disk!TypeOK, Disk!Steps
<1>2. Owned'
  BY DEF DiskIInv, Disk!TypeOK, Owned
<1>3. \A n \in Machines : Still(n)'
  BY DEF DiskIInv, Disk!TypeOK, DiskFits, Still
<1>4. \A n \in Machines : Runs(n)'
  BY DEF DiskIInv, Disk!TypeOK, DiskFits, Runs
<1>5. \A n \in Machines : Stage(n)'
  BY DEF DiskIInv, Disk!TypeOK, DiskFits, Stage
<1>6. \A n \in Machines : Written(n)'
  BY DEF DiskIInv, Disk!TypeOK, DiskFits, Written
<1>7. Disk!CommittedIsComplete'
  BY DEF DiskIInv, Disk!TypeOK, Disk!CommittedIsComplete
<1> QED BY <1>1, <1>2, <1>3, <1>4, <1>5, <1>6, <1>7 DEF DiskIInv, DiskFits

LEMMA SwitchOnKeeps ==
  ASSUME Disk!ConstantsAssumption, DiskIInv, NEW m \in Machines, Disk!SwitchOn(m)
  PROVE  DiskIInv'
<1> USE DEF Disk!SwitchOn, Disk!Goto, Disk!contractorVars, Disk!machineVars, Disk!daemonVars
<1>1. Disk!TypeOK'
  BY DEF DiskIInv, Disk!TypeOK, Disk!Steps
<1>2. Owned'
  BY DEF DiskIInv, Disk!TypeOK, Owned
<1>3. \A n \in Machines : Still(n)'
  BY DEF DiskIInv, Disk!TypeOK, DiskFits, Still
<1>4. \A n \in Machines : Runs(n)'
  BY DEF DiskIInv, Disk!TypeOK, DiskFits, Runs
<1>5. \A n \in Machines : Stage(n)'
  BY DEF DiskIInv, Disk!TypeOK, DiskFits, Still, Runs, Stage
<1>6. \A n \in Machines : Written(n)'
  BY DEF DiskIInv, Disk!TypeOK, DiskFits, Still, Written, LivePower
<1>7. Disk!CommittedIsComplete'
  BY DEF DiskIInv, Disk!TypeOK, Disk!CommittedIsComplete
<1> QED BY <1>1, <1>2, <1>3, <1>4, <1>5, <1>6, <1>7 DEF DiskIInv, DiskFits

LEMMA DiskCommitKeeps ==
  ASSUME Disk!ConstantsAssumption, DiskIInv, NEW m \in Machines, Disk!Commit(m)
  PROVE  DiskIInv'
<1> USE DEF Disk!Commit, Disk!Goto, Disk!contractorVars, Disk!machineVars, Disk!daemonVars
<1>1. Disk!TypeOK'
  BY DEF DiskIInv, Disk!TypeOK, Disk!Steps
<1>2. Owned'
  BY DEF DiskIInv, Disk!TypeOK, Owned
<1>3. \A n \in Machines : Still(n)'
  BY DEF DiskIInv, Disk!TypeOK, DiskFits, Still
<1>4. \A n \in Machines : Runs(n)'
  BY DEF DiskIInv, Disk!TypeOK, DiskFits, Runs
<1>5. \A n \in Machines : Stage(n)'
  <2>1. power[m] = "running" /\ root[m] = current[m] /\ port[m]
    BY DEF DiskIInv, Disk!TypeOK, DiskFits, Runs, Stage, Disk!ConstantsAssumption, Disk!Images
  <2> QED BY <2>1 DEF DiskIInv, Disk!TypeOK, DiskFits, Stage
<1>6. \A n \in Machines : Written(n)'
  BY DEF DiskIInv, Disk!TypeOK, DiskFits, Stage, Written
<1>7. Disk!CommittedIsComplete'
  BY DEF DiskIInv, Disk!TypeOK, Disk!CommittedIsComplete
<1> QED BY <1>1, <1>2, <1>3, <1>4, <1>5, <1>6, <1>7 DEF DiskIInv, DiskFits

LEMMA FinishKeeps ==
  ASSUME Disk!ConstantsAssumption, DiskIInv, NEW m \in Machines, Disk!Finish(m)
  PROVE  DiskIInv'
<1> USE DEF Disk!Finish, Disk!Goto, Disk!contractorVars, Disk!machineVars, Disk!daemonVars
<1>1. Disk!TypeOK'
  BY DEF DiskIInv, Disk!TypeOK, Disk!Steps
<1>2. Owned'
  BY DEF DiskIInv, Disk!TypeOK, Owned, DiskFits, Still, Runs
<1>3. \A n \in Machines : Still(n)'
  BY DEF DiskIInv, Disk!TypeOK, DiskFits, Still
<1>4. \A n \in Machines : Runs(n)'
  BY DEF DiskIInv, Disk!TypeOK, DiskFits, Runs
<1>5. \A n \in Machines : Stage(n)'
  BY DEF DiskIInv, Disk!TypeOK, DiskFits, Stage
<1>6. \A n \in Machines : Written(n)'
  BY DEF DiskIInv, Disk!TypeOK, DiskFits, Written
<1>7. Disk!CommittedIsComplete'
  BY DEF DiskIInv, Disk!TypeOK, Disk!CommittedIsComplete, DiskFits, Written
<1> QED BY <1>1, <1>2, <1>3, <1>4, <1>5, <1>6, <1>7 DEF DiskIInv, DiskFits

LEMMA KillKeeps ==
  ASSUME Disk!ConstantsAssumption, DiskIInv, NEW m \in Machines, Disk!Kill(m)
  PROVE  DiskIInv'
<1> USE DEF Disk!Kill, Disk!Goto, Disk!contractorVars, Disk!machineVars, Disk!daemonVars
<1>1. Disk!TypeOK'
  BY DEF DiskIInv, Disk!TypeOK, Disk!Steps, Disk!ConstantsAssumption
<1>2. Owned'
  BY DEF DiskIInv, Disk!TypeOK, Owned
<1>3. \A n \in Machines : Still(n)'
  BY DEF DiskIInv, Disk!TypeOK, DiskFits, Still
<1>4. \A n \in Machines : Runs(n)'
  BY DEF DiskIInv, Disk!TypeOK, DiskFits, Runs
<1>5. \A n \in Machines : Stage(n)'
  BY DEF DiskIInv, Disk!TypeOK, DiskFits, Stage
<1>6. \A n \in Machines : Written(n)'
  BY DEF DiskIInv, Disk!TypeOK, DiskFits, Written
<1>7. Disk!CommittedIsComplete'
  BY DEF DiskIInv, Disk!TypeOK, Disk!CommittedIsComplete
<1> QED BY <1>1, <1>2, <1>3, <1>4, <1>5, <1>6, <1>7 DEF DiskIInv, DiskFits

LEMMA RestartKeeps ==
  ASSUME Disk!ConstantsAssumption, DiskIInv, NEW m \in Machines, Disk!Restart(m)
  PROVE  DiskIInv'
<1> USE DEF Disk!Restart, Disk!Goto, Disk!contractorVars, Disk!machineVars, Disk!daemonVars
<1>1. Disk!TypeOK'
  BY DEF DiskIInv, Disk!TypeOK, Disk!Steps
<1>2. Owned'
  BY DEF DiskIInv, Disk!TypeOK, Owned
<1>3. \A n \in Machines : Still(n)'
  BY DEF DiskIInv, Disk!TypeOK, DiskFits, Still
<1>4. \A n \in Machines : Runs(n)'
  BY DEF DiskIInv, Disk!TypeOK, DiskFits, Runs
<1>5. \A n \in Machines : Stage(n)'
  BY DEF DiskIInv, Disk!TypeOK, DiskFits, Stage
<1>6. \A n \in Machines : Written(n)'
  BY DEF DiskIInv, Disk!TypeOK, DiskFits, Written
<1>7. Disk!CommittedIsComplete'
  BY DEF DiskIInv, Disk!TypeOK, Disk!CommittedIsComplete
<1> QED BY <1>1, <1>2, <1>3, <1>4, <1>5, <1>6, <1>7 DEF DiskIInv, DiskFits

LEMMA TakeKeeps ==
  ASSUME Disk!ConstantsAssumption, DiskIInv, NEW m \in Machines, Disk!Take(m)
  PROVE  DiskIInv'
<1> USE DEF Disk!Take, Disk!Goto, Disk!contractorVars, Disk!machineVars, Disk!daemonVars
<1>0. PICK i \in Disk!Images : file[i] = "none" /\ file' = [file EXCEPT ![i] = "pending"]
                              /\ current' = [current EXCEPT ![m] = i]
  OBVIOUS
<1>1. Disk!TypeOK'
  BY <1>0 DEF DiskIInv, Disk!TypeOK, Disk!Steps, Disk!ConstantsAssumption, Disk!Images
<1>2. Owned'
  <2>1. /\ \A j \in Disk!Images : file'[j] = IF j = i THEN "pending" ELSE file[j]
        /\ \A n \in Machines : current'[n] = IF n = m THEN i ELSE current[n]
    BY <1>0 DEF DiskIInv, Disk!TypeOK
  <2>2. current[m] = None /\ i # None /\ \A n \in Machines : current[n] \in Disk!Images \union {None}
    BY DEF DiskIInv, Disk!TypeOK, Disk!ConstantsAssumption, Disk!Images
  <2>3. \A n \in Machines : current[n] # i
    BY <1>0, <2>2 DEF DiskIInv, Owned
  <2>4. \A n \in Machines : current'[n] # None => file'[current'[n]] = "pending"
    BY <1>0, <2>1, <2>2 DEF DiskIInv, Owned
  <2>5. \A n, k \in Machines : current'[n] = current'[k] /\ current'[n] # None => n = k
    BY <2>1, <2>2, <2>3 DEF DiskIInv, Owned
  <2>6. \A n \in Machines : \A j \in Disk!Images : j \in luns[n] \/ j = root[n] =>
          j # i /\ file'[j] \in {"pending", "left"} /\ (file'[j] = "pending" => j = current'[n])
    <3> SUFFICES ASSUME NEW n \in Machines, NEW j \in Disk!Images, j \in luns[n] \/ j = root[n]
                 PROVE  j # i /\ file'[j] \in {"pending", "left"} /\ (file'[j] = "pending" => j = current'[n])
      OBVIOUS
    <3>1. file[j] \in {"pending", "left"} /\ (file[j] = "pending" => j = current[n])
      BY DEF DiskIInv, Owned
    <3>2. j # i /\ file'[j] = file[j]
      BY <1>0, <2>1, <3>1
    <3>3. j # None
      BY DEF Disk!ConstantsAssumption, Disk!Images
    <3> QED BY <2>1, <2>2, <3>1, <3>2, <3>3
  <2>7. \A j \in Disk!Images : file'[j] = "none" => j \notin torn
    BY <2>1 DEF DiskIInv, Owned
  <2> QED BY <2>4, <2>5, <2>6, <2>7 DEF Owned
<1>3. \A n \in Machines : Still(n)'
  BY <1>0 DEF DiskIInv, Disk!TypeOK, DiskFits, Still
<1>4. \A n \in Machines : Runs(n)'
  BY <1>0 DEF DiskIInv, Disk!TypeOK, DiskFits, Runs
<1>5. \A n \in Machines : Stage(n)'
  BY <1>0 DEF DiskIInv, Disk!TypeOK, Owned, DiskFits, Stage
<1>6. \A n \in Machines : Written(n)'
  BY <1>0 DEF DiskIInv, Disk!TypeOK, Owned, DiskFits, Written
<1>7. Disk!CommittedIsComplete'
  BY <1>0 DEF DiskIInv, Disk!TypeOK, Disk!CommittedIsComplete
<1> QED BY <1>1, <1>2, <1>3, <1>4, <1>5, <1>6, <1>7 DEF DiskIInv, DiskFits

\* The steps of a machine, its switch and the daemon.
LEMMA PowerUpKeeps ==
  ASSUME Disk!ConstantsAssumption, DiskIInv, NEW m \in Machines, Disk!PowerUp(m)
  PROVE  DiskIInv'
<1> USE DEF Disk!PowerUp, Disk!contractorVars, Disk!machineVars, Disk!daemonVars
<1>1. Disk!TypeOK'
  BY DEF DiskIInv, Disk!TypeOK
<1>2. Owned'
  BY DEF DiskIInv, Disk!TypeOK, Owned
<1>3. \A n \in Machines : Still(n)'
  BY DEF DiskIInv, Disk!TypeOK, DiskFits, Still
<1>4. \A n \in Machines : Runs(n)'
  BY DEF DiskIInv, Disk!TypeOK, DiskFits, Runs, LivePower
<1>5. \A n \in Machines : Stage(n)'
  BY DEF DiskIInv, Disk!TypeOK, DiskFits, Stage
<1>6. \A n \in Machines : Written(n)'
  BY DEF DiskIInv, Disk!TypeOK, DiskFits, Written, LivePower
<1>7. Disk!CommittedIsComplete'
  BY DEF DiskIInv, Disk!TypeOK, Disk!CommittedIsComplete
<1> QED BY <1>1, <1>2, <1>3, <1>4, <1>5, <1>6, <1>7 DEF DiskIInv, DiskFits

LEMMA PowerDownKeeps ==
  ASSUME Disk!ConstantsAssumption, DiskIInv, NEW m \in Machines, Disk!PowerDown(m)
  PROVE  DiskIInv'
<1> USE DEF Disk!PowerDown, Disk!contractorVars, Disk!machineVars, Disk!daemonVars
<1>1. Disk!TypeOK'
  <2>1. dirty[m] => root[m] \in Disk!Images
    BY DEF DiskIInv, Disk!TypeOK, DiskFits, Runs, LivePower
  <2>2. torn' \union lost' \subseteq Disk!Images
    BY <2>1 DEF DiskIInv, Disk!TypeOK
  <2> QED BY <2>2 DEF DiskIInv, Disk!TypeOK
<1>2. Owned'
  <2>1. None \notin Disk!Images
    BY DEF Disk!ConstantsAssumption, Disk!Images
  <2>2. \A i \in Disk!Images : i \in torn' => i \in torn \/ i = root[m]
    OBVIOUS
  <2>3. \A n \in Machines : root'[n] = IF n = m THEN None ELSE root[n]
    BY DEF DiskIInv, Disk!TypeOK
  <2> QED BY <2>1, <2>2, <2>3 DEF DiskIInv, Owned
<1>3. \A n \in Machines : Still(n)'
  BY DEF DiskIInv, Disk!TypeOK, DiskFits, Still
<1>4. \A n \in Machines : Runs(n)'
  BY DEF DiskIInv, Disk!TypeOK, DiskFits, Runs, LivePower
<1>5. \A n \in Machines : Stage(n)'
  BY DEF DiskIInv, Disk!TypeOK, DiskFits, Stage
<1>6. \A n \in Machines : Written(n)'
  <2> SUFFICES ASSUME NEW n \in Machines, current[n] # None, goal[n] # "rollback", current[n] \notin lost
               PROVE  Written(n)'
    BY DEF Written
  <2>1. Written(n) /\ current[n] \notin torn
    BY DEF DiskIInv, DiskFits, Written
  <2>2. \A k \in Machines : power'[k] = IF k = m THEN "off" ELSE power[k]
    BY DEF DiskIInv, Disk!TypeOK
  <2>3. CASE n # m
    <3>1. current[n] \in Disk!Images /\ root[m] # current[n]
      BY <2>3 DEF DiskIInv, Disk!TypeOK, Owned
    <3> QED BY <2>1, <2>2, <2>3, <3>1 DEF Written
  <2>4. CASE n = m
    <3>1. (dirty[m] => root[m] # current[m]) /\ pc[m] \notin {"serving", "shutting"}
      BY <2>1, <2>4 DEF DiskIInv, Disk!TypeOK, Disk!Steps, DiskFits, Still, Runs, Stage, Written, LivePower
    <3> QED BY <2>1, <2>2, <2>4, <3>1 DEF Written
  <2> QED BY <2>3, <2>4
<1>7. Disk!CommittedIsComplete'
  BY DEF DiskIInv, Disk!TypeOK, Owned, Disk!CommittedIsComplete
<1> QED BY <1>1, <1>2, <1>3, <1>4, <1>5, <1>6, <1>7 DEF DiskIInv, DiskFits

LEMMA LogInKeeps ==
  ASSUME Disk!ConstantsAssumption, DiskIInv, NEW m \in Machines, Disk!LogIn(m)
  PROVE  DiskIInv'
<1> USE DEF Disk!LogIn, Disk!contractorVars, Disk!machineVars, Disk!daemonVars
<1>0. PICK i \in luns[m] : root' = [root EXCEPT ![m] = i] /\ luns[m] = {i} /\ i \in Disk!Images
  <2>1. PICK i \in luns[m] : luns[m] = {i} /\ i \in Disk!Images /\ i \in Nat
    BY DEF DiskIInv, Disk!TypeOK, DiskFits, Still, Disk!Images
  <2>2. i = CHOOSE k \in luns[m] : \A j \in luns[m] : k <= j
    BY <2>1
  <2> QED BY <2>1, <2>2
<1>1. Disk!TypeOK'
  BY <1>0 DEF DiskIInv, Disk!TypeOK
<1>2. Owned'
  <2>2. \A n \in Machines : root'[n] = IF n = m THEN i ELSE root[n]
    BY <1>0 DEF DiskIInv, Disk!TypeOK
  <2> QED BY <1>0, <2>2 DEF DiskIInv, Owned
<1>3. \A n \in Machines : Still(n)'
  BY <1>0 DEF DiskIInv, Disk!TypeOK, DiskFits, Still
<1>4. \A n \in Machines : Runs(n)'
  <2>2. \A n \in Machines : root'[n] = IF n = m THEN i ELSE root[n]
    BY <1>0 DEF DiskIInv, Disk!TypeOK
  <2>3. \A n \in Machines : power'[n] = IF n = m THEN "running" ELSE power[n]
    BY <1>0 DEF DiskIInv, Disk!TypeOK
  <2> QED BY <1>0, <2>2, <2>3 DEF DiskIInv, DiskFits, Runs, LivePower
<1>5. \A n \in Machines : Stage(n)'
  <2>2. \A n \in Machines : root'[n] = IF n = m THEN i ELSE root[n]
    BY <1>0 DEF DiskIInv, Disk!TypeOK
  <2>3. \A n \in Machines : power'[n] = IF n = m THEN "running" ELSE power[n]
    BY <1>0 DEF DiskIInv, Disk!TypeOK
  <2> QED BY <1>0, <2>2, <2>3 DEF DiskIInv, DiskFits, Still, Stage
<1>6. \A n \in Machines : Written(n)'
  BY <1>0 DEF DiskIInv, Disk!TypeOK, DiskFits, Stage, Written
<1>7. Disk!CommittedIsComplete'
  BY <1>0 DEF DiskIInv, Disk!TypeOK, Disk!CommittedIsComplete
<1> QED BY <1>1, <1>2, <1>3, <1>4, <1>5, <1>6, <1>7 DEF DiskIInv, DiskFits

LEMMA WriteKeeps ==
  ASSUME Disk!ConstantsAssumption, DiskIInv, NEW m \in Machines, Disk!Write(m)
  PROVE  DiskIInv'
<1> USE DEF Disk!Write, Disk!contractorVars, Disk!machineVars, Disk!daemonVars
<1>1. Disk!TypeOK'
  BY DEF DiskIInv, Disk!TypeOK
<1>2. Owned'
  BY DEF DiskIInv, Disk!TypeOK, Owned
<1>3. \A n \in Machines : Still(n)'
  BY DEF DiskIInv, Disk!TypeOK, DiskFits, Still
<1>4. \A n \in Machines : Runs(n)'
  BY DEF DiskIInv, Disk!TypeOK, DiskFits, Runs, LivePower
<1>5. \A n \in Machines : Stage(n)'
  BY DEF DiskIInv, Disk!TypeOK, DiskFits, Stage
<1>6. \A n \in Machines : Written(n)'
  BY DEF DiskIInv, Disk!TypeOK, DiskFits, Written
<1>7. Disk!CommittedIsComplete'
  BY DEF DiskIInv, Disk!TypeOK, Disk!CommittedIsComplete
<1> QED BY <1>1, <1>2, <1>3, <1>4, <1>5, <1>6, <1>7 DEF DiskIInv, DiskFits

LEMMA HaltKeeps ==
  ASSUME Disk!ConstantsAssumption, DiskIInv, NEW m \in Machines, Disk!Halt(m)
  PROVE  DiskIInv'
<1> USE DEF Disk!Halt, Disk!contractorVars, Disk!machineVars, Disk!daemonVars
<1>1. Disk!TypeOK'
  BY DEF DiskIInv, Disk!TypeOK
<1>2. Owned'
  BY DEF DiskIInv, Disk!TypeOK, Owned
<1>3. \A n \in Machines : Still(n)'
  BY DEF DiskIInv, Disk!TypeOK, DiskFits, Still
<1>4. \A n \in Machines : Runs(n)'
  BY DEF DiskIInv, Disk!TypeOK, DiskFits, Runs
<1>5. \A n \in Machines : Stage(n)'
  BY DEF DiskIInv, Disk!TypeOK, DiskFits, Stage
<1>6. \A n \in Machines : Written(n)'
  BY DEF DiskIInv, Disk!TypeOK, DiskFits, Written, LivePower
<1>7. Disk!CommittedIsComplete'
  BY DEF DiskIInv, Disk!TypeOK, Disk!CommittedIsComplete
<1> QED BY <1>1, <1>2, <1>3, <1>4, <1>5, <1>6, <1>7 DEF DiskIInv, DiskFits

LEMMA LoseSessionKeeps ==
  ASSUME Disk!ConstantsAssumption, DiskIInv, NEW m \in Machines, Disk!LoseSession(m)
  PROVE  DiskIInv'
<1> USE DEF Disk!LoseSession, Disk!contractorVars, Disk!machineVars, Disk!daemonVars
<1>1. Disk!TypeOK'
  <2>1. root[m] \in Disk!Images
    BY DEF DiskIInv, DiskFits, Runs
  <2> QED BY <2>1 DEF DiskIInv, Disk!TypeOK, Disk!ConstantsAssumption
<1>2. Owned'
  BY DEF DiskIInv, Disk!TypeOK, Owned
<1>3. \A n \in Machines : Still(n)'
  BY DEF DiskIInv, Disk!TypeOK, DiskFits, Still
<1>4. \A n \in Machines : Runs(n)'
  BY DEF DiskIInv, Disk!TypeOK, DiskFits, Runs
<1>5. \A n \in Machines : Stage(n)'
  BY DEF DiskIInv, Disk!TypeOK, DiskFits, Runs, Stage
<1>6. \A n \in Machines : Written(n)'
  BY DEF DiskIInv, Disk!TypeOK, DiskFits, Still, Runs, Stage, Written
<1>7. Disk!CommittedIsComplete'
  BY DEF DiskIInv, Disk!TypeOK, Disk!CommittedIsComplete
<1> QED BY <1>1, <1>2, <1>3, <1>4, <1>5, <1>6, <1>7 DEF DiskIInv, DiskFits

LEMMA LogInAgainKeeps ==
  ASSUME Disk!ConstantsAssumption, DiskIInv, NEW m \in Machines, Disk!LogInAgain(m)
  PROVE  DiskIInv'
<1> USE DEF Disk!LogInAgain, Disk!contractorVars, Disk!machineVars, Disk!daemonVars
<1>1. Disk!TypeOK'
  BY DEF DiskIInv, Disk!TypeOK, Disk!Steps
<1>2. Owned'
  BY DEF DiskIInv, Disk!TypeOK, Owned
<1>3. \A n \in Machines : Still(n)'
  BY DEF DiskIInv, Disk!TypeOK, DiskFits, Still
<1>4. \A n \in Machines : Runs(n)'
  BY DEF DiskIInv, Disk!TypeOK, DiskFits, Runs
<1>5. \A n \in Machines : Stage(n)'
  BY DEF DiskIInv, Disk!TypeOK, DiskFits, Stage
<1>6. \A n \in Machines : Written(n)'
  BY DEF DiskIInv, Disk!TypeOK, Owned, DiskFits, Written, LivePower
<1>7. Disk!CommittedIsComplete'
  BY DEF DiskIInv, Disk!TypeOK, Disk!CommittedIsComplete
<1> QED BY <1>1, <1>2, <1>3, <1>4, <1>5, <1>6, <1>7 DEF DiskIInv, DiskFits

LEMMA PingTimeoutKeeps ==
  ASSUME Disk!ConstantsAssumption, DiskIInv, NEW m \in Machines, Disk!PingTimeout(m)
  PROVE  DiskIInv'
<1> USE DEF Disk!PingTimeout, Disk!contractorVars, Disk!machineVars, Disk!daemonVars
<1>1. Disk!TypeOK'
  BY DEF DiskIInv, Disk!TypeOK, Disk!Steps
<1>2. Owned'
  BY DEF DiskIInv, Disk!TypeOK, Owned
<1>3. \A n \in Machines : Still(n)'
  BY DEF DiskIInv, Disk!TypeOK, DiskFits, Still
<1>4. \A n \in Machines : Runs(n)'
  BY DEF DiskIInv, Disk!TypeOK, DiskFits, Runs
<1>5. \A n \in Machines : Stage(n)'
  BY DEF DiskIInv, Disk!TypeOK, DiskFits, Stage
<1>6. \A n \in Machines : Written(n)'
  BY DEF DiskIInv, Disk!TypeOK, Owned, DiskFits, Written, LivePower
<1>7. Disk!CommittedIsComplete'
  BY DEF DiskIInv, Disk!TypeOK, Disk!CommittedIsComplete
<1> QED BY <1>1, <1>2, <1>3, <1>4, <1>5, <1>6, <1>7 DEF DiskIInv, DiskFits

\* What an exception leads to.
LEMMA FailsKeeps ==
  ASSUME Disk!ConstantsAssumption, DiskIInv, NEW m \in Machines, pc[m] \notin {"looking", "down"}, Disk!Fails(m),
         UNCHANGED <<Disk!machineVars, target, luns, nexus, hung, kills>>, inuse' \subseteq Machines
  PROVE  DiskIInv'
<1> USE DEF Disk!Fails, Disk!Goto, Disk!machineVars
<1>1. Disk!TypeOK'
  BY DEF DiskIInv, Disk!TypeOK, Disk!Steps
<1>2. Owned'
  BY DEF DiskIInv, Disk!TypeOK, Owned
<1>3. \A n \in Machines : Still(n)'
  BY DEF DiskIInv, Disk!TypeOK, DiskFits, Still
<1>4. \A n \in Machines : Runs(n)'
  BY DEF DiskIInv, Disk!TypeOK, DiskFits, Runs
<1>5. \A n \in Machines : Stage(n)'
  BY DEF DiskIInv, Disk!TypeOK, DiskFits, Stage
<1>6. \A n \in Machines : Written(n)'
  BY DEF DiskIInv, Disk!TypeOK, Owned, DiskFits, Written, LivePower
<1>7. Disk!CommittedIsComplete'
  BY DEF DiskIInv, Disk!TypeOK, Disk!CommittedIsComplete
<1> QED BY <1>1, <1>2, <1>3, <1>4, <1>5, <1>6, <1>7 DEF DiskIInv, DiskFits

LEMMA DaemonRestartsKeeps ==
  ASSUME Disk!ConstantsAssumption, DiskIInv, Disk!DaemonRestarts
  PROVE  DiskIInv'
<1> USE DEF Disk!DaemonRestarts, Disk!contractorVars, Disk!machineVars
<1>0. PICK live \in SUBSET Machines :
        /\ live = {n \in Machines : power[n] \in LivePower}
        /\ lost' = lost \union {root[n] : n \in live} \union UNION {luns[n] : n \in Machines}
  BY DEF LivePower
<1>1. Disk!TypeOK'
  <2>1. \A n \in live : root[n] \in Disk!Images
    BY <1>0 DEF DiskIInv, DiskFits, Runs, LivePower
  <2>2. \A n \in Machines : luns[n] \subseteq Disk!Images
    BY DEF DiskIInv, Disk!TypeOK
  <2>3. lost' \subseteq Disk!Images
    BY <1>0, <2>1, <2>2 DEF DiskIInv, Disk!TypeOK
  <2> QED BY <2>3 DEF DiskIInv, Disk!TypeOK, Disk!ConstantsAssumption
<1>2. Owned'
  BY DEF DiskIInv, Disk!TypeOK, Owned
<1>3. \A n \in Machines : Still(n)'
  BY DEF DiskIInv, Disk!TypeOK, DiskFits, Still
<1>4. \A n \in Machines : Runs(n)'
  BY DEF DiskIInv, Disk!TypeOK, DiskFits, Runs
<1>5. \A n \in Machines : Stage(n)'
  BY DEF DiskIInv, Disk!TypeOK, DiskFits, Stage
<1>6. \A n \in Machines : Written(n)'
  <2>1. lost \subseteq lost' /\ \A n \in Machines : power[n] \in LivePower => root[n] \in lost'
    BY <1>0
  <2>2. \A n \in Machines : (power[n] \in LivePower /\ pc[n] \in {"serving", "shutting"}) => root[n] = current[n]
    BY DEF DiskIInv, Disk!TypeOK, DiskFits, Runs, Stage, LivePower, Disk!ConstantsAssumption, Disk!Images
  <2> QED BY <2>1, <2>2 DEF DiskIInv, DiskFits, Written
<1>7. Disk!CommittedIsComplete'
  BY <1>0 DEF DiskIInv, Disk!CommittedIsComplete
<1> QED BY <1>1, <1>2, <1>3, <1>4, <1>5, <1>6, <1>7 DEF DiskIInv, DiskFits

LEMMA DiskIInvSafe == DiskIInv => Disk!Safety
<1> SUFFICES ASSUME DiskIInv PROVE Disk!Safety
  OBVIOUS
<1>1. Disk!FinishedIsDetached
  BY DEF DiskIInv, Disk!TypeOK, Owned, Disk!FinishedIsDetached
<1>2. Disk!OwnRoot
  BY DEF DiskIInv, Disk!TypeOK, Disk!OwnRoot, DiskFits, Runs, Still, LivePower
<1>3. Disk!ServedFromOwnImage
  BY DEF DiskIInv, Disk!ServedFromOwnImage, DiskFits, Still, Stage
<1> QED BY <1>1, <1>2, <1>3 DEF DiskIInv, Disk!Safety

LEMMA DiskInit == Disk!ConstantsAssumption /\ Disk!Init => DiskIInv
<1> SUFFICES ASSUME Disk!ConstantsAssumption, Disk!Init PROVE DiskIInv
  OBVIOUS
<1> USE DEF Disk!Init
<1>1. Disk!TypeOK
  BY DEF Disk!TypeOK, Disk!Steps, Disk!ConstantsAssumption
<1>2. Owned
  BY DEF Owned, Disk!ConstantsAssumption, Disk!Images
<1>3. \A m \in Machines : DiskFits(m)
  BY DEF DiskFits, Still, Runs, Stage, Written, LivePower
<1>4. Disk!CommittedIsComplete
  BY DEF Disk!CommittedIsComplete
<1> QED BY <1>1, <1>2, <1>3, <1>4 DEF DiskIInv

LEMMA DiskStutter ==
  ASSUME DiskIInv, UNCHANGED Disk!vars
  PROVE  DiskIInv'
<1> USE DEF Disk!vars, Disk!contractorVars, Disk!machineVars, Disk!daemonVars
<1>1. Disk!TypeOK'
  BY DEF DiskIInv, Disk!TypeOK
<1>2. Owned' /\ Disk!CommittedIsComplete'
  BY DEF DiskIInv, Owned, Disk!CommittedIsComplete
<1>3. \A m \in Machines : DiskFits(m)'
  BY DEF DiskIInv, DiskFits, Still, Runs, Stage, Written
<1> QED BY <1>1, <1>2, <1>3 DEF DiskIInv

\* The steps in which a contractor fails.
LEMMA FailingKeeps ==
  ASSUME Disk!ConstantsAssumption, DiskIInv, NEW m \in Machines,
         \/ Disk!WaitTimeout(m) \/ Disk!SwitchFails(m) \/ Disk!TellFails(m) \/ Disk!DetachRefused(m) \/ Disk!DetachFails(m)
         \/ Disk!AttachFails(m) \/ Disk!Rollback(m)
  PROVE  DiskIInv'
<1>1. /\ pc[m] \notin {"looking", "down"} /\ Disk!Fails(m) /\ inuse' \subseteq Machines
      /\ UNCHANGED <<Disk!machineVars, target, luns, nexus, hung, kills>>
  BY DEF Disk!WaitTimeout, Disk!SwitchFails, Disk!TellFails, Disk!DetachRefused, Disk!DetachFails, Disk!AttachFails, Disk!Rollback,
         Disk!machineVars, Disk!daemonVars, DiskIInv, Disk!TypeOK
<1> QED BY <1>1, FailsKeeps

LEMMA DiskStep ==
  ASSUME Disk!ConstantsAssumption, DiskIInv, [Disk!Next]_(Disk!vars)
  PROVE  DiskIInv'
<1>1. ASSUME NEW m \in Machines, Disk!Contractor(m) PROVE DiskIInv'
  <2>1. Disk!AttachMissing(m) => Disk!AttachFails(m)
    BY DEF Disk!AttachMissing
  <2> QED BY <1>1, <2>1, SeeDisconnectedKeeps, SwitchOffKeeps, SeeDownKeeps, StoppedKeeps, TellShutdownKeeps,
        ShutDownKeeps, DetachKeeps, HangKeeps, AttachKeeps, AttachToNoneKeeps, AddTargetKeeps, SwitchOnKeeps,
        FinishKeeps, RestartKeeps, FailingKeeps DEF Disk!Contractor
<1>2. ASSUME NEW m \in Machines, Disk!MachineStep(m) PROVE DiskIInv'
  BY <1>2, PowerUpKeeps, PowerDownKeeps, LogInKeeps, HaltKeeps, PingTimeoutKeeps DEF Disk!MachineStep
<1>3. ASSUME NEW m \in Machines,
             \/ Disk!Take(m) \/ Disk!SwitchFails(m) \/ Disk!DetachFails(m) \/ Disk!AttachFails(m) \/ Disk!Commit(m) \/ Disk!Kill(m)
             \/ Disk!Write(m) \/ Disk!LoseSession(m) \/ Disk!LogInAgain(m)
      PROVE DiskIInv'
  BY <1>3, TakeKeeps, FailingKeeps, DiskCommitKeeps, KillKeeps, WriteKeeps, LoseSessionKeeps, LogInAgainKeeps
<1> QED BY <1>1, <1>2, <1>3, DaemonRestartsKeeps, DiskStutter DEF Disk!Next

---------------------------------------------------------------------------
(* The part that a behaviour chose keeps its invariant, the others do not move. *)

ArmsInv ==
  /\ subject \in {"storage", "three contractors"} => StorageIInv
  /\ subject \in {"market", "two sessions"} => MarketIInv
  /\ subject \in {"disk", "one machine"} => DiskIInv

LEMMA ArmsInit ==
  ASSUME Init PROVE ArmsInv
BY PartsAssumption, StorageInit, MarketInit, DiskInit DEF Init, ArmsInv

LEMMA StorageMoves ==
  ASSUME ArmsInv, subject \in {"storage", "three contractors"}, [Next]_vars
  PROVE  ArmsInv'
<1>1. subject' = subject /\ [Storage!Next]_(Storage!vars)
  BY DEF Next, vars, storageVars, Storage!vars
<1>2. StorageIInv'
  BY <1>1, PartsAssumption, StorageStep DEF ArmsInv
<1> QED BY <1>1, <1>2 DEF ArmsInv

LEMMA MarketMoves ==
  ASSUME ArmsInv, subject \in {"market", "two sessions"}, [Next]_vars
  PROVE  ArmsInv'
<1>1. subject' = subject /\ [Market!Next]_(Market!vars)
  BY DEF Next, vars, marketVars, Market!vars
<1>2. MarketIInv'
  BY <1>1, PartsAssumption, MarketStep DEF ArmsInv
<1> QED BY <1>1, <1>2 DEF ArmsInv

LEMMA DiskMoves ==
  ASSUME ArmsInv, subject \in {"disk", "one machine"}, [Next]_vars
  PROVE  ArmsInv'
<1>1. subject' = subject /\ [Disk!Next]_(Disk!vars)
  BY DEF Next, vars, diskVars, Disk!vars, Disk!contractorVars, Disk!machineVars, Disk!daemonVars
<1>2. DiskIInv'
  BY <1>1, PartsAssumption, DiskStep DEF ArmsInv
<1> QED BY <1>1, <1>2 DEF ArmsInv

LEMMA ArmsStep ==
  ASSUME ArmsInv, [Next]_vars PROVE ArmsInv'
<1>1. CASE subject \in {"storage", "three contractors"}
  BY <1>1, StorageMoves
<1>2. CASE subject \in {"market", "two sessions"}
  BY <1>2, MarketMoves
<1>3. CASE subject \in {"disk", "one machine"}
  BY <1>3, DiskMoves
<1>4. CASE subject \notin {"storage", "three contractors", "market", "two sessions", "disk", "one machine"}
  <2>1. subject' = subject
    BY <1>4 DEF Next, vars
  <2> QED BY <1>4, <2>1 DEF ArmsInv
<1> QED BY <1>1, <1>2, <1>3, <1>4

\* The inductive invariant of the contractors' storage, market and disks.
THEOREM ArmsInvHolds == Spec => []ArmsInv
BY ArmsInit, ArmsStep, PTL DEF Spec

\* For any contractors, any tree of snapshots and any crashes: a contract's disk is nobody
\* else's and complete down to the root, and what is left behind is left by crashes
\* (PendingSnapshot, prune()).
THEOREM StorageSafetyHolds == Spec => []StorageSafety
<1>1. ArmsInv => StorageSafety
  BY StorageIInvSafe, PartsAssumption DEF ArmsInv, StorageSafety
<1> QED BY <1>1, ArmsInvHolds, PTL

\* For any machines, sessions and streams: a signed contract is served by the machine that
\* the client was given, its disk is committed or rolled back, and who is told that the
\* snapshot was committed has it (market.py, snapshots.py, arm_manager/server.py).
THEOREM MarketSafetyHolds == Spec => []MarketSafety
<1>1. ArmsInv => MarketSafety
  BY MarketIInvSafe DEF ArmsInv, MarketSafety
<1> QED BY <1>1, ArmsInvHolds, PTL

\* For any machines and images, any kills and lost sessions: a machine runs from the image of
\* its contract, and an image that is committed is complete and closed (machine.py,
\* qcow2target/pkg/api).
THEOREM DiskSafetyHolds == Spec => []DiskSafety
<1>1. ArmsInv => DiskSafety
  BY DiskIInvSafe DEF ArmsInv, DiskSafety
<1> QED BY <1>1, ArmsInvHolds, PTL

=============================================================================
