---------------------------- MODULE ServerProofs ----------------------------
(***************************************************************************)
(* Proofs about the server process, for any number of instances, sockets   *)
(* and messages: its type invariant, and that a process that shuts down    *)
(* without being forced cuts off no query of the pool it closed.           *)
(*                                                                         *)
(* The inductive invariant adds two facts to the types: once the HTTP      *)
(* server has closed, every socket of the instance is closed, and once the *)
(* pool is null, no flush of the instance is under way and every INSERT    *)
(* that is went to a second pool.                                          *)
(***************************************************************************)
EXTENDS Server, RelayProofs

SocketsClosed ==
  \A i \in Instance :
    phase[i] \notin {"up", "closing"} =>
      \A s \in Socket : Home[s] = i => sock[s] \in {"none", "closed"}

PoolIdle ==
  \A i \in Instance :
    phase[i] = "quitting" =>
      /\ \A m \in Msg : at[m] = i /\ stage[m] = "queueing" => m \in late
      /\ \A s \in Socket : Home[s] = i => flushing[s] = {} /\ fetched[s] = {}

Drained == SocketsClosed /\ PoolIdle /\ CleanExitDrains

-----------------------------------------------------------------------------
(* Types.                                                                   *)

LEMMA ServeType ==
  ASSUME ServerTypeOK, NEW s \in Socket, Serve(s)
  PROVE  ServerTypeOK'
BY ConnectionType DEF ServerTypeOK, Serve, procVars

LEMMA ElsewhereType ==
  ASSUME ServerTypeOK, Elsewhere
  PROVE  ServerTypeOK'
BY ServerType DEF ServerTypeOK, Elsewhere, procVars

LEMMA DeliverType ==
  ASSUME ServerTypeOK, NEW m \in Msg, Deliver(m)
  PROVE  ServerTypeOK'
<1>1. CASE Answered(m)
  <2>1. TypeOK'
    BY <1>1, ServerType DEF ServerTypeOK, Answered, MessageStep
  <2> QED BY <1>1, <2>1 DEF ServerTypeOK, Answered
<1>2. CASE Refused(m)
  <2>1. TypeOK'
    BY <1>2 DEF ServerTypeOK, TypeOK, Refused, Stage, connVars, flushVars, redisVars
  <2> QED BY <1>2, <2>1 DEF ServerTypeOK, Refused, procVars
<1>3. CASE ~Answered(m) /\ ~Refused(m)
  <2>1. TypeOK'
    BY <1>3, ServerType DEF ServerTypeOK, Deliver, MessageStep
  <2> QED BY <1>3, <2>1 DEF ServerTypeOK, Deliver, procVars
<1> QED BY <1>1, <1>2, <1>3

LEMMA ShutdownType ==
  ASSUME ServerTypeOK, NEW i \in Instance, ShutdownStep(i)
  PROVE  ServerTypeOK'
<1> USE DEF ServerTypeOK, Phase
<1>1. ASSUME NEW how \in {"exited", "forced"}, Exit(i, how) PROVE ServerTypeOK'
  <2>1. TypeOK'
    <3>1. faults' \in Nat
      BY <1>1 DEF Exit, TypeOK
    <3> QED BY <1>1, <3>1, StopType DEF Exit
  <2>2. Inserting(i) \union UNION {fetched[s] : s \in Flushing(i)} \in SUBSET Msg
    BY DEF Inserting, Flushing, TypeOK
  <2> QED BY <1>1, <2>1, <2>2 DEF Exit
<1>2. CASE Shutdown(i) \/ HttpClosed(i) \/ PoolClosed(i)
  <2>1. TypeOK'
    BY <1>2 DEF Shutdown, HttpClosed, PoolClosed, TypeOK, vars, connVars, flushVars, redisVars, msgVars
  <2> QED BY <1>2, <2>1 DEF Shutdown, HttpClosed, PoolClosed
<1> QED BY <1>1, <1>2 DEF ShutdownStep, RedisClosed, ForceExit

\* Type correctness of the server.
THEOREM ServerTypes ==
  ASSUME Instance # {}
  PROVE  ServerSpec => []ServerTypeOK
<1>1. ServerInit => ServerTypeOK
  BY DEF ServerInit, Init, ServerTypeOK, TypeOK, SocketState, Stage, Phase
<1>2. ServerTypeOK /\ [ServerNext]_serverVars => ServerTypeOK'
  <2> SUFFICES ASSUME ServerTypeOK, [ServerNext]_serverVars PROVE ServerTypeOK'
    OBVIOUS
  <2>1. CASE ServerNext
    BY <2>1, ServeType, DeliverType, ElsewhereType, ShutdownType DEF ServerNext
  <2>2. CASE UNCHANGED serverVars
    BY <2>2 DEF ServerTypeOK, TypeOK, serverVars, procVars, vars, connVars, flushVars,
                redisVars, msgVars
  <2> QED BY <2>1, <2>2
<1> QED BY <1>1, <1>2, PTL DEF ServerSpec

-----------------------------------------------------------------------------
(* A clean exit drains the pool.                                            *)

\* A turn that leaves shutdown where it is keeps the three facts when, where
\* the HTTP server has closed, it opens no socket, and where the pool is null,
\* it issues no query.
LEMMA TurnKeeps ==
  ASSUME Drained, UNCHANGED procVars,
         \A s \in Socket : phase[Home[s]] \notin {"up", "closing"} =>
           sock'[s] \in {sock[s], "none", "closed"},
         \A m \in Msg : stage'[m] = "queueing" =>
           phase[at'[m]] # "quitting" \/ (stage[m] = "queueing" /\ at'[m] = at[m]),
         \A s \in Socket : phase[Home[s]] = "quitting" =>
           flushing'[s] \subseteq flushing[s] /\ fetched'[s] \subseteq fetched[s]
  PROVE  Drained'
<1>1. SocketsClosed'
  BY DEF Drained, SocketsClosed, procVars
<1>2. PoolIdle'
  BY DEF Drained, PoolIdle, procVars
<1>3. CleanExitDrains'
  BY DEF Drained, CleanExitDrains, procVars
<1> QED BY <1>1, <1>2, <1>3 DEF Drained

\* The turns of a connection: where the HTTP server has closed, only a flush
\* is left to run, and where the pool is null, nothing.
LEMMA ServeKeeps ==
  ASSUME ServerTypeOK, Drained, NEW s \in Socket, Serve(s)
  PROVE  Drained'
<1> USE TopologyAssumption DEF ServerTypeOK, TypeOK
<1>1. UNCHANGED procVars /\ ConnectionStep(s)
  BY DEF Serve
<1>2. ASSUME phase[Home[s]] \notin {"up", "closing"} PROVE sock[s] = "closed"
  BY <1>2 DEF Serve, Drained, SocketsClosed
<1>3. ASSUME phase[Home[s]] = "quitting" PROVE flushing[s] = {} /\ fetched[s] = {}
  BY <1>3 DEF Drained, PoolIdle
<1>4. CASE \/ Connect(s) \/ Authenticate(s) \/ CloseUnregistered(s) \/ PeerCloses(s)
           \/ PeerVanishes(s) \/ HeartbeatTerminates(s) \/ CloseEvent(s)
  <2>1. phase[Home[s]] \in {"up", "closing"} \/ sock' = sock
    BY <1>2, <1>4 DEF Connect, Authenticate, CloseUnregistered, IsOpen, PeerCloses,
                      PeerVanishes, HeartbeatTerminates, CloseEvent
  <2>2. \A t \in Socket : t # s => sock'[t] = sock[t]
    BY <1>4 DEF Connect, Authenticate, CloseUnregistered, PeerCloses, PeerVanishes,
                HeartbeatTerminates, CloseEvent
  <2>3. UNCHANGED <<flushVars, stage, at>>
    BY <1>4 DEF Connect, Authenticate, CloseUnregistered, PeerCloses, PeerVanishes,
                HeartbeatTerminates, CloseEvent, msgVars
  <2> QED BY <1>1, <2>1, <2>2, <2>3, TurnKeeps DEF flushVars
<1>5. CASE FlushSend(s)
  <2>1. UNCHANGED <<sock, stage, at>> /\ fetched'[s] = {} /\ flushing' = flushing
        /\ \A t \in Socket : t # s => fetched'[t] = fetched[t]
    BY <1>5 DEF FlushSend, connVars
  <2> QED BY <1>1, <2>1, TurnKeeps
<1>6. ASSUME NEW k \in Key, Register(s, k) PROVE Drained'
  <2>1. phase[Home[s]] \in {"up", "closing"}
    BY <1>2, <1>6 DEF Register, CanSpeak
  <2>2. UNCHANGED <<sock, stage, at, fetched>>
        /\ \A t \in Socket : t # s => flushing'[t] = flushing[t]
    BY <1>6 DEF Register, msgVars
  <2> QED BY <1>1, <2>1, <2>2, TurnKeeps
<1>7. ASSUME NEW k \in Key, FlushQuery(s, k) \/ FlushFails(s, k) PROVE Drained'
  <2>1. phase[Home[s]] # "quitting"
    BY <1>3, <1>7 DEF FlushQuery, FlushFails
  <2>2. UNCHANGED <<sock, stage, at>>
        /\ \A t \in Socket : t # s => flushing'[t] = flushing[t] /\ fetched'[t] = fetched[t]
    BY <1>7 DEF FlushQuery, FlushFails, connVars
  <2> QED BY <1>1, <2>1, <2>2, TurnKeeps
<1>8. ASSUME NEW m \in Msg, Send(m, s) \/ SendPresence(m, s) PROVE Drained'
  <2>1. phase[Home[s]] \in {"up", "closing"}
    BY <1>2, <1>8 DEF Send, SendPresence, CanSpeak
  <2>2. UNCHANGED <<sock, flushing, fetched>> /\ at'[m] = Home[s]
        /\ \A n \in Msg : n # m => stage'[n] = stage[n] /\ at'[n] = at[n]
    BY <1>8 DEF Send, SendPresence, connVars, flushVars
  <2> QED BY <1>1, <2>1, <2>2, TurnKeeps
<1> QED BY <1>1, <1>4, <1>5, <1>6, <1>7, <1>8 DEF ConnectionStep

\* The turns of a delivery: an INSERT issued once the pool is null is late.
LEMMA DeliverKeeps ==
  ASSUME ServerTypeOK, Drained, NEW m \in Msg, Deliver(m)
  PROVE  Drained'
<1> USE TopologyAssumption DEF ServerTypeOK, TypeOK
<1>1. CASE Answered(m)
  <2>1. UNCHANGED <<sock, flushing, fetched, at, phase, cut>> /\ late \subseteq late'
        /\ \A n \in Msg : n # m => stage'[n] = stage[n]
    BY <1>1 DEF Answered, CheckOnline, connVars, flushVars
  <2>2. phase[at[m]] = "quitting" /\ stage'[m] = "queueing" => m \in late'
    BY <1>1 DEF Answered, CheckOnline
  <2>3. SocketsClosed' /\ CleanExitDrains'
    BY <2>1 DEF Drained, SocketsClosed, CleanExitDrains
  <2>4. PoolIdle'
    BY <2>1, <2>2 DEF Drained, PoolIdle
  <2> QED BY <2>3, <2>4 DEF Drained
<1>2. CASE ~Answered(m)
  <2>1. UNCHANGED procVars /\ UNCHANGED <<sock, flushing, fetched, at>>
    BY <1>2 DEF Deliver, Refused, PublishAgain, QueueOfflineMessage, DeliveryFails, QueueCleanup,
                connVars, flushVars, msgVars
  <2>2. \A n \in Msg : stage'[n] = "queueing" => stage[n] = "queueing"
    BY <1>2 DEF Deliver, Refused, PublishAgain, QueueOfflineMessage, DeliveryFails, QueueCleanup, msgVars
  <2> QED BY <2>1, <2>2, TurnKeeps
<1> QED BY <1>1, <1>2

\* The end of a process only closes sockets and drops queries.
LEMMA StopShrinks ==
  ASSUME ServerTypeOK, NEW i \in Instance, Stop(i)
  PROVE  /\ \A s \in Socket : sock'[s] \in {sock[s], "closed"}
         /\ \A s \in Socket : Home[s] = i => sock'[s] \in {"none", "closed"}
         /\ at' = at /\ \A m \in Msg : stage'[m] = "queueing" => stage[m] = "queueing"
         /\ \A s \in Socket : flushing'[s] \subseteq flushing[s] /\ fetched'[s] \subseteq fetched[s]
BY TopologyAssumption DEF Stop, Cut, ServerTypeOK, TypeOK

LEMMA ElsewhereKeeps ==
  ASSUME ServerTypeOK, Drained, Elsewhere
  PROVE  Drained'
<1>1. UNCHANGED procVars
  BY DEF Elsewhere
<1>2. ASSUME NEW i \in Instance, Crash(i) PROVE Drained'
  BY <1>1, <1>2, StopShrinks, TurnKeeps DEF Crash
<1>3. ASSUME NEW i \in Instance, RelayChannel(i) PROVE Drained'
  BY <1>1, <1>3, TurnKeeps DEF RelayChannel, connVars, flushVars
<1>4. ASSUME NEW k \in Key, PresenceExpires(k) \/ RefreshFails(k) PROVE Drained'
  BY <1>1, <1>4, TurnKeeps DEF PresenceExpires, RefreshFails, connVars, flushVars, msgVars
<1> QED BY <1>2, <1>3, <1>4 DEF Elsewhere

\* shutdown: each wait establishes its fact, and what the exit cuts off is
\* what the second pool was asked.
LEMMA ShutdownKeeps ==
  ASSUME ServerTypeOK, Drained, NEW i \in Instance, ShutdownStep(i)
  PROVE  Drained'
<1> USE TopologyAssumption DEF ServerTypeOK, TypeOK
<1>1. CASE Shutdown(i) \/ HttpClosed(i)
  <2>1. UNCHANGED <<sock, at, stage, flushing, fetched, late, cut>>
        /\ phase'[i] \in {"closing", "draining"}
        /\ \A j \in Instance : j # i => phase'[j] = phase[j]
    BY <1>1 DEF Shutdown, HttpClosed, vars, connVars, flushVars, msgVars
  <2>2. phase'[i] = "draining" =>
          \A s \in Socket : Home[s] = i => sock[s] \in {"none", "closed"}
    BY <1>1 DEF Shutdown, HttpClosed
  <2>3. SocketsClosed'
    BY <2>1, <2>2 DEF Drained, SocketsClosed
  <2>4. PoolIdle' /\ CleanExitDrains'
    BY <2>1 DEF Drained, PoolIdle, CleanExitDrains
  <2> QED BY <2>3, <2>4 DEF Drained
<1>2. CASE PoolClosed(i)
  <2>1. UNCHANGED <<sock, at, stage, flushing, fetched, late, cut>>
        /\ phase[i] = "draining" /\ phase'[i] = "quitting"
        /\ \A j \in Instance : j # i => phase'[j] = phase[j]
    BY <1>2 DEF PoolClosed, vars, connVars, flushVars, msgVars
  <2>2. SocketsClosed' /\ CleanExitDrains'
    BY <2>1 DEF Drained, SocketsClosed, CleanExitDrains
  <2>3. PoolIdle'
    BY <1>2, <2>1 DEF Drained, PoolIdle, PoolClosed, Inserting, Flushing
  <2> QED BY <2>2, <2>3 DEF Drained
<1>3. ASSUME NEW how \in {"exited", "forced"}, Exit(i, how),
             how = "exited" => phase[i] = "quitting"
      PROVE  Drained'
  <2>1. phase'[i] = how /\ late' = late
        /\ \A j \in Instance : j # i => phase'[j] = phase[j] /\ cut'[j] = cut[j]
    BY <1>3 DEF Exit
  <2>2. SocketsClosed'
    BY <1>3, <2>1, StopShrinks DEF Exit, Drained, SocketsClosed
  <2>3. PoolIdle'
    BY <1>3, <2>1, StopShrinks DEF Exit, Drained, PoolIdle
  <2>4. how = "exited" => cut'[i] \subseteq late
    <3>1. how = "exited" => Inserting(i) \subseteq late /\ Flushing(i) = {}
      BY <1>3 DEF Drained, PoolIdle, Inserting, Flushing
    <3>2. cut'[i] = Inserting(i) \union UNION {fetched[s] : s \in Flushing(i)}
      BY <1>3 DEF Exit
    <3> QED BY <3>1, <3>2
  <2>5. CleanExitDrains'
    BY <2>1, <2>4 DEF Drained, CleanExitDrains
  <2> QED BY <2>2, <2>3, <2>5 DEF Drained
<1> QED BY <1>1, <1>2, <1>3 DEF ShutdownStep, RedisClosed, ForceExit

\* A process that ends without being forced has let the pool it closed answer
\* every query: what its exit cuts off was asked of a second pool.
THEOREM DrainsOnCleanExit ==
  ASSUME Instance # {}
  PROVE  ServerSpec => []CleanExitDrains
<1>1. ServerInit => Drained
  BY DEF ServerInit, Drained, SocketsClosed, PoolIdle, CleanExitDrains
<1>2. ServerTypeOK /\ Drained /\ [ServerNext]_serverVars => Drained'
  <2> SUFFICES ASSUME ServerTypeOK, Drained, [ServerNext]_serverVars PROVE Drained'
    OBVIOUS
  <2>1. CASE ServerNext
    BY <2>1, ServeKeeps, DeliverKeeps, ElsewhereKeeps, ShutdownKeeps DEF ServerNext
  <2>2. CASE UNCHANGED serverVars
    BY <2>2, TurnKeeps DEF serverVars, procVars, vars, connVars, flushVars, msgVars
  <2> QED BY <2>1, <2>2
<1>3. Drained => CleanExitDrains
  BY DEF Drained
<1> QED BY <1>1, <1>2, <1>3, ServerTypes, PTL DEF ServerSpec
=============================================================================
