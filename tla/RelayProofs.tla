---------------------------- MODULE RelayProofs ----------------------------
(***************************************************************************)
(* Proofs about the relay, for any number of instances, sockets, keys and  *)
(* messages: its type invariant; that no instance's map ever holds a       *)
(* connection that is over or that is registered under another key; that   *)
(* the newest connection is the one reached; and how many copies of a      *)
(* message there may be, with Redis and without.                           *)
(***************************************************************************)
EXTENDS Relay, FiniteSetTheorems, SequenceTheorems, TLAPS

\* Handing frames to any socket changes the two counts of messages only.
LEMMA HandType ==
  ASSUME handed \in [Msg -> Nat], dropped \subseteq Msg, NEW t, NEW ms \in SUBSET Msg,
         Hand(t, ms)
  PROVE  handed' \in [Msg -> Nat] /\ dropped' \subseteq Msg
<1>1. ASSUME NEW m \in Msg
      PROVE  (IF m \in ms /\ sock[t] = "OPEN" THEN handed[m] + 1 ELSE handed[m]) \in Nat
  OBVIOUS
<1>2. handed' \in [Msg -> Nat]
  BY <1>1 DEF Hand
<1>3. dropped' \subseteq Msg
  BY DEF Hand
<1> QED BY <1>2, <1>3

\* A publication is one more message on every instance's channel.
LEMMA PublishType ==
  ASSUME bus \in [Instance -> Seq(Msg)], NEW m \in Msg
  PROVE  Publish(m) \in [Instance -> Seq(Msg)]
<1>1. ASSUME NEW j \in Instance PROVE Append(bus[j], m) \in Seq(Msg)
  OBVIOUS
<1> QED BY <1>1 DEF Publish

\* What becomes of the commands for presence keys keeps their type.
LEMMA PresenceType ==
  ASSUME online \subseteq Key, faults \in Nat, NEW set \in SUBSET Key, NEW del, Presence(set, del)
  PROVE  online' \subseteq Key /\ faults' \in Nat
BY DEF Presence

\* The data a step of a connection reads and writes keeps its type: the
\* life of a connection, its registration and its flush (relay.ts 202-340).
LEMMA ConnectionType ==
  ASSUME TypeOK, NEW s \in Socket, ConnectionStep(s)
  PROVE  TypeOK'
<1> USE TopologyAssumption DEF TypeOK, vars, connVars, flushVars, redisVars, msgVars
<1>1. CASE Connect(s)
  BY <1>1 DEF Connect, SocketState
<1>2. CASE Authenticate(s)
  BY <1>2 DEF Authenticate
<1>3. CASE CloseUnregistered(s)
  BY <1>3 DEF CloseUnregistered, SocketState
<1>4. CASE PeerCloses(s)
  BY <1>4 DEF PeerCloses, SocketState
<1>5. CASE PeerVanishes(s)
  BY <1>5 DEF PeerVanishes, SocketState
<1>6. CASE HeartbeatTerminates(s)
  BY <1>6 DEF HeartbeatTerminates, SocketState
<1>7. CASE CloseEvent(s)
  <2>1. clients' \in [Instance -> [Key -> Socket \union {NoSocket}]]
    BY <1>7 DEF CloseEvent, Owns, Registered
  <2>2. online' \subseteq Key /\ faults' \in Nat
    BY <1>7, PresenceType DEF CloseEvent
  <2> QED BY <1>7, <2>1, <2>2 DEF CloseEvent, SocketState
<1>8. CASE FlushSend(s)
  <2>1. handed' \in [Msg -> Nat] /\ dropped' \subseteq Msg /\ lost' \subseteq Msg
    <3>1. fetched[s] \subseteq Msg
      OBVIOUS
    <3>2. CASE IsOpen(s)
      BY <1>8, <3>1, <3>2, HandType DEF FlushSend
    <3>3. CASE ~IsOpen(s)
      BY <1>8, <3>1, <3>3 DEF FlushSend
    <3> QED BY <3>2, <3>3
  <2> QED BY <1>8, <2>1 DEF FlushSend
<1>9. ASSUME NEW k \in Key, Register(s, k) PROVE TypeOK'
  <2>1. clients' \in [Instance -> [Key -> Socket \union {NoSocket}]]
    BY <1>9 DEF Register
  <2>2. regKey' \in [Socket -> Key \union {NoKey}] /\ regs' \in [Socket -> Nat]
        /\ latest' \in [Key -> Socket \union {NoSocket}]
    BY <1>9 DEF Register
  <2>3. online' \subseteq Key /\ faults' \in Nat
    <3>1. (IF REDIS THEN {k} ELSE {}) \in SUBSET Key
      OBVIOUS
    <3> QED BY <1>9, <3>1, PresenceType DEF Register
  <2>4. flushing' \in [Socket -> SUBSET Key]
    BY <1>9 DEF Register
  <2> QED BY <1>9, <2>1, <2>2, <2>3, <2>4 DEF Register
<1>10. ASSUME NEW k \in Key, FlushQuery(s, k) PROVE TypeOK'
  <2>1. Rows(k) \subseteq Msg
    BY DEF Rows
  <2> QED BY <1>10, <2>1 DEF FlushQuery
<1>11. ASSUME NEW k \in Key, FlushFails(s, k) PROVE TypeOK'
  <2>1. Rows(k) \subseteq Msg
    BY DEF Rows
  <2> QED BY <1>11, <2>1 DEF FlushFails
<1>12. ASSUME NEW m \in Msg, Send(m, s) PROVE TypeOK'
  <2>1. handed' \in [Msg -> Nat] /\ dropped' \subseteq Msg
    <3>1. {m} \subseteq Msg
      OBVIOUS
    <3> QED BY <1>12, <3>1, HandType DEF Send
  <2>2. bus' \in [Instance -> Seq(Msg)]
    BY <1>12, PublishType DEF Send
  <2>3. stage' \in [Msg -> Stage] /\ at' \in [Msg -> Instance]
    BY <1>12 DEF Send, Stage
  <2> QED BY <1>12, <2>1, <2>2, <2>3 DEF Send
<1>13. ASSUME NEW m \in Msg, SendPresence(m, s) PROVE TypeOK'
  <2>1. handed' \in [Msg -> Nat] /\ dropped' \subseteq Msg
    <3>1. {m} \subseteq Msg
      OBVIOUS
    <3> QED BY <1>13, <3>1, HandType DEF SendPresence
  <2>2. bus' \in [Instance -> Seq(Msg)]
    BY <1>13, PublishType DEF SendPresence
  <2>3. stage' \in [Msg -> Stage] /\ at' \in [Msg -> Instance]
    BY <1>13 DEF SendPresence, Stage
  <2> QED BY <1>13, <2>1, <2>2, <2>3 DEF SendPresence
<1> QED
  BY <1>1, <1>2, <1>3, <1>4, <1>5, <1>6, <1>7, <1>8, <1>9, <1>10, <1>11, <1>12, <1>13
     DEF ConnectionStep

\* The end of a process keeps the types, whatever is done to the bound on
\* failures.
LEMMA StopType ==
  ASSUME TypeOK, NEW i \in Instance, Stop(i), faults' \in Nat
  PROVE  TypeOK'
<1> USE TopologyAssumption DEF TypeOK
<1>1. sock' \in [Socket -> SocketState]
  BY DEF Stop, SocketState
<1>2. clients' \in [Instance -> [Key -> Socket \union {NoSocket}]]
  BY DEF Stop
<1>3. flushing' \in [Socket -> SUBSET Key] /\ fetched' \in [Socket -> SUBSET Msg]
  BY DEF Stop
<1>4. lost' \subseteq Msg
  BY DEF Stop, Cut
<1>5. bus' \in [Instance -> Seq(Msg)] /\ stage' \in [Msg -> Stage]
  BY DEF Stop, Stage
<1> QED BY <1>1, <1>2, <1>3, <1>4, <1>5 DEF Stop

\* The steps of a message, of Redis, of the clean-up and a crash keep the
\* types too (relay.ts 172-180 and 465-515, index.ts 31-44).
LEMMA ServerType ==
  ASSUME TypeOK,
         \/ \E m \in Msg : MessageStep(m)
         \/ \E i \in Instance : RelayChannel(i) \/ Crash(i)
         \/ \E k \in Key : PresenceExpires(k) \/ RefreshFails(k)
  PROVE  TypeOK'
<1> USE TopologyAssumption DEF TypeOK, vars, connVars, flushVars, redisVars, msgVars
<1>1. ASSUME NEW m \in Msg, CheckOnline(m) PROVE TypeOK'
  BY <1>1 DEF CheckOnline, Stage
<1>2. ASSUME NEW m \in Msg, QueueOfflineMessage(m) PROVE TypeOK'
  BY <1>2 DEF QueueOfflineMessage, Stage
<1>3. ASSUME NEW m \in Msg, DeliveryFails(m) PROVE TypeOK'
  BY <1>3 DEF DeliveryFails, Stage
<1>4. ASSUME NEW m \in Msg, QueueCleanup(m) PROVE TypeOK'
  BY <1>4 DEF QueueCleanup
<1>5. ASSUME NEW i \in Instance, RelayChannel(i) PROVE TypeOK'
  <2>1. Head(bus[i]) \in Msg /\ Tail(bus[i]) \in Seq(Msg)
    BY <1>5 DEF RelayChannel
  <2>2. handed' \in [Msg -> Nat] /\ dropped' \subseteq Msg
    <3>1. {Head(bus[i])} \subseteq Msg
      BY <2>1
    <3> QED BY <1>5, <3>1, HandType DEF RelayChannel
  <2> QED BY <1>5, <2>1, <2>2 DEF RelayChannel
<1>6. ASSUME NEW i \in Instance, Crash(i) PROVE TypeOK'
  BY <1>6, StopType DEF Crash
<1>7. ASSUME NEW k \in Key, PresenceExpires(k) \/ RefreshFails(k) PROVE TypeOK'
  BY <1>7 DEF PresenceExpires, RefreshFails
<1>8. ASSUME NEW m \in Msg, PublishAgain(m) PROVE TypeOK'
  BY <1>8, PublishType DEF PublishAgain
<1> QED
  BY <1>1, <1>2, <1>3, <1>4, <1>5, <1>6, <1>7, <1>8 DEF MessageStep

\* Type correctness of the relay.  An instance is needed for the value that
\* `at` has before a message is sent.
THEOREM RelayTypes ==
  ASSUME Instance # {}
  PROVE  Spec => []TypeOK
<1>1. Init => TypeOK
  BY DEF Init, TypeOK, SocketState, Stage
<1>2. TypeOK /\ [Next]_vars => TypeOK'
  <2> SUFFICES ASSUME TypeOK, [Next]_vars PROVE TypeOK'
    OBVIOUS
  <2>1. CASE Next
    BY <2>1, ConnectionType, ServerType DEF Next
  <2>2. CASE UNCHANGED vars
    BY <2>2 DEF TypeOK, vars, connVars, flushVars, redisVars, msgVars
  <2> QED BY <2>1, <2>2
<1> QED BY <1>1, <1>2, PTL DEF Spec

\* Only five kinds of step touch what EntriesAreOwned is about: the map, the
\* state of a connection and its key.
LEMMA EntriesKept ==
  ASSUME TypeOK, EntriesAreOwned, UNCHANGED <<sock, regKey, clients>>
  PROVE  EntriesAreOwned'
BY DEF EntriesAreOwned

\* A step that only moves a served connection on leaves its entry in place.
LEMMA EntriesMove ==
  ASSUME TypeOK, EntriesAreOwned, NEW s \in Socket, NEW to,
         sock' = [sock EXCEPT ![s] = to], UNCHANGED <<regKey, clients>>,
         sock[s] = "none" \/ to \notin {"none", "refused", "closed"}
  PROVE  EntriesAreOwned'
<1> SUFFICES ASSUME NEW i \in Instance, NEW k \in Key, NEW t \in Socket, clients[i][k] = t
             PROVE  Home[t] = i /\ regKey[t] = k
                    /\ sock'[t] \notin {"none", "refused", "closed"}
  BY DEF EntriesAreOwned
<1>1. Home[t] = i /\ regKey[t] = k /\ sock[t] \notin {"none", "refused", "closed"}
  BY DEF EntriesAreOwned
<1>2. sock'[t] = IF t = s THEN to ELSE sock[t]
  BY DEF TypeOK
<1> QED BY <1>1, <1>2

\* No reconnect, re-registration, close or crash leaves an entry in a map to
\* a connection that is over, or registered elsewhere or under another key.
THEOREM MapsAreExact ==
  ASSUME Instance # {}
  PROVE  Spec => []EntriesAreOwned
<1>1. Init => EntriesAreOwned
  BY NullsAssumption DEF Init, EntriesAreOwned
<1>2. TypeOK /\ EntriesAreOwned /\ [Next]_vars => EntriesAreOwned'
  <2> SUFFICES ASSUME TypeOK, EntriesAreOwned, [Next]_vars
               PROVE  EntriesAreOwned'
    OBVIOUS
  <2> USE TopologyAssumption, NullsAssumption
  <2>1. ASSUME NEW s \in Socket, ConnectionStep(s) PROVE EntriesAreOwned'
    <3>1. CASE Connect(s)
      BY <3>1, EntriesMove DEF Connect
    <3>2. CASE CloseUnregistered(s)
      BY <3>2, EntriesMove DEF CloseUnregistered, IsOpen
    <3>3. CASE PeerCloses(s) \/ PeerVanishes(s) \/ HeartbeatTerminates(s)
      BY <3>3, EntriesMove DEF PeerCloses, PeerVanishes, HeartbeatTerminates
    <3>4. CASE CloseEvent(s)
      <4>1. CASE Owns(s)
        <5> SUFFICES ASSUME NEW i \in Instance, NEW k \in Key, NEW t \in Socket,
                            clients'[i][k] = t
                     PROVE  Home[t] = i /\ regKey'[t] = k
                            /\ sock'[t] \notin {"none", "refused", "closed"}
          BY DEF EntriesAreOwned
        <5>1. clients' = [clients EXCEPT ![Home[s]][regKey[s]] = NoSocket]
          BY <3>4, <4>1 DEF CloseEvent
        <5>2. clients[i][k] = t /\ ~(i = Home[s] /\ k = regKey[s])
          BY <5>1 DEF TypeOK
        <5>3. Home[t] = i /\ regKey[t] = k /\ sock[t] \notin {"none", "refused", "closed"}
          BY <5>2 DEF EntriesAreOwned
        <5>4. t # s
          BY <5>2, <5>3
        <5> QED BY <3>4, <5>3, <5>4 DEF CloseEvent, TypeOK
      <4>2. CASE ~Owns(s)
        <5>1. \A i \in Instance, k \in Key : clients[i][k] # s
          BY <4>2 DEF Owns, Registered, EntriesAreOwned
        <5> SUFFICES ASSUME NEW i \in Instance, NEW k \in Key, NEW t \in Socket,
                            clients[i][k] = t
                     PROVE  Home[t] = i /\ regKey[t] = k
                            /\ sock'[t] \notin {"none", "refused", "closed"}
          BY <3>4, <4>2 DEF CloseEvent, EntriesAreOwned
        <5>2. Home[t] = i /\ regKey[t] = k /\ sock[t] \notin {"none", "refused", "closed"}
          BY DEF EntriesAreOwned
        <5> QED BY <3>4, <5>1, <5>2 DEF CloseEvent, TypeOK
      <4> QED BY <4>1, <4>2
    <3>5. ASSUME NEW k \in Key, Register(s, k) PROVE EntriesAreOwned'
      <4>1. /\ sock[s] \notin {"none", "refused", "closed"} /\ sock' = sock
            /\ regKey' = [regKey EXCEPT ![s] = k]
        BY <3>5 DEF Register, CanSpeak
      <4>2. ASSUME NEW i \in Instance, NEW l \in Key, NEW t \in Socket,
                   clients'[i][l] = t
            PROVE  Home[t] = i /\ regKey'[t] = l
                   /\ sock'[t] \notin {"none", "refused", "closed"}
        <5>1. CASE i = Home[s] /\ l = k
          BY <3>5, <4>1, <4>2, <5>1 DEF Register, TypeOK
        <5>2. CASE ~(i = Home[s] /\ l = k)
          <6>1. clients[i][l] = t /\ ~(i = Home[s] /\ Leaves(s, k) /\ l = regKey[s])
            <7> DEFINE old == IF Leaves(s, k)
                              THEN [clients[Home[s]] EXCEPT ![regKey[s]] = NoSocket]
                              ELSE clients[Home[s]]
            <7>1. clients' = [clients EXCEPT ![Home[s]] = [old EXCEPT ![k] = s]]
              BY <3>5 DEF Register
            <7>2. CASE i # Home[s]
              BY <4>2, <7>1, <7>2 DEF TypeOK
            <7>3. CASE i = Home[s] /\ l # k
              <8>1. clients'[i][l] = old[l]
                BY <7>1, <7>3 DEF TypeOK
              <8> QED BY <4>2, <7>3, <8>1 DEF TypeOK
            <7> QED BY <5>2, <7>2, <7>3
          <6>2. Home[t] = i /\ regKey[t] = l /\ sock[t] \notin {"none", "refused", "closed"}
            BY <6>1 DEF EntriesAreOwned
          <6>3. t # s
            BY <5>2, <6>1, <6>2 DEF Leaves, Registered
          <6> QED BY <4>1, <6>2, <6>3 DEF TypeOK
        <5> QED BY <5>1, <5>2
      <4> QED BY <4>2 DEF EntriesAreOwned
    <3>6. CASE Authenticate(s) \/ FlushSend(s)
      BY <3>6, EntriesKept DEF Authenticate, FlushSend, connVars
    <3>7. ASSUME NEW k \in Key, FlushQuery(s, k) \/ FlushFails(s, k) PROVE EntriesAreOwned'
      BY <3>7, EntriesKept DEF FlushQuery, FlushFails, connVars
    <3>8. ASSUME NEW m \in Msg, Send(m, s) \/ SendPresence(m, s) PROVE EntriesAreOwned'
      BY <3>8, EntriesKept DEF Send, SendPresence, connVars
    <3> QED
      BY <2>1, <3>1, <3>2, <3>3, <3>4, <3>5, <3>6, <3>7, <3>8 DEF ConnectionStep
  <2>2. ASSUME NEW m \in Msg, MessageStep(m) PROVE EntriesAreOwned'
    BY <2>2, EntriesKept
       DEF MessageStep, PublishAgain, CheckOnline, QueueOfflineMessage, DeliveryFails, QueueCleanup,
           connVars
  <2>3. ASSUME NEW i \in Instance, RelayChannel(i) PROVE EntriesAreOwned'
    BY <2>3, EntriesKept DEF RelayChannel, connVars
  <2>4. ASSUME NEW i \in Instance, Crash(i) PROVE EntriesAreOwned'
    <3>1. ASSUME NEW j \in Instance, NEW k \in Key, NEW s \in Socket,
                 clients'[j][k] = s
          PROVE  Home[s] = j /\ regKey'[s] = k
                 /\ sock'[s] \notin {"none", "refused", "closed"}
      <4>1. j # i /\ clients[j][k] = s
        BY <2>4, <3>1 DEF Crash, Stop, TypeOK
      <4>2. Home[s] = j /\ regKey[s] = k /\ sock[s] \notin {"none", "refused", "closed"}
        BY <4>1 DEF EntriesAreOwned
      <4>3. sock'[s] = sock[s] /\ regKey' = regKey
        BY <2>4, <4>1, <4>2 DEF Crash, Stop, Cut
      <4> QED BY <4>2, <4>3
    <3> QED BY <3>1 DEF EntriesAreOwned
  <2>5. ASSUME NEW k \in Key, PresenceExpires(k) \/ RefreshFails(k) PROVE EntriesAreOwned'
    BY <2>5, EntriesKept DEF PresenceExpires, RefreshFails, connVars
  <2>6. CASE UNCHANGED vars
    BY <2>6, EntriesKept DEF vars, connVars
  <2> QED BY <2>1, <2>2, <2>3, <2>4, <2>5, <2>6 DEF Next
<1> QED BY <1>1, <1>2, RelayTypes, PTL DEF Spec

-----------------------------------------------------------------------------
(* The newest socket is the one reached.                                    *)

\* A connection registers only keys its client wants, and after it connected.
RegisteredAsWanted ==
  \A s \in Socket :
    /\ Registered(s) => regKey[s] \in Wants[s] /\ sock[s] # "none"
    /\ regs[s] = 0 => ~Registered(s)

\* While no connection may have switched keys, the newest one is reached.
NewestHeld == RegisteredAsWanted /\ NewestReachableAtFirst

\* Steps that only take connections towards their end.
LEMMA NewestMoves ==
  ASSUME TypeOK, NewestHeld, UNCHANGED <<regKey, clients, regs, latest>>,
         \A s \in Socket : sock'[s] = sock[s] \/ (sock[s] = "none" /\ ~Registered(s))
                           \/ (sock[s] # "none" /\ sock'[s] # "none" /\ (IsOpen(s)' => IsOpen(s)))
  PROVE  NewestHeld'
<1>1. RegisteredAsWanted'
  BY DEF NewestHeld, RegisteredAsWanted, Registered
<1>2. MaySwitch' <=> MaySwitch
  BY DEF MaySwitch
<1>3. ASSUME NewestReachable PROVE NewestReachable'
  <2> SUFFICES ASSUME NEW k \in Key, NEW s \in Socket, latest[k] = s, regKey[s] = k, IsOpen(s)'
               PROVE  clients[Home[s]][k] = s
    BY DEF NewestReachable
  <2>1. IsOpen(s)
    BY NullsAssumption DEF IsOpen, Registered
  <2> QED BY <1>3, <2>1 DEF NewestReachable
<1> QED BY <1>1, <1>2, <1>3 DEF NewestHeld, NewestReachableAtFirst

\* A close event takes no entry from the newest socket unless it is its own.
LEMMA NewestCloses ==
  ASSUME TypeOK, NewestHeld, NEW s \in Socket, CloseEvent(s)
  PROVE  NewestHeld'
<1>1. /\ sock[s] \in {"closing", "gone", "refused"} /\ sock' = [sock EXCEPT ![s] = "closed"]
      /\ UNCHANGED <<regKey, regs, latest>>
  BY DEF CloseEvent
<1>2. RegisteredAsWanted'
  BY <1>1 DEF NewestHeld, RegisteredAsWanted, Registered, TypeOK
<1>3. MaySwitch' <=> MaySwitch
  BY <1>1 DEF MaySwitch
<1>4. ASSUME NewestReachable PROVE NewestReachable'
  <2> SUFFICES ASSUME NEW k \in Key, NEW t \in Socket, latest[k] = t, regKey[t] = k, IsOpen(t)'
               PROVE  clients'[Home[t]][k] = t
    BY <1>1 DEF NewestReachable
  <2>1. t # s /\ IsOpen(t)
    BY <1>1 DEF IsOpen, TypeOK
  <2>2. clients[Home[t]][k] = t
    BY <1>4, <2>1 DEF NewestReachable
  <2>3. CASE Owns(s)
    <3>1. clients' = [clients EXCEPT ![Home[s]][regKey[s]] = NoSocket] /\ clients[Home[s]][regKey[s]] = s
      BY <2>3 DEF CloseEvent, Owns
    <3>2. ~(Home[t] = Home[s] /\ k = regKey[s])
      BY <2>1, <2>2, <3>1
    <3>3. Home[t] \in Instance
      BY TopologyAssumption
    <3> QED BY <2>2, <3>1, <3>2, <3>3 DEF TypeOK
  <2>4. CASE ~Owns(s)
    BY <2>2, <2>4 DEF CloseEvent
  <2> QED BY <2>3, <2>4
<1> QED BY <1>2, <1>3, <1>4 DEF NewestHeld, NewestReachableAtFirst

\* A registration takes the entry of its key; without a switch no other.
LEMMA NewestRegisters ==
  ASSUME TypeOK, NewestHeld, NEW s \in Socket, NEW k \in Key, Register(s, k)
  PROVE  NewestHeld'
<1> DEFINE i == Home[s]
           old == IF Leaves(s, k) THEN [clients[i] EXCEPT ![regKey[s]] = NoSocket] ELSE clients[i]
<1>1. /\ clients' = [clients EXCEPT ![i] = [old EXCEPT ![k] = s]]
      /\ regKey' = [regKey EXCEPT ![s] = k] /\ regs' = [regs EXCEPT ![s] = @ + 1]
      /\ latest' = [latest EXCEPT ![k] = s] /\ sock' = sock /\ k \in Wants[s]
      /\ sock[s] \in {"OPEN", "closing"} /\ i \in Instance
  BY TopologyAssumption DEF Register, CanSpeak
<1>2. RegisteredAsWanted'
  <2> SUFFICES ASSUME NEW t \in Socket
               PROVE  /\ Registered(t)' => regKey'[t] \in Wants[t] /\ sock'[t] # "none"
                      /\ regs'[t] = 0 => ~Registered(t)'
    BY DEF RegisteredAsWanted
  <2>1. CASE t = s
    BY <1>1, <2>1 DEF TypeOK
  <2>2. CASE t # s
    BY <1>1, <2>2 DEF NewestHeld, RegisteredAsWanted, Registered, TypeOK
  <2> QED BY <2>1, <2>2
<1>3. MaySwitch => MaySwitch'
  <2> SUFFICES ASSUME NEW t \in Socket, regs[t] > 1 PROVE regs'[t] > 1
    BY DEF MaySwitch
  <2> QED BY <1>1 DEF TypeOK
<1>4. ASSUME ~MaySwitch' PROVE ~Leaves(s, k)
  <2>1. ASSUME Leaves(s, k) PROVE FALSE
    <3>1. regs[s] # 0 /\ regKey[s] \in Wants[s] /\ regKey[s] # k
      BY <2>1 DEF Leaves, NewestHeld, RegisteredAsWanted
    <3>2. regs'[s] > 1
      BY <1>1, <3>1 DEF TypeOK
    <3> QED BY <1>1, <1>4, <3>1, <3>2 DEF MaySwitch
  <2> QED BY <2>1
<1>5. ASSUME ~MaySwitch' PROVE NewestReachable'
  <2> SUFFICES ASSUME NEW l \in Key, NEW t \in Socket, latest'[l] = t, regKey'[t] = l, IsOpen(t)'
               PROVE  clients'[Home[t]][l] = t
    BY DEF NewestReachable
  <2>1. clients' = [clients EXCEPT ![i] = [clients[i] EXCEPT ![k] = s]]
    BY <1>1, <1>4, <1>5
  <2>2. Home[t] \in Instance
    BY TopologyAssumption
  <2>3. CASE l = k
    <3>1. t = s
      BY <1>1, <2>3 DEF TypeOK
    <3> QED BY <1>1, <2>1, <2>3, <3>1 DEF TypeOK
  <2>4. CASE l # k
    <3>1. latest[l] = t /\ t # s
      BY <1>1, <2>4 DEF TypeOK
    <3>2. regKey[t] = l /\ IsOpen(t)
      BY <1>1, <3>1 DEF TypeOK, IsOpen
    <3>3. clients[Home[t]][l] = t
      BY <1>3, <1>5, <3>1, <3>2 DEF NewestHeld, NewestReachableAtFirst, NewestReachable
    <3> QED BY <1>1, <2>1, <2>2, <2>4, <3>3 DEF TypeOK
  <2> QED BY <2>3, <2>4
<1> QED BY <1>2, <1>5 DEF NewestHeld, NewestReachableAtFirst

\* The invariant behind it.
LEMMA NewestInvariant ==
  ASSUME Instance # {}
  PROVE  Spec => []NewestHeld
<1>1. Init => NewestHeld
  BY NullsAssumption DEF Init, NewestHeld, RegisteredAsWanted, Registered, NewestReachableAtFirst,
                         NewestReachable
<1>2. TypeOK /\ NewestHeld /\ [Next]_vars => NewestHeld'
  <2> SUFFICES ASSUME TypeOK, NewestHeld, [Next]_vars PROVE NewestHeld'
    OBVIOUS
  <2>1. ASSUME NEW s \in Socket, ConnectionStep(s) PROVE NewestHeld'
    <3>1. CASE Connect(s)
      <4>1. ~Registered(s) /\ sock[s] = "none" /\ \A t \in Socket : t # s => sock'[t] = sock[t]
        BY <3>1 DEF Connect, NewestHeld, RegisteredAsWanted, TypeOK
      <4> QED BY <3>1, <4>1, NewestMoves DEF Connect
    <3>2. CASE CloseUnregistered(s)
      BY <3>2, NewestMoves DEF CloseUnregistered, IsOpen, TypeOK
    <3>3. CASE PeerCloses(s) \/ PeerVanishes(s) \/ HeartbeatTerminates(s)
      BY <3>3, NewestMoves DEF PeerCloses, PeerVanishes, HeartbeatTerminates, IsOpen, TypeOK
    <3>4. CASE CloseEvent(s)
      BY <3>4, NewestCloses
    <3>5. ASSUME NEW k \in Key, Register(s, k) PROVE NewestHeld'
      BY <3>5, NewestRegisters
    <3>6. CASE Authenticate(s) \/ FlushSend(s)
      BY <3>6, NewestMoves DEF Authenticate, FlushSend, connVars
    <3>7. ASSUME NEW k \in Key, FlushQuery(s, k) \/ FlushFails(s, k) PROVE NewestHeld'
      BY <3>7, NewestMoves DEF FlushQuery, FlushFails, connVars
    <3>8. ASSUME NEW m \in Msg, Send(m, s) \/ SendPresence(m, s) PROVE NewestHeld'
      BY <3>8, NewestMoves DEF Send, SendPresence, connVars
    <3> QED
      BY <2>1, <3>1, <3>2, <3>3, <3>4, <3>5, <3>6, <3>7, <3>8 DEF ConnectionStep
  <2>2. ASSUME NEW m \in Msg, MessageStep(m) PROVE NewestHeld'
    BY <2>2, NewestMoves
       DEF MessageStep, PublishAgain, CheckOnline, QueueOfflineMessage, DeliveryFails, QueueCleanup, connVars
  <2>3. ASSUME NEW i \in Instance, RelayChannel(i) PROVE NewestHeld'
    BY <2>3, NewestMoves DEF RelayChannel, connVars
  <2>4. ASSUME NEW i \in Instance, Crash(i) PROVE NewestHeld'
    <3>1. /\ sock' = [s \in Socket |-> IF s \in Cut(i) THEN "closed" ELSE sock[s]]
          /\ clients' = [clients EXCEPT ![i] = [k \in Key |-> NoSocket]]
          /\ UNCHANGED <<regKey, regs, latest>>
      BY <2>4 DEF Crash, Stop
    <3>2. RegisteredAsWanted' /\ (MaySwitch' <=> MaySwitch)
      BY <3>1 DEF NewestHeld, RegisteredAsWanted, Registered, MaySwitch
    <3>3. ASSUME NewestReachable PROVE NewestReachable'
      <4> SUFFICES ASSUME NEW k \in Key, NEW s \in Socket, latest[k] = s, regKey[s] = k, IsOpen(s)'
                   PROVE  clients'[Home[s]][k] = s
        BY <3>1 DEF NewestReachable
      <4>1. s \notin Cut(i) /\ IsOpen(s) /\ Home[s] # i
        BY <3>1 DEF IsOpen, Cut
      <4>2. clients[Home[s]][k] = s
        BY <3>3, <4>1 DEF NewestReachable
      <4> QED BY <3>1, <4>1, <4>2, TopologyAssumption DEF TypeOK
    <3> QED BY <3>2, <3>3 DEF NewestHeld, NewestReachableAtFirst
  <2>5. ASSUME NEW k \in Key, PresenceExpires(k) \/ RefreshFails(k) PROVE NewestHeld'
    BY <2>5, NewestMoves DEF PresenceExpires, RefreshFails, connVars
  <2>6. CASE UNCHANGED vars
    BY <2>6, NewestMoves DEF vars, connVars
  <2> QED BY <2>1, <2>2, <2>3, <2>4, <2>5, <2>6 DEF Next
<1> QED BY <1>1, <1>2, RelayTypes, PTL DEF Spec

\* The socket a device registered last is the one its messages reach, until
\* some connection may have left a key that is not its own any more.
THEOREM NewestIsReached ==
  ASSUME Instance # {}
  PROVE  Spec => []NewestReachableAtFirst
<1>1. NewestHeld => NewestReachableAtFirst
  BY DEF NewestHeld
<1> QED BY <1>1, NewestInvariant, PTL

-----------------------------------------------------------------------------
(* Presence keys.                                                           *)

\* A load balancer that keeps a device on one instance.
Sticky == \A s, t \in Socket : Wants[s] \intersect Wants[t] # {} => Home[s] = Home[t]

\* The presence key of a device with a live connection is set, until some
\* connection may have left a key that is not its own any more, or a fault: a
\* SETEX or EXPIRE that rejects is forgotten, and nothing sets the key again.
PresenceHoldsAtFirst == ~MaySwitch /\ faults = 0 => PresenceHolds

\* A step with a fault leaves nothing to show.
LEMMA FaultsShow == TypeOK /\ faults' = faults + 1 => PresenceHoldsAtFirst'
BY DEF TypeOK, PresenceHoldsAtFirst

\* Steps that set no key and clear none, and connect nobody who registered.
LEMMA PresenceKept ==
  ASSUME TypeOK, PresenceHoldsAtFirst, UNCHANGED <<regKey, regs, latest, faults>>,
         \A s \in Socket : sock'[s] = "OPEN" /\ Registered(s) => sock[s] = "OPEN",
         \A k \in online : k \in online' \/ ~ \E s \in Socket : sock[s] = "OPEN" /\ regKey[s] = k
  PROVE  PresenceHoldsAtFirst'
<1>1. MaySwitch' <=> MaySwitch
  BY DEF MaySwitch
<1>2. ASSUME PresenceHolds PROVE PresenceHolds'
  <2> SUFFICES ASSUME NEW k \in Key, NEW s \in Socket, REDIS, latest[k] = s, regKey[s] = k,
                      sock'[s] = "OPEN"
               PROVE  k \in online'
    BY DEF PresenceHolds
  <2>1. sock[s] = "OPEN"
    BY NullsAssumption DEF Registered
  <2>2. k \in online
    BY <1>2, <2>1 DEF PresenceHolds
  <2> QED BY <2>1, <2>2
<1> QED BY <1>1, <1>2 DEF PresenceHoldsAtFirst

\* What PresenceHolds breaks on otherwise is a device that reconnects to
\* another instance while its old connection is still to close (relay.ts,
\* the close handler looks at the map of its own instance).  Where a device
\* always comes back to the instance it left, and Redis carries out what it
\* is asked, the key is there however close events and registrations interleave.
THEOREM StickyPresence ==
  ASSUME Instance # {}, Sticky
  PROVE  Spec => []PresenceHoldsAtFirst
<1>1. Init => PresenceHoldsAtFirst
  BY DEF Init, PresenceHoldsAtFirst, PresenceHolds
<1>2. TypeOK /\ NewestHeld /\ PresenceHoldsAtFirst /\ [Next]_vars => PresenceHoldsAtFirst'
  <2> SUFFICES ASSUME TypeOK, NewestHeld, PresenceHoldsAtFirst, [Next]_vars
               PROVE  PresenceHoldsAtFirst'
    OBVIOUS
  <2> USE DEF connVars, redisVars
  <2>1. ASSUME NEW s \in Socket, ConnectionStep(s) PROVE PresenceHoldsAtFirst'
    <3>1. CASE Connect(s)
      <4>1. ~Registered(s) /\ \A t \in Socket : t # s => sock'[t] = sock[t]
        BY <3>1 DEF Connect, NewestHeld, RegisteredAsWanted, TypeOK
      <4> QED BY <3>1, <4>1, PresenceKept DEF Connect
    <3>2. CASE \/ CloseUnregistered(s) \/ PeerCloses(s) \/ PeerVanishes(s)
               \/ HeartbeatTerminates(s)
      BY <3>2, PresenceKept
         DEF CloseUnregistered, PeerCloses, PeerVanishes, HeartbeatTerminates, TypeOK
    <3>3. CASE CloseEvent(s)
      <4>1. /\ sock[s] # "OPEN" /\ sock' = [sock EXCEPT ![s] = "closed"]
            /\ Presence({}, IF Owns(s) THEN {regKey[s]} ELSE {})
            /\ UNCHANGED <<regKey, regs, latest>>
        BY <3>3 DEF CloseEvent
      <4>2. MaySwitch' <=> MaySwitch
        BY <4>1 DEF MaySwitch
      <4>3. ASSUME ~MaySwitch, faults = 0, faults' = faults PROVE PresenceHolds'
        <5> SUFFICES ASSUME NEW k \in Key, NEW t \in Socket, REDIS, latest[k] = t, regKey[t] = k,
                            sock'[t] = "OPEN"
                     PROVE  k \in online'
          BY <4>1 DEF PresenceHolds
        <5>1. t # s /\ sock[t] = "OPEN"
          BY <4>1 DEF TypeOK
        <5>2. k \in online /\ clients[Home[t]][k] = t
          BY <4>3, <5>1 DEF PresenceHoldsAtFirst, PresenceHolds, NewestHeld,
                            NewestReachableAtFirst, NewestReachable, IsOpen
        <5>3. ASSUME Owns(s), regKey[s] = k PROVE FALSE
          <6>1. k \in Wants[s] /\ k \in Wants[t]
            BY <5>3, NullsAssumption DEF NewestHeld, RegisteredAsWanted, Registered
          <6>2. Home[s] = Home[t]
            BY <6>1 DEF Sticky
          <6> QED BY <5>1, <5>2, <5>3, <6>2 DEF Owns
        <5>4. online' = online \ (IF Owns(s) THEN {regKey[s]} ELSE {})
          BY <4>1, <4>3 DEF Presence
        <5> QED BY <5>2, <5>3, <5>4
      <4>4. faults' = faults \/ faults' = faults + 1
        BY <4>1 DEF Presence
      <4> QED BY <4>2, <4>3, <4>4, FaultsShow DEF PresenceHoldsAtFirst
    <3>4. ASSUME NEW k \in Key, Register(s, k) PROVE PresenceHoldsAtFirst'
      <4>1. /\ regKey' = [regKey EXCEPT ![s] = k] /\ regs' = [regs EXCEPT ![s] = @ + 1]
            /\ latest' = [latest EXCEPT ![k] = s] /\ sock' = sock /\ k \in Wants[s]
            /\ Presence(IF REDIS THEN {k} ELSE {}, IF Leaves(s, k) THEN {regKey[s]} ELSE {})
        BY <3>4 DEF Register
      <4>2. ASSUME ~MaySwitch' PROVE ~MaySwitch /\ ~Leaves(s, k)
        <5>1. \A t \in Socket : regs[t] > 1 => regs'[t] > 1
          BY <4>1 DEF TypeOK
        <5>2. ASSUME Leaves(s, k) PROVE FALSE
          <6>1. regs[s] # 0 /\ regKey[s] \in Wants[s] /\ regKey[s] # k
            BY <5>2 DEF Leaves, NewestHeld, RegisteredAsWanted
          <6>2. regs'[s] > 1
            BY <4>1, <6>1 DEF TypeOK
          <6> QED BY <4>1, <4>2, <6>1, <6>2 DEF MaySwitch
        <5> QED BY <4>2, <5>1, <5>2 DEF MaySwitch
      <4>3. ASSUME ~MaySwitch', faults = 0, faults' = faults PROVE PresenceHolds'
        <5> SUFFICES ASSUME NEW l \in Key, NEW t \in Socket, REDIS, latest'[l] = t,
                            regKey'[t] = l, sock[t] = "OPEN"
                     PROVE  l \in online'
          BY <4>1 DEF PresenceHolds
        <5>1. online' = online \union {k}
          BY <4>1, <4>2, <4>3 DEF Presence
        <5>2. CASE l = k
          BY <5>1, <5>2
        <5>3. CASE l # k
          <6>1. latest[l] = t /\ t # s
            BY <4>1, <5>3 DEF TypeOK
          <6>2. regKey[t] = l
            BY <4>1, <6>1 DEF TypeOK
          <6> QED BY <4>2, <4>3, <5>1, <6>1, <6>2 DEF PresenceHoldsAtFirst, PresenceHolds
        <5> QED BY <5>2, <5>3
      <4>4. faults' = faults \/ faults' = faults + 1
        BY <4>1 DEF Presence
      <4> QED BY <4>3, <4>4, FaultsShow DEF PresenceHoldsAtFirst
    <3>5. CASE Authenticate(s) \/ FlushSend(s)
      BY <3>5, PresenceKept DEF Authenticate, FlushSend
    <3>6. ASSUME NEW k \in Key, FlushQuery(s, k) \/ FlushFails(s, k) PROVE PresenceHoldsAtFirst'
      BY <3>6, PresenceKept, FaultsShow DEF FlushQuery, FlushFails
    <3>7. ASSUME NEW m \in Msg, Send(m, s) \/ SendPresence(m, s) PROVE PresenceHoldsAtFirst'
      BY <3>7, PresenceKept DEF Send, SendPresence
    <3> QED
      BY <2>1, <3>1, <3>2, <3>3, <3>4, <3>5, <3>6, <3>7 DEF ConnectionStep
  <2>2. ASSUME NEW m \in Msg, MessageStep(m) PROVE PresenceHoldsAtFirst'
    BY <2>2, PresenceKept, FaultsShow
       DEF MessageStep, PublishAgain, CheckOnline, QueueOfflineMessage, DeliveryFails, QueueCleanup
  <2>3. ASSUME NEW i \in Instance, RelayChannel(i) PROVE PresenceHoldsAtFirst'
    BY <2>3, PresenceKept DEF RelayChannel
  <2>4. ASSUME NEW i \in Instance, Crash(i) PROVE PresenceHoldsAtFirst'
    BY <2>4, FaultsShow DEF Crash
  <2>5. ASSUME NEW k \in Key, PresenceExpires(k) \/ RefreshFails(k) PROVE PresenceHoldsAtFirst'
    BY <2>5, PresenceKept, FaultsShow DEF PresenceExpires, RefreshFails
  <2>6. CASE UNCHANGED vars
    BY <2>6, PresenceKept DEF vars
  <2> QED BY <2>1, <2>2, <2>3, <2>4, <2>5, <2>6 DEF Next
<1> QED BY <1>1, <1>2, NewestInvariant, RelayTypes, PTL DEF Spec

-----------------------------------------------------------------------------
(* Copies of a message.                                                     *)

\* A message waits in one place at most, and only once its own turn is over:
\* a row of the queue, one flush, the rows lost or those cleaned up.
InLine(m) == m \in queue \union lost \union retired \/ \E s \in Socket : m \in fetched[s]
LineOnce(m) ==
  /\ m \in queue => m \notin lost \union retired
  /\ m \in lost => m \notin retired
  /\ \A s \in Socket : m \in fetched[s] =>
       m \notin queue \union lost \union retired /\ \A t \in Socket \ {s} : m \notin fetched[t]
  /\ stage[m] \in {"unsent", "published", "queueing"} => ~InLine(m)

\* The copies there are, and those deliverMessage may yet make: written to a
\* peer, waiting, or still its own turn's.
Out(m)     == handed[m] + Count(m \in dropped)
Pending(m) == stage[m] \in {"published", "queueing"}
Weight(m)  == Out(m) + Count(InLine(m)) + Count(Pending(m))

\* What any step but the sending of m does to it: the copies get no more, and
\* none is forgotten unless its own turn fails or finds the recipient online.
Settles(m) ==
  /\ LineOnce(m)' /\ Weight(m)' <= Weight(m)
  /\ stage[m] # "published" /\ stage'[m] # "failed" /\ Weight(m) > 0 => Weight(m)' > 0
  /\ stage'[m] = "unsent" <=> stage[m] = "unsent"
  /\ stage'[m] = "published" => stage[m] = "published"
  /\ stage'[m] = "done" => stage[m] \in {"done", "published", "queueing"}
  /\ InLine(m)' \/ Pending(m)' => InLine(m) \/ Pending(m)

LEMMA WeightType ==
  ASSUME TypeOK, NEW m \in Msg
  PROVE  Out(m) \in Nat /\ Weight(m) \in Nat
BY DEF TypeOK, Out, Weight, Count

\* The counts of a message are those of what holds of it.
LEMMA WeightOf ==
  ASSUME NEW m, NEW o \in Nat, Out(m) = o
  PROVE  Weight(m) = o + (IF InLine(m) THEN 1 ELSE 0) + (IF Pending(m) THEN 1 ELSE 0)
BY DEF Weight, Count

\* A step that leaves all of it alone.
LEMMA Undisturbed ==
  ASSUME TypeOK, NEW m \in Msg, LineOnce(m),
         handed'[m] = handed[m], stage'[m] = stage[m],
         m \in dropped' <=> m \in dropped, m \in queue' <=> m \in queue,
         m \in lost' <=> m \in lost, m \in retired' <=> m \in retired,
         \A s \in Socket : m \in fetched'[s] <=> m \in fetched[s]
  PROVE  Settles(m)
<1>1. (InLine(m)' <=> InLine(m)) /\ (Pending(m)' <=> Pending(m)) /\ Out(m)' = Out(m)
  BY DEF InLine, Pending, Out, Count
<1>2. LineOnce(m)'
  BY <1>1 DEF LineOnce
<1>3. Weight(m)' = Weight(m)
  BY <1>1 DEF Weight, Count
<1> QED BY <1>1, <1>2, <1>3, WeightType DEF Settles

\* Writing frames to a socket makes one copy of each, of no other.
LEMMA HandCounts ==
  ASSUME TypeOK, NEW t, NEW ms, Hand(t, ms), NEW m \in Msg
  PROVE  /\ m \in ms => Out(m)' \in 1 .. Out(m) + 1
         /\ m \notin ms => handed'[m] = handed[m] /\ (m \in dropped' <=> m \in dropped)
<1>1. handed'[m] = IF m \in ms /\ sock[t] = "OPEN" THEN handed[m] + 1 ELSE handed[m]
  BY DEF Hand
<1>2. m \in dropped' <=> m \in dropped \/ (m \in ms /\ sock[t] # "OPEN")
  BY DEF Hand
<1>3. handed[m] \in Nat
  BY DEF TypeOK
<1> QED BY <1>1, <1>2, <1>3 DEF Out, Count

\* The steps of a connection.
LEMMA ConnectionSettles ==
  ASSUME TypeOK, NEW m \in Msg, LineOnce(m), NEW s \in Socket, ConnectionStep(s),
         ~Send(m, s), ~SendPresence(m, s)
  PROVE  Settles(m)
<1> USE DEF connVars, flushVars, redisVars, msgVars
<1>0. fetched \in [Socket -> SUBSET Msg] /\ Out(m) \in Nat
  BY WeightType DEF TypeOK
<1>1. CASE \/ Connect(s) \/ Authenticate(s) \/ CloseUnregistered(s) \/ PeerCloses(s)
           \/ PeerVanishes(s) \/ HeartbeatTerminates(s) \/ CloseEvent(s)
           \/ \E k \in Key : Register(s, k)
  BY <1>1, Undisturbed
     DEF Connect, Authenticate, CloseUnregistered, PeerCloses, PeerVanishes,
         HeartbeatTerminates, CloseEvent, Register
<1>2. ASSUME NEW k \in Key, FlushQuery(s, k) PROVE Settles(m)
  <2>1. /\ fetched' = [fetched EXCEPT ![s] = @ \union Rows(k)] /\ queue' = queue \ Rows(k)
        /\ UNCHANGED <<stage, handed, dropped, lost, retired>>
    BY <1>2 DEF FlushQuery
  <2>2. CASE m \notin Rows(k)
    BY <1>0, <2>1, <2>2, Undisturbed
  <2>3. CASE m \in Rows(k)
    <3>1. m \in queue /\ m \notin queue' /\ m \in fetched'[s]
          /\ \A t \in Socket \ {s} : m \notin fetched'[t]
      BY <1>0, <2>1, <2>3 DEF Rows, LineOnce
    <3>2. InLine(m) /\ InLine(m)' /\ (Pending(m)' <=> Pending(m)) /\ Out(m)' = Out(m)
      BY <2>1, <3>1 DEF InLine, Pending, Out
    <3>3. LineOnce(m)'
      BY <2>1, <3>1, <3>2 DEF LineOnce
    <3>4. Weight(m)' = Weight(m)
      BY <3>2 DEF Weight, Count
    <3> QED BY <2>1, <3>2, <3>3, <3>4, WeightType DEF Settles
  <2> QED BY <2>2, <2>3
<1>3. CASE FlushSend(s)
  <2>1. /\ fetched' = [fetched EXCEPT ![s] = {}] /\ UNCHANGED <<stage, queue, retired>>
        /\ lost' = IF IsOpen(s) THEN lost ELSE lost \union fetched[s]
        /\ IF IsOpen(s) THEN Hand(s, fetched[s]) ELSE UNCHANGED <<handed, dropped>>
    BY <1>3 DEF FlushSend
  <2>2. CASE m \notin fetched[s]
    <3>1. handed'[m] = handed[m] /\ (m \in dropped' <=> m \in dropped)
      BY <2>1, <2>2, HandCounts
    <3> QED BY <1>0, <2>1, <2>2, <3>1, Undisturbed
  <2>3. CASE m \in fetched[s]
    <3>1. InLine(m) /\ m \notin queue' \union lost \union retired'
          /\ (\A t \in Socket : m \notin fetched'[t]) /\ (Pending(m)' <=> Pending(m))
          /\ ~(stage[m] \in {"unsent", "published", "queueing"})
      BY <1>0, <2>1, <2>3 DEF InLine, LineOnce, Pending
    <3>2. CASE IsOpen(s)
      <4>1. ~InLine(m)' /\ Out(m)' \in 1 .. Out(m) + 1
        BY <2>1, <2>3, <3>1, <3>2, HandCounts DEF InLine
      <4>2. LineOnce(m)'
        BY <2>1, <3>1, <3>2, <4>1 DEF LineOnce
      <4>3. Weight(m)' <= Weight(m) /\ Weight(m)' > 0
        BY <1>0, <3>1, <4>1 DEF Weight, Count
      <4> QED BY <2>1, <3>1, <4>1, <4>2, <4>3 DEF Settles
    <3>3. CASE ~IsOpen(s)
      <4>1. InLine(m)' /\ Out(m)' = Out(m) /\ m \in lost'
        BY <2>1, <2>3, <3>1, <3>3 DEF InLine, Out
      <4>2. LineOnce(m)'
        BY <2>1, <3>1, <3>3, <4>1 DEF LineOnce
      <4>3. Weight(m)' = Weight(m)
        BY <3>1, <4>1 DEF Weight, Count
      <4> QED BY <2>1, <3>1, <4>1, <4>2, <4>3, WeightType DEF Settles
    <3> QED BY <3>2, <3>3
  <2> QED BY <2>2, <2>3
<1>4. ASSUME NEW k \in Key, FlushFails(s, k) PROVE Settles(m)
  <2>1. /\ \/ UNCHANGED <<queue, lost>>
           \/ queue' = queue \ Rows(k) /\ lost' = lost \union Rows(k)
        /\ UNCHANGED <<stage, handed, dropped, retired, fetched>>
    BY <1>4 DEF FlushFails
  <2>2. CASE m \notin Rows(k) \/ UNCHANGED <<queue, lost>>
    <3>1. (m \in queue' <=> m \in queue) /\ (m \in lost' <=> m \in lost)
      BY <2>1, <2>2
    <3> QED BY <2>1, <3>1, Undisturbed
  <2>3. CASE m \in Rows(k) /\ queue' = queue \ Rows(k) /\ lost' = lost \union Rows(k)
    <3>1. m \in queue /\ m \notin queue' /\ m \in lost' /\ m \notin retired
          /\ \A t \in Socket : m \notin fetched[t]
      BY <2>3 DEF Rows, LineOnce
    <3>2. InLine(m) /\ InLine(m)' /\ (Pending(m)' <=> Pending(m)) /\ Out(m)' = Out(m)
      BY <2>1, <3>1 DEF InLine, Pending, Out
    <3>3. LineOnce(m)'
      BY <2>1, <3>1, <3>2 DEF LineOnce
    <3>4. Weight(m)' = Weight(m)
      BY <3>2 DEF Weight, Count
    <3> QED BY <2>1, <3>2, <3>3, <3>4, WeightType DEF Settles
  <2> QED BY <2>1, <2>2, <2>3
<1>5. ASSUME NEW n \in Msg, Send(n, s) \/ SendPresence(n, s) PROVE Settles(m)
  <2>1. m # n
    BY <1>5
  <2>2. /\ stage'[m] = stage[m] /\ UNCHANGED <<queue, lost, retired, fetched>>
        /\ (UNCHANGED <<handed, dropped>> \/ \E t : Hand(t, {n}))
    BY <1>5, <2>1 DEF Send, SendPresence, TypeOK
  <2>3. handed'[m] = handed[m] /\ (m \in dropped' <=> m \in dropped)
    BY <2>1, <2>2, HandCounts
  <2> QED BY <2>2, <2>3, Undisturbed
<1> QED BY <1>1, <1>2, <1>3, <1>4, <1>5 DEF ConnectionStep

\* Steps of the turn that delivers a message, of Redis, the clean-up and a
\* crash.  A turn that goes on to the queue brings its copy there.
LEMMA TurnSettles ==
  ASSUME TypeOK, NEW m \in Msg, LineOnce(m),
         \/ \E n \in Msg : MessageStep(n)
         \/ \E i \in Instance : Crash(i)
         \/ \E k \in Key : PresenceExpires(k) \/ RefreshFails(k)
  PROVE  Settles(m)
<1> USE DEF connVars, flushVars, redisVars, msgVars
<1>0. stage \in [Msg -> Stage] /\ Out(m) \in Nat
  BY WeightType DEF TypeOK
<1>1. ASSUME NEW n \in Msg, MessageStep(n) PROVE Settles(m)
  <2>1. CASE n # m
    <3>1. /\ stage'[m] = stage[m] /\ UNCHANGED <<handed, dropped, lost, fetched>>
          /\ (m \in queue' <=> m \in queue) /\ (m \in retired' <=> m \in retired)
      BY <1>0, <1>1, <2>1
         DEF MessageStep, PublishAgain, CheckOnline, QueueOfflineMessage, DeliveryFails, QueueCleanup
    <3> QED BY <3>1, Undisturbed
  <2>2. CASE n = m
    <3>1. CASE CheckOnline(m)
      <4>1. /\ stage[m] = "published" /\ stage'[m] \in {"done", "queueing"}
            /\ UNCHANGED <<queue, handed, dropped, lost, retired, fetched>>
        BY <1>0, <3>1 DEF CheckOnline
      <4>2. ~InLine(m) /\ ~InLine(m)' /\ Pending(m) /\ Out(m)' = Out(m)
        BY <4>1 DEF LineOnce, InLine, Pending, Out
      <4>3. LineOnce(m)' /\ Weight(m)' <= Weight(m)
        <5>1. LineOnce(m)'
          BY <4>1, <4>2 DEF LineOnce
        <5> QED BY <1>0, <4>2, <5>1 DEF Weight, Count
      <4> QED BY <4>1, <4>2, <4>3 DEF Settles
    <3>2. CASE QueueOfflineMessage(m)
      <4>1. /\ stage[m] = "queueing" /\ stage'[m] = "done" /\ queue' = queue \union {m}
            /\ UNCHANGED <<handed, dropped, lost, retired, fetched>>
        BY <1>0, <3>2 DEF QueueOfflineMessage
      <4>2. ~InLine(m) /\ InLine(m)' /\ Pending(m) /\ ~Pending(m)' /\ Out(m)' = Out(m)
        BY <4>1 DEF LineOnce, InLine, Pending, Out
      <4>3. LineOnce(m)'
        BY <4>1, <4>2 DEF LineOnce, InLine
      <4>4. Weight(m)' = Weight(m)
        BY <1>0, <4>2 DEF Weight, Count
      <4> QED BY <4>1, <4>2, <4>3, <4>4, WeightType DEF Settles
    <3>3. CASE DeliveryFails(m)
      <4>1. /\ stage[m] \in {"published", "queueing"} /\ stage'[m] = "failed"
            /\ queue' \in {queue, queue \union {m}}
            /\ UNCHANGED <<handed, dropped, lost, retired, fetched>>
        BY <1>0, <3>3 DEF DeliveryFails
      <4>2. ~InLine(m) /\ Pending(m) /\ ~Pending(m)' /\ Out(m)' = Out(m)
        BY <4>1 DEF LineOnce, Pending, Out
      <4>3. LineOnce(m)'
        BY <4>1, <4>2 DEF LineOnce, InLine
      <4>4. Weight(m)' <= Weight(m)
        BY <1>0, <4>2 DEF Weight, Count
      <4> QED BY <4>1, <4>2, <4>3, <4>4 DEF Settles
    <3>4. CASE QueueCleanup(m)
      <4>1. /\ m \in queue /\ queue' = queue \ {m} /\ retired' = retired \union {m}
            /\ UNCHANGED <<stage, handed, dropped, lost, fetched>>
        BY <3>4 DEF QueueCleanup
      <4>2. InLine(m) /\ InLine(m)' /\ (Pending(m)' <=> Pending(m)) /\ Out(m)' = Out(m)
        BY <4>1 DEF InLine, Pending, Out
      <4>3. LineOnce(m)'
        BY <4>1, <4>2 DEF LineOnce
      <4>4. Weight(m)' = Weight(m)
        BY <4>2 DEF Weight, Count
      <4> QED BY <4>1, <4>2, <4>3, <4>4, WeightType DEF Settles
    <3>5. CASE PublishAgain(m)
      BY <3>5, Undisturbed DEF PublishAgain
    <3> QED BY <1>1, <2>2, <3>1, <3>2, <3>3, <3>4, <3>5 DEF MessageStep
  <2> QED BY <2>1, <2>2
<1>2. ASSUME NEW i \in Instance, Crash(i) PROVE Settles(m)
  <2>1. /\ fetched' = [s \in Socket |-> IF s \in Cut(i) THEN {} ELSE fetched[s]]
        /\ lost' = lost \union UNION {fetched[s] : s \in Cut(i)}
        /\ stage'[m] = IF at[m] = i /\ stage[m] \in {"published", "queueing"}
                       THEN "failed" ELSE stage[m]
        /\ UNCHANGED <<queue, handed, dropped, retired>>
    BY <1>2 DEF Crash, Stop
  <2>2. Cut(i) \subseteq Socket
    BY DEF Cut
  <2>3. (InLine(m)' <=> InLine(m)) /\ Out(m)' = Out(m) /\ (Pending(m)' => Pending(m))
        /\ (stage'[m] # "failed" => stage'[m] = stage[m])
    BY <2>1, <2>2 DEF InLine, Out, Pending
  <2>4. LineOnce(m)'
    <3>1. m \in lost' <=> m \in lost \/ \E s \in Cut(i) : m \in fetched[s]
      BY <2>1
    <3>2. \A s \in Socket : m \in fetched'[s] <=> s \notin Cut(i) /\ m \in fetched[s]
      BY <2>1
    <3> QED BY <2>1, <2>2, <2>3, <3>1, <3>2 DEF LineOnce
  <2>5. Weight(m)' <= Weight(m) /\ (stage'[m] # "failed" => Weight(m)' = Weight(m))
    BY <1>0, <2>3 DEF Weight, Count, Pending
  <2> QED BY <2>1, <2>3, <2>4, <2>5, WeightType DEF Settles
<1>3. ASSUME NEW k \in Key, PresenceExpires(k) \/ RefreshFails(k) PROVE Settles(m)
  BY <1>3, Undisturbed DEF PresenceExpires, RefreshFails
<1> QED BY <1>1, <1>2, <1>3

\* Sending a message makes its first copy, or leaves it to the turn that goes
\* on; a presence frame is handed over, published or forgotten.
LEMMA SendingStarts ==
  ASSUME TypeOK, NEW m \in Msg, LineOnce(m), Weight(m) = 0, NEW s \in Socket,
         Send(m, s) \/ SendPresence(m, s)
  PROVE  /\ LineOnce(m)' /\ ~InLine(m)' /\ Weight(m)' <= 1
         /\ stage[m] = "unsent" /\ stage'[m] # "unsent"
         /\ SendPresence(m, s) => stage'[m] \in {"published", "done"}
         /\ Send(m, s) => Weight(m)' = 1 /\ m \notin Ephemeral /\ stage'[m] # "failed"
         /\ ~REDIS => stage'[m] # "published" /\ bus' = bus
         /\ bus' = bus \/ bus' = Publish(m)
         /\ bus' # bus => Out(m)' = Out(m)
<1> USE DEF connVars, flushVars, redisVars, msgVars
<1>1. /\ stage[m] = "unsent" /\ UNCHANGED <<queue, lost, retired, fetched>>
      /\ bus' = bus \/ (REDIS /\ bus' = Publish(m))
      /\ (UNCHANGED <<handed, dropped>> \/ \E t : Hand(t, {m}))
      /\ (bus' # bus => UNCHANGED <<handed, dropped>>)
  BY DEF Send, SendPresence
<1>2. ~InLine(m) /\ ~InLine(m)' /\ ~Pending(m) /\ Out(m) = 0
  <2>1. ~InLine(m) /\ ~Pending(m)
    BY <1>1 DEF LineOnce, Pending
  <2>2. Out(m) \in Nat
    BY WeightType
  <2> QED BY <1>1, <2>1, <2>2 DEF InLine, Weight, Count
<1>3. LineOnce(m)'
  BY <1>1, <1>2 DEF LineOnce
<1>4. CASE Send(m, s)
  <2>1. CASE Reachable(Home[s], To[m])
    <3>1. stage'[m] = "done" /\ Out(m)' \in 1 .. 1 /\ bus' = bus
      <4>1. stage'[m] = "done" /\ bus' = bus /\ Hand(clients[Home[s]][To[m]], {m})
        BY <1>4, <2>1 DEF Send, TypeOK
      <4>2. Out(m)' \in 1 .. Out(m) + 1
        BY <4>1, HandCounts
      <4> QED BY <1>2, <4>1, <4>2
    <3>2. Weight(m)' = 1
      BY <1>2, <3>1 DEF Weight, Count, Pending
    <3> QED BY <1>1, <1>2, <1>3, <1>4, <3>1, <3>2 DEF Send, SendPresence
  <2>2. CASE ~Reachable(Home[s], To[m])
    <3>1. stage'[m] = (IF REDIS THEN "published" ELSE "queueing") /\ UNCHANGED <<handed, dropped>>
      BY <1>4, <2>2 DEF Send, TypeOK
    <3>2. Out(m)' = 0 /\ Pending(m)'
      BY <1>2, <3>1 DEF Out, Pending
    <3>3. Weight(m)' = 1
      BY <1>2, <3>2 DEF Weight, Count
    <3> QED BY <1>1, <1>2, <1>3, <1>4, <3>1, <3>2, <3>3 DEF Send, SendPresence
  <2> QED BY <2>1, <2>2
<1>5. CASE SendPresence(m, s)
  <2>1. stage'[m] \in {"published", "done"} /\ (~REDIS => stage'[m] = "done")
    BY <1>5 DEF SendPresence, TypeOK
  <2>2. Out(m)' \in 0 .. 1 /\ (stage'[m] = "published" => Out(m)' = 0)
    <3>1. CASE stage'[m] = "published"
      <4>1. UNCHANGED <<handed, dropped>>
        BY <1>5, <3>1 DEF SendPresence, TypeOK
      <4> QED BY <1>2, <4>1 DEF Out
    <3>2. CASE UNCHANGED <<handed, dropped>>
      BY <1>2, <3>2 DEF Out
    <3>3. ASSUME NEW t, Hand(t, {m}), stage'[m] # "published" PROVE Out(m)' \in 0 .. 1
      BY <1>2, <3>3, HandCounts
    <3> QED BY <1>1, <3>1, <3>2, <3>3
  <2>3. Weight(m)' <= 1
    BY <1>2, <2>1, <2>2 DEF Weight, Count, Pending
  <2>4. bus' # bus => Out(m)' = Out(m)
    BY <1>1 DEF Out
  <2> QED BY <1>1, <1>2, <1>3, <1>5, <2>1, <2>3, <2>4 DEF Send, SendPresence
<1> QED BY <1>4, <1>5

\* Where the channels still hold a message: with repeated publications, in
\* more than one place of an instance's channel.
Places(m) == {c \in Instance \X Nat : c[2] \in 1 .. Len(bus[c[1]]) /\ bus[c[1]][c[2]] = m}

\* A channel hands its first message over and keeps the others.
LEMMA ChannelSteps ==
  ASSUME TypeOK, NEW i \in Instance, RelayChannel(i), NEW m \in Msg, IsFiniteSet(Places(m))
  PROVE  /\ IsFiniteSet(Places(m)') /\ Cardinality(Places(m)') <= Cardinality(Places(m))
         /\ m = Head(bus[i]) => Cardinality(Places(m)') <= Cardinality(Places(m)) - 1
<1> DEFINE P == IF m = Head(bus[i]) THEN Places(m) \ {<<i, 1>>} ELSE Places(m)
           f == [c \in Places(m)' |-> <<c[1], IF c[1] = i THEN c[2] + 1 ELSE c[2]>>]
<1>1. /\ bus[i] \in Seq(Msg) /\ bus[i] # <<>> /\ bus'[i] = Tail(bus[i])
      /\ \A j \in Instance \ {i} : bus'[j] = bus[j]
  BY DEF RelayChannel, TypeOK
<1>2. /\ Len(bus[i]) \in Nat /\ Len(bus[i]) > 0 /\ bus[i][1] = Head(bus[i])
      /\ Len(bus'[i]) = Len(bus[i]) - 1
      /\ \A j \in 1 .. Len(bus'[i]) : bus'[i][j] = bus[i][j + 1]
  BY <1>1
<1>3. ASSUME NEW c \in Places(m)'
      PROVE  /\ c = <<c[1], c[2]>> /\ c[1] \in Instance /\ c[2] \in Nat /\ c[2] \in 1 .. Len(bus'[c[1]])
             /\ bus'[c[1]][c[2]] = m
  BY DEF Places
<1>4. ASSUME NEW c \in Places(m)' PROVE f[c] \in P
  <2>1. CASE c[1] = i
    <3>1. f[c] = <<i, c[2] + 1>> /\ c[2] + 1 \in 1 .. Len(bus[i]) /\ bus[i][c[2] + 1] = m
          /\ c[2] + 1 # 1 /\ c[2] + 1 \in Nat
      BY <1>2, <1>3, <2>1
    <3> QED BY <3>1 DEF Places
  <2>2. CASE c[1] # i
    <3>1. f[c] = <<c[1], c[2]>> /\ c[2] \in 1 .. Len(bus[c[1]]) /\ bus[c[1]][c[2]] = m
      BY <1>1, <1>3, <2>2
    <3> QED BY <1>3, <2>2, <3>1 DEF Places
  <2> QED BY <2>1, <2>2
<1>5. ASSUME NEW c \in Places(m)', NEW d \in Places(m)', f[c] = f[d] PROVE c = d
  <2>1. c[1] = d[1] /\ (IF c[1] = i THEN c[2] + 1 = d[2] + 1 ELSE c[2] = d[2])
    BY <1>5
  <2>2. c[2] \in Nat /\ d[2] \in Nat
    BY <1>3
  <2>3. c[2] = d[2]
    BY <2>1, <2>2
  <2> QED BY <1>3, <2>1, <2>3
<1>6. f \in Injection(Places(m)', P)
  BY <1>4, <1>5 DEF Injection, IsInjective
<1>7. IsFiniteSet(P) /\ Cardinality(P) <= Cardinality(Places(m)) /\ Cardinality(P) \in Nat
      /\ (m = Head(bus[i]) => Cardinality(P) = Cardinality(Places(m)) - 1)
  <2>1. m = Head(bus[i]) => <<i, 1>> \in Places(m)
    BY <1>2 DEF Places
  <2>2. Cardinality(Places(m)) \in Nat
    BY FS_CardinalityType
  <2>3. IsFiniteSet(Places(m) \ {<<i, 1>>})
        /\ Cardinality(Places(m) \ {<<i, 1>>}) = IF <<i, 1>> \in Places(m) THEN Cardinality(Places(m)) - 1
                                                ELSE Cardinality(Places(m))
    BY FS_RemoveElement
  <2>4. IsFiniteSet(P)
    BY <2>3
  <2> QED BY <2>1, <2>2, <2>3, <2>4, FS_CardinalityType
<1> HIDE DEF P, f
<1>8. IsFiniteSet(Places(m)') /\ Cardinality(Places(m)') <= Cardinality(P)
  BY <1>6, <1>7, FS_Injection
<1>9. Cardinality(Places(m)') \in Nat /\ Cardinality(Places(m)) \in Nat
  BY <1>8, FS_CardinalityType
<1> QED BY <1>7, <1>8, <1>9

\* A publication puts a message on every channel once more.
LEMMA PublicationOn ==
  ASSUME TypeOK, IsFiniteSet(Instance), NEW n \in Msg, bus' = Publish(n),
         NEW m \in Msg, IsFiniteSet(Places(m))
  PROVE  /\ IsFiniteSet(Places(m)')
         /\ Cardinality(Places(m)') <= Cardinality(Places(m)) + Cardinality(Instance)
         /\ m # n => Places(m)' = Places(m)
<1> DEFINE New == {c \in Instance \X Nat : c[2] = Len(bus[c[1]]) + 1}
           f   == [c \in New |-> c[1]]
<1>1. ASSUME NEW i \in Instance
      PROVE  /\ Len(bus'[i]) = Len(bus[i]) + 1 /\ Len(bus[i]) \in Nat
             /\ (\A j \in 1 .. Len(bus[i]) : bus'[i][j] = bus[i][j])
             /\ bus'[i][Len(bus[i]) + 1] = n
  <2>1. bus[i] \in Seq(Msg) /\ bus'[i] = Append(bus[i], n)
    BY DEF TypeOK, Publish
  <2> QED BY <2>1, AppendProperties
<1>2. Places(m)' \subseteq Places(m) \union New
  <2> SUFFICES ASSUME NEW c \in Places(m)', c \notin New PROVE c \in Places(m)
    OBVIOUS
  <2>1. c \in Instance \X Nat /\ c[2] \in 1 .. Len(bus'[c[1]]) /\ bus'[c[1]][c[2]] = m
    BY DEF Places
  <2>2. c[1] \in Instance /\ c[2] \in 1 .. Len(bus[c[1]])
    BY <1>1, <2>1
  <2> QED BY <1>1, <2>1, <2>2 DEF Places
<1>3. IsFiniteSet(New) /\ Cardinality(New) <= Cardinality(Instance)
  <2>1. \A c \in New : c = <<c[1], c[2]>> /\ c[1] \in Instance /\ c[2] = Len(bus[c[1]]) + 1
    OBVIOUS
  <2>2. f \in Injection(New, Instance)
    BY <2>1 DEF Injection, IsInjective
  <2> HIDE DEF New, f
  <2> QED BY <2>2, FS_Injection
<1>4. m # n => Places(m)' = Places(m)
  <2> SUFFICES ASSUME m # n PROVE Places(m)' = Places(m)
    OBVIOUS
  <2>1. \A c \in Instance \X Nat : c[2] \in 1 .. Len(bus[c[1]]) =>
          c[2] \in 1 .. Len(bus'[c[1]]) /\ bus'[c[1]][c[2]] = bus[c[1]][c[2]]
    BY <1>1
  <2>2. \A c \in Instance \X Nat :
          c[2] \in 1 .. Len(bus'[c[1]]) /\ bus'[c[1]][c[2]] = m => c[2] \in 1 .. Len(bus[c[1]])
    BY <1>1
  <2> QED BY <2>1, <2>2 DEF Places
<1> HIDE DEF New
<1>5. /\ IsFiniteSet(Places(m) \union New) /\ Cardinality(Places(m)) \in Nat
      /\ Cardinality(New) \in Nat /\ Cardinality(Places(m) \cap New) \in Nat
      /\ Cardinality(Places(m) \union New)
           = Cardinality(Places(m)) + Cardinality(New) - Cardinality(Places(m) \cap New)
  BY <1>3, FS_Union, FS_Intersection, FS_CardinalityType
<1>6. IsFiniteSet(Places(m)') /\ Cardinality(Places(m)') <= Cardinality(Places(m) \union New)
      /\ Cardinality(Places(m) \union New) \in Nat
  BY <1>2, <1>5, FS_Subset, FS_CardinalityType
<1>7. Cardinality(Places(m)') \in Nat /\ Cardinality(Instance) \in Nat
  BY <1>6, FS_CardinalityType
<1> QED BY <1>3, <1>4, <1>5, <1>6, <1>7

\* Every step but these three leaves each channel as it is or ends it.
LEMMA ChannelsKept ==
  ASSUME TypeOK, [Next]_vars, \A i \in Instance : ~RelayChannel(i),
         \A m \in Msg : ~PublishAgain(m) /\ \A s \in Socket : ~Send(m, s) /\ ~SendPresence(m, s)
  PROVE  \A i \in Instance : bus'[i] \in {bus[i], <<>>}
<1> USE DEF connVars, flushVars, redisVars, msgVars
<1>1. ASSUME NEW s \in Socket, ConnectionStep(s) PROVE bus' = bus
  BY <1>1 DEF ConnectionStep, Connect, Authenticate, CloseUnregistered, PeerCloses,
     PeerVanishes, HeartbeatTerminates, CloseEvent, Register, FlushQuery, FlushFails, FlushSend
<1>2. ASSUME NEW m \in Msg, MessageStep(m) PROVE bus' = bus
  BY <1>2 DEF MessageStep, CheckOnline, QueueOfflineMessage, DeliveryFails, QueueCleanup
<1>3. ASSUME NEW i \in Instance, Crash(i) PROVE \A j \in Instance : bus'[j] \in {bus[j], <<>>}
  BY <1>3 DEF Crash, Stop, TypeOK
<1>4. ASSUME NEW k \in Key, PresenceExpires(k) \/ RefreshFails(k) PROVE bus' = bus
  BY <1>4 DEF PresenceExpires, RefreshFails
<1>5. ASSUME UNCHANGED vars PROVE bus' = bus
  BY <1>5 DEF vars
<1>6. CASE \E i \in Instance : Crash(i)
  BY <1>3, <1>6
<1>7. CASE bus' = bus
  BY <1>7
<1> QED BY <1>1, <1>2, <1>4, <1>5, <1>6, <1>7 DEF Next

LEMMA ChannelsShrink ==
  ASSUME \A i \in Instance : bus'[i] \in {bus[i], <<>>}
  PROVE  \A m : Places(m)' \subseteq Places(m)
<1>1. Len(<<>>) = 0
  OBVIOUS
<1>2. \A j \in 1 .. 0 : FALSE
  OBVIOUS
<1> QED BY <1>1, <1>2 DEF Places

\* No step takes a fault back.
LEMMA FaultsGrow ==
  ASSUME TypeOK, [Next]_vars
  PROVE  faults' \in {faults, faults + 1}
<1> USE DEF connVars, flushVars, redisVars, msgVars
<1>1. ASSUME NEW s \in Socket, ConnectionStep(s) PROVE faults' \in {faults, faults + 1}
  BY <1>1 DEF ConnectionStep, Connect, Authenticate, CloseUnregistered, PeerCloses, PeerVanishes,
     HeartbeatTerminates, CloseEvent, Register, Presence, FlushQuery, FlushFails, FlushSend,
     Send, SendPresence
<1>2. ASSUME NEW m \in Msg, MessageStep(m) PROVE faults' \in {faults, faults + 1}
  BY <1>2 DEF MessageStep, PublishAgain, CheckOnline, QueueOfflineMessage, DeliveryFails,
     QueueCleanup
<1>3. ASSUME NEW i \in Instance, RelayChannel(i) \/ Crash(i) PROVE faults' \in {faults, faults + 1}
  BY <1>3 DEF RelayChannel, Crash
<1>4. ASSUME NEW k \in Key, PresenceExpires(k) \/ RefreshFails(k)
      PROVE  faults' \in {faults, faults + 1}
  BY <1>4 DEF PresenceExpires, RefreshFails
<1>5. CASE UNCHANGED vars
  BY <1>5 DEF vars
<1> QED BY <1>1, <1>2, <1>3, <1>4, <1>5 DEF Next

\* A step that neither sends nor hands over from a channel settles every
\* message.
LEMMA StepSettles ==
  ASSUME TypeOK, [Next]_vars, \A i \in Instance : ~RelayChannel(i), NEW m \in Msg, LineOnce(m),
         \A s \in Socket : ~Send(m, s) /\ ~SendPresence(m, s)
  PROVE  Settles(m)
<1>1. CASE UNCHANGED vars
  BY <1>1, Undisturbed DEF vars, connVars, flushVars, redisVars, msgVars
<1>2. CASE Next
  BY <1>2, ConnectionSettles, TurnSettles DEF Next
<1> QED BY <1>1, <1>2

\* The account of a message: copies, and those that may yet be made by its
\* turn and from every place a channel has it; what a publication, and each
\* repeat of it, may come to.
Publications == Cardinality(Instance) * (faults + 1)
Bounded(m) ==
  /\ IsFiniteSet(Places(m))
  /\ IF stage[m] = "unsent" THEN Weight(m) = 0 /\ Places(m) = {}
     ELSE Weight(m) + Cardinality(Places(m)) <= Publications + 1
Account == \A m \in Msg : LineOnce(m) /\ Bounded(m)

\* A fault is one more publication.
LEMMA PublicationsGrow ==
  ASSUME IsFiniteSet(Instance), faults \in Nat
  PROVE  /\ Cardinality(Instance) \in Nat /\ Publications \in Nat
         /\ Publications >= Cardinality(Instance)
         /\ faults' = faults => Publications' = Publications
         /\ faults' = faults + 1 => Publications' = Publications + Cardinality(Instance)
<1>1. Cardinality(Instance) \in Nat
  BY FS_CardinalityType
<1>2. ASSUME NEW N \in Nat, NEW f \in Nat
      PROVE  N * (f + 1) \in Nat /\ N * (f + 1) >= N /\ N * ((f + 1) + 1) = N * (f + 1) + N
  OBVIOUS
<1> QED BY <1>1, <1>2 DEF Publications

\* A message that settles, with no more places than before, stays within its
\* account.
LEMMA SettlesWithin ==
  ASSUME TypeOK, TypeOK', [Next]_vars, IsFiniteSet(Instance), NEW m \in Msg, Bounded(m), Settles(m),
         IsFiniteSet(Places(m)'), Cardinality(Places(m)') <= Cardinality(Places(m))
  PROVE  Bounded(m)'
<1>1. Weight(m) \in Nat /\ Weight(m)' \in Nat
  <2>1. Weight(m)' \in Nat
    BY DEF TypeOK, Out, Weight, Count
  <2> QED BY <2>1, WeightType
<1>2. Cardinality(Places(m)) \in Nat /\ Cardinality(Places(m)') \in Nat
  BY FS_CardinalityType DEF Bounded
<1>3. Publications \in Nat /\ Publications' \in Nat /\ Publications' >= Publications
  BY FaultsGrow, PublicationsGrow DEF TypeOK
<1>4. CASE stage[m] = "unsent"
  <2>1. Cardinality(Places(m)) = 0
    BY <1>4, FS_EmptySet DEF Bounded
  <2>2. Places(m)' = {}
    BY <1>2, <2>1, FS_EmptySet
  <2> QED BY <1>1, <1>4, <2>2 DEF Bounded, Settles
<1>5. CASE stage[m] # "unsent"
  <2>1. Weight(m)' + Cardinality(Places(m)') <= Publications' + 1
    BY <1>1, <1>2, <1>3, <1>5 DEF Bounded, Settles
  <2> QED BY <1>5, <2>1 DEF Bounded, Settles
<1> QED BY <1>4, <1>5

LEMMA AccountInvariant ==
  ASSUME Instance # {}, IsFiniteSet(Instance)
  PROVE  Spec => []Account
<1>1. Init => Account
  <2> SUFFICES ASSUME Init PROVE Account
    OBVIOUS
  <2>1. \A m \in Msg : LineOnce(m) /\ Weight(m) = 0
    BY DEF Init, LineOnce, InLine, Weight, Out, Pending, Count
  <2>2. \A i \in Instance : Len(bus[i]) = 0
    BY DEF Init
  <2>3. \A m \in Msg : Places(m) = {}
    BY <2>2 DEF Places
  <2> QED BY <2>1, <2>3, FS_EmptySet DEF Account, Bounded, Init
<1>2. TypeOK /\ TypeOK' /\ Account /\ [Next]_vars => Account'
  <2> SUFFICES ASSUME TypeOK, TypeOK', Account, [Next]_vars PROVE Account'
    OBVIOUS
  <2> USE DEF Account
  <2>0. \A m \in Msg : IsFiniteSet(Places(m)) /\ Cardinality(Places(m)) \in Nat /\ Weight(m) \in Nat
                       /\ Weight(m)' \in Nat
    <3>1. \A m \in Msg : Weight(m)' \in Nat
      BY DEF TypeOK, Out, Weight, Count
    <3> QED BY <3>1, FS_CardinalityType, WeightType DEF Bounded
  <2>1. ASSUME NEW i \in Instance, RelayChannel(i), NEW m \in Msg PROVE LineOnce(m)' /\ Bounded(m)'
    <3>1. Head(bus[i]) \in Msg /\ UNCHANGED <<stage, queue, lost, retired, fetched, faults>>
          /\ (UNCHANGED <<handed, dropped>> \/ \E t : Hand(t, {Head(bus[i])}))
      BY <2>1 DEF RelayChannel, TypeOK, flushVars
    <3>2. /\ IsFiniteSet(Places(m)') /\ Cardinality(Places(m)') \in Nat
          /\ Cardinality(Places(m)') <= Cardinality(Places(m))
          /\ m = Head(bus[i]) => Cardinality(Places(m)') <= Cardinality(Places(m)) - 1
      BY <2>0, <2>1, ChannelSteps, FS_CardinalityType
    <3>3. CASE m # Head(bus[i])
      <4>1. handed'[m] = handed[m] /\ (m \in dropped' <=> m \in dropped)
        BY <3>1, <3>3, HandCounts
      <4>2. Settles(m)
        BY <3>1, <4>1, Undisturbed
      <4> QED BY <3>2, <4>2, SettlesWithin DEF Settles
    <3>4. CASE m = Head(bus[i])
      <4>1. (InLine(m)' <=> InLine(m)) /\ (Pending(m)' <=> Pending(m)) /\ LineOnce(m)'
        BY <3>1 DEF InLine, Pending, LineOnce
      <4>2. Out(m) \in Nat
        BY WeightType
      <4>3. Out(m)' \in 0 .. Out(m) + 1
        <5>1. CASE UNCHANGED <<handed, dropped>>
          BY <4>2, <5>1 DEF Out
        <5>2. ASSUME NEW t, Hand(t, {Head(bus[i])}) PROVE Out(m)' \in 0 .. Out(m) + 1
          BY <3>4, <4>2, <5>2, HandCounts
        <5> QED BY <3>1, <5>1, <5>2
      <4>4. Weight(m)' <= Weight(m) + 1
        BY <4>1, <4>2, <4>3 DEF Weight, Count
      <4>5. Cardinality(Places(m)) # 0 /\ Places(m) # {}
        BY <2>0, <3>2, <3>4, FS_EmptySet
      <4>6. stage[m] # "unsent" /\ stage'[m] # "unsent"
        BY <3>1, <4>5 DEF Bounded
      <4>7. Publications' = Publications /\ Publications \in Nat
        BY <3>1, PublicationsGrow DEF TypeOK
      <4>8. Weight(m)' + Cardinality(Places(m)') <= Publications' + 1
        BY <2>0, <3>2, <3>4, <4>4, <4>6, <4>7 DEF Bounded
      <4> QED BY <3>2, <4>1, <4>6, <4>8 DEF Bounded
    <3> QED BY <3>3, <3>4
  <2>2. ASSUME NEW n \in Msg, NEW s \in Socket, Send(n, s) \/ SendPresence(n, s), NEW m \in Msg
        PROVE  LineOnce(m)' /\ Bounded(m)'
    <3>1. stage[n] = "unsent" /\ Weight(n) = 0 /\ Places(n) = {}
      BY <2>2 DEF Send, SendPresence, Bounded
    <3>2. /\ LineOnce(n)' /\ Weight(n)' <= 1 /\ stage'[n] # "unsent" /\ faults' = faults
          /\ bus' = bus \/ bus' = Publish(n)
      BY <2>2, <3>1, SendingStarts DEF Send, SendPresence
    <3>3. /\ IsFiniteSet(Places(m)') /\ Cardinality(Places(m)') \in Nat
          /\ Cardinality(Places(m)') <= Cardinality(Places(m)) + Cardinality(Instance)
          /\ m # n => Places(m)' = Places(m)
      <4>1. CASE bus' = bus
        <5>1. Places(m)' = Places(m)
          BY <4>1 DEF Places
        <5>2. Cardinality(Instance) \in Nat
          BY FS_CardinalityType
        <5> QED BY <2>0, <5>1, <5>2
      <4>2. CASE bus' = Publish(n)
        BY <2>0, <4>2, PublicationOn, FS_CardinalityType
      <4> QED BY <3>2, <4>1, <4>2
    <3>4. CASE m = n
      <4>1. Cardinality(Places(m)) = 0
        BY <3>1, <3>4, FS_EmptySet
      <4>2. /\ Publications' = Publications /\ Publications \in Nat
            /\ Cardinality(Instance) \in Nat /\ Publications >= Cardinality(Instance)
        BY <3>2, PublicationsGrow DEF TypeOK
      <4>3. Weight(m)' + Cardinality(Places(m)') <= Publications' + 1
        BY <2>0, <3>2, <3>3, <3>4, <4>1, <4>2
      <4> QED BY <3>2, <3>3, <3>4, <4>3 DEF Bounded
    <3>5. CASE m # n
      <4>1. ConnectionStep(s) /\ \A t \in Socket : ~Send(m, t) /\ ~SendPresence(m, t)
        <5>1. stage'[m] = stage[m]
          BY <2>2, <3>5 DEF Send, SendPresence, TypeOK
        <5>2. ASSUME NEW t \in Socket, Send(m, t) PROVE stage[m] # stage'[m]
          BY <5>2 DEF Send, TypeOK
        <5>3. ASSUME NEW t \in Socket, SendPresence(m, t) PROVE stage[m] # stage'[m]
          BY <5>3 DEF SendPresence, TypeOK
        <5> QED BY <2>2, <5>1, <5>2, <5>3 DEF ConnectionStep
      <4>2. Settles(m)
        BY <4>1, ConnectionSettles
      <4>3. Cardinality(Places(m)') <= Cardinality(Places(m))
        BY <2>0, <3>3, <3>5
      <4> QED BY <3>3, <4>2, <4>3, SettlesWithin DEF Settles
    <3> QED BY <3>4, <3>5
  <2>3. ASSUME NEW n \in Msg, PublishAgain(n), NEW m \in Msg PROVE LineOnce(m)' /\ Bounded(m)'
    <3>1. /\ stage[n] = "published" /\ faults' = faults + 1 /\ bus' = Publish(n)
          /\ UNCHANGED <<stage, queue, handed, dropped, lost, retired, fetched>>
      BY <2>3 DEF PublishAgain, msgVars, flushVars
    <3>2. Settles(m)
      BY <3>1, Undisturbed
    <3>3. /\ IsFiniteSet(Places(m)') /\ Cardinality(Places(m)') \in Nat
          /\ Cardinality(Places(m)') <= Cardinality(Places(m)) + Cardinality(Instance)
          /\ m # n => Places(m)' = Places(m)
      BY <2>0, <3>1, PublicationOn, FS_CardinalityType
    <3>4. CASE m # n
      <4>1. Cardinality(Places(m)') <= Cardinality(Places(m))
        BY <2>0, <3>3, <3>4
      <4> QED BY <3>2, <3>3, <4>1, SettlesWithin DEF Settles
    <3>5. CASE m = n
      <4>1. Publications' = Publications + Cardinality(Instance) /\ Publications \in Nat
            /\ Cardinality(Instance) \in Nat
        BY <3>1, PublicationsGrow DEF TypeOK
      <4>2. Weight(m)' <= Weight(m) /\ stage[m] # "unsent" /\ stage'[m] # "unsent"
        BY <3>1, <3>2, <3>5 DEF Settles
      <4>3. Weight(m)' + Cardinality(Places(m)') <= Publications' + 1
        BY <2>0, <3>3, <4>1, <4>2 DEF Bounded
      <4> QED BY <3>2, <3>3, <4>2, <4>3 DEF Bounded, Settles
    <3> QED BY <3>4, <3>5
  <2>4. CASE /\ \A i \in Instance : ~RelayChannel(i)
             /\ \A m \in Msg :
                  ~PublishAgain(m) /\ \A s \in Socket : ~Send(m, s) /\ ~SendPresence(m, s)
    <3>1. \A i \in Instance : bus'[i] \in {bus[i], <<>>}
      BY <2>4, ChannelsKept
    <3>2. ASSUME NEW m \in Msg PROVE LineOnce(m)' /\ Bounded(m)'
      <4>1. Settles(m)
        BY <2>4, StepSettles
      <4>2. Places(m)' \subseteq Places(m)
        BY <3>1, ChannelsShrink
      <4>3. IsFiniteSet(Places(m)') /\ Cardinality(Places(m)') <= Cardinality(Places(m))
        BY <2>0, <4>2, FS_Subset
      <4> QED BY <4>1, <4>3, SettlesWithin DEF Settles
    <3> QED BY <3>2
  <2> QED BY <2>1, <2>2, <2>3, <2>4
<1>3. TypeOK /\ Account /\ [Next]_vars /\ TypeOK' => Account'
  BY <1>2
<1> QED BY <1>1, <1>3, RelayTypes, PTL DEF Spec

\* The copies the property counts are those of the account.
LEMMA CopiesOf ==
  ASSUME TypeOK, NEW m \in Msg, LineOnce(m)
  PROVE  Copies(m) = Out(m) + Count(InLine(m))
<1> DEFINE F == {s \in Socket : m \in fetched[s]}
<1>0. handed[m] \in Nat
  BY DEF TypeOK
<1>1. CASE F = {}
  <2>1. Cardinality(F) = 0
    BY <1>1, FS_EmptySet
  <2>2. InLine(m) <=> m \in queue \union lost \union retired
    BY <1>1 DEF InLine
  <2> HIDE DEF F
  <2>3. Copies(m) = handed[m] + Count(m \in queue) + Count(m \in dropped) + Count(m \in lost)
                    + Count(m \in retired) + Cardinality(F)
    BY DEF Copies, F
  <2> QED BY <1>0, <2>1, <2>2, <2>3 DEF LineOnce, Out, Count
<1>2. CASE F # {}
  <2>1. PICK s \in Socket : m \in fetched[s]
    BY <1>2
  <2>2. F = {s}
    BY <2>1 DEF LineOnce
  <2>3. Cardinality(F) = 1
    BY <2>2, FS_Singleton
  <2>4. InLine(m) /\ m \notin queue /\ m \notin lost /\ m \notin retired
    BY <2>1 DEF LineOnce, InLine
  <2> HIDE DEF F
  <2>5. Copies(m) = handed[m] + Count(m \in queue) + Count(m \in dropped) + Count(m \in lost)
                    + Count(m \in retired) + Cardinality(F)
    BY DEF Copies, F
  <2> QED BY <1>0, <2>3, <2>4, <2>5 DEF Out, Count
<1> QED BY <1>1, <1>2

\* However channel messages, flushes, failures and crashes interleave, there
\* are never more copies of a message than each instance hands over of its
\* publications, which only faults repeat, and the one of the queue.
THEOREM CopiesAreBounded ==
  ASSUME Instance # {}, IsFiniteSet(Instance)
  PROVE  Spec => []DuplicatesBounded
<1>1. TypeOK /\ Account => DuplicatesBounded
  <2> SUFFICES ASSUME TypeOK, Account, NEW m \in Msg
               PROVE  Copies(m) <= Publications + 1
    BY DEF DuplicatesBounded, Publications
  <2>1. Copies(m) = Out(m) + Count(InLine(m)) /\ Bounded(m)
    BY CopiesOf DEF Account
  <2>2. Out(m) \in Nat /\ Weight(m) \in Nat /\ Copies(m) <= Weight(m) /\ Copies(m) \in Nat
    BY <2>1, WeightType DEF Weight, Count
  <2>3. Cardinality(Places(m)) \in Nat
    BY <2>1, FS_CardinalityType DEF Bounded
  <2>4. Publications \in Nat
    BY PublicationsGrow DEF TypeOK
  <2> QED BY <2>1, <2>2, <2>3, <2>4 DEF Bounded
<1> QED BY <1>1, AccountInvariant, RelayTypes, PTL

\* Without Redis nothing is published, and what is not forgotten is one copy.
OneCopy(m) ==
  /\ stage[m] # "published" /\ Weight(m) <= 1
  /\ stage[m] = "unsent" => Weight(m) = 0
  /\ stage[m] = "done" /\ m \notin Ephemeral => Weight(m) = 1
  /\ m \in Ephemeral => ~InLine(m) /\ ~Pending(m)
OneInstance ==
  /\ \A i \in Instance : bus[i] = <<>>
  /\ \A m \in Msg : LineOnce(m) /\ OneCopy(m)

LEMMA SettlesAsOne ==
  ASSUME TypeOK, TypeOK', NEW m \in Msg, OneCopy(m), Settles(m)
  PROVE  OneCopy(m)'
<1>1. Weight(m) \in Nat /\ Weight(m)' \in Nat
  <2>1. Weight(m)' \in Nat
    BY DEF TypeOK, Out, Weight, Count
  <2> QED BY <2>1, WeightType
<1>2. stage[m] \in {"done", "queueing"} /\ m \notin Ephemeral => Weight(m) > 0
  <2>1. Pending(m) => Weight(m) > 0
    BY WeightType DEF Weight, Count
  <2> QED BY <2>1 DEF OneCopy, Pending
<1> QED BY <1>1, <1>2 DEF OneCopy, Settles

\* That account as an invariant: sending begins it, every other step settles.
LEMMA OneCopyInvariant ==
  ASSUME Instance # {}, ~REDIS
  PROVE  Spec => []OneInstance
<1>1. Init => OneInstance
  BY DEF Init, OneInstance, OneCopy, LineOnce, InLine, Weight, Out, Pending, Count
<1>2. TypeOK /\ TypeOK' /\ OneInstance /\ [Next]_vars => OneInstance'
  <2> SUFFICES ASSUME TypeOK, TypeOK', OneInstance, [Next]_vars PROVE OneInstance'
    OBVIOUS
  <2>0. \A i \in Instance : ~RelayChannel(i)
    BY DEF OneInstance, RelayChannel
  <2>1. ASSUME NEW n \in Msg, NEW s \in Socket, Send(n, s) \/ SendPresence(n, s)
        PROVE  OneInstance'
    <3>1. stage[n] = "unsent" /\ Weight(n) = 0 /\ LineOnce(n)
      BY <2>1 DEF Send, SendPresence, OneInstance, OneCopy
    <3>2. /\ LineOnce(n)' /\ ~InLine(n)' /\ Weight(n)' <= 1 /\ stage'[n] # "unsent"
          /\ (SendPresence(n, s) => stage'[n] \in {"published", "done"})
          /\ (Send(n, s) => Weight(n)' = 1 /\ n \notin Ephemeral /\ stage'[n] # "failed")
          /\ stage'[n] # "published" /\ bus' = bus
      BY <2>1, <3>1, SendingStarts
    <3>3. n \in Ephemeral <=> ~Send(n, s)
      BY <2>1 DEF Send, SendPresence
    <3>4. OneCopy(n)'
      BY <2>1, <3>2, <3>3 DEF OneCopy, Pending
    <3>5. ASSUME NEW m \in Msg \ {n} PROVE LineOnce(m)' /\ OneCopy(m)'
      <4>1. ConnectionStep(s) /\ ~Send(m, s) /\ ~SendPresence(m, s)
        BY <2>1 DEF ConnectionStep, Send, SendPresence, TypeOK
      <4>2. Settles(m)
        BY <4>1, ConnectionSettles DEF OneInstance
      <4> QED BY <4>2, SettlesAsOne DEF Settles, OneInstance
    <3> QED BY <3>2, <3>4, <3>5 DEF OneInstance
  <2>2. CASE \A m \in Msg, s \in Socket : ~Send(m, s) /\ ~SendPresence(m, s)
    <3>0. \A m \in Msg : ~PublishAgain(m)
      BY DEF OneInstance, OneCopy, PublishAgain
    <3>1. \A i \in Instance : bus'[i] = <<>>
      BY <2>0, <2>2, <3>0, ChannelsKept DEF OneInstance
    <3>2. ASSUME NEW m \in Msg PROVE LineOnce(m)' /\ OneCopy(m)'
      <4>1. Settles(m)
        BY <2>0, <2>2, StepSettles DEF OneInstance
      <4> QED BY <4>1, SettlesAsOne DEF Settles, OneInstance
    <3> QED BY <3>1, <3>2 DEF OneInstance
  <2> QED BY <2>1, <2>2
<1> QED BY <1>1, <1>2, RelayTypes, PTL DEF Spec

\* On its own (no REDIS_URL) a relay never doubles a message, accounts for
\* each that it took without an error, and keeps no presence frame.
THEOREM OnePlaceAtATime ==
  ASSUME Instance # {}, ~REDIS
  PROVE  Spec => []MessageInOnePlace
<1>1. TypeOK /\ OneInstance => MessageInOnePlace
  <2> SUFFICES ASSUME TypeOK, OneInstance, NEW m \in Msg
               PROVE  /\ Copies(m) <= 1
                      /\ stage[m] = "done" /\ m \notin Ephemeral => Copies(m) = 1
                      /\ stage[m] \in {"unsent", "published", "queueing"} => Copies(m) = 0
                      /\ m \in Ephemeral => Copies(m) = handed[m] + Count(m \in dropped)
    BY DEF MessageInOnePlace
  <2>1. Copies(m) = Out(m) + Count(InLine(m)) /\ Out(m) \in Nat /\ Weight(m) \in Nat
    BY CopiesOf, WeightType DEF OneInstance
  <2>2. Weight(m) = Copies(m) + Count(Pending(m)) /\ Copies(m) \in Nat
    BY <2>1 DEF Weight, Count
  <2>3. OneCopy(m)
    BY DEF OneInstance
  <2>4. Pending(m) => Weight(m) = Copies(m) + 1
    BY <2>2 DEF Count
  <2>5. ~Pending(m) => Weight(m) = Copies(m)
    BY <2>2 DEF Count
  <2>6. m \in Ephemeral => Copies(m) = Out(m)
    BY <2>1, <2>3 DEF OneCopy, Count
  <2>7. (stage[m] \in {"published", "queueing"} <=> Pending(m)) /\ Out(m) = handed[m] + Count(m \in dropped)
    BY DEF Pending, Out
  <2> QED BY <2>2, <2>3, <2>4, <2>5, <2>6, <2>7 DEF OneCopy
<1> QED BY <1>1, OneCopyInvariant, RelayTypes, PTL

\* relay.ts, deliverMessage: "If recipient is confirmed offline (no presence
\* key), queue in PostgreSQL".  Without Redis that is so: what is queued was
\* not also delivered.
THEOREM QueuedOnlyOffline ==
  ASSUME Instance # {}, ~REDIS
  PROVE  Spec => []QueuedWasNotDelivered
<1>1. TypeOK /\ OneInstance => QueuedWasNotDelivered
  <2> SUFFICES ASSUME TypeOK, OneInstance, NEW m \in queue PROVE handed[m] = 0
    BY DEF QueuedWasNotDelivered
  <2>1. m \in Msg /\ handed[m] \in Nat /\ InLine(m)
    BY DEF TypeOK, InLine
  <2>2. Weight(m) <= 1
    BY <2>1 DEF OneInstance, OneCopy
  <2> QED BY <2>1, <2>2 DEF Weight, Out, Count
<1> QED BY <1>1, OneCopyInvariant, RelayTypes, PTL
=============================================================================
