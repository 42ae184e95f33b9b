------------------------------- MODULE Relay -------------------------------
(***************************************************************************)
(* The WebSocket relay of packages/server/src/ws/relay.ts: server          *)
(* instances that each keep a map of registered sockets, the offline queue *)
(* in PostgreSQL they share, and, when REDIS_URL is set, the pub/sub       *)
(* channel and the presence keys in Redis.                                 *)
(*                                                                         *)
(* One action is one turn of an event loop: a handler up to its next       *)
(* await, a timer, or the effect of one query.  A socket stands for one    *)
(* connection; a device that reconnects does so on another socket.         *)
(***************************************************************************)
EXTENDS Integers, Sequences, FiniteSets

CONSTANTS Instance,         \* server processes
          Socket,           \* connections
          Key,              \* `${userId}:${deviceId}`
          Msg,              \* frames relayed, each sent at most once
          Ephemeral,        \* those of type presence, the others are messages
          NoKey, NoSocket,  \* null and undefined in the code
          Home,             \* Home[s]: the instance that accepts s
          Wants,            \* Wants[s]: the keys the client behind s registers
          To,               \* To[m]: the key m is addressed to
          REDIS,            \* REDIS_URL is set
          MAX_CONNECTIONS,  \* connections per instance
          FAULTS,           \* bound: crashes, failing queries and Redis commands
          MaxFlush          \* bound: MaxFlush[s], registrations of s

ASSUME TopologyAssumption ==
  /\ Home \in [Socket -> Instance]
  /\ Wants \in [Socket -> SUBSET Key]
  /\ To \in [Msg -> Key]
  /\ Ephemeral \subseteq Msg
ASSUME NullsAssumption  == NoKey \notin Key /\ NoSocket \notin Socket
ASSUME SwitchAssumption == REDIS \in BOOLEAN
ASSUME BoundsAssumption ==
  MAX_CONNECTIONS \in Nat /\ FAULTS \in Nat /\ MaxFlush \in [Socket -> Nat]

\* What became of a connection.  OPEN is readyState OPEN with a peer there,
\* dead is readyState OPEN with a peer that vanished; closing was closed by
\* the server and may still deliver frames; gone was closed by the peer or
\* terminated; refused never got its handlers; the last three wait for the
\* close event.
SocketState == {"none", "OPEN", "dead", "closing", "gone", "refused", "closed"}

\* Where the delivery of a message stands.
Stage == {"unsent", "published", "queueing", "done", "failed"}

VARIABLES sock,        \* sock[s]: the SocketState of s
          authed,      \* sockets whose auth frame was accepted
          regKey,      \* regKey[s]: registeredKey of the connection
          clients,     \* clients[i]: the Map of instance i, Key -> Socket
          regs,        \* regs[s]: registrations of s so far
          flushing,    \* flushing[s]: keys whose flush query is not done yet
          fetched,     \* fetched[s]: rows a flush deleted and has yet to send
          queue,       \* message_queue
          online,      \* the encra:online:* keys alive in Redis
          bus,         \* bus[i]: relay channel messages i has yet to handle
          stage,       \* stage[m]: progress of deliverMessage
          at,          \* at[m]: the instance that runs deliverMessage for m
          handed,      \* handed[m]: times m was written to a live peer
          dropped,     \* messages written to a vanished peer
          lost,        \* messages a flush deleted and never wrote to a socket
          retired,     \* messages the queue clean-up deleted
          latest,      \* latest[k]: the socket that registered k last
          faults       \* crashes, failing queries and Redis commands so far

connVars  == <<sock, authed, regKey, clients, regs, latest>>
flushVars == <<flushing, fetched>>
redisVars == <<online, bus>>
msgVars   == <<queue, stage, at, handed, dropped, lost, retired>>
vars == <<connVars, flushVars, redisVars, msgVars, faults>>

Init ==
  /\ sock = [s \in Socket |-> "none"] /\ authed = {}
  /\ regKey = [s \in Socket |-> NoKey] /\ regs = [s \in Socket |-> 0]
  /\ clients = [i \in Instance |-> [k \in Key |-> NoSocket]]
  /\ latest = [k \in Key |-> NoSocket]
  /\ flushing = [s \in Socket |-> {}] /\ fetched = [s \in Socket |-> {}]
  /\ online = {} /\ bus = [i \in Instance |-> <<>>]
  /\ queue = {} /\ stage = [m \in Msg |-> "unsent"]
  /\ at = [m \in Msg |-> CHOOSE i \in Instance : TRUE]
  /\ handed = [m \in Msg |-> 0] /\ dropped = {} /\ lost = {} /\ retired = {}
  /\ faults = 0

-----------------------------------------------------------------------------
IsOpen(s)     == sock[s] \in {"OPEN", "dead"}        \* readyState === OPEN
CanSpeak(s)   == sock[s] \in {"OPEN", "closing"}     \* frames still arrive
Registered(s) == regKey[s] # NoKey
Accepted(i)   == {s \in Socket : Home[s] = i /\ sock[s] \notin {"none", "closed"}}

\* clients.get(k) when its readyState is OPEN.
Reachable(i, k) == clients[i][k] # NoSocket /\ IsOpen(clients[i][k])

\* socket.send of the messages ms: they arrive if the peer is there.
Hand(s, ms) ==
  /\ handed' = [m \in Msg |-> IF m \in ms /\ sock[s] = "OPEN" THEN handed[m] + 1
                                                              ELSE handed[m]]
  /\ dropped' = IF sock[s] = "OPEN" THEN dropped ELSE dropped \union ms

\* SETEX of the keys in set, DEL of those in del, which nobody awaits: one may
\* reject, before or after Redis carried it out, and .catch(() => {}) forgets it.
Presence(set, del) ==
  \/ online' = (online \ del) \union set /\ faults' = faults
  \/ /\ REDIS /\ set \union del # {}
     /\ faults < FAULTS /\ faults' = faults + 1
     /\ \E s \in SUBSET set, d \in SUBSET del : online' = (online \ d) \union s

-----------------------------------------------------------------------------
(* The life of a connection.                                                *)

\* wss.clients already counts the new socket when the cap is tested.
Connect(s) ==
  /\ sock[s] = "none"
  /\ sock' = [sock EXCEPT ![s] =
       IF Cardinality(Accepted(Home[s])) + 1 > MAX_CONNECTIONS THEN "refused"
                                                               ELSE "OPEN"]
  /\ UNCHANGED <<authed, regKey, clients, regs, latest, flushVars, redisVars,
                 msgVars, faults>>

Authenticate(s) ==
  /\ CanSpeak(s) /\ s \notin authed
  /\ authed' = authed \union {s}
  /\ UNCHANGED <<sock, regKey, clients, regs, latest, flushVars, redisVars,
                 msgVars, faults>>

\* A bad token, another frame before auth, or the registration timer: each
\* closes a socket that is not registered.
CloseUnregistered(s) ==
  /\ IsOpen(s) /\ ~Registered(s)
  /\ sock' = [sock EXCEPT ![s] = IF sock[s] = "OPEN" THEN "closing" ELSE "gone"]
  /\ UNCHANGED <<authed, regKey, clients, regs, latest, flushVars, redisVars,
                 msgVars, faults>>

PeerCloses(s) ==
  /\ sock[s] \in {"OPEN", "closing"}
  /\ sock' = [sock EXCEPT ![s] = "gone"]
  /\ UNCHANGED <<authed, regKey, clients, regs, latest, flushVars, redisVars,
                 msgVars, faults>>

PeerVanishes(s) ==
  /\ sock[s] = "OPEN"
  /\ sock' = [sock EXCEPT ![s] = "dead"]
  /\ UNCHANGED <<authed, regKey, clients, regs, latest, flushVars, redisVars,
                 msgVars, faults>>

\* No pong came back: socket.terminate().
Mut_HeartbeatTerminates(s) ==   \* isAlive is set by the ping, not the pong
  FALSE /\ UNCHANGED vars
HeartbeatTerminates(s) ==
  /\ sock[s] = "dead"
  /\ sock' = [sock EXCEPT ![s] = "gone"]
  /\ UNCHANGED <<authed, regKey, clients, regs, latest, flushVars, redisVars,
                 msgVars, faults>>

\* The close event: the entry and the presence key go, unless the map
\* already holds another socket under the key.
Owns(s) == Registered(s) /\ clients[Home[s]][regKey[s]] = s

Mut_CloseEvent(s) ==   \* the ownership check is missing
  /\ sock[s] \in {"closing", "gone", "refused"}
  /\ sock' = [sock EXCEPT ![s] = "closed"]
  /\ clients' = IF Registered(s) THEN [clients EXCEPT ![Home[s]][regKey[s]] = NoSocket]
                                 ELSE clients
  /\ Presence({}, {regKey[s]})
  /\ UNCHANGED <<authed, regKey, regs, latest, flushVars, bus, msgVars>>
CloseEvent(s) ==
  /\ sock[s] \in {"closing", "gone", "refused"}
  /\ sock' = [sock EXCEPT ![s] = "closed"]
  /\ clients' = IF Owns(s) THEN [clients EXCEPT ![Home[s]][regKey[s]] = NoSocket]
                           ELSE clients
  /\ Presence({}, IF Owns(s) THEN {regKey[s]} ELSE {})
  /\ UNCHANGED <<authed, regKey, regs, latest, flushVars, bus, msgVars>>

-----------------------------------------------------------------------------
(* register.                                                                *)

\* Entry and presence key of the key registered before, if it is another.
\* The entry is removed whoever owns it.
Mut_Leaves(s, k) == FALSE   \* the old entry stays
Leaves(s, k) == Registered(s) /\ regKey[s] # k

Mut_Register(s, k) ==   \* SETEX before registeredKey is assigned
  LET i   == Home[s]
      old == IF Leaves(s, k) THEN [clients[i] EXCEPT ![regKey[s]] = NoSocket]
                             ELSE clients[i]
  IN
  /\ CanSpeak(s) /\ s \in authed /\ k \in Wants[s] /\ regs[s] < MaxFlush[s]
  /\ clients' = [clients EXCEPT ![i] = [old EXCEPT ![k] = s]]
  /\ regKey' = [regKey EXCEPT ![s] = k]
  /\ regs' = [regs EXCEPT ![s] = @ + 1]
  /\ latest' = [latest EXCEPT ![k] = s]
  /\ Presence(IF REDIS THEN {regKey[s]} ELSE {}, IF Leaves(s, k) THEN {regKey[s]} ELSE {})
  /\ flushing' = [flushing EXCEPT ![s] = @ \union {k}]
  /\ UNCHANGED <<sock, authed, fetched, bus, msgVars>>
Register(s, k) ==
  LET i   == Home[s]
      old == IF Leaves(s, k) THEN [clients[i] EXCEPT ![regKey[s]] = NoSocket]
                             ELSE clients[i]
  IN
  /\ CanSpeak(s) /\ s \in authed /\ k \in Wants[s] /\ regs[s] < MaxFlush[s]
  /\ clients' = [clients EXCEPT ![i] = [old EXCEPT ![k] = s]]
  /\ regKey' = [regKey EXCEPT ![s] = k]
  /\ regs' = [regs EXCEPT ![s] = @ + 1]
  /\ latest' = [latest EXCEPT ![k] = s]
  /\ Presence(IF REDIS THEN {k} ELSE {}, IF Leaves(s, k) THEN {regKey[s]} ELSE {})
  /\ flushing' = [flushing EXCEPT ![s] = @ \union {k}]
  /\ UNCHANGED <<sock, authed, fetched, bus, msgVars>>

\* flushQueuedMessages, its DELETE ... RETURNING.
Rows(k) == {m \in queue : To[m] = k}

Mut_FlushQuery(s, k) ==   \* SELECT, the rows stay
  /\ k \in flushing[s]
  /\ flushing' = [flushing EXCEPT ![s] = @ \ {k}]
  /\ fetched' = [fetched EXCEPT ![s] = @ \union Rows(k)]
  /\ UNCHANGED <<connVars, redisVars, msgVars, faults>>
FlushQuery(s, k) ==
  /\ k \in flushing[s]
  /\ flushing' = [flushing EXCEPT ![s] = @ \ {k}]
  /\ fetched' = [fetched EXCEPT ![s] = @ \union Rows(k)]
  /\ queue' = queue \ Rows(k)
  /\ UNCHANGED <<connVars, redisVars, stage, at, handed, dropped, lost, retired,
                 faults>>

\* The loop over the rows: it stops at a socket that is no longer OPEN.
FlushSend(s) ==
  /\ fetched[s] # {}
  /\ IF IsOpen(s) THEN Hand(s, fetched[s]) /\ lost' = lost
     ELSE lost' = lost \union fetched[s] /\ UNCHANGED <<handed, dropped>>
  /\ fetched' = [fetched EXCEPT ![s] = {}]
  /\ UNCHANGED <<connVars, flushing, redisVars, queue, stage, at, retired, faults>>

\* The query rejects, before or after the server committed it.
FlushFails(s, k) ==
  /\ faults < FAULTS /\ faults' = faults + 1
  /\ k \in flushing[s]
  /\ flushing' = [flushing EXCEPT ![s] = @ \ {k}]
  /\ \/ UNCHANGED <<queue, lost>>
     \/ queue' = queue \ Rows(k) /\ lost' = lost \union Rows(k)
  /\ UNCHANGED <<connVars, fetched, redisVars, stage, at, handed, dropped, retired>>

-----------------------------------------------------------------------------
(* message and presence.                                                    *)

Publish(m) == [j \in Instance |-> Append(bus[j], m)]

\* deliverMessage, up to its first await: hand over locally, else publish,
\* else insert.
Send(m, s) ==
  LET i == Home[s] IN
  /\ m \notin Ephemeral /\ stage[m] = "unsent"
  /\ CanSpeak(s) /\ s \in authed /\ Registered(s)
  /\ at' = [at EXCEPT ![m] = i]
  /\ IF Reachable(i, To[m])
     THEN /\ Hand(clients[i][To[m]], {m})
          /\ stage' = [stage EXCEPT ![m] = "done"]
          /\ bus' = bus
     ELSE /\ stage' = [stage EXCEPT ![m] = IF REDIS THEN "published" ELSE "queueing"]
          /\ bus' = IF REDIS THEN Publish(m) ELSE bus
          /\ UNCHANGED <<handed, dropped>>
  /\ UNCHANGED <<connVars, flushVars, online, queue, lost, retired, faults>>

\* deliverPresence: handed over, published or dropped, never queued.
Mut_SendPresence(m, s) ==   \* falls through to the queue
  LET i == Home[s] IN
  /\ m \in Ephemeral /\ stage[m] = "unsent"
  /\ CanSpeak(s) /\ s \in authed /\ Registered(s)
  /\ at' = [at EXCEPT ![m] = i] /\ bus' = bus
  /\ IF Reachable(i, To[m])
     THEN Hand(clients[i][To[m]], {m}) /\ stage' = [stage EXCEPT ![m] = "done"]
     ELSE stage' = [stage EXCEPT ![m] = "queueing"] /\ UNCHANGED <<handed, dropped>>
  /\ UNCHANGED <<connVars, flushVars, online, queue, lost, retired, faults>>
SendPresence(m, s) ==
  LET i == Home[s] IN
  /\ m \in Ephemeral /\ stage[m] = "unsent"
  /\ CanSpeak(s) /\ s \in authed /\ Registered(s)
  /\ at' = [at EXCEPT ![m] = i]
  /\ IF Reachable(i, To[m])
     THEN /\ Hand(clients[i][To[m]], {m})
          /\ stage' = [stage EXCEPT ![m] = "done"]
          /\ bus' = bus
     ELSE /\ stage' = [stage EXCEPT ![m] = IF REDIS THEN "published" ELSE "done"]
          /\ bus' = IF REDIS THEN Publish(m) ELSE bus
          /\ UNCHANGED <<handed, dropped>>
  /\ UNCHANGED <<connVars, flushVars, online, queue, lost, retired, faults>>

\* The client's connection to Redis ends before the answer to PUBLISH: ioredis
\* sends the command again (maxRetriesPerRequest), also one carried out.
PublishAgain(m) ==
  /\ faults < FAULTS /\ faults' = faults + 1
  /\ stage[m] = "published"
  /\ bus' = Publish(m)
  /\ UNCHANGED <<connVars, flushVars, online, msgVars>>

\* exists(encra:online:key): somebody else will deliver, or nobody can; for a
\* presence frame nobody asks.
NotQueued(m) == m \in Ephemeral \/ To[m] \in online

Mut_CheckOnline(m) ==   \* no fall-through to the queue
  /\ stage[m] = "published" /\ NotQueued(m)
  /\ stage' = [stage EXCEPT ![m] = "done"]
  /\ UNCHANGED <<connVars, flushVars, redisVars, queue, at, handed, dropped, lost,
                 retired, faults>>
CheckOnline(m) ==
  /\ stage[m] = "published"
  /\ stage' = [stage EXCEPT ![m] = IF NotQueued(m) THEN "done" ELSE "queueing"]
  /\ UNCHANGED <<connVars, flushVars, redisVars, queue, at, handed, dropped, lost,
                 retired, faults>>

QueueOfflineMessage(m) ==
  /\ stage[m] = "queueing"
  /\ queue' = queue \union {m}
  /\ stage' = [stage EXCEPT ![m] = "done"]
  /\ UNCHANGED <<connVars, flushVars, redisVars, at, handed, dropped, lost, retired,
                 faults>>

\* A query rejects, an INSERT before or after its commit: the sender is sent
\* an error frame.
DeliveryFails(m) ==
  /\ faults < FAULTS /\ faults' = faults + 1
  /\ stage[m] \in {"published", "queueing"}
  /\ stage' = [stage EXCEPT ![m] = "failed"]
  /\ queue' \in IF stage[m] = "queueing" THEN {queue, queue \union {m}} ELSE {queue}
  /\ UNCHANGED <<connVars, flushVars, redisVars, at, handed, dropped, lost, retired>>

\* The subscriber of instance i handles the next channel message.
RelayChannel(i) ==
  /\ bus[i] # <<>>
  /\ bus' = [bus EXCEPT ![i] = Tail(@)]
  /\ IF Reachable(i, To[Head(bus[i])])
     THEN Hand(clients[i][To[Head(bus[i])]], {Head(bus[i])})
     ELSE UNCHANGED <<handed, dropped>>
  /\ UNCHANGED <<connVars, flushVars, online, queue, stage, at, lost, retired, faults>>

-----------------------------------------------------------------------------
(* Time, clean-up and crashes.                                              *)

\* The presence TTL outlives a heartbeat: a key only expires when no live
\* connection refreshes it.
PresenceExpires(k) ==
  /\ k \in online
  /\ ~ \E s \in Socket : sock[s] = "OPEN" /\ regKey[s] = k
  /\ online' = online \ {k}
  /\ UNCHANGED <<connVars, flushVars, bus, msgVars, faults>>

\* The EXPIREs of the heartbeats reject until the TTL is over.
RefreshFails(k) ==
  /\ faults < FAULTS /\ faults' = faults + 1
  /\ k \in online /\ \E s \in Socket : sock[s] = "OPEN" /\ regKey[s] = k
  /\ online' = online \ {k}
  /\ UNCHANGED <<connVars, flushVars, bus, msgVars>>

\* runQueueCleanup deletes a row of QUEUE_RETENTION_DAYS.
QueueCleanup(m) ==
  /\ m \in queue
  /\ queue' = queue \ {m}
  /\ retired' = retired \union {m}
  /\ UNCHANGED <<connVars, flushVars, redisVars, stage, at, handed, dropped, lost, faults>>

\* The process of an instance ends: its sockets, its map, its turns and its
\* subscription are lost; PostgreSQL and Redis stay.
Cut(i) == {s \in Socket : Home[s] = i /\ sock[s] # "none"}
Stop(i) ==
  /\ sock' = [s \in Socket |-> IF s \in Cut(i) THEN "closed" ELSE sock[s]]
  /\ clients' = [clients EXCEPT ![i] = [k \in Key |-> NoSocket]]
  /\ flushing' = [s \in Socket |-> IF s \in Cut(i) THEN {} ELSE flushing[s]]
  /\ fetched' = [s \in Socket |-> IF s \in Cut(i) THEN {} ELSE fetched[s]]
  /\ lost' = lost \union UNION {fetched[s] : s \in Cut(i)}
  /\ bus' = [bus EXCEPT ![i] = <<>>]
  /\ stage' = [m \in Msg |-> IF at[m] = i /\ stage[m] \in {"published", "queueing"}
                             THEN "failed" ELSE stage[m]]
  /\ UNCHANGED <<authed, regKey, regs, latest, online, queue, at, handed, dropped, retired>>

\* It dies and is started again.
Crash(i) ==
  /\ faults < FAULTS /\ faults' = faults + 1
  /\ Cut(i) # {} /\ Stop(i)

ConnectionStep(s) ==
  \/ Connect(s) \/ Authenticate(s) \/ CloseUnregistered(s) \/ PeerCloses(s)
  \/ PeerVanishes(s) \/ HeartbeatTerminates(s) \/ CloseEvent(s)
  \/ FlushSend(s)
  \/ \E k \in Key : Register(s, k) \/ FlushQuery(s, k) \/ FlushFails(s, k)
  \/ \E m \in Msg : Send(m, s) \/ SendPresence(m, s)

MessageStep(m) ==
  PublishAgain(m) \/ CheckOnline(m) \/ QueueOfflineMessage(m) \/ DeliveryFails(m) \/ QueueCleanup(m)

Next ==
  \/ \E s \in Socket : ConnectionStep(s)
  \/ \E m \in Msg : MessageStep(m)
  \/ \E i \in Instance : RelayChannel(i) \/ Crash(i)
  \/ \E k \in Key : PresenceExpires(k) \/ RefreshFails(k)

Spec == Init /\ [][Next]_vars

-----------------------------------------------------------------------------
(* Properties.                                                              *)

TypeOK ==
  /\ sock \in [Socket -> SocketState] /\ authed \subseteq Socket
  /\ regKey \in [Socket -> Key \union {NoKey}] /\ regs \in [Socket -> Nat]
  /\ clients \in [Instance -> [Key -> Socket \union {NoSocket}]]
  /\ latest \in [Key -> Socket \union {NoSocket}]
  /\ flushing \in [Socket -> SUBSET Key] /\ fetched \in [Socket -> SUBSET Msg]
  /\ online \subseteq Key /\ bus \in [Instance -> Seq(Msg)]
  /\ queue \subseteq Msg /\ stage \in [Msg -> Stage] /\ at \in [Msg -> Instance]
  /\ handed \in [Msg -> Nat] /\ dropped \subseteq Msg /\ lost \subseteq Msg
  /\ retired \subseteq Msg
  /\ faults \in Nat

\* An entry of a map is a connection of that instance, not yet closed, that
\* is registered under exactly that key: no reconnect, re-registration, close
\* or crash leaves an entry to a connection that is over or is somebody else.
EntriesAreOwned ==
  \A i \in Instance, k \in Key : \A s \in Socket :
    clients[i][k] = s =>
      Home[s] = i /\ regKey[s] = k /\ sock[s] \notin {"none", "refused", "closed"}

\* The socket a device registered last is the one its messages reach.
NewestReachable ==
  \A k \in Key : \A s \in Socket :
    latest[k] = s /\ regKey[s] = k /\ IsOpen(s) => clients[Home[s]][k] = s

\* It is, whatever the order of registrations and close events, until some
\* connection may have left a key that is not its own any more: register
\* deletes the entry of the key registered before without looking whose it is.
MaySwitch == \E s \in Socket : regs[s] > 1 /\ \E k, l \in Wants[s] : k # l
NewestReachableAtFirst == ~MaySwitch => NewestReachable

\* The presence key of a device with a live connection is set.
PresenceHolds ==
  \A k \in Key : \A s \in Socket :
    REDIS /\ latest[k] = s /\ regKey[s] = k /\ sock[s] = "OPEN" => k \in online

\* Where copies of a message are: written to a live peer, queued, between a
\* flush query and its loop, written to a vanished peer, lost by a flush, or
\* cleaned up.
Count(b)  == IF b THEN 1 ELSE 0
Copies(m) == handed[m] + Count(m \in queue) + Count(m \in dropped) + Count(m \in lost)
             + Count(m \in retired) + Cardinality({s \in Socket : m \in fetched[s]})

\* On one instance the relay never doubles a message, and every message whose
\* delivery ended well is accounted for; a presence frame is never kept.
MessageInOnePlace ==
  \A m \in Msg :
    /\ Copies(m) <= 1
    /\ stage[m] = "done" /\ m \notin Ephemeral => Copies(m) = 1
    /\ stage[m] \in {"unsent", "published", "queueing"} => Copies(m) = 0
    /\ m \in Ephemeral => Copies(m) = handed[m] + Count(m \in dropped)

\* Across instances a message may be multiplied, but only by what the code
\* does: each instance hands over its copy of a publication, which is made
\* again only when Redis failed, and a flush delivers the queued one.  The
\* ratchet has to live with that many repeats.
DuplicatesBounded ==
  \A m \in Msg : Copies(m) <= Cardinality(Instance) * (faults + 1) + 1

\* A vanished peer does not keep its map entry for ever: the heartbeat ends it.
\* Nor is a device advertised for ever by a connection that crashed away or
\* went dead: its presence key is cleared, unless it is connected again.
DeadPeersLeave ==
  /\ \A s \in Socket :
       sock[s] = "dead" ~> \A k \in Key : clients[Home[s]][k] # s
  /\ \A k \in Key :
       k \in online ~> (k \notin online \/ \E s \in Socket : sock[s] = "OPEN" /\ regKey[s] = k)

\* deliverMessage comes to an end: handed over, queued, or reported failed.
DeliveryEnds ==
  \A m \in Msg : stage[m] \in {"published", "queueing"} ~> stage[m] \in {"done", "failed"}

\* relay.ts, deliverMessage: "If recipient is confirmed offline (no presence
\* key), queue in PostgreSQL": what is queued was not also delivered.
QueuedWasNotDelivered == \A m \in queue : handed[m] = 0

\* relay.ts, deliverMessage: "Another instance will deliver it": a message
\* not queued because the recipient is online has somebody to deliver it.
SomebodyDelivers ==
  \A m \in Msg :
    stage[m] = "done" =>
      \/ Copies(m) > 0
      \/ \E i \in Instance, j \in 1 .. 9 : j <= Len(bus[i]) /\ bus[i][j] = m

\* docs/ARCHITECTURE.md: on reconnect flushQueuedMessages() "delivers all
\* queued messages": once its flush is over, nothing waits for a live device.
NothingWaitsOnline ==
  \A m \in queue : \A s \in Socket :
    clients[Home[s]][To[m]] = s /\ sock[s] = "OPEN" => To[m] \in flushing[s]

\* docs/ARCHITECTURE.md: the flush "delivers all queued messages atomically":
\* no row is deleted without being written to the device's socket.
FlushIsAtomic == lost = {}
=============================================================================
