# Encra in TLA+

This directory is a verification project for Encra, the end-to-end encryption
kit of this repository: TLA+ modules translated from the TypeScript source,
TLC configurations that model-check them on small instances, and proofs that
TLAPS checks for every value of the constants. Paths below are relative to the
repository's `src/`; `PROJECT.json` maps every definition to the lines it
models and lists the hazards each property is for.

1. [The system](#1-the-system)
2. [Modules and how they correspond to the code](#2-modules)
3. [Runs, bounds and what they show](#3-runs)
4. [Fairness](#4-fairness)
5. [What is proved](#5-proofs)
6. [Only model-checked, and out of reach](#6-only-model-checked)
7. [Where code and documentation part](#7-divergences)
8. [Not modelled](#8-not-modelled)
9. [Plan](#9-plan)

## 1. The system

A device holds an identity key, a signed prekey and a pool of one-time
prekeys. It publishes their public halves over HTTP to a key server
(PostgreSQL), and connects to a WebSocket relay. A sender fetches the bundle
of each device of the recipient, runs X3DH, starts a Double Ratchet per
direction and device pair, and sends one frame per device through the relay;
the first frames carry the X3DH prekey message. The relay hands a frame to the
registered socket, forwards it to other server instances over Redis, or stores
it in PostgreSQL until the device registers. Ratchets, prekeys and histories
live in IndexedDB.

| Component | State | Operations | Talks to |
|---|---|---|---|
| Double Ratchet `core/src/crypto/ratchet.ts` | root, two chains, four header keys, counters, skipped keys | initSender, initReceiver, encrypt, decrypt, export | called by the client session, which serialises nothing around it |
| X3DH `core/src/crypto/x3dh.ts` | none | x3dhInitiate, x3dhRespond | prekeys of both sides |
| Prekey server `server/src/routes/prekeys.ts` | identity_keys, signed_prekeys, one_time_prekeys | POST (one transaction), GET (three queries, the last deletes a row), count | HTTP from every client |
| Prekey life cycle `client/src/EncraClient.ts` 786-909, `react/src/useE2EPresence.ts` | `_prekeys` in memory, the IndexedDB record | init, consume, replenish, publish; the presence hook publishes the stored pool | prekey server, IndexedDB shared by the hooks |
| Client session `client/src/EncraClient.ts`, `react/src/useE2EChat.ts` | `_ratchets`, `_pendingPrekey`, `_socket`, history | sendMessage, message handler, reload | ratchet, prekeys, relay, IndexedDB |
| Relay `server/src/ws/relay.ts` | per instance: sockets and the map of registered keys; shared: message_queue, presence keys, a pub/sub channel | auth, register, message, presence, close, heartbeat, flush, clean-up | PostgreSQL, Redis, clients |
| Presence and ghost mode `react/src/useE2EPresence.ts`, `client/src/EncraClient.ts` 513-672 | `sendKeysRef`, `sendPrekeyRef`, `_recvPresenceKeys`, the stored `ps:` and `pr:` sessions, the ghost flag in memory and store | sendPresenceTo, setGhostMode, init, announcement, cleanup, presence handler | relay (ephemeral frames), prekey server, IndexedDB |
| Client life cycle `client/src/EncraClient.ts` 249-272, 792-842, 911-1049 | connect and cancel flags, socket, retry timer, the prekey promises shared by a page | connect, init, socket events, reconnect, disconnect | relay, key server, IndexedDB |
| Device keys, files and forms `react/src/useE2EFile.ts`, `useE2EForm.ts`, `server/src/routes/keys.ts` | key pair and device id in refs and store, public_keys, cached lists | init of each hook and client, fetch of a peer's devices, encrypt, decrypt | key server, IndexedDB |
| Server process `server/src/index.ts`, `db/pool.ts`, `redis.ts` | shutdown flag, pool, Redis clients | shutdown on a signal, forced exit | the relay in the same process |
| Auth, rate limits, health, CLI, field primitives, fingerprints, provider | little or none | see section 8 | |

What is hard here:

* **No lock anywhere.** Handlers are async functions; between any two awaits
  another handler of the same page or server runs. `_getOrInitSenderRatchet`
  and `_getOrInitReceiverRatchet` look a map up, await, and write the map.
  `deliverMessage` looks the socket map up, awaits three times and inserts.
* **Reordering, loss and repetition.** A live frame overtakes queued ones; a
  frame written to a vanished peer is gone; publication plus queue can deliver
  one frame several times. The ratchet must take all of it.
* **Crashes.** A page may reload between any two awaits, a server instance may
  die with rows in flight and presence keys left behind.
* **Partial failure.** IndexedDB puts that fail are swallowed, publications
  that fail are not retried, a query may fail after its commit.
* **Shared mutable rows.** Several hooks of a page share one prekey record,
  several fetches one pool, several sockets one device key.
* **Effects that outlive their cause.** A run of `init` goes on after its hook
  has another user or its client was disconnected; a presence update on its
  way outlives the decision to be invisible; a delivery outlives its connection
  and the pool its process has closed.

What makes each component correct: the ratchet uses a key once, returns a
message once, forgets what it used, and never loses step with its peer; the
relay delivers to the newest connection, keeps no stale entry, accounts for
each message, and multiplies one only within a bound; the prekey tables hand
a one-time key out once, and only keys whose private half is still there; a
device pair has one session each way, whose numbers never repeat, and what
reaches the relay is read once; presence frames open, and nobody hears of a
ghost; a client has one line to the relay, and one generation of prekeys is what
all clients of a page hold and the server hands out; one device has one key
pair, and an envelope opens for its sender alone; a process that shuts down
finishes what it asked its pool.

## 2. Modules

| Module | Models | Extends / uses |
|---|---|---|
| `SecureChannel` | abstract: plaintexts are written, and each is read at most once by the other side | |
| `DoubleRatchet` | one session of `DoubleRatchet` between two parties, over a hostile network | INSTANCE `SecureChannel` |
| `Relay` | `ws/relay.ts` on any number of instances, with or without Redis | |
| `PreKeys` | one device's prekeys: server tables, device, peers | |
| `Session` | one direction of a device pair's chat: sender page, receiver page, network | |
| `Presence` | presence from one device to its contacts: the hook's page, the contacts' handlers | |
| `Connection` | connect, init, sockets, timers and disconnect of the clients of one user on a page | |
| `DeviceKeys` | device ids and key pairs, their table, and the files and forms made with them | |
| `Server` | the shutdown of a server process, composed with the relay that runs in it | EXTENDS `Relay` |
| `MC*` | model values and topologies for TLC | the module of that name |
| `*Proofs` | theorems | the module of that name, `TLAPS` |

`Server` composes: each of its steps is a step of shutdown, or a step of
`Relay` under the condition that its process still runs and that what it asks is
still there. The other component modules stand beside one another, each
abstracting what the others detail: `Session` takes a ratchet as a counter and a set of skipped
numbers (the part of `DoubleRatchet` that matters when a chain never turns),
`DoubleRatchet` takes a network that repeats `MaxDup` times (`Relay` bounds the
repeats, `DuplicatesBounded`), `PreKeys` takes a session as "the two sides derived
the same keys", `Connection` a generation of prekeys as a number, and `Presence` has
its frames handed over in order by a relay that may hold them back.

### DoubleRatchet

Keys are terms. A root key is the sequence of DH outputs mixed in since X3DH, a
chain key is a root and a step count, a header key is a root and a label; a DH
output is the set of the two pairs that made it. Equal terms are equal keys, and
a box opens under exactly the key that closed it. `st[p]` has the fields of the
class; `sent`, `opened` and `refused` are histories. Actions: `Encrypt`, and one
per way through `decrypt`: `DecryptSkipped` (trySkippedMessageKeys, which deletes
before it opens), `DecryptCurrent` (header under HKr), `DecryptNext` (header
under NHKr: close the old chain at pn, DH step, skip), `RefuseAfterRatchet` (the
limit is hit after the DH step, whose effects stay), `RefuseGap` and
`RefuseHeader`. A current-chain message whose counter is behind `Nr` still spends
a key (`SpendKey` with a body that does not open), as in the code.

### Relay

A socket is a connection; `sock` merges `readyState` with whether the peer is
still there, because an OPEN socket with a vanished peer is what the heartbeat is
for. One action is one turn of an event loop: `Register` is the whole handler up
to the un-awaited flush, `FlushQuery` the DELETE ... RETURNING, `FlushSend` its
loop, `Send`/`CheckOnline`/`QueueOfflineMessage` the three stretches of
`deliverMessage` between awaits. `FlushFails` and `DeliveryFails` are queries that
reject before or after their commit, `Crash` the end of an instance. Of Redis: `Presence`
is a SETEX or DEL that nobody awaits and whose rejection is forgotten (`.catch(() => {})`),
carried out or not; `RefreshFails` the EXPIREs of the heartbeats that reject until the key is
gone; `PublishAgain` the PUBLISH that ioredis sends again when its connection ended before the
answer. Each counts as a fault, as crashes and failing queries do. `handed`,
`dropped`, `lost` and `retired` say where copies of a message went. `closing` is a
connection the server closed whose frames may still be read, as `ws` does.

### PreKeys

A key is its generation and id. `identity`, `signed` and `pool` are the tables;
`Publish` is the POST transaction (upserts, and ON CONFLICT DO NOTHING for
one-time keys); `ReadIdentity`, `ReadSigned`, `TakeOneTime`/`LeaveOneTime` are the
queries of GET, each its own step because GET has no transaction. `Start` is
`_initPreKeys`, `Reload` the page going away with its handlers, `MountPresence` is `ensurePreKeys` of the
presence hook. A first frame goes `wire -> loading -> consumed -> publishing ->
ready -> read`, which are the waits of `_getOrInitReceiverRatchet` and
`_consumeOneTimePreKey`. `sess` says whether the two sides derived the same keys, `spent` is
the private one-time key a handler derived with. `LoadFails` is the get that `loadRatchet`
returns without awaiting it in its `try`, so that a rejection ends the handler. `Establish` is
one step, from the answer of that get to the dropped key: `x3dhRespond` and `initReceiver`
between them wait for libsodium only.

### Session

`send[t]` is the wait a call of `sendMessage` is in (`devices`, `loading`, `bundle`,
`created`, `saving`), `handler[d]` that of a message handler. `made` and `held` are the
ratchet objects the calls and handlers loaded or created, `sending` and `receiving` say
whose object the `_ratchets` map has: two overlapping calls can hold two objects of
one session, which is the point. `savedS` and `savedR` are the stored records, `Put` a
put that may fail silently. `Transmit` sends on the socket there is after the
awaits: a closed one drops silently, one that is connecting throws. `CallRejects` and
`LoadRejected` are fetches that fail and gets that are rejected, which `loadRatchet` does not
catch. `Remount` is the cleanup of the hook's effect and its next run: the ratchets are
forgotten, the handlers under way go on, and what they read is not shown (`unmounted`, the
`cancelled` of the code). `EncraClient` has no such check and connects once. Nothing serialises
handlers, and HANDLERS bounds how many overlap. `crossed` is the history that a handler looked
for the session in IndexedDB while another was opening it; properties condition on it.

`EncraClient` and `useE2EChat` are the same program twice, once as a class and once in
hooks; `PROJECT.json` maps the sending half of `Session` to the class and the receiving
half to the hook, and the device of `PreKeys` to both. They differ in one step: the
hook sends on the socket it captured when the call began, so it drops the frame
whenever that socket has closed, where the class uses the reconnected one.

Abstractions of `Session`: promises of libsodium are settled, so a turn runs up to the next
IndexedDB request or fetch; one recipient device and one direction; the peer's
own session shows only as `HearPeer`; the 1000-key limit is not reached; a put
counts as done when it is issued, and the prekey record's put succeeds; texts are
told apart, and the history has no cap.

### Presence

The sending page is that of the hook, the receiving pages that of `EncraClient`; each
file has the other half too, and `PROJECT.json` maps a few definitions to the second
copy. `EncraClient` differs: it does not announce itself, ends ghost mode without
broadcast, tells only the peers it has sessions with, and sends on `this._socket` after
its awaits. `step[c]` is the wait that call c of `sendPresenceTo` is in (`devices`,
`loading`, `bundle`, `saving`, and `encrypting` for the broadcast of the cleanup);
`toggle[g]` is where a call of `setGhostMode` is in its loop, and `Loop` the turn that
goes on to the next contact or ends it. A key is named by the call that ran X3DH and
the generation of the contact's signed prekey, so the two sides have the same key when
the terms are equal. `calm` and `raced` are histories the properties condition on: no
other call under way when ghost mode was enabled, and a call while the flag was loaded.
`CallRejects` and `LoadRejected` are failing fetches and rejected gets of a presence session.

### Connection

`init[c]` is the wait `_init` is in. `promise[c]` is the promise a client made for
`prekeyInits`, `waits[c]` the one it waits for: a second client of the page joins the first
one's (`AskPreKeys`), and fails with it when its get is rejected (`GetRejected`). A socket is `connecting`, `open`, `closing` (close() was called, or
its connection was lost) and `closed` after its event, in which the client schedules a
timer unless it was cancelled. `Disconnect` closes, clears the timer and drops the keys
at any point; `init` goes on after it.

### DeviceKeys

A run of `init` is a number, which also names the id and the pair it generates. `run[r]`
keeps what its last get returned. A hook gets its device id before its pair and a client
after; a hook's effect may start again for another user while a run goes on, a client
has one user. `late` is the history that a run set the refs of a hook that had another
user by then. `InitFails` is a POST that fails or a get of the pair that is rejected. An
envelope goes `fetching -> sealed -> reading -> opened/refused/blank`; a shared key is the set of
the two pairs; a form without fields has nothing that would fail to open, and ends as `blank`.

### Server

`phase[i]` is the wait `shutdown` is in: `closing` (server.close, which ends when the
last connection has, the upgraded ones of the relay included), `draining` (pool.end),
`quitting` (QUIT to Redis), and how it ended. `Serve` lets a connection's turns go on in a
process that runs, and new ones only while it listens. `Answered` continues a delivery
after Redis answered: while the pool is ending its INSERT is refused (`Refused`), and after
it is null `getPool` makes a second pool, whose queries nobody waits for (`late`). The
force-exit timer may fire at any time after the signal. `Exit` records in `cut` what the
process had in a query when it ended.

## 3. Runs

| Run | Instance | Properties | Shows |
|---|---|---|---|
| `ratchet` | 4 messages each way, MAX_SKIP_KEYS 1, one repeat | TypeInv, SendingChainKnown, NoKeyReuse, AtMostOnce, ForwardSecrecy, KeysSpentOnce, ImplementsChannel, GapsTolerated | key hygiene, in-step header keys, refinement of the channel; decrypt throws only on repeats and real gaps until a repeat happens |
| `ratchet_desync` | 3 each way, limit 2, 2 repeats | OutOfOrderTolerated | violated, see 7 |
| `relay` | one instance, no Redis, 3 connections for 2 places, one connection that registers twice, under either key, a message and a presence frame, one fault | MessageInOnePlace, EntriesAreOwned, NewestReachableAtFirst | nothing doubled, all accounted for, exact maps, last registration reachable while nobody switches keys |
| `relay_cluster` | two instances with Redis, a sender on one, a recipient with a connection to each, one message, one fault | TypeOK, DuplicatesBounded | a message is multiplied once for each publication and instance and once by the queue, and no more; 3 copies without a fault and 5 with one are reached |
| `server` | one instance with Redis that may be sent a signal, a sender and a recipient, one message, one fault | CleanExitDrains, ShutdownEnds, DeadPeersLeave, DeliveryEnds | a clean exit cuts off no query of the pool it closed; shutdown ends once peers are gone; vanished peers leave the map and their presence keys go, deliveries end |
| `prekeys` | two peers that fetch for a chat or for presence and send two and one first frames, pool of 2 with mark 1, one reload, one mount, one lost publication or rejected get | TypeInv, ChatHandsOutOnce, ChatOffersHeld, SpentOnce, HandlersEnd | keys are handed out once and held while the chat is alone with them; no private key serves two sessions; handlers end |
| `session` | 2 texts, 2 deliveries each whose handlers overlap, any three of: reload or remount of a page, lost connection, failing put, message of the peer, repeated frame | TypeInv, NumbersOnceIfSaved, OneSessionIfSaved, ShownOnceIfSaved, CanEstablishAtFirst, TextsRead | one session, unique numbers, each text shown once unless handlers crossed, and read in the end if undisturbed |
| `session_overlap` | two calls at once and a reload | NumbersOnce | violated, see 7 |
| `presence` | one contact, with or without a store, 2 sends, 2 calls of setGhostMode, one lost connection or reload of either page | TypeInv, FramesOpen, GhostSaved, OfflineLast, PresenceEnds | frames open but for lost keys and crossed X3DH; the flag is the stored one; offline is last; everything ends |
| `presence_unmount` | the same | FarewellsLeave | violated, see 7 |
| `connection` | two clients, 2 lost connections, 2 reloads, a store, gets that are rejected | TypeInv, OneLine, OneGeneration, LinesKept | one line each, one generation for all, reconnection |
| `device_keys` | a hook and a client of one user in one browser, a client of another user in another, 3 runs of init, one file or form | TypeInv, OneIdentity, EnvelopesOpen | one identity per browser and user for all consumers in it, envelopes open for the true sender only |

Why the bounds are enough for what they are asked:

* **Ratchet.** With a limit of 1, two messages make a gap that is accepted and
  three one that is refused; four messages per party allow two DH steps of each
  and late messages of chains left behind. One repeat suffices for every
  property about repeats; the limit's value matters only through comparison
  with a gap. Two repeats with three messages and limit 2 were also explored.
* **Relay.** Three connections for two places fill the cap while a close event
  is pending. One switching connection beside one that keeps its key races each
  order of registration and close. Two instances are the least with cross traffic; in
  `relay_cluster` both hold a connection of the recipient, so that each hands over its copy
  and the queue adds one, which is the bound. One fault puts a crash, a half-committed query or
  a failing Redis command at any point. One message is enough since deliveries of two messages
  do not interact: they share only map and queue, and rows are per message.
* **PreKeys.** A pool of 2 with low-water mark 1 replenishes at the first
  consumption, so ids are reallocated while fetches and a second consumption are
  under way; the two frames of one peer overlap each other, or meet a stored
  session after the reload. One reload separates memory from store at every wait.
  A key that the presence hook puts back on the table reaches the other peer, whose first frame
  then meets the private half, spent or not.
* **Session.** Two texts are a first and a later frame, in either order, each also repeated,
  by handlers two of which overlap. What may trouble a behaviour is counted together
  (`Troubles`): any three of it, for instance a reload between two deliveries of each frame,
  separate memory from store at every wait.
* **Presence.** Two calls are the least that run X3DH at once; two calls of
  `setGhostMode` are the least that overlap; one upset separates memory from store, or a
  key from its generation, at every wait. Whether the contact's IndexedDB works is chosen at
  the start (`keeps`): with it keys survive a reload, without it they are made anew. Also explored
  without an error, for a contact without a store: 3 calls with one toggle and one upset (7.0
  million states), and 2 calls with 2 toggles and 2 upsets (1.2 million).
* **Connection.** Two clients share promise, record and server rows; two drops make a
  client reconnect from a reconnection, two reloads meet the record a first one left.
* **DeviceKeys.** Three runs are one of each consumer, or two of the hook that overlap, for one
  user or two, beside one of another consumer: of the same user in the same browser, which
  shares the stored pair and id, or of the correspondent.
* **Server.** One instance has everything shutdown waits for. Also explored, for the safety
  property and the inductive invariant: two instances, both signalled (126,150 states), and
  two messages without faults (360,252 states).

* **Relay and Server, liveness.** `DeadPeersLeave` and `DeliveryEnds` are of the relay and are
  checked in its process (`server`), where shutdown may come between; without a signal
  (`phase` "up") the steps are those of `Relay`.

Deadlock checking is off in every run: each bounded behaviour really ends (all
texts sent, all frames delivered, all connections closed, the process ended), and the code has no
terminal states of its own to tell apart.

Bounds that are no part of the code: MaxSent, MaxDup; FAULTS, MaxFlush; MaxFrames,
MaxReloads, MaxMounts; SENDS, HANDLERS, COPIES, MaxTroubles; MaxDrops; CALLS, TOGGLES,
UPSETS; MaxRuns; Stopping. MAX_SKIP_KEYS,
MAX_CONNECTIONS, OTP_POOL_SIZE and OTP_LOW_WATER are the code's constants, small.

## 4. Fairness

Only what a running event loop provides, always weak fairness:

* `PreKeys!FairSpec`: a handler's waits end, since IndexedDB answers and an HTTP
  request ends in a response or an error. Fetches, frames and restarts are not fair.
* `Session!FairSpec`: calls and handlers that wait are answered (a fetch may be
  answered by failing), the backoff timer fires and the socket opens, and a frame
  that reached the relay is delivered once (second deliveries are not fair). The
  last is the relay's promise, not this module's; `TextsRead` is about frames
  in the network, and the relay's losses (`dropped`, `lost`) are in `Relay`.
* `Presence!FairSpec`: calls that wait for IndexedDB or a fetch are answered (a fetch maybe
  by failing), `setGhostMode` continues when the call it awaits has ended, and a frame the
  relay has is handed over and its handler's waits end. Sends, toggles, loss and reloads
  are not fair.
* `Connection!FairSpec`: the waits of init end, maybe by failing, timers fire, a connecting socket
  opens or loses its connection, and the close event fires.
* `Server!ServerFairSpec`: for each connection what is due of it runs (a heartbeat terminates a
  peer without pong, the close event fires, an issued flush query answers and its loop runs), for each
  message the answers its delivery waits for come, shutdown's callbacks run, and presence keys
  without refresh expire. Nothing a client does (connect, register, send, close) is fair, nor the
  registration timer or the channel, which these properties do not need. Nothing is assumed of the
  force-exit timer either, so `ShutdownEnds` says that it is not needed once peers are gone.

## 5. Proofs

All theorems hold for arbitrary constants under the named ASSUMEs of the component module, and
under the further conditions stated with them. Every leaf is checked by SMT, Zenon or, for
the temporal step, LS4. Every safety invariant and every action property that a passing run
checks is a theorem; what is left to TLC is in section 6.

Two of the theorems are about claims of the repository's comments that some configuration refutes
(section 7) and say when they are true: `QueuedOnlyOffline` and `StickyPresence`.
Others carry a condition in the property or the assumption, which the code does not enforce:
`OneTimeKeysOnce` and `OffersAreHeld` (no presence hook was mounted), `KeysEncryptOnce`,
`OnePairOneSession` and `FramesEstablish` (the application waits for one `sendMessage` before the
next), `TextsShownOnce` (no put failed, and no handler looked for the session in IndexedDB while
another was opening it), `NewestIsReached` (no connection registers under another key),
`IdentityIsOne` (no overlapping first visits, nothing set by an overtaken run). Section 7 says what
happens without each.

**DoubleRatchetProofs.** `TypeCorrect`. Then the key theorems from one inductive
invariant, `KeysSpentOnce`: a root key only grows, one output at the responder's
first step and two at every `DhRatchetStep`, so a chain to come has a longer root
than any chain left behind; the initiator's root always has an odd length, the
responder's an even one, so keys of the two directions differ in the parity of
their root; and on one chain every key used, stored or read lies behind the
chain's counter. `AtMostOnce` and `NoKeyReuse` alone are not inductive: they say
nothing of keys that can still be derived. From it follow `KeysAreFresh`,
`ReadAtMostOnce`, `ForwardSecret`, and `SessionIsSecureChannel`, the refinement:
`Encrypt` maps to a write, an opened message to a read, all else to a stutter.

`EndsStayInStep` needs both ends at once. Its invariant, `LockStep`, says that one party leads:
its root is one output beyond the other's, its public key is the one that the header of its
messages carries, and the other derives the same chains from the first header it opens. It
also needs the ages of the keys in one ratchet (`Aged`), that counters number the keys of their
chain (`Counted`), and that each message sent is of a chain its sender has or had; without the
messages a late one of an old chain could be taken for the next DH step.
`GapsAreTolerated` adds `NoneForgotten`: while nothing was repeated, a message under way has its
key stored, or is on the chain to come, or is not behind the receiving chain. That is what a
repeat breaks (`ratchet_desync`). No bound on messages, repeats or skip limit is needed.

**RelayProofs.** `RelayTypes` and `MapsAreExact` (a map entry is a connection of that
instance, not closed, registered under exactly that key), both assuming that
there is an instance (`Init` chooses one). `EntriesAreOwned` is inductive together with the
types: `Register` removes the entry it leaves before it takes another, and a close
event removes the entry exactly when it owns it; a connection changes its key only
through `Register`. `NewestIsReached` adds that a registered connection has a key its client wants
(`RegisteredAsWanted`), so that a client that wants one key leaves no entry of another connection (`NewestHeld`).

The copies of a message are counted in two invariants. `OneInstance` (~REDIS, any number of
instances) says that nothing is ever published and that a message weighs at most one copy, where
`Weight` counts what was handed over, dropped or waits, and what the turn of `deliverMessage` may
yet make; `OnePlaceAtATime` and `QueuedOnlyOffline` follow. `Account` (finitely many instances) gives
`CopiesAreBounded`: the weight of a message and the number of places in the channels that still
hold its publication are together at most one, and as many more as there are instances for each
publication; it is published once, and once more for each fault. The bound alone is not inductive:
a delivery would exceed it were the publication not taken off a channel. Both rest on
lemmas that say what each step does to the weight of a message (`Settles`).
`StickyPresence` is inductive with `NewestHeld`, and has its condition on switched keys and one on
faults, as a SETEX or EXPIRE that rejects is forgotten and nothing sets the key again: where a
device returns to the instance it left, who deletes its presence key owns its entry, and the newest
connection is the owner.

**PreKeysProofs.** `PreKeyTypes`, and `OneTimeKeysOnce`: as long as no presence hook
was mounted, no one-time key reaches two peers and none handed out is offered
again. The inductive invariant is `ChatKeysApart`: memory and store agree on
generation and contents, every key on offer or handed out has an id below the
next one to allocate, and no two publications, nor a publication and the table,
share a key. `OffersAreHeld` is inductive with it and, where
there is a store, with `AllAgree` (there is only the first generation, in memory, store, tables,
publications and bundles): what `_replenish` allocates is saved before it is
published, and the key that a handler spends has been handed out.

`KeySpentOnce` has no condition: with or without a store, with presence hooks that offer keys
again, no private one-time key serves two sessions. Its invariant, `Spends`, says that memory and
store are of the last generation and equal, that ids in a pool are below the next to allocate,
that keys were spent in a generation there was, and that a spent key is in neither pool, nor will
its id be allocated again (`DroppedForGood`). Without the equality of memory and store a reload
would bring a spent key back, which is the mutant of the run.

**SessionProofs.** `SessionTypes`, and `KeysEncryptOnce`: if the application waits for one
`sendMessage` before the next (SENDS = 1), then as long as no put failed, no message number
encrypts two texts, across reloads and lost connections; by `OnePairOneSession` a device pair
then has one session. The inductive invariant is `StoreLeads`: the stored ratchet is ahead of
everything that was encrypted (it is put in the same turn, before the frame goes
out), what is in memory is what is stored, and calls are apart. The assumption is
needed: run `session_overlap` violates the property with SENDS = 2.

`TextsShownOnce` is about any number of overlapping handlers. Its invariant,
`ReadOnce`, says that a text at the relay is encrypted for good (`FramesFinal`) and, while no put
failed and no handler crossed another, that a handler which is still opening the session is alone
(`OpeningAlone`), that each text shown or about to be shown is used up in the stored
ratchet and in every one that is in use: behind its counter and not among the skipped numbers
(`ReadIsUsed`), and that a text about to be shown is so once (`SavingOnce`). Texts about
to be shown have to be in it, as their put comes first; and a handler that creates a session finds
none shown, else the new ratchet would read them again. `FramesEstablish` (SENDS = 1) has
`Attached`: until a reload or a message of the peer there is one X3DH, by the first call that
found no session, and every frame and every ratchet is of it.

**PresenceProofs.** `PresenceTypes`, and `PresenceFramesOpen`: for any contacts, calls,
toggles and upsets, a frame is refused only if it was made for keys the contact no longer
has, or carries the prekey message of a concurrent X3DH. The inductive invariant adds to the types
that a call that has not begun has done nothing (`CallsBegun`), that a frame has one sender, which
is done (`FramesSent`), and that no key is of a generation to come (`KeysAged`); the last is
what makes a key of another generation one the contact has lost, and not one it will have.

`GhostModeIsSaved` adds `FlagLoads`: until the flag has been loaded there is no socket, so no call
of `setGhostMode` tells anybody, and what is being loaded is what is stored, unless a call came
in between (`raced`). `GhostIsToldLast` needs that a key in memory or used before is also stored
(`KeysStored`), so that enabling ghost mode finds every contact that was ever sent anything, and
`CalmTold`: after it was enabled with no other call under way either all have been told, or one
call tells one contact after the other and those before its place have been told.

**ConnectionProofs.** `ConnectionTypes`, and `OneGenerationHeld`: with a store, what any number of
clients hold and what the server has is the one stored generation. The inductive invariant
is `GenerationsAgree`: at most one promise is in flight, and it, every body on its way to the server
and every `_prekeys` are of the stored generation. Without the bodies it is not inductive: a
publication under way when the page reloads would be forgotten. `OneLineAtATime` has
`LinesInOrder`: a live socket is the last one opened, and excludes a reconnect timer and an init
under way, as they exclude each other.

**DeviceKeysProofs.** `DeviceKeysTypes`: ids and pairs that are stored, registered, cached or held were
generated by a run of `init` for that user in that browser (`Known`). `IdentityIsOne` and
`EnvelopesOpenForTheirUsers` have one inductive invariant (`Kept`), which holds as long as no run has set
or used the refs of a hook that another user has by then (`late`; otherwise `OwnKeys` fails, section
7): past its wait for the pair a run has left one of its user and browser in the hook, past its wait
for the id an id, and once it is done the server has a pair for such an id; and a list of devices, in
the table, a cache or an envelope, has under an id only a pair of that user and of the browser that
has the id. It speaks of all that was ever generated; where the first visits of a user to a browser do
not overlap that is one id and one pair, and the ids and pairs held, stored and registered are equal.

**ServerProofs.** `ServerTypes`, which cites the relay's lemmas action by action, and
`DrainsOnCleanExit`: for any number of instances, connections and messages, a process that
was not forced cuts off no query of the pool it closed. The invariant adds that all sockets of
an instance are closed once its HTTP server is (`SocketsClosed`; otherwise a flush could
begin after the pool was drained), and that while Redis quits no flush is under way and
every INSERT that is went to a second pool (`PoolIdle`).

## 6. Only model-checked

Liveness: `DeadPeersLeave`, `DeliveryEnds`, `ShutdownEnds`, `HandlersEnd`, `TextsRead`,
`PresenceEnds`, `LinesKept`. The prover has no support for fairness and ENABLED.

Induction over data and RECURSIVE operators are out of the prover's reach; no
module uses either. Where a proof counts (copies of a message, channels that hold it) the
cardinalities change by one element at a time and the library's theorems do.

## 7. Divergences

Runs that end in a violation, each listed under `findings` with its lines:

* **A repeat desynchronises the receiving chain** (`ratchet_desync`). decrypt spends the
  next key on a message whose counter is behind Nr, and that next message can never
  be read. The relay can repeat a message (`relay_cluster` reaches three copies without a fault).
* **A message key used twice** (`session_overlap`). Overlapping calls after a reload restore
  two ratchets from the same record.
* **Farewells do not leave** (`presence_unmount`). The cleanup of the presence hook starts to
  encrypt `offline` and closes the socket before it is encrypted.

Further divergences, stated in the modules and left out of the runs; each is found at
once by checking the property under the constants given (the rest as in the cfg):

| Property | Constants | What happens |
|---|---|---|
| `DoubleRatchet!SkipStoreWithinLimit` | as `MCDoubleRatchet.cfg`, MaxDup 0 | The limit bounds one gap, not the store; docs/CRYPTO.md:82 and :138 say at most 1000 keys are stored. |
| `Relay!FlushIsAtomic` | as `MCRelay.cfg`, {snd, r1}, no faults | The rows are deleted before they are sent; the loop stops at a socket that is no longer OPEN and the rest is gone. docs/ARCHITECTURE.md:161: "delivers all queued messages atomically". |
| `Relay!NothingWaitsOnline` | the same | The recipient registers and flushes while the INSERT is awaited; the row waits for its next registration. |
| `Relay!NewestReachable` | as `MCRelay.cfg`, {r1, r2}, no faults | `register` under another key deletes the old key's entry whoever owns it, so a newer connection becomes unreachable (relay.ts:317). |
| `Relay!QueuedWasNotDelivered` | as `MCRelayCluster.cfg`, no faults | The presence key is read after publishing, so a message is both handed over and queued. relay.ts:463 "confirmed offline". Without Redis it holds (`QueuedOnlyOffline`). |
| `Relay!SomebodyDelivers` | the same | A presence key whose connection is gone makes deliverMessage return. relay.ts:496 "Another instance will deliver it". |
| `Relay!PresenceHolds` | as `MCRelayCluster.cfg`, {r1, r2}, no faults | The ownership check is per instance: a late close event on one deletes the key a reconnect to another set, and pong only extends a key that exists (relay.ts:433, :429-430, :194). Where devices stay on one instance and Redis does what it is asked it holds (`StickyPresence`). |
| `Relay!PresenceHolds` | as `MCRelayCluster.cfg`, one instance | A SETEX that rejects is forgotten (relay.ts:330), and the EXPIRE of later heartbeats does not set the key: a connected device is taken for offline by every other instance. |
| `Server!NothingCut` | as `MCServer.cfg` | A peer that stays connected keeps the HTTP server open until the timer ends the process; and a delivery that Redis answers after the pool is null asks a second pool, which `process.exit(0)` cuts off. index.ts:71 "waits for in-flight queries", pool.ts:48. |
| `PreKeys!HandedOutOnce` | as `MCPreKeys.cfg`, MaxFrames OneEach, MaxReloads 0, FAULTS 0 | The presence hook publishes the whole stored pool on mount, keys already fetched included (useE2EPresence.ts:196); migrations/004_prekeys.sql:31 "Each row is handed out at most once". |
| `PreKeys!FirstFramesRead` | as `MCPreKeys.cfg`, MaxFrames TwoEach, no reload, mount or fault | Two handlers both find no session; the second finds the one-time key spent and its message is lost (EncraClient.ts:873, :290-291). |
| `Session!CanEstablish` | as `MCSession.cfg` | A message of the peer's own session stops the prekey message from being attached, as does a reload (EncraClient.ts:976, :290-291). |
| `Session!ShownOnce` | as `MCSession.cfg`, also with no failing put | Two handlers of one frame both wait for `loadRatchet` (a repeat, after a reload or on a first contact); each builds a ratchet of its own from the same record or bundle and shows the text (useE2EChat.ts:352). |
| `Session!TextsRead` | as `MCSession.cfg`, COPIES 1, without `~crossed` in `Undisturbed` | Two first frames handled together each establish the session, the second ratchet takes the first one's place, and one of the two texts is never read. With a one-time key the second finds it spent (EncraClient.ts:873). |
| `Session!NumbersOnce` | as `MCSession.cfg` | One call at a time: a put of the ratchet fails, the page reloads, and the older record encrypts another text with a key that was used (ratchetStore.ts:122 "non-fatal: ratchet still works in-memory"). |
| `Presence!GhostIsOffline` | as `MCPresence.cfg`, UPSETS 0 | An update that passed the ghost-mode check before `setGhostMode` leaves after the offline broadcast. |
| `Presence!LastUpdateWins` | as `MCPresence.cfg` | An update whose key is known overtakes one whose handler waits for its put (useE2EPresence.ts:38). |
| `Connection!PoolPublishedOnce` | as `MCConnection.cfg` | Both clients that waited for one promise take the pool for new and publish it (EncraClient.ts:800-807). |
| `Connection!KeysDropped` | as `MCConnection.cfg` | init goes on after disconnect and sets the keys disconnect dropped. |
| `DeviceKeys!OwnKeys` | as `MCDeviceKeys.cfg`, Hook {f}, Client {}, MaxRuns 2 | A run of another user that is overtaken while it puts its pair posts the pair of the next user. |
| `DeviceKeys!SameKeyPair` | as `MCDeviceKeys.cfg`, Hook {f, ann}, Client {}, MaxRuns 2 | Hooks that mount together on a first visit each generate a pair (useE2EForm.ts:112, docs/HOOKS.md:357 "The same key pair is reused"). |
| `PreKeys!BundlesVerify` | STORE FALSE, one reload | A publication of another generation between two queries of GET: signature failure, the "false MITM alarm" of prekeys.ts:91-93. With a store there is one generation, and nothing to mix. |
| `PreKeys!KeysAgree` | STORE FALSE, one reload | Ids restart at 1 in each generation, so an old frame resolves to the wrong keys. With a store there is one generation. |
| `PreKeys!SpentHasSession` | STORE TRUE, one reload | The one-time key is dropped before the ratchet is saved; a reload in between leaves neither. docs/ARCHITECTURE.md:181. |

`Presence!FramesOpen` has two exceptions that users meet: a contact without IndexedDB that
regenerated its prekeys cannot read a sender that keeps its `ps:` session and has no reason
to run X3DH again, and of two first updates sent at once one cannot be read.
`GhostSaved` has one: a call of `setGhostMode` while the flag is being loaded is undone by it;
likewise `setGhostMode(false)` before enabling has set the flag does nothing.

Also met while reading: `connect()` after a failed init or a disconnect returns silently, and
isConnecting stays true after a failed init; useE2EChat.ts:62 keeps isReady true through a change of userId, and
docs/HOOKS.md:63 says that it "becomes true only after the relay confirms registration"; an empty
fields object opens for any claimed sender, as there is nothing to decrypt (`OpenedBlank`,
of which `EnvelopesOpen` says nothing); every `load*` of ratchetStore.ts but those of history, ghost mode and device id
returns its get without awaiting it, so that the `catch { return undefined }` around it does not see it
reject;
docs/ARCHITECTURE.md:208 promises break-in recovery on every
change of direction, but the clients keep one ratchet per direction (`s:`, `r:`), whose
chains never turn, so the DH steps `DoubleRatchet` models do not happen in a chat.

## 8. Not modelled

* **Several recipient devices of one text**: planned, see 9.
* **EncraClient's `setGhostMode`** where it differs from the hook's (section 2).
* **getOrCreateDeviceId without IndexedDB**, which returns the same 'default' in every browser.
* **Redis commands that arrive late**, a subscription that failed (it is only logged, and the
  instance hears nothing) and a publisher that is not there although REDIS_URL is set.
* **`disconnect` of EncraClient in `Session`**: `Connection` has it; `Session` has the hook's cleanup.
* **Error frames of the relay**: no state. **A `server.close` that rejects** (nothing was
  listening): `shutdown` ends there, and the process by itself.
* **Message count and backlog caps of histories**: display only.
* **Cryptography itself**: libsodium, base64, signatures; keys are terms.
* **Auth and rate limiting**: JWT verification and a library's counters; authentication is
  a step of `Relay` that may not happen.
* **Field primitives, fingerprints, identities**: stateless functions around libsodium.
  Size and type checks of files and forms.
* **CLI, examples, demos, React provider, health route, logging**: I/O and wiring.

## 9. Plan

Done: `DoubleRatchet`, `Relay`, `PreKeys`, `Session`, `Presence`, `Connection`, `DeviceKeys`, the
composition `Server`, and the theorems of section 5: every safety and action property the runs
check. Left, by importance:

1. Refinements: a once-only key dispenser for `PreKeys` (the invariant is `ChatKeysApart`) and a
   mailbox that multiplies boundedly for `Relay` (the invariant is `Account`).
2. `Session` with several recipient devices and a failing one; two hooks sharing a page.
3. `Delivery`: relay and receiving session composed, for end-to-end "shown once".

Abstract specifications worth stating besides: a numbered log for `Session` (`SecureChannel` is
refined by `DoubleRatchet`).

To run: `tlc -workers 2 -config MCRelay.cfg MCRelay` and likewise for each cfg (the runs
of `PROJECT.json` name module and cfg); `tlapm RelayProofs.tla` for the proofs.
