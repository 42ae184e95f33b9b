----------------------------- MODULE Connection -----------------------------
(***************************************************************************)
(* The life cycle of EncraClient (packages/client/src/EncraClient.ts):     *)
(* connect and init, the relay socket with its events, the reconnect timer *)
(* and disconnect, for several clients of one user on one page.  They      *)
(* share the prekey record in IndexedDB and the promises of                *)
(* loadOrCreatePreKeys (packages/client/src/ratchetStore.ts), and publish  *)
(* for the same device.                                                    *)
(*                                                                         *)
(* One action is a turn of the event loop.  A generation of prekeys is a   *)
(* number; a put counts as done when it is issued, and without a store it  *)
(* has no effect.  A socket is "closing" from close() or the loss of its   *)
(* connection until its close event.                                       *)
(***************************************************************************)
EXTENDS Integers, FiniteSets

CONSTANTS Client,      \* the clients of one user on a page
          STORE,       \* IndexedDB keeps what is put there
          Nobody,      \* no client
          MaxDrops,    \* bound: connections lost or refused
          MaxReloads   \* bound: reloads of the page

Line == 1 .. MaxDrops + 1   \* the sockets of a client, in the order they are made

ASSUME ClientAssumption == IsFiniteSet(Client) /\ Nobody \notin Client
ASSUME BoundAssumption  == STORE \in BOOLEAN /\ MaxDrops \in Nat /\ MaxReloads \in Nat

VARIABLES
  connected,   \* _connected: connect was called
  cancelled,   \* _cancelled: disconnect was called
  init,        \* the wait _init is in
  keyPair,     \* _keyPair is set
  held,        \* the generation of _prekeys, 0 for none
  body,        \* the generation a client publishes, and whether with the pool
  promise,     \* the promise a client made for prekeyInits: its wait and generation
  waits,       \* the client whose promise _initPreKeys waits for
  stored,      \* generation of the stored record, 0 for none
  made,        \* generations made so far
  published,   \* generation of identity key and signed prekey at the server
  pools,       \* times the pool of that generation was published
  socket,      \* the sockets of a client
  timers,      \* reconnect timers that will still fire
  ready,       \* _isReady
  drops, reloads

prekeyVars == <<held, body, promise, waits, stored, made, published, pools>>
lineVars   == <<socket, timers, ready>>
vars == <<connected, cancelled, init, keyPair, prekeyVars, lineVars, drops, reloads>>

NoPromise == [step |-> "none", gen |-> 0]
NoBody    == [gen |-> 0, pool |-> FALSE]

Init ==
  /\ connected = [c \in Client |-> FALSE] /\ cancelled = [c \in Client |-> FALSE]
  /\ init = [c \in Client |-> "idle"] /\ keyPair = [c \in Client |-> FALSE]
  /\ held = [c \in Client |-> 0] /\ body = [c \in Client |-> NoBody]
  /\ promise = [c \in Client |-> NoPromise] /\ waits = [c \in Client |-> Nobody]
  /\ socket = [c \in Client |-> [s \in Line |-> "none"]]
  /\ timers = [c \in Client |-> 0] /\ ready = [c \in Client |-> FALSE]
  /\ stored = 0 /\ made = 0 /\ published = 0 /\ pools = 0 /\ drops = 0 /\ reloads = 0

-----------------------------------------------------------------------------
(* connect and _init.                                                       *)

\* A second connect returns at once, whatever became of the first.
Connect(c) ==
  /\ ~connected[c]
  /\ connected' = [connected EXCEPT ![c] = TRUE] /\ init' = [init EXCEPT ![c] = "keys"]
  /\ UNCHANGED <<cancelled, keyPair, prekeyVars, lineVars, drops, reloads>>

\* The key pair is loaded, or generated and saved; device id, history and
\* ghost mode are loaded next.
HaveKeyPair(c) ==
  /\ init[c] = "keys"
  /\ init' = [init EXCEPT ![c] = "loading"] /\ keyPair' = [keyPair EXCEPT ![c] = TRUE]
  /\ UNCHANGED <<connected, cancelled, prekeyVars, lineVars, drops, reloads>>

\* The device is registered; the key pair is gone if disconnect was called.
PostKey(c) ==
  /\ init[c] = "loading"
  /\ init' = [init EXCEPT ![c] = IF keyPair[c] THEN "registering" ELSE "failed"]
  /\ UNCHANGED <<connected, cancelled, keyPair, prekeyVars, lineVars, drops, reloads>>

\* The request fails, or the get of the key pair is rejected, which loadKeyPair
\* returns without awaiting it in its try.
InitFails(c) ==
  /\ init[c] \in {"keys", "registering"} /\ init' = [init EXCEPT ![c] = "failed"]
  /\ UNCHANGED <<connected, cancelled, keyPair, prekeyVars, lineVars, drops, reloads>>

\* loadOrCreatePreKeys: the promise there is, or one of its own.
Mut_AskPreKeys(c) ==   \* always one of its own
  /\ init[c] = "registering" /\ init' = [init EXCEPT ![c] = "prekeys"]
  /\ waits' = [waits EXCEPT ![c] = c]
  /\ promise' = [promise EXCEPT ![c] = [step |-> "get", gen |-> stored]]
  /\ UNCHANGED <<connected, cancelled, keyPair, held, body, stored, made, published,
                 pools, lineVars, drops, reloads>>
InFlight == {d \in Client : promise[d].step # "none"}
AskPreKeys(c) ==
  /\ init[c] = "registering" /\ init' = [init EXCEPT ![c] = "prekeys"]
  /\ \/ \E d \in InFlight : waits' = [waits EXCEPT ![c] = d] /\ UNCHANGED promise
     \/ /\ InFlight = {} /\ waits' = [waits EXCEPT ![c] = c]
        /\ promise' = [promise EXCEPT ![c] = [step |-> "get", gen |-> stored]]
  /\ UNCHANGED <<connected, cancelled, keyPair, held, body, stored, made, published,
                 pools, lineVars, drops, reloads>>

\* Nothing was stored: a generation is made and put.
Generate(d) ==
  /\ promise[d].step = "get" /\ promise[d].gen = 0
  /\ made' = made + 1
  /\ stored' = IF STORE THEN made' ELSE stored
  /\ promise' = [promise EXCEPT ![d] = [step |-> "put", gen |-> made']]
  /\ UNCHANGED <<connected, cancelled, init, keyPair, held, body, waits, published,
                 pools, lineVars, drops, reloads>>

\* The promise is settled: everyone who waits for it has the same prekeys,
\* those who were disconnected meanwhile too, and publishes them, with the
\* one-time keys if they were made just now.
Mut_Settle(d) ==   \* only the client that made the promise goes on
  /\ promise[d].step = "put" \/ (promise[d].step = "get" /\ promise[d].gen # 0)
  /\ held'    = [held EXCEPT ![d] = promise[d].gen]
  /\ body'    = [body EXCEPT ![d] = [gen |-> promise[d].gen, pool |-> promise[d].step = "put"]]
  /\ init'    = [init EXCEPT ![d] = "publishing"]
  /\ waits'   = [waits EXCEPT ![d] = Nobody]
  /\ promise' = [promise EXCEPT ![d] = NoPromise]
  /\ UNCHANGED <<connected, cancelled, keyPair, stored, made, published, pools, lineVars,
                 drops, reloads>>
Settle(d) ==
  LET done == {c \in Client : waits[c] = d}
      new  == [gen |-> promise[d].gen, pool |-> promise[d].step = "put"]
  IN
  /\ promise[d].step = "put" \/ (promise[d].step = "get" /\ promise[d].gen # 0)
  /\ held'    = [c \in Client |-> IF c \in done THEN new.gen ELSE held[c]]
  /\ body'    = [c \in Client |-> IF c \in done THEN new ELSE body[c]]
  /\ init'    = [c \in Client |-> IF c \in done THEN "publishing" ELSE init[c]]
  /\ waits'   = [c \in Client |-> IF c \in done THEN Nobody ELSE waits[c]]
  /\ promise' = [promise EXCEPT ![d] = NoPromise]
  /\ UNCHANGED <<connected, cancelled, keyPair, stored, made, published, pools, lineVars,
                 drops, reloads>>

\* The get of loadPreKeys, which it too returns without awaiting it, is
\* rejected, and with it the promise: the init of everyone who waits fails.
GetRejected(d) ==
  LET done == {c \in Client : waits[c] = d} IN
  /\ promise[d].step = "get" /\ promise' = [promise EXCEPT ![d] = NoPromise]
  /\ init'  = [c \in Client |-> IF c \in done THEN "failed" ELSE init[c]]
  /\ waits' = [c \in Client |-> IF c \in done THEN Nobody ELSE waits[c]]
  /\ UNCHANGED <<connected, cancelled, keyPair, held, body, stored, made, published, pools,
                 lineVars, drops, reloads>>

\* connectWS, unless disconnect was called: the line after the last one.
Used(c) == {s \in Line : socket[c][s] # "none"}
ConnectWS(c) ==
  \E s \in Line \ Used(c) :
    /\ s = Cardinality(Used(c)) + 1
    /\ socket' = [socket EXCEPT ![c][s] = "connecting"]
Mut_EndInit(c) ==   \* disconnect is not looked for
  /\ init' = [init EXCEPT ![c] = "done"]
  /\ ConnectWS(c)
EndInit(c) ==
  /\ init' = [init EXCEPT ![c] = "done"]
  /\ IF cancelled[c] THEN UNCHANGED socket ELSE ConnectWS(c)

\* _publishPreKeys; a failure is an event, and init goes on.
Published(c) ==
  LET g == body[c].gen IN
  /\ init[c] = "publishing" /\ EndInit(c)
  /\ published' = g
  /\ pools' = (IF g = published THEN pools ELSE 0) + (IF body[c].pool THEN 1 ELSE 0)
  /\ body' = [body EXCEPT ![c] = NoBody]
  /\ UNCHANGED <<connected, cancelled, keyPair, held, promise, waits, stored, made,
                 timers, ready, drops, reloads>>
PublishFails(c) ==
  /\ init[c] = "publishing" /\ EndInit(c)
  /\ body' = [body EXCEPT ![c] = NoBody]
  /\ UNCHANGED <<connected, cancelled, keyPair, held, promise, waits, stored, made, published,
                 pools, timers, ready, drops, reloads>>

-----------------------------------------------------------------------------
(* The socket and the reconnect timer.                                      *)

SocketOpens(c, s) ==
  /\ socket[c][s] = "connecting" /\ socket' = [socket EXCEPT ![c][s] = "open"]
  /\ ready' = [ready EXCEPT ![c] = ~cancelled[c]]
  /\ UNCHANGED <<connected, cancelled, init, keyPair, prekeyVars, timers, drops, reloads>>

\* The network, or the relay, ends a connection or refuses it.
ConnectionLost(c, s) ==
  /\ socket[c][s] \in {"connecting", "open"} /\ drops < MaxDrops /\ drops' = drops + 1
  /\ socket' = [socket EXCEPT ![c][s] = "closing"]
  /\ UNCHANGED <<connected, cancelled, init, keyPair, prekeyVars, timers, ready, reloads>>

\* The close event; after disconnect it does nothing.
Mut_SocketCloses(c, s) ==   \* it does not schedule another connection
  /\ socket[c][s] = "closing" /\ socket' = [socket EXCEPT ![c][s] = "closed"]
  /\ IF cancelled[c] THEN UNCHANGED <<ready, timers>>
     ELSE ready' = [ready EXCEPT ![c] = FALSE] /\ UNCHANGED timers
  /\ UNCHANGED <<connected, cancelled, init, keyPair, prekeyVars, drops, reloads>>
SocketCloses(c, s) ==
  /\ socket[c][s] = "closing" /\ socket' = [socket EXCEPT ![c][s] = "closed"]
  /\ IF cancelled[c] THEN UNCHANGED <<ready, timers>>
     ELSE ready' = [ready EXCEPT ![c] = FALSE] /\ timers' = [timers EXCEPT ![c] = @ + 1]
  /\ UNCHANGED <<connected, cancelled, init, keyPair, prekeyVars, drops, reloads>>

TimerFires(c) ==
  /\ timers[c] > 0 /\ timers' = [timers EXCEPT ![c] = @ - 1]
  /\ IF cancelled[c] THEN UNCHANGED socket ELSE ConnectWS(c)
  /\ UNCHANGED <<connected, cancelled, init, keyPair, prekeyVars, ready, drops, reloads>>

\* disconnect, at any time: the last timer is cleared, the last socket closed,
\* the keys are dropped.  init and a promise under way go on.
LastSocket(c) == [s \in Line |->
  IF s = Cardinality(Used(c)) /\ socket[c][s] # "closed" THEN "closing" ELSE socket[c][s]]
Disconnect(c) ==
  /\ cancelled' = [cancelled EXCEPT ![c] = TRUE]
  /\ timers' = [timers EXCEPT ![c] = IF @ > 0 THEN @ - 1 ELSE 0]
  /\ socket' = [socket EXCEPT ![c] = LastSocket(c)]
  /\ ready' = [ready EXCEPT ![c] = FALSE]
  /\ keyPair' = [keyPair EXCEPT ![c] = FALSE] /\ held' = [held EXCEPT ![c] = 0]
  /\ UNCHANGED <<connected, init, body, promise, waits, stored, made, published, pools,
                 drops, reloads>>

\* The page is loaded again: what was in memory is gone.
Reload ==
  /\ reloads < MaxReloads /\ reloads' = reloads + 1
  /\ connected' = [c \in Client |-> FALSE] /\ cancelled' = [c \in Client |-> FALSE]
  /\ init' = [c \in Client |-> "idle"] /\ keyPair' = [c \in Client |-> FALSE]
  /\ held' = [c \in Client |-> 0] /\ body' = [c \in Client |-> NoBody]
  /\ promise' = [c \in Client |-> NoPromise] /\ waits' = [c \in Client |-> Nobody]
  /\ socket' = [c \in Client |-> [s \in Line |-> "none"]]
  /\ timers' = [c \in Client |-> 0] /\ ready' = [c \in Client |-> FALSE]
  /\ UNCHANGED <<stored, made, published, pools, drops>>

-----------------------------------------------------------------------------
InitStep(c) ==
  \/ HaveKeyPair(c) \/ PostKey(c) \/ InitFails(c) \/ AskPreKeys(c)
  \/ Generate(c) \/ Settle(c) \/ GetRejected(c) \/ Published(c) \/ PublishFails(c)

Next ==
  \/ \E c \in Client :
       \/ Connect(c) \/ InitStep(c) \/ TimerFires(c) \/ Disconnect(c)
       \/ \E s \in Line : SocketOpens(c, s) \/ ConnectionLost(c, s) \/ SocketCloses(c, s)
  \/ Reload

Spec == Init /\ [][Next]_vars

\* IndexedDB and fetches answer, timers fire, a socket opens or is lost, and
\* its close event fires.
FairSpec ==
  /\ Spec
  /\ \A c \in Client : WF_vars(InitStep(c)) /\ WF_vars(TimerFires(c))
  /\ \A c \in Client, s \in Line : WF_vars(SocketOpens(c, s)) /\ WF_vars(SocketCloses(c, s))

-----------------------------------------------------------------------------
(* Properties.                                                              *)

InitWait  == {"keys", "loading", "registering", "prekeys", "publishing"}
LineState == {"none", "connecting", "open", "closing", "closed"}

TypeOK ==
  /\ connected \in [Client -> BOOLEAN] /\ cancelled \in [Client -> BOOLEAN]
  /\ init \in [Client -> InitWait \union {"idle", "done", "failed"}]
  /\ keyPair \in [Client -> BOOLEAN] /\ held \in [Client -> Nat]
  /\ body \in [Client -> [gen: Nat, pool: BOOLEAN]]
  /\ promise \in [Client -> [step: {"none", "get", "put"}, gen: Nat]]
  /\ waits \in [Client -> Client \union {Nobody}]
  /\ stored \in Nat /\ made \in Nat /\ published \in Nat /\ pools \in Nat
  /\ socket \in [Client -> [Line -> LineState]]
  /\ timers \in [Client -> Nat] /\ ready \in [Client -> BOOLEAN]
  /\ drops \in 0 .. MaxDrops /\ reloads \in Nat

\* Clients in the prekey step wait for a promise in flight, and nobody else
\* waits; init begins with connect.
Waiting ==
  \A c \in Client :
    /\ IF init[c] = "prekeys" THEN waits[c] \in InFlight ELSE waits[c] = Nobody
    /\ init[c] = "idle" \/ connected[c]
TypeInv == TypeOK /\ Waiting

\* disconnect is the end, also of a client that is still connecting, and
\* before it a client has one line at a time: init under way, a socket until
\* its close event, or a reconnect timer.  It is ready only with a socket.
Live(c) == {s \in Line : socket[c][s] \in {"connecting", "open", "closing"}}
OneLine ==
  \A c \in Client :
    /\ cancelled[c] =>
         timers[c] = 0 /\ \A s \in Live(c) : socket[c][s] = "closing"
    /\ ~cancelled[c] =>
         (IF init[c] \in InitWait THEN 1 ELSE 0) + Cardinality(Live(c)) + timers[c] <= 1
    /\ ready[c] => ~cancelled[c] /\ \E s \in Live(c) : socket[c][s] # "connecting"

\* ratchetStore.ts, "exactly one identity-key + signed-prekey generation per
\* userId per tab, even if multiple EncraClient instances initialise prekeys
\* for the same user concurrently": what a client holds and what peers fetch is
\* what is stored, across reloads, as long as there is a store.
OneGeneration ==
  STORE => /\ \A c \in Client : held[c] \in {0, stored}
           /\ published \in {0, stored}

\* Why: one promise is in flight at a time, and it, the bodies and the keys in
\* memory are of the stored generation.
GenerationsAgree ==
  /\ \A d, e \in InFlight : d = e
  /\ \A d \in InFlight : promise[d].gen = stored
  /\ \A c \in Client : held[c] \in {0, stored} /\ body[c].gen \in {0, stored}
  /\ published \in {0, stored}

\* A client whose init succeeded is ready again and again until it is
\* disconnected; init ends; the sockets of a disconnected client close.
LinesKept ==
  \A c \in Client :
    /\ init[c] = "done" /\ ~cancelled[c] ~> ready[c] \/ cancelled[c] \/ ~connected[c]
    /\ init[c] \in InitWait ~> init[c] \notin InitWait
    /\ cancelled[c] ~> Live(c) = {} /\ (init[c] \notin InitWait \/ ~connected[c])

\* EncraClient.ts:800, "don't re-publish existing one-time prekeys - some may
\* already be reserved".  Two clients that wait for one promise both take the
\* pool for new and publish it, the second after peers may have fetched of it.
PoolPublishedOnce == pools <= 1

\* disconnect drops the keys; an init under way sets them again.
KeysDropped == \A c \in Client : cancelled[c] => held[c] = 0 /\ ~keyPair[c]
=============================================================================
