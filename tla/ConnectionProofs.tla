-------------------------- MODULE ConnectionProofs --------------------------
(***************************************************************************)
(* Proofs about Connection: types, and that all clients of a user on a     *)
(* page, and the server, have the one generation of prekeys that is        *)
(* stored, and that a client drives one socket at a time, for any number   *)
(* of clients, lost connections and reloads.                               *)
(***************************************************************************)
EXTENDS Connection, FiniteSetTheorems, TLAPS

\* A new socket is a new line of the client, the others stay.
LEMMA SocketTypes ==
  ASSUME TypeOK, NEW c \in Client, NEW s \in Line, NEW x \in LineState,
         socket' = [socket EXCEPT ![c][s] = x]
  PROVE  socket' \in [Client -> [Line -> LineState]]
BY DEF TypeOK
LEMMA ConnectTypes ==
  ASSUME TypeOK, NEW c \in Client, ConnectWS(c)
  PROVE  socket' \in [Client -> [Line -> LineState]]
<1>1. PICK s \in Line : socket' = [socket EXCEPT ![c][s] = "connecting"]
  BY DEF ConnectWS
<1>2. "connecting" \in LineState
  BY DEF LineState
<1> QED BY <1>1, <1>2, SocketTypes

\* A step of init that ends it, and with it the line that begins.
LEMMA EndInitTypes ==
  ASSUME TypeInv, NEW c \in Client, EndInit(c)
  PROVE  /\ init' = [init EXCEPT ![c] = "done"]
         /\ socket' \in [Client -> [Line -> LineState]]
BY ConnectTypes DEF EndInit, TypeInv, TypeOK

\* init, from connect to the prekeys.
LEMMA InitTypes ==
  ASSUME TypeInv, NEW c \in Client, Connect(c) \/ InitStep(c)
  PROVE  TypeInv'
<1> USE DEF InitWait
<1>1. CASE Connect(c) \/ HaveKeyPair(c) \/ PostKey(c) \/ InitFails(c)
  <2>1. TypeOK'
    BY <1>1 DEF TypeInv, TypeOK, Connect, HaveKeyPair, PostKey, InitFails, prekeyVars, lineVars
  <2>2. UNCHANGED <<waits, promise>>
    BY <1>1 DEF Connect, HaveKeyPair, PostKey, InitFails, prekeyVars
  <2>3. init[c] # "prekeys" /\ connected'[c] /\ \E s \in {"keys", "loading", "registering", "failed"} :
          init' = [init EXCEPT ![c] = s]
    BY <1>1 DEF TypeInv, TypeOK, Waiting, Connect, HaveKeyPair, PostKey, InitFails
  <2>4. \A d \in Client : connected[d] => connected'[d]
    BY <1>1 DEF TypeInv, TypeOK, Connect, HaveKeyPair, PostKey, InitFails
  <2>5. Waiting'
    BY <2>2, <2>3, <2>4 DEF TypeInv, TypeOK, Waiting, InFlight
  <2> QED BY <2>1, <2>5 DEF TypeInv
<1>2. CASE AskPreKeys(c)
  <2>1. TypeOK'
    <3>1. init' \in [Client -> InitWait \union {"idle", "done", "failed"}]
      BY <1>2 DEF TypeInv, TypeOK, AskPreKeys
    <3>2. waits' \in [Client -> Client \union {Nobody}]
      BY <1>2 DEF TypeInv, TypeOK, AskPreKeys, InFlight
    <3>3. [step |-> "get", gen |-> stored] \in [step: {"none", "get", "put"}, gen: Nat]
      BY DEF TypeInv, TypeOK
    <3>4. promise' \in [Client -> [step: {"none", "get", "put"}, gen: Nat]]
      BY <1>2, <3>3 DEF TypeInv, TypeOK, AskPreKeys
    <3> QED BY <1>2, <3>1, <3>2, <3>4 DEF TypeInv, TypeOK, AskPreKeys, lineVars
  <2>2. Waiting'
    BY <1>2 DEF TypeInv, TypeOK, Waiting, AskPreKeys, InFlight
  <2> QED BY <2>1, <2>2 DEF TypeInv
<1>3. CASE Generate(c)
  <2>1. TypeOK'
    BY <1>3 DEF TypeInv, TypeOK, Generate, lineVars
  <2>2. InFlight' = InFlight
    BY <1>3 DEF TypeInv, TypeOK, Generate, InFlight
  <2>3. Waiting'
    BY <1>3, <2>2 DEF TypeInv, Waiting, Generate
  <2> QED BY <2>1, <2>3 DEF TypeInv
<1>4. CASE Settle(c)
  <2>1. TypeOK'
    BY <1>4 DEF TypeInv, TypeOK, Settle, NoPromise, lineVars
  <2>2. InFlight' = InFlight \ {c}
    BY <1>4 DEF TypeInv, TypeOK, Settle, InFlight, NoPromise
  <2>3. Waiting'
    BY <1>4, <2>2, ClientAssumption DEF TypeInv, TypeOK, Waiting, Settle
  <2> QED BY <2>1, <2>3 DEF TypeInv
<1>5. CASE GetRejected(c)
  <2>1. TypeOK'
    BY <1>5 DEF TypeInv, TypeOK, GetRejected, NoPromise, lineVars
  <2>2. InFlight' = InFlight \ {c}
    BY <1>5 DEF TypeInv, TypeOK, GetRejected, InFlight, NoPromise
  <2>3. Waiting'
    BY <1>5, <2>2, ClientAssumption DEF TypeInv, TypeOK, Waiting, GetRejected
  <2> QED BY <2>1, <2>3 DEF TypeInv
<1>6. CASE Published(c) \/ PublishFails(c)
  <2>1. EndInit(c) /\ init[c] = "publishing" /\ UNCHANGED <<waits, promise, connected>>
    BY <1>6 DEF Published, PublishFails
  <2>2. TypeOK'
    <3>1. init' \in [Client -> InitWait \union {"idle", "done", "failed"}]
      BY <2>1, EndInitTypes DEF TypeInv, TypeOK
    <3>2. body' \in [Client -> [gen: Nat, pool: BOOLEAN]]
      <4>1. NoBody \in [gen: Nat, pool: BOOLEAN]
        BY DEF NoBody
      <4>2. body' = [body EXCEPT ![c] = NoBody]
        BY <1>6 DEF Published, PublishFails
      <4> QED BY <4>1, <4>2 DEF TypeInv, TypeOK
    <3>3. published' \in Nat /\ pools' \in Nat
      <4>1. body[c].gen \in Nat /\ published \in Nat /\ pools \in Nat
        BY DEF TypeInv, TypeOK
      <4>2. CASE Published(c)
        BY <4>1, <4>2 DEF Published
      <4>3. CASE PublishFails(c)
        BY <4>1, <4>3 DEF PublishFails
      <4> QED BY <1>6, <4>2, <4>3
    <3>4. UNCHANGED <<connected, cancelled, keyPair, held, promise, waits, stored, made, timers,
                      ready, drops, reloads>>
      BY <1>6 DEF Published, PublishFails
    <3> QED BY <2>1, EndInitTypes, <3>1, <3>2, <3>3, <3>4 DEF TypeInv, TypeOK
  <2>3. Waiting'
    BY <2>1, EndInitTypes DEF TypeInv, TypeOK, Waiting, InFlight
  <2> QED BY <2>2, <2>3 DEF TypeInv
<1> QED BY <1>1, <1>2, <1>3, <1>4, <1>5, <1>6 DEF InitStep

\* The socket, the timer, disconnect and reload.
LEMMA LineTypes ==
  ASSUME TypeInv, NEW c \in Client,
         \/ TimerFires(c) \/ Disconnect(c) \/ Reload
         \/ \E s \in Line : SocketOpens(c, s) \/ ConnectionLost(c, s) \/ SocketCloses(c, s)
  PROVE  TypeInv'
<1>1. CASE Reload
  BY <1>1 DEF TypeInv, TypeOK, Waiting, InFlight, Reload, NoPromise, NoBody, LineState, InitWait
<1>2. CASE ~Reload
  <2>1. UNCHANGED <<connected, init, promise, waits>>
    BY <1>2 DEF TimerFires, Disconnect, SocketOpens, ConnectionLost, SocketCloses, prekeyVars
  <2>2. Waiting'
    BY <2>1 DEF TypeInv, Waiting, InFlight
  <2>3. CASE TimerFires(c)
    <3>1. socket' \in [Client -> [Line -> LineState]]
      BY <2>3, ConnectTypes DEF TimerFires, TypeInv, TypeOK
    <3>2. timers' \in [Client -> Nat]
      BY <2>3 DEF TimerFires, TypeInv, TypeOK
    <3> QED BY <2>3, <2>2, <3>1, <3>2 DEF TimerFires, prekeyVars, TypeInv, TypeOK
  <2>4. CASE Disconnect(c)
    BY <2>4, <2>2 DEF Disconnect, LastSocket, TypeInv, TypeOK, LineState
  <2>5. CASE \E s \in Line : SocketOpens(c, s)
    <3>1. PICK s \in Line : SocketOpens(c, s)
      BY <2>5
    <3>2. socket' \in [Client -> [Line -> LineState]]
      BY <3>1, SocketTypes DEF SocketOpens, TypeInv, LineState
    <3> QED BY <3>1, <3>2, <2>2 DEF SocketOpens, prekeyVars, TypeInv, TypeOK
  <2>6. CASE \E s \in Line : ConnectionLost(c, s)
    <3>1. PICK s \in Line : ConnectionLost(c, s)
      BY <2>6
    <3>2. socket' \in [Client -> [Line -> LineState]]
      BY <3>1, SocketTypes DEF ConnectionLost, TypeInv, LineState
    <3> QED BY <3>1, <3>2, <2>2, BoundAssumption DEF ConnectionLost, prekeyVars, TypeInv, TypeOK
  <2>7. CASE \E s \in Line : SocketCloses(c, s)
    <3>1. PICK s \in Line : SocketCloses(c, s)
      BY <2>7
    <3>2. socket' \in [Client -> [Line -> LineState]]
      BY <3>1, SocketTypes DEF SocketCloses, TypeInv, LineState
    <3>3. ready' \in [Client -> BOOLEAN] /\ timers' \in [Client -> Nat]
      <4>1. CASE cancelled[c]
        BY <3>1, <4>1 DEF SocketCloses, TypeInv, TypeOK
      <4>2. CASE ~cancelled[c]
        <5>1. ready' = [ready EXCEPT ![c] = FALSE] /\ timers' = [timers EXCEPT ![c] = timers[c] + 1]
          BY <3>1, <4>2 DEF SocketCloses
        <5>2. timers[c] + 1 \in Nat
          BY DEF TypeInv, TypeOK
        <5> QED BY <5>1, <5>2 DEF TypeInv, TypeOK
      <4> QED BY <4>1, <4>2
    <3> QED BY <3>1, <3>2, <3>3, <2>2 DEF SocketCloses, prekeyVars, TypeInv, TypeOK
  <2> QED BY <1>2, <2>3, <2>4, <2>5, <2>6, <2>7
<1> QED BY <1>1, <1>2

\* The state of the clients has its types, and a client in the prekey step
\* waits for a promise in flight (EncraClient.ts, loadOrCreatePreKeys).
THEOREM ConnectionTypes == Spec => []TypeInv
<1>1. Init => TypeInv
  BY BoundAssumption DEF Init, TypeInv, TypeOK, Waiting, InFlight, NoPromise, NoBody, LineState, InitWait
<1>2. TypeInv /\ [Next]_vars => TypeInv'
  <2> SUFFICES ASSUME TypeInv, [Next]_vars PROVE TypeInv'
    OBVIOUS
  <2>1. CASE UNCHANGED vars
    BY <2>1 DEF vars, prekeyVars, lineVars, TypeInv, TypeOK, Waiting, InFlight
  <2>2. CASE Reload /\ Client = {}
    BY <2>2 DEF TypeInv, TypeOK, Waiting, InFlight, Reload, InitWait
  <2> QED BY <2>1, <2>2, InitTypes, LineTypes DEF Next
<1> QED BY <1>1, <1>2, PTL DEF Spec

\* The generation a settled promise, a new promise or a made one brings.
LEMMA GenerationStep ==
  ASSUME TypeInv, STORE, GenerationsAgree, NEW c \in Client, Connect(c) \/ InitStep(c)
  PROVE  GenerationsAgree'
<1>1. CASE Connect(c) \/ HaveKeyPair(c) \/ PostKey(c) \/ InitFails(c)
  BY <1>1 DEF GenerationsAgree, InFlight, Connect, HaveKeyPair, PostKey, InitFails, prekeyVars
<1>2. CASE AskPreKeys(c)
  <2>1. UNCHANGED <<held, body, stored, published>>
    BY <1>2 DEF AskPreKeys
  <2>2. CASE UNCHANGED promise
    BY <2>1, <2>2 DEF GenerationsAgree, InFlight
  <2>3. CASE InFlight = {} /\ promise' = [promise EXCEPT ![c] = [step |-> "get", gen |-> stored]]
    <3>1. InFlight' = {c} /\ promise'[c].gen = stored
      BY <2>3 DEF InFlight, TypeInv, TypeOK
    <3> QED BY <2>1, <3>1 DEF GenerationsAgree
  <2> QED BY <1>2, <2>2, <2>3 DEF AskPreKeys
<1>3. CASE Generate(c)
  <2>1. c \in InFlight /\ stored = 0 /\ InFlight' = InFlight
    BY <1>3 DEF GenerationsAgree, InFlight, TypeInv, TypeOK, Generate
  <2>2. promise'[c].gen = stored'
    BY <1>3 DEF TypeInv, TypeOK, Generate
  <2> QED BY <1>3, <2>1, <2>2 DEF GenerationsAgree, Generate
<1>4. CASE Settle(c)
  <2>1. c \in InFlight /\ promise[c].gen = stored /\ InFlight' = InFlight \ {c}
    BY <1>4 DEF GenerationsAgree, InFlight, TypeInv, TypeOK, Settle, NoPromise
  <2> QED BY <1>4, <2>1 DEF GenerationsAgree, Settle
<1>5. CASE GetRejected(c)
  <2>1. InFlight' = InFlight \ {c} /\ \A d \in Client \ {c} : promise'[d] = promise[d]
    BY <1>5 DEF InFlight, TypeInv, TypeOK, GetRejected, NoPromise
  <2> QED BY <1>5, <2>1 DEF GenerationsAgree, GetRejected, InFlight
<1>6. CASE Published(c) \/ PublishFails(c)
  <2>1. UNCHANGED <<promise, held, stored>> /\ published' \in {published, body[c].gen}
        /\ body' = [body EXCEPT ![c] = NoBody]
    BY <1>6 DEF Published, PublishFails
  <2>2. \A d \in Client : body'[d].gen \in {0, body[d].gen}
    BY <2>1 DEF TypeInv, TypeOK, NoBody
  <2> QED BY <2>1, <2>2 DEF GenerationsAgree, InFlight
<1> QED BY <1>1, <1>2, <1>3, <1>4, <1>5, <1>6 DEF InitStep

\* As long as there is a store, clients that initialise at the same time, are
\* disconnected while they do, or come and go with reloads hold one generation
\* of prekeys, and the server has that one (ratchetStore.ts,
\* loadOrCreatePreKeys).
THEOREM OneGenerationHeld == Spec => []OneGeneration
<1> DEFINE Agree == STORE => GenerationsAgree
<1>1. Init => Agree
  BY DEF Init, GenerationsAgree, InFlight, NoPromise, NoBody
<1>2. TypeInv /\ Agree /\ [Next]_vars => Agree'
  <2> SUFFICES ASSUME TypeInv, STORE, GenerationsAgree, [Next]_vars PROVE GenerationsAgree'
    OBVIOUS
  <2>1. CASE UNCHANGED prekeyVars
    BY <2>1 DEF prekeyVars, GenerationsAgree, InFlight
  <2>2. CASE Reload
    BY <2>2 DEF Reload, GenerationsAgree, InFlight, NoPromise, NoBody
  <2>3. CASE \E c \in Client : Disconnect(c)
    BY <2>3 DEF Disconnect, GenerationsAgree, InFlight, TypeInv, TypeOK
  <2>4. CASE \E c \in Client : TimerFires(c)
    BY <2>1, <2>4 DEF TimerFires
  <2>5. CASE \E c \in Client, s \in Line : SocketOpens(c, s) \/ ConnectionLost(c, s) \/ SocketCloses(c, s)
    BY <2>1, <2>5 DEF SocketOpens, ConnectionLost, SocketCloses
  <2>6. CASE UNCHANGED vars
    BY <2>1, <2>6 DEF vars
  <2> QED BY <2>2, <2>3, <2>4, <2>5, <2>6, GenerationStep DEF Next
<1>3. Agree => OneGeneration
  BY DEF GenerationsAgree, OneGeneration
<1> QED BY <1>1, <1>2, <1>3, ConnectionTypes, PTL DEF Spec
-----------------------------------------------------------------------------
(* One line at a time.                                                      *)

\* Why: the sockets of a client are used in their order, before disconnect
\* only the last of them is live and then nothing else is under way, and
\* nothing begins before connect.
Ordered(c) ==
  /\ Used(c) = 1 .. Cardinality(Used(c))
  /\ init[c] = "idle" => timers[c] = 0 /\ Used(c) = {}
  /\ IF cancelled[c]
     THEN timers[c] = 0 /\ \A s \in Live(c) : socket[c][s] = "closing"
     ELSE /\ \A s \in Live(c) :
               s = Cardinality(Used(c)) /\ timers[c] = 0 /\ init[c] \notin InitWait
          /\ timers[c] <= 1 /\ (timers[c] = 1 => init[c] \notin InitWait)
  /\ ready[c] => ~cancelled[c] /\ \E s \in Live(c) : socket[c][s] # "connecting"
LinesInOrder == \A c \in Client : Ordered(c)

\* A client whose line is left alone, and which begins nothing.
LEMMA SameLine ==
  ASSUME NEW c \in Client, Ordered(c), socket'[c] = socket[c], timers'[c] = timers[c],
         ready'[c] = ready[c], cancelled'[c] = cancelled[c],
         init'[c] = "idle" => init[c] = "idle", init'[c] \in InitWait => init[c] \in InitWait
  PROVE  Ordered(c)'
<1>1. Used(c)' = Used(c) /\ Live(c)' = Live(c)
  BY DEF Used, Live
<1> QED BY <1>1 DEF Ordered

\* How many sockets a client has used.
LEMMA UsedCount ==
  ASSUME NEW c \in Client
  PROVE  IsFiniteSet(Used(c)) /\ Cardinality(Used(c)) \in Nat
<1>1. IsFiniteSet(Line) /\ Used(c) \subseteq Line
  BY FS_Interval, BoundAssumption DEF Line, Used
<1> QED BY <1>1, FS_Subset, FS_CardinalityType

\* connectWS when nothing else is under way: the new socket is the last.
LEMMA NewLine ==
  ASSUME TypeInv, NEW c \in Client, Ordered(c), ~cancelled[c], ~cancelled'[c], ConnectWS(c), Live(c) = {},
         timers'[c] = 0, init'[c] \notin InitWait \union {"idle"}, ready'[c] = ready[c]
  PROVE  Ordered(c)'
<1> DEFINE n == Cardinality(Used(c))
<1>1. PICK s \in Line : s = n + 1 /\ s \notin Used(c) /\ socket' = [socket EXCEPT ![c][s] = "connecting"]
  BY DEF ConnectWS
<1>2. Used(c)' = 1 .. n + 1 /\ Live(c)' = {s}
  <2>1. socket'[c] = [socket[c] EXCEPT ![s] = "connecting"] /\ socket[c] \in [Line -> LineState]
    BY <1>1 DEF TypeInv, TypeOK
  <2>2. Used(c)' = Used(c) \union {s} /\ Live(c)' = Live(c) \union {s}
    BY <2>1 DEF Used, Live
  <2> QED BY <1>1, <2>2, UsedCount DEF Ordered
<1>3. Cardinality(Used(c)') = n + 1
  BY <1>2, FS_Interval, UsedCount
<1>4. ~ready'[c]
  BY DEF Ordered
<1> QED BY <1>1, <1>2, <1>3, <1>4 DEF Ordered

\* A socket that moves on to another state.
LEMMA LineMoves ==
  ASSUME TypeInv, NEW c \in Client, NEW s \in Line, NEW x \in LineState \ {"none"},
         s \in Used(c), socket' = [socket EXCEPT ![c][s] = x]
  PROVE  /\ Used(c)' = Used(c)
         /\ Live(c)' = IF x = "closed" THEN Live(c) \ {s} ELSE Live(c) \union {s}
         /\ \A t \in Line : socket'[c][t] = IF t = s THEN x ELSE socket[c][t]
<1>1. socket[c] \in [Line -> LineState] /\ socket'[c] = [socket[c] EXCEPT ![s] = x]
  BY DEF TypeInv, TypeOK
<1> QED BY <1>1 DEF Used, Live, LineState

\* A step of init.
LEMMA InitOrder ==
  ASSUME TypeInv, LinesInOrder, NEW c \in Client, Connect(c) \/ InitStep(c)
  PROVE  LinesInOrder'
<1> USE DEF InitWait
<1> SUFFICES ASSUME NEW d \in Client PROVE Ordered(d)'
  BY DEF LinesInOrder
<1>0. Ordered(d) /\ Ordered(c)
  BY DEF LinesInOrder
<1>1. CASE Connect(c)
  <2>1. UNCHANGED lineVars /\ UNCHANGED cancelled /\ init' = [init EXCEPT ![c] = "keys"] /\ init[c] = "idle"
    BY <1>1 DEF Connect, TypeInv, Waiting
  <2>2. CASE d = c
    <3>1. Used(c)' = Used(c) /\ Live(c)' = Live(c) /\ Live(c) \subseteq Used(c)
      BY <2>1 DEF Used, Live, lineVars
    <3> QED BY <1>0, <2>1, <2>2, <3>1 DEF Ordered, lineVars, TypeInv, TypeOK
  <2>3. CASE d # c
    BY <1>0, <2>1, <2>3, SameLine DEF lineVars, TypeInv, TypeOK
  <2> QED BY <2>2, <2>3
<1>2. CASE HaveKeyPair(c) \/ PostKey(c) \/ InitFails(c) \/ AskPreKeys(c) \/ Generate(c) \/ Settle(c)
           \/ GetRejected(c)
  <2>1. UNCHANGED lineVars /\ UNCHANGED cancelled
    BY <1>2 DEF HaveKeyPair, PostKey, InitFails, AskPreKeys, Generate, Settle, GetRejected
  <2>2. (init'[d] = "idle" => init[d] = "idle") /\ (init'[d] \in InitWait => init[d] \in InitWait)
    <3>1. CASE Settle(c) \/ GetRejected(c)
      <4>1. c \in Client /\ c # Nobody /\ (waits[d] = c => init[d] = "prekeys")
        BY ClientAssumption DEF TypeInv, Waiting
      <4> QED BY <3>1, <4>1 DEF Settle, GetRejected, TypeInv, TypeOK
    <3>2. CASE HaveKeyPair(c) \/ PostKey(c) \/ InitFails(c) \/ AskPreKeys(c) \/ Generate(c)
      BY <3>2 DEF HaveKeyPair, PostKey, InitFails, AskPreKeys, Generate, TypeInv, TypeOK
    <3> QED BY <1>2, <3>1, <3>2
  <2> QED BY <1>0, <2>1, <2>2, SameLine DEF lineVars
<1>3. CASE Published(c) \/ PublishFails(c)
  <2>1. EndInit(c) /\ init[c] = "publishing" /\ UNCHANGED <<timers, ready, cancelled>>
    BY <1>3 DEF Published, PublishFails
  <2>2. init' = [init EXCEPT ![c] = "done"]
    BY <2>1 DEF EndInit
  <2>3. CASE d = c /\ ~cancelled[c]
    <3>1. ConnectWS(c) /\ Live(c) = {} /\ timers[c] = 0
      BY <1>0, <2>1, <2>3 DEF EndInit, Ordered, TypeInv, TypeOK
    <3> QED BY <1>0, <2>1, <2>2, <2>3, <3>1, NewLine DEF TypeInv, TypeOK
  <2>4. CASE d # c \/ cancelled[c]
    <3>1. socket'[d] = socket[d]
      BY <2>1, <2>4 DEF EndInit, ConnectWS, TypeInv, TypeOK
    <3> QED BY <1>0, <2>1, <2>2, <3>1, SameLine DEF TypeInv, TypeOK
  <2> QED BY <2>3, <2>4
<1> QED BY <1>1, <1>2, <1>3 DEF InitStep

\* disconnect: the last socket, the only one that may be live, is closed.
LEMMA DisconnectOrder ==
  ASSUME TypeInv, NEW c \in Client, Ordered(c), Disconnect(c)
  PROVE  Ordered(c)'
<1>1. /\ cancelled'[c] /\ ~ready'[c] /\ socket'[c] = LastSocket(c) /\ UNCHANGED init
      /\ timers'[c] = IF timers[c] > 0 THEN timers[c] - 1 ELSE 0
  BY DEF Disconnect, TypeInv, TypeOK
<1>2. Used(c)' = Used(c)
  <2>1. \A s \in Line : s = Cardinality(Used(c)) => s \in Used(c)
    BY DEF Ordered, Line
  <2> QED BY <1>1, <2>1 DEF Used, LastSocket
<1>3. timers'[c] = 0
  BY <1>1 DEF Ordered, TypeInv, TypeOK
<1>4. ASSUME NEW s \in Live(c)' PROVE socket'[c][s] = "closing"
  <2>1. s \in Line /\ socket'[c][s] \in {"connecting", "open", "closing"}
    BY <1>4 DEF Live
  <2>2. CASE s = Cardinality(Used(c)) /\ socket[c][s] # "closed"
    BY <1>1, <2>1, <2>2 DEF LastSocket
  <2>3. CASE ~(s = Cardinality(Used(c)) /\ socket[c][s] # "closed")
    <3>1. socket'[c][s] = socket[c][s] /\ s \in Live(c)
      BY <1>1, <2>1, <2>3 DEF LastSocket, Live
    <3> QED BY <3>1, <2>1, <2>3 DEF Ordered
  <2> QED BY <2>2, <2>3
<1> QED BY <1>1, <1>2, <1>3, <1>4 DEF Ordered

\* The events of a socket and the timer.
LEMMA LineOrder ==
  ASSUME TypeInv, NEW c \in Client, Ordered(c),
         \/ TimerFires(c)
         \/ \E s \in Line : SocketOpens(c, s) \/ ConnectionLost(c, s) \/ SocketCloses(c, s)
  PROVE  Ordered(c)'
<1>0. UNCHANGED <<cancelled, init>>
  BY DEF TimerFires, SocketOpens, ConnectionLost, SocketCloses
<1>1. CASE TimerFires(c)
  <2>1. UNCHANGED ready /\ timers'[c] = timers[c] - 1 /\ timers[c] > 0 /\ timers[c] \in Nat
    BY <1>1 DEF TimerFires, TypeInv, TypeOK
  <2>2. ~cancelled[c] /\ timers'[c] = 0 /\ Live(c) = {} /\ init[c] \notin InitWait \union {"idle"}
    BY <2>1 DEF Ordered
  <2> QED BY <1>0, <1>1, <2>1, <2>2, NewLine DEF TimerFires
<1>2. ASSUME NEW s \in Line, SocketOpens(c, s) PROVE Ordered(c)'
  <2>1. /\ socket[c][s] = "connecting" /\ socket' = [socket EXCEPT ![c][s] = "open"]
        /\ ready'[c] = ~cancelled[c] /\ UNCHANGED timers
    BY <1>2 DEF SocketOpens, TypeInv, TypeOK
  <2>2. s \in Used(c) /\ s \in Live(c)
    BY <2>1 DEF Used, Live
  <2>3. ~cancelled[c]
    BY <2>1, <2>2 DEF Ordered
  <2>4. /\ Used(c)' = Used(c) /\ Live(c)' = Live(c)
        /\ \A t \in Line : socket'[c][t] = IF t = s THEN "open" ELSE socket[c][t]
    <3>1. "open" \in LineState \ {"none"}
      BY DEF LineState
    <3>2. Live(c) \union {s} = Live(c)
      BY <2>2
    <3> QED BY <2>1, <2>2, <3>1, <3>2, LineMoves
  <2> QED BY <1>0, <2>1, <2>2, <2>3, <2>4 DEF Ordered
<1>3. ASSUME NEW s \in Line, ConnectionLost(c, s) PROVE Ordered(c)'
  <2>1. /\ socket[c][s] \in {"connecting", "open"} /\ socket' = [socket EXCEPT ![c][s] = "closing"]
        /\ UNCHANGED <<ready, timers>>
    BY <1>3 DEF ConnectionLost
  <2>2. s \in Used(c) /\ s \in Live(c)
    BY <2>1 DEF Used, Live
  <2>3. /\ Used(c)' = Used(c) /\ Live(c)' = Live(c)
        /\ \A t \in Line : socket'[c][t] = IF t = s THEN "closing" ELSE socket[c][t]
    <3>1. "closing" \in LineState \ {"none"}
      BY DEF LineState
    <3>2. Live(c) \union {s} = Live(c)
      BY <2>2
    <3> QED BY <2>1, <2>2, <3>1, <3>2, LineMoves
  <2>4. Live(c) \subseteq Line
    BY DEF Live
  <2> QED BY <1>0, <2>1, <2>2, <2>3, <2>4 DEF Ordered
<1>4. ASSUME NEW s \in Line, SocketCloses(c, s) PROVE Ordered(c)'
  <2>1. /\ socket[c][s] = "closing" /\ socket' = [socket EXCEPT ![c][s] = "closed"]
        /\ cancelled[c] => UNCHANGED <<ready, timers>>
        /\ ~cancelled[c] => ~ready'[c] /\ timers'[c] = timers[c] + 1
    BY <1>4 DEF SocketCloses, TypeInv, TypeOK
  <2>2. s \in Used(c) /\ s \in Live(c)
    BY <2>1 DEF Used, Live
  <2>3. /\ Used(c)' = Used(c) /\ Live(c)' = Live(c) \ {s}
        /\ \A t \in Line : socket'[c][t] = IF t = s THEN "closed" ELSE socket[c][t]
    <3>1. "closed" \in LineState \ {"none"}
      BY DEF LineState
    <3> QED BY <2>1, <2>2, <3>1, LineMoves
  <2>4. Live(c) \subseteq Line
    BY DEF Live
  <2>5. CASE cancelled[c]
    BY <1>0, <2>1, <2>2, <2>3, <2>4, <2>5 DEF Ordered
  <2>6. CASE ~cancelled[c]
    <3>1. Live(c) = {s} /\ timers[c] = 0 /\ init[c] \notin InitWait /\ init[c] # "idle"
      BY <2>2, <2>6 DEF Ordered
    <3>2. Live(c)' = {} /\ timers'[c] = 1
      BY <2>1, <2>3, <2>6, <3>1
    <3> QED BY <1>0, <2>1, <2>2, <2>3, <2>6, <3>1, <3>2 DEF Ordered
  <2> QED BY <2>5, <2>6
<1> QED BY <1>1, <1>2, <1>3, <1>4

\* A client has at most one line before disconnect, and is ready only with a
\* socket; after disconnect no line is left but sockets that wait for their
\* close event (EncraClient.ts, connectWS, disconnect and the close handler).
THEOREM OneLineAtATime == Spec => []OneLine
<1>1. Init => LinesInOrder
  <2> SUFFICES ASSUME Init, NEW c \in Client PROVE Ordered(c)
    BY DEF LinesInOrder
  <2>1. Used(c) = {} /\ Live(c) = {} /\ timers[c] = 0 /\ ~ready[c] /\ ~cancelled[c] /\ init[c] = "idle"
    BY DEF Init, Used, Live
  <2>2. Cardinality(Used(c)) = 0 /\ 1 .. 0 = {}
    BY <2>1, FS_EmptySet
  <2> QED BY <2>1, <2>2 DEF Ordered, InitWait
<1>2. TypeInv /\ LinesInOrder /\ [Next]_vars => LinesInOrder'
  <2> SUFFICES ASSUME TypeInv, LinesInOrder, [Next]_vars, NEW d \in Client PROVE Ordered(d)'
    BY DEF LinesInOrder
  <2>0. Ordered(d)
    BY DEF LinesInOrder
  <2>1. CASE UNCHANGED vars
    BY <2>0, <2>1, SameLine DEF vars, lineVars
  <2>2. CASE Reload
    <3>1. Used(d)' = {} /\ Live(d)' = {} /\ timers'[d] = 0 /\ ~ready'[d] /\ ~cancelled'[d] /\ init'[d] = "idle"
      BY <2>2 DEF Reload, Used, Live
    <3>2. Cardinality(Used(d)') = 0 /\ 1 .. 0 = {}
      BY <3>1, FS_EmptySet
    <3> QED BY <3>1, <3>2 DEF Ordered, InitWait
  <2>3. CASE \E c \in Client : Connect(c) \/ InitStep(c)
    BY <2>3, InitOrder DEF LinesInOrder
  <2>4. ASSUME NEW c \in Client,
               \/ TimerFires(c) \/ Disconnect(c)
               \/ \E s \in Line : SocketOpens(c, s) \/ ConnectionLost(c, s) \/ SocketCloses(c, s)
        PROVE  Ordered(d)'
    <3>1. CASE d = c
      BY <2>0, <2>4, <3>1, LineOrder, DisconnectOrder
    <3>2. CASE d # c
      <4>1. /\ socket'[d] = socket[d] /\ timers'[d] = timers[d] /\ ready'[d] = ready[d]
            /\ cancelled'[d] = cancelled[d] /\ UNCHANGED init
        <5>1. CASE TimerFires(c)
          BY <3>2, <5>1 DEF TimerFires, ConnectWS, TypeInv, TypeOK
        <5>2. CASE Disconnect(c)
          BY <3>2, <5>2 DEF Disconnect, TypeInv, TypeOK
        <5>3. CASE \E s \in Line : SocketOpens(c, s) \/ ConnectionLost(c, s) \/ SocketCloses(c, s)
          BY <3>2, <5>3 DEF SocketOpens, ConnectionLost, SocketCloses, TypeInv, TypeOK
        <5> QED BY <2>4, <5>1, <5>2, <5>3
      <4> QED BY <2>0, <4>1, SameLine
    <3> QED BY <3>1, <3>2
  <2> QED BY <2>1, <2>2, <2>3, <2>4 DEF Next
<1>3. TypeInv /\ LinesInOrder => OneLine
  <2> SUFFICES ASSUME TypeInv, LinesInOrder, NEW c \in Client, ~cancelled[c]
               PROVE  (IF init[c] \in InitWait THEN 1 ELSE 0) + Cardinality(Live(c)) + timers[c] <= 1
    BY DEF LinesInOrder, Ordered, OneLine
  <2>1. Ordered(c) /\ timers[c] \in Nat
    BY DEF LinesInOrder, TypeInv, TypeOK
  <2>2. CASE Live(c) = {}
    <3>1. Cardinality(Live(c)) = 0
      BY <2>2, FS_EmptySet
    <3> QED BY <2>1, <3>1 DEF Ordered
  <2>3. CASE Live(c) # {}
    <3>1. Live(c) = {Cardinality(Used(c))}
      BY <2>1, <2>3 DEF Ordered
    <3>2. Cardinality(Live(c)) = 1
      BY <3>1, FS_Singleton
    <3> QED BY <2>1, <2>3, <3>2 DEF Ordered
  <2> QED BY <2>2, <2>3
<1> QED BY <1>1, <1>2, <1>3, ConnectionTypes, PTL DEF Spec
=============================================================================
