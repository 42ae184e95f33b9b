------------------------------ MODULE Session ------------------------------
(***************************************************************************)
(* The chat sessions of a device pair, one direction of them: the calls of *)
(* sendMessage on the sending device, its s: ratchet in memory and in      *)
(* IndexedDB, the pending X3DH prekey message and the socket; the message  *)
(* handlers, the r: ratchet and the history of the receiving device.       *)
(* The sender is packages/client/src/EncraClient.ts, the receiver          *)
(* packages/react/src/useE2EChat.ts; each has the other's half too, step   *)
(* for step, but that the hook sends on the socket it had at the start of  *)
(* the call and EncraClient on the one it has after the waits.             *)
(*                                                                         *)
(* One action is a turn of a page's event loop, up to the next wait for    *)
(* IndexedDB or a fetch (libsodium's promises are settled by then).  A put *)
(* counts as done when it is issued; one that fails is swallowed.  The     *)
(* sending ratchet of a pair only ever sends, and the receiving one only   *)
(* receives, so each is one chain: a counter, or a counter and the set of  *)
(* skipped numbers (DoubleRatchet.tla has the ratchet itself).  A session  *)
(* is named by the call that created it; the other direction shows only    *)
(* as the moment the sender hears from its peer.                           *)
(***************************************************************************)
EXTENDS Integers, FiniteSets

CONSTANTS Text,          \* the texts to send, one call of sendMessage each
          None,          \* no ratchet, no session, nobody
          SENDS,         \* calls of sendMessage the application overlaps
          HANDLERS,      \* message handlers the arrivals overlap
          COPIES,        \* bound: deliveries of one frame
          MaxTroubles    \* bound: all that is counted in Troubles

ASSUME NoneAssumption  == None \notin Text \union (Text \X Nat)
ASSUME TextAssumption  == IsFiniteSet(Text)
ASSUME BoundAssumption ==
  /\ SENDS \in Nat \ {0} /\ HANDLERS \in Nat \ {0} /\ COPIES \in Nat \ {0}
  /\ MaxTroubles \in Nat

Delivery == Text \X (1 .. COPIES)
Of(d)    == d[1]

SendingRatchet   == [sess: Text, n: Nat]
ReceivingRatchet == [sess: Text, nr: Nat, skip: SUBSET Nat]
NoRatchet        == [sess |-> None]

VARIABLES
  send,       \* the step each call of sendMessage is at
  made,       \* the ratchet object that call loaded or created
  sending,    \* whose object _ratchets has under s:
  pending,    \* _pendingPrekey: a session or None
  box,        \* the session and number a text was encrypted with
  socket,     \* this._socket of the sender
  savedS,     \* the stored s: ratchet
  wire,       \* texts whose frame reached the relay
  prekey,     \* the prekey message in that frame
  otp,        \* a session's one-time key at the receiver
  handler,    \* the step the handler of each delivery is at
  unmounted,  \* deliveries whose handler is of an effect that was cleaned up
  held,       \* the ratchet object that handler loaded or created
  receiving,  \* whose object _ratchets has under r:
  savedR,     \* the stored r: ratchet
  shown,      \* times a text was added to the receiver's history
  crossed,    \* history: a handler looked in IndexedDB while another was opening
  reloads, heard, drops, faults

senderVars   == <<send, made, sending, pending, box, savedS>>
networkVars  == <<wire, prekey>>
effectVars   == <<unmounted, crossed>>
receiverVars == <<handler, held, receiving, savedR, shown, effectVars>>
vars == <<senderVars, socket, networkVars, otp, receiverVars, reloads, heard, drops, faults>>

Init ==
  /\ send = [t \in Text |-> "unsent"] /\ made = [t \in Text |-> NoRatchet]
  /\ sending = None /\ pending = None /\ box = [t \in Text |-> NoRatchet]
  /\ socket = "open" /\ savedS = NoRatchet
  /\ wire = {} /\ prekey = [t \in Text |-> None] /\ otp = [t \in Text |-> "none"]
  /\ handler = [d \in Delivery |-> "none"] /\ unmounted = {} /\ crossed = FALSE
  /\ held = [d \in Delivery |-> NoRatchet]
  /\ receiving = None /\ savedR = NoRatchet /\ shown = [t \in Text |-> 0]
  /\ reloads = [sender |-> 0, receiver |-> 0] /\ heard = 0 /\ drops = 0 /\ faults = 0

\* The bound of a behaviour, on everything that may trouble it: reloads, answers
\* of the peer, lost connections, failed puts and repeated frames together.
Repeats  == {d \in Delivery : d[2] > 1 /\ handler[d] # "none"}
Troubles == reloads.sender + reloads.receiver + heard + drops + faults + Cardinality(Repeats)
Bounded  == Troubles < MaxTroubles

\* ratchetStore.ts: a put that fails is caught and forgotten.
Put(new, saved, old) ==
  \/ saved = new /\ faults' = faults
  \/ saved = old /\ Bounded /\ faults' = faults + 1

InCall(t)    == send[t] \in {"devices", "loading", "bundle", "created", "saving"}
InHandler(d) == handler[d] \in {"loading", "consumed", "created", "saving"}
Opening(d)   == handler[d] \in {"loading", "consumed", "created"}

-----------------------------------------------------------------------------
(* sendMessage.                                                             *)

\* The call checks the socket and waits for the peer's device list.
SendMessage(t) ==
  /\ send[t] = "unsent" /\ socket = "open"
  /\ Cardinality({u \in Text : InCall(u)}) < SENDS
  /\ send' = [send EXCEPT ![t] = "devices"]
  /\ UNCHANGED <<made, sending, pending, box, savedS, socket, networkVars, otp,
                 receiverVars, reloads, heard, drops, faults>>

\* ratchet.encrypt with o's object among objs, and saveRatchet.
Mut_Encrypt(t, objs, o) ==   \* the ratchet is not saved after it
  /\ made' = [objs EXCEPT ![o].n = @ + 1]
  /\ box' = [box EXCEPT ![t] = objs[o]]
  /\ UNCHANGED <<savedS, faults>>
  /\ send' = [send EXCEPT ![t] = "saving"]
Encrypt(t, objs, o) ==
  LET next == [objs[o] EXCEPT !.n = @ + 1] IN
  /\ made' = [objs EXCEPT ![o] = next]
  /\ box' = [box EXCEPT ![t] = objs[o]]
  /\ Put(next, savedS', savedS)
  /\ send' = [send EXCEPT ![t] = "saving"]

\* _getOrInitSenderRatchet finds the ratchet in memory.
UseExisting(t) ==
  /\ send[t] = "devices" /\ sending # None
  /\ Encrypt(t, made, sending)
  /\ UNCHANGED <<sending, pending, socket, networkVars, otp, receiverVars,
                 reloads, heard, drops>>

\* It does not, and asks IndexedDB.
Mut_LoadSender(t) ==   \* the stored ratchet is not asked for
  /\ send[t] = "devices" /\ sending = None
  /\ send' = [send EXCEPT ![t] = "bundle"]
  /\ UNCHANGED <<made, sending, pending, box, savedS, socket, networkVars, otp,
                 receiverVars, reloads, heard, drops, faults>>
LoadSender(t) ==
  /\ send[t] = "devices" /\ sending = None
  /\ made' = [made EXCEPT ![t] = savedS]
  /\ send' = [send EXCEPT ![t] = "loading"]
  /\ UNCHANGED <<sending, pending, box, savedS, socket, networkVars, otp,
                 receiverVars, reloads, heard, drops, faults>>

RestoreSender(t) ==
  /\ send[t] = "loading" /\ made[t] # NoRatchet
  /\ sending' = t
  /\ Encrypt(t, made, t)
  /\ UNCHANGED <<pending, socket, networkVars, otp, receiverVars, reloads, heard, drops>>

NoStoredSender(t) ==
  /\ send[t] = "loading" /\ made[t] = NoRatchet
  /\ send' = [send EXCEPT ![t] = "bundle"]
  /\ UNCHANGED <<made, sending, pending, box, savedS, socket, networkVars, otp,
                 receiverVars, reloads, heard, drops, faults>>

\* The bundle is there, with or without a one-time key: x3dhInitiate,
\* initSender, and the prekey message is kept for the frames to come.
Initiate(t) ==
  LET new == [sess |-> t, n |-> 0] IN
  /\ send[t] = "bundle"
  /\ made' = [made EXCEPT ![t] = new]
  /\ sending' = t /\ pending' = t
  /\ \E key \in {"none", "held"} : otp' = [otp EXCEPT ![t] = key]
  /\ Put(new, savedS', savedS)
  /\ send' = [send EXCEPT ![t] = "created"]
  /\ UNCHANGED <<box, socket, networkVars, receiverVars, reloads, heard, drops>>

UseNew(t) ==
  /\ send[t] = "created"
  /\ Encrypt(t, made, t)
  /\ UNCHANGED <<sending, pending, socket, networkVars, otp, receiverVars,
                 reloads, heard, drops>>

\* The device list or the bundle could not be fetched, or the get of the
\* stored ratchet, which loadRatchet returns without awaiting it in its try,
\* was rejected: so is the call.
CallRejects(t) ==
  /\ send[t] \in {"devices", "loading", "bundle"}
  /\ send' = [send EXCEPT ![t] = "failed"]
  /\ UNCHANGED <<made, sending, pending, box, savedS, socket, networkVars, otp,
                 receiverVars, reloads, heard, drops, faults>>

\* The ratchet is saved: the frame goes out with the prekey message that is
\* pending now, on the socket there is now.  A closed one drops it silently,
\* one that is connecting throws.
Mut_Transmit(t) ==   \* only the first frame has the prekey message
  /\ send[t] = "saving"
  /\ IF socket = "open"
     THEN wire' = wire \union {t} /\ prekey' = [prekey EXCEPT ![t] = pending]
     ELSE UNCHANGED networkVars
  /\ pending' = None
  /\ send' = [send EXCEPT ![t] = IF socket = "connecting" THEN "failed" ELSE "sent"]
  /\ UNCHANGED <<made, sending, box, savedS, socket, otp, receiverVars,
                 reloads, heard, drops, faults>>
Transmit(t) ==
  /\ send[t] = "saving"
  /\ IF socket = "open"
     THEN wire' = wire \union {t} /\ prekey' = [prekey EXCEPT ![t] = pending]
     ELSE UNCHANGED networkVars
  /\ send' = [send EXCEPT ![t] = IF socket = "connecting" THEN "failed" ELSE "sent"]
  /\ UNCHANGED <<made, sending, pending, box, savedS, socket, otp, receiverVars,
                 reloads, heard, drops, faults>>

Call(t) ==
  \/ UseExisting(t) \/ LoadSender(t) \/ RestoreSender(t) \/ NoStoredSender(t)
  \/ Initiate(t) \/ UseNew(t) \/ Transmit(t)

-----------------------------------------------------------------------------
(* The sender's page and connection.                                        *)

\* A message of the peer's own session was decrypted: its handler takes it
\* that the peer has this one.
HearPeer ==
  /\ Bounded /\ heard' = heard + 1
  /\ pending' = None
  /\ UNCHANGED <<send, made, sending, box, savedS, socket, networkVars, otp,
                 receiverVars, reloads, drops, faults>>

ReloadSender ==
  /\ Bounded /\ reloads' = [reloads EXCEPT !.sender = @ + 1]
  /\ send' = [t \in Text |-> IF InCall(t) THEN "gone" ELSE send[t]]
  /\ made' = [t \in Text |-> NoRatchet]
  /\ sending' = None /\ pending' = None /\ socket' = "connecting"
  /\ UNCHANGED <<box, savedS, networkVars, otp, receiverVars, heard, drops, faults>>

SocketCloses ==
  /\ socket # "closed" /\ Bounded /\ drops' = drops + 1
  /\ socket' = "closed"
  /\ UNCHANGED <<senderVars, networkVars, otp, receiverVars, reloads, heard, faults>>

\* _scheduleReconnect's timer runs _connectWS.
Reconnect ==
  /\ socket = "closed" /\ socket' = "connecting"
  /\ UNCHANGED <<senderVars, networkVars, otp, receiverVars, reloads, heard, drops, faults>>

SocketOpens ==
  /\ socket = "connecting" /\ socket' = "open"
  /\ UNCHANGED <<senderVars, networkVars, otp, receiverVars, reloads, heard, drops, faults>>

-----------------------------------------------------------------------------
(* The message handler of the receiver.                                     *)

\* ratchet.decrypt with o's object among objs.  A text that opens is saved.
Mut_Open(d, objs, o, after) ==   \* the ratchet is not saved after it
  /\ held' = [objs EXCEPT ![o] = after]
  /\ UNCHANGED <<savedR, faults>>
  /\ handler' = [handler EXCEPT ![d] = "saving"]
Open(d, objs, o, after) ==
  /\ held' = [objs EXCEPT ![o] = after]
  /\ Put(after, savedR', savedR)
  /\ handler' = [handler EXCEPT ![d] = "saving"]
Mut_OpenNext(d, objs, o) ==   \* keys of skipped numbers are not kept
  LET r == objs[o]   b == box[Of(d)] IN
  /\ r.sess = b.sess /\ b.n >= r.nr
  /\ Open(d, objs, o, [r EXCEPT !.nr = b.n + 1])
Mut_OpenBack(d, objs, o) ==   \* the number is set back by one
  LET r == objs[o]   b == box[Of(d)] IN
  /\ r.sess = b.sess /\ b.n >= r.nr
  /\ Open(d, objs, o, [r EXCEPT !.nr = b.n - 1, !.skip = @ \union (r.nr .. b.n - 1)])
OpenNext(d, objs, o) ==
  LET r == objs[o]   b == box[Of(d)] IN
  /\ r.sess = b.sess /\ b.n >= r.nr
  /\ Open(d, objs, o, [r EXCEPT !.nr = b.n + 1, !.skip = @ \union (r.nr .. b.n - 1)])
OpenSkipped(d, objs, o) ==
  LET r == objs[o]   b == box[Of(d)] IN
  /\ r.sess = b.sess /\ b.n \in r.skip
  /\ Open(d, objs, o, [r EXCEPT !.skip = @ \ {b.n}])

\* A repeat throws after the chain was advanced; another session's header
\* does not open at all.  Neither is saved.
Throw(d, objs, o) ==
  LET r == objs[o]   b == box[Of(d)] IN
  /\ \/ /\ r.sess = b.sess /\ b.n < r.nr /\ b.n \notin r.skip
        /\ held' = [objs EXCEPT ![o].nr = @ + 1]
     \/ r.sess # b.sess /\ held' = objs
  /\ handler' = [handler EXCEPT ![d] = "failed"]
  /\ UNCHANGED <<savedR, faults>>

Decrypt(d, objs, o) ==
  OpenNext(d, objs, o) \/ OpenSkipped(d, objs, o) \/ Throw(d, objs, o)

\* A frame arrives; _getOrInitReceiverRatchet finds the ratchet in memory,
\* or asks IndexedDB.
Arrives(d) ==
  /\ Of(d) \in wire /\ handler[d] = "none"
  /\ \A i \in 1 .. d[2] - 1 : handler[<<Of(d), i>>] # "none"
  /\ Cardinality({e \in Delivery : InHandler(e)}) < HANDLERS
  /\ d[2] > 1 => Bounded
ReceiveExisting(d) ==
  /\ Arrives(d) /\ receiving # None
  /\ Decrypt(d, held, receiving)
  /\ UNCHANGED <<senderVars, socket, networkVars, otp, receiving, shown, effectVars,
                 reloads, heard, drops>>
LoadReceiver(d) ==
  /\ Arrives(d) /\ receiving = None
  /\ held' = [held EXCEPT ![d] = savedR]
  /\ handler' = [handler EXCEPT ![d] = "loading"]
  /\ crossed' = (crossed \/ \E e \in Delivery : Opening(e))
  /\ UNCHANGED <<senderVars, socket, networkVars, otp, receiving, savedR, shown,
                 unmounted, reloads, heard, drops, faults>>
Receive(d) == ReceiveExisting(d) \/ LoadReceiver(d)

RestoreReceiver(d) ==
  /\ handler[d] = "loading" /\ held[d] # NoRatchet
  /\ receiving' = d
  /\ Decrypt(d, held, d)
  /\ UNCHANGED <<senderVars, socket, networkVars, otp, shown, effectVars,
                 reloads, heard, drops>>

\* The get was rejected, and so is the handler: nothing is reported.
LoadRejected(d) ==
  /\ handler[d] = "loading"
  /\ handler' = [handler EXCEPT ![d] = "rejected"]
  /\ UNCHANGED <<senderVars, socket, networkVars, otp, held, receiving, savedR, shown,
                 effectVars, reloads, heard, drops, faults>>

\* Neither a session nor a prekey message that establishes one; or the keys
\* are cleared, and not loaded again yet.
Unestablished(d) ==
  /\ handler[d] = "loading" /\ held[d] = NoRatchet
  /\ \/ d \in unmounted
     \/ prekey[Of(d)] = None
     \/ prekey[Of(d)] # None /\ otp[prekey[Of(d)]] = "spent"
  /\ handler' = [handler EXCEPT ![d] = "failed"]
  /\ UNCHANGED <<senderVars, socket, networkVars, otp, held, receiving, savedR, shown,
                 effectVars, reloads, heard, drops, faults>>

\* x3dhRespond, initReceiver; a one-time key is dropped first, and waited for
\* (PreKeys.tla has that part; here its record is always saved).
Respond(d) ==
  LET p   == prekey[Of(d)]
      new == [sess |-> p, nr |-> 0, skip |-> {}]
  IN
  /\ handler[d] = "loading" /\ held[d] = NoRatchet /\ p # None
  /\ held' = [held EXCEPT ![d] = new] /\ receiving' = d
  /\ \/ /\ otp[p] = "held" /\ otp' = [otp EXCEPT ![p] = "spent"]
        /\ handler' = [handler EXCEPT ![d] = "consumed"]
        /\ UNCHANGED <<savedR, faults>>
     \/ /\ otp[p] = "none" /\ otp' = otp
        /\ Put(new, savedR', savedR)
        /\ handler' = [handler EXCEPT ![d] = "created"]
  /\ UNCHANGED <<senderVars, socket, networkVars, shown, effectVars, reloads, heard, drops>>

SaveNew(d) ==
  /\ handler[d] = "consumed"
  /\ Put(held[d], savedR', savedR)
  /\ handler' = [handler EXCEPT ![d] = "created"]
  /\ UNCHANGED <<senderVars, socket, networkVars, otp, held, receiving, shown, effectVars,
                 reloads, heard, drops>>

ReadFirst(d) ==
  /\ handler[d] = "created"
  /\ Decrypt(d, held, d)
  /\ UNCHANGED <<senderVars, socket, networkVars, otp, receiving, shown, effectVars,
                 reloads, heard, drops>>

\* setMessages, unless the effect is cancelled.
Show(d) ==
  /\ handler[d] = "saving"
  /\ shown' = IF d \in unmounted THEN shown ELSE [shown EXCEPT ![Of(d)] = @ + 1]
  /\ handler' = [handler EXCEPT ![d] = "done"]
  /\ UNCHANGED <<senderVars, socket, networkVars, otp, held, receiving, savedR,
                 effectVars, reloads, heard, drops, faults>>

\* The effect is cleaned up and, where the component is still mounted, run
\* again: its ratchets are forgotten, its handlers go on.
Remount ==
  /\ Bounded /\ reloads' = [reloads EXCEPT !.receiver = @ + 1]
  /\ unmounted' = unmounted \union {d \in Delivery : InHandler(d)}
  /\ held' = [d \in Delivery |-> IF Opening(d) THEN held[d] ELSE NoRatchet]
  /\ receiving' = None
  /\ UNCHANGED <<senderVars, socket, networkVars, otp, handler, savedR, shown, crossed,
                 heard, drops, faults>>

ReloadReceiver ==
  /\ Bounded /\ reloads' = [reloads EXCEPT !.receiver = @ + 1]
  /\ handler' = [d \in Delivery |-> IF InHandler(d) THEN "gone" ELSE handler[d]]
  /\ held' = [d \in Delivery |-> NoRatchet] /\ receiving' = None
  /\ UNCHANGED <<senderVars, socket, networkVars, otp, savedR, shown, effectVars,
                 heard, drops, faults>>

Handler(d) ==
  \/ RestoreReceiver(d) \/ LoadRejected(d) \/ Unestablished(d) \/ Respond(d)
  \/ SaveNew(d) \/ ReadFirst(d) \/ Show(d)

-----------------------------------------------------------------------------
Next ==
  \/ \E t \in Text : SendMessage(t) \/ Call(t) \/ CallRejects(t)
  \/ HearPeer \/ ReloadSender \/ SocketCloses \/ Reconnect \/ SocketOpens
  \/ \E d \in Delivery : Receive(d) \/ Handler(d)
  \/ Remount \/ ReloadReceiver

Spec == Init /\ [][Next]_vars

\* IndexedDB and fetches answer, and the relay delivers what reached it.
FairSpec ==
  /\ Spec
  /\ \A t \in Text : WF_vars(Call(t) \/ CallRejects(t)) /\ WF_vars(Receive(<<t, 1>>))
  /\ \A d \in Delivery : WF_vars(Handler(d))
  /\ WF_vars(Reconnect) /\ WF_vars(SocketOpens)

-----------------------------------------------------------------------------
(* Properties.                                                              *)

CallStep    == {"unsent", "devices", "loading", "bundle", "created", "saving",
                "sent", "failed", "gone"}
HandlerStep == {"none", "loading", "consumed", "created", "saving", "done", "failed",
                "rejected", "gone"}

TypeOK ==
  /\ send \in [Text -> CallStep]
  /\ made \in [Text -> SendingRatchet \union {NoRatchet}]
  /\ sending \in Text \union {None} /\ pending \in Text \union {None}
  /\ box \in [Text -> SendingRatchet \union {NoRatchet}]
  /\ savedS \in SendingRatchet \union {NoRatchet}
  /\ socket \in {"open", "closed", "connecting"}
  /\ wire \subseteq Text /\ prekey \in [Text -> Text \union {None}]
  /\ otp \in [Text -> {"none", "held", "spent"}]
  /\ handler \in [Delivery -> HandlerStep]
  /\ held \in [Delivery -> ReceivingRatchet \union {NoRatchet}]
  /\ receiving \in Delivery \union {None}
  /\ savedR \in ReceivingRatchet \union {NoRatchet}
  /\ shown \in [Text -> Nat] /\ unmounted \subseteq Delivery /\ crossed \in BOOLEAN
  /\ reloads \in [sender: Nat, receiver: Nat] /\ heard \in Nat /\ drops \in Nat
  /\ faults \in Nat

\* Whoever is asked for a ratchet has one, and frames carry what was encrypted.
ObjectsThere ==
  /\ sending # None => made[sending] # NoRatchet
  /\ \A t \in Text : send[t] = "created" => made[t] # NoRatchet
  /\ \A t \in Text : send[t] = "saving" \/ t \in wire => box[t] # NoRatchet
  /\ receiving # None => held[receiving] # NoRatchet
  /\ \A d \in Delivery :
       /\ handler[d] \in {"consumed", "created"} => held[d] # NoRatchet
       /\ handler[d] # "none" => Of(d) \in wire
TypeInv == TypeOK /\ ObjectsThere

\* However pages reload and connections drop, no message key encrypts two
\* texts: a number of a session is used once, as long as no put was lost and
\* the application waits for one sendMessage before the next.
NumbersOnce ==
  \A t, u \in Text : box[t] # NoRatchet /\ box[t] = box[u] => t = u
NumbersOnceIfSaved == faults = 0 => NumbersOnce

\* Why: what is stored is ahead of everything that was encrypted, what is in
\* memory is what is stored, and calls do not overlap.  The inductive
\* invariant of NumbersOnceIfSaved and of OneSessionIfSaved.
StoredLeads ==
  IF savedS = NoRatchet
  THEN \A t \in Text : box[t] = NoRatchet
  ELSE \A t \in Text : box[t] # NoRatchet => box[t].sess = savedS.sess /\ box[t].n < savedS.n
MemoryIsStored ==
  /\ sending # None => made[sending] = savedS /\ savedS # NoRatchet
  /\ \A t \in Text :
       /\ send[t] = "loading" => made[t] = savedS
       /\ send[t] = "bundle"  => savedS = NoRatchet
       /\ send[t] = "created" => sending = t
CallsApart == \A t, u \in Text : InCall(t) /\ InCall(u) => t = u
StoreLeads ==
  faults = 0 => StoredLeads /\ MemoryIsStored /\ CallsApart /\ NumbersOnce

\* A text enters the receiver's history once, however often the relay hands
\* its frame over, whenever the page reloads or the hook is mounted again, and
\* though handlers overlap: as long as no put was lost and no handler looked
\* for the session in IndexedDB while another was still opening it.  Two that
\* do may hold two copies of one ratchet, and both read one number.
ShownOnce        == \A t \in Text : shown[t] <= 1
ShownOnceIfSaved == faults = 0 /\ ~crossed => ShownOnce

\* docs/ARCHITECTURE.md, "Independent ratchet per sender->recipient device
\* pair": one pair, one session.
OneSession ==
  \A t, u \in Text :
    box[t] # NoRatchet /\ box[u] # NoRatchet => box[t].sess = box[u].sess
OneSessionIfSaved == faults = 0 => OneSession

\* sendMessage: "Attach the X3DH prekey message until we hear back from this
\* device, so the recipient can establish the session even if earlier frames
\* were lost": while it has none, every frame can establish it.
CanEstablish ==
  receiving = None /\ savedR = NoRatchet =>
    \A t \in wire : prekey[t] = box[t].sess
\* That is so until a reload forgets the prekey message, or the peer's own
\* session is taken for an answer.
CanEstablishAtFirst ==
  reloads.sender = 0 /\ heard = 0 => CanEstablish

\* What reaches the relay is read in the end, in whatever order the frames
\* arrive and though their handlers overlap, unless a page reloads, a frame is
\* repeated, IndexedDB fails, the sender stops attaching the prekey message, or
\* a handler looks for the session while another is opening it (the second
\* of two that both establish it takes the other's ratchet out of memory).
Rejected    == \E d \in Delivery : handler[d] = "rejected"
Undisturbed ==
  /\ reloads = [sender |-> 0, receiver |-> 0] /\ heard = 0 /\ faults = 0
  /\ Repeats = {} /\ ~Rejected /\ ~crossed
TextsRead   == \A t \in Text : t \in wire ~> (shown[t] > 0 \/ ~Undisturbed)
=============================================================================
