------------------------------ MODULE PreKeys ------------------------------
(***************************************************************************)
(* The X3DH prekeys of one device: the key server's three tables           *)
(* (packages/server/src/routes/prekeys.ts), the device that generates,     *)
(* publishes, consumes and replenishes them (EncraClient.ts and            *)
(* ratchetStore.ts of packages/client, and the presence hook of            *)
(* packages/react that shares its store), and the peers that fetch a       *)
(* bundle and open a session with it.                                      *)
(*                                                                         *)
(* One action is what runs between two waits: an HTTP request handled by   *)
(* one transaction or query, a turn of the device's event loop up to the   *)
(* next IndexedDB request or fetch.  A key is named by the generation that *)
(* made it and its id; a generation is one identity key, one signed prekey *)
(* (its id is always 1) and one-time prekeys whose ids start at 1.  A put  *)
(* into IndexedDB counts as done when it is issued.                        *)
(***************************************************************************)
EXTENDS Integers, FiniteSets

CONSTANTS Peer,          \* devices that open a session with this one
          None,          \* a row, a record or a key that is not there
          OTP_POOL_SIZE, OTP_LOW_WATER,
          STORE,         \* IndexedDB is available: saves succeed
          MaxFrames,     \* bound: MaxFrames[p], first frames p sends
          MaxReloads,    \* bound: reloads of the page
          MaxMounts,     \* bound: mounts of the presence hook
          FAULTS         \* bound: publications that get lost, reads that fail

ASSUME PoolAssumption   == OTP_POOL_SIZE \in Nat \ {0} /\ OTP_LOW_WATER \in 0 .. OTP_POOL_SIZE - 1
ASSUME StoreAssumption  == STORE \in BOOLEAN
ASSUME LimitAssumption  ==
  MaxFrames \in [Peer -> Nat] /\ MaxReloads \in Nat /\ MaxMounts \in Nat /\ FAULTS \in Nat

\* A peer's frames that carry its prekey message.
Frame == UNION {{p} \X (1 .. MaxFrames[p]) : p \in Peer}
From(f) == f[1]

OneTimeKey == [gen: Nat, id: Nat]
Prekeys    == [gen: Nat, ids: SUBSET Nat, next: Nat]    \* StoredPreKeys
Body       == [n: Nat, by: SUBSET Frame, gen: Nat, ids: SUBSET Nat]
ASSUME NoneAssumption == None \notin OneTimeKey \union Prekeys
Session    == {"none", "good", "bad"}    \* bad: the two sides derived other keys

VARIABLES
  \* the key server
  identity, signed,  \* generation of the identity_keys and signed_prekeys row
  pool,              \* rows of one_time_prekeys
  posts,             \* POST requests under way
  \* the peers
  got,               \* got[p]: how far p's GET is, and what it returned
  \* the device
  mem, saved,        \* _prekeys in memory, and as stored
  gens,              \* generations made so far
  sess, savedSess,   \* receiver ratchet per peer, in memory and stored
  frame,             \* frame[f]: where the frame, or its handler, is
  spent,             \* history: spent[f]: the key the handler of f derived with
  \* bounds
  nposts, reloads, mounts, faults

serverVars == <<identity, signed, pool>>
deviceVars == <<mem, saved, gens, sess, savedSess, spent>>
boundVars  == <<reloads, mounts, faults>>
vars == <<serverVars, posts, got, deviceVars, frame, nposts, boundVars>>

NoBundle == [step |-> "idle", identity |-> 0, signed |-> 0, otp |-> None]
FrameState == {"unsent", "wire", "loading", "consumed", "publishing", "ready",
               "read", "failed", "lost"}

Init ==
  /\ identity = 0 /\ signed = 0 /\ pool = {} /\ posts = {} /\ nposts = 0
  /\ got = [p \in Peer |-> NoBundle]
  /\ mem = None /\ saved = None /\ gens = 0
  /\ sess = [p \in Peer |-> "none"] /\ savedSess = [p \in Peer |-> "none"]
  /\ frame = [f \in Frame |-> "unsent"] /\ spent = [f \in Frame |-> None]
  /\ reloads = 0 /\ mounts = 0 /\ faults = 0

-----------------------------------------------------------------------------
(* The key server.                                                          *)

\* POST /v1/prekeys: one transaction; an id that is there keeps its row.
Offer(b) == {[gen |-> b.gen, id |-> i] : i \in b.ids}
HeldIds  == {k.id : k \in pool}
Publish(b) ==
  /\ b \in posts
  /\ posts' = posts \ {b}
  /\ identity' = b.gen /\ signed' = b.gen
  /\ pool' = pool \union {k \in Offer(b) : k.id \notin HeldIds}
  /\ UNCHANGED <<got, deviceVars, frame, nposts, boundVars>>

\* The request does not arrive, or is refused: an error event, no retry.
PublishFails(b) ==
  /\ b \in posts /\ faults < FAULTS /\ faults' = faults + 1
  /\ posts' = posts \ {b}
  /\ UNCHANGED <<serverVars, got, deviceVars, frame, nposts, reloads, mounts>>

\* GET /v1/prekeys/:userId/:deviceId, query by query.
ReadIdentity(p) ==
  /\ got[p].step = "idle"
  /\ got' = [got EXCEPT ![p].step = "identity", ![p].identity = identity]
  /\ UNCHANGED <<serverVars, posts, deviceVars, frame, nposts, boundVars>>

\* A row is missing: 404, and the peer may ask again.
ReadSigned(p) ==
  /\ got[p].step = "identity"
  /\ got' = [got EXCEPT ![p] =
       IF got[p].identity = 0 \/ signed = 0 THEN NoBundle
       ELSE [step |-> "signed", identity |-> got[p].identity, signed |-> signed,
             otp |-> None]]
  /\ UNCHANGED <<serverVars, posts, deviceVars, frame, nposts, boundVars>>

\* x3dhInitiate verifies the signature of the signed prekey.
Verified(p) == IF got[p].identity = got[p].signed THEN "session" ELSE "refused"
Bundle(p, k) ==
  [got EXCEPT ![p] = [step |-> Verified(p), identity |-> got[p].identity,
                      signed |-> got[p].signed, otp |-> k]]

\* DELETE ... SKIP LOCKED RETURNING: a row not locked by another fetch; which
\* one the ORDER BY prefers is left open.
Mut_TakeOneTime(p) ==   \* SELECT without the DELETE
  /\ got[p].step = "signed"
  /\ got' \in {Bundle(p, k) : k \in IF pool = {} THEN {None} ELSE pool}
  /\ pool' = pool
  /\ UNCHANGED <<identity, signed, posts, deviceVars, frame, nposts, boundVars>>
TakeOneTime(p) ==
  /\ got[p].step = "signed"
  /\ \/ \E k \in pool : got' = Bundle(p, k) /\ pool' = pool \ {k}
     \/ pool = {} /\ got' = Bundle(p, None) /\ pool' = pool
  /\ UNCHANGED <<identity, signed, posts, deviceVars, frame, nposts, boundVars>>

\* consumeOneTime=false, a fetch for a presence session: the pool is left
\* alone, and the peer is free to fetch for a chat.
LeaveOneTime(p) ==
  /\ got[p].step = "signed"
  /\ got' = [got EXCEPT ![p] = IF Verified(p) = "session" THEN NoBundle
                              ELSE [got[p] EXCEPT !.step = "refused"]]
  /\ UNCHANGED <<serverVars, posts, deviceVars, frame, nposts, boundVars>>

-----------------------------------------------------------------------------
(* The device: start, reload, presence hook.                                *)

Post(by, gen, ids) ==
  /\ posts' = posts \union {[n |-> nposts, by |-> by, gen |-> gen, ids |-> ids]}
  /\ nposts' = nposts + 1

Store(new) == saved' = IF STORE THEN new ELSE saved

\* _initPreKeys: restored keys are published without their one-time keys.
Fresh == [gen |-> gens + 1, ids |-> 1 .. OTP_POOL_SIZE, next |-> OTP_POOL_SIZE + 1]
Start ==
  /\ mem = None
  /\ \/ /\ saved # None
        /\ mem' = saved
        /\ Post({}, saved.gen, {})
        /\ UNCHANGED <<saved, gens>>
     \/ /\ saved = None
        /\ mem' = Fresh /\ Store(Fresh) /\ gens' = gens + 1
        /\ Post({}, Fresh.gen, Fresh.ids)
  /\ UNCHANGED <<serverVars, got, sess, savedSess, spent, frame, boundVars>>

\* The page goes away, and with it its memory and its handlers.
InHandler(f) == frame[f] \in {"loading", "consumed", "publishing", "ready"}
Mut_Reload ==   \* handlers go on without the memory of the page
  /\ mem # None /\ reloads < MaxReloads /\ reloads' = reloads + 1
  /\ mem' = None
  /\ sess' = [p \in Peer |-> "none"]
  /\ UNCHANGED <<serverVars, posts, got, saved, gens, savedSess, spent, frame, nposts, mounts, faults>>
Reload ==
  /\ mem # None /\ reloads < MaxReloads /\ reloads' = reloads + 1
  /\ mem' = None
  /\ sess' = [p \in Peer |-> "none"]
  /\ frame' = [f \in Frame |-> IF InHandler(f) THEN "lost" ELSE frame[f]]
  /\ UNCHANGED <<serverVars, posts, got, saved, gens, savedSess, spent, nposts, mounts, faults>>

\* useE2EPresence mounts beside the chat: ensurePreKeys loads the stored
\* prekeys and publishes all of them.
MountPresence ==
  /\ mem # None /\ saved # None /\ mounts < MaxMounts /\ mounts' = mounts + 1
  /\ Post({}, saved.gen, saved.ids)
  /\ UNCHANGED <<serverVars, got, deviceVars, frame, reloads, faults>>

-----------------------------------------------------------------------------
(* Frames with a prekey message: the message handler of _connectWS and      *)
(* _getOrInitReceiverRatchet.                                               *)

SendFirst(f) ==
  /\ got[From(f)].step = "session" /\ frame[f] = "unsent"
  /\ frame' = [frame EXCEPT ![f] = "wire"]
  /\ UNCHANGED <<serverVars, posts, got, deviceVars, nposts, boundVars>>

\* decrypt, which a ratchet of other keys fails.
Outcome(s) == IF s = "good" THEN "read" ELSE "failed"

\* The ratchet is in memory, or its load from the store is awaited.
Arrive(f) ==
  LET p == From(f) IN
  /\ frame[f] = "wire" /\ mem # None
  /\ frame' = [frame EXCEPT ![f] = IF sess[p] = "none" THEN "loading" ELSE Outcome(sess[p])]
  /\ savedSess' = IF STORE /\ sess[p] = "good" THEN [savedSess EXCEPT ![p] = "good"]
                                               ELSE savedSess
  /\ UNCHANGED <<serverVars, posts, got, mem, saved, gens, sess, spent, nposts, boundVars>>

RestoreSession(f) ==
  LET p == From(f) IN
  /\ frame[f] = "loading" /\ savedSess[p] # "none"
  /\ sess' = [sess EXCEPT ![p] = savedSess[p]]
  /\ frame' = [frame EXCEPT ![f] = Outcome(savedSess[p])]
  /\ UNCHANGED <<serverVars, posts, got, mem, saved, gens, savedSess, spent, nposts, boundVars>>

\* loadRatchet does not await its get inside the try: a rejected one ends the
\* handler, whose error is no DecryptionFailedError and is dropped.
LoadFails(f) ==
  /\ faults < FAULTS /\ faults' = faults + 1
  /\ frame[f] = "loading"
  /\ frame' = [frame EXCEPT ![f] = "failed"]
  /\ UNCHANGED <<serverVars, posts, got, deviceVars, nposts, reloads, mounts>>

\* _resolveResponderKeys: the signed prekey id always fits, the one-time
\* prekey is looked up by its id.
Resolves(f) == LET k == got[From(f)].otp IN k # None => k.id \in mem.ids

\* x3dhRespond derives the keys of x3dhInitiate from the same keys only.
Derived(f) ==
  LET b == got[From(f)] IN
  IF /\ b.identity = mem.gen /\ b.signed = mem.gen
     /\ b.otp # None => b.otp.gen = mem.gen /\ b.otp.id \in mem.ids
  THEN "good" ELSE "bad"

Unresolved(f) ==
  /\ frame[f] = "loading" /\ savedSess[From(f)] = "none" /\ ~Resolves(f)
  /\ frame' = [frame EXCEPT ![f] = "failed"]
  /\ UNCHANGED <<serverVars, posts, got, deviceVars, nposts, boundVars>>

\* The new ratchet replaces whatever is in memory by now; the one-time key is
\* dropped, in memory and, once savePreKeys is through, in the store.
WithoutKey(id) == [gen |-> mem.gen, ids |-> mem.ids \ {id}, next |-> mem.next]
Mut_Establish(f) ==   \* the drop is not saved
  LET p == From(f)
      k == got[p].otp
      s == Derived(f)
  IN
  /\ frame[f] = "loading" /\ savedSess[p] = "none" /\ Resolves(f)
  /\ sess' = [sess EXCEPT ![p] = s]
  /\ spent' = [spent EXCEPT ![f] = IF k = None THEN None ELSE [gen |-> mem.gen, id |-> k.id]]
  /\ \/ /\ k # None
        /\ mem' = WithoutKey(k.id) /\ saved' = saved
        /\ frame' = [frame EXCEPT ![f] = "consumed"]
        /\ savedSess' = savedSess
     \/ /\ k = None
        /\ frame' = [frame EXCEPT ![f] = Outcome(s)]
        /\ savedSess' = IF STORE THEN [savedSess EXCEPT ![p] = s] ELSE savedSess
        /\ UNCHANGED <<mem, saved>>
  /\ UNCHANGED <<serverVars, posts, got, gens, nposts, boundVars>>
Establish(f) ==
  LET p == From(f)
      k == got[p].otp
      s == Derived(f)
  IN
  /\ frame[f] = "loading" /\ savedSess[p] = "none" /\ Resolves(f)
  /\ sess' = [sess EXCEPT ![p] = s]
  /\ spent' = [spent EXCEPT ![f] = IF k = None THEN None ELSE [gen |-> mem.gen, id |-> k.id]]
  /\ \/ /\ k # None
        /\ mem' = WithoutKey(k.id) /\ Store(WithoutKey(k.id))
        /\ frame' = [frame EXCEPT ![f] = "consumed"]
        /\ savedSess' = savedSess
     \/ /\ k = None
        /\ frame' = [frame EXCEPT ![f] = Outcome(s)]
        /\ savedSess' = IF STORE THEN [savedSess EXCEPT ![p] = s] ELSE savedSess
        /\ UNCHANGED <<mem, saved>>
  /\ UNCHANGED <<serverVars, posts, got, gens, nposts, boundVars>>

\* _consumeOneTimePreKey goes on: replenish a pool that is low.
Need == OTP_POOL_SIZE - Cardinality(mem.ids)
FreshIds == mem.next .. mem.next + Need - 1
Topped == [gen |-> mem.gen, ids |-> mem.ids \union FreshIds, next |-> mem.next + Need]

Mut_Replenish(f) ==   \* publishes the whole pool, not the fresh keys
  /\ frame[f] = "consumed" /\ Cardinality(mem.ids) <= OTP_LOW_WATER
  /\ mem' = Topped /\ Store(Topped)
  /\ Post({f}, mem.gen, Topped.ids)
  /\ frame' = [frame EXCEPT ![f] = "publishing"]
  /\ UNCHANGED <<serverVars, got, gens, sess, savedSess, spent, boundVars>>
Mut_ReplenishUnsaved(f) ==   \* no savePreKeys before the publication
  /\ frame[f] = "consumed" /\ Cardinality(mem.ids) <= OTP_LOW_WATER
  /\ mem' = Topped /\ saved' = saved
  /\ Post({f}, mem.gen, FreshIds)
  /\ frame' = [frame EXCEPT ![f] = "publishing"]
  /\ UNCHANGED <<serverVars, got, gens, sess, savedSess, spent, boundVars>>
Replenish(f) ==
  /\ frame[f] = "consumed" /\ Cardinality(mem.ids) <= OTP_LOW_WATER
  /\ mem' = Topped /\ Store(Topped)
  /\ Post({f}, mem.gen, FreshIds)
  /\ frame' = [frame EXCEPT ![f] = "publishing"]
  /\ UNCHANGED <<serverVars, got, gens, sess, savedSess, spent, boundVars>>

PoolSuffices(f) ==
  /\ frame[f] = "consumed" /\ Cardinality(mem.ids) > OTP_LOW_WATER
  /\ frame' = [frame EXCEPT ![f] = "ready"]
  /\ UNCHANGED <<serverVars, posts, got, deviceVars, nposts, boundVars>>

\* The response, or the error, of the publication is there.
Mut_Published(f) ==   \* an error is not an answer
  /\ frame[f] = "publishing" /\ faults = 0 /\ ~ \E b \in posts : b.by = {f}
  /\ frame' = [frame EXCEPT ![f] = "ready"]
  /\ UNCHANGED <<serverVars, posts, got, deviceVars, nposts, boundVars>>
Published(f) ==
  /\ frame[f] = "publishing" /\ ~ \E b \in posts : b.by = {f}
  /\ frame' = [frame EXCEPT ![f] = "ready"]
  /\ UNCHANGED <<serverVars, posts, got, deviceVars, nposts, boundVars>>

\* saveRatchet, decrypt.
Finish(f) ==
  LET p == From(f) IN
  /\ frame[f] = "ready"
  /\ savedSess' = IF STORE THEN [savedSess EXCEPT ![p] = sess[p]] ELSE savedSess
  /\ frame' = [frame EXCEPT ![f] = Outcome(sess[p])]
  /\ UNCHANGED <<serverVars, posts, got, mem, saved, gens, sess, spent, nposts, boundVars>>

Handler(f) ==
  \/ RestoreSession(f) \/ Unresolved(f) \/ Establish(f) \/ Replenish(f)
  \/ PoolSuffices(f) \/ Published(f) \/ Finish(f)

Fetch(p) == ReadIdentity(p) \/ ReadSigned(p) \/ TakeOneTime(p) \/ LeaveOneTime(p)

Next ==
  \/ Start \/ Reload \/ MountPresence
  \/ \E b \in posts : Publish(b) \/ PublishFails(b)
  \/ \E p \in Peer : Fetch(p)
  \/ \E f \in Frame : SendFirst(f) \/ Arrive(f) \/ LoadFails(f) \/ Handler(f)

Spec == Init /\ [][Next]_vars

\* IndexedDB answers, and a request ends in a response or an error.
FairSpec ==
  /\ Spec
  /\ \A f \in Frame : WF_vars(Handler(f))
  /\ WF_vars(\E b \in posts : Publish(b))

-----------------------------------------------------------------------------
(* Properties.                                                              *)

TypeOK ==
  /\ identity \in Nat /\ signed \in Nat /\ pool \subseteq OneTimeKey
  /\ posts \subseteq Body /\ nposts \in Nat
  /\ got \in [Peer -> [step: {"idle", "identity", "signed", "session", "refused"},
                       identity: Nat, signed: Nat, otp: OneTimeKey \union {None}]]
  /\ mem \in Prekeys \union {None} /\ saved \in Prekeys \union {None} /\ gens \in Nat
  /\ sess \in [Peer -> Session] /\ savedSess \in [Peer -> Session]
  /\ frame \in [Frame -> FrameState] /\ spent \in [Frame -> OneTimeKey \union {None}]
  /\ reloads \in Nat /\ mounts \in Nat /\ faults \in Nat

\* A handler runs only while there is a page, and pools are finite.
HandlersRun == \A f \in Frame : InHandler(f) => mem # None
PoolsFinite == \A s \in {mem, saved} : s # None => IsFiniteSet(s.ids)
TypeInv     == TypeOK /\ HandlersRun /\ PoolsFinite

\* migrations/004_prekeys.sql: each row is handed out at most once.  No key
\* reaches two peers, and none that was handed out is on offer again, in the
\* table or on its way to it.
OnOffer  == pool \union UNION {Offer(b) : b \in posts}
HandedOutOnce ==
  \A p \in Peer : got[p].otp # None =>
    /\ got[p].otp \notin OnOffer
    /\ \A q \in Peer \ {p} : got[q].otp # got[p].otp

\* As long as the chat has the stored prekeys for itself, that claim is true.
ChatHandsOutOnce == mounts = 0 => HandedOutOnce

\* What keeps keys apart as long as no presence hook is mounted, and the
\* inductive invariant of ChatHandsOutOnce: memory and store agree, ids are allocated
\* upwards within a generation, and no publication repeats a key.
Handed == {got[p].otp : p \in Peer} \ {None}
Allocated(k) ==
  /\ k.gen <= gens
  /\ k.gen = gens /\ mem # None => k.id < mem.next
  /\ k.gen = gens /\ saved # None => k.id < saved.next
InStep == /\ mem # None => mem.gen = gens
          /\ saved # None => saved.gen = gens
          /\ IF STORE THEN mem # None => saved = mem ELSE saved = None
OffersApart ==
  /\ \A b \in posts : Offer(b) \intersect pool = {}
  /\ \A b, c \in posts : b # c => Offer(b) \intersect Offer(c) = {}
KeysApart ==
  /\ InStep
  /\ \A k \in OnOffer \union Handed : Allocated(k)
  /\ OffersApart
  /\ HandedOutOnce
ChatKeysApart == mounts = 0 => KeysApart

\* A one-time key on offer is one whose private half the stored prekeys hold,
\* so that a reload in between does not make the session impossible.
OfferedIsHeld ==
  STORE => \A k \in OnOffer : saved # None /\ k.gen = saved.gen /\ k.id \in saved.ids
ChatOffersHeld == mounts = 0 => OfferedIsHeld

\* A one-time prekey is used one time: no two sessions are derived from the
\* same private key, whatever keys the table hands out twice, handlers that
\* overlap and pages that reload between the spending of a key and the end of
\* its handler.
SpentOnce ==
  \A e, f \in Frame : spent[e] # None /\ spent[e] = spent[f] => e = f

\* What keeps it: a key is dropped for good when it is spent, in memory and in
\* the store, and ids are allocated upwards.
DroppedForGood ==
  \A f \in Frame, s \in {mem, saved} :
    spent[f] # None /\ s # None /\ spent[f].gen = s.gen =>
      spent[f].id < s.next /\ spent[f].id \notin s.ids

\* x3dh.ts: "the owner can find the matching private key" by its id: whatever
\* prekeys a frame resolves to, the two sides derive the same session.
KeysAgree == \A p \in Peer : sess[p] # "bad"

\* A handler that started comes to an end, also when its publication fails.
HandlersEnd == \A f \in Frame : InHandler(f) ~> ~InHandler(f)

\* prekeys.ts: the transaction "guarantees the rows always come from one
\* generation", so that no initiator sees a false MITM alarm.
BundlesVerify == \A p \in Peer : got[p].step # "refused"

\* EncraClient.ts, sendMessage: the prekey goes with each frame "so the
\* recipient can establish the session even if earlier frames were lost":
\* none of the first frames fails.
FirstFramesRead == \A f \in Frame : frame[f] # "failed"

\* docs/ARCHITECTURE.md: state is saved "so conversations survive page
\* reloads": a peer whose one-time key is spent has a session here, in memory
\* or stored.
SpentHasSession ==
  \A p \in Peer :
    mem # None /\ got[p].otp # None /\ got[p].otp.gen = mem.gen
    /\ got[p].otp.id \notin mem.ids
      => sess[p] # "none" \/ savedSess[p] # "none"
=============================================================================
