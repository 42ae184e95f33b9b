--------------------------- MODULE PreKeysProofs ---------------------------
(***************************************************************************)
(* Proofs about the prekeys of a device, for any number of peers, frames   *)
(* and reloads and any size of the pool: the type invariant; that without  *)
(* a presence hook no one-time key is handed to two peers, and none on     *)
(* offer has lost its private half; and that, with or without one, no two  *)
(* sessions are derived from one private key.                              *)
(***************************************************************************)
EXTENDS PreKeys, FiniteSetTheorems, TLAPS

\* A publication adds one well-formed request.
LEMMA PostType ==
  ASSUME posts \subseteq Body, nposts \in Nat,
         NEW by \in SUBSET Frame, NEW g \in Nat, NEW ids \in SUBSET Nat, Post(by, g, ids)
  PROVE  posts' \subseteq Body /\ nposts' \in Nat
<1>1. [n |-> nposts, by |-> by, gen |-> g, ids |-> ids] \in Body
  BY DEF Body
<1> QED BY <1>1 DEF Post

\* Topping up (EncraClient.ts 892-909) allocates ids from next upwards and
\* leaves a finite pool.
LEMMA ToppedType ==
  ASSUME mem \in Prekeys, IsFiniteSet(mem.ids), Cardinality(mem.ids) <= OTP_LOW_WATER
  PROVE  /\ FreshIds \subseteq Nat
         /\ \A i \in FreshIds : mem.next <= i /\ i < Topped.next
         /\ Topped \in Prekeys /\ IsFiniteSet(Topped.ids)
         /\ Topped.gen = mem.gen /\ Topped.next >= mem.next
<1>1. Cardinality(mem.ids) \in Nat
  BY FS_CardinalityType
<1>2. Need \in Nat
  BY <1>1, PoolAssumption DEF Need
<1>3. mem.next \in Nat /\ mem.ids \subseteq Nat /\ mem.gen \in Nat
  BY DEF Prekeys
<1>4. FreshIds \subseteq Nat /\ IsFiniteSet(FreshIds)
  <2>1. mem.next \in Int /\ mem.next + Need - 1 \in Int
    BY <1>2, <1>3
  <2>2. IsFiniteSet(mem.next .. mem.next + Need - 1)
    BY <2>1, FS_Interval
  <2> QED BY <1>2, <1>3, <2>2 DEF FreshIds
<1>5. /\ Topped.ids = mem.ids \union FreshIds /\ Topped.next = mem.next + Need
      /\ Topped.gen = mem.gen /\ Topped \in Prekeys
  <2> DEFINE ids == mem.ids \union FreshIds
             next == mem.next + Need
  <2>1. ids \in SUBSET Nat
    BY <1>3, <1>4, Zenon
  <2>a. next \in Nat
    BY <1>2, <1>3
  <2>2. Topped = [gen |-> mem.gen, ids |-> ids, next |-> next]
    BY DEF Topped
  <2> HIDE DEF ids, next
  <2>3. Topped.ids = ids /\ Topped.next = next /\ Topped.gen = mem.gen /\ Topped \in Prekeys
    BY <1>3, <2>1, <2>a, <2>2 DEF Prekeys
  <2> QED BY <2>3 DEF ids, next
<1>6. IsFiniteSet(Topped.ids)
  <2>1. IsFiniteSet(mem.ids \union FreshIds)
    BY <1>4, FS_Union
  <2> QED BY <1>5, <2>1
<1>7. \A i \in FreshIds : mem.next <= i /\ i < mem.next + Need
  BY <1>2, <1>3 DEF FreshIds
<1> QED BY <1>2, <1>3, <1>4, <1>5, <1>6, <1>7

\* Dropping a spent key keeps the pool well-formed.
LEMMA WithoutType ==
  ASSUME mem \in Prekeys, IsFiniteSet(mem.ids), NEW id
  PROVE  /\ WithoutKey(id) \in Prekeys /\ IsFiniteSet(WithoutKey(id).ids)
         /\ WithoutKey(id).gen = mem.gen /\ WithoutKey(id).next = mem.next
<1>1. WithoutKey(id).ids = mem.ids \ {id} /\ WithoutKey(id) \in Prekeys
      /\ WithoutKey(id).gen = mem.gen /\ WithoutKey(id).next = mem.next
  BY DEF WithoutKey, Prekeys
<1> QED BY <1>1, FS_RemoveElement

\* Fresh prekeys are well-formed.
LEMMA FreshType ==
  ASSUME gens \in Nat
  PROVE  Fresh \in Prekeys /\ IsFiniteSet(Fresh.ids) /\ Fresh.ids \subseteq Nat
         /\ Fresh.gen = gens + 1
         /\ \A i \in Fresh.ids : i < Fresh.next
<1>1. 1 .. OTP_POOL_SIZE \subseteq Nat /\ IsFiniteSet(1 .. OTP_POOL_SIZE)
  BY PoolAssumption, FS_Interval
<1> QED BY <1>1, PoolAssumption DEF Fresh, Prekeys

\* The key server's steps and the device's start keep the types.
LEMMA ServerAndStartType ==
  ASSUME TypeInv,
         \/ \E b \in posts : Publish(b) \/ PublishFails(b)
         \/ \E p \in Peer : Fetch(p)
         \/ Start \/ Reload \/ MountPresence
  PROVE  TypeInv'
<1> USE DEF TypeInv, TypeOK, vars, serverVars, deviceVars, boundVars
<1>1. ASSUME NEW b \in posts, Publish(b) PROVE TypeInv'
  <2>1. b.gen \in Nat /\ Offer(b) \subseteq OneTimeKey
    BY DEF Body, Offer, OneTimeKey
  <2>2. pool' \subseteq OneTimeKey
    BY <1>1, <2>1 DEF Publish
  <2>3. UNCHANGED <<got, deviceVars, frame, nposts, boundVars>> /\ posts' \subseteq Body
    BY <1>1 DEF Publish
  <2>4. identity' \in Nat /\ signed' \in Nat
    BY <1>1, <2>1 DEF Publish
  <2> QED BY <2>2, <2>3, <2>4 DEF HandlersRun, InHandler, PoolsFinite
<1>2. ASSUME NEW b \in posts, PublishFails(b) PROVE TypeInv'
  BY <1>2 DEF PublishFails, HandlersRun, InHandler, PoolsFinite
<1>3. ASSUME NEW p \in Peer, Fetch(p) PROVE TypeInv'
  <2>1. CASE ReadIdentity(p)
    <3>1. got' \in [Peer -> [step: {"idle", "identity", "signed", "session", "refused"},
                             identity: Nat, signed: Nat, otp: OneTimeKey \union {None}]]
      <4> DEFINE asked == [got[p] EXCEPT !.step = "identity", !.identity = identity]
      <4>1. asked \in [step: {"idle", "identity", "signed", "session", "refused"},
                       identity: Nat, signed: Nat, otp: OneTimeKey \union {None}]
        BY <1>3
      <4>2. got' = [got EXCEPT ![p] = asked]
        BY <1>3, <2>1 DEF ReadIdentity
      <4> HIDE DEF asked
      <4>3. QED
        BY <1>3, <4>1, <4>2
    <3>2. UNCHANGED <<serverVars, posts, deviceVars, frame, nposts, boundVars>>
      BY <2>1 DEF ReadIdentity
    <3>3. QED
      BY <3>1, <3>2 DEF HandlersRun, InHandler, PoolsFinite
  <2>2. CASE ReadSigned(p)
    BY <1>3, <2>2 DEF ReadSigned, NoBundle, HandlersRun, InHandler, PoolsFinite
  <2>3. CASE TakeOneTime(p)
    BY <1>3, <2>3 DEF TakeOneTime, Bundle, Verified, HandlersRun, InHandler, PoolsFinite
  <2>4. CASE LeaveOneTime(p)
    BY <1>3, <2>4 DEF LeaveOneTime, NoBundle, HandlersRun, InHandler, PoolsFinite
  <2> QED BY <1>3, <2>1, <2>2, <2>3, <2>4 DEF Fetch
<1>4. CASE Start
  <2>1. CASE saved # None
    <3>1. mem' = saved /\ saved' = saved /\ gens' = gens /\ Post({}, saved.gen, {})
      BY <1>4, <2>1 DEF Start
    <3>2. saved \in Prekeys /\ saved.gen \in Nat
      BY <2>1 DEF Prekeys
    <3>3. posts' \subseteq Body /\ nposts' \in Nat
      <4>1. {} \in SUBSET Frame /\ {} \in SUBSET Nat
        OBVIOUS
      <4> QED BY <3>1, <3>2, <4>1, PostType
    <3> QED BY <1>4, <2>1, <3>1, <3>2, <3>3 DEF Start, HandlersRun, InHandler, PoolsFinite
  <2>2. CASE saved = None
    <3>1. mem' = Fresh /\ Store(Fresh) /\ gens' = gens + 1 /\ Post({}, Fresh.gen, Fresh.ids)
      BY <1>4, <2>2 DEF Start
    <3>2. Fresh \in Prekeys /\ IsFiniteSet(Fresh.ids) /\ Fresh.ids \subseteq Nat /\ Fresh.gen \in Nat
      BY FreshType
    <3>3. posts' \subseteq Body /\ nposts' \in Nat
      <4>1. {} \in SUBSET Frame
        OBVIOUS
      <4> QED BY <3>1, <3>2, <4>1, PostType
    <3>4. saved' \in {Fresh, None}
      BY <2>2, <3>1 DEF Store
    <3>5. Fresh # None
      BY <3>2, NoneAssumption
    <3> QED BY <1>4, <3>1, <3>2, <3>3, <3>4, <3>5
            DEF Start, HandlersRun, InHandler, PoolsFinite
  <2> QED BY <2>1, <2>2
<1>5. CASE Reload
  <2>1. frame' \in [Frame -> FrameState] /\ \A f \in Frame : ~InHandler(f)'
    BY <1>5 DEF Reload, InHandler, FrameState
  <2> QED BY <1>5, <2>1 DEF Reload, HandlersRun, PoolsFinite, Session
<1>6. CASE MountPresence
  <2>1. saved \in Prekeys /\ saved.gen \in Nat /\ saved.ids \subseteq Nat
    BY <1>6 DEF MountPresence, Prekeys
  <2>2. posts' \subseteq Body /\ nposts' \in Nat
    BY <1>6, <2>1, PostType DEF MountPresence
  <2> QED BY <1>6, <2>2 DEF MountPresence, HandlersRun, InHandler, PoolsFinite
<1> QED BY <1>1, <1>2, <1>3, <1>4, <1>5, <1>6

\* The outcome of decrypt is a state of a frame, and none of a handler's.
LEMMA OutcomeType == ASSUME NEW s PROVE Outcome(s) \in {"read", "failed"}
BY DEF Outcome

\* The handler of a frame keeps the types.
LEMMA FrameType ==
  ASSUME TypeInv, NEW f \in Frame, SendFirst(f) \/ Arrive(f) \/ LoadFails(f) \/ Handler(f)
  PROVE  TypeInv'
<1> USE DEF TypeInv, TypeOK, vars, serverVars, deviceVars, boundVars
<1>a. From(f) \in Peer
  BY DEF Frame, From
<1>1. CASE SendFirst(f)
  BY <1>1 DEF SendFirst, HandlersRun, InHandler, PoolsFinite, FrameState
<1>2. CASE Arrive(f)
  <2>1. frame' \in [Frame -> FrameState] /\ savedSess' \in [Peer -> Session]
    BY <1>2, <1>a, OutcomeType DEF Arrive, FrameState, Session
  <2> QED BY <1>2, <2>1 DEF Arrive, HandlersRun, InHandler, PoolsFinite
<1>3. CASE RestoreSession(f)
  <2>1. frame' \in [Frame -> FrameState] /\ sess' \in [Peer -> Session]
    BY <1>3, <1>a, OutcomeType DEF RestoreSession, FrameState, Session
  <2>2. mem # None
    BY <1>3 DEF RestoreSession, HandlersRun, InHandler
  <2> QED BY <1>3, <2>1, <2>2 DEF RestoreSession, HandlersRun, PoolsFinite
<1>4. CASE Unresolved(f) \/ LoadFails(f)
  BY <1>4 DEF Unresolved, LoadFails, HandlersRun, InHandler, PoolsFinite, FrameState
<1>5. CASE Establish(f)
  <2> DEFINE p == From(f)
             k == got[p].otp
  <2>1. mem # None /\ mem \in Prekeys /\ IsFiniteSet(mem.ids)
    BY <1>5 DEF Establish, HandlersRun, InHandler, PoolsFinite
  <2>2. sess' \in [Peer -> Session] /\ Derived(f) \in Session
        /\ spent' \in [Frame -> OneTimeKey \union {None}]
    <3>1. sess' \in [Peer -> Session] /\ Derived(f) \in Session
      BY <1>5, <1>a DEF Establish, Derived, Session
    <3>2. k # None => [gen |-> mem.gen, id |-> k.id] \in OneTimeKey
      BY <1>a, <2>1 DEF Prekeys, OneTimeKey
    <3>3. spent' = [spent EXCEPT ![f] = IF k = None THEN None ELSE [gen |-> mem.gen, id |-> k.id]]
      BY <1>5 DEF Establish
    <3> QED BY <3>1, <3>2, <3>3
  <2>3. CASE k # None
    <3>1. mem' = WithoutKey(k.id) /\ Store(WithoutKey(k.id))
          /\ frame' = [frame EXCEPT ![f] = "consumed"] /\ savedSess' = savedSess
      BY <1>5, <2>3 DEF Establish
    <3>2. WithoutKey(k.id) \in Prekeys /\ IsFiniteSet(WithoutKey(k.id).ids)
      BY <2>1, WithoutType
    <3>3. mem' # None
      BY <3>1, <3>2, NoneAssumption
    <3>4. saved' \in Prekeys \union {None} /\ (saved' # None => IsFiniteSet(saved'.ids))
      BY <3>1, <3>2 DEF Store, PoolsFinite
    <3> QED BY <1>5, <2>2, <3>1, <3>2, <3>3, <3>4
            DEF Establish, HandlersRun, PoolsFinite, FrameState
  <2>4. CASE k = None
    <3>1. mem' = mem /\ saved' = saved
          /\ frame' = [frame EXCEPT ![f] = Outcome(Derived(f))]
          /\ savedSess' \in [Peer -> Session]
      BY <1>5, <1>a, <2>2, <2>4 DEF Establish
    <3>2. frame' \in [Frame -> FrameState]
      BY <3>1, OutcomeType DEF FrameState
    <3> QED BY <1>5, <2>1, <2>2, <3>1, <3>2 DEF Establish, HandlersRun, PoolsFinite
  <2> QED BY <2>3, <2>4
<1>6. CASE Replenish(f)
  <2>1. mem # None /\ mem \in Prekeys /\ IsFiniteSet(mem.ids) /\ mem.gen \in Nat
        /\ Cardinality(mem.ids) <= OTP_LOW_WATER
    BY <1>6 DEF Replenish, HandlersRun, InHandler, PoolsFinite, Prekeys
  <2>2. Topped \in Prekeys /\ IsFiniteSet(Topped.ids) /\ FreshIds \subseteq Nat
    BY <2>1, ToppedType
  <2>3. posts' \subseteq Body /\ nposts' \in Nat
    <3>1. Post({f}, mem.gen, FreshIds) /\ {f} \in SUBSET Frame
      BY <1>6 DEF Replenish
    <3> QED BY <2>1, <2>2, <3>1, PostType
  <2>4. mem' = Topped /\ saved' \in {Topped, saved} /\ mem' # None
    BY <1>6, <2>2, NoneAssumption DEF Replenish, Store
  <2> QED BY <1>6, <2>2, <2>3, <2>4 DEF Replenish, HandlersRun, PoolsFinite, FrameState
<1>7. CASE PoolSuffices(f) \/ Published(f)
  <2>1. mem # None
    BY <1>7 DEF PoolSuffices, Published, HandlersRun, InHandler
  <2> QED BY <1>7, <2>1 DEF PoolSuffices, Published, HandlersRun, PoolsFinite, FrameState
<1>8. CASE Finish(f)
  <2>1. frame' \in [Frame -> FrameState] /\ savedSess' \in [Peer -> Session] /\ mem # None
    BY <1>8, <1>a, OutcomeType DEF Finish, FrameState, HandlersRun, InHandler
  <2> QED BY <1>8, <2>1 DEF Finish, HandlersRun, PoolsFinite
<1> QED BY <1>1, <1>2, <1>3, <1>4, <1>5, <1>6, <1>7, <1>8 DEF Handler

\* Type correctness, with the two facts it needs: a handler runs on a page
\* that has prekeys, and the pools are finite.
THEOREM PreKeyTypes == Spec => []TypeInv
<1>1. Init => TypeInv
  BY DEF Init, TypeInv, TypeOK, HandlersRun, InHandler, PoolsFinite, NoBundle, FrameState,
         Session
<1>2. TypeInv /\ [Next]_vars => TypeInv'
  <2> SUFFICES ASSUME TypeInv, [Next]_vars PROVE TypeInv'
    OBVIOUS
  <2>1. CASE Next
    BY <2>1, ServerAndStartType, FrameType DEF Next
  <2>2. CASE UNCHANGED vars
    BY <2>2 DEF TypeInv, TypeOK, HandlersRun, InHandler, PoolsFinite, vars, serverVars,
                deviceVars, boundVars
  <2> QED BY <2>1, <2>2
<1> QED BY <1>1, <1>2, PTL DEF Spec

-----------------------------------------------------------------------------
(* One-time keys are handed out once, when no presence hook is mounted.     *)

\* What is on offer, and what was handed out, key by key.
LEMMA Elements ==
  /\ \A k : k \in OnOffer <=> k \in pool \/ \E b \in posts : k \in Offer(b)
  /\ \A k : k \in Handed <=> k # None /\ \E p \in Peer : k = got[p].otp
BY DEF OnOffer, Handed

\* The same after a step; Offer is a function of the request alone.
LEMMA ElementsNext ==
  /\ \A k : k \in OnOffer' <=> k \in pool' \/ \E b \in posts' : k \in Offer(b)
  /\ \A k : k \in Handed' <=> k # None /\ \E p \in Peer : k = got'[p].otp
BY DEF OnOffer, Handed, Offer

\* A step of the key server brings no key into being: requests only go away,
\* a row comes from a request, a peer's key from a row.
LEMMA ServerKeepsKeysApart ==
  ASSUME TypeInv, KeysApart,
         \/ \E b \in posts : Publish(b) \/ PublishFails(b)
         \/ \E p \in Peer : Fetch(p)
  PROVE  KeysApart'
<1> USE DEF deviceVars, serverVars, boundVars
<1>1. ASSUME NEW b \in posts, Publish(b) \/ PublishFails(b) PROVE KeysApart'
  <2>1. posts' = posts \ {b} /\ UNCHANGED <<mem, saved, gens, got>>
    BY <1>1 DEF Publish, PublishFails
  <2>2. \A k \in pool' : k \in pool \/ k \in Offer(b)
    BY <1>1 DEF Publish, PublishFails
  <2>3. \A k \in OnOffer' : k \in OnOffer
    BY <2>1, <2>2, Elements, ElementsNext
  <2>4. InStep' /\ Handed' = Handed /\ \A k : Allocated(k)' <=> Allocated(k)
    BY <2>1 DEF KeysApart, InStep, Handed, Allocated
  <2>5. OffersApart'
    BY <2>1, <2>2 DEF KeysApart, OffersApart, Offer
  <2>6. HandedOutOnce'
    BY <2>1, <2>3 DEF KeysApart, HandedOutOnce
  <2> QED BY <2>3, <2>4, <2>5, <2>6 DEF KeysApart
<1>2. ASSUME NEW p \in Peer, ReadIdentity(p) \/ ReadSigned(p) \/ LeaveOneTime(p)
      PROVE  KeysApart'
  <2>1. UNCHANGED <<mem, saved, gens, pool, posts>>
    BY <1>2 DEF ReadIdentity, ReadSigned, LeaveOneTime
  <2>2. \A q \in Peer : got'[q].otp \in {got[q].otp, None}
    BY <1>2 DEF ReadIdentity, ReadSigned, LeaveOneTime, NoBundle, TypeInv, TypeOK
  <2>3. OnOffer' = OnOffer /\ \A k \in Handed' : k \in Handed
    <3>1. OnOffer' = OnOffer
      BY <2>1 DEF OnOffer, Offer
    <3>2. ASSUME NEW k \in Handed' PROVE k \in Handed
      BY <2>2, <3>2, Elements, ElementsNext
    <3> QED BY <3>1, <3>2
  <2>4. InStep' /\ OffersApart' /\ \A k : Allocated(k)' <=> Allocated(k)
    BY <2>1 DEF KeysApart, InStep, Allocated, OffersApart, Offer
  <2>5. HandedOutOnce'
    BY <2>2, <2>3 DEF KeysApart, HandedOutOnce
  <2> QED BY <2>3, <2>4, <2>5 DEF KeysApart
<1>3. ASSUME NEW p \in Peer, TakeOneTime(p) PROVE KeysApart'
  <2>1. UNCHANGED <<mem, saved, gens, posts>>
    BY <1>3 DEF TakeOneTime
  <2>2. PICK k : /\ got'[p].otp = k /\ \A q \in Peer \ {p} : got'[q] = got[q]
                 /\ pool' = pool \ {k} /\ (k \in pool \/ k = None)
    <3>1. CASE \E k \in pool : got' = Bundle(p, k) /\ pool' = pool \ {k}
      BY <3>1 DEF Bundle, TypeInv, TypeOK
    <3>2. CASE pool = {} /\ got' = Bundle(p, None) /\ pool' = pool
      BY <3>2 DEF Bundle, TypeInv, TypeOK
    <3> QED BY <1>3, <3>1, <3>2 DEF TakeOneTime
  <2>3. \A j \in OnOffer' : j \in OnOffer
    BY <2>1, <2>2, Elements, ElementsNext
  <2>4. \A j \in Handed' : j \in Handed \/ j \in OnOffer
    BY <2>2, Elements, ElementsNext
  <2>5. InStep' /\ OffersApart' /\ \A j : Allocated(j)' <=> Allocated(j)
    BY <2>1, <2>2 DEF KeysApart, InStep, Allocated, OffersApart, Offer
  <2>6. k # None => k \in OnOffer /\ k \notin OnOffer'
    BY <2>1, <2>2, Elements, ElementsNext DEF KeysApart, OffersApart
  <2>7. HandedOutOnce'
    BY <2>2, <2>3, <2>6 DEF KeysApart, HandedOutOnce
  <2> QED BY <2>3, <2>4, <2>5, <2>7 DEF KeysApart
<1> QED BY <1>1, <1>2, <1>3 DEF Fetch

\* A publication of keys that were never on offer nor handed out, or of none.
LEMMA PostKeepsApart ==
  ASSUME KeysApart, NEW by, NEW g, NEW ids, Post(by, g, ids), UNCHANGED <<pool, got>>,
         \A i \in ids : [gen |-> g, id |-> i] \notin OnOffer \union Handed
  PROVE  /\ OffersApart' /\ HandedOutOnce' /\ Handed' = Handed
         /\ \A k \in OnOffer' : k \in OnOffer \/ \E i \in ids : k = [gen |-> g, id |-> i]
<1> DEFINE new == [n |-> nposts, by |-> by, gen |-> g, ids |-> ids]
<1>1. posts' = posts \union {new} /\ \A k : k \in Offer(new) <=> \E i \in ids : k = [gen |-> g, id |-> i]
  BY DEF Post, Offer
<1> HIDE DEF new
<1>2. \A k \in OnOffer' : k \in OnOffer \/ k \in Offer(new)
  BY <1>1, Elements, ElementsNext
<1>3. \A k \in Offer(new) : k \notin OnOffer /\ k \notin Handed
  BY <1>1
<1>4. Handed' = Handed
  BY DEF Handed
<1>5. OffersApart'
  <2>1. \A b \in posts' : Offer(b) \intersect pool' = {}
    BY <1>1, <1>3, Elements DEF KeysApart, OffersApart
  <2>2. \A b, c \in posts' : b # c => Offer(b) \intersect Offer(c) = {}
    BY <1>1, <1>3, Elements DEF KeysApart, OffersApart
  <2> QED BY <2>1, <2>2 DEF OffersApart, Offer
<1>6. HandedOutOnce'
  BY <1>2, <1>3, Elements DEF KeysApart, HandedOutOnce
<1> QED BY <1>1, <1>2, <1>4, <1>5, <1>6

\* The device's steps: ids are allocated upwards within a generation, and a
\* new generation is one that no key has.
LEMMA DeviceKeepsKeysApart ==
  ASSUME TypeInv, KeysApart,
         \/ Start \/ Reload
         \/ \E f \in Frame : SendFirst(f) \/ Arrive(f) \/ LoadFails(f) \/ Handler(f)
  PROVE  KeysApart'
<1> USE DEF deviceVars, serverVars, boundVars
<1>1. CASE Start
  <2>1. UNCHANGED <<pool, got>> /\ mem = None /\ gens \in Nat
    BY <1>1 DEF Start, TypeInv, TypeOK
  <2>2. CASE saved # None
    <3>1. mem' = saved /\ saved' = saved /\ gens' = gens /\ Post({}, saved.gen, {})
      BY <1>1, <2>2 DEF Start
    <3>2. /\ OffersApart' /\ HandedOutOnce' /\ Handed' = Handed
          /\ \A k \in OnOffer' : k \in OnOffer
      BY <2>1, <3>1, PostKeepsApart
    <3>3. InStep' /\ \A k : Allocated(k) => Allocated(k)'
      BY <2>2, <3>1 DEF KeysApart, InStep, Allocated
    <3> QED BY <3>2, <3>3 DEF KeysApart
  <2>3. CASE saved = None
    <3>1. mem' = Fresh /\ Store(Fresh) /\ gens' = gens + 1 /\ Post({}, Fresh.gen, Fresh.ids)
      BY <1>1, <2>3 DEF Start
    <3>2. Fresh.gen = gens + 1 /\ Fresh # None /\ \A i \in Fresh.ids : i < Fresh.next
      BY <2>1, FreshType, NoneAssumption
    <3>3. \A k \in OnOffer \union Handed : k.gen <= gens
      BY DEF KeysApart, Allocated
    <3>4. \A i \in Fresh.ids : [gen |-> Fresh.gen, id |-> i] \notin OnOffer \union Handed
      BY <2>1, <3>2, <3>3
    <3>5. /\ OffersApart' /\ HandedOutOnce' /\ Handed' = Handed
          /\ \A k \in OnOffer' : k \in OnOffer \/ \E i \in Fresh.ids : k = [gen |-> Fresh.gen, id |-> i]
      BY <2>1, <3>1, <3>4, PostKeepsApart
    <3>6. saved' = IF STORE THEN Fresh ELSE None
      BY <2>3, <3>1 DEF Store
    <3>7. InStep'
      BY <3>1, <3>2, <3>6 DEF InStep
    <3>8. \A k \in OnOffer' \union Handed' : Allocated(k)'
      <4>1. \A k \in OnOffer \union Handed : Allocated(k)'
        <5>1. \A k \in OnOffer \union Handed : k.gen \in Int
          BY Elements DEF TypeInv, TypeOK, OneTimeKey, Offer, Body
        <5> QED BY <2>1, <3>1, <3>3, <5>1 DEF Allocated
      <4>2. ASSUME NEW k, NEW i \in Fresh.ids, k = [gen |-> Fresh.gen, id |-> i]
            PROVE  Allocated(k)'
        <5>1. k.gen = gens' /\ k.id < Fresh.next /\ gens' \in Int
          BY <2>1, <3>1, <3>2, <4>2
        <5> QED BY <3>1, <3>6, <5>1 DEF Allocated
      <4> QED BY <3>5, <4>1, <4>2
    <3> QED BY <3>5, <3>7, <3>8 DEF KeysApart
  <2> QED BY <2>2, <2>3
<1>2. CASE Reload
  <2>1. mem' = None /\ UNCHANGED <<saved, gens, pool, posts, got>>
    BY <1>2 DEF Reload
  <2>2. OnOffer' = OnOffer /\ Handed' = Handed
    BY <2>1 DEF OnOffer, Handed, Offer
  <2>3. InStep' /\ OffersApart' /\ HandedOutOnce' /\ \A k : Allocated(k) => Allocated(k)'
    BY <2>1, <2>2 DEF KeysApart, InStep, Allocated, OffersApart, HandedOutOnce, Offer
  <2> QED BY <2>2, <2>3 DEF KeysApart
<1>3. ASSUME NEW f \in Frame, Establish(f) PROVE KeysApart'
  <2>1. mem # None /\ mem \in Prekeys /\ IsFiniteSet(mem.ids)
    BY <1>3 DEF Establish, TypeInv, TypeOK, HandlersRun, InHandler, PoolsFinite
  <2>2. UNCHANGED <<gens, pool, posts, got>>
    BY <1>3 DEF Establish
  <2>3. \/ mem' = mem /\ saved' = saved
        \/ /\ mem' # None /\ mem'.gen = mem.gen /\ mem'.next = mem.next
           /\ saved' = IF STORE THEN mem' ELSE saved
    <3>1. \A id : /\ WithoutKey(id) # None /\ WithoutKey(id).gen = mem.gen
                  /\ WithoutKey(id).next = mem.next
      BY <2>1, WithoutType, NoneAssumption
    <3> QED BY <1>3, <3>1 DEF Establish, Store
  <2>4. OnOffer' = OnOffer /\ Handed' = Handed
    BY <2>2 DEF OnOffer, Handed, Offer
  <2>5. InStep' /\ \A k : Allocated(k) => Allocated(k)'
    BY <2>1, <2>2, <2>3 DEF KeysApart, InStep, Allocated
  <2>6. OffersApart' /\ HandedOutOnce'
    BY <2>2, <2>4 DEF KeysApart, OffersApart, HandedOutOnce, Offer
  <2> QED BY <2>4, <2>5, <2>6 DEF KeysApart
<1>4. ASSUME NEW f \in Frame, Replenish(f) PROVE KeysApart'
  <2>1. mem # None /\ mem \in Prekeys /\ IsFiniteSet(mem.ids)
        /\ Cardinality(mem.ids) <= OTP_LOW_WATER /\ mem.gen = gens /\ mem.next \in Nat
    BY <1>4 DEF Replenish, TypeInv, TypeOK, HandlersRun, InHandler, PoolsFinite, KeysApart,
                InStep, Prekeys
  <2>2. mem' = Topped /\ Store(Topped) /\ Post({f}, mem.gen, FreshIds)
        /\ UNCHANGED <<gens, pool, got>>
    BY <1>4 DEF Replenish
  <2>3. /\ \A i \in FreshIds : i \in Nat /\ mem.next <= i /\ i < Topped.next
        /\ Topped # None /\ Topped.gen = gens /\ Topped.next >= mem.next /\ Topped.next \in Nat
    BY <2>1, ToppedType, NoneAssumption DEF Prekeys
  <2>4. \A i \in FreshIds : [gen |-> mem.gen, id |-> i] \notin OnOffer \union Handed
    BY <2>1, <2>3 DEF KeysApart, Allocated
  <2>5. /\ OffersApart' /\ HandedOutOnce' /\ Handed' = Handed
        /\ \A k \in OnOffer' : k \in OnOffer \/ \E i \in FreshIds : k = [gen |-> mem.gen, id |-> i]
    BY <2>2, <2>4, PostKeepsApart
  <2>6. saved' = IF STORE THEN Topped ELSE None
    BY <2>2 DEF Store, KeysApart, InStep
  <2>7. InStep'
    BY <2>2, <2>3, <2>6 DEF InStep
  <2>8. \A k \in OnOffer' \union Handed' : Allocated(k)'
    <3>1. \A k \in OnOffer \union Handed : Allocated(k) /\ (k.gen = gens => k.id \in Nat)
      BY Elements DEF KeysApart, TypeInv, TypeOK, OneTimeKey, Offer, Body
    <3>2. \A k \in OnOffer \union Handed : Allocated(k)'
      BY <2>1, <2>2, <2>3, <2>6, <3>1 DEF Allocated
    <3>3. ASSUME NEW k, NEW i \in FreshIds, k = [gen |-> mem.gen, id |-> i]
          PROVE  Allocated(k)'
      <4>1. gens \in Nat
        BY DEF TypeInv, TypeOK
      <4>2. k.gen = gens' /\ k.id < Topped.next
        BY <2>1, <2>2, <2>3, <3>3
      <4> QED BY <2>2, <2>6, <4>1, <4>2 DEF Allocated
    <3> QED BY <2>5, <3>2, <3>3
  <2> QED BY <2>5, <2>7, <2>8 DEF KeysApart
<1>5. ASSUME UNCHANGED <<mem, saved, gens, pool, posts, got>> PROVE KeysApart'
  <2>1. OnOffer' = OnOffer /\ Handed' = Handed
    BY <1>5 DEF OnOffer, Handed, Offer
  <2> QED BY <1>5, <2>1 DEF KeysApart, InStep, Allocated, OffersApart, HandedOutOnce, Offer
<1>6. ASSUME NEW f \in Frame, SendFirst(f) \/ Arrive(f) \/ LoadFails(f) \/ Handler(f) PROVE KeysApart'
  <2>1. \/ Establish(f) \/ Replenish(f)
        \/ UNCHANGED <<mem, saved, gens, pool, posts, got>>
    BY <1>6 DEF SendFirst, Arrive, LoadFails, Handler, RestoreSession, Unresolved, PoolSuffices,
                Published, Finish
  <2> QED BY <1>3, <1>4, <1>5, <2>1
<1> QED BY <1>1, <1>2, <1>6

\* Only a mount of the presence hook counts as one, and none is forgotten.
LEMMA MountsCount ==
  ASSUME TypeInv, [Next]_vars
  PROVE  /\ mounts' = mounts \/ mounts' = mounts + 1
         /\ MountPresence => mounts' = mounts + 1
<1>1. CASE Start \/ Reload \/ MountPresence
  BY <1>1 DEF Start, Reload, MountPresence, boundVars
<1>2. ASSUME NEW b \in posts, Publish(b) \/ PublishFails(b)
      PROVE  mounts' = mounts
  BY <1>2 DEF Publish, PublishFails, boundVars
<1>3. ASSUME NEW p \in Peer, Fetch(p)
      PROVE  mounts' = mounts
  BY <1>3 DEF Fetch, ReadIdentity, ReadSigned, TakeOneTime, LeaveOneTime, boundVars
<1>4. ASSUME NEW f \in Frame, SendFirst(f) \/ Arrive(f) \/ LoadFails(f) \/ Handler(f)
      PROVE  mounts' = mounts
  BY <1>4 DEF SendFirst, Arrive, LoadFails, Handler, RestoreSession, Unresolved, Establish, Replenish,
              PoolSuffices, Published, Finish, boundVars
<1>5. MountPresence => mounts' = mounts + 1
  BY DEF MountPresence
<1>6. CASE UNCHANGED vars
  BY <1>5, <1>6 DEF vars, boundVars
<1>7. CASE Next
  <2>1. CASE \E b \in posts : Publish(b) \/ PublishFails(b)
    BY <1>2, <1>5, <2>1
  <2>2. CASE \E p \in Peer : Fetch(p)
    BY <1>3, <1>5, <2>2
  <2>3. CASE \E f \in Frame : SendFirst(f) \/ Arrive(f) \/ LoadFails(f) \/ Handler(f)
    BY <1>4, <1>5, <2>3
  <2> QED BY <1>1, <1>5, <1>7, <2>1, <2>2, <2>3 DEF Next
<1> QED BY <1>6, <1>7

\* The invariant behind it: keys are allocated upwards, offered once, and never
\* offered again.
LEMMA KeysStayApart == Spec => []ChatKeysApart
<1> DEFINE IInv == TypeInv /\ ChatKeysApart
<1>1. Init => ChatKeysApart
  BY DEF Init, ChatKeysApart, KeysApart, InStep, OffersApart, HandedOutOnce, OnOffer,
         Handed, NoBundle
<1>2. IInv /\ [Next]_vars => ChatKeysApart'
  <2> SUFFICES ASSUME IInv, [Next]_vars, mounts' = 0 PROVE KeysApart'
    BY DEF ChatKeysApart
  <2>1. mounts = 0 /\ ~MountPresence
    BY MountsCount DEF TypeInv, TypeOK
  <2>2. KeysApart
    BY <2>1 DEF ChatKeysApart
  <2>3. CASE Next
    BY <2>1, <2>2, <2>3, ServerKeepsKeysApart, DeviceKeepsKeysApart DEF Next
  <2>4. CASE UNCHANGED vars
    <3>1. OnOffer' = OnOffer /\ Handed' = Handed
      BY <2>4 DEF OnOffer, Handed, Offer, vars, serverVars, deviceVars
    <3> QED BY <2>2, <2>4, <3>1 DEF KeysApart, InStep, Allocated, OffersApart, HandedOutOnce,
                                    Offer, vars, serverVars, deviceVars
  <2> QED BY <2>3, <2>4
<1> QED BY <1>1, <1>2, PreKeyTypes, PTL DEF Spec

\* As long as no presence hook was mounted, no one-time key reaches two peers,
\* and none that was handed out is offered again (prekeys.ts, _replenish).
THEOREM OneTimeKeysOnce == Spec => []ChatHandsOutOnce
<1>1. ChatKeysApart => ChatHandsOutOnce
  BY DEF ChatKeysApart, KeysApart, ChatHandsOutOnce
<1> QED BY <1>1, KeysStayApart, PTL

-----------------------------------------------------------------------------
(* A one-time key is spent once, whatever is handed out.                    *)

\* The invariant: ids lie below the counter, memory and store agree, and what
\* was spent is gone from both.
IdsBelow == \A s \in {mem, saved} : s # None => \A i \in s.ids : i < s.next
SpentOld == \A f \in Frame : spent[f] # None => spent[f].gen <= gens
Spends   == InStep /\ IdsBelow /\ SpentOld /\ DroppedForGood /\ SpentOnce

\* A page that starts restores the prekeys as stored, or makes new ones, of a
\* generation in which nothing was spent.
LEMMA StartSpends ==
  ASSUME TypeInv, Spends, Start
  PROVE  Spends'
<1>1. UNCHANGED spent /\ mem = None /\ gens \in Nat
  BY DEF Start, TypeInv, TypeOK
<1>2. CASE saved # None
  <2>1. mem' = saved /\ saved' = saved /\ gens' = gens
    BY <1>2 DEF Start
  <2> QED BY <1>1, <1>2, <2>1 DEF Spends, InStep, IdsBelow, SpentOld, DroppedForGood, SpentOnce
<1>3. CASE saved = None
  <2>1. mem' = Fresh /\ saved' = (IF STORE THEN Fresh ELSE None) /\ gens' = gens + 1
    BY <1>3 DEF Start, Store
  <2>2. Fresh # None /\ Fresh.gen = gens + 1 /\ \A i \in Fresh.ids : i < Fresh.next
    BY <1>1, FreshType, NoneAssumption
  <2>3. \A f \in Frame : spent[f] # None => spent[f].gen \in Nat /\ spent[f].gen <= gens
    BY DEF Spends, SpentOld, TypeInv, TypeOK, OneTimeKey
  <2>4. InStep' /\ IdsBelow' /\ SpentOnce'
    BY <1>1, <2>1, <2>2 DEF InStep, IdsBelow, Spends, SpentOnce
  <2>5. SpentOld'
    BY <1>1, <2>1, <2>3 DEF SpentOld
  <2>6. DroppedForGood'
    BY <1>1, <2>1, <2>2, <2>3 DEF DroppedForGood
  <2> QED BY <2>4, <2>5, <2>6 DEF Spends
<1> QED BY <1>2, <1>3

\* A handler spends a key that memory holds, hence one that was not spent, and
\* drops it in memory and in the store.
LEMMA EstablishSpends ==
  ASSUME TypeInv, Spends, NEW f \in Frame, Establish(f)
  PROVE  Spends'
<1> DEFINE k   == got[From(f)].otp
           key == [gen |-> mem.gen, id |-> k.id]
<1>1. mem # None /\ mem \in Prekeys /\ IsFiniteSet(mem.ids) /\ mem.gen = gens /\ gens' = gens
      /\ gens \in Nat
  BY DEF Establish, TypeInv, TypeOK, HandlersRun, InHandler, PoolsFinite, Spends, InStep
<1>2. CASE k = None
  <2>1. mem' = mem /\ saved' = saved /\ spent' = [spent EXCEPT ![f] = None]
    BY <1>2 DEF Establish
  <2>2. \A e \in Frame : spent'[e] # None => spent'[e] = spent[e]
    BY <2>1 DEF TypeInv, TypeOK
  <2> QED BY <1>1, <2>1, <2>2 DEF Spends, InStep, IdsBelow, SpentOld, DroppedForGood, SpentOnce
<1>3. CASE k # None
  <2>1. mem' = WithoutKey(k.id) /\ saved' = (IF STORE THEN mem' ELSE saved)
        /\ spent' = [spent EXCEPT ![f] = key] /\ k.id \in mem.ids
    BY <1>3 DEF Establish, Resolves, Store
  <2>2. mem' # None /\ mem'.gen = gens /\ mem'.next = mem.next /\ mem'.ids = mem.ids \ {k.id}
    BY <1>1, <2>1, WithoutType, NoneAssumption DEF WithoutKey
  <2>3. /\ spent'[f] = key /\ key.gen = gens /\ key.id = k.id /\ key.id < mem.next
        /\ \A e \in Frame \ {f} : spent'[e] = spent[e]
    BY <1>1, <2>1 DEF Spends, IdsBelow, TypeInv, TypeOK
  <2>4. \A e \in Frame : spent[e] # key
    <3> SUFFICES ASSUME NEW e \in Frame, spent[e] = key PROVE FALSE
      OBVIOUS
    <3>1. key # None
      BY <1>1, <1>3, NoneAssumption DEF TypeInv, TypeOK, Frame, From, Prekeys, OneTimeKey
    <3> QED BY <1>1, <2>1, <2>3, <3>1 DEF Spends, DroppedForGood
  <2> HIDE DEF key
  <2>5. SpentOnce'
    BY <2>3, <2>4 DEF Spends, SpentOnce
  <2>6. InStep' /\ IdsBelow' /\ SpentOld'
    BY <1>1, <2>1, <2>2, <2>3 DEF Spends, InStep, IdsBelow, SpentOld
  <2>7. DroppedForGood'
    <3>1. \A e \in Frame : spent'[e] # None /\ spent'[e].gen = gens =>
            spent'[e].id < mem'.next /\ spent'[e].id \notin mem'.ids
      BY <1>1, <2>2, <2>3 DEF Spends, DroppedForGood
    <3>2. saved' \in {mem', None}
      BY <1>1, <2>1 DEF Spends, InStep
    <3> QED BY <2>2, <3>1, <3>2 DEF DroppedForGood
  <2> QED BY <2>5, <2>6, <2>7 DEF Spends
<1> QED BY <1>2, <1>3

\* Topping up adds ids that were never used.
LEMMA ReplenishSpends ==
  ASSUME TypeInv, Spends, NEW f \in Frame, Replenish(f)
  PROVE  Spends'
<1>1. mem # None /\ mem \in Prekeys /\ IsFiniteSet(mem.ids) /\ mem.gen = gens
      /\ mem.next \in Nat /\ Cardinality(mem.ids) <= OTP_LOW_WATER
  BY DEF Replenish, TypeInv, TypeOK, HandlersRun, InHandler, PoolsFinite, Spends, InStep, Prekeys
<1>2. mem' = Topped /\ saved' = (IF STORE THEN Topped ELSE saved) /\ UNCHANGED <<gens, spent>>
  BY DEF Replenish, Store
<1>3. /\ \A i \in FreshIds : i \in Nat /\ mem.next <= i /\ i < Topped.next
      /\ Topped # None /\ Topped.gen = gens /\ Topped.next >= mem.next /\ Topped.next \in Nat
      /\ Topped.ids = mem.ids \union FreshIds
  BY <1>1, ToppedType, NoneAssumption DEF Prekeys, Topped
<1>4. saved' \in {Topped, None}
  BY <1>1, <1>2 DEF Spends, InStep
<1>5. ASSUME NEW e \in Frame, spent[e] # None, spent[e].gen = gens
      PROVE  spent[e].id < Topped.next /\ spent[e].id \notin Topped.ids
  <2>1. spent[e].id \in Nat
    BY <1>5 DEF TypeInv, TypeOK, OneTimeKey
  <2>2. spent[e].id < mem.next /\ spent[e].id \notin mem.ids
    BY <1>1, <1>5 DEF Spends, DroppedForGood
  <2> QED BY <1>1, <1>3, <2>1, <2>2
<1>6. \A i \in Topped.ids : i < Topped.next
  <2>1. \A i \in mem.ids : i \in Nat /\ i < mem.next
    BY <1>1 DEF Spends, IdsBelow, Prekeys
  <2> QED BY <1>1, <1>3, <2>1
<1>7. InStep' /\ IdsBelow' /\ SpentOld' /\ SpentOnce'
  BY <1>2, <1>3, <1>4, <1>6 DEF Spends, InStep, IdsBelow, SpentOld, SpentOnce
<1>8. DroppedForGood'
  BY <1>2, <1>3, <1>4, <1>5 DEF DroppedForGood
<1> QED BY <1>7, <1>8 DEF Spends

\* A one-time prekey is used one time (_consumeOneTimePreKey of EncraClient.ts,
\* and its twin in useE2EChat.ts): whether or not IndexedDB keeps the prekeys,
\* whatever the table hands out again after a presence hook has published it,
\* no two frames establish sessions with the same private key.
THEOREM KeySpentOnce == Spec => []SpentOnce
<1>1. Init => Spends
  BY DEF Init, Spends, InStep, IdsBelow, SpentOld, DroppedForGood, SpentOnce
<1>2. TypeInv /\ Spends /\ [Next]_vars => Spends'
  <2> SUFFICES ASSUME TypeInv, Spends, [Next]_vars PROVE Spends'
    OBVIOUS
  <2> USE DEF serverVars, deviceVars, boundVars
  <2>1. ASSUME UNCHANGED <<mem, saved, gens, spent>> \/ (mem' = None /\ UNCHANGED <<saved, gens, spent>>)
        PROVE  Spends'
    BY <2>1 DEF Spends, InStep, IdsBelow, SpentOld, DroppedForGood, SpentOnce
  <2>2. ASSUME NEW b \in posts, Publish(b) \/ PublishFails(b) PROVE Spends'
    BY <2>1, <2>2 DEF Publish, PublishFails
  <2>3. ASSUME NEW p \in Peer, Fetch(p) PROVE Spends'
    BY <2>1, <2>3 DEF Fetch, ReadIdentity, ReadSigned, TakeOneTime, LeaveOneTime
  <2>4. CASE Reload \/ MountPresence
    BY <2>1, <2>4 DEF Reload, MountPresence
  <2>5. ASSUME NEW f \in Frame, SendFirst(f) \/ Arrive(f) \/ LoadFails(f) \/ Handler(f)
        PROVE  Spends'
    <3>1. Establish(f) \/ Replenish(f) \/ UNCHANGED <<mem, saved, gens, spent>>
      BY <2>5 DEF SendFirst, Arrive, LoadFails, Handler, RestoreSession, Unresolved,
                  PoolSuffices, Published, Finish
    <3> QED BY <2>1, <3>1, EstablishSpends, ReplenishSpends
  <2>6. CASE UNCHANGED vars
    BY <2>1, <2>6 DEF vars
  <2> QED BY <2>2, <2>3, <2>4, <2>5, <2>6, StartSpends DEF Next
<1>3. Spends => SpentOnce
  BY DEF Spends
<1> QED BY <1>1, <1>2, <1>3, PreKeyTypes, PTL DEF Spec

-----------------------------------------------------------------------------
(* One generation of prekeys, when IndexedDB keeps them.                    *)

\* The device makes prekeys once: whatever is stored, on offer, fetched or
\* derived is of the first generation.
OneGeneration(p) ==
  /\ got[p].identity \in {0, 1} /\ got[p].signed \in {0, 1}
  /\ got[p].step \in {"signed", "session"} => got[p].identity = 1 /\ got[p].signed = 1
  /\ got[p].step # "refused"
  /\ got[p].otp # None => got[p].otp.gen = 1
FirstGeneration ==
  /\ saved = None => mem = None /\ gens = 0
  /\ \A s \in {mem, saved} : s # None => s.gen = 1
  /\ identity \in {0, 1} /\ signed \in {0, 1}
  /\ \A b \in posts : b.gen = 1
  /\ \A k \in pool : k.gen = 1
  /\ \A p \in Peer : OneGeneration(p)

\* A peer that sends has a bundle, and keeps it.
SendersFetched == \A f \in Frame : frame[f] # "unsent" => got[From(f)].step = "session"
SessionsGood   == \A p \in Peer : sess[p] # "bad" /\ savedSess[p] # "bad"
AllAgree       == FirstGeneration /\ SendersFetched /\ SessionsGood

\* The steps of the key server pass on the generation of what they read.
LEMMA ServerKeepsAgreement ==
  ASSUME TypeInv, AllAgree,
         \/ \E b \in posts : Publish(b) \/ PublishFails(b)
         \/ \E p \in Peer : Fetch(p)
  PROVE  AllAgree'
<1> USE DEF deviceVars, serverVars, boundVars, AllAgree
<1>1. ASSUME NEW b \in posts, Publish(b) \/ PublishFails(b) PROVE AllAgree'
  <2>1. posts' = posts \ {b} /\ UNCHANGED <<mem, saved, gens, got, sess, savedSess, frame>>
        /\ identity' \in {identity, b.gen} /\ signed' \in {signed, b.gen}
        /\ \A k \in pool' : k \in pool \/ k \in Offer(b)
    BY <1>1 DEF Publish, PublishFails
  <2>2. b.gen = 1 /\ \A k \in Offer(b) : k.gen = 1
    BY DEF FirstGeneration, Offer
  <2>3. FirstGeneration'
    BY <2>1, <2>2 DEF FirstGeneration, OneGeneration
  <2> QED BY <2>1, <2>3 DEF SendersFetched, SessionsGood
<1>2. ASSUME NEW p \in Peer, Fetch(p) PROVE AllAgree'
  <2>1. UNCHANGED <<posts, mem, saved, gens, sess, savedSess, frame, identity, signed>>
        /\ \A k \in pool' : k \in pool
    BY <1>2 DEF Fetch, ReadIdentity, ReadSigned, TakeOneTime, LeaveOneTime
  <2>2. PICK g : got' = [got EXCEPT ![p] = g]
                 /\ g.identity \in {0, 1} /\ g.signed \in {0, 1}
                 /\ (g.step \in {"signed", "session"} => g.identity = 1 /\ g.signed = 1)
                 /\ g.step # "refused"
                 /\ (g.otp # None => g.otp.gen = 1)
    <3>0. got[p] \in [step: {"idle", "identity", "signed", "session", "refused"},
                      identity: Nat, signed: Nat, otp: OneTimeKey \union {None}]
      BY DEF TypeInv, TypeOK
    <3>1. CASE ReadIdentity(p)
      <4> DEFINE g == [got[p] EXCEPT !.step = "identity", !.identity = identity]
      <4>1. got' = [got EXCEPT ![p] = g]
        BY <3>1 DEF ReadIdentity
      <4>2. g.step = "identity" /\ g.identity = identity /\ g.signed = got[p].signed
            /\ g.otp = got[p].otp
        BY <3>0
      <4> HIDE DEF g
      <4> QED BY <4>1, <4>2 DEF FirstGeneration, OneGeneration
    <3>2. CASE ReadSigned(p)
      <4> DEFINE g == IF got[p].identity = 0 \/ signed = 0 THEN NoBundle
                      ELSE [step |-> "signed", identity |-> got[p].identity,
                            signed |-> signed, otp |-> None]
      <4>1. got' = [got EXCEPT ![p] = g]
        BY <3>2 DEF ReadSigned
      <4>2. \/ g.step = "idle" /\ g.identity = 0 /\ g.signed = 0 /\ g.otp = None
            \/ g.step = "signed" /\ g.identity = 1 /\ g.signed = 1 /\ g.otp = None
        BY DEF NoBundle, FirstGeneration, OneGeneration
      <4> HIDE DEF g
      <4> QED BY <4>1, <4>2
    <3>3. CASE TakeOneTime(p)
      <4>1. PICK k \in pool \union {None} : got' = Bundle(p, k) /\ got[p].step = "signed"
        BY <3>3 DEF TakeOneTime
      <4> DEFINE g == [step |-> Verified(p), identity |-> got[p].identity,
                       signed |-> got[p].signed, otp |-> k]
      <4>2. got' = [got EXCEPT ![p] = g]
        BY <4>1 DEF Bundle
      <4>3. g.identity = 1 /\ g.signed = 1 /\ g.otp = k /\ (k # None => k.gen = 1)
            /\ g.step = "session"
        BY <4>1 DEF FirstGeneration, OneGeneration, Verified
      <4> HIDE DEF g
      <4> QED BY <4>2, <4>3
    <3>4. CASE LeaveOneTime(p)
      <4>1. got[p].step = "signed" /\ Verified(p) = "session"
        BY <3>4 DEF LeaveOneTime, FirstGeneration, OneGeneration, Verified
      <4>2. got' = [got EXCEPT ![p] = NoBundle]
        BY <3>4, <4>1 DEF LeaveOneTime
      <4> DEFINE g == NoBundle
      <4>3. g.step = "idle" /\ g.identity = 0 /\ g.signed = 0 /\ g.otp = None
        BY DEF NoBundle
      <4>4. got' = [got EXCEPT ![p] = g]
        BY <4>2
      <4> HIDE DEF g
      <4> QED BY <4>3, <4>4
    <3> QED BY <1>2, <3>1, <3>2, <3>3, <3>4 DEF Fetch
  <2>3. got'[p] = g /\ \A q \in Peer \ {p} : got'[q] = got[q]
    BY <2>2 DEF TypeInv, TypeOK
  <2>4. FirstGeneration'
    <3>1. OneGeneration(p)'
      BY <2>2, <2>3 DEF OneGeneration
    <3>2. \A q \in Peer \ {p} : OneGeneration(q)'
      BY <2>3 DEF FirstGeneration, OneGeneration
    <3> QED BY <2>1, <3>1, <3>2 DEF FirstGeneration
  <2>5. SendersFetched'
    <3>1. got[p].step # "session"
      BY <1>2 DEF Fetch, ReadIdentity, ReadSigned, TakeOneTime, LeaveOneTime
    <3>2. \A f \in Frame : From(f) \in Peer
      BY DEF Frame, From
    <3> QED BY <2>1, <2>3, <3>1, <3>2 DEF SendersFetched
  <2> QED BY <2>1, <2>4, <2>5 DEF SessionsGood
<1> QED BY <1>1, <1>2

\* With a store the device makes prekeys only when it has none; a session is
\* derived from a bundle of the generation that memory holds.
LEMMA DeviceKeepsAgreement ==
  ASSUME STORE, TypeInv, AllAgree,
         \/ Start \/ Reload \/ MountPresence
         \/ \E f \in Frame : SendFirst(f) \/ Arrive(f) \/ LoadFails(f) \/ Handler(f)
  PROVE  AllAgree'
<1> USE DEF deviceVars, serverVars, boundVars, AllAgree
<1>1. ASSUME NEW by, NEW g, NEW ids, Post(by, g, ids), g = 1
      PROVE  \A b \in posts' : b.gen = 1
  BY <1>1 DEF Post, FirstGeneration
<1>2. ASSUME \A b \in posts' : b.gen = 1, UNCHANGED <<identity, signed, pool, got>>,
             saved' = None => mem' = None /\ gens' = 0,
             mem' # None => mem'.gen = 1, saved' # None => saved'.gen = 1
      PROVE  FirstGeneration'
  BY <1>2 DEF FirstGeneration, OneGeneration
<1>3. CASE Start
  <2>1. UNCHANGED <<identity, signed, pool, got, sess, savedSess, frame>>
    BY <1>3 DEF Start
  <2>2. CASE saved # None
    <3>1. mem' = saved /\ saved' = saved /\ Post({}, saved.gen, {}) /\ saved.gen = 1
      BY <1>3, <2>2 DEF Start, FirstGeneration
    <3>2. FirstGeneration'
      BY <1>1, <1>2, <2>1, <2>2, <3>1
    <3> QED BY <2>1, <3>2 DEF SendersFetched, SessionsGood
  <2>3. CASE saved = None
    <3>1. mem' = Fresh /\ saved' = Fresh /\ Post({}, Fresh.gen, Fresh.ids)
      BY <1>3, <2>3 DEF Start, Store
    <3>2. Fresh.gen = 1 /\ Fresh # None
      BY <2>3, FreshType, NoneAssumption DEF FirstGeneration, TypeInv, TypeOK
    <3>3. FirstGeneration'
      BY <1>1, <1>2, <2>1, <3>1, <3>2
    <3> QED BY <2>1, <3>3 DEF SendersFetched, SessionsGood
  <2> QED BY <2>2, <2>3
<1>4. CASE Reload
  <2>1. mem' = None /\ UNCHANGED <<identity, signed, pool, got, saved, gens, posts, savedSess>>
        /\ (\A p \in Peer : sess'[p] = "none")
        /\ \A f \in Frame : frame'[f] # "unsent" => frame[f] # "unsent"
    BY <1>4 DEF Reload, InHandler
  <2>2. FirstGeneration'
    BY <2>1 DEF FirstGeneration, OneGeneration
  <2> QED BY <2>1, <2>2 DEF SendersFetched, SessionsGood
<1>5. CASE MountPresence
  <2>1. UNCHANGED <<identity, signed, pool, got, mem, saved, gens, sess, savedSess, frame>>
        /\ Post({}, saved.gen, saved.ids) /\ saved.gen = 1
    BY <1>5 DEF MountPresence, FirstGeneration
  <2>2. FirstGeneration'
    BY <1>1, <1>2, <2>1 DEF FirstGeneration
  <2> QED BY <2>1, <2>2 DEF SendersFetched, SessionsGood
<1>6. ASSUME NEW f \in Frame, SendFirst(f) \/ Arrive(f) \/ LoadFails(f) \/ Handler(f) PROVE AllAgree'
  <2>0. From(f) \in Peer
    BY DEF Frame, From
  <2>1. SendersFetched'
    <3>1. got' = got /\ (frame[f] # "unsent" \/ got[From(f)].step = "session")
          /\ \A e \in Frame \ {f} : frame'[e] = frame[e]
      BY <1>6 DEF SendFirst, Arrive, LoadFails, Handler, RestoreSession, Unresolved, Establish, Replenish,
                  PoolSuffices, Published, Finish, InHandler, TypeInv, TypeOK
    <3> QED BY <3>1 DEF SendersFetched
  <2>2. CASE Establish(f)
    <3> DEFINE k == got[From(f)].otp
    <3>1. mem # None /\ mem \in Prekeys /\ IsFiniteSet(mem.ids) /\ mem.gen = 1 /\ saved # None
      BY <2>2 DEF Establish, TypeInv, TypeOK, HandlersRun, InHandler, PoolsFinite,
                  FirstGeneration
    <3>2. Derived(f) = "good"
      <4>1. got[From(f)].step = "session" /\ Resolves(f)
        BY <2>2 DEF Establish, SendersFetched
      <4>2. OneGeneration(From(f))
        BY <2>0 DEF FirstGeneration
      <4> QED BY <3>1, <4>1, <4>2 DEF Derived, Resolves, OneGeneration
    <3>3. UNCHANGED <<identity, signed, pool, posts, got, gens>>
          /\ sess' = [sess EXCEPT ![From(f)] = "good"]
          /\ savedSess' \in {savedSess, [savedSess EXCEPT ![From(f)] = "good"]}
      BY <2>2, <3>2 DEF Establish
    <3>4. \/ mem' = mem /\ saved' = saved
          \/ mem' = WithoutKey(k.id) /\ saved' = WithoutKey(k.id)
      BY <2>2 DEF Establish, Store
    <3>5. WithoutKey(k.id) # None /\ WithoutKey(k.id).gen = 1
      BY <3>1, WithoutType, NoneAssumption
    <3>6. FirstGeneration'
      BY <3>1, <3>3, <3>4, <3>5 DEF FirstGeneration, OneGeneration
    <3>7. SessionsGood'
      BY <2>0, <3>3 DEF SessionsGood, TypeInv, TypeOK
    <3> QED BY <2>1, <3>6, <3>7
  <2>3. CASE Replenish(f)
    <3>1. mem # None /\ mem \in Prekeys /\ IsFiniteSet(mem.ids) /\ mem.gen = 1
          /\ Cardinality(mem.ids) <= OTP_LOW_WATER
      BY <2>3 DEF Replenish, TypeInv, TypeOK, HandlersRun, InHandler, PoolsFinite,
                  FirstGeneration
    <3>2. mem' = Topped /\ saved' = Topped /\ Post({f}, mem.gen, FreshIds)
          /\ UNCHANGED <<identity, signed, pool, got, gens, sess, savedSess>>
      BY <2>3 DEF Replenish, Store
    <3>3. Topped # None /\ Topped.gen = 1
      BY <3>1, ToppedType, NoneAssumption
    <3>4. FirstGeneration'
      BY <1>1, <1>2, <3>1, <3>2, <3>3
    <3> QED BY <2>1, <3>2, <3>4 DEF SessionsGood
  <2>4. CASE ~Establish(f) /\ ~Replenish(f)
    <3>1. UNCHANGED <<identity, signed, pool, posts, got, mem, saved, gens>>
      BY <1>6, <2>4 DEF SendFirst, Arrive, LoadFails, Handler, RestoreSession, Unresolved, PoolSuffices,
                        Published, Finish
    <3>2. /\ sess' \in {sess, [sess EXCEPT ![From(f)] = savedSess[From(f)]]}
          /\ \/ savedSess' \in {savedSess, [savedSess EXCEPT ![From(f)] = sess[From(f)]]}
             \/ savedSess' = [savedSess EXCEPT ![From(f)] = "good"]
      BY <1>6, <2>4 DEF SendFirst, Arrive, LoadFails, Handler, RestoreSession, Unresolved, PoolSuffices,
                        Published, Finish
    <3>3. SessionsGood'
      BY <2>0, <3>2 DEF SessionsGood, TypeInv, TypeOK
    <3>4. FirstGeneration'
      BY <3>1 DEF FirstGeneration, OneGeneration
    <3> QED BY <2>1, <3>3, <3>4
  <2> QED BY <2>2, <2>3, <2>4
<1> QED BY <1>3, <1>4, <1>5, <1>6

\* The two together, as an invariant of every device that can store.
LEMMA AgreementInvariant == ASSUME STORE PROVE Spec => []AllAgree
<1>1. Init => AllAgree
  BY DEF Init, AllAgree, FirstGeneration, OneGeneration, SendersFetched, SessionsGood, NoBundle
<1>2. TypeInv /\ AllAgree /\ [Next]_vars => AllAgree'
  <2> SUFFICES ASSUME TypeInv, AllAgree, [Next]_vars PROVE AllAgree'
    OBVIOUS
  <2>1. CASE Next
    BY <2>1, ServerKeepsAgreement, DeviceKeepsAgreement DEF Next
  <2>2. CASE UNCHANGED vars
    BY <2>2 DEF AllAgree, FirstGeneration, OneGeneration, SendersFetched, SessionsGood, vars,
                serverVars, deviceVars
  <2> QED BY <2>1, <2>2
<1> QED BY <1>1, <1>2, PreKeyTypes, PTL DEF Spec

\* A step from which a key on offer may lose its private half: only a key that
\* was handed out is dropped, and one on offer was not.
LEMMA OffersStayHeld ==
  ASSUME STORE, TypeInv, AllAgree, KeysApart, KeysApart', OfferedIsHeld, Next, ~MountPresence
  PROVE  OfferedIsHeld'
<1> USE DEF deviceVars, serverVars, boundVars
<1>0. \A k \in OnOffer : saved # None /\ k.gen = 1 /\ saved.gen = 1 /\ k.id \in saved.ids
  BY DEF OfferedIsHeld, AllAgree, FirstGeneration
<1>1. CASE \/ \E b \in posts : Publish(b) \/ PublishFails(b)
           \/ \E p \in Peer : Fetch(p)
  <2>1. saved' = saved
    BY <1>1 DEF Publish, PublishFails, Fetch, ReadIdentity, ReadSigned, TakeOneTime, LeaveOneTime
  <2>2. \A k \in OnOffer' : k \in OnOffer
    <3>1. ASSUME NEW b \in posts, Publish(b) \/ PublishFails(b)
          PROVE  \A k \in OnOffer' : k \in OnOffer
      <4>1. posts' = posts \ {b} /\ \A k \in pool' : k \in pool \/ k \in Offer(b)
        BY <3>1 DEF Publish, PublishFails
      <4> QED BY <4>1, Elements, ElementsNext
    <3>2. ASSUME NEW p \in Peer, Fetch(p) PROVE \A k \in OnOffer' : k \in OnOffer
      <4>1. posts' = posts /\ \A k \in pool' : k \in pool
        BY <3>2 DEF Fetch, ReadIdentity, ReadSigned, TakeOneTime, LeaveOneTime
      <4> QED BY <4>1, Elements, ElementsNext
    <3> QED BY <1>1, <3>1, <3>2
  <2> QED BY <2>1, <2>2 DEF OfferedIsHeld
<1>2. CASE Start
  <2>1. CASE saved # None
    <3>1. saved' = saved /\ pool' = pool /\ Post({}, saved.gen, {})
      BY <1>2, <2>1 DEF Start
    <3>2. \A k \in OnOffer' : k \in OnOffer
      BY <3>1, Elements, ElementsNext DEF Post, Offer
    <3> QED BY <3>1, <3>2 DEF OfferedIsHeld
  <2>2. CASE saved = None
    <3>1. saved' = Fresh /\ pool' = pool /\ Post({}, Fresh.gen, Fresh.ids)
      BY <1>2, <2>2 DEF Start, Store
    <3>2. Fresh # None
      BY FreshType, NoneAssumption DEF TypeInv, TypeOK
    <3>3. \A k \in OnOffer' : k \in OnOffer
                              \/ \E i \in Fresh.ids : k = [gen |-> Fresh.gen, id |-> i]
      BY <3>1, Elements, ElementsNext DEF Post, Offer
    <3> QED BY <1>0, <2>2, <3>1, <3>2, <3>3 DEF OfferedIsHeld
  <2> QED BY <2>1, <2>2
<1>3. ASSUME NEW f \in Frame, Establish(f) PROVE OfferedIsHeld'
  <2> DEFINE k == got[From(f)].otp
  <2>0. From(f) \in Peer
    BY DEF Frame, From
  <2>1. mem # None /\ mem \in Prekeys /\ IsFiniteSet(mem.ids) /\ saved = mem
    BY <1>3 DEF Establish, TypeInv, TypeOK, HandlersRun, InHandler, PoolsFinite, KeysApart,
                InStep
  <2>2. OnOffer' = OnOffer
    BY <1>3 DEF Establish, OnOffer, Offer
  <2>3. CASE k = None
    BY <1>3, <2>2, <2>3 DEF Establish, OfferedIsHeld
  <2>4. CASE k # None
    <3>1. saved' = WithoutKey(k.id)
      BY <1>3, <2>4 DEF Establish, Store
    <3>2. WithoutKey(k.id) # None /\ WithoutKey(k.id).gen = mem.gen
          /\ WithoutKey(k.id).ids = mem.ids \ {k.id}
      BY <2>1, WithoutType, NoneAssumption DEF WithoutKey
    <3>3. k \notin OnOffer /\ k.gen = 1 /\ k \in OneTimeKey
      BY <2>0, <2>4 DEF KeysApart, HandedOutOnce, AllAgree, FirstGeneration, OneGeneration,
                        TypeInv, TypeOK
    <3>4. \A j \in OnOffer : j.id # k.id
      <4>1. \A j \in OnOffer : j \in OneTimeKey
        BY Elements DEF TypeInv, TypeOK, Offer, Body, OneTimeKey
      <4> QED BY <1>0, <3>3, <4>1 DEF OneTimeKey
    <3> QED BY <1>0, <2>1, <2>2, <3>1, <3>2, <3>4 DEF OfferedIsHeld
  <2> QED BY <2>3, <2>4
<1>4. ASSUME NEW f \in Frame, Replenish(f) PROVE OfferedIsHeld'
  <2>1. mem # None /\ mem \in Prekeys /\ IsFiniteSet(mem.ids)
        /\ Cardinality(mem.ids) <= OTP_LOW_WATER /\ saved = mem
    BY <1>4 DEF Replenish, TypeInv, TypeOK, HandlersRun, InHandler, PoolsFinite, KeysApart,
                InStep
  <2>2. saved' = Topped /\ pool' = pool /\ Post({f}, mem.gen, FreshIds)
    BY <1>4 DEF Replenish, Store
  <2>3. Topped # None /\ Topped.gen = mem.gen /\ Topped.ids = mem.ids \union FreshIds
    BY <2>1, ToppedType, NoneAssumption DEF Topped
  <2>4. \A k \in OnOffer' : k \in OnOffer
                            \/ \E i \in FreshIds : k = [gen |-> mem.gen, id |-> i]
    BY <2>2, Elements, ElementsNext DEF Post, Offer
  <2> QED BY <1>0, <2>1, <2>2, <2>3, <2>4 DEF OfferedIsHeld
<1>5. ASSUME UNCHANGED <<saved, pool, posts>> PROVE OfferedIsHeld'
  <2>1. OnOffer' = OnOffer
    BY <1>5 DEF OnOffer, Offer
  <2> QED BY <1>5, <2>1 DEF OfferedIsHeld
<1>6. ASSUME NEW f \in Frame, SendFirst(f) \/ Arrive(f) \/ LoadFails(f) \/ Handler(f) PROVE OfferedIsHeld'
  <2>1. Establish(f) \/ Replenish(f) \/ UNCHANGED <<saved, pool, posts>>
    BY <1>6 DEF SendFirst, Arrive, LoadFails, Handler, RestoreSession, Unresolved, PoolSuffices,
                Published, Finish
  <2> QED BY <1>3, <1>4, <1>5, <2>1
<1>7. CASE Reload
  BY <1>5, <1>7 DEF Reload
<1> QED BY <1>1, <1>2, <1>6, <1>7 DEF Next

\* As long as no presence hook was mounted, the private half of every one-time
\* key on offer is in the stored prekeys (_initPreKeys and _consumeOneTimePreKey
\* of EncraClient.ts save before they publish), so that a reload loses none.
THEOREM OffersAreHeld == Spec => []ChatOffersHeld
<1> DEFINE IInv == TypeInv /\ ChatKeysApart /\ (STORE => AllAgree)
<1>1. Init => ChatOffersHeld
  BY DEF Init, ChatOffersHeld, OfferedIsHeld, OnOffer
<1>2. IInv /\ ChatKeysApart' /\ ChatOffersHeld /\ [Next]_vars => ChatOffersHeld'
  <2> SUFFICES ASSUME IInv, ChatKeysApart', ChatOffersHeld, [Next]_vars, mounts' = 0, STORE
               PROVE  OfferedIsHeld'
    BY DEF ChatOffersHeld, OfferedIsHeld
  <2>1. mounts = 0 /\ ~MountPresence
    BY MountsCount DEF TypeInv, TypeOK
  <2>2. KeysApart /\ KeysApart' /\ OfferedIsHeld /\ AllAgree
    BY <2>1 DEF ChatKeysApart, ChatOffersHeld
  <2>3. CASE Next
    BY <2>1, <2>2, <2>3, OffersStayHeld
  <2>4. CASE UNCHANGED vars
    <3>1. OnOffer' = OnOffer /\ saved' = saved
      BY <2>4 DEF OnOffer, Offer, vars, serverVars, deviceVars
    <3> QED BY <2>2, <3>1 DEF OfferedIsHeld
  <2> QED BY <2>3, <2>4
<1>3. Spec => [](STORE => AllAgree)
  <2>1. CASE STORE
    <3>1. AllAgree => (STORE => AllAgree)
      OBVIOUS
    <3>2. Spec => []AllAgree
      BY <2>1, AgreementInvariant
    <3> QED BY <3>1, <3>2, PTL
  <2>2. CASE ~STORE
    <3>1. STORE => AllAgree
      BY <2>2
    <3> QED BY <3>1, PTL
  <2> QED BY <2>1, <2>2
<1> QED BY <1>1, <1>2, <1>3, KeysStayApart, PreKeyTypes, PTL DEF Spec
=============================================================================
