--------------------------- MODULE DoubleRatchet ---------------------------
(***************************************************************************)
(* One Double Ratchet session with header encryption, as implemented by    *)
(* the class DoubleRatchet of packages/core/src/crypto/ratchet.ts: two     *)
(* parties that already share the X3DH session keys, and a network that    *)
(* may reorder messages, lose them (a message may stay in the network for  *)
(* ever) and deliver some of them again.                                   *)
(*                                                                         *)
(* Keys are terms.  A root key is the sequence of the Diffie-Hellman       *)
(* outputs mixed into it since X3DH; a chain key is a root with the number *)
(* of KDF_CK steps taken from it, and the message key of that step is the  *)
(* same term; a header key is a root with the label of the KDF output it   *)
(* is.  Two keys are equal exactly when they were derived alike, and a box *)
(* opens exactly under the key that closed it.                             *)
(***************************************************************************)
EXTENDS Integers, Sequences, FiniteSets

CONSTANTS Initiator,      \* the party that ran x3dhInitiate and initSender
          Responder,      \* the party that ran x3dhRespond and initReceiver
          Null,           \* the null of an unset chain, header or DH key
          MAX_SKIP_KEYS,  \* the gap skipMessageKeys accepts (1000 in the code)
          MaxSent,        \* bound: messages each party encrypts
          MaxDup          \* bound: extra deliveries the network makes

Party == {Initiator, Responder}
Peer(p) == IF p = Initiator THEN Responder ELSE Initiator

-----------------------------------------------------------------------------
(* Key material.                                                            *)

\* A key pair is named by its owner and the order in which it was generated.
Pair      == Party \X Nat
Root      == Seq(SUBSET Pair)
ChainKey  == [root: Root, n: Nat]
HeaderKey == [root: Root, label: {"header", "next"}]

ASSUME PartyAssumption == Initiator # Responder
ASSUME NullAssumption  == Null \notin Pair \union ChainKey \union HeaderKey
ASSUME SkipAssumption  == MAX_SKIP_KEYS \in Nat
ASSUME BoundAssumption == MaxSent \in Nat /\ MaxDup \in Nat

\* crypto_scalarmult: the same output whichever side computes it.
DH(mine, theirs) == {mine, theirs}

\* KDF_RK: one PRF of the root and the DH output, expanded to three keys.
MixRoot(rk, dh) == Append(rk, dh)
NewChain(rk)    == [root |-> rk, n |-> 0]
NextHeader(rk)  == [root |-> rk, label |-> "next"]

\* KDF_CK: the chain one step on; the message key is the step's own term.
Advance(ck) == [root |-> ck.root, n |-> ck.n + 1]

SkippedKey   == [hk: HeaderKey, n: Nat, mk: ChainKey]
RatchetState == [DHs: Pair, DHr: Pair \union {Null}, RK: Root,
                 CKs: ChainKey \union {Null}, CKr: ChainKey \union {Null},
                 Ns: Nat, Nr: Nat, PN: Nat,
                 HKs: HeaderKey \union {Null}, HKr: HeaderKey \union {Null},
                 NHKs: HeaderKey, NHKr: HeaderKey,
                 MKSKIPPED: SUBSET SkippedKey]

\* A RatchetMessage: the header box (hk closes dh, pn, n) and the body box
\* (mk closes the plaintext).  No two plaintexts are alike: from and id.
Message == [from: Party, id: Nat, hk: HeaderKey, dh: Pair, pn: Nat, n: Nat,
            mk: ChainKey]

VARIABLES st,       \* st[p]: the RatchetState p's DoubleRatchet object holds
          pairs,    \* pairs[p]: key pairs p has generated
          written,  \* written[p]: plaintexts p has passed to encrypt
          sent,     \* every message encrypt has returned
          wire,     \* the messages the network may still deliver
          dups,     \* deliveries made again so far
          opened,   \* opened[p]: messages decrypt returned to p, in order
          refused   \* refused[p]: messages decrypt threw on, at least once

vars == <<st, pairs, written, sent, wire, dups, opened, refused>>

-----------------------------------------------------------------------------
(* initSender and initReceiver.                                             *)

HeaderKey0     == [root |-> <<>>, label |-> "header"]
NextHeaderKey0 == NextHeader(<<>>)
SignedPreKey   == <<Responder, 1>>

InitSender ==
  LET mine == <<Initiator, 1>>
      root == MixRoot(<<>>, DH(mine, SignedPreKey))
  IN [DHs |-> mine, DHr |-> SignedPreKey, RK |-> root,
      CKs |-> NewChain(root), CKr |-> Null, Ns |-> 0, Nr |-> 0, PN |-> 0,
      HKs |-> HeaderKey0, HKr |-> Null,
      NHKs |-> NextHeader(root), NHKr |-> NextHeaderKey0, MKSKIPPED |-> {}]

InitReceiver ==
  [DHs |-> SignedPreKey, DHr |-> Null, RK |-> <<>>,
   CKs |-> Null, CKr |-> Null, Ns |-> 0, Nr |-> 0, PN |-> 0,
   HKs |-> Null, HKr |-> Null,
   NHKs |-> NextHeaderKey0, NHKr |-> HeaderKey0, MKSKIPPED |-> {}]

Init ==
  /\ st = [p \in Party |-> IF p = Initiator THEN InitSender ELSE InitReceiver]
  /\ pairs = [p \in Party |-> 1]
  /\ written = [p \in Party |-> 0]
  /\ sent = {} /\ wire = {} /\ dups = 0
  /\ opened = [p \in Party |-> <<>>]
  /\ refused = [p \in Party |-> {}]

-----------------------------------------------------------------------------
(* encrypt: throws without a sending chain, else closes the header under    *)
(* HKs and the body under the next message key.                             *)

NextMessage(p) ==
  [from |-> p, id |-> written[p], hk |-> st[p].HKs,
   dh |-> st[p].DHs, pn |-> st[p].PN, n |-> st[p].Ns, mk |-> st[p].CKs]

Mut_StepSending(s) == [s EXCEPT !.Ns = @ + 1]   \* the chain key is kept
StepSending(s) == [s EXCEPT !.CKs = Advance(@), !.Ns = @ + 1]

Encrypt(p) ==
  /\ written[p] < MaxSent
  /\ st[p].CKs # Null /\ st[p].HKs # Null
  /\ st' = [st EXCEPT ![p] = StepSending(st[p])]
  /\ written' = [written EXCEPT ![p] = @ + 1]
  /\ sent' = sent \union {NextMessage(p)}
  /\ wire' = wire \union {NextMessage(p)}
  /\ UNCHANGED <<pairs, dups, opened, refused>>

-----------------------------------------------------------------------------
(* The private helpers of decrypt, as functions of the ratchet state.       *)

TooManySkipped(s, until) == s.Nr + MAX_SKIP_KEYS < until

\* skipMessageKeys, past its limit check: stores the keys of Nr .. until-1.
Mut_SkipMessageKeys(s, until) ==   \* jumps ahead without storing the keys
  IF s.CKr = Null \/ s.HKr = Null \/ until <= s.Nr THEN s
  ELSE [s EXCEPT !.CKr = [root |-> s.CKr.root, n |-> s.CKr.n + (until - s.Nr)],
                 !.Nr = until]
SkipMessageKeys(s, until) ==
  IF s.CKr = Null \/ s.HKr = Null \/ until <= s.Nr THEN s
  ELSE [s EXCEPT
         !.MKSKIPPED = @ \union
            {[hk |-> s.HKr, n |-> i,
              mk |-> [root |-> s.CKr.root, n |-> s.CKr.n + (i - s.Nr)]] :
                i \in s.Nr .. until - 1},
         !.CKr = [root |-> s.CKr.root, n |-> s.CKr.n + (until - s.Nr)],
         !.Nr = until]

\* dhRatchetStep, with the key pair it generates.
Mut_DhRatchetStep(s, dh, fresh) ==   \* HKs takes the key just derived
  LET root1 == MixRoot(s.RK, DH(s.DHs, dh))
      root2 == MixRoot(root1, DH(fresh, dh))
  IN [s EXCEPT !.DHs = fresh, !.DHr = dh, !.RK = root2,
        !.CKs = NewChain(root2), !.CKr = NewChain(root1),
        !.Ns = 0, !.Nr = 0, !.PN = s.Ns,
        !.HKs = NextHeader(root2), !.HKr = s.NHKr,
        !.NHKs = NextHeader(root2), !.NHKr = NextHeader(root1)]
Mut_StepWithoutHeaderKey(s, dh, fresh) ==   \* HKr keeps the old chain's key
  LET root1 == MixRoot(s.RK, DH(s.DHs, dh))
      root2 == MixRoot(root1, DH(fresh, dh))
  IN [s EXCEPT !.DHs = fresh, !.DHr = dh, !.RK = root2,
        !.CKs = NewChain(root2), !.CKr = NewChain(root1),
        !.Ns = 0, !.Nr = 0, !.PN = s.Ns, !.HKs = s.NHKs,
        !.NHKs = NextHeader(root2), !.NHKr = NextHeader(root1)]
DhRatchetStep(s, dh, fresh) ==
  LET root1 == MixRoot(s.RK, DH(s.DHs, dh))
      root2 == MixRoot(root1, DH(fresh, dh))
  IN [DHs |-> fresh, DHr |-> dh, RK |-> root2,
      CKs |-> NewChain(root2), CKr |-> NewChain(root1),
      Ns |-> 0, Nr |-> 0, PN |-> s.Ns,
      HKs |-> s.NHKs, HKr |-> s.NHKr,
      NHKs |-> NextHeader(root2), NHKr |-> NextHeader(root1),
      MKSKIPPED |-> s.MKSKIPPED]

\* The receiving chain's step: one key is spent whether or not it fits.
Mut_SpendKey(s) == [s EXCEPT !.Nr = @ + 1]   \* the chain key is kept
SpendKey(s) == [s EXCEPT !.CKr = Advance(@), !.Nr = @ + 1]

\* The stored key trySkippedMessageKeys finds for the message, if any.
StoredFor(s, m) == {e \in s.MKSKIPPED : e.hk = m.hk /\ e.n = m.n}

Mut_DropKey(s, e) == s   \* the key stays after its use
DropKey(s, e) == [s EXCEPT !.MKSKIPPED = @ \ {e}]

-----------------------------------------------------------------------------
(* decrypt, one action per way through it.  Each delivers a message of the  *)
(* peer, and the network may keep it to deliver it again.                   *)

Deliver(p, m) ==
  /\ m.from = Peer(p)
  /\ \/ wire' = wire \ {m} /\ dups' = dups
     \/ dups < MaxDup /\ dups' = dups + 1 /\ wire' = wire
  /\ UNCHANGED <<written, sent>>

\* decryptWithKey: returns the plaintext or throws.
OpenBody(p, m, mk) ==
  IF m.mk = mk
  THEN opened' = [opened EXCEPT ![p] = Append(@, m)] /\ refused' = refused
  ELSE opened' = opened /\ refused' = [refused EXCEPT ![p] = @ \union {m}]

Throw(p, m) ==
  /\ refused' = [refused EXCEPT ![p] = @ \union {m}]
  /\ opened' = opened

\* trySkippedMessageKeys: the key is deleted before the body is opened.
DecryptSkipped(p, m) ==
  /\ Deliver(p, m)
  /\ \E e \in StoredFor(st[p], m) :
       /\ st' = [st EXCEPT ![p] = DropKey(st[p], e)]
       /\ OpenBody(p, m, e.mk)
  /\ pairs' = pairs

\* The header opens under HKr: skip up to n, spend the next key.
DecryptCurrent(p, m) ==
  LET s == SkipMessageKeys(st[p], m.n) IN
  /\ Deliver(p, m)
  /\ StoredFor(st[p], m) = {}
  /\ m.hk = st[p].HKr
  /\ ~TooManySkipped(st[p], m.n)
  /\ st' = [st EXCEPT ![p] = SpendKey(s)]
  /\ OpenBody(p, m, s.CKr)
  /\ pairs' = pairs

\* The header opens under NHKr: close the old chain at pn, take a DH step;
\* what follows is again a skip to n, which may throw on the new state.
RatchetFor(p, m) ==
  DhRatchetStep(SkipMessageKeys(st[p], m.pn), m.dh, <<p, pairs[p] + 1>>)

StartsNextChain(p, m) ==
  /\ Deliver(p, m)
  /\ StoredFor(st[p], m) = {}
  /\ m.hk # st[p].HKr /\ m.hk = st[p].NHKr
  /\ ~TooManySkipped(st[p], m.pn)
  /\ pairs' = [pairs EXCEPT ![p] = @ + 1]

DecryptNext(p, m) ==
  LET s == SkipMessageKeys(RatchetFor(p, m), m.n) IN
  /\ StartsNextChain(p, m)
  /\ ~TooManySkipped(RatchetFor(p, m), m.n)
  /\ st' = [st EXCEPT ![p] = SpendKey(s)]
  /\ OpenBody(p, m, s.CKr)

RefuseAfterRatchet(p, m) ==
  /\ StartsNextChain(p, m)
  /\ TooManySkipped(RatchetFor(p, m), m.n)
  /\ st' = [st EXCEPT ![p] = RatchetFor(p, m)]
  /\ Throw(p, m)

\* The limit check throws before anything changed.
RefuseGap(p, m) ==
  /\ Deliver(p, m)
  /\ StoredFor(st[p], m) = {}
  /\ \/ m.hk = st[p].HKr /\ TooManySkipped(st[p], m.n)
     \/ m.hk # st[p].HKr /\ m.hk = st[p].NHKr /\ TooManySkipped(st[p], m.pn)
  /\ Throw(p, m)
  /\ UNCHANGED <<st, pairs>>

\* No header key at hand opens the header.
RefuseHeader(p, m) ==
  /\ Deliver(p, m)
  /\ StoredFor(st[p], m) = {}
  /\ m.hk # st[p].HKr /\ m.hk # st[p].NHKr
  /\ Throw(p, m)
  /\ UNCHANGED <<st, pairs>>

Decrypt(p, m) ==
  \/ DecryptSkipped(p, m)
  \/ DecryptCurrent(p, m)
  \/ DecryptNext(p, m)
  \/ RefuseAfterRatchet(p, m)
  \/ RefuseGap(p, m)
  \/ RefuseHeader(p, m)

Next == \E p \in Party : Encrypt(p) \/ \E m \in wire : Decrypt(p, m)

Spec == Init /\ [][Next]_vars

-----------------------------------------------------------------------------
(* Properties.                                                              *)

\* The ratchet objects, the network and the history keep their types.
TypeOK ==
  /\ st \in [Party -> RatchetState]
  /\ pairs \in [Party -> Nat] /\ written \in [Party -> Nat]
  /\ sent \subseteq Message /\ wire \subseteq sent
  /\ dups \in Nat
  /\ opened \in [Party -> Seq(sent)]
  /\ refused \in [Party -> SUBSET sent]

\* A receiving chain and its header key are set together: skipMessageKeys
\* files the keys of CKr under HKr.
ChainsPaired(s) == s.CKr = Null <=> s.HKr = Null

\* The types, with the pairing of the two receiving keys.
TypeInv == TypeOK /\ \A p \in Party : ChainsPaired(st[p])

\* No message key ever closes two bodies: not two messages of one party,
\* whatever chain each is from, and not messages of the two directions.
NoKeyReuse ==
  \A m1, m2 \in sent : m1.mk = m2.mk => m1 = m2

\* However often the network repeats a message, decrypt returns it at most
\* once: a spent or stored key is gone after its use.
AtMostOnce ==
  \A p \in Party : \A i, j \in 1 .. Len(opened[p]) :
    opened[p][i] = opened[p][j] => i = j

\* A key the party could still compute: stored, or ahead on a chain it holds.
OnChain(ck, mk) == ck # Null /\ mk.root = ck.root /\ mk.n >= ck.n
CanDerive(s, mk) ==
  \/ \E e \in s.MKSKIPPED : e.mk = mk
  \/ OnChain(s.CKs, mk) \/ OnChain(s.CKr, mk)

\* Forward secrecy: from the state a party holds now, the key of a message it
\* has sent or has read can no longer be derived.
ForwardSecrecy ==
  \A p \in Party :
    /\ \A m \in sent : m.from = p => ~CanDerive(st[p], m.mk)
    /\ \A i \in 1 .. Len(opened[p]) : ~CanDerive(st[p], opened[p][i].mk)

\* The two ends never drift apart by more than one DH step: whatever was
\* lost, repeated or refused, the peer can open the header of the chain a
\* party now sends on.
SendingChainKnown ==
  \A p \in Party :
    st[p].HKs # Null => st[p].HKs \in {st[Peer(p)].HKr, st[Peer(p)].NHKr}

\* decrypt "tolerates out-of-order messages up to MAX_SKIP_KEYS gaps": a
\* message thrown out was returned before, or its gap is beyond the limit.
BeyondLimit(p, m) ==
  \/ m.hk = st[p].HKr /\ TooManySkipped(st[p], m.n)
  \/ m.hk = st[p].NHKr /\ (TooManySkipped(st[p], m.pn) \/ m.n > MAX_SKIP_KEYS)
ThrownOutRightly ==
  \A p \in Party : \A m \in refused'[p] \ refused[p] :
    (\E i \in 1 .. Len(opened[p]) : opened[p][i] = m) \/ BeyondLimit(p, m)
OutOfOrderTolerated == [][ThrownOutRightly]_vars

\* It does, whatever is lost or late, until a message is delivered again.
GapsTolerated == [][dups' = 0 => ThrownOutRightly]_vars

\* The session is a secure channel of plaintexts: every step writes a new
\* one, hands over one that the peer wrote and that was not handed over
\* before, or changes neither history.
Plaintext(m) == [from |-> m.from, id |-> m.id]
Channel == INSTANCE SecureChannel WITH
  Message <- [from: Party, id: 0 .. MaxSent - 1],
  sent <- {Plaintext(m) : m \in sent},
  read <- [p \in Party |-> [i \in 1 .. Len(opened[p]) |-> Plaintext(opened[p][i])]]
ImplementsChannel == Channel!Spec

-----------------------------------------------------------------------------
(* The strengthening of the key properties: why no key comes back.  A root  *)
(* only grows, by two DH outputs a step, so a chain that was left behind is *)
(* shorter than any chain to come, and the chains one party sends on and    *)
(* those it receives on have lengths of different parity.                   *)

Parity(n)     == n % 2
ReadKeys(p)   == {opened[p][i].mk : i \in 1 .. Len(opened[p])}
StoredKeys(s) == {e.mk : e \in s.MKSKIPPED}

\* A key of the receiving side that is spent or stored lies behind its chain.
BehindReceiving(s, mk) ==
  /\ s.CKr # Null
  /\ Len(mk.root) <= Len(s.CKr.root)
  /\ Parity(Len(mk.root)) # Parity(Len(s.RK))
  /\ mk.root = s.CKr.root => mk.n < s.CKr.n

ReceiveSafe(s, read) ==
  /\ s.CKr # Null => Len(s.RK) = Len(s.CKr.root) + 1
  /\ \A mk \in read \union StoredKeys(s) : BehindReceiving(s, mk)
  /\ read \intersect StoredKeys(s) = {}
  /\ \A e1, e2 \in s.MKSKIPPED : e1.mk = e2.mk => e1 = e2

\* A key the sending side has used lies behind its chain.
BehindSending(s, mk) ==
  /\ s.CKs # Null
  /\ Len(mk.root) <= Len(s.CKs.root)
  /\ Parity(Len(mk.root)) = Parity(Len(s.RK))
  /\ mk.root = s.CKs.root => mk.n < s.CKs.n

SendSafe(s) == s.CKs # Null => s.CKs.root = s.RK

\* The initiator's root has one output more than an even number.
RootParity(p) == Parity(Len(st[p].RK)) = IF p = Initiator THEN 1 ELSE 0

\* The inductive invariant of the key properties.
KeysSpentOnce ==
  /\ \A p \in Party :
       /\ RootParity(p)
       /\ SendSafe(st[p])
       /\ ReceiveSafe(st[p], ReadKeys(p))
       /\ \A i \in 1 .. Len(opened[p]) : opened[p][i].from = Peer(p)
  /\ \A m \in sent : BehindSending(st[m.from], m.mk) /\ m.id < written[m.from]
  /\ \A m1, m2 \in sent : m1.from = m2.from /\ m1.id = m2.id => m1 = m2
  /\ NoKeyReuse /\ AtMostOnce

\* The documented size of the store: at most MAX_SKIP_KEYS skipped keys.
SkipStoreWithinLimit ==
  \A p \in Party : Cardinality(st[p].MKSKIPPED) <= MAX_SKIP_KEYS
=============================================================================
