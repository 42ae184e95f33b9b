------------------------ MODULE DoubleRatchetProofs ------------------------
(***************************************************************************)
(* Proofs about DoubleRatchet, for every pair of parties, every skip limit *)
(* and every number of messages and repeated deliveries.                   *)
(***************************************************************************)
EXTENDS DoubleRatchet, TLAPS

(* Types of the helpers.                                                    *)

\* Mixing a DH output of two key pairs into a root gives a root one longer.
LEMMA MixRootType ==
  ASSUME NEW rk \in Root, NEW a \in Pair, NEW b \in Pair
  PROVE  /\ MixRoot(rk, DH(a, b)) \in Root
         /\ Len(MixRoot(rk, DH(a, b))) = Len(rk) + 1
<1>1. DH(a, b) \in SUBSET Pair
  BY DEF DH
<1>2. QED
  BY <1>1 DEF MixRoot, Root

\* The keys kdfRKHE expands from a root are a chain key and a header key.
LEMMA DerivedKeyType ==
  ASSUME NEW rk \in Root
  PROVE  NewChain(rk) \in ChainKey /\ NextHeader(rk) \in HeaderKey
BY DEF NewChain, NextHeader, ChainKey, HeaderKey

\* A chain key one KDF_CK step on (kdfCK) is a chain key.
LEMMA AdvanceType ==
  ASSUME NEW ck \in ChainKey
  PROVE  Advance(ck) \in ChainKey
BY DEF Advance, ChainKey

\* skipMessageKeys keeps the type of the state, whatever it stores.
LEMMA SkipType ==
  ASSUME NEW s \in RatchetState, NEW until \in Nat
  PROVE  SkipMessageKeys(s, until) \in RatchetState
<1>1. CASE s.CKr = Null \/ s.HKr = Null \/ until <= s.Nr
  BY <1>1 DEF SkipMessageKeys
<1>2. CASE ~(s.CKr = Null \/ s.HKr = Null \/ until <= s.Nr)
  <2>1. s.CKr \in ChainKey /\ s.HKr \in HeaderKey /\ s.Nr \in Nat
    BY <1>2 DEF RatchetState
  <2> DEFINE key(i) == [root |-> s.CKr.root, n |-> s.CKr.n + (i - s.Nr)]
  <2>2. \A i \in s.Nr .. until : i \in Nat /\ key(i) \in ChainKey
    BY <2>1 DEF ChainKey
  <2> DEFINE new == {[hk |-> s.HKr, n |-> i, mk |-> key(i)] : i \in s.Nr .. until - 1}
  <2>3. new \subseteq SkippedKey
    <3>1. \A i \in s.Nr .. until - 1 : i \in s.Nr .. until
      BY <2>1
    <3> HIDE DEF key
    <3>2. QED
      BY <2>1, <2>2, <3>1 DEF SkippedKey
  <2>4. key(until) \in ChainKey
    BY <2>1, <2>2, <1>2
  <2>5. SkipMessageKeys(s, until) =
          [s EXCEPT !.MKSKIPPED = @ \union new, !.CKr = key(until), !.Nr = until]
    BY <1>2 DEF SkipMessageKeys
  <2>6. s.MKSKIPPED \union new \in SUBSET SkippedKey
    BY <2>3 DEF RatchetState
  <2> HIDE DEF key, new
  <2>7. QED
    BY <2>4, <2>5, <2>6 DEF RatchetState
<1>3. QED
  BY <1>1, <1>2

\* dhRatchetStep keeps the type and always leaves both chains set.
LEMMA DhRatchetStepType ==
  ASSUME NEW s \in RatchetState, NEW dh \in Pair, NEW fresh \in Pair
  PROVE  DhRatchetStep(s, dh, fresh) \in RatchetState
<1> DEFINE root1 == MixRoot(s.RK, DH(s.DHs, dh))
           root2 == MixRoot(root1, DH(fresh, dh))
<1>1. s.RK \in Root /\ s.DHs \in Pair
  BY DEF RatchetState
<1>2. root1 \in Root
  BY <1>1, MixRootType
<1>3. root2 \in Root
  BY <1>2, MixRootType
<1>4. /\ NewChain(root1) \in ChainKey /\ NextHeader(root1) \in HeaderKey
      /\ NewChain(root2) \in ChainKey /\ NextHeader(root2) \in HeaderKey
  BY <1>2, <1>3, DerivedKeyType
<1>5. DhRatchetStep(s, dh, fresh) =
        [DHs |-> fresh, DHr |-> dh, RK |-> root2,
         CKs |-> NewChain(root2), CKr |-> NewChain(root1),
         Ns |-> 0, Nr |-> 0, PN |-> s.Ns,
         HKs |-> s.NHKs, HKr |-> s.NHKr,
         NHKs |-> NextHeader(root2), NHKr |-> NextHeader(root1),
         MKSKIPPED |-> s.MKSKIPPED]
  BY DEF DhRatchetStep
<1>6. /\ s.Ns \in Nat /\ 0 \in Nat
      /\ s.NHKs \in HeaderKey /\ s.NHKr \in HeaderKey
      /\ s.MKSKIPPED \in SUBSET SkippedKey
  BY DEF RatchetState
<1> HIDE DEF root1, root2
<1>7. QED
  BY <1>3, <1>4, <1>5, <1>6 DEF RatchetState

\* Spending the next receiving key keeps the type.
LEMMA SpendKeyType ==
  ASSUME NEW s \in RatchetState, s.CKr # Null
  PROVE  SpendKey(s) \in RatchetState
<1>1. Advance(s.CKr) \in ChainKey
  BY AdvanceType DEF RatchetState
<1>2. s.Nr + 1 \in Nat
  BY DEF RatchetState
<1>3. QED
  BY <1>1, <1>2 DEF SpendKey, RatchetState

-----------------------------------------------------------------------------
(* What the helpers leave alone.                                            *)

\* skipMessageKeys moves the receiving chain only along its own root, and
\* leaves the root key, the sending chain and the header key alone.
LEMMA SkipFrame ==
  ASSUME NEW s \in RatchetState, NEW until \in Nat
  PROVE  LET t == SkipMessageKeys(s, until) IN
           /\ t.HKr = s.HKr /\ t.RK = s.RK /\ t.CKs = s.CKs
           /\ s.CKr # Null => t.CKr # Null /\ t.CKr.root = s.CKr.root
           /\ s.CKr = Null => t = s
<1>1. CASE s.CKr = Null \/ s.HKr = Null \/ until <= s.Nr
  BY <1>1 DEF SkipMessageKeys
<1>2. CASE ~(s.CKr = Null \/ s.HKr = Null \/ until <= s.Nr)
  <2>1. s.CKr \in ChainKey /\ s.Nr \in Nat
    BY <1>2 DEF RatchetState
  <2> DEFINE ck == [root |-> s.CKr.root, n |-> s.CKr.n + (until - s.Nr)]
  <2>2. ck \in ChainKey /\ ck.root = s.CKr.root
    BY <2>1, <1>2 DEF ChainKey
  <2>3. ck # Null
    BY <2>2, NullAssumption
  <2> HIDE DEF ck
  <2>4. SkipMessageKeys(s, until).CKr = ck
    BY <1>2 DEF SkipMessageKeys, ck, RatchetState
  <2>5. /\ SkipMessageKeys(s, until).HKr = s.HKr
        /\ SkipMessageKeys(s, until).RK = s.RK
        /\ SkipMessageKeys(s, until).CKs = s.CKs
    BY <1>2 DEF SkipMessageKeys, RatchetState
  <2>6. QED
    BY <1>2, <2>2, <2>3, <2>4, <2>5
<1>3. QED
  BY <1>1, <1>2

\* The step of the receiving chain in decrypt changes the chain and nothing else.
LEMMA SpendFrame ==
  ASSUME NEW s \in RatchetState, s.CKr # Null
  PROVE  LET t == SpendKey(s) IN
           /\ t.HKr = s.HKr /\ t.RK = s.RK /\ t.CKs = s.CKs
           /\ t.MKSKIPPED = s.MKSKIPPED
           /\ t.CKr = Advance(s.CKr) /\ t.CKr # Null
<1>1. Advance(s.CKr) \in ChainKey
  BY AdvanceType DEF RatchetState
<1>2. QED
  BY <1>1, NullAssumption DEF SpendKey, RatchetState

-----------------------------------------------------------------------------
(* Type correctness.                                                        *)

\* A delivery keeps the types of the network and of the histories, whether
\* the body opens or decrypt throws.
LEMMA DeliveryType ==
  ASSUME TypeInv, NEW p \in Party, NEW m \in wire, NEW mk,
         Deliver(p, m), OpenBody(p, m, mk) \/ Throw(p, m)
  PROVE  /\ written' \in [Party -> Nat]
         /\ sent' \subseteq Message /\ wire' \subseteq sent'
         /\ dups' \in Nat
         /\ opened' \in [Party -> Seq(sent')]
         /\ refused' \in [Party -> SUBSET sent']
<1>1. /\ written' = written /\ sent' = sent
      /\ wire' \subseteq wire /\ dups' \in Nat
  BY DEF Deliver, TypeInv, TypeOK
<1>2. m \in sent
  BY DEF TypeInv, TypeOK
<1>3. Append(opened[p], m) \in Seq(sent)
  BY <1>2 DEF TypeInv, TypeOK
<1>4. opened' \in [Party -> Seq(sent)] /\ refused' \in [Party -> SUBSET sent]
  BY <1>2, <1>3 DEF OpenBody, Throw, TypeInv, TypeOK
<1>5. QED
  BY <1>1, <1>4 DEF TypeInv, TypeOK

\* Every step of the ratchet keeps the type invariant.
LEMMA TypeStep == TypeInv /\ [Next]_vars => TypeInv'
<1> SUFFICES ASSUME TypeInv, [Next]_vars PROVE TypeInv'
  OBVIOUS
<1>1. ASSUME NEW p \in Party, Encrypt(p) PROVE TypeInv'
  <2>1. /\ st[p] \in RatchetState /\ st[p].CKs \in ChainKey
        /\ st[p].HKs \in HeaderKey
    BY <1>1 DEF Encrypt, TypeInv, TypeOK, RatchetState
  <2> DEFINE t == StepSending(st[p])
  <2>2. Advance(st[p].CKs) \in ChainKey /\ st[p].Ns + 1 \in Nat
    BY <2>1, AdvanceType DEF RatchetState
  <2>3. t \in RatchetState /\ t.CKr = st[p].CKr /\ t.HKr = st[p].HKr
    BY <2>1, <2>2 DEF RatchetState, StepSending
  <2>4. st' = [st EXCEPT ![p] = t]
    BY <1>1 DEF Encrypt
  <2> HIDE DEF t
  <2>5. st' \in [Party -> RatchetState] /\ \A q \in Party : ChainsPaired(st'[q])
    BY <2>3, <2>4 DEF TypeInv, TypeOK, ChainsPaired
  <2>6. NextMessage(p) \in Message
    BY <2>1 DEF NextMessage, Message, RatchetState, TypeInv, TypeOK
  <2>7. sent' \subseteq Message /\ wire' \subseteq sent' /\ sent \subseteq sent'
    BY <1>1, <2>6 DEF Encrypt, TypeInv, TypeOK
  <2>8. Seq(sent) \subseteq Seq(sent')
    BY <2>7
  <2>9. QED
    BY <1>1, <2>5, <2>7, <2>8 DEF Encrypt, TypeInv, TypeOK
<1>2. ASSUME NEW p \in Party, NEW m \in wire, Decrypt(p, m) PROVE TypeInv'
  <2> DEFINE s == st[p]
             r == RatchetFor(p, m)
             Keeps(t) == t \in RatchetState /\ ChainsPaired(t)
  <2>1. s \in RatchetState /\ ChainsPaired(s) /\ m \in Message
    BY DEF TypeInv, TypeOK
  <2>2. /\ m.n \in Nat /\ m.pn \in Nat /\ m.dh \in Pair /\ m.hk \in HeaderKey
        /\ m.hk # Null
    BY <2>1, NullAssumption DEF Message
  <2>3. ASSUME NEW t \in RatchetState, t.CKr # Null, t.HKr # Null, NEW n \in Nat
        PROVE  Keeps(SkipMessageKeys(t, n)) /\ Keeps(SpendKey(SkipMessageKeys(t, n)))
    <3>1. SkipMessageKeys(t, n) \in RatchetState
      BY SkipType
    <3>2. SkipMessageKeys(t, n).CKr # Null /\ SkipMessageKeys(t, n).HKr # Null
      BY <2>3, SkipFrame
    <3> HIDE DEF s, r
    <3>3. Keeps(SkipMessageKeys(t, n))
      BY <3>1, <3>2 DEF ChainsPaired
    <3>4. Keeps(SpendKey(SkipMessageKeys(t, n)))
      BY <3>1, <3>2, SpendKeyType, SpendFrame DEF ChainsPaired
    <3>5. QED
      BY <3>3, <3>4
  <2>4. r \in RatchetState /\ r.CKr # Null /\ r.HKr # Null
    <3>1. SkipMessageKeys(s, m.pn) \in RatchetState
      BY <2>1, <2>2, SkipType
    <3>2. <<p, pairs[p] + 1>> \in Pair
      BY DEF Pair, TypeInv, TypeOK
    <3>3. r \in RatchetState
      BY <2>2, <3>1, <3>2, DhRatchetStepType DEF RatchetFor
    <3>4. r.HKr = SkipMessageKeys(s, m.pn).NHKr
      BY DEF RatchetFor, DhRatchetStep
    <3>5. r.CKr = NewChain(MixRoot(SkipMessageKeys(s, m.pn).RK,
                                   DH(SkipMessageKeys(s, m.pn).DHs, m.dh)))
      BY DEF RatchetFor, DhRatchetStep
    <3>6. SkipMessageKeys(s, m.pn).RK \in Root /\ SkipMessageKeys(s, m.pn).DHs \in Pair
      BY <3>1 DEF RatchetState
    <3>7. r.CKr \in ChainKey
      BY <2>2, <3>5, <3>6, MixRootType, DerivedKeyType
    <3>8. r.HKr \in HeaderKey
      BY <3>1, <3>4 DEF RatchetState
    <3>9. QED
      BY <3>3, <3>7, <3>8, NullAssumption
  <2>5. ASSUME NEW t, Keeps(t), st' = [st EXCEPT ![p] = t], NEW mk,
               pairs' \in [Party -> Nat],
               Deliver(p, m), OpenBody(p, m, mk) \/ Throw(p, m)
        PROVE  TypeInv'
    <3>1. st' \in [Party -> RatchetState] /\ \A q \in Party : ChainsPaired(st'[q])
      BY <2>5 DEF TypeInv, TypeOK
    <3>2. QED
      BY <2>5, <3>1, DeliveryType DEF TypeInv, TypeOK
  <2>6. CASE DecryptSkipped(p, m)
    <3>1. PICK e \in StoredFor(s, m) :
            /\ st' = [st EXCEPT ![p] = DropKey(s, e)]
            /\ OpenBody(p, m, e.mk)
      BY <2>6 DEF DecryptSkipped
    <3> DEFINE t == DropKey(s, e)
    <3>2. s.MKSKIPPED \ {e} \in SUBSET SkippedKey
      BY <2>1 DEF RatchetState
    <3>3. t \in RatchetState /\ t.CKr = s.CKr /\ t.HKr = s.HKr
      BY <2>1, <3>2 DEF RatchetState, DropKey
    <3>4. st' = [st EXCEPT ![p] = t]
      BY <3>1
    <3> HIDE DEF t
    <3>5. Keeps(t)
      BY <2>1, <3>3 DEF ChainsPaired
    <3>6. Deliver(p, m) /\ pairs' \in [Party -> Nat]
      BY <2>6 DEF DecryptSkipped, TypeInv, TypeOK
    <3> HIDE DEF Keeps
    <3>7. QED
      BY <2>5, <3>1, <3>4, <3>5, <3>6
  <2>7. CASE DecryptCurrent(p, m)
    <3>1. s.HKr # Null /\ s.CKr # Null
      BY <2>1, <2>2, <2>7 DEF DecryptCurrent, ChainsPaired
    <3>2. Keeps(SpendKey(SkipMessageKeys(s, m.n)))
      BY <2>1, <2>2, <2>3, <3>1
    <3> HIDE DEF Keeps
    <3>3. QED
      BY <2>5, <2>7, <3>2 DEF DecryptCurrent, TypeInv, TypeOK
  <2>8. CASE DecryptNext(p, m)
    <3>1. Keeps(SpendKey(SkipMessageKeys(r, m.n)))
      BY <2>2, <2>3, <2>4
    <3>2. Deliver(p, m) /\ pairs' \in [Party -> Nat]
      BY <2>8 DEF DecryptNext, StartsNextChain, TypeInv, TypeOK
    <3> HIDE DEF Keeps
    <3>3. QED
      BY <2>5, <2>8, <3>1, <3>2 DEF DecryptNext
  <2>9. CASE RefuseAfterRatchet(p, m)
    <3>1. Keeps(r)
      BY <2>4 DEF ChainsPaired
    <3>2. Deliver(p, m) /\ pairs' \in [Party -> Nat]
      BY <2>9 DEF RefuseAfterRatchet, StartsNextChain, TypeInv, TypeOK
    <3> HIDE DEF Keeps
    <3>3. QED
      BY <2>5, <2>9, <3>1, <3>2 DEF RefuseAfterRatchet
  <2>10. CASE RefuseGap(p, m) \/ RefuseHeader(p, m)
    <3>1. Deliver(p, m) /\ Throw(p, m) /\ st' = st /\ pairs' = pairs
      BY <2>10 DEF RefuseGap, RefuseHeader
    <3>2. QED
      BY <3>1, DeliveryType DEF TypeInv, TypeOK
  <2>11. QED
    BY <1>2, <2>6, <2>7, <2>8, <2>9, <2>10 DEF Decrypt
<1>3. CASE UNCHANGED vars
  BY <1>3 DEF vars, TypeInv, TypeOK
<1>4. QED
  BY <1>1, <1>2, <1>3 DEF Next

\* initSender and initReceiver build well-typed ratchets.
LEMMA TypeInit == Init => TypeInv
<1> SUFFICES ASSUME Init PROVE TypeInv
  OBVIOUS
<1> DEFINE root == MixRoot(<<>>, DH(<<Initiator, 1>>, SignedPreKey))
<1>1. /\ <<Initiator, 1>> \in Pair /\ SignedPreKey \in Pair
  BY DEF Pair, Party, SignedPreKey
<1>2. <<>> \in Root
  BY DEF Root
<1>3. root \in Root
  BY <1>1, <1>2, MixRootType
<1>4. /\ HeaderKey0 \in HeaderKey /\ NextHeaderKey0 \in HeaderKey
      /\ NextHeader(root) \in HeaderKey /\ NewChain(root) \in ChainKey
  BY <1>2, <1>3, DerivedKeyType DEF HeaderKey0, NextHeaderKey0, HeaderKey
<1>5. InitSender \in RatchetState /\ InitSender.CKr = Null /\ InitSender.HKr = Null
  <2> HIDE DEF root
  <2>1. InitSender =
         [DHs |-> <<Initiator, 1>>, DHr |-> SignedPreKey, RK |-> root,
          CKs |-> NewChain(root), CKr |-> Null, Ns |-> 0, Nr |-> 0, PN |-> 0,
          HKs |-> HeaderKey0, HKr |-> Null,
          NHKs |-> NextHeader(root), NHKr |-> NextHeaderKey0, MKSKIPPED |-> {}]
    BY DEF InitSender, root
  <2>2. QED
    BY <1>1, <1>3, <1>4, <2>1 DEF RatchetState
<1>6. InitReceiver \in RatchetState /\ InitReceiver.CKr = Null /\ InitReceiver.HKr = Null
  BY <1>1, <1>2, <1>4 DEF InitReceiver, RatchetState
<1>7. st \in [Party -> RatchetState] /\ \A p \in Party : ChainsPaired(st[p])
  BY <1>5, <1>6 DEF Init, ChainsPaired
<1>8. QED
  BY <1>7 DEF Init, TypeInv, TypeOK

\* Type correctness of the ratchet objects, the network and the histories, and
\* the rule that a state with a chain has the header key that goes with it.
THEOREM TypeCorrect == Spec => []TypeInv
BY TypeInit, TypeStep, PTL DEF Spec

-----------------------------------------------------------------------------
(* Spent keys stay spent: the receiving side of one state.                  *)

\* A DH step of dhRatchetStep mixes in two outputs, each of which flips parity.
LEMMA ParitySteps ==
  ASSUME NEW n \in Nat
  PROVE  Parity(n + 2) = Parity(n) /\ Parity(n + 1) # Parity(n)
BY DEF Parity

\* A key is behind the receiving chain however that chain was moved on, as
\* long as the root is the same.
LEMMA BehindReceivingMoves ==
  ASSUME NEW s \in RatchetState, NEW t \in RatchetState, NEW mk \in ChainKey,
         BehindReceiving(s, mk), t.RK = s.RK, t.CKr # Null,
         t.CKr.root = s.CKr.root, t.CKr.n >= s.CKr.n
  PROVE  BehindReceiving(t, mk)
<1>1. /\ s.CKr \in ChainKey /\ t.CKr \in ChainKey
  BY DEF RatchetState, BehindReceiving
<1>2. mk.root = t.CKr.root => mk.n < t.CKr.n
  BY <1>1 DEF BehindReceiving, ChainKey
<1>3. QED
  BY <1>2 DEF BehindReceiving

\* Keys skipMessageKeys stores are new: none was read or stored before.
LEMMA SkipSafe ==
  ASSUME NEW s \in RatchetState, NEW until \in Nat, NEW read \in SUBSET ChainKey,
         ReceiveSafe(s, read)
  PROVE  ReceiveSafe(SkipMessageKeys(s, until), read)
<1> DEFINE t == SkipMessageKeys(s, until)
<1>1. CASE s.CKr = Null \/ s.HKr = Null \/ until <= s.Nr
  BY <1>1 DEF SkipMessageKeys
<1>2. CASE ~(s.CKr = Null \/ s.HKr = Null \/ until <= s.Nr)
  <2>1. /\ s.CKr \in ChainKey /\ s.Nr \in Nat /\ s.MKSKIPPED \in SUBSET SkippedKey
        /\ s.CKr.root \in Root /\ s.CKr.n \in Nat
    BY <1>2 DEF RatchetState, ChainKey
  <2> DEFINE key(i) == [root |-> s.CKr.root, n |-> s.CKr.n + (i - s.Nr)]
             entry(i) == [hk |-> s.HKr, n |-> i, mk |-> key(i)]
             new == {entry(i) : i \in s.Nr .. until - 1}
  <2>2. t.MKSKIPPED = s.MKSKIPPED \union new /\ t.CKr = key(until)
    BY <1>2 DEF SkipMessageKeys, RatchetState
  <2>3. t \in RatchetState /\ t.RK = s.RK /\ t.CKr # Null /\ t.CKr.root = s.CKr.root
    BY <1>2, SkipType, SkipFrame
  <2>4. t.CKr.n = s.CKr.n + (until - s.Nr)
    BY <2>2
  <2>5. \A e \in new : \E i \in s.Nr .. until - 1 : e = entry(i)
    OBVIOUS
  <2>6. \A i \in s.Nr .. until - 1 :
          /\ key(i) \in ChainKey /\ key(i).root = s.CKr.root
          /\ key(i).n >= s.CKr.n /\ key(i).n < t.CKr.n
          /\ entry(i).mk = key(i)
    BY <2>1, <2>4 DEF ChainKey
  <2>7. \A i, j \in s.Nr .. until - 1 : key(i) = key(j) => i = j
    BY <2>1
  <2> HIDE DEF t, key, entry, new
  <2>8. \A mk \in read \union StoredKeys(s) :
          mk \in ChainKey /\ BehindReceiving(s, mk)
    BY <2>1 DEF ReceiveSafe, StoredKeys, SkippedKey
  <2>9. t.CKr.n >= s.CKr.n
    BY <1>2, <2>1, <2>4
  <2>10. \A mk \in read \union StoredKeys(s) : BehindReceiving(t, mk)
    BY <2>3, <2>8, <2>9, BehindReceivingMoves
  <2>11. \A mk \in read \union StoredKeys(s) : \A i \in s.Nr .. until - 1 : mk # key(i)
    BY <2>1, <2>6, <2>8 DEF BehindReceiving, ChainKey
  <2>12. StoredKeys(t) = StoredKeys(s) \union {e.mk : e \in new}
    BY <2>2 DEF StoredKeys
  <2>13. \A mk \in {e.mk : e \in new} : \E i \in s.Nr .. until - 1 : mk = key(i)
    BY <2>5, <2>6
  <2>14. Len(s.RK) = Len(s.CKr.root) + 1 /\ Len(s.CKr.root) \in Nat
    BY <1>2, <2>1 DEF ReceiveSafe, Root
  <2>15. \A i \in s.Nr .. until - 1 : BehindReceiving(t, key(i))
    <3>1. Parity(Len(s.CKr.root)) # Parity(Len(s.RK))
      BY <2>14, ParitySteps
    <3>2. QED
      BY <2>3, <2>6, <2>14, <3>1 DEF BehindReceiving
  <2>16. \A mk \in read \union StoredKeys(t) : BehindReceiving(t, mk)
    BY <2>10, <2>12, <2>13, <2>15
  <2>17. read \intersect StoredKeys(t) = {}
    BY <2>11, <2>12, <2>13 DEF ReceiveSafe
  <2>18. \A e1, e2 \in t.MKSKIPPED : e1.mk = e2.mk => e1 = e2
    <3>1. \A e \in s.MKSKIPPED : e.mk \in StoredKeys(s)
      BY DEF StoredKeys
    <3>2. \A e1, e2 \in new : e1.mk = e2.mk => e1 = e2
      BY <2>5, <2>6, <2>7
    <3>3. \A e1 \in s.MKSKIPPED, e2 \in new : e1.mk # e2.mk
      BY <2>5, <2>6, <2>11, <3>1
    <3>4. QED
      BY <2>2, <3>2, <3>3 DEF ReceiveSafe
  <2>19. QED
    BY <2>3, <2>14, <2>16, <2>17, <2>18 DEF ReceiveSafe, t
<1>3. QED
  BY <1>1, <1>2

\* Any DH step leaves every key of the chains before it behind.
LEMMA DhRatchetStepSafe ==
  ASSUME NEW s \in RatchetState, NEW dh \in Pair, NEW fresh \in Pair,
         NEW read \in SUBSET ChainKey, ReceiveSafe(s, read)
  PROVE  LET t == DhRatchetStep(s, dh, fresh) IN
           /\ ReceiveSafe(t, read) /\ SendSafe(t)
           /\ Len(t.RK) = Len(s.RK) + 2
<1> DEFINE t == DhRatchetStep(s, dh, fresh)
           root1 == MixRoot(s.RK, DH(s.DHs, dh))
           root2 == MixRoot(root1, DH(fresh, dh))
<1>1. s.RK \in Root /\ s.DHs \in Pair /\ s.MKSKIPPED \in SUBSET SkippedKey
  BY DEF RatchetState
<1>2. root1 \in Root /\ Len(root1) = Len(s.RK) + 1
  BY <1>1, MixRootType
<1>3. root2 \in Root /\ Len(root2) = Len(root1) + 1
  BY <1>2, MixRootType
<1>4. /\ t.RK = root2 /\ t.CKr = NewChain(root1) /\ t.CKs = NewChain(root2)
      /\ t.MKSKIPPED = s.MKSKIPPED
  BY DEF DhRatchetStep
<1> HIDE DEF t, root1, root2
<1>5. t.CKr.root = root1 /\ t.CKs.root = root2 /\ t.CKr # Null
  BY <1>2, <1>4, DerivedKeyType, NullAssumption DEF NewChain
<1>6. Len(s.RK) \in Nat
  BY <1>1 DEF Root
<1>7. StoredKeys(t) = StoredKeys(s)
  BY <1>4 DEF StoredKeys
<1>8. ASSUME NEW mk \in read \union StoredKeys(s) PROVE BehindReceiving(t, mk)
  <2>1. BehindReceiving(s, mk) /\ Len(s.RK) = Len(s.CKr.root) + 1
    BY DEF ReceiveSafe, BehindReceiving
  <2>2. mk \in ChainKey /\ Len(mk.root) \in Nat /\ s.CKr \in ChainKey
    BY <1>1, <2>1 DEF StoredKeys, SkippedKey, ChainKey, Root, BehindReceiving, RatchetState
  <2>3. Len(s.CKr.root) \in Nat
    BY <2>2 DEF ChainKey, Root
  <2>4. Len(mk.root) <= Len(s.CKr.root) /\ Parity(Len(mk.root)) # Parity(Len(s.RK))
    BY <2>1 DEF BehindReceiving
  <2>5. Len(mk.root) < Len(root1)
    BY <1>2, <2>1, <2>2, <2>3, <2>4
  <2>6. Parity(Len(t.RK)) = Parity(Len(s.RK))
    <3>1. Len(t.RK) = Len(s.RK) + 2
      BY <1>2, <1>3, <1>4, <1>6
    <3>2. QED
      BY <1>6, <3>1, ParitySteps
  <2>7. QED
    BY <1>5, <2>2, <1>2, <1>6, <2>4, <2>5, <2>6 DEF BehindReceiving
<1>9. QED
  BY <1>2, <1>3, <1>4, <1>5, <1>6, <1>7, <1>8 DEF ReceiveSafe, SendSafe, t

\* The key SpendKey spends was not read before, and is behind afterwards.
LEMMA SpendSafe ==
  ASSUME NEW s \in RatchetState, NEW read \in SUBSET ChainKey,
         ReceiveSafe(s, read), s.CKr # Null
  PROVE  s.CKr \notin read /\ ReceiveSafe(SpendKey(s), read \union {s.CKr})
<1> DEFINE t == SpendKey(s)
<1>1. /\ s.CKr \in ChainKey /\ s.CKr.root \in Root /\ s.CKr.n \in Nat
      /\ s.MKSKIPPED \in SUBSET SkippedKey
  BY DEF RatchetState, ChainKey
<1>2. /\ t \in RatchetState /\ t.RK = s.RK /\ t.MKSKIPPED = s.MKSKIPPED
      /\ t.CKr = Advance(s.CKr) /\ t.CKr # Null
  BY SpendKeyType, SpendFrame
<1>3. t.CKr.root = s.CKr.root /\ t.CKr.n = s.CKr.n + 1
  BY <1>2 DEF Advance
<1> HIDE DEF t
<1>4. ~BehindReceiving(s, s.CKr)
  BY <1>1 DEF BehindReceiving
<1>5. s.CKr \notin read \union StoredKeys(s)
  BY <1>4 DEF ReceiveSafe
<1>6. StoredKeys(t) = StoredKeys(s) /\ StoredKeys(s) \subseteq ChainKey
  BY <1>1, <1>2 DEF StoredKeys, SkippedKey
<1>7. \A mk \in read \union StoredKeys(s) : BehindReceiving(t, mk)
  BY <1>1, <1>2, <1>3, <1>6, BehindReceivingMoves DEF ReceiveSafe
<1>8. Len(s.RK) = Len(s.CKr.root) + 1 /\ Len(s.CKr.root) \in Nat
  BY <1>1 DEF ReceiveSafe, Root
<1>9. BehindReceiving(t, s.CKr)
  <2>1. Parity(Len(s.CKr.root)) # Parity(Len(t.RK))
    BY <1>2, <1>8, ParitySteps
  <2>2. Len(s.CKr.root) <= Len(t.CKr.root) /\ s.CKr.n < t.CKr.n
    BY <1>1, <1>3, <1>8
  <2>3. QED
    BY <1>2, <2>1, <2>2 DEF BehindReceiving
<1>10. QED
  BY <1>2, <1>3, <1>5, <1>6, <1>7, <1>8, <1>9 DEF ReceiveSafe, t

\* A stored key was not read before, and is gone once it is used.
LEMMA DropSafe ==
  ASSUME NEW s \in RatchetState, NEW read \in SUBSET ChainKey,
         ReceiveSafe(s, read), NEW e \in s.MKSKIPPED
  PROVE  e.mk \notin read /\ ReceiveSafe(DropKey(s, e), read \union {e.mk})
<1> DEFINE t == DropKey(s, e)
<1>1. /\ t.RK = s.RK /\ t.CKr = s.CKr /\ t.MKSKIPPED = s.MKSKIPPED \ {e}
  BY DEF DropKey, RatchetState
<1> HIDE DEF t
<1>2. StoredKeys(t) = StoredKeys(s) \ {e.mk} /\ e.mk \in StoredKeys(s)
  BY <1>1 DEF StoredKeys, ReceiveSafe
<1>3. \A mk \in read \union StoredKeys(s) : BehindReceiving(t, mk)
  BY <1>1 DEF ReceiveSafe, BehindReceiving
<1>4. QED
  BY <1>1, <1>2, <1>3 DEF ReceiveSafe, t

-----------------------------------------------------------------------------
(* The key properties as one inductive invariant.                           *)

\* What every way through decrypt does to the sending side of the state: the
\* keys it has used stay behind, and the root keeps its parity.
SendKept(s, t) ==
  /\ SendSafe(t)
  /\ Parity(Len(t.RK)) = Parity(Len(s.RK))
  /\ \A mk \in ChainKey : BehindSending(s, mk) => BehindSending(t, mk)

\* What leaves root and sending chain alone keeps used keys behind the chain.
LEMMA SameSendingKept ==
  ASSUME NEW s \in RatchetState, NEW t, t.RK = s.RK, t.CKs = s.CKs, SendSafe(s)
  PROVE  SendKept(s, t)
BY DEF SendKept, SendSafe, BehindSending

\* dhRatchetStep opens a longer sending chain, so used keys stay behind it.
LEMMA DhRatchetStepKept ==
  ASSUME NEW s \in RatchetState, NEW dh \in Pair, NEW fresh \in Pair, SendSafe(s)
  PROVE  SendKept(s, DhRatchetStep(s, dh, fresh))
<1> DEFINE t == DhRatchetStep(s, dh, fresh)
           root1 == MixRoot(s.RK, DH(s.DHs, dh))
           root2 == MixRoot(root1, DH(fresh, dh))
<1>1. s.RK \in Root /\ s.DHs \in Pair
  BY DEF RatchetState
<1>2. root1 \in Root /\ Len(root1) = Len(s.RK) + 1
  BY <1>1, MixRootType
<1>3. root2 \in Root /\ Len(root2) = Len(root1) + 1
  BY <1>2, MixRootType
<1>4. t.RK = root2 /\ t.CKs = NewChain(root2)
  BY DEF DhRatchetStep
<1> HIDE DEF t, root1, root2
<1>5. t.CKs.root = root2 /\ t.CKs # Null
  BY <1>3, <1>4, DerivedKeyType, NullAssumption DEF NewChain
<1>6. Len(s.RK) \in Nat /\ Len(root2) = Len(s.RK) + 2
  BY <1>1, <1>2, <1>3 DEF Root
<1>7. Parity(Len(t.RK)) = Parity(Len(s.RK))
  BY <1>4, <1>6, ParitySteps
<1>8. ASSUME NEW mk \in ChainKey, BehindSending(s, mk) PROVE BehindSending(t, mk)
  <2>1. Len(mk.root) \in Nat /\ Len(mk.root) <= Len(s.RK)
    BY <1>8 DEF ChainKey, Root, BehindSending, SendSafe
  <2>2. Len(mk.root) < Len(root2)
    BY <1>6, <2>1
  <2>3. QED
    BY <1>5, <1>6, <1>7, <1>8, <2>1, <2>2 DEF BehindSending
<1>9. QED
  BY <1>4, <1>5, <1>7, <1>8 DEF SendKept, SendSafe, t

\* A message delivered to p is the peer's, and its key is one it sent with.
\* If p's state t keeps the sending side, and the key tried is new to p and
\* spent in t, all the key properties hold after the delivery.
LEMMA ReceiveStep ==
  ASSUME TypeInv, KeysSpentOnce, NEW p \in Party, NEW m \in wire,
         NEW t, st' = [st EXCEPT ![p] = t], SendKept(st[p], t),
         Deliver(p, m), NEW mk,
         \/ /\ mk \notin ReadKeys(p) /\ ReceiveSafe(t, ReadKeys(p) \union {mk})
            /\ OpenBody(p, m, mk)
         \/ ReceiveSafe(t, ReadKeys(p)) /\ Throw(p, m)
  PROVE  KeysSpentOnce'
<1>1. /\ sent' = sent /\ written' = written /\ m \in sent /\ m.from = Peer(p)
      /\ st'[p] = t /\ \A q \in Party : q # p => st'[q] = st[q]
  BY DEF Deliver, TypeInv, TypeOK
<1>2. \A q \in Party : opened[q] \in Seq(sent)
  BY DEF TypeInv, TypeOK
<1>3. \A q \in Party : q # p => opened'[q] = opened[q] /\ ReadKeys(q)' = ReadKeys(q)
  BY DEF OpenBody, Throw, TypeInv, TypeOK, ReadKeys
<1>4. /\ ReceiveSafe(t, ReadKeys(p)')
      /\ \A i \in 1 .. Len(opened'[p]) : opened'[p][i].from = Peer(p)
      /\ \A i, j \in 1 .. Len(opened'[p]) : opened'[p][i] = opened'[p][j] => i = j
  <2>1. CASE opened'[p] = opened[p] /\ ReceiveSafe(t, ReadKeys(p))
    <3>1. ReadKeys(p)' = ReadKeys(p)
      BY <2>1 DEF ReadKeys
    <3>2. QED
      BY <2>1, <3>1 DEF KeysSpentOnce, AtMostOnce
  <2>2. CASE opened'[p] = opened[p] /\ ReceiveSafe(t, ReadKeys(p) \union {mk})
    <3>1. ReadKeys(p)' = ReadKeys(p)
      BY <2>2 DEF ReadKeys
    <3>2. ReceiveSafe(t, ReadKeys(p))
      BY <2>2 DEF ReceiveSafe
    <3>3. QED
      BY <2>2, <3>1, <3>2 DEF KeysSpentOnce, AtMostOnce
  <2>3. CASE /\ opened'[p] = Append(opened[p], m) /\ m.mk = mk
             /\ mk \notin ReadKeys(p) /\ ReceiveSafe(t, ReadKeys(p) \union {mk})
    <3> DEFINE o == opened[p]
               k == Len(o) + 1
    <3>1. /\ o \in Seq(sent) /\ Len(o) \in Nat
          /\ Len(opened'[p]) = k /\ opened'[p][k] = m
          /\ \A i \in 1 .. Len(o) : opened'[p][i] = o[i]
      BY <1>1, <1>2, <2>3
    <3>2. \A i \in 1 .. Len(o) : o[i].mk \in ReadKeys(p) /\ o[i] # m
      BY <2>3 DEF ReadKeys
    <3>3. 1 .. k = (1 .. Len(o)) \union {k}
      BY <3>1
    <3> HIDE DEF o, k
    <3>4. ReadKeys(p)' = ReadKeys(p) \union {mk}
      BY <2>3, <3>1, <3>3 DEF ReadKeys, o
    <3>5. /\ \A i \in 1 .. Len(o) : o[i].from = Peer(p)
          /\ \A i, j \in 1 .. Len(o) : o[i] = o[j] => i = j
      BY DEF KeysSpentOnce, AtMostOnce, o
    <3>6. \A i \in 1 .. k : opened'[p][i].from = Peer(p)
      BY <1>1, <3>1, <3>3, <3>5
    <3>7. \A i, j \in 1 .. k : opened'[p][i] = opened'[p][j] => i = j
      BY <3>1, <3>2, <3>3, <3>5
    <3>8. QED
      BY <2>3, <3>1, <3>4, <3>6, <3>7
  <2>4. QED
    BY <2>1, <2>2, <2>3 DEF OpenBody, Throw, TypeInv, TypeOK
<1>5. \A q \in Party :
        /\ RootParity(q)'
        /\ SendSafe(st'[q])
        /\ ReceiveSafe(st'[q], ReadKeys(q)')
        /\ \A i \in 1 .. Len(opened'[q]) : opened'[q][i].from = Peer(q)
  BY <1>1, <1>3, <1>4 DEF KeysSpentOnce, RootParity, SendKept
<1>6. AtMostOnce'
  BY <1>3, <1>4 DEF KeysSpentOnce, AtMostOnce
<1>7. \A n \in sent' : BehindSending(st'[n.from], n.mk) /\ n.id < written'[n.from]
  <2>1. \A n \in sent : n.mk \in ChainKey /\ n.from \in Party
    BY DEF TypeInv, TypeOK, Message
  <2>2. QED
    BY <1>1, <2>1 DEF KeysSpentOnce, SendKept
<1>8. QED
  BY <1>1, <1>5, <1>6, <1>7 DEF KeysSpentOnce, NoKeyReuse

\* encrypt takes a key nobody has used: behind its own chain once used, and
\* of the other parity than every key of the peer.
LEMMA EncryptKeepsKeys ==
  ASSUME TypeInv, KeysSpentOnce, NEW p \in Party, Encrypt(p)
  PROVE  KeysSpentOnce'
<1> DEFINE s == st[p]
           t == StepSending(s)
           new == NextMessage(p)
<1>1. /\ s \in RatchetState /\ s.CKs # Null /\ s.CKs \in ChainKey
      /\ s.CKs.root \in Root /\ s.CKs.n \in Nat /\ SendSafe(s)
  BY DEF Encrypt, TypeInv, TypeOK, RatchetState, ChainKey, KeysSpentOnce
<1>2. /\ Advance(s.CKs) \in ChainKey /\ Advance(s.CKs) # Null
      /\ Advance(s.CKs).root = s.CKs.root /\ Advance(s.CKs).n = s.CKs.n + 1
  BY <1>1, AdvanceType, NullAssumption DEF Advance
<1>3. /\ t.RK = s.RK /\ t.CKr = s.CKr /\ t.MKSKIPPED = s.MKSKIPPED
      /\ t.CKs = Advance(s.CKs)
  BY <1>1 DEF StepSending, RatchetState
<1>4. /\ st' = [st EXCEPT ![p] = t] /\ opened' = opened
      /\ sent' = sent \union {new} /\ written' = [written EXCEPT ![p] = @ + 1]
  BY DEF Encrypt
<1>5. new.from = p /\ new.mk = s.CKs /\ new.id = written[p]
  BY DEF NextMessage
<1> HIDE DEF s, t, new
<1>6. st'[p] = t /\ \A q \in Party : q # p => st'[q] = st[q]
  BY <1>4 DEF TypeInv, TypeOK
<1>7. SendSafe(t) /\ Parity(Len(t.RK)) = Parity(Len(s.RK))
  BY <1>1, <1>2, <1>3 DEF SendSafe
<1>8. \A n \in sent : /\ n.mk \in ChainKey /\ n.from \in Party
                      /\ n.mk.n \in Nat /\ n.id \in Nat
  BY DEF TypeInv, TypeOK, Message, ChainKey
<1>9. \A mk \in ChainKey : BehindSending(s, mk) => BehindSending(t, mk)
  <2> TAKE mk \in ChainKey
  <2>1. mk.n \in Nat
    BY DEF ChainKey
  <2>2. QED
    BY <1>1, <1>2, <1>3, <2>1 DEF BehindSending
<1>10. BehindSending(t, s.CKs)
  <2>1. Len(s.CKs.root) \in Nat /\ s.CKs.root = s.RK
    BY <1>1 DEF Root, SendSafe
  <2>2. QED
    BY <1>1, <1>2, <1>3, <2>1 DEF BehindSending
<1>11. \A q \in Party : written[q] \in Nat
  BY DEF TypeInv, TypeOK
<1>12. \A n \in sent' : BehindSending(st'[n.from], n.mk) /\ n.id < written'[n.from]
  <2>1. ASSUME NEW n \in sent
        PROVE  BehindSending(st'[n.from], n.mk) /\ n.id < written'[n.from]
    <3>1. BehindSending(st[n.from], n.mk) /\ n.id < written[n.from]
      BY DEF KeysSpentOnce
    <3>2. BehindSending(st'[n.from], n.mk)
      BY <1>6, <1>8, <1>9, <3>1 DEF s
    <3>3. written'[n.from] = written[n.from] \/ written'[n.from] = written[n.from] + 1
      BY <1>4, <1>8 DEF TypeInv, TypeOK
    <3>4. QED
      BY <1>8, <1>11, <3>1, <3>2, <3>3
  <2>2. BehindSending(st'[new.from], new.mk) /\ new.id < written'[new.from]
    BY <1>4, <1>5, <1>6, <1>10, <1>11 DEF TypeInv, TypeOK
  <2>3. QED
    BY <1>4, <2>1, <2>2
<1>13. \A n \in sent : n.mk # new.mk
  <2> TAKE n \in sent
  <2>1. BehindSending(st[n.from], n.mk)
    BY DEF KeysSpentOnce
  <2>2. CASE n.from = p
    BY <1>1, <1>5, <2>1, <2>2 DEF BehindSending, s
  <2>3. CASE n.from # p
    <3>1. Parity(Len(n.mk.root)) = Parity(Len(st[n.from].RK))
      BY <2>1 DEF BehindSending
    <3>2. Parity(Len(st[n.from].RK)) # Parity(Len(s.RK))
      BY <1>8, <2>3, PartyAssumption DEF KeysSpentOnce, RootParity, Party, s
    <3>3. s.CKs.root = s.RK
      BY <1>1 DEF SendSafe
    <3>4. QED
      BY <1>5, <3>1, <3>2, <3>3
  <2>4. QED
    BY <2>2, <2>3
<1>14. NoKeyReuse'
  BY <1>4, <1>13 DEF NoKeyReuse, KeysSpentOnce
<1>15. \A m1, m2 \in sent' : m1.from = m2.from /\ m1.id = m2.id => m1 = m2
  <2>1. \A n \in sent : ~(n.from = new.from /\ n.id = new.id)
    BY <1>5, <1>8, <1>11 DEF KeysSpentOnce
  <2>2. QED
    BY <1>4, <2>1 DEF KeysSpentOnce
<1>16. \A q \in Party :
        /\ RootParity(q)'
        /\ SendSafe(st'[q])
        /\ ReceiveSafe(st'[q], ReadKeys(q)')
        /\ \A i \in 1 .. Len(opened'[q]) : opened'[q][i].from = Peer(q)
  <2>1. \A q \in Party : ReadKeys(q)' = ReadKeys(q)
    BY <1>4 DEF ReadKeys
  <2>2. \A read : ReceiveSafe(s, read) => ReceiveSafe(t, read)
    BY <1>3 DEF ReceiveSafe, BehindReceiving, StoredKeys
  <2>3. QED
    BY <1>4, <1>6, <1>7, <2>1, <2>2 DEF KeysSpentOnce, RootParity, s
<1>17. AtMostOnce'
  BY <1>4 DEF KeysSpentOnce, AtMostOnce
<1>18. QED
  BY <1>12, <1>14, <1>15, <1>16, <1>17 DEF KeysSpentOnce

\* Every way through decrypt keeps the key properties.
LEMMA DecryptKeepsKeys ==
  ASSUME TypeInv, KeysSpentOnce, NEW p \in Party, NEW m \in wire, Decrypt(p, m)
  PROVE  KeysSpentOnce'
<1> DEFINE s == st[p]
           read == ReadKeys(p)
           c == SkipMessageKeys(s, m.pn)
           r == RatchetFor(p, m)
<1>1. /\ s \in RatchetState /\ m \in Message
      /\ ReceiveSafe(s, read) /\ SendSafe(s) /\ ChainsPaired(s)
  BY DEF TypeInv, TypeOK, KeysSpentOnce
<1>2. m.n \in Nat /\ m.pn \in Nat /\ m.dh \in Pair /\ m.hk \in HeaderKey
  BY <1>1 DEF Message
<1>3. read \in SUBSET ChainKey
  <2>1. \A i \in 1 .. Len(opened[p]) : opened[p][i] \in sent
    BY DEF TypeInv, TypeOK
  <2>2. \A n \in sent : n.mk \in ChainKey
    BY DEF TypeInv, TypeOK, Message
  <2>3. QED
    BY <2>1, <2>2 DEF ReadKeys
<1>4. ASSUME NEW t \in RatchetState, SendKept(s, t), ReceiveSafe(t, read),
             t.CKr # Null, NEW n \in Nat
      PROVE  LET k == SkipMessageKeys(t, n) IN
               /\ SendKept(s, SpendKey(k)) /\ k.CKr \notin read
               /\ ReceiveSafe(SpendKey(k), read \union {k.CKr})
  <2> DEFINE k == SkipMessageKeys(t, n)
  <2>1. /\ k \in RatchetState /\ k.RK = t.RK /\ k.CKs = t.CKs
        /\ k.CKr # Null /\ ReceiveSafe(k, read)
    BY <1>3, <1>4, SkipType, SkipFrame, SkipSafe
  <2> HIDE DEF k, s, read
  <2>2. SpendKey(k).RK = t.RK /\ SpendKey(k).CKs = t.CKs
    BY <2>1, SpendFrame
  <2>3. SendKept(s, SpendKey(k))
    BY <1>4, <2>2 DEF SendKept, SendSafe, BehindSending
  <2>4. QED
    BY <1>3, <2>1, <2>3, SpendSafe DEF k
<1>5. /\ r \in RatchetState /\ SendKept(s, r) /\ ReceiveSafe(r, read)
      /\ r.CKr # Null
  <2>1. /\ c \in RatchetState /\ c.RK = s.RK /\ c.CKs = s.CKs
        /\ ReceiveSafe(c, read)
    BY <1>1, <1>2, <1>3, SkipType, SkipFrame, SkipSafe
  <2>2. SendKept(s, c) /\ SendSafe(c)
    BY <1>1, <2>1, SameSendingKept DEF SendKept
  <2>3. <<p, pairs[p] + 1>> \in Pair
    BY DEF Pair, TypeInv, TypeOK
  <2>4. r = DhRatchetStep(c, m.dh, <<p, pairs[p] + 1>>)
    BY DEF RatchetFor
  <2> HIDE DEF r, c
  <2>5. r \in RatchetState /\ SendKept(c, r) /\ ReceiveSafe(r, read)
    BY <1>2, <1>3, <2>1, <2>2, <2>3, <2>4,
       DhRatchetStepType, DhRatchetStepKept, DhRatchetStepSafe
  <2>6. SendKept(s, r)
    BY <2>2, <2>5 DEF SendKept
  <2>7. r.CKr = NewChain(MixRoot(c.RK, DH(c.DHs, m.dh)))
    BY <2>4 DEF DhRatchetStep
  <2>8. c.RK \in Root /\ c.DHs \in Pair
    BY <2>1 DEF RatchetState
  <2>9. r.CKr \in ChainKey
    BY <1>2, <2>7, <2>8, MixRootType, DerivedKeyType
  <2>10. QED
    BY <2>5, <2>6, <2>9, NullAssumption
<1>6. CASE DecryptSkipped(p, m)
  <2>1. PICK e \in StoredFor(s, m) :
          st' = [st EXCEPT ![p] = DropKey(s, e)] /\ OpenBody(p, m, e.mk)
    BY <1>6 DEF DecryptSkipped
  <2>2. e \in s.MKSKIPPED
    BY DEF StoredFor
  <2>3. e.mk \notin read /\ ReceiveSafe(DropKey(s, e), read \union {e.mk})
    BY <1>1, <1>3, <2>2, DropSafe
  <2>4. DropKey(s, e).RK = s.RK /\ DropKey(s, e).CKs = s.CKs
    BY <1>1 DEF DropKey, RatchetState
  <2>5. SendKept(s, DropKey(s, e))
    BY <1>1, <2>4, SameSendingKept
  <2>6. Deliver(p, m)
    BY <1>6 DEF DecryptSkipped
  <2>7. QED
    BY <2>1, <2>3, <2>5, <2>6, ReceiveStep
<1>7. CASE DecryptCurrent(p, m)
  <2>1. s.CKr # Null
    BY <1>1, <1>2, <1>7, NullAssumption DEF DecryptCurrent, ChainsPaired
  <2>2. SendKept(s, s)
    BY <1>1, SameSendingKept
  <2> DEFINE k == SkipMessageKeys(s, m.n)
  <2>3. /\ SendKept(s, SpendKey(k)) /\ k.CKr \notin read
        /\ ReceiveSafe(SpendKey(k), read \union {k.CKr})
    BY <1>1, <1>2, <1>4, <2>1, <2>2
  <2>4. /\ st' = [st EXCEPT ![p] = SpendKey(k)] /\ OpenBody(p, m, k.CKr)
        /\ Deliver(p, m)
    BY <1>7 DEF DecryptCurrent
  <2> HIDE DEF k
  <2>5. QED
    BY <2>3, <2>4, ReceiveStep
<1>8. CASE DecryptNext(p, m)
  <2> DEFINE k == SkipMessageKeys(r, m.n)
  <2>1. /\ SendKept(s, SpendKey(k)) /\ k.CKr \notin read
        /\ ReceiveSafe(SpendKey(k), read \union {k.CKr})
    BY <1>2, <1>4, <1>5
  <2>2. /\ st' = [st EXCEPT ![p] = SpendKey(k)] /\ OpenBody(p, m, k.CKr)
        /\ Deliver(p, m)
    BY <1>8 DEF DecryptNext, StartsNextChain
  <2> HIDE DEF k
  <2>3. QED
    BY <2>1, <2>2, ReceiveStep
<1>9. CASE RefuseAfterRatchet(p, m)
  <2>1. st' = [st EXCEPT ![p] = r] /\ Throw(p, m) /\ Deliver(p, m)
    BY <1>9 DEF RefuseAfterRatchet, StartsNextChain
  <2> HIDE DEF r
  <2>2. QED
    BY <1>5, <2>1, ReceiveStep
<1>10. CASE RefuseGap(p, m) \/ RefuseHeader(p, m)
  <2>1. st' = st /\ Throw(p, m) /\ Deliver(p, m)
    BY <1>10 DEF RefuseGap, RefuseHeader
  <2>2. st' = [st EXCEPT ![p] = s] /\ SendKept(s, s)
    BY <1>1, <2>1, SameSendingKept DEF TypeInv, TypeOK
  <2>3. QED
    BY <1>1, <2>1, <2>2, ReceiveStep
<1>11. QED
  BY <1>6, <1>7, <1>8, <1>9, <1>10 DEF Decrypt

\* Fresh sessions have neither sent nor read nor stored a key.
LEMMA KeysInit == Init => KeysSpentOnce
<1> SUFFICES ASSUME Init PROVE KeysSpentOnce
  OBVIOUS
<1> DEFINE root == MixRoot(<<>>, DH(<<Initiator, 1>>, SignedPreKey))
<1>1. /\ <<Initiator, 1>> \in Pair /\ SignedPreKey \in Pair /\ <<>> \in Root
  BY DEF Pair, Party, SignedPreKey, Root
<1>2. root \in Root /\ Len(root) = 1
  <2>1. root \in Root /\ Len(root) = Len(<<>>) + 1
    BY <1>1, MixRootType
  <2> HIDE DEF root
  <2>2. QED
    BY <2>1
<1>3. InitSender.RK = root /\ InitSender.CKs = NewChain(root) /\ InitSender.CKr = Null
      /\ InitSender.MKSKIPPED = {}
  BY DEF InitSender
<1>4. InitReceiver.RK = <<>> /\ InitReceiver.CKs = Null /\ InitReceiver.CKr = Null
      /\ InitReceiver.MKSKIPPED = {}
  BY DEF InitReceiver
<1> HIDE DEF root
<1>5. \A p \in Party : opened[p] = <<>> /\ ReadKeys(p) = {}
  BY DEF Init, ReadKeys
<1>6. /\ st[Initiator] = InitSender /\ st[Responder] = InitReceiver /\ sent = {}
  BY PartyAssumption DEF Init, Party
<1>7. RootParity(Initiator) /\ RootParity(Responder)
  <2>1. Parity(0) = 0 /\ Parity(1) = 1 /\ Len(<<>>) = 0
    BY DEF Parity
  <2>2. QED
    BY <1>2, <1>3, <1>4, <1>6, <2>1, PartyAssumption DEF RootParity
<1>8. SendSafe(InitSender) /\ SendSafe(InitReceiver)
  BY <1>3, <1>4 DEF SendSafe, NewChain
<1>9. ReceiveSafe(InitSender, {}) /\ ReceiveSafe(InitReceiver, {})
  BY <1>3, <1>4 DEF ReceiveSafe, StoredKeys
<1>10. ASSUME NEW p \in Party
       PROVE  /\ RootParity(p) /\ SendSafe(st[p]) /\ ReceiveSafe(st[p], ReadKeys(p))
              /\ Len(opened[p]) = 0
  <2>1. p = Initiator \/ p = Responder
    BY DEF Party
  <2>2. Len(opened[p]) = 0
    BY <1>5
  <2>3. QED
    BY <1>5, <1>6, <1>7, <1>8, <1>9, <2>1, <2>2
<1>11. QED
  BY <1>6, <1>10 DEF KeysSpentOnce, NoKeyReuse, AtMostOnce

\* The inductive invariant of the key properties: every key that encrypt used
\* or decrypt spent or stored lies behind the chain of the ratchet that held it.
THEOREM KeysSpentOnceInvariant == Spec => [](TypeInv /\ KeysSpentOnce)
<1>1. TypeInv /\ KeysSpentOnce /\ [Next]_vars => KeysSpentOnce'
  <2> SUFFICES ASSUME TypeInv, KeysSpentOnce, [Next]_vars PROVE KeysSpentOnce'
    OBVIOUS
  <2>1. ASSUME NEW p \in Party, Encrypt(p) PROVE KeysSpentOnce'
    BY <2>1, EncryptKeepsKeys
  <2>2. ASSUME NEW p \in Party, NEW m \in wire, Decrypt(p, m) PROVE KeysSpentOnce'
    BY <2>2, DecryptKeepsKeys
  <2>3. CASE UNCHANGED vars
    <3>1. st' = st /\ opened' = opened /\ sent' = sent /\ written' = written
      BY <2>3 DEF vars
    <3>2. \A q \in Party : ReadKeys(q)' = ReadKeys(q) /\ (RootParity(q)' <=> RootParity(q))
      BY <3>1 DEF ReadKeys, RootParity
    <3>3. QED
      BY <3>1, <3>2 DEF KeysSpentOnce, NoKeyReuse, AtMostOnce
  <2>4. QED
    BY <2>1, <2>2, <2>3 DEF Next
<1>2. QED
  BY <1>1, TypeInit, TypeStep, KeysInit, PTL DEF Spec

\* No two messages of a session are ever closed under one key.
THEOREM KeysAreFresh == Spec => []NoKeyReuse
<1>1. TypeInv /\ KeysSpentOnce => NoKeyReuse
  BY DEF KeysSpentOnce
<1>2. QED
  BY <1>1, KeysSpentOnceInvariant, PTL

\* decrypt returns a message at most once, however often it is delivered.
THEOREM ReadAtMostOnce == Spec => []AtMostOnce
<1>1. TypeInv /\ KeysSpentOnce => AtMostOnce
  BY DEF KeysSpentOnce
<1>2. QED
  BY <1>1, KeysSpentOnceInvariant, PTL

\* No state a party can be in yields the key of a message it has sent or read.
THEOREM ForwardSecret == Spec => []ForwardSecrecy
<1>1. TypeInv /\ KeysSpentOnce => ForwardSecrecy
  <2> SUFFICES ASSUME TypeInv, KeysSpentOnce, NEW p \in Party
               PROVE  /\ \A m \in sent : m.from = p => ~CanDerive(st[p], m.mk)
                      /\ \A i \in 1 .. Len(opened[p]) :
                           ~CanDerive(st[p], opened[p][i].mk)
    BY DEF ForwardSecrecy
  <2> DEFINE s == st[p]
  <2>1. s \in RatchetState /\ SendSafe(s) /\ ReceiveSafe(s, ReadKeys(p))
    BY DEF TypeInv, TypeOK, KeysSpentOnce
  <2>2. \A m \in sent : m.mk \in ChainKey /\ m.mk.n \in Nat
    BY DEF TypeInv, TypeOK, Message, ChainKey
  <2>3. s.CKs # Null => s.CKs.n \in Nat /\ s.CKs.root = s.RK
    BY <2>1 DEF RatchetState, ChainKey, SendSafe
  <2>4. s.CKr # Null =>
          /\ s.CKr.n \in Nat
          /\ Parity(Len(s.CKr.root)) # Parity(Len(s.RK))
    <3>1. ASSUME s.CKr # Null PROVE s.CKr.n \in Nat /\ Len(s.CKr.root) \in Nat
      BY <2>1, <3>1 DEF RatchetState, ChainKey, Root
    <3>2. QED
      BY <2>1, <3>1, ParitySteps DEF ReceiveSafe
  <2>5. \A e \in s.MKSKIPPED : e.mk \in StoredKeys(s)
    BY DEF StoredKeys
  <2> HIDE DEF s
  <2>6. ASSUME NEW m \in sent, m.from = p PROVE ~CanDerive(s, m.mk)
    <3>1. BehindSending(s, m.mk)
      BY <2>6 DEF KeysSpentOnce, s
    <3>2. \A e \in s.MKSKIPPED : e.mk # m.mk
      BY <2>1, <2>5, <3>1 DEF ReceiveSafe, BehindReceiving, BehindSending
    <3>3. ~OnChain(s.CKr, m.mk)
      BY <2>4, <3>1 DEF OnChain, BehindSending
    <3>4. ~OnChain(s.CKs, m.mk)
      BY <2>2, <2>3, <3>1 DEF OnChain, BehindSending
    <3>5. QED
      BY <3>2, <3>3, <3>4 DEF CanDerive
  <2>7. ASSUME NEW i \in 1 .. Len(opened[p]) PROVE ~CanDerive(s, opened[p][i].mk)
    <3> DEFINE mk == opened[p][i].mk
    <3>1. opened[p][i] \in sent
      BY DEF TypeInv, TypeOK
    <3>2. mk \in ReadKeys(p) /\ mk.n \in Nat
      BY <2>2, <3>1 DEF ReadKeys
    <3> HIDE DEF mk
    <3>3. BehindReceiving(s, mk) /\ mk \notin StoredKeys(s)
      BY <2>1, <3>2 DEF ReceiveSafe
    <3>4. ~OnChain(s.CKr, mk)
      BY <2>4, <3>2, <3>3 DEF OnChain, BehindReceiving
    <3>5. ~OnChain(s.CKs, mk)
      BY <2>3, <3>3 DEF OnChain, BehindReceiving
    <3>6. QED
      BY <2>5, <3>3, <3>4, <3>5 DEF CanDerive, mk
  <2>8. QED
    BY <2>6, <2>7 DEF s
<1>2. QED
  BY <1>1, KeysSpentOnceInvariant, PTL

-----------------------------------------------------------------------------
(* The session implements the secure channel.                               *)

WrittenTexts == {Plaintext(m) : m \in sent}
ReadTexts    == [p \in Party |-> [i \in 1 .. Len(opened[p]) |-> Plaintext(opened[p][i])]]

\* Plaintexts tell the messages sent apart.
LEMMA PlaintextUnique ==
  ASSUME KeysSpentOnce, NEW m1 \in sent, NEW m2 \in sent,
         Plaintext(m1) = Plaintext(m2)
  PROVE  m1 = m2
BY DEF KeysSpentOnce, Plaintext

\* encrypt writes a plaintext that is new to the channel.
LEMMA ChannelWrite ==
  ASSUME TypeInv, KeysSpentOnce, NEW p \in Party, Encrypt(p)
  PROVE  Channel!Next
<1> DEFINE new == NextMessage(p)
<1>1. /\ new.from = p /\ new.id = written[p] /\ sent' = sent \union {new}
      /\ opened' = opened /\ written[p] < MaxSent
  BY DEF Encrypt, NextMessage
<1>2. written[p] \in 0 .. MaxSent - 1
  BY <1>1, BoundAssumption DEF TypeInv, TypeOK
<1> HIDE DEF new
<1>3. Plaintext(new) \in [from: Party, id: 0 .. MaxSent - 1]
  BY <1>1, <1>2 DEF Plaintext
<1>4. \A m \in sent : Plaintext(m) # Plaintext(new)
  <2>1. \A m \in sent : m.from = p => m.id < written[p] /\ m.id \in Nat
    BY DEF KeysSpentOnce, TypeInv, TypeOK, Message
  <2>2. QED
    BY <1>1, <1>2, <2>1 DEF Plaintext
<1>5. WrittenTexts' = WrittenTexts \union {Plaintext(new)}
  BY <1>1 DEF WrittenTexts, Plaintext
<1>6. Plaintext(new) \notin WrittenTexts
  BY <1>4 DEF WrittenTexts
<1>7. ReadTexts' = ReadTexts
  BY <1>1 DEF ReadTexts
<1>8. QED
  BY <1>3, <1>5, <1>6, <1>7 DEF Channel!Next, Channel!Write, WrittenTexts, ReadTexts

\* decrypt hands the channel a plaintext of the peer not read before, or leaves
\* the channel as it was.
LEMMA ChannelRead ==
  ASSUME TypeInv, KeysSpentOnce, AtMostOnce', NEW p \in Party, NEW m \in wire,
         Decrypt(p, m)
  PROVE  Channel!Next \/ UNCHANGED Channel!vars
<1>1. sent' = sent /\ m \in sent /\ m.from = Peer(p) /\ m.from # p
  BY PartyAssumption DEF Decrypt, DecryptSkipped, DecryptCurrent, DecryptNext,
     RefuseAfterRatchet, RefuseGap, RefuseHeader, StartsNextChain, Deliver,
     TypeInv, TypeOK, Peer, Party
<1>2. opened' = opened \/ opened' = [opened EXCEPT ![p] = Append(@, m)]
  BY DEF Decrypt, DecryptSkipped, DecryptCurrent, DecryptNext, RefuseAfterRatchet,
     RefuseGap, RefuseHeader, OpenBody, Throw
<1>3. WrittenTexts' = WrittenTexts
  BY <1>1 DEF WrittenTexts
<1>4. CASE opened' = opened
  <2>1. ReadTexts' = ReadTexts
    BY <1>4 DEF ReadTexts
  <2>2. QED
    BY <1>3, <2>1 DEF Channel!vars, WrittenTexts, ReadTexts
<1>5. CASE opened' = [opened EXCEPT ![p] = Append(@, m)]
  <2> DEFINE o == opened[p]
             k == Len(o) + 1
             text(q) == [i \in 1 .. Len(opened[q]) |-> Plaintext(opened[q][i])]
  <2>1. /\ o \in Seq(sent) /\ Len(o) \in Nat
        /\ \A q \in Party : Len(opened[q]) \in Nat
    BY DEF TypeInv, TypeOK
  <2>2. /\ Len(opened'[p]) = k /\ opened'[p][k] = m
        /\ \A i \in 1 .. Len(o) : opened'[p][i] = o[i] /\ o[i] \in sent
        /\ \A q \in Party : q # p => opened'[q] = opened[q]
    BY <1>5, <1>1, <2>1 DEF TypeInv, TypeOK
  <2>3. \A i \in 1 .. Len(o) : o[i] # m
    BY <2>1, <2>2 DEF AtMostOnce
  <2>4. \A i \in 1 .. Len(o) : Plaintext(o[i]) # Plaintext(m)
    BY <1>1, <2>2, <2>3, PlaintextUnique
  <2>5. Plaintext(m) \in WrittenTexts /\ Plaintext(m).from # p
    BY <1>1 DEF WrittenTexts, Plaintext
  <2>6. ReadTexts[p] = text(p) /\ Len(ReadTexts[p]) = Len(o)
        /\ ReadTexts[p] \in Seq({Plaintext(n) : n \in sent})
    BY <2>1, <2>2 DEF ReadTexts
  <2>7. \A i \in 1 .. Len(ReadTexts[p]) : ReadTexts[p][i] # Plaintext(m)
    BY <2>4, <2>6
  <2>8. ReadTexts'[p] = Append(ReadTexts[p], Plaintext(m))
    <3>1. ReadTexts'[p] = [i \in 1 .. k |-> Plaintext(opened'[p][i])]
      BY <2>2 DEF ReadTexts
    <3>2. \A i \in 1 .. Len(o) : ReadTexts[p][i] = Plaintext(o[i])
      BY <2>6
    <3> HIDE DEF o, k
    <3>3. Append(ReadTexts[p], Plaintext(m)) =
            [i \in 1 .. Len(o) + 1 |->
               IF i = Len(o) + 1 THEN Plaintext(m) ELSE ReadTexts[p][i]]
      BY <2>1, <2>6
    <3>4. \A i \in 1 .. Len(o) + 1 : i = Len(o) + 1 \/ i \in 1 .. Len(o)
      BY <2>1
    <3>5. QED
      BY <2>2, <3>1, <3>2, <3>3, <3>4 DEF k
  <2>9. \A q \in Party : q # p => ReadTexts'[q] = ReadTexts[q]
    BY <2>2 DEF ReadTexts
  <2>10. ReadTexts' = [ReadTexts EXCEPT ![p] = Append(@, Plaintext(m))]
    BY <2>8, <2>9 DEF ReadTexts
  <2>11. Channel!Read(p, Plaintext(m))
    BY <1>3, <2>5, <2>7, <2>10 DEF Channel!Read, WrittenTexts, ReadTexts
  <2>12. QED
    BY <2>5, <2>11 DEF Channel!Next, WrittenTexts
<1>6. QED
  BY <1>2, <1>4, <1>5

\* Every behaviour of the session is one of the secure channel: at most once,
\* in any order, only what the peer wrote.
THEOREM SessionIsSecureChannel == Spec => ImplementsChannel
<1>1. Init => Channel!Init
  BY DEF Init, Channel!Init
<1>2. TypeInv /\ KeysSpentOnce /\ AtMostOnce' /\ [Next]_vars
        => [Channel!Next]_(Channel!vars)
  <2> SUFFICES ASSUME TypeInv, KeysSpentOnce, AtMostOnce', [Next]_vars
               PROVE  Channel!Next \/ UNCHANGED Channel!vars
    OBVIOUS
  <2>1. ASSUME NEW p \in Party, Encrypt(p) PROVE Channel!Next
    BY <2>1, ChannelWrite
  <2>2. ASSUME NEW p \in Party, NEW m \in wire, Decrypt(p, m)
        PROVE  Channel!Next \/ UNCHANGED Channel!vars
    BY <2>2, ChannelRead
  <2>3. CASE UNCHANGED vars
    BY <2>3 DEF vars, Channel!vars
  <2>4. QED
    BY <2>1, <2>2, <2>3 DEF Next
<1>3. QED
  BY <1>1, <1>2, KeysSpentOnceInvariant, ReadAtMostOnce, PTL
     DEF Spec, ImplementsChannel, Channel!Spec

-----------------------------------------------------------------------------
(* The two ends in step.  One party took its DH step last and leads: what   *)
(* it derived is what the other derives from the first header it opens.     *)

\* The keys of a ratchet object, in the order of their roots.
Aged(s) ==
  /\ s.NHKs = NextHeader(s.RK)
  /\ s.HKs # Null => Len(s.HKs.root) < Len(s.RK)
  /\ Len(s.NHKr.root) <= Len(s.RK)
  /\ s.HKr # Null => Len(s.HKr.root) < Len(s.NHKr.root)
  /\ \A e \in s.MKSKIPPED : Len(e.hk.root) < Len(s.NHKr.root)

\* The counters number the keys of the chains, and so do the stored keys.
Counted(s) ==
  /\ s.CKs # Null => s.CKs = [root |-> s.RK, n |-> s.Ns]
  /\ s.CKr # Null => s.CKr.n = s.Nr
  /\ \A e \in s.MKSKIPPED : e.hk = s.HKr => e.mk = [root |-> s.CKr.root, n |-> e.n]

\* What a message of s says and which key closed it, if it is of s's chain.
OfChain(s, m) ==
  m.dh = s.DHs /\ m.pn = s.PN /\ m.mk = [root |-> s.RK, n |-> m.n] /\ m.n < s.Ns
SentBy(s, m)      == Len(m.hk.root) < Len(s.RK) /\ (m.hk = s.HKs => OfChain(s, m))
StoredRight(r, m) == \A e \in StoredFor(r, m) : e.mk = m.mk

\* s is one DH step ahead of r, and r opens headers of the chain before.
Leads(s, r) ==
  /\ s.RK = MixRoot(r.RK, DH(s.DHs, r.DHs))
  /\ s.HKs = r.NHKr /\ s.NHKr = r.NHKs /\ s.HKr = r.HKs
  /\ s.CKr # Null => s.CKr.root = r.RK
LastChain(s, r, m) ==
  m.hk = r.HKr => (m.mk = [root |-> r.CKr.root, n |-> m.n] /\ m.n < s.PN)

\* Of the ratchet objects S and the messages M encrypted so far.
InStep(S, M) ==
  /\ \A p \in Party : Aged(S[p]) /\ Counted(S[p])
  /\ \A m \in M : SentBy(S[m.from], m) /\ StoredRight(S[Peer(m.from)], m)
  /\ \E p \in Party : /\ Leads(S[p], S[Peer(p)])
                      /\ \A m \in M : m.from = p => LastChain(S[p], S[Peer(p)], m)

Typed(S, M) ==
  S \in [Party -> RatchetState] /\ M \subseteq Message /\ \A p \in Party : ChainsPaired(S[p])

\* t is s further along its receiving chain, or without a stored key.
SameChains(s, t) ==
  /\ t.DHs = s.DHs /\ t.RK = s.RK /\ t.PN = s.PN
  /\ t.CKs = s.CKs /\ t.Ns = s.Ns
  /\ t.HKs = s.HKs /\ t.HKr = s.HKr /\ t.NHKs = s.NHKs /\ t.NHKr = s.NHKr
Along(s, t) ==
  /\ SameChains(s, t)
  /\ s.CKr = Null => t.CKr = Null /\ t.MKSKIPPED \subseteq s.MKSKIPPED
  /\ s.CKr # Null => t.CKr # Null /\ t.CKr = [root |-> s.CKr.root, n |-> t.Nr]
  /\ \A e \in t.MKSKIPPED :
       e \in s.MKSKIPPED \/ (e.hk = s.HKr /\ e.mk = [root |-> s.CKr.root, n |-> e.n])

\* What decrypt will open message m with: a stored key, the chain received, or
\* the next one.  No other message is forgotten until one is delivered again.
Awaited(r, m) ==
  \/ StoredFor(r, m) # {}
  \/ m.hk = r.NHKr
  \/ m.hk = r.HKr /\ m.n >= r.Nr
NotAhead(S)         == \A p \in Party : S[p].HKr = S[Peer(p)].HKs => S[p].Nr <= S[Peer(p)].Ns
NoneForgotten(S, W) == NotAhead(S) /\ \A m \in W : Awaited(S[Peer(m.from)], m)

LEMMA PeerFacts ==
  ASSUME NEW p \in Party
  PROVE  /\ Peer(p) \in Party /\ Peer(p) # p /\ Peer(Peer(p)) = p
         /\ \A q \in Party : q = p \/ q = Peer(p)
BY PartyAssumption DEF Party, Peer

\* skipMessageKeys: every key up to the number given is stored, none is lost.
LEMMA SkipAlong ==
  ASSUME NEW s \in RatchetState, ChainsPaired(s), Counted(s), NEW until \in Nat
  PROVE  LET t == SkipMessageKeys(s, until) IN
           /\ Along(s, t) /\ ChainsPaired(t) /\ Counted(t)
           /\ s.MKSKIPPED \subseteq t.MKSKIPPED
           /\ t.Nr = IF s.CKr = Null \/ until <= s.Nr THEN s.Nr ELSE until
           /\ s.CKr # Null =>
                \A i \in s.Nr .. until - 1 : \E e \in t.MKSKIPPED : e.hk = s.HKr /\ e.n = i
<1> DEFINE t == SkipMessageKeys(s, until)
<1>1. CASE s.CKr = Null \/ s.HKr = Null \/ until <= s.Nr
  <2>1. t = s
    BY <1>1 DEF SkipMessageKeys
  <2>2. s.CKr # Null => s.CKr = [root |-> s.CKr.root, n |-> s.Nr]
    BY DEF RatchetState, ChainKey, Counted
  <2>3. s.CKr # Null => s.Nr .. until - 1 = {}
    BY <1>1 DEF ChainsPaired, RatchetState
  <2> QED BY <1>1, <2>1, <2>2, <2>3 DEF Along, SameChains, ChainsPaired
<1>2. CASE ~(s.CKr = Null \/ s.HKr = Null \/ until <= s.Nr)
  <2>1. /\ s.CKr \in ChainKey /\ s.Nr \in Nat /\ s.CKr.n = s.Nr /\ s.CKr.root \in Root
    BY <1>2 DEF RatchetState, Counted, ChainKey
  <2> DEFINE key(i) == [root |-> s.CKr.root, n |-> i]
             new == {[hk |-> s.HKr, n |-> i, mk |-> key(i)] : i \in s.Nr .. until - 1}
  <2>2. /\ \A i \in s.Nr .. until - 1 : s.CKr.n + (i - s.Nr) = i
        /\ s.CKr.n + (until - s.Nr) = until
    BY <2>1
  <2>3. t = [s EXCEPT !.MKSKIPPED = @ \union new, !.CKr = key(until), !.Nr = until]
    BY <1>2, <2>2 DEF SkipMessageKeys
  <2>4. /\ t.MKSKIPPED = s.MKSKIPPED \union new /\ t.CKr = key(until) /\ t.Nr = until
        /\ SameChains(s, t)
    BY <2>3 DEF RatchetState, SameChains
  <2>5. key(until) \in ChainKey /\ key(until) # Null
    BY <2>1, NullAssumption DEF ChainKey
  <2>6. \A e \in new : e.hk = s.HKr /\ e.mk = [root |-> s.CKr.root, n |-> e.n]
    OBVIOUS
  <2>7. \A i \in s.Nr .. until - 1 : \E e \in new : e.hk = s.HKr /\ e.n = i
    <3> TAKE i \in s.Nr .. until - 1
    <3>1. [hk |-> s.HKr, n |-> i, mk |-> key(i)] \in new
      OBVIOUS
    <3> QED BY <3>1
  <2>8. /\ ChainsPaired(t)
        /\ t.CKr.n = t.Nr /\ t.CKr.root = s.CKr.root
    BY <1>2, <2>4, <2>5 DEF ChainsPaired, SameChains
  <2> HIDE DEF new, t, key
  <2>9. Counted(t)
    BY <2>4, <2>6, <2>8 DEF Counted, SameChains
  <2>10. Along(s, t)
    BY <1>2, <2>4, <2>5, <2>6 DEF Along, key
  <2> QED BY <1>2, <2>4, <2>7, <2>8, <2>9, <2>10 DEF t
<1> QED BY <1>1, <1>2

\* Spending the next key, and deleting a stored one.
LEMMA SpendAlong ==
  ASSUME NEW s \in RatchetState, ChainsPaired(s), Counted(s), s.CKr # Null
  PROVE  LET t == SpendKey(s) IN
           Along(s, t) /\ ChainsPaired(t) /\ Counted(t) /\ t.Nr = s.Nr + 1 /\ t.MKSKIPPED = s.MKSKIPPED
<1> DEFINE t == SpendKey(s)
<1>1. s.CKr \in ChainKey /\ s.Nr \in Nat /\ s.CKr.n = s.Nr
  BY DEF RatchetState, Counted
<1>2. /\ t.CKr = [root |-> s.CKr.root, n |-> s.Nr + 1] /\ t.Nr = s.Nr + 1
      /\ t.MKSKIPPED = s.MKSKIPPED /\ SameChains(s, t)
  BY <1>1 DEF SpendKey, Advance, RatchetState, SameChains
<1>3. t.CKr # Null
  BY SpendFrame
<1> HIDE DEF t
<1>4. Counted(t)
  BY <1>2 DEF Counted, SameChains
<1> QED BY <1>2, <1>3, <1>4 DEF Along, ChainsPaired, SameChains, t

LEMMA DropAlong ==
  ASSUME NEW s \in RatchetState, ChainsPaired(s), Counted(s), NEW e
  PROVE  LET t == DropKey(s, e) IN
           /\ Along(s, t) /\ ChainsPaired(t) /\ Counted(t)
           /\ t.Nr = s.Nr /\ t.MKSKIPPED = s.MKSKIPPED \ {e}
<1> DEFINE t == DropKey(s, e)
<1>1. t.MKSKIPPED = s.MKSKIPPED \ {e} /\ SameChains(s, t) /\ t.CKr = s.CKr /\ t.Nr = s.Nr
  BY DEF DropKey, RatchetState, SameChains
<1>2. s.CKr # Null => s.CKr = [root |-> s.CKr.root, n |-> s.Nr]
  BY DEF RatchetState, ChainKey, Counted
<1> QED BY <1>1, <1>2 DEF Along, ChainsPaired, SameChains, Counted

\* A header that opens under the receiving header key is of the chain received,
\* and the body opens under the key of its number.
LEMMA HeardRight ==
  ASSUME NEW S, NEW M, Typed(S, M), InStep(S, M), NEW p \in Party, NEW m \in M,
         m.from = Peer(p), m.hk = S[p].HKr
  PROVE  S[p].CKr # Null /\ m.mk = [root |-> S[p].CKr.root, n |-> m.n]
<1>1. S[p].CKr # Null
  BY NullAssumption DEF Typed, ChainsPaired, Message
<1>2. PICK q \in Party : /\ Leads(S[q], S[Peer(q)])
                         /\ \A k \in M : k.from = q => LastChain(S[q], S[Peer(q)], k)
  BY DEF InStep
<1>3. CASE q = p
  BY <1>1, <1>2, <1>3 DEF Leads, InStep, SentBy, OfChain
<1>4. CASE q = Peer(p)
  BY <1>1, <1>2, <1>4, PeerFacts DEF LastChain
<1> QED BY <1>3, <1>4, PeerFacts

\* Moving along the receiving chain keeps the two ends in step.
LEMMA AlongInStep ==
  ASSUME NEW S, NEW M, Typed(S, M), InStep(S, M), NEW p \in Party, NEW t \in RatchetState,
         Along(S[p], t), Counted(t)
  PROVE  InStep([S EXCEPT ![p] = t], M)
<1> DEFINE T == [S EXCEPT ![p] = t]
<1>1. /\ T[p] = t /\ (\A q \in Party : q # p => T[q] = S[q]) /\ SameChains(S[p], t)
      /\ \A m \in M : m.from \in Party /\ Peer(m.from) \in Party
  BY PeerFacts DEF Typed, Along, Message
<1> HIDE DEF T
<1>2. Aged(t)
  <2>1. Aged(S[p]) /\ (S[p].CKr # Null <=> S[p].HKr # Null)
    BY DEF InStep, Typed, ChainsPaired
  <2>2. \A e \in t.MKSKIPPED : Len(e.hk.root) < Len(S[p].NHKr.root)
    <3> TAKE e \in t.MKSKIPPED
    <3>1. CASE e \in S[p].MKSKIPPED
      BY <2>1, <3>1 DEF Aged
    <3>2. CASE e.hk = S[p].HKr /\ S[p].CKr # Null
      BY <2>1, <3>2 DEF Aged
    <3> QED BY <3>1, <3>2 DEF Along
  <2> QED BY <1>1, <2>1, <2>2 DEF Aged, SameChains
<1>3. \A q \in Party : Aged(T[q]) /\ Counted(T[q])
  BY <1>1, <1>2 DEF InStep
<1>4. ASSUME NEW m \in M PROVE SentBy(T[m.from], m)
  BY <1>1 DEF InStep, SentBy, OfChain, SameChains
<1>5. ASSUME NEW m \in M PROVE StoredRight(T[Peer(m.from)], m)
  <2>1. CASE Peer(m.from) # p
    BY <1>1, <2>1 DEF InStep
  <2>2. CASE Peer(m.from) = p
    <3>1. m.from = Peer(p) /\ StoredRight(S[p], m)
      BY <1>1, <2>2, PeerFacts DEF InStep
    <3>2. ASSUME NEW e \in StoredFor(t, m) PROVE e.mk = m.mk
      <4>1. CASE e \in S[p].MKSKIPPED
        BY <3>1, <3>2, <4>1 DEF StoredRight, StoredFor
      <4>2. CASE e.hk = S[p].HKr /\ e.mk = [root |-> S[p].CKr.root, n |-> e.n]
        BY <3>1, <3>2, <4>2, HeardRight DEF StoredFor
      <4> QED BY <4>1, <4>2 DEF Along, StoredFor
    <3> QED BY <1>1, <2>2, <3>2 DEF StoredRight
  <2> QED BY <2>1, <2>2
<1>6. PICK q \in Party : /\ Leads(S[q], S[Peer(q)])
                         /\ \A m \in M : m.from = q => LastChain(S[q], S[Peer(q)], m)
  BY DEF InStep
<1>7. S[p].CKr # Null => t.CKr # Null /\ t.CKr.root = S[p].CKr.root
  BY DEF Along
<1>8. S[p].CKr = Null => t.CKr = Null
  BY DEF Along
<1>9. Leads(T[q], T[Peer(q)])
  BY <1>1, <1>6, <1>7, <1>8, PeerFacts DEF Leads, SameChains
<1>10. ASSUME NEW m \in M, m.from = q PROVE LastChain(T[q], T[Peer(q)], m)
  <2>1. LastChain(S[q], S[Peer(q)], m)
    BY <1>6, <1>10
  <2>2. CASE Peer(q) = p
    <3>0. m.from = Peer(p)
      BY <1>10, <2>2, PeerFacts
    <3>1. m.hk = S[p].HKr => S[p].CKr # Null
      BY <3>0, HeardRight
    <3> QED BY <1>1, <1>7, <2>1, <2>2, <3>1, PeerFacts DEF LastChain, SameChains
  <2>3. CASE q = p
    BY <1>1, <2>1, <2>3, PeerFacts DEF LastChain, SameChains
  <2> QED BY <2>2, <2>3, PeerFacts
<1> QED BY <1>3, <1>4, <1>5, <1>9, <1>10 DEF InStep, T

\* The roots of the header keys a ratchet object holds have a length.
LEMMA RootLengths ==
  ASSUME NEW s \in RatchetState
  PROVE  /\ \A e \in s.MKSKIPPED : e.hk \in HeaderKey /\ Len(e.hk.root) \in Nat
         /\ Len(s.NHKr.root) \in Nat /\ (s.HKr # Null => Len(s.HKr.root) \in Nat)
<1>1. \A hk \in HeaderKey : Len(hk.root) \in Nat
  BY DEF HeaderKey, Root
<1>2. s.MKSKIPPED \subseteq SkippedKey /\ s.NHKr \in HeaderKey /\ (s.HKr # Null => s.HKr \in HeaderKey)
  BY DEF RatchetState
<1>3. \A e \in SkippedKey : e.hk \in HeaderKey
  BY DEF SkippedKey
<1> QED BY <1>1, <1>2, <1>3

\* A header under the next header key tells the key the other end leads with:
\* the DH step taken on it puts this end in the lead.
LEMMA RatchetInStep ==
  ASSUME NEW S, NEW M, Typed(S, M), InStep(S, M), NEW p \in Party, NEW m \in M,
         m.from = Peer(p), m.hk = S[p].NHKr, NEW fresh \in Pair
  PROVE  LET u == DhRatchetStep(S[p], m.dh, fresh)
             q == Peer(p) IN
           /\ InStep([S EXCEPT ![p] = u], M)
           /\ OfChain(S[q], m) /\ u.CKr = [root |-> S[q].RK, n |-> 0]
           /\ Leads(S[q], S[p]) /\ \A k \in M : k.from = q => LastChain(S[q], S[p], k)
<1> DEFINE s == S[p]
           q == Peer(p)
           r == S[q]
           root1 == MixRoot(s.RK, DH(s.DHs, m.dh))
           root2 == MixRoot(root1, DH(fresh, m.dh))
           u == DhRatchetStep(s, m.dh, fresh)
           T == [S EXCEPT ![p] = u]
<1>1. /\ s \in RatchetState /\ r \in RatchetState /\ q \in Party /\ q # p /\ Peer(q) = p
      /\ m \in Message /\ m.dh \in Pair /\ s.RK \in Root /\ s.DHs \in Pair /\ r.RK \in Root
      /\ r.DHs \in Pair /\ Len(r.RK) \in Nat /\ Len(s.RK) \in Nat /\ s.Ns \in Nat
  BY PeerFacts DEF Typed, RatchetState, Message, Root
<1>2. Aged(s) /\ Aged(r) /\ Counted(s) /\ SentBy(r, m)
  BY <1>1 DEF InStep
<1>3. Leads(r, s) /\ \A k \in M : k.from = q => LastChain(r, s, k)
  <2>1. PICK l \in Party : /\ Leads(S[l], S[Peer(l)])
                           /\ \A k \in M : k.from = l => LastChain(S[l], S[Peer(l)], k)
    BY DEF InStep
  <2>2. l # p
    <3>1. ASSUME l = p PROVE FALSE
      <4>1. m.hk = NextHeader(r.RK)
        BY <1>2, <2>1, <3>1 DEF Leads, Aged
      <4>2. m.hk.root = r.RK
        BY <4>1 DEF NextHeader
      <4> QED BY <1>1, <1>2, <4>2 DEF SentBy
    <3> QED BY <3>1
  <2> QED BY <1>1, <2>1, <2>2, PeerFacts
<1>4. OfChain(r, m)
  BY <1>2, <1>3 DEF Leads, SentBy
<1>5. root1 = r.RK
  BY <1>3, <1>4 DEF Leads, OfChain, DH
<1>6. /\ root1 \in Root /\ Len(root1) = Len(s.RK) + 1
      /\ root2 \in Root /\ Len(root2) = Len(root1) + 1
  <2>1. root1 \in Root /\ Len(root1) = Len(s.RK) + 1
    BY <1>1, MixRootType
  <2> HIDE DEF root1
  <2> QED BY <1>1, <2>1, MixRootType
<1>7. /\ u.DHs = fresh /\ u.RK = root2 /\ u.CKs = NewChain(root2) /\ u.CKr = NewChain(root1)
      /\ u.Ns = 0 /\ u.Nr = 0 /\ u.PN = s.Ns /\ u.HKs = s.NHKs /\ u.HKr = s.NHKr
      /\ u.NHKs = NextHeader(root2) /\ u.NHKr = NextHeader(root1) /\ u.MKSKIPPED = s.MKSKIPPED
  BY DEF DhRatchetStep
<1>8. T[p] = u /\ \A l \in Party : l # p => T[l] = S[l]
  BY DEF Typed
<1>9. root2 = MixRoot(r.RK, DH(fresh, r.DHs))
  BY <1>4, <1>5 DEF OfChain
<1>10. NewChain(root1) # Null /\ NewChain(root2) # Null /\ s.NHKr \in HeaderKey /\ s.NHKr # Null
  BY <1>1, <1>6, DerivedKeyType, NullAssumption DEF RatchetState
<1>11. /\ \A e \in s.MKSKIPPED : e.hk \in HeaderKey /\ Len(e.hk.root) \in Nat
       /\ Len(s.NHKr.root) \in Nat
  BY <1>1, RootLengths
<1>12. /\ NextHeader(root1).root = root1 /\ NextHeader(s.RK).root = s.RK
       /\ NewChain(root1) = [root |-> root1, n |-> 0] /\ NewChain(root2) = [root |-> root2, n |-> 0]
  BY DEF NextHeader, NewChain
<1> HIDE DEF s, q, r, root1, root2, u, T
<1>13. Aged(u)
  <2>1. s.NHKs.root = s.RK
    BY <1>2, <1>12 DEF Aged
  <2>2. \A e \in s.MKSKIPPED : Len(e.hk.root) < Len(root1)
    BY <1>1, <1>2, <1>6, <1>11 DEF Aged
  <2> QED BY <1>1, <1>2, <1>6, <1>7, <1>11, <1>12, <2>1, <2>2 DEF Aged
<1>14. Counted(u)
  <2>1. \A e \in s.MKSKIPPED : e.hk # s.NHKr
    BY <1>2, <1>11 DEF Aged
  <2> QED BY <1>7, <1>12, <2>1 DEF Counted
<1>15. \A k \in M : k.from \in Party /\ k.hk \in HeaderKey /\ Len(k.hk.root) \in Nat /\ k.n \in Nat
  BY DEF Typed, Message, HeaderKey, Root
<1>16. ASSUME NEW k \in M PROVE SentBy(T[k.from], k)
  <2>1. CASE k.from # p
    BY <1>8, <1>15, <2>1 DEF InStep
  <2>2. CASE k.from = p
    <3>1. Len(k.hk.root) < Len(s.RK)
      BY <2>2 DEF InStep, SentBy, s
    <3>2. k.hk # u.HKs
      BY <1>2, <1>7, <1>12, <1>1, <1>15, <3>1 DEF Aged
    <3>3. Len(k.hk.root) < Len(u.RK)
      BY <1>1, <1>6, <1>7, <1>15, <3>1
    <3> QED BY <1>8, <2>2, <3>2, <3>3 DEF SentBy
  <2> QED BY <2>1, <2>2
<1>17. ASSUME NEW k \in M PROVE StoredRight(T[Peer(k.from)], k)
  <2>1. T[Peer(k.from)].MKSKIPPED = S[Peer(k.from)].MKSKIPPED
    BY <1>7, <1>8, <1>15, PeerFacts DEF s
  <2> QED BY <2>1 DEF InStep, StoredRight, StoredFor
<1>18. Leads(u, r)
  BY <1>2, <1>3, <1>5, <1>7, <1>9, <1>12 DEF Leads, Aged
<1>19. ASSUME NEW k \in M, k.from = p PROVE LastChain(u, r, k)
  <2>1. ASSUME k.hk = r.HKr PROVE k.mk = [root |-> r.CKr.root, n |-> k.n] /\ k.n < u.PN
    <3>1. r.CKr # Null
      BY <1>1, <1>15, <2>1, NullAssumption DEF Typed, ChainsPaired, r
    <3>2. k.hk = s.HKs /\ r.CKr.root = s.RK
      BY <1>3, <2>1, <3>1 DEF Leads
    <3>3. OfChain(s, k)
      BY <1>19, <3>2 DEF InStep, SentBy, s
    <3> QED BY <1>7, <3>2, <3>3 DEF OfChain
  <2> QED BY <2>1 DEF LastChain
<1>20. \A l \in Party : Aged(T[l]) /\ Counted(T[l])
  BY <1>8, <1>13, <1>14 DEF InStep
<1>21. T[Peer(p)] = r
  BY <1>1, <1>8 DEF q, r
<1>22. InStep(T, M)
  BY <1>8, <1>16, <1>17, <1>18, <1>19, <1>20, <1>21 DEF InStep
<1> QED BY <1>3, <1>4, <1>5, <1>7, <1>12, <1>22 DEF T, u, s, q, r

\* encrypt numbers the message by the chain it takes the key from.
LEMMA EncryptInStep ==
  ASSUME NEW S, NEW M, Typed(S, M), InStep(S, M), NEW p \in Party, NEW m \in Message,
         S[p].CKs # Null, S[p].HKs # Null, m.from = p, m.hk = S[p].HKs, m.dh = S[p].DHs,
         m.pn = S[p].PN, m.n = S[p].Ns, m.mk = S[p].CKs
  PROVE  InStep([S EXCEPT ![p] = StepSending(S[p])], M \union {m})
<1> DEFINE s == S[p]
           r == S[Peer(p)]
           t == StepSending(s)
           T == [S EXCEPT ![p] = t]
<1>1. /\ s \in RatchetState /\ r \in RatchetState /\ Peer(p) \in Party /\ s.Ns \in Nat
      /\ (r.CKr # Null <=> r.HKr # Null)
      /\ Peer(p) # p /\ Peer(Peer(p)) = p /\ \A k \in M : k.from \in Party /\ k.n \in Nat
  BY PeerFacts DEF Typed, RatchetState, Message, ChainsPaired
<1>2. Aged(s) /\ Aged(r) /\ Counted(s) /\ Counted(r) /\ s.CKs = [root |-> s.RK, n |-> s.Ns]
  BY <1>1 DEF InStep, Counted
<1>3. /\ t.CKs = [root |-> s.RK, n |-> s.Ns + 1] /\ t.Ns = s.Ns + 1
      /\ t.DHs = s.DHs /\ t.RK = s.RK /\ t.CKr = s.CKr /\ t.Nr = s.Nr /\ t.PN = s.PN
      /\ t.HKs = s.HKs /\ t.HKr = s.HKr /\ t.NHKs = s.NHKs /\ t.NHKr = s.NHKr
      /\ t.MKSKIPPED = s.MKSKIPPED
  BY <1>1, <1>2 DEF StepSending, Advance, RatchetState
<1>4. T[p] = t /\ \A l \in Party : l # p => T[l] = S[l]
  BY DEF Typed
<1>5. /\ \A e \in r.MKSKIPPED : Len(e.hk.root) \in Nat
      /\ Len(r.NHKr.root) \in Nat /\ (r.HKr # Null => Len(r.HKr.root) \in Nat)
  BY <1>1, RootLengths
<1>6. m.hk = s.HKs /\ m.n = s.Ns /\ m.mk = [root |-> s.RK, n |-> s.Ns] /\ s.HKs # Null /\ s.CKs # Null
  BY <1>2
<1> HIDE DEF s, r, t, T
<1>7. PICK q \in Party : /\ Leads(S[q], S[Peer(q)])
                         /\ \A k \in M : k.from = q => LastChain(S[q], S[Peer(q)], k)
  BY DEF InStep
<1>8. \A l \in Party : Aged(T[l]) /\ Counted(T[l])
  <2>1. Aged(t) /\ Counted(t)
    BY <1>2, <1>3 DEF Aged, Counted
  <2> QED BY <1>4, <2>1 DEF InStep
<1>9. ASSUME NEW k \in M \union {m} PROVE SentBy(T[k.from], k)
  <2>1. CASE k = m
    BY <1>1, <1>2, <1>3, <1>4, <1>6, <2>1 DEF SentBy, OfChain, Aged, s
  <2>2. CASE k \in M
    <3>1. SentBy(S[k.from], k)
      BY <2>2 DEF InStep
    <3>2. CASE k.from = p
      BY <1>1, <1>3, <1>4, <2>2, <3>1, <3>2 DEF SentBy, OfChain, s
    <3>3. CASE k.from # p
      BY <1>1, <1>4, <2>2, <3>1, <3>3
    <3> QED BY <3>2, <3>3
  <2> QED BY <2>1, <2>2
<1>10. T[Peer(p)] = r
  BY <1>1, <1>4 DEF r
<1>11. \A e \in StoredFor(r, m) : e.mk = m.mk
  <2> TAKE e \in StoredFor(r, m)
  <2>1. e \in r.MKSKIPPED /\ e.hk = s.HKs /\ e.n = s.Ns
    BY <1>6 DEF StoredFor
  <2>2. CASE q = p
    BY <1>2, <1>5, <1>7, <2>1, <2>2 DEF Leads, Aged, s, r
  <2>3. CASE q = Peer(p)
    <3>1. r.HKr = s.HKs /\ r.CKr # Null /\ r.CKr.root = s.RK
      BY <1>1, <1>6, <1>7, <2>3 DEF Leads, s, r
    <3> QED BY <1>2, <1>6, <2>1, <3>1 DEF Counted
  <2> QED BY <2>2, <2>3, PeerFacts
<1>12. ASSUME NEW k \in M \union {m} PROVE StoredRight(T[Peer(k.from)], k)
  <2>1. CASE k = m
    BY <1>10, <1>11, <2>1 DEF StoredRight
  <2>2. CASE k \in M
    <3>1. T[Peer(k.from)].MKSKIPPED = S[Peer(k.from)].MKSKIPPED
      BY <1>1, <1>3, <1>4, <2>2, PeerFacts DEF s
    <3> QED BY <2>2, <3>1 DEF InStep, StoredRight, StoredFor
  <2> QED BY <2>1, <2>2
<1>13. Leads(T[q], T[Peer(q)])
  <2>1. CASE q = p
    BY <1>3, <1>4, <1>7, <1>10, <2>1 DEF Leads, s, r
  <2>2. CASE q = Peer(p)
    BY <1>1, <1>3, <1>4, <1>7, <1>10, <2>2 DEF Leads, s, r
  <2> QED BY <2>1, <2>2, PeerFacts
<1>14. ASSUME NEW k \in M \union {m}, k.from = q PROVE LastChain(T[q], T[Peer(q)], k)
  <2>1. CASE q = p /\ k = m
    <3>1. r.HKr # m.hk
      BY <1>2, <1>5, <1>6, <1>7, <2>1 DEF Leads, Aged, s, r
    <3> QED BY <1>10, <2>1, <3>1 DEF LastChain
  <2>2. CASE q = p /\ k \in M
    BY <1>3, <1>4, <1>7, <1>10, <1>14, <2>2 DEF LastChain, s, r
  <2>3. CASE q = Peer(p)
    BY <1>1, <1>3, <1>4, <1>7, <1>10, <1>14, <2>3 DEF LastChain, s, r
  <2> QED BY <2>1, <2>2, <2>3, PeerFacts
<1> QED BY <1>8, <1>9, <1>12, <1>13, <1>14 DEF InStep, T, t, s

\* One party's state may be replaced, once or twice over.
LEMMA Replaced ==
  ASSUME NEW S, NEW M, Typed(S, M), NEW p \in Party, NEW t \in RatchetState, ChainsPaired(t)
  PROVE  /\ Typed([S EXCEPT ![p] = t], M) /\ [S EXCEPT ![p] = t][p] = t
         /\ [S EXCEPT ![p] = t][Peer(p)] = S[Peer(p)]
         /\ \A u : [[S EXCEPT ![p] = t] EXCEPT ![p] = u] = [S EXCEPT ![p] = u]
BY PeerFacts DEF Typed

\* decrypt on the current receiving chain: skip to the number, spend the key.
LEMMA CurrentSpent ==
  ASSUME NEW s \in RatchetState, ChainsPaired(s), Counted(s), s.CKr # Null, NEW n \in Nat,
         NEW t, t = SkipMessageKeys(s, n), NEW u, u = SpendKey(t)
  PROVE  /\ u \in RatchetState /\ Along(s, t) /\ Along(s, u) /\ Counted(u)
         /\ n >= s.Nr => t.CKr = [root |-> s.CKr.root, n |-> n] /\ u.Nr = n + 1
         /\ u.HKr = s.HKr /\ u.NHKr = s.NHKr /\ u.HKs = s.HKs /\ u.Ns = s.Ns
         /\ n >= s.Nr => \A k : /\ k.n \in Nat /\ Awaited(s, k) /\ ~(k.hk = s.HKr /\ k.n = n)
                                => Awaited(u, k)
<1>1. t \in RatchetState
  BY SkipType
<1>2. /\ Along(s, t) /\ ChainsPaired(t) /\ Counted(t) /\ s.MKSKIPPED \subseteq t.MKSKIPPED
      /\ t.Nr = IF s.CKr = Null \/ n <= s.Nr THEN s.Nr ELSE n
      /\ s.CKr # Null => \A i \in s.Nr .. n - 1 : \E e \in t.MKSKIPPED : e.hk = s.HKr /\ e.n = i
  BY SkipAlong
<1>3. t.CKr # Null /\ t.CKr = [root |-> s.CKr.root, n |-> t.Nr] /\ t.CKr.root = s.CKr.root
  BY <1>2 DEF Along
<1>4. u \in RatchetState
  BY <1>1, <1>3, SpendKeyType
<1>5. Along(t, u) /\ ChainsPaired(u) /\ Counted(u) /\ u.Nr = t.Nr + 1 /\ u.MKSKIPPED = t.MKSKIPPED
  BY <1>1, <1>2, <1>3, SpendAlong
<1>6. n >= s.Nr => t.Nr = n
  BY <1>2 DEF RatchetState
<1>7. SameChains(s, u)
  BY <1>2, <1>5 DEF Along, SameChains
<1>8. Along(s, u)
  BY <1>2, <1>3, <1>5, <1>7 DEF Along, SameChains
<1>9. ASSUME n >= s.Nr, NEW k, k.n \in Nat, Awaited(s, k), ~(k.hk = s.HKr /\ k.n = n)
      PROVE  Awaited(u, k)
  <2>1. u.HKr = s.HKr /\ u.NHKr = s.NHKr /\ s.MKSKIPPED \subseteq u.MKSKIPPED /\ s.Nr \in Nat
    BY <1>2, <1>5, <1>7 DEF SameChains, RatchetState
  <2>2. CASE StoredFor(s, k) # {} \/ k.hk = s.NHKr
    BY <2>1, <2>2 DEF Awaited, StoredFor
  <2>3. CASE k.hk = s.HKr /\ k.n >= s.Nr /\ k.n > n
    BY <1>5, <1>6, <1>9, <2>1, <2>3 DEF Awaited
  <2>4. CASE k.hk = s.HKr /\ k.n >= s.Nr /\ k.n < n
    <3>1. k.n \in s.Nr .. n - 1
      BY <1>9, <2>1, <2>4
    <3>2. PICK e \in t.MKSKIPPED : e.hk = s.HKr /\ e.n = k.n
      BY <1>2, <3>1
    <3> QED BY <1>5, <2>4, <3>2 DEF Awaited, StoredFor
  <2> QED BY <1>9, <2>2, <2>3, <2>4 DEF Awaited
<1> QED BY <1>2, <1>3, <1>4, <1>5, <1>6, <1>7, <1>8, <1>9 DEF SameChains

LEMMA CurrentInStep ==
  ASSUME NEW S, NEW M, Typed(S, M), InStep(S, M), NEW p \in Party, S[p].CKr # Null, NEW n \in Nat
  PROVE  InStep([S EXCEPT ![p] = SpendKey(SkipMessageKeys(S[p], n))], M)
<1> DEFINE u == SpendKey(SkipMessageKeys(S[p], n))
<1>1. S[p] \in RatchetState /\ ChainsPaired(S[p]) /\ Counted(S[p])
  BY DEF Typed, InStep
<1>2. u \in RatchetState /\ Along(S[p], u) /\ Counted(u)
  BY <1>1, CurrentSpent
<1> HIDE DEF u
<1>3. InStep([S EXCEPT ![p] = u], M)
  BY <1>2, AlongInStep
<1> QED BY <1>3 DEF u

\* What the DH step on message m makes of p's object.
Turned(S, M, p, m, u) ==
  /\ u \in RatchetState /\ ChainsPaired(u)
  /\ u.CKr # Null /\ u.Nr = 0 /\ u.Ns = 0 /\ m.mk = [root |-> u.CKr.root, n |-> m.n]
  /\ u.HKr = S[p].NHKr /\ u.HKr = S[Peer(p)].HKs /\ m.n < S[Peer(p)].Ns
  /\ u.HKs = S[Peer(p)].NHKr
  /\ \A k \in M : k.from = Peer(p) /\ Awaited(S[p], k) => Awaited(u, k)

\* decrypt on the next receiving chain: the rest of the old chain is stored,
\* and the new one gives the key of the message that opened it.
LEMMA TurnInStep ==
  ASSUME NEW S, NEW M, Typed(S, M), InStep(S, M), NEW p \in Party, NEW m \in M,
         m.from = Peer(p), m.hk = S[p].NHKr, NEW fresh \in Pair,
         NEW u, u = DhRatchetStep(SkipMessageKeys(S[p], m.pn), m.dh, fresh),
         NEW U, U = [S EXCEPT ![p] = u]
  PROVE  InStep(U, M) /\ Turned(S, M, p, m, u)
<1> DEFINE s == S[p]
           q == Peer(p)
           r == S[q]
           t == SkipMessageKeys(s, m.pn)
           T == [S EXCEPT ![p] = t]
<1>0. u = DhRatchetStep(t, m.dh, fresh)
  OBVIOUS
<1>1. /\ s \in RatchetState /\ ChainsPaired(s) /\ Counted(s) /\ s.Nr \in Nat
      /\ q \in Party /\ q # p /\ Peer(q) = p
      /\ m \in Message /\ m.pn \in Nat /\ m.dh \in Pair /\ m.n \in Nat
  BY PeerFacts DEF Typed, InStep, RatchetState, Message
<1>2. t \in RatchetState
  BY <1>1, SkipType
<1>3. /\ Along(s, t) /\ ChainsPaired(t) /\ Counted(t) /\ s.MKSKIPPED \subseteq t.MKSKIPPED
      /\ s.CKr # Null =>
           \A i \in s.Nr .. m.pn - 1 : \E e \in t.MKSKIPPED : e.hk = s.HKr /\ e.n = i
  BY <1>1, SkipAlong
<1>4. /\ InStep(T, M) /\ Typed(T, M) /\ T[p] = t /\ T[q] = r
      /\ \A v : [T EXCEPT ![p] = v] = [S EXCEPT ![p] = v]
  <2> HIDE DEF t
  <2>1. InStep(T, M)
    BY <1>2, <1>3, AlongInStep
  <2>2. /\ Typed(T, M) /\ T[p] = t /\ T[q] = r
        /\ \A v : [T EXCEPT ![p] = v] = [S EXCEPT ![p] = v]
    <3>1. Typed(T, M) /\ T[p] = t /\ T[q] = r
      <4>0. ChainsPaired(t)
        BY <1>3
      <4> QED BY <1>1, <1>2, <4>0 DEF Typed
    <3>2. \A v : [T EXCEPT ![p] = v] = [S EXCEPT ![p] = v]
      BY <1>2, <1>3, Replaced, Zenon
    <3> QED BY <3>1, <3>2
  <2> QED BY <2>1, <2>2
<1>5. t.NHKr = s.NHKr /\ t.HKr = s.HKr
  BY <1>3 DEF Along, SameChains
<1>6. u \in RatchetState
  BY <1>0, <1>1, <1>2, DhRatchetStepType
<1>7. /\ InStep([S EXCEPT ![p] = u], M) /\ OfChain(r, m) /\ u.CKr = [root |-> r.RK, n |-> 0]
      /\ Leads(r, t) /\ \A k \in M : k.from = q => LastChain(r, t, k)
  <2>1. /\ InStep([T EXCEPT ![p] = DhRatchetStep(T[p], m.dh, fresh)], M) /\ OfChain(T[q], m)
        /\ DhRatchetStep(T[p], m.dh, fresh).CKr = [root |-> T[q].RK, n |-> 0]
        /\ Leads(T[q], T[p]) /\ \A k \in M : k.from = q => LastChain(T[q], T[p], k)
    <3>1. m.hk = T[p].NHKr /\ Typed(T, M) /\ InStep(T, M)
      BY <1>4, <1>5
    <3> HIDE DEF T, t, s
    <3> QED BY <3>1, RatchetInStep
  <2> QED BY <1>0, <1>4, <2>1
<1>8. u.Nr = 0 /\ u.Ns = 0 /\ u.HKr = t.NHKr /\ u.MKSKIPPED = t.MKSKIPPED /\ u.HKs = t.NHKs
      /\ u.CKr = NewChain(MixRoot(t.RK, DH(t.DHs, m.dh)))
  BY <1>0 DEF DhRatchetStep
<1>9. u.CKr # Null /\ ChainsPaired(u)
  <2>1. t.RK \in Root /\ t.DHs \in Pair /\ t.NHKr \in HeaderKey
    BY <1>2 DEF RatchetState
  <2>2. MixRoot(t.RK, DH(t.DHs, m.dh)) \in Root
    BY <1>1, <2>1, MixRootType
  <2> HIDE DEF t
  <2> QED BY <1>8, <2>1, <2>2, DerivedKeyType, NullAssumption DEF ChainsPaired
<1>10. m.mk = [root |-> u.CKr.root, n |-> m.n] /\ m.n < r.Ns
  BY <1>7 DEF OfChain
<1>11. u.HKr = r.HKs /\ u.HKs = r.NHKr
  BY <1>7, <1>8 DEF Leads
<1>12. ASSUME NEW k \in M, k.from = q, Awaited(s, k) PROVE Awaited(u, k)
  <2>1. k.n \in Nat /\ k.hk \in HeaderKey
    BY DEF Typed, Message
  <2>2. CASE StoredFor(s, k) # {}
    BY <1>3, <1>8, <2>2 DEF Awaited, StoredFor
  <2>3. CASE k.hk = s.NHKr
    BY <1>5, <1>8, <2>1, <2>3 DEF Awaited
  <2>4. CASE k.hk = s.HKr /\ k.n >= s.Nr
    <3>1. s.CKr # Null
      BY <1>1, <2>1, <2>4, NullAssumption DEF ChainsPaired
    <3>2. k.n < r.PN /\ m.pn = r.PN
      BY <1>5, <1>7, <1>12, <2>4 DEF LastChain, OfChain
    <3>3. k.n \in s.Nr .. m.pn - 1
      BY <1>1, <2>1, <2>4, <3>2
    <3>4. PICK e \in t.MKSKIPPED : e.hk = s.HKr /\ e.n = k.n
      BY <1>3, <3>1, <3>3
    <3> QED BY <1>8, <2>4, <3>4 DEF Awaited, StoredFor
  <2> QED BY <1>12, <2>2, <2>3, <2>4 DEF Awaited
<1> QED BY <1>4, <1>5, <1>6, <1>7, <1>8, <1>9, <1>10, <1>11, <1>12 DEF Turned

LockStep == InStep(st, sent)

LEMMA TypedNow == TypeInv => Typed(st, sent) /\ wire \subseteq sent
BY DEF TypeInv, TypeOK, Typed

LEMMA InStepInit == Init => LockStep
<1> SUFFICES ASSUME Init PROVE LockStep
  OBVIOUS
<1> DEFINE root == MixRoot(<<>>, DH(<<Initiator, 1>>, SignedPreKey))
<1>1. /\ <<Initiator, 1>> \in Pair /\ SignedPreKey \in Pair /\ <<>> \in Root
  BY DEF Pair, Party, SignedPreKey, Root
<1>2. root \in Root /\ Len(root) = 1 /\ Len(<<>>) = 0
  <2>1. root \in Root /\ Len(root) = Len(<<>>) + 1
    BY <1>1, MixRootType
  <2> HIDE DEF root
  <2> QED BY <2>1
<1>3. st[Initiator] = InitSender /\ st[Responder] = InitReceiver /\ sent = {}
  BY PartyAssumption DEF Init, Party
<1>4. /\ HeaderKey0.root = <<>> /\ NextHeaderKey0.root = <<>> /\ NextHeaderKey0 = NextHeader(<<>>)
      /\ NextHeader(root).root = root /\ HeaderKey0 \in HeaderKey
  BY <1>1 DEF HeaderKey0, NextHeaderKey0, NextHeader, HeaderKey
<1>5. /\ InitSender.DHs = <<Initiator, 1>> /\ InitSender.RK = root
      /\ InitSender.CKs = [root |-> root, n |-> 0] /\ InitSender.CKr = Null /\ InitSender.Ns = 0
      /\ InitSender.HKs = HeaderKey0 /\ InitSender.HKr = Null
      /\ InitSender.NHKs = NextHeader(root) /\ InitSender.NHKr = NextHeaderKey0
      /\ InitSender.MKSKIPPED = {}
  BY DEF InitSender, NewChain
<1>6. /\ InitReceiver.DHs = SignedPreKey /\ InitReceiver.RK = <<>>
      /\ InitReceiver.CKs = Null /\ InitReceiver.CKr = Null
      /\ InitReceiver.HKs = Null /\ InitReceiver.HKr = Null
      /\ InitReceiver.NHKs = NextHeaderKey0 /\ InitReceiver.NHKr = HeaderKey0
      /\ InitReceiver.MKSKIPPED = {}
  BY DEF InitReceiver
<1>7. root = MixRoot(<<>>, DH(InitSender.DHs, InitReceiver.DHs))
  BY <1>5, <1>6
<1> HIDE DEF root
<1>8. Aged(InitSender) /\ Counted(InitSender) /\ Aged(InitReceiver) /\ Counted(InitReceiver)
  <2>1. Aged(InitSender)
    <3>1. InitSender.NHKs = NextHeader(InitSender.RK) /\ InitSender.HKr = Null /\ InitSender.MKSKIPPED = {}
      BY <1>5
    <3>2. Len(InitSender.HKs.root) = 0 /\ Len(InitSender.RK) = 1 /\ Len(InitSender.NHKr.root) = 0
      BY <1>2, <1>4, <1>5
    <3> QED BY <3>1, <3>2 DEF Aged
  <2>2. Aged(InitReceiver)
    BY <1>2, <1>4, <1>6 DEF Aged
  <2>3. Counted(InitSender) /\ Counted(InitReceiver)
    BY <1>5, <1>6 DEF Counted
  <2> QED BY <2>1, <2>2, <2>3
<1>9. Leads(InitSender, InitReceiver)
  BY <1>5, <1>6, <1>7 DEF Leads
<1>10. Peer(Initiator) = Responder /\ Initiator \in Party /\ \A p \in Party : p = Initiator \/ p = Responder
  BY DEF Peer, Party
<1> QED BY <1>3, <1>8, <1>9, <1>10 DEF LockStep, InStep

LEMMA InStepNext == TypeInv /\ LockStep /\ [Next]_vars => LockStep'
<1> SUFFICES ASSUME TypeInv, LockStep, [Next]_vars PROVE LockStep'
  OBVIOUS
<1>1. Typed(st, sent) /\ InStep(st, sent) /\ wire \subseteq sent
  BY TypedNow DEF LockStep
<1>2. ASSUME NEW p \in Party, Encrypt(p) PROVE LockStep'
  <2>1. NextMessage(p) \in Message
    BY <1>2 DEF NextMessage, Encrypt, TypeInv, TypeOK, RatchetState, Message
  <2>2. /\ NextMessage(p).from = p /\ NextMessage(p).hk = st[p].HKs /\ NextMessage(p).dh = st[p].DHs
        /\ NextMessage(p).pn = st[p].PN /\ NextMessage(p).n = st[p].Ns /\ NextMessage(p).mk = st[p].CKs
        /\ st[p].CKs # Null /\ st[p].HKs # Null
    BY <1>2 DEF NextMessage, Encrypt
  <2>3. /\ st' = [st EXCEPT ![p] = StepSending(st[p])]
        /\ sent' = sent \union {NextMessage(p)}
    BY <1>2 DEF Encrypt
  <2> QED BY <1>1, <2>1, <2>2, <2>3, EncryptInStep DEF LockStep
<1>3. ASSUME NEW p \in Party, NEW m \in wire, Decrypt(p, m) PROVE LockStep'
  <2>1. Deliver(p, m)
    BY <1>3 DEF Decrypt, DecryptSkipped, DecryptCurrent, DecryptNext, StartsNextChain,
                RefuseAfterRatchet, RefuseGap, RefuseHeader
  <2>2. /\ m \in sent /\ m \in Message /\ m.from = Peer(p) /\ sent' = sent /\ m.n \in Nat /\ m.pn \in Nat
        /\ m.dh \in Pair /\ m.hk \in HeaderKey /\ st[p] \in RatchetState /\ ChainsPaired(st[p]) /\ Counted(st[p])
        /\ pairs[p] \in Nat
    BY <1>1, <2>1 DEF Deliver, Typed, Message, InStep, TypeInv, TypeOK
  <2>3. CASE DecryptSkipped(p, m)
    <3>1. PICK e : st' = [st EXCEPT ![p] = DropKey(st[p], e)]
      BY <2>3 DEF DecryptSkipped
    <3>2. DropKey(st[p], e) \in RatchetState
      BY <2>2 DEF DropKey, RatchetState
    <3>3. Along(st[p], DropKey(st[p], e)) /\ Counted(DropKey(st[p], e))
      BY <2>2, DropAlong
    <3> QED BY <1>1, <2>2, <3>1, <3>2, <3>3, AlongInStep DEF LockStep
  <2>4. CASE DecryptCurrent(p, m)
    <3>1. /\ st' = [st EXCEPT ![p] = SpendKey(SkipMessageKeys(st[p], m.n))] /\ m.hk = st[p].HKr
      BY <2>4 DEF DecryptCurrent
    <3>2. st[p].CKr # Null
      BY <2>2, <3>1, NullAssumption DEF ChainsPaired
    <3> QED BY <1>1, <2>2, <3>1, <3>2, CurrentInStep DEF LockStep
  <2>5. CASE StartsNextChain(p, m)
    <3> DEFINE u == RatchetFor(p, m)
               T == [st EXCEPT ![p] = u]
    <3>1. m.hk = st[p].NHKr /\ <<p, pairs[p] + 1>> \in Pair
      BY <2>2, <2>5 DEF StartsNextChain, Pair
    <3>2. u \in RatchetState /\ ChainsPaired(u) /\ InStep(T, sent) /\ u.CKr # Null
      <4>1. PICK fresh \in Pair : fresh = <<p, pairs[p] + 1>>
        BY <3>1
      <4>2. PICK v : v = u
        OBVIOUS
      <4>3. v = DhRatchetStep(SkipMessageKeys(st[p], m.pn), m.dh, fresh)
        BY <4>1, <4>2 DEF RatchetFor
      <4>4. PICK U : U = T
        OBVIOUS
      <4>5. U = [st EXCEPT ![p] = v]
        BY <4>2, <4>4
      <4>6. /\ Typed(st, sent) /\ InStep(st, sent) /\ m \in sent /\ m.from = Peer(p)
            /\ m.hk = st[p].NHKr
        BY <1>1, <2>2, <3>1
      <4> HIDE DEF u, T
      <4>7. InStep(U, sent) /\ Turned(st, sent, p, m, v)
        BY <4>3, <4>5, <4>6, TurnInStep, Zenon
      <4> QED BY <4>2, <4>4, <4>7 DEF Turned
    <3>3. CASE st' = T
      BY <2>2, <3>2, <3>3 DEF LockStep
    <3>4. CASE st' = [st EXCEPT ![p] = SpendKey(SkipMessageKeys(u, m.n))]
      <4> HIDE DEF u
      <4>1. /\ Typed(T, sent) /\ T[p] = u
            /\ \A v : [T EXCEPT ![p] = v] = [st EXCEPT ![p] = v]
        BY <1>1, <3>2, Replaced
      <4> HIDE DEF T
      <4>2. InStep([T EXCEPT ![p] = SpendKey(SkipMessageKeys(u, m.n))], sent)
        BY <2>2, <3>2, <4>1, CurrentInStep
      <4> QED BY <2>2, <3>4, <4>1, <4>2 DEF LockStep
    <3> QED BY <1>3, <2>5, <3>3, <3>4 DEF Decrypt, DecryptSkipped, DecryptCurrent, DecryptNext,
              RefuseAfterRatchet, RefuseGap, RefuseHeader, StartsNextChain
  <2>6. CASE RefuseGap(p, m) \/ RefuseHeader(p, m)
    BY <1>1, <2>2, <2>6 DEF RefuseGap, RefuseHeader, LockStep
  <2> QED BY <1>3, <2>3, <2>4, <2>5, <2>6 DEF Decrypt, DecryptNext, RefuseAfterRatchet
<1>4. CASE UNCHANGED vars
  BY <1>4 DEF vars, LockStep
<1> QED BY <1>2, <1>3, <1>4 DEF Next

\* Both ends in step, in every state: the inductive invariant.
LEMMA LockStepInvariant == Spec => [](TypeInv /\ LockStep)
<1> QED BY TypeInit, TypeStep, InStepInit, InStepNext, PTL DEF Spec

\* Whatever was lost, repeated or refused, the peer holds the header key of the
\* chain a party sends on (dhRatchetStep never drifts by more than one step).
THEOREM EndsStayInStep == Spec => []SendingChainKnown
<1>1. TypeInv /\ LockStep => SendingChainKnown
  <2> SUFFICES ASSUME TypeInv, LockStep, NEW p \in Party
               PROVE  st[p].HKs \in {st[Peer(p)].HKr, st[Peer(p)].NHKr}
    BY DEF SendingChainKnown
  <2>1. PICK q \in Party : Leads(st[q], st[Peer(q)])
    BY DEF LockStep, InStep
  <2> QED BY <2>1, PeerFacts DEF Leads
<1> QED BY <1>1, LockStepInvariant, PTL

-----------------------------------------------------------------------------
(* Out of order: until the network repeats a message, decrypt has a key for *)
(* every message under way, and throws only for a gap beyond the limit.     *)

\* A delivery changes the object of its receiver and takes the message out.
LEMMA DeliveredForgetsNone ==
  ASSUME TypeInv, NoneForgotten(st, wire), NEW p \in Party, NEW m \in wire, NEW u,
         st' = [st EXCEPT ![p] = u], wire' = wire \ {m}, m.from = Peer(p),
         \A k \in wire \ {m} : k.from = Peer(p) => Awaited(u, k),
         u.HKr = st[Peer(p)].HKs => u.Nr <= st[Peer(p)].Ns,
         st[Peer(p)].HKr = u.HKs => st[Peer(p)].Nr <= u.Ns
  PROVE  NoneForgotten(st', wire')
<1>1. st'[p] = u /\ st'[Peer(p)] = st[Peer(p)]
  BY PeerFacts DEF TypeInv, TypeOK
<1>2. NotAhead(st')
  BY <1>1, PeerFacts DEF NotAhead
<1>3. ASSUME NEW k \in wire' PROVE Awaited(st'[Peer(k.from)], k)
  <2>1. k \in wire /\ k.from \in Party
    BY <1>3 DEF TypeInv, TypeOK, Message
  <2>2. CASE k.from = Peer(p)
    BY <1>1, <1>3, <2>2, PeerFacts
  <2>3. CASE k.from = p
    BY <1>1, <2>1, <2>3 DEF NoneForgotten
  <2> QED BY <2>1, <2>2, <2>3, PeerFacts
<1> QED BY <1>2, <1>3 DEF NoneForgotten

LEMMA GapsEncrypt ==
  ASSUME TypeInv, LockStep, NoneForgotten(st, wire), NEW p \in Party, Encrypt(p)
  PROVE  NoneForgotten(st', wire')
<1> DEFINE s == st[p]
           r == st[Peer(p)]
           t == StepSending(s)
           m == NextMessage(p)
<1>1. /\ s \in RatchetState /\ s.Ns \in Nat /\ r \in RatchetState /\ r.Nr \in Nat /\ Peer(p) \in Party
      /\ Peer(p) # p /\ Peer(Peer(p)) = p
      /\ s.CKs # Null /\ s.HKs # Null /\ st' = [st EXCEPT ![p] = t] /\ wire' = wire \union {m}
  BY PeerFacts DEF Encrypt, TypeInv, TypeOK, RatchetState
<1>2. /\ t.Nr = s.Nr /\ t.HKr = s.HKr /\ t.NHKr = s.NHKr /\ t.HKs = s.HKs /\ t.MKSKIPPED = s.MKSKIPPED
      /\ t.Ns = s.Ns + 1
  BY <1>1 DEF StepSending, RatchetState
<1>3. m.from = p /\ m.hk = s.HKs /\ m.n = s.Ns
  BY DEF NextMessage
<1>4. st'[p] = t /\ st'[Peer(p)] = r
  BY <1>1 DEF TypeInv, TypeOK
<1> HIDE DEF t, m
<1>5. NotAhead(st')
  <2>1. s.HKr = r.HKs => s.Nr <= r.Ns
    BY DEF NoneForgotten, NotAhead
  <2>2. r.HKr = s.HKs => r.Nr <= s.Ns
    BY <1>1 DEF NoneForgotten, NotAhead
  <2> HIDE DEF s, r
  <2>3. r.HKr = t.HKs => r.Nr <= t.Ns
    BY <1>1, <1>2, <2>2
  <2> QED BY <1>1, <1>2, <1>4, <2>1, <2>3, PeerFacts DEF NotAhead
<1>6. Awaited(r, m)
  <2>1. PICK q \in Party : Leads(st[q], st[Peer(q)])
    BY DEF LockStep, InStep
  <2>2. CASE q = p
    BY <1>3, <2>1, <2>2 DEF Leads, Awaited
  <2>3. CASE q = Peer(p)
    <3>1. r.HKr = s.HKs
      BY <1>1, <2>1, <2>3 DEF Leads
    <3>2. r.Nr <= s.Ns
      BY <1>1, <3>1 DEF NoneForgotten, NotAhead
    <3> QED BY <1>1, <1>3, <3>1, <3>2 DEF Awaited
  <2> QED BY <2>2, <2>3, PeerFacts
<1>7. ASSUME NEW k \in wire' PROVE Awaited(st'[Peer(k.from)], k)
  <2>1. CASE k = m
    BY <1>3, <1>4, <1>6, <2>1
  <2>2. CASE k \in wire
    <3>1. k.from \in Party /\ Awaited(st[Peer(k.from)], k)
      BY <2>2 DEF TypeInv, TypeOK, Message, NoneForgotten
    <3>2. CASE Peer(k.from) = p
      BY <1>2, <1>4, <3>1, <3>2 DEF Awaited, StoredFor
    <3>3. CASE Peer(k.from) = Peer(p)
      BY <1>4, <3>1, <3>3
    <3> QED BY <3>1, <3>2, <3>3, PeerFacts
  <2> QED BY <1>1, <2>1, <2>2
<1> QED BY <1>5, <1>7 DEF NoneForgotten

LEMMA GapsDecrypt ==
  ASSUME TypeInv, KeysSpentOnce, LockStep, NoneForgotten(st, wire), NEW p \in Party, NEW m \in wire,
         Decrypt(p, m), wire' = wire \ {m}
  PROVE  NoneForgotten(st', wire') /\ ThrownOutRightly
<1> DEFINE s == st[p]
           q == Peer(p)
           r == st[q]
<1>1. Typed(st, sent) /\ InStep(st, sent) /\ wire \subseteq sent
  BY TypedNow DEF LockStep
<1>2. /\ m.from = q /\ q \in Party /\ q # p /\ Peer(q) = p /\ m \in sent /\ m \in Message
      /\ m.n \in Nat /\ m.pn \in Nat /\ m.dh \in Pair /\ m.hk \in HeaderKey
      /\ s \in RatchetState /\ s.Nr \in Nat /\ r \in RatchetState /\ r.Ns \in Nat /\ ChainsPaired(s)
      /\ Counted(s) /\ Aged(s) /\ Aged(r) /\ pairs[p] \in Nat
  <2>1. m.from = q
    BY DEF Decrypt, DecryptSkipped, DecryptCurrent, DecryptNext, StartsNextChain, RefuseAfterRatchet,
           RefuseGap, RefuseHeader, Deliver
  <2>2. q \in Party /\ q # p /\ Peer(q) = p /\ m \in sent /\ m \in Message
    BY <1>1, PeerFacts DEF Typed
  <2>3. m.n \in Nat /\ m.pn \in Nat /\ m.dh \in Pair /\ m.hk \in HeaderKey
    BY <2>2 DEF Message
  <2>4. /\ s \in RatchetState /\ r \in RatchetState /\ ChainsPaired(s)
        /\ Counted(s) /\ Aged(s) /\ Aged(r) /\ pairs[p] \in Nat
    BY <1>1, <2>2 DEF Typed, InStep, TypeInv, TypeOK
  <2>5. s.Nr \in Nat /\ r.Ns \in Nat
    BY <2>4 DEF RatchetState
  <2> QED BY <2>1, <2>2, <2>3, <2>4, <2>5
<1>3. /\ Awaited(s, m) /\ \A k \in wire : k \in sent /\ (k.from = q => Awaited(s, k))
      /\ s.HKr = r.HKs => s.Nr <= r.Ns
      /\ r.HKr = s.HKs => r.Nr <= s.Ns
  BY <1>1, <1>2 DEF NoneForgotten, NotAhead
<1>4. \A k \in wire : k.mk = m.mk => k = m
  BY <1>1, <1>2 DEF KeysSpentOnce, NoKeyReuse
<1>5. \A mk : OpenBody(p, m, mk) /\ mk = m.mk => ThrownOutRightly
  BY DEF OpenBody, ThrownOutRightly
<1>6. Throw(p, m) /\ BeyondLimit(p, m) => ThrownOutRightly
  BY DEF Throw, ThrownOutRightly, TypeInv, TypeOK
<1>7. m.hk = s.HKr => m.hk # s.NHKr
  BY <1>2, RootLengths, NullAssumption DEF Aged
<1> HIDE DEF s, r, q
<1>8. CASE DecryptSkipped(p, m)
  <2>1. PICK e \in StoredFor(s, m) : st' = [st EXCEPT ![p] = DropKey(s, e)] /\ OpenBody(p, m, e.mk)
    BY <1>8 DEF DecryptSkipped, s
  <2> DEFINE u == DropKey(s, e)
  <2>2. e.mk = m.mk
    BY <1>1, <1>2, <2>1 DEF InStep, StoredRight, s, q
  <2>3. Along(s, u) /\ u.Nr = s.Nr /\ u.MKSKIPPED = s.MKSKIPPED \ {e}
    BY <1>2, DropAlong
  <2>4. u.HKr = s.HKr /\ u.NHKr = s.NHKr /\ u.HKs = s.HKs /\ u.Ns = s.Ns
    BY <2>3 DEF Along, SameChains
  <2> HIDE DEF u
  <2>5. ASSUME NEW k \in wire \ {m}, k.from = q PROVE Awaited(u, k)
    <3>1. StoredRight(s, k)
      BY <1>1, <1>2, <2>5 DEF InStep, s
    <3>2. e \notin StoredFor(s, k)
      BY <1>4, <2>2, <2>5, <3>1 DEF StoredRight
    <3>3. StoredFor(u, k) = StoredFor(s, k)
      BY <2>3, <3>2 DEF StoredFor
    <3> QED BY <1>3, <2>3, <2>4, <2>5, <3>3 DEF Awaited
  <2>6. NoneForgotten(st', wire')
    BY <1>2, <1>3, <2>1, <2>3, <2>4, <2>5, DeliveredForgetsNone DEF u, q, r
  <2> QED BY <1>5, <2>1, <2>2, <2>6
<1>9. CASE DecryptCurrent(p, m)
  <2> DEFINE t == SkipMessageKeys(s, m.n)
             u == SpendKey(t)
  <2>1. /\ st' = [st EXCEPT ![p] = u] /\ OpenBody(p, m, t.CKr) /\ StoredFor(s, m) = {} /\ m.hk = s.HKr
    BY <1>9 DEF DecryptCurrent, s
  <2>2. s.CKr # Null /\ m.mk = [root |-> s.CKr.root, n |-> m.n]
    BY <1>1, <1>2, <2>1, HeardRight DEF s, q
  <2>3. m.n >= s.Nr
    BY <1>3, <1>7, <2>1 DEF Awaited
  <2>4. /\ t.CKr = [root |-> s.CKr.root, n |-> m.n] /\ u.Nr = m.n + 1
        /\ u.HKr = s.HKr /\ u.HKs = s.HKs /\ u.Ns = s.Ns
    BY <1>2, <2>2, <2>3, CurrentSpent
  <2>5. ASSUME NEW k \in wire \ {m}, k.from = q PROVE Awaited(u, k)
    <3>1. ~(k.hk = s.HKr /\ k.n = m.n)
      BY <1>1, <1>4, <2>2, <2>5, HeardRight DEF s, q
    <3>2. k.n \in Nat /\ Awaited(s, k)
      BY <1>1, <1>3, <2>5 DEF Typed, Message
    <3> QED BY <1>2, <2>2, <2>3, <3>1, <3>2, CurrentSpent
  <2> HIDE DEF u, t
  <2>6. u.HKr = r.HKs => u.Nr <= r.Ns
    <3>1. m.hk = r.HKs => m.n < r.Ns
      BY <1>1, <1>2 DEF InStep, SentBy, OfChain, r
    <3> QED BY <1>2, <2>1, <2>4, <3>1
  <2>7. NoneForgotten(st', wire')
    BY <1>2, <1>3, <2>1, <2>4, <2>5, <2>6, DeliveredForgetsNone DEF q, r
  <2> QED BY <1>5, <2>1, <2>2, <2>4, <2>7
<1>10. CASE StartsNextChain(p, m) /\ (DecryptNext(p, m) \/ RefuseAfterRatchet(p, m))
  <2>0. <<p, pairs[p] + 1>> \in Pair
    BY <1>2 DEF Pair
  <2>1. PICK fresh \in Pair : fresh = <<p, pairs[p] + 1>>
    BY <2>0
  <2>2. PICK u : u = RatchetFor(p, m)
    OBVIOUS
  <2>3. PICK U : U = [st EXCEPT ![p] = u]
    OBVIOUS
  <2>4. /\ m.hk = s.NHKr /\ u = DhRatchetStep(SkipMessageKeys(st[p], m.pn), m.dh, fresh)
    BY <1>10, <2>1, <2>2 DEF StartsNextChain, RatchetFor, s
  <2>5. InStep(U, sent) /\ Turned(st, sent, p, m, u)
    <3>1. Typed(st, sent) /\ InStep(st, sent) /\ m.from = Peer(p) /\ m.hk = st[p].NHKr /\ m \in sent
      BY <1>1, <1>2, <2>4 DEF s, q
    <3> QED BY <2>3, <2>4, <3>1, TurnInStep, Zenon
  <2>6. /\ u \in RatchetState /\ ChainsPaired(u)
        /\ u.CKr # Null /\ u.Nr = 0 /\ u.Ns = 0 /\ m.mk = [root |-> u.CKr.root, n |-> m.n]
        /\ u.HKr = s.NHKr /\ u.HKr = r.HKs /\ m.n < r.Ns /\ u.HKs = r.NHKr
        /\ \A k \in wire : k.from = q => Awaited(u, k)
    BY <1>3, <2>5 DEF Turned, s, r, q
  <2>7. r.HKr # r.NHKr
    BY <1>2, RootLengths, NullAssumption DEF Aged, RatchetState
  <2>11. Counted(u)
    BY <1>1, <2>3, <2>5 DEF InStep, Typed
  <2>8. CASE RefuseAfterRatchet(p, m)
    <3>1. st' = [st EXCEPT ![p] = u] /\ Throw(p, m) /\ TooManySkipped(u, m.n)
      BY <2>2, <2>8 DEF RefuseAfterRatchet
    <3>2. BeyondLimit(p, m)
      BY <1>2, <2>4, <2>6, <3>1, SkipAssumption DEF BeyondLimit, TooManySkipped, s
    <3>3. NoneForgotten(st', wire')
      <4>1. r.HKr # u.HKs /\ u.Nr <= r.Ns /\ \A k \in wire \ {m} : k.from = q => Awaited(u, k)
        BY <1>2, <2>6, <2>7
      <4> QED BY <1>2, <3>1, <4>1, DeliveredForgetsNone DEF q, r
    <3> QED BY <1>6, <3>1, <3>2, <3>3
  <2>9. CASE DecryptNext(p, m)
    <3>1. /\ Typed(U, sent) /\ U[p] = u
      BY <1>1, <2>3, <2>6 DEF Typed
    <3> DEFINE t == SkipMessageKeys(u, m.n)
               v == SpendKey(t)
    <3>2. st' = [st EXCEPT ![p] = v] /\ OpenBody(p, m, t.CKr)
      BY <2>2, <2>9 DEF DecryptNext
    <3>3. /\ t.CKr = [root |-> u.CKr.root, n |-> m.n] /\ v.Nr = m.n + 1
          /\ v.HKr = u.HKr /\ v.HKs = u.HKs /\ v.Ns = u.Ns
      BY <1>2, <2>6, <2>11, CurrentSpent
    <3>4. ASSUME NEW k \in wire \ {m}, k.from = q PROVE Awaited(v, k)
      <4>1. ~(k.hk = u.HKr /\ k.n = m.n)
        BY <1>1, <1>4, <2>5, <2>6, <3>1, <3>4, HeardRight DEF q
      <4>2. k.n \in Nat /\ Awaited(u, k)
        BY <1>1, <1>3, <2>6, <3>4 DEF Typed, Message
      <4> QED BY <1>2, <2>6, <2>11, <4>1, <4>2, CurrentSpent
    <3> HIDE DEF t, v
    <3>5. v.HKr = r.HKs => v.Nr <= r.Ns
      BY <1>2, <2>6, <3>3
    <3>6. NoneForgotten(st', wire')
      <4>1. r.HKr # v.HKs
        BY <2>6, <2>7, <3>3
      <4>2. PICK w : w = v
        OBVIOUS
      <4>3. st' = [st EXCEPT ![p] = w] /\ \A k \in wire \ {m} : k.from = q => Awaited(w, k)
        BY <3>2, <3>4, <4>2
      <4> QED BY <1>2, <3>5, <4>1, <4>2, <4>3, DeliveredForgetsNone DEF q, r
    <3> QED BY <1>5, <2>6, <3>2, <3>3, <3>6
  <2> QED BY <1>10, <2>8, <2>9
<1>11. CASE RefuseGap(p, m)
  <2>1. BeyondLimit(p, m) /\ Throw(p, m) /\ st' = st
    BY <1>11 DEF RefuseGap, BeyondLimit
  <2>2. NoneForgotten(st', wire')
    BY <2>1 DEF NoneForgotten
  <2> QED BY <1>6, <2>1, <2>2
<1>12. CASE RefuseHeader(p, m)
  BY <1>3, <1>12 DEF RefuseHeader, Awaited, s
<1> QED BY <1>8, <1>9, <1>10, <1>11, <1>12 DEF Decrypt, DecryptNext, RefuseAfterRatchet

\* Until the network delivers a message again, no message under way is forgotten,
\* and decrypt throws one out only if its gap is beyond MAX_SKIP_KEYS.
THEOREM GapsAreTolerated == Spec => GapsTolerated
<1> DEFINE Kept == dups = 0 => NoneForgotten(st, wire)
<1>1. Init => Kept
  <2> SUFFICES ASSUME Init PROVE NotAhead(st) /\ wire = {}
    BY DEF NoneForgotten
  <2>1. /\ \A p \in Party : st[p] = InitSender \/ st[p] = InitReceiver
        /\ InitSender.Nr = 0 /\ InitReceiver.Nr = 0 /\ InitSender.Ns = 0 /\ InitReceiver.Ns = 0
    BY DEF Init, InitSender, InitReceiver
  <2> QED BY <2>1, PeerFacts DEF NotAhead, Init
<1>2. ASSUME TypeInv, KeysSpentOnce, LockStep, Kept, [Next]_vars
      PROVE  Kept' /\ (dups' = 0 => ThrownOutRightly)
  <2>1. ASSUME NEW p \in Party, Encrypt(p) PROVE Kept' /\ (dups' = 0 => ThrownOutRightly)
    <3>1. dups' = dups /\ refused' = refused
      BY <2>1 DEF Encrypt
    <3> QED BY <1>2, <2>1, <3>1, GapsEncrypt DEF ThrownOutRightly
  <2>2. ASSUME NEW p \in Party, NEW m \in wire, Decrypt(p, m), dups' = 0
        PROVE  NoneForgotten(st', wire') /\ ThrownOutRightly
    <3>1. Deliver(p, m)
      BY <2>2 DEF Decrypt, DecryptSkipped, DecryptCurrent, DecryptNext, StartsNextChain,
                  RefuseAfterRatchet, RefuseGap, RefuseHeader
    <3>2. dups = 0 /\ wire' = wire \ {m}
      BY <1>2, <2>2, <3>1 DEF Deliver, TypeInv, TypeOK
    <3> QED BY <1>2, <2>2, <3>2, GapsDecrypt
  <2>3. CASE UNCHANGED vars
    BY <1>2, <2>3 DEF vars, ThrownOutRightly
  <2> QED BY <1>2, <2>1, <2>2, <2>3 DEF Next
<1>3. TypeInv /\ KeysSpentOnce /\ LockStep /\ Kept /\ [Next]_vars
        => Kept' /\ [dups' = 0 => ThrownOutRightly]_vars
  BY <1>2
<1> HIDE DEF Kept
<1> QED BY <1>1, <1>3, KeysSpentOnceInvariant, LockStepInvariant, PTL DEF Spec, GapsTolerated
=============================================================================
