--------------------------- MODULE SessionProofs ---------------------------
(***************************************************************************)
(* Proofs about Session: types, and that a device pair has one session     *)
(* whose numbers encrypt one text each, across reloads, lost connections   *)
(* and overlapping handlers, as long as puts succeed and the application   *)
(* waits for one sendMessage before the next; and that a text is shown     *)
(* once unless handlers that open the session cross.                       *)
(***************************************************************************)
EXTENDS Session, TLAPS, FiniteSetTheorems

\* A put stores the new value, or keeps the old one and counts a fault.
LEMMA PutStores ==
  ASSUME NEW new, NEW saved, NEW old, faults \in Nat, Put(new, saved, old)
  PROVE  /\ faults' \in Nat
         /\ saved \in {new, old}
         /\ faults' = 0 => faults = 0 /\ saved = new
BY DEF Put

\* A ratchet has a session, so it is told from the lack of one.
LEMMA RatchetsAreThere ==
  NoRatchet \notin SendingRatchet /\ NoRatchet \notin ReceivingRatchet
<1>1. None \notin Text
  BY NoneAssumption
<1> QED BY <1>1 DEF NoRatchet, SendingRatchet, ReceivingRatchet

\* encrypt keeps the sender's types.
LEMMA EncryptTypes ==
  ASSUME TypeOK, NEW t \in Text, NEW o \in Text, made[o] # NoRatchet,
         Encrypt(t, made, o)
  PROVE  /\ send' \in [Text -> CallStep]
         /\ made' \in [Text -> SendingRatchet \union {NoRatchet}]
         /\ box' \in [Text -> SendingRatchet \union {NoRatchet}]
         /\ savedS' \in SendingRatchet \union {NoRatchet}
         /\ faults' \in Nat
         /\ \A u \in Text : made[u] # NoRatchet => made'[u] # NoRatchet
         /\ \A u \in Text : u = t \/ box[u] # NoRatchet => box'[u] # NoRatchet
         /\ send' = [send EXCEPT ![t] = "saving"]
<1> DEFINE next == [made[o] EXCEPT !.n = @ + 1]
<1>1. made[o] \in SendingRatchet /\ next \in SendingRatchet
  BY DEF TypeOK, SendingRatchet
<1>2. Put(next, savedS', savedS)
  BY DEF Encrypt
<1>3. faults' \in Nat /\ savedS' \in {next, savedS}
  BY <1>2 DEF Put, TypeOK
<1>4. made' = [made EXCEPT ![o] = next] /\ box' = [box EXCEPT ![t] = made[o]]
      /\ send' = [send EXCEPT ![t] = "saving"]
  BY DEF Encrypt
<1> HIDE DEF next
<1> QED BY <1>1, <1>3, <1>4, RatchetsAreThere DEF TypeOK, CallStep

\* So does decrypt with the receiver's.
LEMMA DecryptTypes ==
  ASSUME TypeOK, NEW d \in Delivery, NEW o \in Delivery, held[o] # NoRatchet,
         box[Of(d)] # NoRatchet, Decrypt(d, held, o)
  PROVE  /\ handler' \in [Delivery -> HandlerStep]
         /\ held' \in [Delivery -> ReceivingRatchet \union {NoRatchet}]
         /\ savedR' \in ReceivingRatchet \union {NoRatchet}
         /\ faults' \in Nat
         /\ \A e \in Delivery : held[e] # NoRatchet => held'[e] # NoRatchet
         /\ \E s \in {"saving", "failed"} : handler' = [handler EXCEPT ![d] = s]
<1> DEFINE r == held[o]
           b == box[Of(d)]
<1>1. r \in ReceivingRatchet /\ b \in SendingRatchet
  BY DEF TypeOK, Delivery, Of
<1>2. ASSUME NEW after \in ReceivingRatchet, Open(d, held, o, after)
      PROVE  /\ handler' \in [Delivery -> HandlerStep]
             /\ held' \in [Delivery -> ReceivingRatchet \union {NoRatchet}]
             /\ savedR' \in ReceivingRatchet \union {NoRatchet}
             /\ faults' \in Nat
             /\ \A e \in Delivery : held[e] # NoRatchet => held'[e] # NoRatchet
             /\ handler' = [handler EXCEPT ![d] = "saving"]
  BY <1>2, RatchetsAreThere DEF Open, Put, TypeOK, HandlerStep
<1>3. CASE OpenNext(d, held, o)
  <2>1. r.nr \in Nat /\ b.n \in Nat /\ r.skip \in SUBSET Nat
    BY <1>1 DEF ReceivingRatchet, SendingRatchet
  <2>2. r.skip \union (r.nr .. b.n - 1) \in SUBSET Nat
    BY <2>1
  <2>3. ASSUME NEW q \in ReceivingRatchet, NEW n \in Nat, NEW ks \in SUBSET Nat
        PROVE  [q EXCEPT !.nr = n, !.skip = ks] \in ReceivingRatchet
    BY DEF ReceivingRatchet
  <2>4. [r EXCEPT !.nr = b.n + 1, !.skip = @ \union (r.nr .. b.n - 1)] \in ReceivingRatchet
    <3> DEFINE n == b.n + 1
               ks == r.skip \union (r.nr .. b.n - 1)
    <3>1. n \in Nat /\ ks \in SUBSET Nat
      BY <2>1, <2>2
    <3> HIDE DEF n, ks, r
    <3>2. [r EXCEPT !.nr = n, !.skip = ks] \in ReceivingRatchet
      BY <1>1, <2>3, <3>1
    <3> QED BY <3>2 DEF n, ks
  <2> QED BY <1>2, <1>3, <2>4 DEF OpenNext
<1>4. CASE OpenSkipped(d, held, o)
  <2>1. [r EXCEPT !.skip = @ \ {b.n}] \in ReceivingRatchet
    BY <1>1 DEF ReceivingRatchet, SendingRatchet
  <2> QED BY <1>2, <1>4, <2>1 DEF OpenSkipped
<1>5. CASE Throw(d, held, o)
  <2>1. [r EXCEPT !.nr = @ + 1] \in ReceivingRatchet
    BY <1>1 DEF ReceivingRatchet
  <2>2. held' = [held EXCEPT ![o] = [r EXCEPT !.nr = @ + 1]] \/ held' = held
    BY <1>5 DEF Throw
  <2>3. handler' = [handler EXCEPT ![d] = "failed"] /\ UNCHANGED <<savedR, faults>>
    BY <1>5 DEF Throw
  <2> QED BY <2>1, <2>2, <2>3, RatchetsAreThere DEF TypeOK, HandlerStep
<1> QED BY <1>3, <1>4, <1>5 DEF Decrypt

\* A call of sendMessage keeps types and objects.
LEMMA CallTypes ==
  ASSUME TypeInv, NEW t \in Text, SendMessage(t) \/ Call(t) \/ CallRejects(t)
  PROVE  TypeInv'
<1> USE DEF TypeInv
<1>1. ASSUME NEW o \in Text, made[o] # NoRatchet, Encrypt(t, made, o),
             sending' = sending \/ (sending' = t /\ t = o), pending' = pending,
             UNCHANGED <<socket, networkVars, otp, receiverVars, reloads, heard, drops>>,
             UNCHANGED <<handler, held, receiving, savedR, shown, unmounted, crossed>>
      PROVE  TypeInv'
  <2>1. TypeOK'
    BY <1>1, EncryptTypes DEF TypeOK, networkVars
  <2>2. ObjectsThere'
    BY <1>1, EncryptTypes DEF TypeOK, ObjectsThere, networkVars
  <2> QED BY <2>1, <2>2
<1>2. CASE UseExisting(t)
  BY <1>1, <1>2 DEF UseExisting, TypeOK, ObjectsThere, receiverVars, effectVars
<1>3. CASE RestoreSender(t)
  BY <1>1, <1>3 DEF RestoreSender, receiverVars, effectVars
<1>4. CASE UseNew(t)
  BY <1>1, <1>4 DEF UseNew, ObjectsThere, receiverVars, effectVars
<1>5. CASE SendMessage(t) \/ NoStoredSender(t) \/ CallRejects(t)
  <2>1. TypeOK'
    BY <1>5 DEF SendMessage, NoStoredSender, CallRejects, TypeOK, CallStep, networkVars,
                receiverVars, effectVars
  <2>2. ObjectsThere'
    BY <1>5 DEF SendMessage, NoStoredSender, CallRejects, TypeOK, ObjectsThere, networkVars,
                receiverVars, effectVars
  <2> QED BY <2>1, <2>2
<1>6. CASE LoadSender(t)
  <2>1. TypeOK'
    BY <1>6 DEF LoadSender, TypeOK, CallStep, networkVars, receiverVars, effectVars
  <2>2. \A u \in Text : send'[u] = "created" => u # t
    BY <1>6 DEF LoadSender, TypeOK
  <2>3. ObjectsThere'
    BY <1>6, <2>2 DEF LoadSender, TypeOK, ObjectsThere, networkVars, receiverVars, effectVars
  <2> QED BY <2>1, <2>3
<1>7. CASE Initiate(t)
  <2> DEFINE new == [sess |-> t, n |-> 0]
  <2>1. new \in SendingRatchet /\ new # NoRatchet
    BY RatchetsAreThere DEF SendingRatchet
  <2>2. Put(new, savedS', savedS)
    BY <1>7 DEF Initiate
  <2>3. faults' \in Nat /\ savedS' \in {new, savedS}
    BY <2>2 DEF Put, TypeOK
  <2>4. /\ made' = [made EXCEPT ![t] = new] /\ sending' = t /\ pending' = t
        /\ \E key \in {"none", "held"} : otp' = [otp EXCEPT ![t] = key]
        /\ send' = [send EXCEPT ![t] = "created"]
        /\ UNCHANGED <<box, socket, networkVars, receiverVars, reloads, heard, drops>>
    BY <1>7 DEF Initiate
  <2> HIDE DEF new
  <2>5. TypeOK'
    BY <2>1, <2>3, <2>4 DEF TypeOK, CallStep, networkVars, receiverVars, effectVars
  <2>6. ObjectsThere'
    BY <2>1, <2>4 DEF TypeOK, ObjectsThere, networkVars, receiverVars, effectVars
  <2> QED BY <2>5, <2>6
<1>8. CASE Transmit(t)
  <2>1. TypeOK'
    BY <1>8 DEF Transmit, TypeOK, CallStep, networkVars, receiverVars, effectVars
  <2>2. ObjectsThere'
    BY <1>8 DEF Transmit, TypeOK, ObjectsThere, networkVars, receiverVars, effectVars
  <2> QED BY <2>1, <2>2
<1> QED BY <1>2, <1>3, <1>4, <1>5, <1>6, <1>7, <1>8 DEF Call

\* So do the sender's page and connection.
LEMMA PageTypes ==
  ASSUME TypeInv,
         HearPeer \/ ReloadSender \/ SocketCloses \/ Reconnect \/ SocketOpens
  PROVE  TypeInv'
<1> USE DEF TypeInv
<1>1. CASE HearPeer \/ SocketCloses \/ Reconnect \/ SocketOpens
  <2>1. TypeOK'
    BY <1>1 DEF HearPeer, SocketCloses, Reconnect, SocketOpens, TypeOK, networkVars,
                senderVars, receiverVars, effectVars
  <2>2. ObjectsThere'
    BY <1>1 DEF HearPeer, SocketCloses, Reconnect, SocketOpens, ObjectsThere, networkVars,
                senderVars, receiverVars, effectVars
  <2> QED BY <2>1, <2>2
<1>2. CASE ReloadSender
  <2>1. TypeOK'
    BY <1>2 DEF ReloadSender, TypeOK, CallStep, InCall, networkVars, receiverVars, effectVars
  <2>2. ObjectsThere'
    BY <1>2 DEF ReloadSender, TypeOK, ObjectsThere, InCall, networkVars, receiverVars, effectVars
  <2> QED BY <2>1, <2>2
<1> QED BY <1>1, <1>2

\* So do the handlers of the receiver, and its page.
LEMMA HandlerTypes ==
  ASSUME TypeInv, NEW d \in Delivery, Receive(d) \/ Handler(d)
  PROVE  TypeInv'
<1> USE DEF TypeInv
<1>0. Of(d) \in Text
  BY DEF Of, Delivery
<1>1. handler[d] # "none" \/ Arrives(d) => Of(d) \in wire /\ box[Of(d)] # NoRatchet
  BY <1>0 DEF Arrives, ObjectsThere
<1>2. ASSUME NEW o \in Delivery, held[o] # NoRatchet, Of(d) \in wire,
             box[Of(d)] # NoRatchet, Decrypt(d, held, o),
             receiving' = receiving \/ (receiving' = d /\ d = o),
             UNCHANGED <<shown, unmounted, crossed>>,
             UNCHANGED <<send, made, sending, pending, box, savedS, wire, prekey>>,
             UNCHANGED <<socket, otp, reloads, heard, drops>>
      PROVE  TypeInv'
  <2>1. TypeOK'
    BY <1>2, DecryptTypes DEF TypeOK
  <2>2. ObjectsThere'
    BY <1>2, DecryptTypes DEF TypeOK, ObjectsThere
  <2> QED BY <2>1, <2>2
<1>3. CASE ReceiveExisting(d)
  BY <1>1, <1>2, <1>3 DEF ReceiveExisting, TypeOK, ObjectsThere, senderVars, networkVars, effectVars
<1>4. CASE RestoreReceiver(d)
  BY <1>1, <1>2, <1>4 DEF RestoreReceiver, senderVars, networkVars, effectVars
<1>5. CASE ReadFirst(d)
  BY <1>1, <1>2, <1>5 DEF ReadFirst, ObjectsThere, senderVars, networkVars, effectVars
<1>6. CASE LoadReceiver(d)
  <2>1. TypeOK'
    BY <1>6 DEF LoadReceiver, TypeOK, HandlerStep, senderVars, networkVars
  <2>2. \A e \in Delivery : handler'[e] \in {"consumed", "created"} => e # d
    BY <1>6 DEF LoadReceiver, TypeOK
  <2>3. ObjectsThere'
    BY <1>1, <1>6, <2>2 DEF LoadReceiver, TypeOK, ObjectsThere, senderVars, networkVars
  <2> QED BY <2>1, <2>3
<1>7. CASE Unestablished(d) \/ LoadRejected(d)
  <2>1. TypeOK'
    BY <1>7 DEF Unestablished, LoadRejected, TypeOK, HandlerStep, senderVars, networkVars, effectVars
  <2>2. ObjectsThere'
    BY <1>1, <1>7 DEF Unestablished, LoadRejected, TypeOK, ObjectsThere, senderVars, networkVars
  <2> QED BY <2>1, <2>2
<1>8. CASE Respond(d)
  <2> DEFINE p   == prekey[Of(d)]
             new == [sess |-> p, nr |-> 0, skip |-> {}]
  <2>1. p \in Text
    BY <1>0, <1>8 DEF Respond, TypeOK
  <2>2. new \in ReceivingRatchet /\ new # NoRatchet
    BY <2>1, RatchetsAreThere DEF ReceivingRatchet
  <2>3. /\ handler[d] = "loading" /\ held' = [held EXCEPT ![d] = new] /\ receiving' = d
        /\ \/ /\ otp' = [otp EXCEPT ![p] = "spent"]
              /\ handler' = [handler EXCEPT ![d] = "consumed"]
              /\ UNCHANGED <<savedR, faults>>
           \/ /\ otp' = otp /\ Put(new, savedR', savedR)
              /\ handler' = [handler EXCEPT ![d] = "created"]
        /\ UNCHANGED <<senderVars, socket, networkVars, shown, effectVars, reloads, heard, drops>>
    BY <1>8 DEF Respond
  <2>4. faults' \in Nat /\ savedR' \in ReceivingRatchet \union {NoRatchet}
    <3> HIDE DEF new
    <3>1. Put(new, savedR', savedR) \/ UNCHANGED <<savedR, faults>>
      BY <2>3
    <3>2. faults' \in Nat /\ savedR' \in {new, savedR}
      BY <3>1 DEF Put, TypeOK
    <3> QED BY <2>2, <3>2 DEF TypeOK
  <2> HIDE DEF new, p
  <2>5. TypeOK'
    BY <2>1, <2>2, <2>3, <2>4 DEF TypeOK, HandlerStep, senderVars, networkVars, effectVars
  <2>6. ObjectsThere'
    BY <1>1, <2>2, <2>3 DEF TypeOK, ObjectsThere, senderVars, networkVars
  <2> QED BY <2>5, <2>6
<1>9. CASE SaveNew(d)
  <2>1. held[d] \in ReceivingRatchet \union {NoRatchet} /\ Put(held[d], savedR', savedR)
    BY <1>9 DEF SaveNew, TypeOK
  <2>2. faults' \in Nat /\ savedR' \in ReceivingRatchet \union {NoRatchet}
    BY <2>1 DEF Put, TypeOK
  <2>3. TypeOK'
    BY <1>9, <2>2 DEF SaveNew, TypeOK, HandlerStep, senderVars, networkVars, effectVars
  <2>4. ObjectsThere'
    BY <1>1, <1>9 DEF SaveNew, TypeOK, ObjectsThere, senderVars, networkVars
  <2> QED BY <2>3, <2>4
<1>10. CASE Show(d)
  <2>1. TypeOK'
    BY <1>0, <1>10 DEF Show, TypeOK, HandlerStep, senderVars, networkVars, effectVars
  <2>2. ObjectsThere'
    BY <1>1, <1>10 DEF Show, TypeOK, ObjectsThere, senderVars, networkVars
  <2> QED BY <2>1, <2>2
<1> QED BY <1>3, <1>4, <1>5, <1>6, <1>7, <1>8, <1>9, <1>10 DEF Receive, Handler

\* Every object of the two pages keeps its type, and nobody uses a ratchet
\* that is not there (the non-null assertions of EncraClient.ts).
THEOREM SessionTypes == Spec => []TypeInv
<1>1. Init => TypeInv
  <2>1. Init => TypeOK
    <3>1. Init => crossed \in BOOLEAN /\ unmounted \subseteq Delivery
      BY DEF Init
    <3>2. Init => send \in [Text -> CallStep] /\ handler \in [Delivery -> HandlerStep]
      BY DEF Init, CallStep, HandlerStep
    <3> QED BY <3>1, <3>2 DEF Init, TypeOK
  <2>2. Init => ObjectsThere
    BY DEF Init, ObjectsThere
  <2> QED BY <2>1, <2>2 DEF TypeInv
<1>2. TypeInv /\ [Next]_vars => TypeInv'
  <2> SUFFICES ASSUME TypeInv, [Next]_vars PROVE TypeInv'
    OBVIOUS
  <2>1. CASE ReloadReceiver \/ Remount
    <3>1. TypeOK'
      BY <2>1 DEF ReloadReceiver, Remount, TypeInv, TypeOK, HandlerStep, InHandler,
                  senderVars, networkVars, effectVars
    <3>2. ObjectsThere'
      BY <2>1 DEF ReloadReceiver, Remount, Opening, TypeInv, TypeOK, ObjectsThere, InHandler, senderVars,
                  networkVars
    <3> QED BY <3>1, <3>2 DEF TypeInv
  <2>2. CASE UNCHANGED vars
    BY <2>2 DEF vars, senderVars, networkVars, receiverVars, effectVars, TypeInv, TypeOK, ObjectsThere
  <2> QED BY <2>1, <2>2, CallTypes, PageTypes, HandlerTypes DEF Next
<1> QED BY <1>1, <1>2, PTL DEF Spec

-----------------------------------------------------------------------------
(* One session, one text a number.                                          *)

\* A call starts only when no other is under way, if the application waits.
LEMMA NoOverlap ==
  ASSUME SENDS = 1, TypeInv, NEW t \in Text, SendMessage(t)
  PROVE  \A u \in Text : ~InCall(u)
<1> DEFINE Under == {u \in Text : InCall(u)}
<1>1. IsFiniteSet(Under)
  BY TextAssumption, FS_Subset
<1>2. Cardinality(Under) < 1
  BY DEF SendMessage
<1>3. Under = {}
  BY <1>1, <1>2, FS_CardinalityType, FS_EmptySet
<1> QED BY <1>3

\* encrypt with the one ratchet there is, saved before: its number is new.
LEMMA EncryptLeads ==
  ASSUME TypeInv, NEW t \in Text, NEW o \in Text, Encrypt(t, made, o),
         faults' = 0, savedS # NoRatchet, made[o] = savedS, StoredLeads, NumbersOnce
  PROVE  /\ faults = 0 /\ savedS' # NoRatchet /\ made'[o] = savedS'
         /\ StoredLeads' /\ NumbersOnce'
<1> DEFINE next == [savedS EXCEPT !.n = @ + 1]
<1>1. savedS \in SendingRatchet
  BY DEF TypeInv, TypeOK
<1>2. next \in SendingRatchet /\ next # NoRatchet /\ next.sess = savedS.sess
      /\ next.n = savedS.n + 1 /\ savedS.n \in Nat
  BY <1>1, RatchetsAreThere DEF SendingRatchet
<1>3. faults = 0 /\ savedS' = next
  BY DEF Encrypt, Put, TypeInv, TypeOK
<1>4. made'[o] = next /\ box' = [box EXCEPT ![t] = savedS]
  BY DEF Encrypt, TypeInv, TypeOK
<1>5. \A u \in Text : box[u] # NoRatchet =>
         box[u].sess = savedS.sess /\ box[u].n < savedS.n /\ box[u].n \in Nat
  BY DEF StoredLeads, TypeInv, TypeOK, SendingRatchet
<1> HIDE DEF next
<1>6. StoredLeads'
  BY <1>2, <1>3, <1>4, <1>5 DEF StoredLeads, TypeInv, TypeOK
<1>7. NumbersOnce'
  <2> SUFFICES ASSUME NEW u \in Text, NEW v \in Text, box'[u] # NoRatchet,
                      box'[u] = box'[v]
               PROVE  u = v
    BY DEF NumbersOnce
  <2>1. \A w \in Text : w # t => box'[w] = box[w] /\ box'[w] # box'[t]
    BY <1>2, <1>4, <1>5 DEF TypeInv, TypeOK
  <2> QED BY <2>1 DEF NumbersOnce
<1> QED BY <1>2, <1>3, <1>4, <1>6, <1>7

\* A call keeps the store ahead.
LEMMA CallLeads ==
  ASSUME SENDS = 1, TypeInv, StoreLeads, NEW t \in Text,
         SendMessage(t) \/ Call(t) \/ CallRejects(t)
  PROVE  StoreLeads'
<1> SUFFICES ASSUME faults' = 0
             PROVE  StoredLeads' /\ MemoryIsStored' /\ CallsApart' /\ NumbersOnce'
  BY DEF StoreLeads
<1>1. faults = 0
  BY DEF SendMessage, Call, CallRejects, UseExisting, LoadSender, RestoreSender,
         NoStoredSender, Initiate, UseNew, Transmit, Encrypt, Put, TypeInv, TypeOK
<1>2. StoredLeads /\ MemoryIsStored /\ CallsApart /\ NumbersOnce
  BY <1>1 DEF StoreLeads
<1>3. CallsApart'
  <2>1. CASE SendMessage(t)
    BY <2>1, NoOverlap DEF SendMessage, CallsApart, InCall, TypeInv, TypeOK
  <2>2. CASE Call(t) \/ CallRejects(t)
    <3>1. InCall(t) /\ \A u \in Text : u # t => send'[u] = send[u]
      BY <2>2 DEF Call, CallRejects, UseExisting, LoadSender, RestoreSender, NoStoredSender,
                  Initiate, UseNew, Transmit, Encrypt, InCall, TypeInv, TypeOK
    <3> QED BY <1>2, <3>1 DEF CallsApart, InCall
  <2> QED BY <2>1, <2>2
<1>4. ASSUME NEW o \in Text, savedS # NoRatchet, made[o] = savedS, Encrypt(t, made, o),
             sending' = o, InCall(t)
      PROVE  StoredLeads' /\ MemoryIsStored' /\ NumbersOnce'
  <2>1. /\ savedS' # NoRatchet /\ made'[o] = savedS' /\ StoredLeads' /\ NumbersOnce'
    BY <1>2, <1>4, EncryptLeads
  <2>2. send' = [send EXCEPT ![t] = "saving"]
    BY <1>4 DEF Encrypt
  <2>3. \A u \in Text : send'[u] \notin {"loading", "bundle", "created"}
    BY <1>2, <1>4, <2>2 DEF CallsApart, InCall, TypeInv, TypeOK
  <2> QED BY <1>4, <2>1, <2>3 DEF MemoryIsStored
<1>5. CASE UseExisting(t)
  <2>1. sending \in Text /\ made[sending] = savedS /\ savedS # NoRatchet
    BY <1>2, <1>5 DEF UseExisting, MemoryIsStored, TypeInv, TypeOK
  <2> QED BY <1>3, <1>4, <1>5, <2>1 DEF UseExisting, InCall
<1>6. CASE RestoreSender(t)
  <2>1. made[t] = savedS /\ savedS # NoRatchet
    BY <1>2, <1>6 DEF RestoreSender, MemoryIsStored
  <2> QED BY <1>3, <1>4, <1>6, <2>1 DEF RestoreSender, InCall
<1>7. CASE UseNew(t)
  <2>1. sending = t /\ made[t] = savedS /\ savedS # NoRatchet
    BY <1>2, <1>7, NoneAssumption DEF UseNew, MemoryIsStored
  <2> QED BY <1>3, <1>4, <1>7, <2>1 DEF UseNew, InCall
<1>8. CASE SendMessage(t) \/ CallRejects(t) \/ Transmit(t)
  <2>1. UNCHANGED <<made, sending, box, savedS>>
    BY <1>8 DEF SendMessage, CallRejects, Transmit
  <2>2. \A u \in Text : send'[u] \in {"loading", "bundle", "created"} => send'[u] = send[u]
    BY <1>8 DEF SendMessage, CallRejects, Transmit, TypeInv, TypeOK
  <2> QED BY <1>2, <1>3, <2>1, <2>2 DEF StoredLeads, MemoryIsStored, NumbersOnce
<1>9. CASE LoadSender(t)
  <2>1. /\ sending = None /\ UNCHANGED <<sending, box, savedS>>
        /\ made' = [made EXCEPT ![t] = savedS] /\ send' = [send EXCEPT ![t] = "loading"]
        /\ InCall(t)
    BY <1>9 DEF LoadSender, InCall
  <2>2. \A u \in Text : u # t => send'[u] \notin {"loading", "bundle", "created"}
    BY <1>2, <2>1 DEF CallsApart, InCall, TypeInv, TypeOK
  <2> QED BY <1>2, <1>3, <2>1, <2>2 DEF StoredLeads, MemoryIsStored, NumbersOnce, TypeInv, TypeOK
<1>10. CASE NoStoredSender(t)
  <2>1. /\ savedS = NoRatchet /\ UNCHANGED <<made, sending, box, savedS>>
        /\ send' = [send EXCEPT ![t] = "bundle"] /\ InCall(t)
    BY <1>2, <1>10 DEF NoStoredSender, InCall, MemoryIsStored
  <2>2. \A u \in Text : u # t => send'[u] \notin {"loading", "bundle", "created"}
    BY <1>2, <2>1 DEF CallsApart, InCall, TypeInv, TypeOK
  <2> QED BY <1>2, <1>3, <2>1, <2>2 DEF StoredLeads, MemoryIsStored, NumbersOnce, TypeInv, TypeOK
<1>11. CASE Initiate(t)
  <2> DEFINE new == [sess |-> t, n |-> 0]
  <2>1. new \in SendingRatchet /\ new # NoRatchet
    BY RatchetsAreThere DEF SendingRatchet
  <2>2. /\ send[t] = "bundle" /\ made' = [made EXCEPT ![t] = new] /\ sending' = t
        /\ Put(new, savedS', savedS) /\ box' = box
        /\ send' = [send EXCEPT ![t] = "created"]
    BY <1>11 DEF Initiate
  <2> HIDE DEF new
  <2>3. savedS' = new
    BY <2>2 DEF Put, TypeInv, TypeOK
  <2>4. \A u \in Text : box'[u] = NoRatchet
    BY <1>2, <2>2 DEF MemoryIsStored, StoredLeads
  <2>5. \A u \in Text : u # t => send'[u] \notin {"loading", "bundle", "created"}
    BY <1>2, <2>2 DEF CallsApart, InCall, TypeInv, TypeOK
  <2>6. MemoryIsStored'
    BY <2>1, <2>2, <2>3, <2>5 DEF MemoryIsStored, TypeInv, TypeOK
  <2>7. StoredLeads' /\ NumbersOnce'
    BY <2>4 DEF StoredLeads, NumbersOnce
  <2> QED BY <1>3, <2>6, <2>7
<1> QED BY <1>5, <1>6, <1>7, <1>8, <1>9, <1>10, <1>11 DEF Call

\* A reload of the sender forgets memory and calls, not the store.
LEMMA ReloadLeads ==
  ASSUME TypeInv, StoreLeads, ReloadSender
  PROVE  StoreLeads'
<1> SUFFICES ASSUME faults = 0
             PROVE  StoredLeads' /\ MemoryIsStored' /\ CallsApart' /\ NumbersOnce'
  BY DEF StoreLeads, ReloadSender
<1>1. StoredLeads' /\ NumbersOnce'
  BY DEF StoreLeads, StoredLeads, NumbersOnce, ReloadSender
<1>2. \A u \in Text : ~InCall(u)'
  BY DEF ReloadSender, InCall, TypeInv, TypeOK
<1>3. MemoryIsStored' /\ CallsApart'
  BY <1>2 DEF MemoryIsStored, CallsApart, InCall, ReloadSender
<1> QED BY <1>1, <1>3

\* The receiver, the connection and the peer leave the sender's ratchet alone.
LEMMA OthersLead ==
  ASSUME TypeInv, StoreLeads, UNCHANGED <<send, made, sending, box, savedS>>,
         faults' = faults \/ faults' = faults + 1
  PROVE  StoreLeads'
<1> SUFFICES ASSUME faults' = 0
             PROVE  StoredLeads' /\ MemoryIsStored' /\ CallsApart' /\ NumbersOnce'
  BY DEF StoreLeads
<1>1. faults = 0
  BY DEF TypeInv, TypeOK
<1> QED BY <1>1 DEF StoreLeads, StoredLeads, MemoryIsStored, CallsApart, NumbersOnce, InCall

\* The store leads in every state, if the application waits for each call.
LEMMA StoreLeadsAlways ==
  ASSUME SENDS = 1
  PROVE  Spec => []StoreLeads
<1>1. Init => StoreLeads
  BY DEF Init, StoreLeads, StoredLeads, MemoryIsStored, CallsApart, NumbersOnce, InCall
<1>2. TypeInv /\ StoreLeads /\ [Next]_vars => StoreLeads'
  <2> SUFFICES ASSUME TypeInv, StoreLeads, [Next]_vars PROVE StoreLeads'
    OBVIOUS
  <2>1. CASE \E t \in Text : SendMessage(t) \/ Call(t) \/ CallRejects(t)
    BY <2>1, CallLeads
  <2>2. CASE HearPeer \/ SocketCloses \/ Reconnect \/ SocketOpens \/ ReloadReceiver \/ Remount
    BY <2>2, OthersLead DEF HearPeer, SocketCloses, Reconnect, SocketOpens, ReloadReceiver, Remount,
                            senderVars
  <2>3. ASSUME NEW d \in Delivery, Receive(d) \/ Handler(d) PROVE StoreLeads'
    <3>1. UNCHANGED <<send, made, sending, box, savedS>>
      BY <2>3 DEF Receive, Handler, ReceiveExisting, LoadReceiver, RestoreReceiver,
                  Unestablished, LoadRejected, Respond, SaveNew, ReadFirst, Show, senderVars
    <3>2. faults' = faults \/ faults' = faults + 1
      BY <2>3 DEF Receive, Handler, ReceiveExisting, LoadReceiver, RestoreReceiver,
                  Unestablished, LoadRejected, Respond, SaveNew, ReadFirst, Show, Decrypt, OpenNext,
                  OpenSkipped, Throw, Open, Put
    <3> QED BY <3>1, <3>2, OthersLead
  <2>4. CASE UNCHANGED vars
    BY <2>4, OthersLead DEF vars, senderVars
  <2> QED BY <2>1, <2>2, <2>3, <2>4, ReloadLeads DEF Next
<1> QED BY <1>1, <1>2, SessionTypes, PTL DEF Spec

\* While puts succeed and calls do not overlap, no message key of a device
\* pair encrypts two texts (ratchetStore.ts, sendMessage), across reloads.
THEOREM KeysEncryptOnce ==
  ASSUME SENDS = 1
  PROVE  Spec => []NumbersOnceIfSaved
<1>1. StoreLeads => NumbersOnceIfSaved
  BY DEF StoreLeads, NumbersOnceIfSaved
<1> QED BY <1>1, StoreLeadsAlways, PTL

\* Then the pair has one session, however often the sender's page reloads
\* between two texts (EncraClient.ts, _getOrInitSenderRatchet).
THEOREM OnePairOneSession ==
  ASSUME SENDS = 1
  PROVE  Spec => []OneSessionIfSaved
<1>1. StoreLeads => OneSessionIfSaved
  BY DEF StoreLeads, StoredLeads, OneSessionIfSaved, OneSession
<1> QED BY <1>1, StoreLeadsAlways, PTL

-----------------------------------------------------------------------------
(* A text is shown once.                                                    *)

\* A ratchet has read the text of that session and number.
Used(r, b) == r # NoRatchet /\ r.sess = b.sess /\ b.n < r.nr /\ b.n \notin r.skip
SkipsBelow(r) == r # NoRatchet => \A k \in r.skip : k < r.nr

\* A text whose frame is at the relay is encrypted for good, and only such a
\* text is read.
FramesFinal ==
  \A t \in Text : /\ t \in wire => send[t] = "sent"
                  /\ shown[t] > 0 => t \in wire

\* Why: as long as no handler looks for the session while another is opening
\* it, one is at most, with the stored ratchet or a new one; what was read, or
\* is about to be shown, is used up in the stored ratchet, in the one in memory
\* and in the one that is being opened.
Read(t) == shown[t] > 0 \/ \E d \in Delivery : Of(d) = t /\ handler[d] = "saving"
SkipsInOrder == SkipsBelow(savedR) /\ \A d \in Delivery : SkipsBelow(held[d])
OpeningAlone ==
  \A d \in Delivery : Opening(d) =>
    /\ receiving \in {d, None}
    /\ \A e \in Delivery : Opening(e) => e = d
    /\ handler[d] = "loading" => held[d] = savedR /\ receiving = None
ReadIsUsed ==
  \A t \in Text : Read(t) =>
    /\ Used(savedR, box[t])
    /\ receiving # None => Used(held[receiving], box[t])
    /\ \A d \in Delivery : Opening(d) => Used(held[d], box[t])
SavingOnce ==
  \A d \in Delivery : handler[d] = "saving" =>
    /\ shown[Of(d)] = 0
    /\ \A e \in Delivery : handler[e] = "saving" /\ Of(e) = Of(d) => e = d
ReadersLead == SkipsInOrder /\ OpeningAlone /\ ReadIsUsed /\ SavingOnce /\ ShownOnce
ReadOnce == FramesFinal /\ (faults = 0 /\ ~crossed => ReadersLead)

\* A handler that moves is under way, or its frame arrives.
LEMMA HandlerMoves ==
  ASSUME NEW d \in Delivery, Receive(d) \/ Handler(d)
  PROVE  /\ InHandler(d) \/ Arrives(d)
         /\ \E x \in HandlerStep : handler' = [handler EXCEPT ![d] = x]
         /\ UNCHANGED <<send, made, sending, pending, box, savedS, wire, prekey, reloads, heard>>
<1> USE DEF HandlerStep, InHandler, senderVars, networkVars
<1>1. ASSUME NEW o, Decrypt(d, held, o)
      PROVE  \E x \in HandlerStep : handler' = [handler EXCEPT ![d] = x]
  BY <1>1 DEF Decrypt, OpenNext, OpenSkipped, Throw, Open
<1>2. CASE ReceiveExisting(d)
  BY <1>1, <1>2 DEF ReceiveExisting
<1>3. CASE RestoreReceiver(d)
  BY <1>1, <1>3 DEF RestoreReceiver
<1>4. CASE ReadFirst(d)
  BY <1>1, <1>4 DEF ReadFirst
<1>5. CASE LoadReceiver(d) \/ LoadRejected(d) \/ Unestablished(d) \/ Respond(d)
           \/ SaveNew(d) \/ Show(d)
  BY <1>5 DEF LoadReceiver, LoadRejected, Unestablished, Respond, SaveNew, Show
<1> QED BY <1>2, <1>3, <1>4, <1>5 DEF Receive, Handler

\* The calls of the sender leave what is at the relay, and the receiver, alone.
LEMMA CallKeepsFrames ==
  ASSUME TypeInv, FramesFinal, NEW t \in Text, SendMessage(t) \/ Call(t) \/ CallRejects(t)
  PROVE  /\ FramesFinal'
         /\ \A u \in wire : box'[u] = box[u]
         /\ faults' = 0 => faults = 0
         /\ UNCHANGED <<handler, held, receiving, savedR, shown, crossed>>
<1> USE DEF TypeInv, TypeOK, FramesFinal, CallStep, receiverVars, effectVars, networkVars
<1>1. CASE SendMessage(t) \/ CallRejects(t) \/ LoadSender(t) \/ NoStoredSender(t)
  BY <1>1 DEF SendMessage, CallRejects, LoadSender, NoStoredSender
<1>2. CASE UseExisting(t) \/ RestoreSender(t) \/ UseNew(t)
  <2>1. t \notin wire /\ UNCHANGED <<wire, handler, held, receiving, savedR, shown, crossed>>
        /\ \E o \in Text \union {None} : Encrypt(t, made, o)
    BY <1>2 DEF UseExisting, RestoreSender, UseNew
  <2> QED BY <2>1 DEF Encrypt, Put
<1>3. CASE Initiate(t)
  BY <1>3 DEF Initiate, Put
<1>4. CASE Transmit(t)
  BY <1>4 DEF Transmit
<1> QED BY <1>1, <1>2, <1>3, <1>4 DEF Call

\* What a frame has is settled, in every step.
LEMMA FramesKept ==
  ASSUME TypeInv, FramesFinal, [Next]_vars
  PROVE  FramesFinal'
<1>1. CASE \E t \in Text : SendMessage(t) \/ Call(t) \/ CallRejects(t)
  BY <1>1, CallKeepsFrames
<1>2. CASE HearPeer \/ SocketCloses \/ Reconnect \/ SocketOpens \/ ReloadReceiver \/ Remount
           \/ UNCHANGED vars
  BY <1>2 DEF HearPeer, SocketCloses, Reconnect, SocketOpens, ReloadReceiver, Remount, vars,
              senderVars, networkVars, receiverVars, FramesFinal
<1>3. CASE ReloadSender
  BY <1>3 DEF ReloadSender, networkVars, receiverVars, FramesFinal, InCall
<1>4. ASSUME NEW d \in Delivery, Receive(d) \/ Handler(d)
      PROVE  FramesFinal'
  <2>1. \A t \in Text : shown'[t] > 0 => t \in wire
    <3>1. CASE Show(d)
      BY <3>1 DEF Show, FramesFinal, TypeInv, TypeOK, ObjectsThere
    <3>2. CASE UNCHANGED shown
      BY <3>2 DEF FramesFinal
    <3> QED BY <1>4, <3>1, <3>2 DEF Receive, Handler, ReceiveExisting, LoadReceiver, RestoreReceiver,
                                    LoadRejected, Unestablished, Respond, SaveNew, ReadFirst
  <2> QED BY <1>4, <2>1, HandlerMoves DEF FramesFinal
<1> QED BY <1>1, <1>2, <1>3, <1>4 DEF Next

\* decrypt uses a number up once, and for good.
LEMMA DecryptUses ==
  ASSUME TypeInv, SkipsInOrder, NEW d \in Delivery, NEW o \in Delivery, held[o] # NoRatchet,
         box[Of(d)] # NoRatchet, Decrypt(d, held, o), faults' = 0
  PROVE  /\ SkipsInOrder' /\ held'[o] # NoRatchet
         /\ \A b \in SendingRatchet : Used(held[o], b) => Used(held'[o], b)
         /\ \/ handler' = [handler EXCEPT ![d] = "failed"] /\ savedR' = savedR
            \/ /\ handler' = [handler EXCEPT ![d] = "saving"] /\ savedR' = held'[o]
               /\ ~Used(held[o], box[Of(d)]) /\ Used(held'[o], box[Of(d)])
<1> DEFINE r == held[o]
           b == box[Of(d)]
<1>1. r \in ReceivingRatchet /\ b \in SendingRatchet
  BY DEF TypeInv, TypeOK, Delivery, Of
<1>2. r.nr \in Nat /\ b.n \in Nat /\ r.skip \in SUBSET Nat /\ \A k \in r.skip : k < r.nr
  BY <1>1 DEF ReceivingRatchet, SendingRatchet, SkipsInOrder, SkipsBelow
<1>3. ASSUME NEW after \in ReceivingRatchet, Open(d, held, o, after), SkipsBelow(after),
             after.sess = r.sess, r.sess = b.sess,
             \A n \in Nat : n < r.nr /\ n \notin r.skip => n < after.nr /\ n \notin after.skip,
             b.n < after.nr, b.n \notin after.skip, b.n >= r.nr \/ b.n \in r.skip
      PROVE  /\ SkipsInOrder' /\ held'[o] # NoRatchet
             /\ \A x \in SendingRatchet : Used(r, x) => Used(held'[o], x)
             /\ handler' = [handler EXCEPT ![d] = "saving"] /\ savedR' = held'[o]
             /\ ~Used(r, b) /\ Used(held'[o], b)
  <2>1. after # NoRatchet /\ held' = [held EXCEPT ![o] = after] /\ savedR' = after
        /\ handler' = [handler EXCEPT ![d] = "saving"]
    BY <1>3, RatchetsAreThere DEF Open, Put, TypeInv, TypeOK
  <2>2. held'[o] = after /\ SkipsInOrder'
    BY <1>3, <2>1 DEF SkipsInOrder, TypeInv, TypeOK
  <2>3. \A x \in SendingRatchet : x.n \in Nat
    BY DEF SendingRatchet
  <2> QED BY <1>2, <1>3, <2>1, <2>2, <2>3 DEF Used
<1>4. CASE OpenNext(d, held, o)
  <2> DEFINE after == [r EXCEPT !.nr = b.n + 1, !.skip = @ \union (r.nr .. b.n - 1)]
  <2>1. after \in ReceivingRatchet /\ after.sess = r.sess /\ after.nr = b.n + 1
        /\ after.skip = r.skip \union (r.nr .. b.n - 1)
    <3> DEFINE n == b.n + 1
               ks == r.skip \union (r.nr .. b.n - 1)
    <3>1. n \in Nat /\ ks \in SUBSET Nat
      BY <1>2
    <3>2. after = [r EXCEPT !.nr = n, !.skip = ks]
      OBVIOUS
    <3> HIDE DEF n, ks, r, after
    <3>3. after \in ReceivingRatchet /\ after.sess = r.sess /\ after.nr = n /\ after.skip = ks
      BY <1>1, <3>1, <3>2 DEF ReceivingRatchet
    <3> QED BY <3>3 DEF n, ks
  <2>2. r.sess = b.sess /\ b.n >= r.nr /\ Open(d, held, o, after)
    BY <1>4 DEF OpenNext
  <2> HIDE DEF after
  <2>3. SkipsBelow(after)
    BY <1>2, <2>1, <2>2 DEF SkipsBelow
  <2> QED BY <1>2, <1>3, <2>1, <2>2, <2>3
<1>5. CASE OpenSkipped(d, held, o)
  <2> DEFINE after == [r EXCEPT !.skip = @ \ {b.n}]
  <2>1. after \in ReceivingRatchet /\ after.sess = r.sess /\ after.nr = r.nr /\ after.skip = r.skip \ {b.n}
    BY <1>1, <1>2 DEF ReceivingRatchet
  <2>2. r.sess = b.sess /\ b.n \in r.skip /\ Open(d, held, o, after)
    BY <1>5 DEF OpenSkipped
  <2> HIDE DEF after
  <2>3. SkipsBelow(after)
    BY <1>2, <2>1, <2>2 DEF SkipsBelow
  <2> QED BY <1>2, <1>3, <2>1, <2>2, <2>3
<1>6. CASE Throw(d, held, o)
  <2> DEFINE after == [r EXCEPT !.nr = @ + 1]
  <2>1. after \in ReceivingRatchet /\ after.sess = r.sess /\ after.nr = r.nr + 1 /\ after.skip = r.skip
    BY <1>1, <1>2 DEF ReceivingRatchet
  <2>2. held' \in {held, [held EXCEPT ![o] = after]} /\ savedR' = savedR
        /\ handler' = [handler EXCEPT ![d] = "failed"]
    BY <1>6 DEF Throw
  <2> HIDE DEF after
  <2>3. SkipsBelow(after) /\ after # NoRatchet
    BY <1>2, <2>1, RatchetsAreThere DEF SkipsBelow
  <2>4. held'[o] \in {r, after} /\ SkipsInOrder'
    BY <2>2, <2>3 DEF SkipsInOrder, TypeInv, TypeOK
  <2>5. \A x \in SendingRatchet : Used(r, x) => Used(after, x)
    BY <1>2, <2>1, <2>3 DEF Used, SendingRatchet
  <2> QED BY <2>2, <2>3, <2>4, <2>5
<1> QED BY <1>4, <1>5, <1>6 DEF Decrypt

\* What is read was sent.
LEMMA ReadWasSent ==
  ASSUME TypeInv, FramesFinal, NEW t \in Text, Read(t)
  PROVE  t \in wire /\ box[t] \in SendingRatchet
<1>1. t \in wire
  BY DEF Read, FramesFinal, TypeInv, ObjectsThere
<1> QED BY <1>1 DEF TypeInv, TypeOK, ObjectsThere

\* A handler decrypts with an object in which everything read is used up, and
\* which is the one that is being opened, if there is one.
LEMMA DecryptLeads ==
  ASSUME TypeInv, FramesFinal, ReadersLead, NEW d \in Delivery, NEW o \in Delivery,
         held[o] # NoRatchet, box[Of(d)] # NoRatchet, Decrypt(d, held, o), faults' = 0,
         receiving' \in {o, None}, UNCHANGED <<shown, box>>, handler[d] # "saving",
         \A t \in Text : Read(t) => Used(held[o], box[t]),
         \A e \in Delivery : e # d /\ Opening(e) =>
           e = o /\ receiving' = o /\ handler[e] # "loading"
  PROVE  ReadersLead'
<1>0. SkipsInOrder /\ ReadIsUsed /\ SavingOnce /\ ShownOnce /\ Of(d) \in Text
  BY DEF ReadersLead, Delivery, Of
<1>1. /\ SkipsInOrder' /\ held'[o] # NoRatchet
      /\ \A b \in SendingRatchet : Used(held[o], b) => Used(held'[o], b)
      /\ \/ handler' = [handler EXCEPT ![d] = "failed"] /\ savedR' = savedR
         \/ /\ handler' = [handler EXCEPT ![d] = "saving"] /\ savedR' = held'[o]
            /\ ~Used(held[o], box[Of(d)]) /\ Used(held'[o], box[Of(d)])
  BY <1>0, DecryptUses
<1>2. ASSUME NEW t \in Text, Read(t)
      PROVE  Used(savedR, box[t]) /\ Used(held'[o], box[t])
  BY <1>0, <1>1, <1>2, ReadWasSent DEF ReadIsUsed
<1>3. handler \in [Delivery -> HandlerStep] /\ shown \in [Text -> Nat]
  BY DEF TypeInv, TypeOK
<1>4. \A e \in Delivery : Opening(e)' => e # d /\ e = o /\ receiving' = o /\ handler'[e] # "loading"
  BY <1>1, <1>3 DEF Opening
<1>5. OpeningAlone'
  BY <1>4 DEF OpeningAlone
<1>6. CASE handler' = [handler EXCEPT ![d] = "failed"] /\ savedR' = savedR
  <2>1. \A t \in Text : Read(t)' => Read(t)
    BY <1>3, <1>6 DEF Read
  <2>2. ReadIsUsed'
    BY <1>2, <1>4, <1>6, <2>1 DEF ReadIsUsed
  <2>3. SavingOnce'
    BY <1>0, <1>3, <1>6 DEF SavingOnce
  <2> QED BY <1>0, <1>1, <1>5, <2>2, <2>3 DEF ReadersLead, ShownOnce
<1>7. CASE /\ handler' = [handler EXCEPT ![d] = "saving"] /\ savedR' = held'[o]
           /\ ~Used(held[o], box[Of(d)]) /\ Used(held'[o], box[Of(d)])
  <2>1. \A t \in Text : Read(t)' => Read(t) \/ t = Of(d)
    BY <1>3, <1>7 DEF Read
  <2>2. ReadIsUsed'
    BY <1>2, <1>4, <1>7, <2>1 DEF ReadIsUsed
  <2>3. shown[Of(d)] = 0 /\ \A e \in Delivery : Of(e) = Of(d) => handler[e] # "saving"
    BY <1>0, <1>3, <1>7 DEF Read
  <2>4. SavingOnce'
    BY <1>0, <1>3, <1>7, <2>3 DEF SavingOnce
  <2> QED BY <1>0, <1>1, <1>5, <2>2, <2>4 DEF ReadersLead, ShownOnce
<1> QED BY <1>1, <1>6, <1>7

\* Every turn of a handler, whatever others are under way.
LEMMA HandlerLeads ==
  ASSUME TypeInv, FramesFinal, NEW d \in Delivery, Receive(d) \/ Handler(d),
         faults' = 0, ~crossed', faults = 0 /\ ~crossed => ReadersLead
  PROVE  ReadersLead'
<1>0. Of(d) \in Text /\ handler \in [Delivery -> HandlerStep] /\ shown \in [Text -> Nat]
  BY DEF Delivery, Of, TypeInv, TypeOK
<1>1. /\ InHandler(d) \/ Arrives(d)
      /\ UNCHANGED <<box, wire>>
  BY HandlerMoves
<1>2. box[Of(d)] # NoRatchet
  BY <1>0, <1>1 DEF Arrives, InHandler, TypeInv, ObjectsThere
<1>3. faults = 0
  BY DEF Receive, Handler, ReceiveExisting, LoadReceiver, RestoreReceiver, LoadRejected, Unestablished,
         Respond, SaveNew, ReadFirst, Show, Decrypt, OpenNext, OpenSkipped, Throw, Open, Put, TypeInv, TypeOK
<1>4. ~crossed
  BY DEF Receive, Handler, ReceiveExisting, LoadReceiver, RestoreReceiver, LoadRejected, Unestablished,
         Respond, SaveNew, ReadFirst, Show, effectVars
<1>5. SkipsInOrder /\ OpeningAlone /\ ReadIsUsed /\ SavingOnce /\ ShownOnce /\ ReadersLead
  BY <1>3, <1>4 DEF ReadersLead
<1>6. Opening(d) => \A e \in Delivery : Opening(e) => e = d
  BY <1>5 DEF OpeningAlone
<1>7. CASE ReceiveExisting(d)
  <2>1. receiving \in Delivery /\ held[receiving] # NoRatchet /\ Decrypt(d, held, receiving)
        /\ UNCHANGED <<receiving, shown>> /\ receiving # None /\ handler[d] = "none"
    BY <1>7 DEF ReceiveExisting, Arrives, TypeInv, TypeOK, ObjectsThere
  <2>2. \A t \in Text : Read(t) => Used(held[receiving], box[t])
    BY <1>5, <2>1 DEF ReadIsUsed
  <2>3. \A e \in Delivery : Opening(e) => e = receiving /\ handler[e] # "loading"
    BY <1>5, <2>1 DEF OpeningAlone
  <2> QED BY <1>1, <1>2, <1>5, <2>1, <2>2, <2>3, DecryptLeads
<1>8. CASE RestoreReceiver(d)
  <2>1. handler[d] = "loading" /\ held[d] # NoRatchet /\ Decrypt(d, held, d) /\ receiving' = d
        /\ UNCHANGED shown /\ Opening(d)
    BY <1>8 DEF RestoreReceiver, Opening
  <2>2. \A t \in Text : Read(t) => Used(held[d], box[t])
    BY <1>5, <2>1 DEF ReadIsUsed
  <2> QED BY <1>1, <1>2, <1>5, <1>6, <2>1, <2>2, DecryptLeads
<1>9. CASE ReadFirst(d)
  <2>1. handler[d] = "created" /\ held[d] # NoRatchet /\ Decrypt(d, held, d)
        /\ UNCHANGED <<receiving, shown>> /\ Opening(d)
    BY <1>9 DEF ReadFirst, Opening, TypeInv, ObjectsThere
  <2>2. receiving \in {d, None} /\ \A t \in Text : Read(t) => Used(held[d], box[t])
    BY <1>5, <2>1 DEF OpeningAlone, ReadIsUsed
  <2> QED BY <1>1, <1>2, <1>5, <1>6, <2>1, <2>2, DecryptLeads
<1>10. CASE LoadReceiver(d)
  <2>1. /\ receiving = None /\ held' = [held EXCEPT ![d] = savedR] /\ handler[d] = "none"
        /\ handler' = [handler EXCEPT ![d] = "loading"] /\ UNCHANGED <<receiving, savedR, shown>>
        /\ \A e \in Delivery : ~Opening(e)
    BY <1>10 DEF LoadReceiver, Arrives
  <2>2. \A t \in Text : Read(t)' => Read(t)
    BY <1>0, <2>1 DEF Read
  <2>3. held'[d] = savedR /\ \A e \in Delivery : Opening(e)' => e = d
    BY <1>0, <2>1 DEF Opening, TypeInv, TypeOK
  <2>4. SkipsInOrder'
    BY <1>5, <2>1 DEF SkipsInOrder, TypeInv, TypeOK
  <2>5. ReadIsUsed'
    BY <1>1, <1>5, <2>1, <2>2, <2>3 DEF ReadIsUsed
  <2>6. OpeningAlone'
    BY <2>1, <2>3 DEF OpeningAlone
  <2>7. SavingOnce'
    BY <1>0, <1>5, <2>1 DEF SavingOnce
  <2> QED BY <1>5, <2>1, <2>4, <2>5, <2>6, <2>7 DEF ReadersLead, ShownOnce
<1>11. CASE LoadRejected(d) \/ Unestablished(d)
  <2>1. /\ handler[d] = "loading" /\ \E x \in {"failed", "rejected"} : handler' = [handler EXCEPT ![d] = x]
        /\ UNCHANGED <<held, receiving, savedR, shown>>
    BY <1>11 DEF LoadRejected, Unestablished
  <2>2. \A t \in Text : Read(t)' => Read(t)
    BY <1>0, <2>1 DEF Read
  <2>3. \A e \in Delivery : ~Opening(e)'
    BY <1>0, <1>6, <2>1 DEF Opening
  <2>4. SavingOnce'
    BY <1>0, <1>5, <2>1 DEF SavingOnce
  <2> QED BY <1>1, <1>5, <2>1, <2>2, <2>3, <2>4
          DEF ReadersLead, OpeningAlone, ShownOnce, SkipsInOrder, ReadIsUsed
<1>12. CASE Respond(d)
  <2> DEFINE new == [sess |-> prekey[Of(d)], nr |-> 0, skip |-> {}]
  <2>1. /\ handler[d] = "loading" /\ held[d] = NoRatchet /\ held' = [held EXCEPT ![d] = new]
        /\ receiving' = d /\ UNCHANGED shown
        /\ \E x \in {"consumed", "created"} : handler' = [handler EXCEPT ![d] = x]
        /\ savedR' = savedR \/ Put(new, savedR', savedR)
    BY <1>12 DEF Respond
  <2>2. savedR' \in {savedR, new} /\ SkipsBelow(new)
    BY <2>1 DEF Put, SkipsBelow
  <2>3. \A t \in Text : ~Read(t)
    BY <1>5, <2>1 DEF Opening, ReadIsUsed, Used
  <2>4. \A t \in Text : ~Read(t)'
    BY <1>0, <2>1, <2>3 DEF Read
  <2> HIDE DEF new
  <2>5. SkipsInOrder'
    BY <1>5, <2>1, <2>2 DEF SkipsInOrder, TypeInv, TypeOK
  <2>6. OpeningAlone'
    BY <1>0, <1>6, <2>1 DEF Opening, OpeningAlone
  <2>7. SavingOnce'
    BY <1>0, <1>5, <2>1 DEF SavingOnce
  <2> QED BY <1>5, <2>1, <2>4, <2>5, <2>6, <2>7 DEF ReadersLead, ShownOnce, ReadIsUsed
<1>13. CASE SaveNew(d)
  <2>1. /\ handler[d] = "consumed" /\ handler' = [handler EXCEPT ![d] = "created"]
        /\ UNCHANGED <<held, receiving, shown>> /\ savedR' \in {savedR, held[d]} /\ Opening(d)
    BY <1>13 DEF SaveNew, Put, Opening
  <2>2. \A t \in Text : Read(t)' => Read(t)
    BY <1>0, <2>1 DEF Read
  <2>3. \A e \in Delivery : Opening(e)' => e = d /\ handler'[e] # "loading"
    BY <1>0, <1>6, <2>1 DEF Opening
  <2>4. SkipsInOrder'
    BY <1>5, <2>1 DEF SkipsInOrder
  <2>5. OpeningAlone'
    BY <1>5, <2>1, <2>3 DEF OpeningAlone
  <2>6. ReadIsUsed'
    BY <1>1, <1>5, <2>1, <2>2, <2>3 DEF ReadIsUsed
  <2>7. SavingOnce'
    BY <1>0, <1>5, <2>1 DEF SavingOnce
  <2> QED BY <1>5, <2>1, <2>4, <2>5, <2>6, <2>7 DEF ReadersLead, ShownOnce
<1>14. CASE Show(d)
  <2>1. /\ handler[d] = "saving" /\ handler' = [handler EXCEPT ![d] = "done"]
        /\ shown' = shown \/ shown' = [shown EXCEPT ![Of(d)] = @ + 1]
        /\ UNCHANGED <<held, receiving, savedR>>
    BY <1>14 DEF Show
  <2>2. \A t \in Text : t # Of(d) => shown'[t] = shown[t]
    BY <1>0, <2>1
  <2>3. \A e \in Delivery : handler'[e] = "saving" => e # d /\ handler[e] = "saving"
    BY <1>0, <2>1
  <2>4. \A t \in Text : Read(t)' => Read(t)
    <3>1. Read(Of(d))
      BY <2>1 DEF Read
    <3> QED BY <2>2, <2>3, <3>1 DEF Read
  <2>5. \A e \in Delivery : /\ Opening(e)' => Opening(e)
                            /\ handler'[e] = "loading" => handler[e] = "loading"
    BY <1>0, <2>1 DEF Opening
  <2>6. OpeningAlone'
    BY <1>5, <2>1, <2>5 DEF OpeningAlone
  <2>7. SavingOnce'
    <3>1. \A e \in Delivery : Of(e) \in Text
      BY DEF Delivery, Of
    <3>2. \A e \in Delivery : handler'[e] = "saving" => Of(e) # Of(d)
      BY <1>5, <2>1, <2>3 DEF SavingOnce
    <3> QED BY <1>5, <2>2, <2>3, <3>1, <3>2 DEF SavingOnce
  <2>8. ShownOnce'
    BY <1>0, <1>5, <2>1 DEF ShownOnce, SavingOnce
  <2> QED BY <1>1, <1>5, <2>1, <2>4, <2>5, <2>6, <2>7, <2>8 DEF ReadersLead, SkipsInOrder, ReadIsUsed
<1> QED BY <1>7, <1>8, <1>9, <1>10, <1>11, <1>12, <1>13, <1>14 DEF Receive, Handler

\* A text is shown once, whatever is delivered again, in whatever order the
\* frames arrive, however many handlers overlap and whenever the page reloads
\* or the effect is run again (useE2EChat.ts, the message handler), as long as
\* puts succeed and no handler looks for the session in IndexedDB while another
\* is opening it.
THEOREM TextsShownOnce == Spec => []ShownOnceIfSaved
<1>1. Init => ReadOnce
  BY DEF Init, ReadOnce, FramesFinal, Opening, ReadersLead, SkipsInOrder, SkipsBelow, OpeningAlone,
         ReadIsUsed, Read, SavingOnce, ShownOnce
<1>2. TypeInv /\ ReadOnce /\ [Next]_vars => ReadOnce'
  <2> SUFFICES ASSUME TypeInv, FramesFinal, faults = 0 /\ ~crossed => ReadersLead, [Next]_vars,
                      faults' = 0, ~crossed'
               PROVE  ReadersLead'
    BY FramesKept DEF ReadOnce
  <2>1. ASSUME faults = 0, UNCHANGED <<handler, held, receiving, savedR, shown, crossed>>,
               \A t \in wire : box'[t] = box[t]
        PROVE  ReadersLead'
    <3>1. \A t \in Text : (Read(t)' <=> Read(t)) /\ (Read(t) => box'[t] = box[t])
      BY <2>1, ReadWasSent DEF Read
    <3> QED BY <2>1, <3>1
            DEF ReadersLead, SkipsInOrder, OpeningAlone, Opening, ReadIsUsed, SavingOnce, ShownOnce
  <2>2. CASE \E t \in Text : SendMessage(t) \/ Call(t) \/ CallRejects(t)
    BY <2>1, <2>2, CallKeepsFrames
  <2>3. CASE HearPeer \/ SocketCloses \/ Reconnect \/ SocketOpens \/ ReloadSender \/ UNCHANGED vars
    BY <2>1, <2>3 DEF HearPeer, SocketCloses, Reconnect, SocketOpens, ReloadSender, vars, senderVars,
                      receiverVars, effectVars
  <2>4. CASE \E d \in Delivery : Receive(d) \/ Handler(d)
    BY <2>4, HandlerLeads
  <2>5. CASE ReloadReceiver
    <3>1. /\ receiving' = None /\ UNCHANGED <<savedR, shown, box, faults, crossed>>
          /\ \A d \in Delivery : held'[d] = NoRatchet /\ ~InHandler(d)'
      BY <2>5 DEF ReloadReceiver, senderVars, effectVars, InHandler
    <3>2. \A d \in Delivery : ~Opening(d)' /\ handler'[d] # "saving"
      BY <3>1 DEF Opening, InHandler
    <3>3. \A t \in Text : Read(t)' => Read(t)
      BY <3>1, <3>2 DEF Read
    <3> QED BY <3>1, <3>2, <3>3
            DEF ReadersLead, SkipsInOrder, SkipsBelow, OpeningAlone, ReadIsUsed, SavingOnce, ShownOnce
  <2>6. CASE Remount
    <3>1. /\ receiving' = None /\ UNCHANGED <<handler, savedR, shown, box, faults, crossed>>
          /\ \A d \in Delivery : held'[d] = IF Opening(d) THEN held[d] ELSE NoRatchet
      BY <2>6 DEF Remount, senderVars
    <3>2. \A t \in Text : Read(t)' <=> Read(t)
      BY <3>1 DEF Read
    <3>3. \A d \in Delivery : Opening(d)' <=> Opening(d)
      BY <3>1 DEF Opening
    <3>4. SkipsInOrder' /\ OpeningAlone'
      BY <3>1, <3>3 DEF ReadersLead, SkipsInOrder, SkipsBelow, OpeningAlone, Opening
    <3>5. ReadIsUsed'
      BY <3>1, <3>2, <3>3 DEF ReadersLead, ReadIsUsed
    <3> QED BY <3>1, <3>4, <3>5 DEF ReadersLead, SavingOnce, ShownOnce
  <2> QED BY <2>2, <2>3, <2>4, <2>5, <2>6 DEF Next
<1>3. ReadOnce => ShownOnceIfSaved
  BY DEF ReadOnce, ReadersLead, ShownOnceIfSaved
<1> QED BY <1>1, <1>2, <1>3, SessionTypes, PTL DEF Spec

-----------------------------------------------------------------------------
(* Frames that establish the session.                                       *)

\* Why: until a reload or a message of the peer, the sender has made one
\* session at most, the prekey message that is pending is of it, and so is
\* every text and every frame.
OneInitiated ==
  /\ IF sending = None
     THEN savedS = NoRatchet /\ \A t \in Text : box[t] = NoRatchet
     ELSE /\ pending = sending /\ made[sending].sess = sending
          /\ \A t \in Text : /\ box[t] # NoRatchet => box[t].sess = sending
                             /\ t \in wire => prekey[t] = sending
  /\ \A t \in Text : /\ send[t] = "loading" => made[t] = NoRatchet
                     /\ send[t] \in {"loading", "bundle"} => sending = None
                     /\ send[t] = "created" => sending = t
Attached == CallsApart /\ (reloads.sender = 0 /\ heard = 0 => OneInitiated)

\* Calls that start one after another stay apart.
LEMMA CallsStayApart ==
  ASSUME SENDS = 1, TypeInv, CallsApart, NEW t \in Text,
         SendMessage(t) \/ Call(t) \/ CallRejects(t)
  PROVE  CallsApart'
<1>1. CASE SendMessage(t)
  BY <1>1, NoOverlap DEF SendMessage, CallsApart, InCall, TypeInv, TypeOK
<1>2. CASE Call(t) \/ CallRejects(t)
  <2>1. InCall(t) /\ \A u \in Text : u # t => send'[u] = send[u]
    BY <1>2 DEF Call, CallRejects, UseExisting, LoadSender, RestoreSender, NoStoredSender,
                Initiate, UseNew, Transmit, Encrypt, InCall, TypeInv, TypeOK
  <2> QED BY <2>1 DEF CallsApart, InCall
<1> QED BY <1>1, <1>2

\* encrypt with the one session's object.
LEMMA EncryptAttaches ==
  ASSUME TypeInv, CallsApart, OneInitiated, NEW t \in Text, InCall(t), sending \in Text,
         Encrypt(t, made, sending), UNCHANGED <<sending, pending, wire, prekey>>
  PROVE  OneInitiated'
<1> DEFINE next == [made[sending] EXCEPT !.n = @ + 1]
<1>1. made[sending] \in SendingRatchet /\ made[sending].sess = sending
  BY NoneAssumption DEF TypeInv, TypeOK, ObjectsThere, OneInitiated, SendingRatchet
<1>2. next.sess = sending
  BY <1>1 DEF SendingRatchet
<1>3. /\ made' = [made EXCEPT ![sending] = next] /\ box' = [box EXCEPT ![t] = made[sending]]
      /\ send' = [send EXCEPT ![t] = "saving"]
  BY DEF Encrypt
<1> HIDE DEF next
<1>4. \A u \in Text : u # t => send'[u] = send[u] /\ ~InCall(u)
  BY <1>3 DEF CallsApart, TypeInv, TypeOK
<1>5. \A u \in Text : send'[u] \notin {"loading", "bundle", "created"}
  BY <1>3, <1>4 DEF InCall, TypeInv, TypeOK
<1>6. sending # None
  BY NoneAssumption
<1>7. /\ made'[sending].sess = sending /\ box'[t].sess = sending
      /\ \A u \in Text : u # t => box'[u] = box[u]
  BY <1>1, <1>2, <1>3 DEF TypeInv, TypeOK
<1> QED BY <1>5, <1>6, <1>7 DEF OneInitiated

\* A call of sendMessage makes the session, or uses the one there is.
LEMMA CallAttaches ==
  ASSUME SENDS = 1, TypeInv, CallsApart, OneInitiated, NEW t \in Text,
         SendMessage(t) \/ Call(t) \/ CallRejects(t)
  PROVE  OneInitiated'
<1>0. None \notin Text
  BY NoneAssumption
<1>1. CASE SendMessage(t) \/ CallRejects(t)
  <2>1. UNCHANGED <<made, sending, pending, box, savedS, wire, prekey>>
    BY <1>1 DEF SendMessage, CallRejects, networkVars
  <2>2. \A u \in Text : send'[u] \in {"loading", "bundle", "created"} => send'[u] = send[u]
    BY <1>1 DEF SendMessage, CallRejects, TypeInv, TypeOK
  <2> QED BY <2>1, <2>2 DEF OneInitiated
<1>2. CASE UseExisting(t)
  BY <1>2, EncryptAttaches DEF UseExisting, InCall, networkVars, TypeInv, TypeOK
<1>3. CASE RestoreSender(t)
  BY <1>3 DEF RestoreSender, OneInitiated
<1>4. CASE UseNew(t)
  <2>1. sending = t
    BY <1>4 DEF UseNew, OneInitiated
  <2> QED BY <1>4, <2>1, EncryptAttaches DEF UseNew, InCall, networkVars
<1>5. CASE LoadSender(t)
  <2>1. /\ sending = None /\ made' = [made EXCEPT ![t] = NoRatchet] /\ send' = [send EXCEPT ![t] = "loading"]
        /\ UNCHANGED <<sending, box, savedS>>
    BY <1>5 DEF LoadSender, OneInitiated
  <2> QED BY <2>1 DEF OneInitiated, TypeInv, TypeOK
<1>6. CASE NoStoredSender(t)
  <2>1. /\ send[t] = "loading" /\ send' = [send EXCEPT ![t] = "bundle"]
        /\ UNCHANGED <<made, sending, pending, box, savedS, wire, prekey>>
    BY <1>6 DEF NoStoredSender, networkVars
  <2> QED BY <2>1 DEF OneInitiated, TypeInv, TypeOK
<1>7. CASE Initiate(t)
  <2>1. /\ send[t] = "bundle" /\ send' = [send EXCEPT ![t] = "created"]
        /\ sending' = t /\ pending' = t /\ made' = [made EXCEPT ![t] = [sess |-> t, n |-> 0]]
        /\ UNCHANGED <<box, wire, prekey>>
    BY <1>7 DEF Initiate, networkVars
  <2>2. sending = None /\ (\A u \in Text : box[u] = NoRatchet) /\ wire = {}
    BY <2>1 DEF OneInitiated, TypeInv, TypeOK, ObjectsThere
  <2>3. \A u \in Text : u # t => send'[u] = send[u] /\ ~InCall(u)
    BY <2>1 DEF CallsApart, InCall, TypeInv, TypeOK
  <2>4. \A u \in Text : u # t => send'[u] \notin {"loading", "bundle", "created"}
    BY <2>3 DEF InCall
  <2> QED BY <1>0, <2>1, <2>2, <2>4 DEF OneInitiated, TypeInv, TypeOK
<1>8. CASE Transmit(t)
  <2>1. /\ wire' \subseteq wire \union {t} /\ UNCHANGED <<made, sending, pending, box, savedS>>
        /\ send[t] = "saving" /\ \E x \in {"failed", "sent"} : send' = [send EXCEPT ![t] = x]
        /\ prekey' = [prekey EXCEPT ![t] = pending] \/ (prekey' = prekey /\ wire' = wire)
    BY <1>8 DEF Transmit, networkVars
  <2>2. sending # None
    BY <2>1 DEF OneInitiated, TypeInv, ObjectsThere
  <2> QED BY <2>1, <2>2 DEF OneInitiated, TypeInv, TypeOK
<1> QED BY <1>1, <1>2, <1>3, <1>4, <1>5, <1>6, <1>7, <1>8 DEF Call

\* Until the sender's page reloads or a message of the peer arrives, every
\* frame of a pair can establish its session, also when puts fail and the
\* connection is lost (EncraClient.ts, sendMessage and _pendingPrekey).
THEOREM FramesEstablish ==
  ASSUME SENDS = 1
  PROVE  Spec => []CanEstablishAtFirst
<1>1. Init => Attached
  BY DEF Init, Attached, CallsApart, InCall, OneInitiated
<1>2. TypeInv /\ Attached /\ [Next]_vars => Attached'
  <2> SUFFICES ASSUME TypeInv, Attached, [Next]_vars PROVE Attached'
    OBVIOUS
  <2>0. reloads.sender \in Nat /\ heard \in Nat /\ CallsApart
    BY DEF TypeInv, TypeOK, Attached
  <2>1. CASE \E t \in Text : SendMessage(t) \/ Call(t) \/ CallRejects(t)
    <3>1. UNCHANGED <<reloads, heard>>
      BY <2>1 DEF SendMessage, Call, CallRejects, UseExisting, LoadSender, RestoreSender,
                  NoStoredSender, Initiate, UseNew, Transmit
    <3> QED BY <2>1, <3>1, CallsStayApart, CallAttaches DEF Attached
  <2>2. ASSUME UNCHANGED <<senderVars, networkVars>>, reloads'.sender = reloads.sender, heard' = heard
        PROVE  Attached'
    BY <2>2 DEF senderVars, networkVars, Attached, CallsApart, InCall, OneInitiated
  <2>3. CASE SocketCloses \/ Reconnect \/ SocketOpens \/ ReloadReceiver \/ Remount \/ UNCHANGED vars
    BY <2>2, <2>3 DEF SocketCloses, Reconnect, SocketOpens, ReloadReceiver, Remount, vars, TypeInv, TypeOK
  <2>4. CASE \E d \in Delivery : Receive(d) \/ Handler(d)
    BY <2>2, <2>4, HandlerMoves DEF senderVars, networkVars
  <2>5. CASE HearPeer
    BY <2>0, <2>5 DEF HearPeer, Attached, CallsApart, InCall
  <2>6. CASE ReloadSender
    <3>1. reloads'.sender # 0 /\ \A t \in Text : ~InCall(t)'
      BY <2>0, <2>6 DEF ReloadSender, InCall, TypeInv, TypeOK
    <3> QED BY <3>1 DEF Attached, CallsApart
  <2> QED BY <2>1, <2>3, <2>4, <2>5, <2>6 DEF Next
<1>3. TypeInv /\ Attached => CanEstablishAtFirst
  <2> SUFFICES ASSUME TypeInv, OneInitiated, NEW t \in wire PROVE prekey[t] = box[t].sess
    BY DEF Attached, CanEstablishAtFirst, CanEstablish
  <2>1. t \in Text /\ box[t] # NoRatchet
    BY DEF TypeInv, TypeOK, ObjectsThere
  <2> QED BY <2>1 DEF OneInitiated
<1> QED BY <1>1, <1>2, <1>3, SessionTypes, PTL DEF Spec
=============================================================================
