--------------------------- MODULE PresenceProofs ---------------------------
(***************************************************************************)
(* Proofs about Presence: types, and that a presence frame is refused only *)
(* if its keys are no longer those of the contact or its prekey message is *)
(* another call's; that ghost mode is the stored flag, and that those who  *)
(* were told were told the latest; for any contacts, calls, ghost mode     *)
(* changes, lost connections and reloads.                                  *)
(***************************************************************************)
EXTENDS Presence, TLAPS

\* What is inductive: a frame is decided by keys that are not for a generation
\* to come, and a call that is over stays over.
IInv == TypeInv /\ CallsBegun /\ FramesSent /\ KeysAged /\ FramesOpen

LEMMA NoneIsNoKey == None \notin Key /\ None \notin Peer
BY NoneAssumption

\* A fresh box is empty, one with a key is not.
LEMMA BoxFilled == ASSUME NEW k, NEW pk, k # None PROVE [key |-> k, prekey |-> pk] # NoBox
BY DEF NoBox

LEMMA CalmTypes == (calm /\ ghost) \in BOOLEAN
OBVIOUS

LEMMA ToggleTypes ==
  /\ Done \in [want: BOOLEAN, step: {"none", "await", "done"}, at: Nat, call: 0 .. CALLS]
  /\ NoToggle \in [want: BOOLEAN, step: {"none", "await", "done"}, at: Nat, call: 0 .. CALLS]
<1>1. 0 \in 0 .. CALLS
  BY BoundAssumption
<1>2. NoToggle \in [want: BOOLEAN, step: {"none", "await", "done"}, at: Nat, call: 0 .. CALLS]
  BY <1>1 DEF NoToggle
<1> QED BY <1>2 DEF Done

-----------------------------------------------------------------------------
\* Steps of the page: init, flag, socket.
LEMMA PageInv ==
  ASSUME IInv, ReadFlag \/ FlagRead \/ ConnectWS \/ SocketOpens \/ SocketCloses
  PROVE  IInv'
<1>1. UNCHANGED <<calls, to, what, step, key, keyVars, sentVars, peerVars>> /\ on' \subseteq on
  BY SMT DEF ReadFlag, FlagRead, ConnectWS, SocketOpens, SocketCloses, callVars
<1>2. PageTypes'
  <2>1. PageTypes
    BY DEF IInv, TypeInv, TypeOK
  <2>2. CASE ReadFlag
    BY <2>1, <2>2 DEF PageTypes, ReadFlag, ghostVars
  <2>3. CASE FlagRead
    BY <2>1, <2>3 DEF PageTypes, FlagRead
  <2>4. CASE ConnectWS
    BY <2>1, <2>4 DEF PageTypes, ConnectWS, ghostVars
  <2>5. CASE SocketOpens
    BY <2>1, <2>5 DEF PageTypes, SocketOpens, ghostVars
  <2>6. CASE SocketCloses
    <3>1. calm' \in BOOLEAN
      BY <2>6, CalmTypes, Zenon DEF SocketCloses
    <3>2. upsets' \in Nat /\ UNCHANGED <<page, flagRead, raced, ghost, savedGhost, toggle>>
          /\ socket' = "closed" /\ due' = FALSE
      BY <2>1, <2>6 DEF PageTypes, SocketCloses, ghostVars
    <3> QED BY <2>1, <3>1, <3>2 DEF PageTypes
  <2> QED BY <2>2, <2>3, <2>4, <2>5, <2>6
<1>3. page' = "unmounted" <=> page = "unmounted"
  BY DEF ReadFlag, FlagRead, ConnectWS, SocketOpens, SocketCloses
<1>4. CallTypes' /\ KeyTypes' /\ SentTypes' /\ PeerTypes'
  BY <1>1 DEF IInv, TypeInv, TypeOK, CallTypes, KeyTypes, SentTypes, PeerTypes, keyVars, sentVars, peerVars
<1>5. SessionsPaired'
  BY <1>1, <1>3 DEF IInv, TypeInv, SessionsPaired, keyVars, sentVars, peerVars
<1>6. CallsBegun' /\ FramesSent' /\ KeysAged' /\ FramesOpen'
  BY <1>1 DEF IInv, CallsBegun, FramesSent, KeysAged, FramesOpen, keyVars, sentVars, peerVars
<1> QED BY <1>2, <1>4, <1>5, <1>6 DEF IInv, TypeInv, TypeOK

\* A reload ends what is under way and forgets the keys in memory.
LEMMA ReloadInv == ASSUME IInv, Reload PROVE IInv'
<1>1. UNCHANGED <<calls, to, what, savedS, sentVars, peerVars>>
      /\ sendKey' = attach' /\ (\A p \in Peer : sendKey'[p] = None)
      /\ (\A c \in Call : key'[c] = None /\ step'[c] \notin {"saving", "encrypting"}
                          /\ step'[c] = (IF Underway(c) THEN "ended" ELSE step[c]))
  BY DEF Reload, IInv, TypeInv, TypeOK, CallTypes, Underway
<1>2. PageTypes'
  <2>1. toggle' \in [Toggle -> [want: BOOLEAN, step: {"none", "await", "done"}, at: Nat, call: 0 .. CALLS]]
    BY ToggleTypes DEF Reload
  <2>2. calm' \in BOOLEAN
    BY CalmTypes, Zenon DEF Reload
  <2>3. upsets' \in Nat /\ UNCHANGED savedGhost
    BY DEF Reload, IInv, TypeInv, TypeOK, PageTypes
  <2>4. page' = "keys" /\ socket' = "none" /\ due' = FALSE /\ ghost' = FALSE /\ raced' = FALSE
        /\ flagRead' = FALSE
    BY DEF Reload
  <2> QED BY <2>1, <2>2, <2>3, <2>4 DEF IInv, TypeInv, TypeOK, PageTypes
<1>3. CallTypes'
  <2>1. step' \in [Call -> Wait]
    BY DEF Reload, IInv, TypeInv, TypeOK, CallTypes, Wait
  <2>2. key' \in [Call -> KeyOr] /\ on' \subseteq Call
    BY DEF Reload, KeyOr
  <2> QED BY <1>1, <2>1, <2>2 DEF IInv, TypeInv, TypeOK, CallTypes
<1>4. KeyTypes' /\ SentTypes' /\ PeerTypes'
  BY <1>1 DEF Reload, IInv, TypeInv, TypeOK, KeyTypes, SentTypes, PeerTypes, KeyOr, sentVars, peerVars
<1>5. SessionsPaired'
  BY <1>1 DEF IInv, TypeInv, SessionsPaired, sentVars, peerVars
<1>6. CallsBegun' /\ FramesSent'
  BY <1>1 DEF IInv, CallsBegun, FramesSent, Underway, sentVars, peerVars
<1>7. KeysAged' /\ FramesOpen'
  BY <1>1 DEF IInv, KeysAged, FramesOpen, sentVars, peerVars
<1> QED BY <1>2, <1>3, <1>4, <1>5, <1>6, <1>7 DEF IInv, TypeInv, TypeOK

-----------------------------------------------------------------------------
\* Calls begin: those that began before, and their contacts, are as they were.
LEMMA BeginCalls ==
  ASSUME IInv, NEW ts \in Seq(Peer), NEW status \in Status,
         NEW first \in [Peer -> {"devices", "encrypting", "ended"}], Begin(ts, status, first)
  PROVE  /\ calls' \in 0 .. CALLS /\ calls <= calls'
         /\ to' \in [Call -> Peer \union {None}] /\ what' \in [Call -> Status \union {None}]
         /\ step' \in [Call -> Wait]
         /\ New(ts) \subseteq Call
         /\ \A c \in Call : c <= calls => c \notin New(ts)
         /\ \A c \in Call : c <= calls' => c <= calls \/ c \in New(ts)
         /\ \A c \in New(ts) : c <= calls' /\ to'[c] \in Peer /\ to'[c] = ts[c - calls]
                               /\ step'[c] = first[to'[c]]
         /\ \A c \in Call : c \notin New(ts) => to'[c] = to[c] /\ step'[c] = step[c]
<1>1. calls \in Nat /\ CALLS \in Nat /\ Len(ts) \in Nat /\ calls + Len(ts) <= CALLS
      /\ calls' = calls + Len(ts)
  BY BoundAssumption DEF IInv, TypeInv, TypeOK, CallTypes, Begin
<1>2. New(ts) \subseteq Call /\ (\A c \in New(ts) : c - calls \in 1 .. Len(ts) /\ c > calls /\ c <= calls')
  BY <1>1 DEF New, Call
<1>3. \A c \in New(ts) : ts[c - calls] \in Peer
  BY <1>2
<1>4. to' \in [Call -> Peer \union {None}] /\ what' \in [Call -> Status \union {None}]
  BY <1>2, <1>3 DEF IInv, TypeInv, TypeOK, CallTypes, Begin
<1>5. step' \in [Call -> Wait]
  BY <1>2, <1>3 DEF IInv, TypeInv, TypeOK, CallTypes, Begin, Wait
<1>6. \A c \in Call : c <= calls => c \notin New(ts)
  BY <1>1, <1>2 DEF Call
<1>7. \A c \in Call : c <= calls' => c <= calls \/ c \in New(ts)
  BY <1>1 DEF New, Call
<1>8. \A c \in New(ts) : to'[c] = ts[c - calls] /\ step'[c] = first[ts[c - calls]]
  BY <1>2 DEF Begin
<1>9. \A c \in Call : c \notin New(ts) => to'[c] = to[c] /\ step'[c] = step[c]
  BY DEF Begin
<1> QED BY <1>1, <1>2, <1>3, <1>4, <1>5, <1>6, <1>7, <1>8, <1>9

\* A call that is sent for: it has no key and no frame yet.
LEMMA BeginSendInv ==
  ASSUME IInv, NEW ts \in Seq(Peer), NEW status \in Status, BeginSend(ts, status), PageTypes',
         UNCHANGED <<page, keyVars, sentVars, peerVars>>
  PROVE  IInv'
<1> DEFINE first == [p \in Peer |-> "devices"]
<1>1. first \in [Peer -> {"devices", "encrypting", "ended"}] /\ Begin(ts, status, first)
  BY DEF BeginSend
<1> HIDE DEF first
<1>2. /\ calls' \in 0 .. CALLS /\ calls <= calls'
      /\ to' \in [Call -> Peer \union {None}] /\ what' \in [Call -> Status \union {None}]
      /\ step' \in [Call -> Wait]
      /\ New(ts) \subseteq Call
      /\ \A c \in Call : c <= calls => c \notin New(ts)
      /\ \A c \in Call : c <= calls' => c <= calls \/ c \in New(ts)
      /\ \A c \in New(ts) : c <= calls' /\ to'[c] \in Peer /\ step'[c] = first[to'[c]]
      /\ \A c \in Call : c \notin New(ts) => to'[c] = to[c] /\ step'[c] = step[c]
  BY <1>1, BeginCalls
<1>3. \A c \in New(ts) : step'[c] = "devices"
  BY <1>2 DEF first
<1>4. key' = key /\ on' \subseteq Call
  BY <1>2 DEF BeginSend, IInv, TypeInv, TypeOK, CallTypes
<1>5. CallTypes'
  BY <1>2, <1>4 DEF IInv, TypeInv, TypeOK, CallTypes
<1>6. KeyTypes' /\ SentTypes' /\ PeerTypes'
  BY DEF IInv, TypeInv, TypeOK, KeyTypes, SentTypes, PeerTypes, keyVars, sentVars, peerVars
<1>7. \A c \in New(ts) : key[c] = None /\ box[c] = NoBox /\ handler[c] = "none"
  BY <1>2 DEF IInv, CallsBegun, FramesSent
<1>8. SessionsPaired'
  BY <1>2, <1>3, <1>4, <1>7 DEF IInv, TypeInv, SessionsPaired, keyVars, sentVars, peerVars
<1>9. CallsBegun'
  <2>1. calls \in Nat /\ calls' \in Nat
    BY <1>2 DEF IInv, TypeInv, TypeOK, CallTypes
  <2>2. \A c \in Call : c \in Nat
    BY DEF Call
  <2> QED BY <1>2, <1>3, <1>4, <1>7, <2>1, <2>2 DEF IInv, CallsBegun, sentVars
<1>10. FramesSent'
  <2>1. ASSUME NEW p \in Peer, NEW i \in DOMAIN wire[p]
        PROVE  wire[p][i] \in Call /\ to'[wire[p][i]] = to[wire[p][i]]
    <3>1. wire[p][i] \in Call
      BY DEF IInv, TypeInv, TypeOK, SentTypes
    <3> QED BY <3>1, <1>2, <1>7 DEF IInv, FramesSent
  <2> QED BY <1>2, <1>7, <2>1 DEF IInv, FramesSent, sentVars, peerVars
<1>11. KeysAged'
  BY <1>2, <1>4, <1>7 DEF IInv, KeysAged, NoBox, keyVars, sentVars, peerVars
<1>12. FramesOpen'
  BY <1>2, <1>7 DEF IInv, FramesOpen, sentVars, peerVars
<1> QED BY <1>5, <1>6, <1>8, <1>9, <1>10, <1>11, <1>12 DEF IInv, TypeInv, TypeOK

\* A step that begins no call.
LEMMA NothingSentInv ==
  ASSUME IInv, PageTypes', UNCHANGED <<page, callVars, keyVars, sentVars, peerVars>>
  PROVE  IInv'
<1>1. CallTypes' /\ KeyTypes' /\ SentTypes' /\ PeerTypes'
  BY DEF IInv, TypeInv, TypeOK, CallTypes, KeyTypes, SentTypes, PeerTypes,
     callVars, keyVars, sentVars, peerVars
<1>2. SessionsPaired'
  BY DEF IInv, TypeInv, SessionsPaired, callVars, keyVars, sentVars, peerVars
<1>3. CallsBegun' /\ FramesSent' /\ KeysAged' /\ FramesOpen'
  BY DEF IInv, CallsBegun, FramesSent, KeysAged, FramesOpen, callVars, keyVars, sentVars, peerVars
<1> QED BY <1>1, <1>2, <1>3 DEF IInv, TypeInv, TypeOK

-----------------------------------------------------------------------------
\* The steps of a call that send nothing.
LEMMA QuietStepInv ==
  ASSUME IInv, NEW c \in Call,
         LoadKey(c) \/ NoStoredKey(c) \/ EstablishSend(c) \/ SkipDevice(c) \/ CallRejects(c)
  PROVE  IInv'
<1> USE NoneIsNoKey
<1>1. PICK w \in {"loading", "ended", "bundle", "saving"} :
        step' = [step EXCEPT ![c] = w] /\ (w = "saving" => EstablishSend(c))
  BY DEF LoadKey, NoStoredKey, EstablishSend, SkipDevice, CallRejects
<1>2. step[c] \in {"devices", "loading", "bundle"} /\ c <= calls /\ to[c] \in Peer /\ box[c] = NoBox
  BY DEF LoadKey, NoStoredKey, EstablishSend, SkipDevice, CallRejects, IInv, CallsBegun, FramesSent
<1>3. UNCHANGED <<pageVars, calls, to, what, sentVars, ghostVars, peerVars, upsets>>
      /\ on' \subseteq on
  BY SMT DEF LoadKey, NoStoredKey, EstablishSend, SkipDevice, CallRejects
<1>4. PageTypes'
  <2>1. calm' \in {calm, calm /\ ghost}
    BY DEF LoadKey, NoStoredKey, EstablishSend, SkipDevice, CallRejects
  <2>2. calm' \in BOOLEAN
    BY <2>1, CalmTypes, Zenon DEF IInv, TypeInv, TypeOK, PageTypes
  <2> QED BY <1>3, <2>2 DEF IInv, TypeInv, TypeOK, PageTypes, pageVars, ghostVars
<1>5. PICK k \in KeyOr : key' = [key EXCEPT ![c] = k] /\ (k # None => k.gen <= gen[to[c]])
                        /\ (w = "saving" => k # None /\ k.by = c)
  <2>1. CASE LoadKey(c)
    BY <1>1, <1>2, <2>1 DEF LoadKey, IInv, TypeInv, TypeOK, KeyTypes, CallTypes, KeysAged, EstablishSend
  <2>2. CASE EstablishSend(c)
    <3> DEFINE k == [by |-> c, gen |-> gen[to[c]]]
    <3>1. k \in KeyOr /\ k # None /\ k.by = c /\ k.gen <= gen[to[c]]
      BY <1>2 DEF Key, KeyOr, IInv, TypeInv, TypeOK, PeerTypes
    <3>2. key' = [key EXCEPT ![c] = k]
      BY <2>2 DEF EstablishSend
    <3> HIDE DEF k
    <3> QED BY <3>1, <3>2
  <2>3. CASE NoStoredKey(c) \/ SkipDevice(c)
    <3>1. key' = [key EXCEPT ![c] = key[c]] /\ key[c] \in KeyOr
      BY <2>3 DEF NoStoredKey, SkipDevice, IInv, TypeInv, TypeOK, CallTypes
    <3>2. w # "saving"
      BY <1>1, <1>2, <2>3 DEF IInv, TypeInv, TypeOK, CallTypes, NoStoredKey, SkipDevice
    <3> QED BY <1>2, <3>1, <3>2 DEF IInv, KeysAged
  <2>4. CASE CallRejects(c)
    <3>1. key' = [key EXCEPT ![c] = None] /\ None \in KeyOr /\ w # "saving"
      BY <1>1, <1>2, <2>4 DEF CallRejects, KeyOr, IInv, TypeInv, TypeOK, CallTypes
    <3> QED BY <3>1
  <2> QED BY <2>1, <2>2, <2>3, <2>4
<1>6. KeyTypes' /\ sendKey' = attach'
      /\ (\A p \in Peer : attach[p] # None => attach'[p] # None)
      /\ (\A p \in Peer : \A x \in {sendKey'[p], savedS'[p]} : x # None => x.gen <= gen[p])
      /\ (w = "saving" => attach'[to[c]] # None)
  <2>1. CASE EstablishSend(c)
    <3> DEFINE own == [by |-> c, gen |-> gen[to[c]]]
    <3>1. own \in Key /\ own.gen = gen[to[c]] /\ gen[to[c]] \in Nat
      BY <1>2 DEF Key, IInv, TypeInv, TypeOK, PeerTypes
    <3>2. sendKey' = [sendKey EXCEPT ![to[c]] = own] /\ attach' = [attach EXCEPT ![to[c]] = own]
          /\ savedS' = [savedS EXCEPT ![to[c]] = own]
      BY <2>1 DEF EstablishSend
    <3> HIDE DEF own
    <3> QED BY <1>2, <3>1, <3>2 DEF IInv, TypeInv, TypeOK, SessionsPaired, KeyTypes, KeysAged, KeyOr
  <2>2. CASE ~EstablishSend(c)
    <3>1. UNCHANGED keyVars
      BY <2>2 DEF LoadKey, NoStoredKey, SkipDevice, CallRejects
    <3> QED BY <1>1, <2>2, <3>1 DEF IInv, TypeInv, TypeOK, SessionsPaired, KeyTypes, KeysAged, keyVars
  <2> QED BY <2>1, <2>2
<1>7. CallTypes'
  BY <1>1, <1>3, <1>5 DEF IInv, TypeInv, TypeOK, CallTypes, Wait
<1>8. SentTypes' /\ PeerTypes'
  BY <1>3 DEF IInv, TypeInv, TypeOK, SentTypes, PeerTypes, sentVars, peerVars
<1>9. SessionsPaired'
  BY <1>1, <1>2, <1>3, <1>5, <1>6 DEF IInv, TypeInv, TypeOK, CallTypes, SessionsPaired, CallsBegun,
     sentVars, peerVars, pageVars
<1>10. CallsBegun'
  BY <1>1, <1>2, <1>3, <1>5 DEF IInv, TypeInv, TypeOK, CallTypes, CallsBegun, sentVars
<1>11. FramesSent'
  BY <1>1, <1>2, <1>3 DEF IInv, TypeInv, TypeOK, CallTypes, FramesSent, sentVars, peerVars
<1>12. KeysAged'
  BY <1>2, <1>3, <1>5, <1>6 DEF IInv, TypeInv, TypeOK, CallTypes, KeysAged, sentVars, peerVars
<1>13. FramesOpen'
  BY <1>3 DEF IInv, FramesOpen, sentVars, peerVars
<1> QED BY <1>4, <1>6, <1>7, <1>8, <1>9, <1>10, <1>11, <1>12, <1>13 DEF IInv, TypeInv, TypeOK

\* A call ends, and what it has encrypted is on its way if its socket is there.
LEMMA TransmitInv ==
  ASSUME IInv, NEW c \in Call, step[c] \in {"devices", "loading", "saving", "encrypting"},
         NEW k \in Key, NEW pk \in KeyOr, Transmit(c, k, pk), k.gen <= gen[to[c]], pk = k \/ k.by = c,
         key' = key \/ key' = [key EXCEPT ![c] = None],
         KeyTypes', sendKey' = attach', \A p \in Peer : attach[p] # None => attach'[p] # None,
         \A p \in Peer : sendKey'[p] # None => sendKey'[p].gen <= gen[p],
         UNCHANGED <<pageVars, calls, to, what, savedS, ghostVars, calm, peerVars, upsets>>
  PROVE  IInv'
<1> USE NoneIsNoKey
<1>1. c <= calls /\ to[c] \in Peer /\ box[c] = NoBox /\ handler[c] = "none" /\ what[c] \in Status \union {None}
  <2>1. c <= calls /\ to[c] \in Peer /\ box[c] = NoBox
    BY DEF IInv, CallsBegun, FramesSent
  <2> QED BY <2>1 DEF IInv, FramesSent, TypeInv, TypeOK, CallTypes
<1>2. step' = [step EXCEPT ![c] = "ended"] /\ on' \subseteq on
  BY DEF Transmit
<1>3. k # None
  BY DEF KeyOr
<1>4. \/ UNCHANGED sentVars
      \/ /\ box' = [box EXCEPT ![c] = [key |-> k, prekey |-> pk]]
         /\ wire' = [wire EXCEPT ![to[c]] = Append(wire[to[c]], c)]
         /\ last' = [last EXCEPT ![to[c]] = what[c]]
  BY DEF Transmit
<1>5. PageTypes'
  BY DEF IInv, TypeInv, TypeOK, PageTypes, pageVars, ghostVars
<1>6. CallTypes'
  BY <1>2 DEF IInv, TypeInv, TypeOK, CallTypes, Wait, KeyOr
<1>7. SentTypes'
  <2>1. CASE UNCHANGED sentVars
    BY <2>1 DEF IInv, TypeInv, TypeOK, SentTypes, sentVars
  <2>2. CASE ~UNCHANGED sentVars
    <3>1. Append(wire[to[c]], c) \in Seq(Call)
      BY <1>1 DEF IInv, TypeInv, TypeOK, SentTypes
    <3>2. [key |-> k, prekey |-> pk] \in [key: KeyOr, prekey: KeyOr]
      BY DEF KeyOr
    <3>3. SentTypes
      BY DEF IInv, TypeInv, TypeOK
    <3>4. wire' \in [Peer -> Seq(Call)]
      BY <1>1, <1>4, <2>2, <3>1, <3>3 DEF SentTypes
    <3>5. last' \in [Peer -> Status \union {None}]
      BY <1>1, <1>4, <2>2, <3>3 DEF SentTypes
    <3>6. box' \in [Call -> [key: KeyOr, prekey: KeyOr]]
      BY <1>4, <2>2, <3>2, <3>3 DEF SentTypes
    <3> QED BY <3>4, <3>5, <3>6 DEF SentTypes
  <2> QED BY <2>1, <2>2
<1>8. PeerTypes'
  BY DEF IInv, TypeInv, TypeOK, PeerTypes, peerVars
<1>9. \A d \in Call : d # c => box'[d] = box[d] /\ step'[d] = step[d] /\ key'[d] = key[d]
  BY <1>2, <1>4 DEF IInv, TypeInv, TypeOK, CallTypes, SentTypes, sentVars
<1>10. /\ step'[c] = "ended" /\ key'[c] \in {key[c], None}
       /\ box'[c] = NoBox \/ (box'[c].key = k /\ box'[c].prekey = pk /\ box'[c] # NoBox)
  <2>1. step'[c] = "ended" /\ key'[c] \in {key[c], None}
    BY <1>2 DEF IInv, TypeInv, TypeOK, CallTypes
  <2>2. box'[c] \in {NoBox, [key |-> k, prekey |-> pk]}
    BY <1>1, <1>4 DEF IInv, TypeInv, TypeOK, SentTypes, sentVars
  <2>3. [key |-> k, prekey |-> pk] # NoBox
    BY <1>3, BoxFilled
  <2> QED BY <2>1, <2>2, <2>3
<1>11. SessionsPaired'
  BY <1>1, <1>9, <1>10 DEF IInv, TypeInv, SessionsPaired, FramesSent, pageVars, peerVars, CallsBegun
<1>12. CallsBegun'
  BY <1>1, <1>9, <1>10 DEF IInv, CallsBegun
<1>13. FramesSent'
  <2>1. \A d \in Call : box'[d] # NoBox => step'[d] = "ended" /\ box'[d].key # None
    BY <1>3, <1>9, <1>10 DEF IInv, FramesSent
  <2>2. \A d \in Call : handler'[d] # "none" => box'[d] # NoBox
    BY <1>1, <1>9 DEF IInv, FramesSent, peerVars
  <2>3. \A p \in Peer : \A i \in DOMAIN wire'[p] : to'[wire'[p][i]] = p /\ box'[wire'[p][i]] # NoBox
    <3>1. CASE UNCHANGED sentVars
      BY <3>1 DEF IInv, FramesSent, sentVars
    <3>2. CASE ~UNCHANGED sentVars
      <4> SUFFICES ASSUME NEW p \in Peer, NEW i \in DOMAIN wire'[p]
                   PROVE  to[wire'[p][i]] = p /\ box'[wire'[p][i]] # NoBox
        OBVIOUS
      <4>1. wire \in [Peer -> Seq(Call)] /\ box'[c] # NoBox
        BY <1>3, <1>4, <3>2, BoxFilled DEF IInv, TypeInv, TypeOK, SentTypes
      <4>2. CASE i \in DOMAIN wire[p] /\ wire'[p][i] = wire[p][i]
        BY <1>9, <4>1, <4>2 DEF IInv, FramesSent
      <4>3. CASE p = to[c] /\ wire'[p][i] = c
        BY <4>1, <4>3
      <4>4. wire' = [wire EXCEPT ![to[c]] = Append(wire[to[c]], c)]
        BY <1>4, <3>2
      <4>5. CASE p = to[c]
        <5>1. wire'[p] = Append(wire[p], c) /\ wire[p] \in Seq(Call)
          BY <4>1, <4>4, <4>5
        <5> QED BY <4>2, <4>3, <4>5, <5>1
      <4>6. CASE p # to[c]
        BY <4>1, <4>2, <4>4, <4>6
      <4> QED BY <4>5, <4>6
    <3> QED BY <3>1, <3>2
  <2> QED BY <2>1, <2>2, <2>3 DEF FramesSent
<1>14. KeysAged'
  <2>1. \A p \in Peer : \A x \in {sendKey'[p], savedS'[p]} : x # None => x.gen <= gen'[p]
    BY DEF IInv, KeysAged, peerVars
  <2>2. \A d \in Call : \A x \in {key'[d], box'[d].key} : x # None => x.gen <= gen'[to'[d]]
    BY <1>9, <1>10 DEF IInv, KeysAged, peerVars, NoBox
  <2> QED BY <2>1, <2>2 DEF KeysAged
<1>15. FramesOpen'
  BY <1>1, <1>9, <1>10 DEF IInv, FramesOpen, peerVars
<1> QED BY <1>5, <1>6, <1>7, <1>8, <1>11, <1>12, <1>13, <1>14, <1>15 DEF IInv, TypeInv, TypeOK

\* The steps that send.
LEMMA SendStepInv ==
  ASSUME IInv, NEW c \in Call, UseKey(c) \/ RestoreKey(c) \/ SendFirst(c) \/ SendFarewell(c)
  PROVE  IInv'
<1> USE NoneIsNoKey
<1>1. step[c] # "none" /\ c <= calls /\ to[c] \in Peer
  BY DEF UseKey, RestoreKey, SendFirst, SendFarewell, IInv, CallsBegun
<1>2. key[c] \in KeyOr /\ sendKey[to[c]] \in KeyOr /\ attach[to[c]] \in KeyOr /\ sendKey = attach
      /\ KeyTypes
  BY <1>1 DEF IInv, TypeInv, TypeOK, CallTypes, KeyTypes, SessionsPaired
<1>3. CASE UseKey(c)
  <2>1. /\ sendKey[to[c]] \in Key /\ sendKey[to[c]].gen <= gen[to[c]]
        /\ Transmit(c, sendKey[to[c]], attach[to[c]]) /\ step[c] = "devices"
    BY <1>1, <1>2, <1>3 DEF UseKey, KeyOr, IInv, KeysAged
  <2>2. UNCHANGED <<keyVars, key, pageVars, calls, to, what, ghostVars, calm, peerVars, upsets>>
    BY <1>3 DEF UseKey
  <2> QED BY <1>2, <2>1, <2>2, TransmitInv DEF IInv, KeysAged, KeyTypes, keyVars
<1>4. CASE RestoreKey(c)
  <2>1. key[c] \in Key /\ key[c].gen <= gen[to[c]] /\ Transmit(c, key[c], key[c]) /\ step[c] = "loading"
    BY <1>2, <1>4 DEF RestoreKey, KeyOr, IInv, KeysAged
  <2>2. sendKey' = [sendKey EXCEPT ![to[c]] = key[c]] /\ attach' = [attach EXCEPT ![to[c]] = key[c]]
        /\ key' = [key EXCEPT ![c] = None]
        /\ UNCHANGED <<pageVars, calls, to, what, savedS, ghostVars, calm, peerVars, upsets>>
    BY <1>4 DEF RestoreKey
  <2>3. KeyTypes' /\ sendKey' = attach' /\ (\A p \in Peer : attach[p] # None => attach'[p] # None)
        /\ (\A p \in Peer : sendKey'[p] # None => sendKey'[p].gen <= gen[p])
    BY <1>1, <1>2, <2>1, <2>2 DEF KeyTypes, IInv, KeysAged
  <2> QED BY <1>2, <2>1, <2>2, <2>3, TransmitInv
<1>5. CASE SendFirst(c)
  <2>1. key[c] \in Key /\ key[c].by = c /\ key[c].gen <= gen[to[c]] /\ step[c] = "saving"
        /\ Transmit(c, key[c], attach[to[c]])
    BY <1>2, <1>5 DEF SendFirst, KeyOr, IInv, TypeInv, SessionsPaired, KeysAged
  <2>2. key' = [key EXCEPT ![c] = None]
        /\ UNCHANGED <<keyVars, pageVars, calls, to, what, ghostVars, calm, peerVars, upsets>>
    BY <1>5 DEF SendFirst
  <2> QED BY <1>2, <2>1, <2>2, TransmitInv DEF IInv, KeysAged, KeyTypes, keyVars
<1>6. CASE SendFarewell(c)
  <2>1. key[c] \in Key /\ key[c].gen <= gen[to[c]] /\ Transmit(c, key[c], key[c]) /\ step[c] = "encrypting"
    BY <1>2, <1>6 DEF SendFarewell, KeyOr, IInv, CallsBegun, KeysAged
  <2>2. UNCHANGED <<key, keyVars, pageVars, calls, to, what, ghostVars, calm, peerVars, upsets>>
    BY <1>6 DEF SendFarewell
  <2> QED BY <1>2, <2>1, <2>2, TransmitInv DEF IInv, KeysAged, KeyTypes, keyVars
<1> QED BY <1>3, <1>4, <1>5, <1>6

-----------------------------------------------------------------------------
\* Calls of the application, and those of the announcement.
LEMMA UpdateInv ==
  ASSUME IInv, SendUpdate \/ Announce
  PROVE  IInv'
<1>1. calm' \in BOOLEAN
  BY DEF SendUpdate, Announce, IInv, TypeInv, TypeOK, PageTypes
<1>2. PageTypes'
  BY <1>1 DEF SendUpdate, Announce, IInv, TypeInv, TypeOK, PageTypes, pageVars, ghostVars
<1>3. CASE SendUpdate
  <2>1. PICK p \in Peer : BeginSend(<<p>>, "update")
    BY <1>3 DEF SendUpdate
  <2>2. <<p>> \in Seq(Peer) /\ "update" \in Status
    BY DEF Status
  <2>3. UNCHANGED <<page, keyVars, sentVars, peerVars>>
    BY <1>3 DEF SendUpdate, pageVars
  <2> QED BY <1>2, <2>1, <2>2, <2>3, BeginSendInv
<1>4. CASE Announce /\ CanSend
  <2>1. BeginSend(Contacts, "online") /\ UNCHANGED <<page, keyVars, sentVars, peerVars>>
    BY <1>4 DEF Announce
  <2>2. Contacts \in Seq(Peer) /\ "online" \in Status
    BY ContactsAssumption DEF Status
  <2> QED BY <1>2, <2>1, <2>2, BeginSendInv
<1>5. CASE Announce /\ ~CanSend
  <2>1. UNCHANGED <<page, callVars, keyVars, sentVars, peerVars>>
    BY <1>5 DEF Announce
  <2> QED BY <1>2, <2>1, NothingSentInv
<1> QED BY <1>3, <1>4, <1>5

\* The loop of setGhostMode.
LEMMA LoopInv ==
  ASSUME IInv, NEW g \in Toggle, NEW enabled \in BOOLEAN, NEW i \in Nat \ {0}, NEW flag \in BOOLEAN,
         Loop(g, enabled, i, flag), calm' \in BOOLEAN, raced' \in BOOLEAN,
         UNCHANGED <<page, flagRead, socket, due, keyVars, sentVars, peerVars, upsets>>
  PROVE  IInv'
<1> DEFINE TT == [want: BOOLEAN, step: {"none", "await", "done"}, at: Nat, call: 0 .. CALLS]
<1>1. toggle \in [Toggle -> TT]
  BY DEF IInv, TypeInv, TypeOK, PageTypes
<1>2. CASE \E s \in Status : i <= Len(Contacts) /\ BeginSend(<<Contacts[i]>>, s) /\ ghost' = flag
           /\ savedGhost' = savedGhost
           /\ toggle' = [toggle EXCEPT ![g] = [want |-> enabled, step |-> "await", at |-> i, call |-> calls + 1]]
  <2>1. PICK s \in Status : BeginSend(<<Contacts[i]>>, s)
    BY <1>2
  <2>2. Contacts[i] \in Peer /\ <<Contacts[i]>> \in Seq(Peer)
    BY <1>2, ContactsAssumption
  <2>3. calls + 1 \in 0 .. CALLS
    BY <2>1, BoundAssumption DEF BeginSend, Begin, IInv, TypeInv, TypeOK, CallTypes
  <2>4. [want |-> enabled, step |-> "await", at |-> i, call |-> calls + 1] \in TT
    BY <2>3
  <2>5. toggle' \in [Toggle -> TT]
    BY <1>1, <1>2, <2>4
  <2>6. PageTypes'
    BY <1>2, <2>5 DEF IInv, TypeInv, TypeOK, PageTypes
  <2> QED BY <2>1, <2>2, <2>6, BeginSendInv
<1>3. CASE toggle' = [toggle EXCEPT ![g] = Done] /\ ghost' \in BOOLEAN /\ savedGhost' = ghost'
           /\ UNCHANGED callVars
  <2>1. toggle' \in [Toggle -> TT]
    BY <1>1, <1>3, ToggleTypes
  <2>2. PageTypes'
    BY <1>3, <2>1 DEF IInv, TypeInv, TypeOK, PageTypes
  <2> QED BY <1>3, <2>2, NothingSentInv
<1>4. (flag \/ enabled) \in BOOLEAN
  OBVIOUS
<1>5. \/ /\ i <= Len(Contacts) /\ ghost' = flag /\ savedGhost' = savedGhost
         /\ BeginSend(<<Contacts[i]>>, IF enabled THEN "offline" ELSE "online")
         /\ toggle' = [toggle EXCEPT ![g] = [want |-> enabled, step |-> "await", at |-> i, call |-> calls + 1]]
      \/ toggle' = [toggle EXCEPT ![g] = Done] /\ ghost' = (flag \/ enabled) /\ savedGhost' = ghost'
         /\ UNCHANGED callVars
  BY DEF Loop
<1>6. (IF enabled THEN "offline" ELSE "online") \in Status
  BY DEF Status
<1> QED BY <1>2, <1>3, <1>4, <1>5, <1>6, Zenon

LEMMA GhostInv ==
  ASSUME IInv, NEW g \in Toggle, ContactTold(g) \/ \E enabled \in BOOLEAN : SetGhostMode(g, enabled)
  PROVE  IInv'
<1>1. CASE ContactTold(g)
  <2>1. Loop(g, toggle[g].want, toggle[g].at + 1, ghost)
        /\ UNCHANGED <<pageVars, keyVars, sentVars, calm, peerVars, upsets>>
    BY <1>1 DEF ContactTold
  <2>2. toggle[g].want \in BOOLEAN /\ toggle[g].at + 1 \in Nat \ {0} /\ ghost \in BOOLEAN
        /\ calm \in BOOLEAN /\ raced \in BOOLEAN
    BY DEF IInv, TypeInv, TypeOK, PageTypes
  <2> QED BY <2>1, <2>2, LoopInv DEF pageVars
<1>2. ASSUME NEW enabled \in BOOLEAN, SetGhostMode(g, enabled)
      PROVE  IInv'
  <2>1. Loop(g, enabled, 1, FALSE)
        /\ UNCHANGED <<page, flagRead, socket, due, keyVars, sentVars, peerVars, upsets>>
    BY <1>2 DEF SetGhostMode
  <2>2. calm' \in BOOLEAN /\ raced' \in BOOLEAN
    BY <1>2, Zenon DEF SetGhostMode
  <2>3. 1 \in Nat \ {0} /\ FALSE \in BOOLEAN
    OBVIOUS
  <2> QED BY <2>1, <2>2, <2>3, LoopInv
<1> QED BY <1>1, <1>2

\* The cleanup of the effect: calls that begin with the key they encrypt with.
LEMMA UnmountInv == ASSUME IInv, Unmount PROVE IInv'
<1>1. PageTypes'
  <2>1. calm' \in BOOLEAN
    BY CalmTypes, Zenon DEF Unmount
  <2>2. page' = "unmounted" /\ due' = FALSE /\ socket' \in {"none", "closed"}
        /\ UNCHANGED <<flagRead, raced, ghostVars, upsets>>
    BY DEF Unmount
  <2> QED BY <2>1, <2>2 DEF IInv, TypeInv, TypeOK, PageTypes, ghostVars
<1>2. /\ page' = "unmounted" /\ on' = {} /\ UNCHANGED <<savedS, sentVars, peerVars>>
      /\ \A p \in Peer : sendKey'[p] = None
      /\ sendKey' = [p \in Peer |-> None] /\ attach' = [p \in Peer |-> None]
  BY DEF Unmount
<1>3. KeyTypes' /\ SentTypes' /\ PeerTypes'
  BY <1>2 DEF IInv, TypeInv, TypeOK, KeyTypes, SentTypes, PeerTypes, KeyOr, sentVars, peerVars
<1>4. CASE ~CanSend
  <2>1. UNCHANGED <<calls, to, what, step, key>>
    BY <1>4 DEF Unmount
  <2>2. CallTypes'
    BY <1>2, <2>1 DEF IInv, TypeInv, TypeOK, CallTypes
  <2>3. SessionsPaired'
    BY <1>2, <2>1 DEF IInv, TypeInv, SessionsPaired, sentVars, peerVars
  <2>4. CallsBegun' /\ FramesSent' /\ KeysAged' /\ FramesOpen'
    BY <1>2, <2>1 DEF IInv, CallsBegun, FramesSent, KeysAged, FramesOpen, sentVars, peerVars
  <2> QED BY <1>1, <1>3, <2>2, <2>3, <2>4 DEF IInv, TypeInv, TypeOK
<1>5. CASE CanSend
  <2>1. Farewell \in [Peer -> {"devices", "encrypting", "ended"}] /\ Contacts \in Seq(Peer)
        /\ "farewell" \in Status /\ Begin(Contacts, "farewell", Farewell)
    BY <1>5, ContactsAssumption DEF Farewell, Status, Unmount
  <2>2. /\ calls' \in 0 .. CALLS /\ calls <= calls'
        /\ to' \in [Call -> Peer \union {None}] /\ what' \in [Call -> Status \union {None}]
        /\ step' \in [Call -> Wait]
        /\ New(Contacts) \subseteq Call
        /\ \A c \in Call : c <= calls => c \notin New(Contacts)
        /\ \A c \in Call : c <= calls' => c <= calls \/ c \in New(Contacts)
        /\ \A c \in New(Contacts) : c <= calls' /\ to'[c] \in Peer /\ to'[c] = Contacts[c - calls]
                                    /\ step'[c] = Farewell[to'[c]]
        /\ \A c \in Call : c \notin New(Contacts) => to'[c] = to[c] /\ step'[c] = step[c]
    BY <2>1, BeginCalls
  <2>3. /\ key' = [c \in Call |-> IF c \in New(Contacts) THEN sendKey[Contacts[c - calls]] ELSE key[c]]
    BY <1>5 DEF Unmount
  <2>4. /\ \A c \in New(Contacts) : key'[c] = sendKey[to'[c]]
        /\ \A c \in Call : c \notin New(Contacts) => key'[c] = key[c]
    BY <2>2, <2>3
  <2>5. \A c \in New(Contacts) : /\ step'[c] \in {"ended", "encrypting"}
                                 /\ step'[c] = "encrypting" => key'[c] # None
    <3>1. ASSUME NEW c \in New(Contacts)
          PROVE  to'[c] \in Peer /\ step'[c] = Farewell[to'[c]] /\ key'[c] = sendKey[to'[c]]
      BY <2>2, <2>4
    <3>2. ASSUME NEW p \in Peer
          PROVE  Farewell[p] = IF sendKey[p] = None THEN "ended" ELSE "encrypting"
      BY DEF Farewell
    <3> QED BY <3>1, <3>2
  <2>6. CallTypes'
    <3>1. key' \in [Call -> KeyOr]
      BY <2>2, <2>3 DEF IInv, TypeInv, TypeOK, CallTypes, KeyTypes
    <3> QED BY <1>2, <2>2, <3>1 DEF CallTypes
  <2>7. \A c \in New(Contacts) : box[c] = NoBox /\ handler[c] = "none"
    BY <2>2 DEF IInv, CallsBegun, FramesSent
  <2>8. SessionsPaired'
    <3>1. ASSUME NEW c \in Call
          PROVE  /\ step'[c] = "saving" => key'[c] # None /\ key'[c].by = c
                 /\ handler'[c] = "saving" =>
                      box'[c].prekey # None /\ fresh'[c] = Responded(box'[c].prekey, gen'[to'[c]])
      <4>1. CASE c \in New(Contacts)
        <5>1. step'[c] # "saving"
          BY <2>5, <4>1
        <5>2. handler'[c] = "none"
          BY <1>2, <2>7, <4>1 DEF peerVars
        <5> QED BY <5>1, <5>2
      <4>2. CASE c \notin New(Contacts)
        <5>1. to'[c] = to[c] /\ step'[c] = step[c] /\ key'[c] = key[c]
          BY <2>2, <2>4, <4>2
        <5> QED BY <1>2, <5>1 DEF IInv, TypeInv, SessionsPaired, sentVars, peerVars
      <4> QED BY <4>1, <4>2
    <3> QED BY <1>2, <3>1 DEF SessionsPaired
  <2>9. CallsBegun'
    <3>1. calls \in Nat /\ calls' \in Nat /\ \A c \in Call : c \in Nat
      BY <2>2 DEF IInv, TypeInv, TypeOK, CallTypes, Call
    <3> QED BY <1>2, <2>2, <2>4, <2>5, <2>7, <3>1 DEF IInv, CallsBegun, sentVars
  <2>10. FramesSent'
    <3>1. ASSUME NEW p \in Peer, NEW i \in DOMAIN wire[p]
          PROVE  wire[p][i] \in Call /\ to'[wire[p][i]] = to[wire[p][i]]
      <4>1. wire[p][i] \in Call
        BY DEF IInv, TypeInv, TypeOK, SentTypes
      <4> QED BY <4>1, <2>2, <2>7 DEF IInv, FramesSent
    <3> QED BY <1>2, <2>2, <2>7, <3>1 DEF IInv, FramesSent, sentVars, peerVars
  <2>11. KeysAged'
    <3>1. \A p \in Peer : \A x \in {sendKey'[p], savedS'[p]} : x # None => x.gen <= gen'[p]
      BY <1>2 DEF IInv, KeysAged, peerVars
    <3>2. \A c \in Call : \A x \in {key'[c], box'[c].key} : x # None => x.gen <= gen'[to'[c]]
      BY <1>2, <2>2, <2>4, <2>7 DEF IInv, KeysAged, NoBox, sentVars, peerVars
    <3> QED BY <3>1, <3>2 DEF KeysAged
  <2>12. FramesOpen'
    BY <1>2, <2>2, <2>7 DEF IInv, FramesOpen, sentVars, peerVars
  <2> QED BY <1>1, <1>3, <2>6, <2>8, <2>9, <2>10, <2>11, <2>12 DEF IInv, TypeInv, TypeOK
<1> QED BY <1>4, <1>5

-----------------------------------------------------------------------------
\* A step on a contact's page leaves the sender as it is.
LEMMA NoStepInv ==
  ASSUME IInv, PeerTypes', SessionsPaired', FramesSent', FramesOpen', wire' \in [Peer -> Seq(Call)],
         UNCHANGED <<pageVars, callVars, keyVars, box, last, ghostVars, calm, keeps, gen, upsets>>
  PROVE  IInv'
<1>1. PageTypes' /\ CallTypes' /\ KeyTypes' /\ SentTypes'
  BY DEF IInv, TypeInv, TypeOK, PageTypes, CallTypes, KeyTypes, SentTypes, pageVars, callVars, keyVars, ghostVars
<1>2. CallsBegun' /\ KeysAged'
  BY DEF IInv, CallsBegun, KeysAged, callVars, keyVars
<1> QED BY <1>1, <1>2 DEF IInv, TypeInv, TypeOK

\* What a handler does with its frame: the key it ends with has its types, and
\* it refuses the frame only for the two reasons.
LEMMA RespondedIsKey ==
  ASSUME NEW pk \in Key, NEW g \in Nat
  PROVE  Responded(pk, g) \in Key /\ Responded(pk, g).by = pk.by /\ Responded(pk, g).gen = g
BY DEF Responded, Key

LEMMA EstablishInv ==
  ASSUME IInv, NEW p \in Peer, NEW c \in Call, to[c] = p, box[c].prekey # None, Establish(p, c),
         wire' \in [Peer -> Seq(Call)],
         \A q \in Peer : \A i \in DOMAIN wire'[q] : \E j \in DOMAIN wire[q] : wire'[q][i] = wire[q][j],
         box[c] # NoBox,
         UNCHANGED <<pageVars, callVars, keyVars, box, last, ghostVars, calm, keeps, gen, upsets>>
  PROVE  IInv'
<1> DEFINE k == Responded(box[c].prekey, gen[p])
<1>1. k \in Key
  BY RespondedIsKey DEF IInv, TypeInv, TypeOK, SentTypes, PeerTypes, KeyOr
<1>2. recvKey' = [recvKey EXCEPT ![p] = k] /\ savedR' = [savedR EXCEPT ![p] = k]
      /\ fresh' = [fresh EXCEPT ![c] = k] /\ handler' = [handler EXCEPT ![c] = "saving"]
  BY DEF Establish
<1> HIDE DEF k
<1>3. PeerTypes'
  BY <1>1, <1>2 DEF IInv, TypeInv, TypeOK, PeerTypes, KeyOr
<1>4. SessionsPaired'
  <2>1. \A d \in Call : handler'[d] = "saving" => box[d].prekey # None /\ fresh'[d] = Responded(box[d].prekey, gen[to[d]])
    BY <1>2 DEF k, IInv, TypeInv, TypeOK, PeerTypes, SessionsPaired
  <2> QED BY <2>1 DEF IInv, TypeInv, SessionsPaired, pageVars, callVars, keyVars
<1>5. FramesSent'
  <2>1. \A d \in Call : handler'[d] # "none" => box'[d] # NoBox
    BY <1>2 DEF IInv, FramesSent, TypeInv, TypeOK, PeerTypes
  <2> QED BY <2>1 DEF IInv, FramesSent, callVars
<1>6. FramesOpen'
  BY <1>2 DEF IInv, FramesOpen, TypeInv, TypeOK, PeerTypes, callVars
<1> QED BY <1>3, <1>4, <1>5, <1>6, NoStepInv

LEMMA OpenInv ==
  ASSUME IInv, NEW p \in Peer, NEW c \in Call, NEW k \in KeyOr, to[c] = p, Open(c, k),
         k # box[c].key => box[c].key.gen # gen[p] \/ box[c].prekey # box[c].key,
         recvKey' \in [Peer -> KeyOr], wire' \in [Peer -> Seq(Call)],
         \A q \in Peer : \A i \in DOMAIN wire'[q] : \E j \in DOMAIN wire[q] : wire'[q][i] = wire[q][j],
         box[c] # NoBox,
         UNCHANGED <<pageVars, callVars, keyVars, box, last, ghostVars, calm, keeps, gen, upsets>>
  PROVE  IInv'
<1>1. /\ handler' = [handler EXCEPT ![c] = IF k = box[c].key THEN "shown" ELSE "failed"]
      /\ fresh' = [fresh EXCEPT ![c] = None] /\ savedR' = savedR
  BY DEF Open
<1>2. PeerTypes'
  BY <1>1 DEF IInv, TypeInv, TypeOK, PeerTypes, KeyOr
<1>3. \A d \in Call : /\ handler'[d] \in {"saving", "failed"} /\ d # c => handler'[d] = handler[d] /\ fresh'[d] = fresh[d]
                      /\ handler'[c] # "saving" /\ (handler'[c] = "failed" => k # box[c].key)
                      /\ handler'[d] # "none" => d = c \/ handler[d] # "none"
  BY <1>1 DEF IInv, TypeInv, TypeOK, PeerTypes
<1>4. SessionsPaired'
  BY <1>3 DEF IInv, TypeInv, SessionsPaired, pageVars, callVars, keyVars
<1>5. FramesSent'
  BY <1>3 DEF IInv, FramesSent, callVars
<1>6. FramesOpen'
  BY <1>3 DEF IInv, FramesOpen, callVars
<1> QED BY <1>2, <1>4, <1>5, <1>6, NoStepInv

\* A frame that arrives is one for this contact; what is behind it is as before.
LEMMA ArrivesFacts ==
  ASSUME IInv, NEW p \in Peer, NEW c \in Call, Arrives(p, c)
  PROVE  /\ to[c] = p /\ box[c] # NoBox /\ wire' \in [Peer -> Seq(Call)]
         /\ \A q \in Peer : \A i \in DOMAIN wire'[q] : \E j \in DOMAIN wire[q] : wire'[q][i] = wire[q][j]
<1>1. wire \in [Peer -> Seq(Call)] /\ wire[p] \in Seq(Call) /\ wire[p] # <<>>
  BY DEF Arrives, IInv, TypeInv, TypeOK, SentTypes
<1>2. 1 \in DOMAIN wire[p] /\ c = wire[p][1]
  BY <1>1 DEF Arrives
<1>3. Tail(wire[p]) \in Seq(Call) /\ wire' = [wire EXCEPT ![p] = Tail(wire[p])]
  BY <1>1 DEF Arrives
<1>4. \A i \in DOMAIN Tail(wire[p]) : i + 1 \in DOMAIN wire[p] /\ Tail(wire[p])[i] = wire[p][i + 1]
  BY <1>1
<1>5. \A q \in Peer : \A i \in DOMAIN wire'[q] : \E j \in DOMAIN wire[q] : wire'[q][i] = wire[q][j]
  BY <1>1, <1>3, <1>4
<1> QED BY <1>1, <1>2, <1>3, <1>5 DEF IInv, FramesSent

\* A frame that does not open with key k, and has no prekey message, was not
\* encrypted with the key of its prekey message.
LEMMA DecryptInv ==
  ASSUME IInv, NEW p \in Peer, NEW c \in Call, NEW k \in KeyOr, to[c] = p, Decrypt(p, c, k),
         wire' \in [Peer -> Seq(Call)],
         \A q \in Peer : \A i \in DOMAIN wire'[q] : \E j \in DOMAIN wire[q] : wire'[q][i] = wire[q][j],
         box[c] # NoBox,
         UNCHANGED <<pageVars, callVars, keyVars, box, last, ghostVars, calm, keeps, gen, upsets>>
  PROVE  IInv'
<1>1. CASE k # box[c].key /\ box[c].prekey # None
  BY <1>1, EstablishInv DEF Decrypt
<1>2. CASE ~(k # box[c].key /\ box[c].prekey # None)
  <2>1. Open(c, k) /\ recvKey' = [recvKey EXCEPT ![p] = k]
    BY <1>2 DEF Decrypt
  <2>2. recvKey' \in [Peer -> KeyOr]
    BY <2>1 DEF IInv, TypeInv, TypeOK, PeerTypes
  <2>3. k # box[c].key => box[c].prekey # box[c].key
    BY <1>2 DEF IInv, FramesSent
  <2> QED BY <2>1, <2>2, <2>3, OpenInv
<1> QED BY <1>1, <1>2

\* Handlers of the contact.
LEMMA HandlerInv ==
  ASSUME IInv, NEW p \in Peer, NEW c \in Call, Receive(p, c) \/ LoadRecv(p, c) \/ Handler(p, c)
  PROVE  IInv'
<1>1. recvKey[p] \in KeyOr /\ fresh[c] \in KeyOr /\ savedR[p] \in KeyOr /\ recvKey \in [Peer -> KeyOr]
      /\ wire \in [Peer -> Seq(Call)]
  BY DEF IInv, TypeInv, TypeOK, PeerTypes, SentTypes
<1>2. CASE Receive(p, c)
  <2>1. Arrives(p, c) /\ Decrypt(p, c, recvKey[p])
        /\ UNCHANGED <<pageVars, callVars, keyVars, box, last, ghostVars, calm, keeps, gen, upsets>>
    BY <1>2 DEF Receive
  <2> QED BY <1>1, <2>1, ArrivesFacts, DecryptInv
<1>3. CASE LoadRecv(p, c)
  <2>1. /\ Arrives(p, c)
        /\ fresh' = [fresh EXCEPT ![c] = savedR[p]] /\ handler' = [handler EXCEPT ![c] = "loading"]
        /\ UNCHANGED <<pageVars, callVars, keyVars, box, last, ghostVars, calm, keeps, gen, upsets>>
        /\ UNCHANGED <<recvKey, savedR>>
    BY <1>3 DEF LoadRecv
  <2>2. /\ to[c] = p /\ box[c] # NoBox /\ wire' \in [Peer -> Seq(Call)]
        /\ \A q \in Peer : \A i \in DOMAIN wire'[q] : \E j \in DOMAIN wire[q] : wire'[q][i] = wire[q][j]
    BY <2>1, ArrivesFacts
  <2>3. \A d \in Call : d # c => handler'[d] = handler[d] /\ fresh'[d] = fresh[d]
    BY <2>1 DEF IInv, TypeInv, TypeOK, PeerTypes
  <2>4. handler'[c] = "loading"
    BY <2>1 DEF IInv, TypeInv, TypeOK, PeerTypes
  <2>5. PeerTypes'
    BY <1>1, <2>1 DEF IInv, TypeInv, TypeOK, PeerTypes
  <2>6. SessionsPaired'
    BY <2>1, <2>3, <2>4 DEF IInv, TypeInv, SessionsPaired, pageVars, callVars, keyVars
  <2>7. FramesSent'
    BY <2>1, <2>2, <2>3 DEF IInv, FramesSent, callVars
  <2>8. FramesOpen'
    BY <2>1, <2>3, <2>4 DEF IInv, FramesOpen, callVars
  <2> QED BY <2>1, <2>2, <2>5, <2>6, <2>7, <2>8, NoStepInv
<1>4. CASE RestoreRecv(p, c) \/ FirstFrame(p, c) \/ LoadRejected(p, c) \/ OpenFirst(p, c)
  <2>1. to[c] = p /\ handler[c] \in {"loading", "saving"} /\ wire' = wire
        /\ UNCHANGED <<pageVars, callVars, keyVars, box, last, ghostVars, calm, keeps, gen, upsets>>
    BY <1>4 DEF RestoreRecv, FirstFrame, LoadRejected, OpenFirst, sentVars
  <2>2. box[c] # NoBox /\ wire' \in [Peer -> Seq(Call)]
        /\ \A q \in Peer : \A i \in DOMAIN wire'[q] : \E j \in DOMAIN wire[q] : wire'[q][i] = wire[q][j]
    BY <1>1, <2>1 DEF IInv, FramesSent
  <2>3. CASE RestoreRecv(p, c)
    BY <1>1, <2>1, <2>2, <2>3, DecryptInv DEF RestoreRecv
  <2>4. CASE FirstFrame(p, c) /\ box[c].prekey # None
    BY <2>1, <2>2, <2>4, EstablishInv DEF FirstFrame
  <2>5. CASE FirstFrame(p, c) /\ box[c].prekey = None
    <3>1. handler' = [handler EXCEPT ![c] = "failed"] /\ UNCHANGED <<recvKey, savedR, fresh>>
      BY <2>5 DEF FirstFrame
    <3>2. \A d \in Call : d # c => handler'[d] = handler[d]
      BY <3>1 DEF IInv, TypeInv, TypeOK, PeerTypes
    <3>3. handler'[c] = "failed"
      BY <3>1 DEF IInv, TypeInv, TypeOK, PeerTypes
    <3>4. PeerTypes'
      BY <2>1, <3>1 DEF IInv, TypeInv, TypeOK, PeerTypes
    <3>5. SessionsPaired'
      BY <2>1, <3>1, <3>2, <3>3 DEF IInv, TypeInv, SessionsPaired, pageVars, callVars, keyVars
    <3>6. FramesSent'
      BY <2>1, <2>2, <3>2 DEF IInv, FramesSent, callVars
    <3>7. box[c].prekey # box[c].key
      BY <2>2, <2>5 DEF IInv, FramesSent
    <3>8. FramesOpen'
      BY <2>1, <3>2, <3>7 DEF IInv, FramesOpen, callVars
    <3> QED BY <2>1, <2>2, <3>4, <3>5, <3>6, <3>8, NoStepInv
  <2>6. CASE OpenFirst(p, c)
    <3>1. Open(c, fresh[c]) /\ recvKey' = recvKey /\ handler[c] = "saving"
      BY <2>6 DEF OpenFirst
    <3>2. fresh[c] = Responded(box[c].prekey, gen[p]) /\ box[c].prekey # None
      BY <2>1, <3>1 DEF IInv, TypeInv, SessionsPaired
    <3>3. box[c].prekey \in Key /\ gen[p] \in Nat
      BY <3>2 DEF IInv, TypeInv, TypeOK, SentTypes, PeerTypes, KeyOr
    <3>4. ASSUME box[c].prekey = box[c].key, box[c].key.gen = gen[p]
          PROVE  fresh[c] = box[c].key
      BY <3>2, <3>3, <3>4 DEF Responded, Key
    <3> QED BY <1>1, <2>1, <2>2, <3>1, <3>4, OpenInv
  <2>7. CASE LoadRejected(p, c)
    <3>1. /\ handler' = [handler EXCEPT ![c] = "rejected"] /\ fresh' = [fresh EXCEPT ![c] = None]
          /\ UNCHANGED <<recvKey, savedR>>
      BY <2>7 DEF LoadRejected
    <3>2. \A d \in Call : d # c => handler'[d] = handler[d] /\ fresh'[d] = fresh[d]
      BY <3>1 DEF IInv, TypeInv, TypeOK, PeerTypes
    <3>3. handler'[c] = "rejected" /\ None \in KeyOr
      BY <3>1 DEF IInv, TypeInv, TypeOK, PeerTypes, KeyOr
    <3>4. PeerTypes'
      BY <2>1, <3>1, <3>3 DEF IInv, TypeInv, TypeOK, PeerTypes
    <3>5. SessionsPaired'
      BY <2>1, <3>2, <3>3 DEF IInv, TypeInv, SessionsPaired, pageVars, callVars, keyVars
    <3>6. FramesSent'
      BY <2>1, <2>2, <3>2 DEF IInv, FramesSent, callVars
    <3>7. FramesOpen'
      BY <2>1, <3>2, <3>3 DEF IInv, FramesOpen, callVars
    <3> QED BY <2>1, <2>2, <3>4, <3>5, <3>6, <3>7, NoStepInv
  <2> QED BY <1>4, <2>3, <2>4, <2>5, <2>6, <2>7
<1> QED BY <1>2, <1>3, <1>4 DEF Handler

\* A contact comes back: a key that was not for its generation never will be.
LEMMA ReturnInv == ASSUME IInv, NEW p \in Peer, Return(p) PROVE IInv'
<1> DEFINE gone == {c \in Call : to[c] = p /\ handler[c] \in {"loading", "saving"}}
<1>1. /\ wire' = [wire EXCEPT ![p] = <<>>] /\ recvKey' = [recvKey EXCEPT ![p] = None]
      /\ handler' = [c \in Call |-> IF c \in gone THEN "gone" ELSE handler[c]]
      /\ fresh'   = [c \in Call |-> IF c \in gone THEN None ELSE fresh[c]]
      /\ UNCHANGED <<pageVars, callVars, keyVars, box, last, ghostVars, calm, keeps>>
      /\ upsets' = upsets + 1
  BY DEF Return
<1>2. \/ UNCHANGED <<gen, savedR>>
      \/ gen' = [gen EXCEPT ![p] = gen[p] + 1] /\ savedR' = [savedR EXCEPT ![p] = None]
  BY DEF Return
<1>3. /\ gen' \in [Peer -> Nat] /\ savedR' \in [Peer -> KeyOr]
      /\ \A q \in Peer : gen[q] \in Nat /\ gen'[q] \in Nat /\ gen[q] <= gen'[q] /\ (q # p => gen'[q] = gen[q])
  BY <1>2 DEF IInv, TypeInv, TypeOK, PeerTypes, KeyOr
<1>4. PageTypes' /\ CallTypes' /\ KeyTypes'
  BY <1>1 DEF IInv, TypeInv, TypeOK, PageTypes, CallTypes, KeyTypes, pageVars, callVars, keyVars, ghostVars
<1>5. SentTypes' /\ PeerTypes'
  <2>1. <<>> \in Seq(Call)
    OBVIOUS
  <2> QED BY <1>1, <1>3, <2>1 DEF IInv, TypeInv, TypeOK, SentTypes, PeerTypes, KeyOr
<1>6. \A c \in Call : /\ handler'[c] \in {handler[c], "gone"}
                      /\ handler'[c] = "saving" => to[c] # p /\ fresh'[c] = fresh[c] /\ handler[c] = "saving"
                      /\ handler'[c] # "none" => handler[c] # "none"
  BY <1>1
<1>7. \A c \in Call : handler[c] # "none" \/ box[c] # NoBox => to[c] \in Peer
  BY DEF IInv, CallsBegun, FramesSent
<1>8. SessionsPaired'
  BY <1>1, <1>3, <1>6, <1>7 DEF IInv, TypeInv, SessionsPaired, pageVars, callVars, keyVars
<1>9. CallsBegun'
  BY <1>1 DEF IInv, CallsBegun, callVars
<1>10. FramesSent'
  <2>1. \A q \in Peer : \A i \in DOMAIN wire'[q] : q # p /\ wire'[q] = wire[q]
    BY <1>1 DEF IInv, TypeInv, TypeOK, SentTypes
  <2> QED BY <1>1, <1>6, <2>1 DEF IInv, FramesSent, callVars
<1>11. \A k \in KeyOr : k # None => k.gen \in Nat
  BY DEF KeyOr, Key
<1>12. KeysAged'
  <2>1. \A q \in Peer : \A k \in {sendKey[q], savedS[q]} : k # None => k.gen <= gen'[q]
    BY <1>3, <1>11 DEF IInv, KeysAged, TypeInv, TypeOK, KeyTypes
  <2>2. \A c \in Call : \A k \in {key[c], box[c].key} : k # None => k.gen <= gen'[to[c]] /\ to[c] \in Peer
    <3> SUFFICES ASSUME NEW c \in Call, NEW k \in {key[c], box[c].key}, k # None
                 PROVE  k.gen <= gen'[to[c]] /\ to[c] \in Peer
      OBVIOUS
    <3>1. to[c] \in Peer
      BY DEF IInv, CallsBegun, NoBox
    <3>2. k.gen <= gen[to[c]] /\ k \in KeyOr
      BY DEF IInv, KeysAged, TypeInv, TypeOK, CallTypes, SentTypes
    <3> QED BY <1>3, <1>11, <3>1, <3>2
  <2> QED BY <1>1, <2>1, <2>2 DEF KeysAged, callVars, keyVars
<1>13. FramesOpen'
  <2> SUFFICES ASSUME NEW c \in Call, handler'[c] = "failed", box[c].prekey = box[c].key
               PROVE  box[c].key.gen # gen'[to[c]]
    BY <1>1 DEF IInv, FramesOpen, callVars
  <2>1. handler[c] = "failed" /\ box[c].key # None /\ to[c] \in Peer /\ box[c].key \in KeyOr
    BY <1>6, <1>7 DEF IInv, FramesSent, TypeInv, TypeOK, SentTypes
  <2>2. box[c].key.gen # gen[to[c]] /\ box[c].key.gen <= gen[to[c]]
    BY <2>1 DEF IInv, FramesOpen, KeysAged
  <2> QED BY <1>3, <1>11, <2>1, <2>2
<1> QED BY <1>4, <1>5, <1>8, <1>9, <1>10, <1>12, <1>13 DEF IInv, TypeInv, TypeOK

-----------------------------------------------------------------------------
LEMMA PresenceInvariant == Spec => []IInv
<1>1. Init => IInv
  <2> SUFFICES ASSUME Init PROVE IInv
    OBVIOUS
  <2>1. PageTypes
    BY ToggleTypes DEF Init, PageTypes
  <2>2. CallTypes
    BY BoundAssumption DEF Init, CallTypes, Wait, KeyOr
  <2>3. KeyTypes /\ PeerTypes
    BY DEF Init, KeyTypes, PeerTypes, KeyOr
  <2>4. NoBox \in [key: KeyOr, prekey: KeyOr] /\ <<>> \in Seq(Call)
    BY DEF NoBox, KeyOr
  <2>5. SentTypes
    BY <2>4 DEF Init, SentTypes
  <2>6. SessionsPaired
    BY DEF Init, SessionsPaired
  <2>7. CallsBegun
    BY DEF Init, CallsBegun, Call
  <2>8. FramesSent /\ KeysAged /\ FramesOpen
    BY DEF Init, FramesSent, KeysAged, FramesOpen, NoBox
  <2> QED BY <2>1, <2>2, <2>3, <2>5, <2>6, <2>7, <2>8 DEF IInv, TypeInv, TypeOK
<1>2. IInv /\ [Next]_vars => IInv'
  <2> SUFFICES ASSUME IInv, [Next]_vars PROVE IInv'
    OBVIOUS
  <2>1. CASE UNCHANGED vars
    <3>1. PageTypes'
      BY <2>1 DEF vars, pageVars, ghostVars, IInv, TypeInv, TypeOK, PageTypes
    <3> QED BY <2>1, <3>1, NothingSentInv DEF vars, pageVars
  <2>2. CASE \E c \in Call : CallStep(c)
    BY <2>2, QuietStepInv, SendStepInv DEF CallStep
  <2> QED BY <2>1, <2>2, PageInv, ReloadInv, UnmountInv, UpdateInv, GhostInv, HandlerInv, ReturnInv DEF Next
<1> QED BY <1>1, <1>2, PTL DEF Spec

\* The state of page, calls, keys and contacts has its types, the key and the
\* prekey message of a contact are a pair, and a call or a handler that waits
\* for its put has the key it made (EncraClient.ts, _getSendPresenceKey).
THEOREM PresenceTypes == Spec => []TypeInv
<1>1. IInv => TypeInv
  BY DEF IInv
<1> QED BY <1>1, PresenceInvariant, PTL

\* A presence frame is refused only if the contact has generated keys anew
\* since its prekey message was made, or that message is another call's
\* (docs/HOOKS.md on stale inbound sessions; EncraClient.ts, the presence
\* handler): for any contacts, calls, ghost mode changes and reloads.
THEOREM PresenceFramesOpen == Spec => []FramesOpen
<1>1. IInv => FramesOpen
  BY DEF IInv
<1> QED BY <1>1, PresenceInvariant, PTL

-----------------------------------------------------------------------------
(* Ghost mode.                                                              *)

\* Why GhostSaved: no socket is there and nothing awaits until the flag has
\* been loaded, and what is being loaded is what is stored.
FlagLoads ==
  /\ page \in {"keys", "flag", "register"} =>
       socket = "none" /\ \A g \in Toggle : toggle[g].step # "await"
  /\ page = "flag" /\ ~raced => flagRead = savedGhost

\* Why OfflineLast: a key that there is or was is stored, and after ghost mode
\* was enabled with no other call under way, either everybody has been told or
\* one call of setGhostMode tells one contact after the other.
KeysStored ==
  /\ \A p \in Peer : last[p] # None \/ sendKey[p] # None => savedS[p] # None
  /\ \A c \in Call : key[c] # None => savedS[to[c]] # None
ToldOffline(p) == last[p] \in {None, "offline"}
AllTold ==
  /\ \A c \in Call : ~Underway(c)
  /\ \A g \in Toggle : toggle[g].step # "await"
  /\ \A p \in Peer : ToldOffline(p)
Tells(g) ==
  LET i == toggle[g].at   c == toggle[g].call IN
  /\ toggle[g].step = "await" /\ toggle[g].want
  /\ \A h \in Toggle \ {g} : toggle[h].step # "await"
  /\ i \in 1 .. Len(Contacts) /\ c \in 1 .. calls
  /\ to[c] = Contacts[i] /\ what[c] = "offline"
  /\ \A d \in Call \ {c} : ~Underway(d)
  /\ \A j \in 1 .. i - 1 : ToldOffline(Contacts[j])
  /\ Underway(c) => c \in on
  /\ ~Underway(c) => ToldOffline(Contacts[i])
  /\ step[c] # "encrypting"
  /\ step[c] = "bundle" => savedS[to[c]] = None
  /\ step[c] = "loading" /\ key[c] = None => savedS[to[c]] = None
Telling  == page = "up" /\ socket = "open" /\ ~ghost /\ \E g \in Toggle : Tells(g)
CalmTold == calm => AllTold \/ Telling

\* The loop of setGhostMode goes on to a contact, or is over.
LEMMA LoopGoes ==
  ASSUME IInv, NEW g \in Toggle, NEW enabled \in BOOLEAN, NEW i \in Nat, NEW flag \in BOOLEAN,
         Loop(g, enabled, i, flag)
  PROVE  /\ \A h \in Toggle \ {g} : toggle'[h] = toggle[h]
         /\ \/ /\ i <= Len(Contacts) /\ socket = "open" /\ ghost' = FALSE /\ ~flag
               /\ BeginSend(<<Contacts[i]>>, IF enabled THEN "offline" ELSE "online")
               /\ toggle'[g] = [want |-> enabled, step |-> "await", at |-> i, call |-> calls + 1]
               /\ savedGhost' = savedGhost
            \/ /\ i > Len(Contacts) \/ socket # "open" \/ flag
               /\ toggle'[g] = Done /\ savedGhost' = ghost' /\ UNCHANGED callVars
<1>1. \A r : toggle' = [toggle EXCEPT ![g] = r] =>
        toggle'[g] = r /\ \A h \in Toggle \ {g} : toggle'[h] = toggle[h]
  BY DEF IInv, TypeInv, TypeOK, PageTypes
<1>2. CASE /\ i <= Len(Contacts) /\ socket = "open" /\ ~flag
           /\ BeginSend(<<Contacts[i]>>, IF enabled THEN "offline" ELSE "online")
           /\ toggle' = [toggle EXCEPT ![g] = [want |-> enabled, step |-> "await", at |-> i, call |-> calls + 1]]
           /\ ghost' = flag /\ UNCHANGED savedGhost
  BY <1>1, <1>2
<1>3. CASE /\ i > Len(Contacts) \/ socket # "open" \/ flag
           /\ toggle' = [toggle EXCEPT ![g] = Done]
           /\ savedGhost' = ghost' /\ UNCHANGED callVars
  BY <1>1, <1>3
<1> QED BY <1>2, <1>3, Zenon DEF Loop

\* The flag, and the calls of setGhostMode, are as they were.
LEMMA FlagStays ==
  ASSUME FlagLoads, GhostSaved, UNCHANGED <<page, flagRead, socket, raced, ghostVars>>
  PROVE  FlagLoads' /\ GhostSaved'
BY DEF FlagLoads, GhostSaved, ghostVars

\* The loop, by a call of setGhostMode or when a contact has been told.
LEMMA LoopSaved ==
  ASSUME IInv, FlagLoads, GhostSaved, page # "flag" \/ raced', page' = page, UNCHANGED socket,
         raced => raced',
         NEW g \in Toggle, NEW enabled \in BOOLEAN, NEW i \in Nat, NEW flag \in BOOLEAN,
         Loop(g, enabled, i, flag),
         \/ toggle[g].step = "none" /\ ghost # enabled
         \/ toggle[g].step = "await" /\ toggle[g].want = enabled /\ flag = ghost
  PROVE  FlagLoads' /\ GhostSaved'
<1>1. \A h \in Toggle \ {g} : toggle'[h] = toggle[h]
  BY LoopGoes
<1>2. CASE /\ socket = "open" /\ ghost' = FALSE /\ ~flag /\ savedGhost' = savedGhost
           /\ toggle'[g] = [want |-> enabled, step |-> "await", at |-> i, call |-> calls + 1]
  <2>1. page \notin {"keys", "flag", "register"}
    BY <1>2 DEF FlagLoads
  <2>2. ASSUME page = "up", ~raced, ghost' # savedGhost'
        PROVE  \E h \in Toggle : toggle'[h].step = "await" /\ ~toggle'[h].want
    <3>1. CASE ~enabled
      BY <1>2, <3>1
    <3>2. CASE enabled
      <4>1. ~ghost /\ (toggle[g].step = "none" \/ toggle[g].want)
        BY <1>2, <3>2 DEF IInv, TypeInv, TypeOK, PageTypes
      <4>2. ghost = FALSE /\ ghost # savedGhost
        BY <1>2, <2>2, <4>1, Zenon DEF IInv, TypeInv, TypeOK, PageTypes
      <4>3. PICK h \in Toggle : toggle[h].step = "await" /\ ~toggle[h].want
        BY <2>2, <4>2 DEF GhostSaved
      <4> QED BY <1>1, <4>1, <4>3
    <3> QED BY <3>1, <3>2
  <2> QED BY <1>2, <2>1, <2>2 DEF FlagLoads, GhostSaved
<1>3. CASE toggle'[g] = Done /\ savedGhost' = ghost'
  <2>1. Done.step # "await"
    BY DEF Done, NoToggle
  <2> QED BY <1>1, <1>3, <2>1 DEF FlagLoads, GhostSaved
<1> QED BY <1>2, <1>3, LoopGoes

LEMMA FlagInv == IInv /\ FlagLoads /\ GhostSaved /\ [Next]_vars => FlagLoads' /\ GhostSaved'
<1> SUFFICES ASSUME IInv, FlagLoads, GhostSaved, [Next]_vars PROVE FlagLoads' /\ GhostSaved'
  OBVIOUS
<1>1. CASE ReadFlag \/ FlagRead \/ ConnectWS \/ SocketOpens \/ SocketCloses
  BY <1>1 DEF ReadFlag, FlagRead, ConnectWS, SocketOpens, SocketCloses, FlagLoads, GhostSaved, ghostVars
<1>2. CASE Reload
  <2>1. \A g \in Toggle : toggle'[g].step # "await"
    BY <1>2 DEF Reload, Done, NoToggle
  <2> QED BY <1>2, <2>1 DEF Reload, FlagLoads, GhostSaved
<1>3. CASE Unmount
  BY <1>3 DEF Unmount, FlagLoads, GhostSaved
<1>4. CASE Announce \/ SendUpdate
  BY <1>4, FlagStays DEF Announce, SendUpdate, pageVars
<1>5. ASSUME NEW c \in Call, CallStep(c) PROVE FlagLoads' /\ GhostSaved'
  BY <1>5, FlagStays DEF CallStep, UseKey, LoadKey, RestoreKey, NoStoredKey, EstablishSend, SendFirst,
                         SendFarewell, SkipDevice, CallRejects, pageVars
<1>6. ASSUME NEW g \in Toggle, NEW enabled \in BOOLEAN, SetGhostMode(g, enabled)
      PROVE  FlagLoads' /\ GhostSaved'
  <2>1. /\ Loop(g, enabled, 1, FALSE) /\ toggle[g].step = "none" /\ ghost # enabled
        /\ UNCHANGED <<page, socket>>
    BY <1>6 DEF SetGhostMode
  <2>2. (raced => raced') /\ (page = "flag" => raced')
    BY <1>6, Zenon DEF SetGhostMode
  <2> QED BY <2>1, <2>2, LoopSaved
<1>7. ASSUME NEW g \in Toggle, ContactTold(g) PROVE FlagLoads' /\ GhostSaved'
  <2>1. /\ Loop(g, toggle[g].want, toggle[g].at + 1, ghost) /\ toggle[g].step = "await"
        /\ UNCHANGED <<page, socket, raced>>
    BY <1>7 DEF ContactTold, pageVars
  <2>2. toggle[g].want \in BOOLEAN /\ toggle[g].at + 1 \in Nat /\ ghost \in BOOLEAN
    BY DEF IInv, TypeInv, TypeOK, PageTypes
  <2>3. page # "flag"
    BY <2>1 DEF FlagLoads
  <2> QED BY <2>1, <2>2, <2>3, LoopSaved
<1>8. ASSUME NEW p \in Peer, Return(p) \/ \E c \in Call : Receive(p, c) \/ LoadRecv(p, c) \/ Handler(p, c)
      PROVE  FlagLoads' /\ GhostSaved'
  BY <1>8, FlagStays DEF Return, Receive, LoadRecv, Handler, RestoreRecv, FirstFrame, LoadRejected, OpenFirst, pageVars
<1>9. CASE UNCHANGED vars
  BY <1>9, FlagStays DEF vars, pageVars
<1> QED BY <1>1, <1>2, <1>3, <1>4, <1>5, <1>6, <1>7, <1>8, <1>9 DEF Next

LEMMA FlagInvariant == Spec => [](FlagLoads /\ GhostSaved)
<1>1. Init => FlagLoads /\ GhostSaved
  BY DEF Init, FlagLoads, GhostSaved, NoToggle
<1> QED BY <1>1, FlagInv, PresenceInvariant, PTL DEF Spec

\* Once ghost mode is loaded, in memory and stored are the same, but for calls
\* that disable it and have contacts to tell (docs/HOOKS.md, "persisted to
\* IndexedDB and survives reloads"): however calls of setGhostMode overlap.
THEOREM GhostModeIsSaved == Spec => []GhostSaved
<1>1. FlagLoads /\ GhostSaved => GhostSaved
  OBVIOUS
<1> QED BY <1>1, FlagInvariant, PTL

\* Nothing that keys, calls or the broadcast depend on moves.
LEMMA ToldStays ==
  ASSUME KeysStored, CalmTold, UNCHANGED <<callVars, keyVars, last, toggle>>,
         calm' => /\ calm
                  /\ UNCHANGED <<page, socket, ghost>> \/ ~Telling
  PROVE  KeysStored' /\ CalmTold'
<1>1. KeysStored'
  BY DEF KeysStored, callVars, keyVars
<1>2. AllTold => AllTold'
  BY DEF AllTold, Underway, ToldOffline, callVars
<1>3. ASSUME Telling, UNCHANGED <<page, socket, ghost>> PROVE Telling'
  <2>1. PICK g \in Toggle : Tells(g)
    BY <1>3 DEF Telling
  <2>2. Tells(g)'
    BY <2>1 DEF Tells, Underway, ToldOffline, callVars, keyVars
  <2> QED BY <1>3, <2>2 DEF Telling
<1> QED BY <1>1, <1>2, <1>3 DEF CalmTold

\* The page: a connection that is lost, a reload and an unmount end the calm of
\* a broadcast, and undo none that is over.
LEMMA PageTold ==
  ASSUME IInv, KeysStored, CalmTold,
         ReadFlag \/ FlagRead \/ ConnectWS \/ SocketOpens
  PROVE  KeysStored' /\ CalmTold'
<1>1. UNCHANGED <<callVars, keyVars, last, toggle, calm>>
  BY DEF ReadFlag, FlagRead, ConnectWS, SocketOpens, sentVars, ghostVars
<1>2. ~Telling
  BY DEF ReadFlag, FlagRead, ConnectWS, SocketOpens, Telling
<1> QED BY <1>1, <1>2, ToldStays
LEMMA ClosesTold ==
  ASSUME IInv, KeysStored, CalmTold, SocketCloses
  PROVE  KeysStored' /\ CalmTold'
<1>1. UNCHANGED <<calls, to, what, step, key, keyVars, last, toggle>>
  BY DEF SocketCloses, sentVars, ghostVars
<1>2. calm' => calm /\ ghost
  BY Zenon DEF SocketCloses
<1>3. KeysStored'
  BY <1>1 DEF KeysStored, keyVars
<1>4. calm' => AllTold'
  BY <1>1, <1>2 DEF CalmTold, Telling, AllTold, Underway, ToldOffline
<1> QED BY <1>3, <1>4 DEF CalmTold
LEMMA ReloadTold ==
  ASSUME IInv, KeysStored, CalmTold, Reload
  PROVE  KeysStored' /\ CalmTold'
<1>1. UNCHANGED <<calls, to, what, savedS, last>>
  BY DEF Reload, sentVars
<1>2. /\ \A p \in Peer : sendKey'[p] = None
      /\ \A c \in Call : key'[c] = None /\ step'[c] = (IF Underway(c) THEN "ended" ELSE step[c])
      /\ \A g \in Toggle : toggle'[g] \in {NoToggle, Done}
  BY DEF Reload
<1>3. calm' => calm /\ ghost
  BY Zenon DEF Reload
<1>4. KeysStored'
  BY <1>1, <1>2 DEF KeysStored
<1>5. AllTold => AllTold'
  BY <1>1, <1>2 DEF AllTold, Underway, ToldOffline, NoToggle, Done
<1> QED BY <1>3, <1>4, <1>5 DEF CalmTold, Telling

\* Calls begin: each keeps the key it has, and a new one has none.
LEMMA BegunStored ==
  ASSUME IInv, KeysStored, NEW ts \in Seq(Peer), NEW status \in Status,
         NEW first \in [Peer -> {"devices", "encrypting", "ended"}], Begin(ts, status, first),
         UNCHANGED <<savedS, last>>, \A p \in Peer : sendKey'[p] # None => sendKey[p] # None,
         \A c \in Call \ New(ts) : key'[c] = key[c],
         \A c \in New(ts) : key'[c] # None => key[c] # None \/ key'[c] = sendKey[to'[c]]
  PROVE  KeysStored'
<1>1. /\ \A c \in Call : c <= calls => c \notin New(ts)
      /\ \A c \in New(ts) : to'[c] \in Peer
      /\ \A c \in Call : c \notin New(ts) => to'[c] = to[c]
  BY BeginCalls
<1>2. ASSUME NEW c \in Call, key'[c] # None PROVE savedS[to'[c]] # None
  <2>1. key[c] # None => c \notin New(ts)
    BY <1>1 DEF IInv, CallsBegun
  <2>2. CASE c \in New(ts)
    BY <1>1, <1>2, <2>1, <2>2 DEF KeysStored
  <2>3. CASE c \notin New(ts)
    BY <1>1, <1>2, <2>3 DEF KeysStored
  <2> QED BY <2>2, <2>3
<1> QED BY <1>2 DEF KeysStored

LEMMA UnmountTold ==
  ASSUME IInv, KeysStored, CalmTold, Unmount
  PROVE  KeysStored' /\ CalmTold'
<1>1. UNCHANGED <<savedS, last, toggle>> /\ \A p \in Peer : sendKey'[p] = None
  BY DEF Unmount, sentVars, ghostVars
<1>2. calm' => calm /\ ghost
  BY Zenon DEF Unmount
<1>3. CASE ~CanSend
  <2>1. UNCHANGED <<calls, to, what, step, key>>
    BY <1>3 DEF Unmount
  <2>2. KeysStored'
    BY <1>1, <2>1 DEF KeysStored
  <2>3. AllTold => AllTold'
    BY <1>1, <2>1 DEF AllTold, Underway, ToldOffline
  <2> QED BY <1>2, <2>2, <2>3 DEF CalmTold, Telling
<1>4. CASE CanSend
  <2>1. /\ Farewell \in [Peer -> {"devices", "encrypting", "ended"}] /\ Contacts \in Seq(Peer)
        /\ "farewell" \in Status /\ Begin(Contacts, "farewell", Farewell)
    BY <1>4, ContactsAssumption DEF Farewell, Status, Unmount
  <2>2. key' = [c \in Call |-> IF c \in New(Contacts) THEN sendKey[Contacts[c - calls]] ELSE key[c]]
    BY <1>4 DEF Unmount
  <2>3. New(Contacts) \subseteq Call /\ \A c \in New(Contacts) : to'[c] = Contacts[c - calls]
    BY <2>1, BeginCalls
  <2>4. KeysStored'
    BY <1>1, <2>1, <2>2, <2>3, BegunStored
  <2>5. ~calm'
    BY <1>2, <1>4 DEF CanSend
  <2> QED BY <2>4, <2>5 DEF CalmTold
<1> QED BY <1>3, <1>4

\* Calls that are sent for.
LEMMA BeginSendStored ==
  ASSUME IInv, KeysStored, NEW ts \in Seq(Peer), NEW status \in Status, BeginSend(ts, status),
         UNCHANGED <<keyVars, last>>
  PROVE  KeysStored'
<1> DEFINE first == [p \in Peer |-> "devices"]
<1>1. first \in [Peer -> {"devices", "encrypting", "ended"}] /\ Begin(ts, status, first) /\ key' = key
  BY DEF BeginSend
<1> HIDE DEF first
<1> QED BY <1>1, BegunStored DEF keyVars
LEMMA UpdateTold ==
  ASSUME IInv, KeysStored, CalmTold, SendUpdate \/ Announce
  PROVE  KeysStored' /\ CalmTold'
<1>1. CASE SendUpdate
  <2>1. PICK p \in Peer : BeginSend(<<p>>, "update")
    BY <1>1 DEF SendUpdate
  <2>2. <<p>> \in Seq(Peer) /\ "update" \in Status /\ UNCHANGED <<keyVars, last>> /\ ~calm'
    BY <1>1 DEF Status, SendUpdate, sentVars
  <2> QED BY <2>1, <2>2, BeginSendStored DEF CalmTold
<1>2. CASE Announce /\ CanSend
  <2>1. BeginSend(Contacts, "online") /\ UNCHANGED <<keyVars, last>> /\ ~calm'
    BY <1>2 DEF Announce, sentVars
  <2>2. Contacts \in Seq(Peer) /\ "online" \in Status
    BY ContactsAssumption DEF Status
  <2> QED BY <2>1, <2>2, BeginSendStored DEF CalmTold
<1>3. CASE Announce /\ ~CanSend
  <2>1. UNCHANGED <<page, socket, ghost, callVars, keyVars, last, toggle, calm>>
    BY <1>3 DEF Announce, sentVars, ghostVars
  <2> QED BY <2>1, ToldStays
<1> QED BY <1>1, <1>2, <1>3

\* A call that is under way in the calm is the one that tells.
LEMMA OneTells ==
  ASSUME CalmTold, calm, NEW c \in Call, Underway(c)
  PROVE  Telling /\ \A g \in Toggle : Tells(g) => c = toggle[g].call
BY DEF CalmTold, AllTold, Tells

\* A call that sends, with a key that is stored.
LEMMA SentTold ==
  ASSUME IInv, KeysStored, CalmTold, NEW c \in Call, Underway(c), NEW k, NEW pk, Transmit(c, k, pk),
         to[c] \in Peer, savedS[to[c]] # None, key' = key \/ key' = [key EXCEPT ![c] = None],
         \A p \in Peer : sendKey'[p] # None => savedS[p] # None,
         UNCHANGED <<page, socket, ghost, toggle, calm, calls, to, what, savedS>>
  PROVE  KeysStored' /\ CalmTold'
<1>1. /\ step'[c] = "ended" /\ \A d \in Call : d # c => step'[d] = step[d] /\ (d \in on <=> d \in on')
      /\ \A p \in Peer : last'[p] = (IF p = to[c] /\ c \in on THEN what[c] ELSE last[p])
      /\ \A d \in Call : key'[d] \in {key[d], None}
  BY DEF Transmit, IInv, TypeInv, TypeOK, CallTypes, SentTypes, sentVars
<1>2. KeysStored'
  BY <1>1 DEF KeysStored
<1>3. ASSUME calm PROVE Telling'
  <2>1. PICK g \in Toggle : Tells(g) /\ c = toggle[g].call
    BY <1>3, OneTells DEF Telling
  <2>2. what[c] = "offline" /\ c \in on /\ to[c] = Contacts[toggle[g].at]
    BY <2>1 DEF Tells
  <2>3. \A p \in Peer : (ToldOffline(p) \/ p = to[c]) => ToldOffline(p)'
    BY <1>1, <2>2 DEF ToldOffline
  <2>4. toggle[g].at \in 1 .. Len(Contacts) /\ \A j \in 1 .. toggle[g].at - 1 : Contacts[j] \in Peer
    BY <2>1, ContactsAssumption DEF Tells
  <2>5. ~Underway(c)' /\ \A d \in Call \ {c} : Underway(d)' <=> Underway(d)
    BY <1>1 DEF Underway
  <2>6. Tells(g)'
    BY <1>1, <2>1, <2>2, <2>3, <2>4, <2>5 DEF Tells
  <2> QED BY <1>3, <2>1, <2>6, OneTells DEF Telling
<1> QED BY <1>2, <1>3 DEF CalmTold
LEMMA SendStepTold ==
  ASSUME IInv, KeysStored, CalmTold, NEW c \in Call,
         UseKey(c) \/ RestoreKey(c) \/ SendFirst(c) \/ SendFarewell(c)
  PROVE  KeysStored' /\ CalmTold'
<1>1. Underway(c) /\ to[c] \in Peer /\ sendKey \in [Peer -> KeyOr]
  BY DEF UseKey, RestoreKey, SendFirst, SendFarewell, Underway, IInv, CallsBegun, TypeInv, TypeOK, KeyTypes
<1>2. UNCHANGED <<page, socket, ghost, toggle, calm, calls, to, what, savedS>>
  BY DEF UseKey, RestoreKey, SendFirst, SendFarewell, pageVars, ghostVars, keyVars
<1>3. CASE UseKey(c)
  <2>1. savedS[to[c]] # None /\ UNCHANGED <<key, sendKey>> /\ Transmit(c, sendKey[to[c]], attach[to[c]])
    BY <1>1, <1>3 DEF UseKey, KeysStored, keyVars
  <2> QED BY <1>1, <1>2, <2>1, SentTold DEF KeysStored
<1>4. CASE RestoreKey(c)
  <2>1. /\ savedS[to[c]] # None /\ key' = [key EXCEPT ![c] = None] /\ Transmit(c, key[c], key[c])
        /\ sendKey' = [sendKey EXCEPT ![to[c]] = key[c]]
    BY <1>4 DEF RestoreKey, KeysStored
  <2>2. \A p \in Peer : sendKey'[p] # None => savedS[p] # None
    BY <1>1, <2>1 DEF KeysStored
  <2> QED BY <1>1, <1>2, <2>1, <2>2, SentTold
<1>5. CASE SendFirst(c)
  <2>1. /\ savedS[to[c]] # None /\ key' = [key EXCEPT ![c] = None] /\ Transmit(c, key[c], attach[to[c]])
        /\ UNCHANGED sendKey
    BY <1>5 DEF SendFirst, KeysStored, IInv, TypeInv, SessionsPaired, keyVars
  <2> QED BY <1>1, <1>2, <2>1, SentTold DEF KeysStored
<1>6. CASE SendFarewell(c)
  <2>1. savedS[to[c]] # None /\ UNCHANGED <<key, sendKey>> /\ Transmit(c, key[c], key[c])
    BY <1>6 DEF SendFarewell, KeysStored, IInv, CallsBegun, keyVars
  <2> QED BY <1>1, <1>2, <2>1, SentTold DEF KeysStored
<1> QED BY <1>3, <1>4, <1>5, <1>6

\* A call that sends nothing.
LEMMA QuietStepTold ==
  ASSUME IInv, KeysStored, CalmTold, NEW c \in Call,
         LoadKey(c) \/ NoStoredKey(c) \/ EstablishSend(c) \/ SkipDevice(c) \/ CallRejects(c)
  PROVE  KeysStored' /\ CalmTold'
<1>1. /\ Underway(c) /\ to[c] \in Peer /\ sendKey \in [Peer -> KeyOr] /\ savedS \in [Peer -> KeyOr]
      /\ key \in [Call -> KeyOr] /\ step \in [Call -> Wait]
  BY DEF LoadKey, NoStoredKey, EstablishSend, SkipDevice, CallRejects, Underway, IInv, CallsBegun,
         TypeInv, TypeOK, KeyTypes, CallTypes
<1>2. UNCHANGED <<page, socket, ghost, toggle, calls, to, what, last>>
  BY DEF LoadKey, NoStoredKey, EstablishSend, SkipDevice, CallRejects, pageVars, ghostVars, sentVars
<1>3. KeysStored'
  <2>1. CASE LoadKey(c)
    BY <1>1, <1>2, <2>1 DEF LoadKey, KeysStored, keyVars
  <2>2. CASE NoStoredKey(c) \/ SkipDevice(c)
    BY <1>2, <2>2 DEF NoStoredKey, SkipDevice, KeysStored, keyVars
  <2>3. CASE EstablishSend(c)
    <3> DEFINE own == [by |-> c, gen |-> gen[to[c]]]
    <3>1. /\ key' = [key EXCEPT ![c] = own] /\ sendKey' = [sendKey EXCEPT ![to[c]] = own]
          /\ savedS' = [savedS EXCEPT ![to[c]] = own]
      BY <2>3 DEF EstablishSend
    <3>2. own # None
      <4>1. own \in Key
        BY <1>1 DEF Key, IInv, TypeInv, TypeOK, PeerTypes
      <4> QED BY <4>1, NoneIsNoKey
    <3> HIDE DEF own
    <3> QED BY <1>1, <1>2, <3>1, <3>2 DEF KeysStored
  <2>4. CASE CallRejects(c)
    BY <1>1, <1>2, <2>4 DEF CallRejects, KeysStored, keyVars
  <2> QED BY <2>1, <2>2, <2>3, <2>4
<1>4. ASSUME calm' PROVE Telling'
  <2>1. calm /\ ~CallRejects(c) /\ UNCHANGED calm
    <3>1. CallRejects(c) => calm /\ ghost
      BY <1>4, Zenon DEF CallRejects
    <3>2. ~CallRejects(c) => UNCHANGED calm
      BY DEF LoadKey, NoStoredKey, EstablishSend, SkipDevice
    <3>3. calm => ~ghost
      BY <1>1, OneTells DEF Telling
    <3> QED BY <1>4, <3>1, <3>2, <3>3
  <2>2. PICK g \in Toggle : Tells(g) /\ c = toggle[g].call
    BY <1>1, <2>1, OneTells DEF Telling
  <2>3. page = "up" /\ socket = "open" /\ ~ghost
    BY <1>1, <2>1, OneTells DEF Telling
  <2>4. \A d \in Call : d # c => step'[d] = step[d]
    BY <1>1, <2>1 DEF LoadKey, NoStoredKey, EstablishSend, SkipDevice
  <2>5. \A d \in Call \ {c} : Underway(d)' <=> Underway(d)
    BY <2>4 DEF Underway
  <2>6. /\ Underway(c)' => c \in on'
        /\ ~Underway(c)' => ToldOffline(Contacts[toggle[g].at])'
        /\ step'[c] # "encrypting"
        /\ step'[c] = "bundle" => savedS'[to[c]] = None
        /\ step'[c] = "loading" /\ key'[c] = None => savedS'[to[c]] = None
    <3>1. CASE LoadKey(c)
      BY <1>1, <2>2, <3>1 DEF LoadKey, Tells, Underway, keyVars
    <3>2. CASE NoStoredKey(c)
      BY <1>1, <2>2, <2>3, <3>2 DEF NoStoredKey, Tells, Underway, keyVars
    <3>3. CASE EstablishSend(c)
      BY <1>1, <2>2, <3>3 DEF EstablishSend, Tells, Underway
    <3>4. CASE SkipDevice(c)
      <4>1. savedS[to[c]] = None /\ to[c] = Contacts[toggle[g].at]
        BY <2>2, <3>4 DEF SkipDevice, Tells
      <4>2. last[to[c]] = None
        BY <1>1, <4>1 DEF KeysStored
      <4>3. step'[c] = "ended"
        BY <1>1, <3>4 DEF SkipDevice
      <4> QED BY <1>2, <4>1, <4>2, <4>3 DEF ToldOffline, Underway
    <3> QED BY <2>1, <3>1, <3>2, <3>3, <3>4
  <2>7. Tells(g)'
    BY <1>2, <2>2, <2>5, <2>6 DEF Tells, ToldOffline
  <2> QED BY <1>2, <2>3, <2>7 DEF Telling
<1> QED BY <1>3, <1>4 DEF CalmTold

\* The broadcast goes on: to the next contact, or all have been told.
LEMMA LoopTold ==
  ASSUME IInv, NEW g \in Toggle, NEW i \in 1 .. Len(Contacts) + 1, Loop(g, TRUE, i, FALSE),
         page' = "up", socket = "open", UNCHANGED <<socket, keyVars, last>>,
         \A c \in Call : ~Underway(c), \A h \in Toggle \ {g} : toggle[h].step # "await",
         \A j \in 1 .. i - 1 : ToldOffline(Contacts[j])
  PROVE  AllTold' \/ Telling'
<1>1. Len(Contacts) \in Nat /\ i \in Nat /\ \A j \in 1 .. Len(Contacts) : Contacts[j] \in Peer
  BY ContactsAssumption
<1>2. \A h \in Toggle \ {g} : toggle'[h] = toggle[h]
  BY <1>1, LoopGoes
<1>3. CASE /\ i <= Len(Contacts) /\ BeginSend(<<Contacts[i]>>, "offline") /\ ghost' = FALSE
           /\ toggle'[g] = [want |-> TRUE, step |-> "await", at |-> i, call |-> calls + 1]
  <2> DEFINE ts == <<Contacts[i]>>
             first == [p \in Peer |-> "devices"]
  <2>1. PICK n : n = calls + 1
    OBVIOUS
  <2>2. /\ ts \in Seq(Peer) /\ Len(ts) = 1 /\ ts[1] = Contacts[i] /\ Contacts[i] \in Peer
        /\ calls \in Nat /\ New(ts) = {n}
    BY <1>1, <1>3, <2>1 DEF IInv, TypeInv, TypeOK, CallTypes, New
  <2>3. /\ first \in [Peer -> {"devices", "encrypting", "ended"}] /\ "offline" \in Status
        /\ Begin(ts, "offline", first) /\ calls' = n /\ on' = on \union {n}
        /\ what' = [c \in Call |-> IF c \in New(ts) THEN "offline" ELSE what[c]]
    BY <1>3, <2>1, <2>2 DEF BeginSend, Begin, Status
  <2>4. /\ New(ts) \subseteq Call
        /\ \A c \in New(ts) : to'[c] = ts[c - calls] /\ step'[c] = first[to'[c]] /\ to'[c] \in Peer
        /\ \A c \in Call : c \notin New(ts) => to'[c] = to[c] /\ step'[c] = step[c]
    <3> HIDE DEF ts, first
    <3> QED BY <2>2, <2>3, BeginCalls
  <2>5. /\ n \in Call /\ n \in 1 .. calls' /\ n - calls = 1
        /\ to'[n] = Contacts[i] /\ step'[n] = "devices" /\ what'[n] = "offline" /\ n \in on'
        /\ \A c \in Call : c # n => step'[c] = step[c]
    BY <2>1, <2>2, <2>3, <2>4 DEF Call
  <2>6. \A d \in Call \ {n} : ~Underway(d)'
    BY <2>5 DEF Underway
  <2>7. \A j \in 1 .. i - 1 : ToldOffline(Contacts[j])'
    BY DEF ToldOffline
  <2>8. Tells(g)'
    <3>1. toggle'[g].step = "await" /\ toggle'[g].want /\ toggle'[g].at = i /\ toggle'[g].call = n
      BY <1>3, <2>1
    <3>2. \A h \in Toggle \ {g} : toggle'[h].step # "await"
      BY <1>2
    <3> HIDE DEF first
    <3> QED BY <1>3, <2>5, <2>6, <2>7, <3>1, <3>2 DEF Tells, Underway
  <2> QED BY <1>3, <2>8 DEF Telling
<1>4. CASE i > Len(Contacts) /\ toggle'[g] = Done /\ UNCHANGED callVars
  <2>1. \A p \in Peer : ToldOffline(p)'
    <3>1. \A j \in 1 .. Len(Contacts) : ToldOffline(Contacts[j])
      BY <1>1, <1>4
    <3>2. \A p \in Peer : \E j \in 1 .. Len(Contacts) : p = Contacts[j]
      BY ContactsAssumption DEF Peer
    <3> QED BY <3>1, <3>2 DEF ToldOffline
  <2>2. \A h \in Toggle : toggle'[h].step # "await"
    BY <1>2, <1>4 DEF Done, NoToggle
  <2>3. \A c \in Call : ~Underway(c)'
    BY <1>4 DEF Underway, callVars
  <2> QED BY <2>1, <2>2, <2>3 DEF AllTold
<1> QED BY <1>1, <1>3, <1>4, LoopGoes

\* Whatever the loop does, a key that there is stays stored.
LEMMA LoopStored ==
  ASSUME IInv, KeysStored, NEW g \in Toggle, NEW enabled \in BOOLEAN, NEW i \in Nat \ {0},
         NEW flag \in BOOLEAN, Loop(g, enabled, i, flag), UNCHANGED <<keyVars, last>>
  PROVE  KeysStored'
<1>1. CASE UNCHANGED callVars
  BY <1>1 DEF KeysStored, callVars, keyVars
<1>2. CASE /\ i <= Len(Contacts)
           /\ BeginSend(<<Contacts[i]>>, IF enabled THEN "offline" ELSE "online")
  <2>1. Contacts[i] \in Peer /\ <<Contacts[i]>> \in Seq(Peer)
    BY <1>2, ContactsAssumption
  <2>2. (IF enabled THEN "offline" ELSE "online") \in Status
    BY DEF Status
  <2> QED BY <1>2, <2>1, <2>2, BeginSendStored
<1> QED BY <1>1, <1>2, LoopGoes

LEMMA GhostTold ==
  ASSUME IInv, FlagLoads, KeysStored, CalmTold, NEW g \in Toggle,
         ContactTold(g) \/ \E enabled \in BOOLEAN : SetGhostMode(g, enabled)
  PROVE  KeysStored' /\ CalmTold'
<1>1. CASE ContactTold(g)
  <2> DEFINE t == toggle[g]
  <2>1. /\ Loop(g, t.want, t.at + 1, ghost) /\ t.step = "await" /\ ~Underway(t.call)
        /\ UNCHANGED <<page, socket, keyVars, last, calm>>
    BY <1>1 DEF ContactTold, pageVars, sentVars
  <2>2. t.want \in BOOLEAN /\ t.at \in Nat /\ ghost \in BOOLEAN
    BY DEF IInv, TypeInv, TypeOK, PageTypes
  <2>3. KeysStored'
    BY <2>1, <2>2, LoopStored
  <2>4. ASSUME calm PROVE AllTold' \/ Telling'
    <3>1. Telling /\ Tells(g)
      BY <2>1, <2>4 DEF CalmTold, AllTold, Telling, Tells
    <3>2. /\ t.want = TRUE /\ ghost = FALSE /\ page' = "up" /\ socket = "open"
          /\ t.at \in 1 .. Len(Contacts) /\ Len(Contacts) \in Nat
      BY <2>1, <2>2, <3>1, ContactsAssumption DEF Telling, Tells
    <3>3. t.at + 1 \in 1 .. Len(Contacts) + 1
      BY <3>2
    <3>4. \A c \in Call : ~Underway(c)
      BY <2>1, <3>1 DEF Tells
    <3>5. \A j \in 1 .. (t.at + 1) - 1 : ToldOffline(Contacts[j])
      BY <2>1, <3>1, <3>2 DEF Tells
    <3>6. Loop(g, TRUE, t.at + 1, FALSE) /\ \A h \in Toggle \ {g} : toggle[h].step # "await"
      BY <2>1, <3>1, <3>2 DEF Tells
    <3> QED BY <2>1, <3>2, <3>3, <3>4, <3>5, <3>6, LoopTold
  <2> QED BY <2>1, <2>3, <2>4 DEF CalmTold
<1>2. ASSUME NEW enabled \in BOOLEAN, SetGhostMode(g, enabled)
      PROVE  KeysStored' /\ CalmTold'
  <2>1. Loop(g, enabled, 1, FALSE) /\ page # "unmounted" /\ UNCHANGED <<page, socket, keyVars, last>>
    BY <1>2 DEF SetGhostMode, sentVars
  <2>2. KeysStored'
    <3>1. 1 \in Nat \ {0} /\ FALSE \in BOOLEAN /\ UNCHANGED <<keyVars, last>>
      BY <2>1
    <3> QED BY <2>1, <3>1, LoopStored, Zenon
  <2>3. ASSUME calm' PROVE AllTold' \/ Telling'
    <3>1. /\ enabled = TRUE /\ socket = "open" /\ (\A c \in Call : ~Underway(c))
          /\ \A h \in Toggle : toggle[h].step # "await"
      BY <1>2, <2>3, Zenon DEF SetGhostMode
    <3>2. page = "up"
      BY <2>1, <3>1 DEF FlagLoads, IInv, TypeInv, TypeOK, PageTypes
    <3>3. 1 \in 1 .. Len(Contacts) + 1 /\ 1 .. 1 - 1 = {}
      BY ContactsAssumption
    <3> QED BY <2>1, <3>1, <3>2, <3>3, LoopTold
  <2> QED BY <2>2, <2>3 DEF CalmTold
<1> QED BY <1>1, <1>2

LEMMA ToldInv ==
  IInv /\ FlagLoads /\ KeysStored /\ CalmTold /\ [Next]_vars => KeysStored' /\ CalmTold'
<1> SUFFICES ASSUME IInv, FlagLoads, KeysStored, CalmTold, [Next]_vars PROVE KeysStored' /\ CalmTold'
  OBVIOUS
<1>1. ASSUME NEW c \in Call, CallStep(c) PROVE KeysStored' /\ CalmTold'
  BY <1>1, SendStepTold, QuietStepTold DEF CallStep
<1>2. ASSUME NEW p \in Peer, Return(p) \/ \E c \in Call : Receive(p, c) \/ LoadRecv(p, c) \/ Handler(p, c)
      PROVE  KeysStored' /\ CalmTold'
  BY <1>2, ToldStays DEF Return, Receive, LoadRecv, Handler, RestoreRecv, FirstFrame, LoadRejected, OpenFirst, pageVars,
                         ghostVars, sentVars
<1>3. CASE UNCHANGED vars
  BY <1>3, ToldStays DEF vars, pageVars, ghostVars, sentVars
<1> QED BY <1>1, <1>2, <1>3, PageTold, ClosesTold, ReloadTold, UnmountTold, UpdateTold, GhostTold DEF Next

\* In ghost mode the last thing a contact was sent is offline, if it was sent
\* anything, when ghost mode was enabled with no other call under way, and no
\* fetch failed and the connection held meanwhile (setGhostMode): for any
\* contacts, whether a key is in memory, stored or yet to be established.
THEOREM GhostIsToldLast == Spec => []OfflineLast
<1>1. Init => KeysStored /\ CalmTold
  BY DEF Init, KeysStored, CalmTold
<1>2. KeysStored /\ CalmTold => OfflineLast
  BY DEF CalmTold, AllTold, Telling, ToldOffline, OfflineLast
<1> QED BY <1>1, <1>2, ToldInv, FlagInvariant, PresenceInvariant, PTL DEF Spec
=============================================================================
