------------------------------ MODULE Presence ------------------------------
(***************************************************************************)
(* Encrypted presence from one device to the devices of its contacts: the  *)
(* hook of packages/react/src/useE2EPresence.ts on the sending page, with  *)
(* its calls of sendPresenceTo and setGhostMode, its keys in memory and in *)
(* IndexedDB and its socket, and the presence handler of                   *)
(* packages/client/src/EncraClient.ts on the contacts' pages.  Either file *)
(* has the other's half too; EncraClient does not announce itself and ends *)
(* ghost mode without a broadcast.                                         *)
(*                                                                         *)
(* One action is a turn of a page's event loop, up to the next wait for    *)
(* IndexedDB or a fetch.  A put counts as done when it is issued and does  *)
(* not fail.  A presence key is named by the call that ran X3DH for it and *)
(* the generation of the contact's signed prekey it was made with; so is   *)
(* the prekey message that establishes it on the other side.  Calls are    *)
(* numbered in the order in which they began, which is that of lastSeenAt. *)
(***************************************************************************)
EXTENDS Integers, Sequences

CONSTANTS Contacts,    \* the contacts: an array of users, with one device each
          None,        \* no key, no prekey message
          CALLS,       \* bound: calls of sendPresenceTo
          TOGGLES,     \* bound: calls of setGhostMode that do something
          UPSETS       \* bound: lost connections and reloads of a page, in all

Peer   == {Contacts[i] : i \in DOMAIN Contacts}
Call   == 1 .. CALLS
Toggle == 1 .. TOGGLES

ASSUME ContactsAssumption == Contacts \in Seq(Peer)
ASSUME BoundAssumption ==
  CALLS \in Nat /\ TOGGLES \in Nat /\ UPSETS \in Nat

Key == [by: Call, gen: Nat]
ASSUME NoneAssumption == None \notin Key \union Peer \union {"update", "online", "offline", "farewell"}

\* The key that x3dhRespond derives from the prekey message pk with the keys
\* of generation g: the sender's own if that is the generation it was made for.
Responded(pk, g) == [by |-> pk.by, gen |-> g]

VARIABLES
  page,       \* how far init of the hook is, or that it is unmounted
  flagRead,   \* what loadGhostMode found
  socket,     \* socketRef: "none", "connecting", "open" or "closed"
  due,        \* the effect that announces the user has yet to run
  ghost,      \* ghostModeRef
  savedGhost, \* the stored flag
  calls,      \* number of calls of sendPresenceTo begun
  to, what,   \* the contact and the status of each
  step,       \* the wait each is in
  on,         \* the calls whose socket is the one there is now
  key,        \* the key it loaded or established
  sendKey,    \* sendKeysRef
  attach,     \* sendPrekeyRef
  savedS,     \* the stored ps: sessions
  toggle,     \* calls of setGhostMode: argument, place in the loop, call awaited
  wire,       \* frames on their way to each contact
  box,        \* the key a frame is encrypted with and its prekey message
  last,       \* history: the status last sent to each contact
  calm,       \* history: ghost mode was enabled with no other call under way
  raced,      \* history: setGhostMode ran while the flag was being loaded
  keeps,      \* the contacts whose IndexedDB works, chosen at the start
  gen,        \* generation of a contact's keys
  recvKey,    \* _recvPresenceKeys of the contact
  savedR,     \* its stored pr: session
  handler,    \* the wait the handler of a frame is in
  fresh,      \* the key that handler loaded or established
  upsets

pageVars   == <<page, flagRead, socket, due, raced>>
callVars   == <<calls, to, what, step, on, key>>
keyVars    == <<sendKey, attach, savedS>>
sentVars   == <<wire, box, last>>
ghostVars  == <<ghost, savedGhost, toggle>>
peerVars   == <<keeps, gen, recvKey, savedR, handler, fresh>>
vars == <<pageVars, callVars, keyVars, sentVars, ghostVars, calm, peerVars, upsets>>

NoBox    == [key |-> None, prekey |-> None]
NoToggle == [want |-> FALSE, step |-> "none", at |-> 1, call |-> 0]
Done     == [NoToggle EXCEPT !.step = "done"]

Init ==
  /\ page = "keys" /\ flagRead = FALSE /\ socket = "none" /\ due = FALSE
  /\ ghost = FALSE /\ savedGhost \in BOOLEAN /\ calls = 0
  /\ to = [c \in Call |-> None] /\ what = [c \in Call |-> None]
  /\ step = [c \in Call |-> "none"] /\ on = {}
  /\ key = [c \in Call |-> None] /\ box = [c \in Call |-> NoBox]
  /\ sendKey = [p \in Peer |-> None] /\ attach = [p \in Peer |-> None]
  /\ savedS = [p \in Peer |-> None]
  /\ toggle = [g \in Toggle |-> NoToggle]
  /\ wire = [p \in Peer |-> <<>>] /\ last = [p \in Peer |-> None]
  /\ calm = FALSE /\ raced = FALSE
  /\ keeps \in SUBSET Peer /\ gen = [p \in Peer |-> 1] /\ recvKey = [p \in Peer |-> None]
  /\ savedR = [p \in Peer |-> None]
  /\ handler = [c \in Call |-> "none"] /\ fresh = [c \in Call |-> None]
  /\ upsets = 0

Underway(c) == step[c] \in {"devices", "loading", "bundle", "saving", "encrypting"}

-----------------------------------------------------------------------------
(* The sending page: init, connection, reload, unmount.                     *)

\* init has the device id and the key pair and asks for the ghost flag.
ReadFlag ==
  /\ page = "keys" /\ page' = "flag" /\ flagRead' = savedGhost
  /\ UNCHANGED <<socket, due, raced, callVars, keyVars, sentVars,
                 ghostVars, calm, peerVars, upsets>>

FlagRead ==
  /\ page = "flag" /\ page' = "register" /\ ghost' = flagRead /\ flagRead' = FALSE
  /\ UNCHANGED <<socket, due, raced, callVars, keyVars,
                 sentVars, savedGhost, toggle, calm, peerVars, upsets>>

\* The device is registered and its prekeys are published: connectWS; the
\* same after a lost connection, when the backoff timer runs.
ConnectWS ==
  /\ \/ page = "register" /\ page' = "up"
     \/ page = "up" /\ socket = "closed" /\ page' = page
  /\ socket' = "connecting"
  /\ UNCHANGED <<flagRead, due, raced, callVars, keyVars, sentVars,
                 ghostVars, calm, peerVars, upsets>>

\* open: auth, register, isReady; the effect on isReady will run.
SocketOpens ==
  /\ page = "up" /\ socket = "connecting" /\ socket' = "open" /\ due' = TRUE
  /\ UNCHANGED <<page, flagRead, raced, callVars, keyVars, sentVars,
                 ghostVars, calm, peerVars, upsets>>

SocketCloses ==
  /\ page = "up" /\ socket \in {"connecting", "open"}
  /\ upsets < UPSETS /\ upsets' = upsets + 1
  /\ socket' = "closed" /\ due' = FALSE /\ on' = {} /\ calm' = (calm /\ ghost)
  /\ UNCHANGED <<page, flagRead, raced, calls, to, what, step, key, keyVars, sentVars,
                 ghostVars, peerVars>>

\* The browser loads the page again: what was in memory is gone.
Reload ==
  /\ upsets < UPSETS /\ upsets' = upsets + 1
  /\ page' = "keys" /\ socket' = "none" /\ due' = FALSE /\ ghost' = FALSE
  /\ step' = [c \in Call |-> IF Underway(c) THEN "ended" ELSE step[c]]
  /\ on' = {} /\ key' = [c \in Call |-> None]
  /\ sendKey' = [p \in Peer |-> None] /\ attach' = [p \in Peer |-> None]
  /\ toggle' = [g \in Toggle |-> IF toggle[g].step = "none" THEN NoToggle
                                 ELSE Done]
  /\ calm' = (calm /\ ghost) /\ raced' = FALSE /\ flagRead' = FALSE
  /\ UNCHANGED <<calls, to, what, savedS, sentVars,
                 savedGhost, peerVars>>

\* The next Len(ts) calls of sendPresenceTo, to the users of ts.
New(ts) == calls + 1 .. calls + Len(ts)
Begin(ts, status, first) ==
  /\ calls + Len(ts) <= CALLS /\ calls' = calls + Len(ts)
  /\ to'   = [c \in Call |-> IF c \in New(ts) THEN ts[c - calls] ELSE to[c]]
  /\ what' = [c \in Call |-> IF c \in New(ts) THEN status ELSE what[c]]
  /\ step' = [c \in Call |-> IF c \in New(ts) THEN first[ts[c - calls]] ELSE step[c]]

\* sendPresenceTo goes on only with an open socket, which it keeps, and out of
\* ghost mode; then it waits for the contact's devices.
CanSend == socket = "open" /\ ~ghost
BeginSend(ts, status) ==
  /\ Begin(ts, status, [p \in Peer |-> "devices"])
  /\ on' = on \union New(ts) /\ key' = key

\* The cleanup of the effect: offline is being encrypted for every contact with
\* a key when the socket is closed and the refs are cleared.
Farewell == [p \in Peer |-> IF sendKey[p] = None THEN "ended" ELSE "encrypting"]
Unmount ==
  /\ page # "unmounted" /\ page' = "unmounted" /\ due' = FALSE
  /\ IF CanSend
     THEN /\ Begin(Contacts, "farewell", Farewell)
          /\ key' = [c \in Call |-> IF c \in New(Contacts)
                                    THEN sendKey[Contacts[c - calls]] ELSE key[c]]
     ELSE UNCHANGED <<calls, to, what, step, key>>
  /\ socket' = (IF socket = "none" THEN "none" ELSE "closed") /\ on' = {}
  /\ sendKey' = [p \in Peer |-> None] /\ attach' = [p \in Peer |-> None]
  /\ calm' = (calm /\ ghost)
  /\ UNCHANGED <<flagRead, raced, savedS, sentVars, ghostVars, peerVars, upsets>>

-----------------------------------------------------------------------------
(* sendPresenceTo.                                                          *)

\* encryptPresence and socket.send: on a socket that is closed it does nothing.
Transmit(c, k, pk) ==
  /\ step' = [step EXCEPT ![c] = "ended"] /\ on' = on \ {c}
  /\ IF c \in on
     THEN /\ box'  = [box EXCEPT ![c] = [key |-> k, prekey |-> pk]]
          /\ wire' = [wire EXCEPT ![to[c]] = Append(@, c)]
          /\ last' = [last EXCEPT ![to[c]] = what[c]]
     ELSE UNCHANGED sentVars

\* The devices are there and the key is in memory.
UseKey(c) ==
  /\ step[c] = "devices" /\ sendKey[to[c]] # None
  /\ Transmit(c, sendKey[to[c]], attach[to[c]])
  /\ UNCHANGED <<pageVars, calls, to, what, key, keyVars, ghostVars, calm, peerVars, upsets>>

\* It is not: loadPresenceSession.
LoadKey(c) ==
  /\ step[c] = "devices" /\ sendKey[to[c]] = None
  /\ key' = [key EXCEPT ![c] = savedS[to[c]]]
  /\ step' = [step EXCEPT ![c] = "loading"]
  /\ UNCHANGED <<pageVars, calls, to, what, on, keyVars, sentVars, ghostVars, calm, peerVars, upsets>>

Mut_RestoreKey(c) ==   \* the stored prekey message is not put back
  /\ step[c] = "loading" /\ key[c] # None
  /\ sendKey' = [sendKey EXCEPT ![to[c]] = key[c]]
  /\ Transmit(c, key[c], attach[to[c]]) /\ key' = [key EXCEPT ![c] = None]
  /\ UNCHANGED <<pageVars, calls, to, what, attach, savedS, ghostVars, calm, peerVars, upsets>>
RestoreKey(c) ==
  /\ step[c] = "loading" /\ key[c] # None
  /\ sendKey' = [sendKey EXCEPT ![to[c]] = key[c]]
  /\ attach' = [attach EXCEPT ![to[c]] = key[c]]
  /\ Transmit(c, key[c], key[c]) /\ key' = [key EXCEPT ![c] = None]
  /\ UNCHANGED <<pageVars, calls, to, what, savedS, ghostVars, calm, peerVars, upsets>>

\* Nothing stored: the bundle is fetched, unless the identity is gone.
NoStoredKey(c) ==
  /\ step[c] = "loading" /\ key[c] = None
  /\ step' = [step EXCEPT ![c] = IF page = "unmounted" THEN "ended" ELSE "bundle"]
  /\ UNCHANGED <<pageVars, calls, to, what, on, key, keyVars, sentVars, ghostVars, calm, peerVars, upsets>>

\* x3dhInitiate and derivePresenceKey; the session is put.
EstablishSend(c) ==
  LET p == to[c]   k == [by |-> c, gen |-> gen[to[c]]] IN
  /\ step[c] = "bundle"
  /\ key' = [key EXCEPT ![c] = k] /\ step' = [step EXCEPT ![c] = "saving"]
  /\ sendKey' = [sendKey EXCEPT ![p] = k] /\ attach' = [attach EXCEPT ![p] = k]
  /\ savedS' = [savedS EXCEPT ![p] = k]
  /\ UNCHANGED <<pageVars, calls, to, what, on, sentVars, ghostVars, calm, peerVars, upsets>>

\* The session is saved: the call has its own key, and takes the prekey
\* message there is now.
SendFirst(c) ==
  /\ step[c] = "saving"
  /\ Transmit(c, key[c], attach[to[c]]) /\ key' = [key EXCEPT ![c] = None]
  /\ UNCHANGED <<pageVars, calls, to, what, keyVars, ghostVars, calm, peerVars, upsets>>

\* The offline status of the cleanup is encrypted.
SendFarewell(c) ==
  /\ step[c] = "encrypting"
  /\ Transmit(c, key[c], key[c])
  /\ UNCHANGED <<pageVars, calls, to, what, key, keyVars, ghostVars, calm, peerVars, upsets>>

\* 404 or 429: the contact has no bundle to offer now, its device is skipped.
SkipDevice(c) ==
  /\ step[c] = "bundle" /\ step' = [step EXCEPT ![c] = "ended"] /\ on' = on \ {c}
  /\ UNCHANGED <<pageVars, calls, to, what, key, keyVars, sentVars, ghostVars, calm, peerVars, upsets>>

\* The devices or the bundle cannot be fetched, or the get of the session is
\* rejected, which loadPresenceSession returns without awaiting it in its try:
\* the call rejects, which every caller ignores.
CallRejects(c) ==
  /\ step[c] \in {"devices", "loading", "bundle"}
  /\ step' = [step EXCEPT ![c] = "ended"] /\ on' = on \ {c} /\ key' = [key EXCEPT ![c] = None]
  /\ calm' = (calm /\ ghost)
  /\ UNCHANGED <<pageVars, calls, to, what, keyVars, sentVars, ghostVars, peerVars, upsets>>

CallStep(c) ==
  \/ UseKey(c) \/ LoadKey(c) \/ RestoreKey(c) \/ NoStoredKey(c) \/ EstablishSend(c)
  \/ SendFirst(c) \/ SendFarewell(c) \/ SkipDevice(c) \/ CallRejects(c)

-----------------------------------------------------------------------------
(* The callers: application, announcement, setGhostMode.                    *)

\* sendTyping, or setStatus for one contact after the other.
SendUpdate ==
  /\ CanSend /\ \E p \in Peer : BeginSend(<<p>>, "update")
  /\ calm' = FALSE
  /\ UNCHANGED <<pageVars, keyVars, sentVars, ghostVars, peerVars, upsets>>

\* The effect on isReady: online to all contacts at once, or nothing.
Announce ==
  /\ due /\ due' = FALSE
  /\ \/ CanSend /\ BeginSend(Contacts, "online") /\ calm' = FALSE
     \/ ~CanSend /\ UNCHANGED <<callVars, calm>>
  /\ UNCHANGED <<page, flagRead, socket, raced, keyVars, sentVars,
                 ghostVars, peerVars, upsets>>

\* The loop of setGhostMode at contact i, with the flag as it is now: the
\* next call begins; or all that are left return at once, or none is left,
\* and enabling sets the flag and the flag there is then is put.
Mut_Loop(g, enabled, i, flag) ==   \* what was asked for is put
  \/ /\ i <= Len(Contacts) /\ socket = "open" /\ ~flag
     /\ BeginSend(<<Contacts[i]>>, IF enabled THEN "offline" ELSE "online")
     /\ toggle' = [toggle EXCEPT ![g] = [want |-> enabled, step |-> "await", at |-> i, call |-> calls + 1]]
     /\ ghost' = flag /\ UNCHANGED savedGhost
  \/ /\ i > Len(Contacts) \/ socket # "open" \/ flag
     /\ toggle' = [toggle EXCEPT ![g] = Done]
     /\ ghost' = (flag \/ enabled) /\ savedGhost' = enabled
     /\ UNCHANGED callVars
Loop(g, enabled, i, flag) ==
  \/ /\ i <= Len(Contacts) /\ socket = "open" /\ ~flag
     /\ BeginSend(<<Contacts[i]>>, IF enabled THEN "offline" ELSE "online")
     /\ toggle' = [toggle EXCEPT ![g] = [want |-> enabled, step |-> "await", at |-> i, call |-> calls + 1]]
     /\ ghost' = flag /\ UNCHANGED savedGhost
  \/ /\ i > Len(Contacts) \/ socket # "open" \/ flag
     /\ toggle' = [toggle EXCEPT ![g] = Done]
     /\ ghost' = (flag \/ enabled) /\ savedGhost' = ghost'
     /\ UNCHANGED callVars

\* Nothing is done if the flag is so already.  Disabling clears it first.
Mut_SetGhostMode(g, enabled) ==   \* enabling sets the flag first, too
  /\ toggle[g].step = "none" /\ \A h \in Toggle : h < g => toggle[h].step # "none"
  /\ page # "unmounted" /\ ghost # enabled
  /\ Loop(g, enabled, 1, enabled)
  /\ calm' = (enabled /\ socket = "open" /\ (\A c \in Call : ~Underway(c))
                      /\ \A h \in Toggle : toggle[h].step # "await")
  /\ raced' = (raced \/ page = "flag")
  /\ UNCHANGED <<page, flagRead, socket, due, keyVars, sentVars, peerVars, upsets>>
SetGhostMode(g, enabled) ==
  /\ toggle[g].step = "none" /\ \A h \in Toggle : h < g => toggle[h].step # "none"
  /\ page # "unmounted" /\ ghost # enabled
  /\ Loop(g, enabled, 1, FALSE)
  /\ calm' = (enabled /\ socket = "open" /\ (\A c \in Call : ~Underway(c))
                      /\ \A h \in Toggle : toggle[h].step # "await")
  /\ raced' = (raced \/ page = "flag")
  /\ UNCHANGED <<page, flagRead, socket, due, keyVars, sentVars, peerVars, upsets>>

\* The call for a contact is over, whichever way.
Mut_ContactTold(g) ==   \* one that rejects is not caught
  LET t == toggle[g] IN
  /\ t.step = "await" /\ box[t.call] # NoBox
  /\ Loop(g, t.want, t.at + 1, ghost)
  /\ UNCHANGED <<pageVars, keyVars, sentVars, calm, peerVars, upsets>>
ContactTold(g) ==
  LET t == toggle[g] IN
  /\ t.step = "await" /\ ~Underway(t.call)
  /\ Loop(g, t.want, t.at + 1, ghost)
  /\ UNCHANGED <<pageVars, keyVars, sentVars, calm, peerVars, upsets>>

-----------------------------------------------------------------------------
(* The contact's page.                                                      *)

\* x3dhRespond makes a key from the prekey message of the frame, which takes
\* the place of any other, in memory and in the store.
Establish(p, c) ==
  LET k == Responded(box[c].prekey, gen[p]) IN
  /\ recvKey' = [recvKey EXCEPT ![p] = k] /\ savedR' = [savedR EXCEPT ![p] = k]
  /\ fresh' = [fresh EXCEPT ![c] = k] /\ handler' = [handler EXCEPT ![c] = "saving"]

\* decryptPresence with key k, and the presence event if the frame opens.
Open(c, k) ==
  /\ handler' = [handler EXCEPT ![c] = IF k = box[c].key THEN "shown" ELSE "failed"]
  /\ fresh' = [fresh EXCEPT ![c] = None]
  /\ UNCHANGED savedR

\* A session there was: one that does not open the frame is stale, and another
\* is established if the frame has a prekey message.
Decrypt(p, c, k) ==
  IF k # box[c].key /\ box[c].prekey # None THEN Establish(p, c)
  ELSE Open(c, k) /\ recvKey' = [recvKey EXCEPT ![p] = k]

\* A frame arrives, in the order of the socket; _loadRecvPresenceKey finds
\* the key in memory, or asks IndexedDB.
Arrives(p, c) == wire[p] # <<>> /\ c = Head(wire[p]) /\ wire' = [wire EXCEPT ![p] = Tail(@)]
Receive(p, c) ==
  /\ Arrives(p, c) /\ recvKey[p] # None
  /\ Decrypt(p, c, recvKey[p])
  /\ UNCHANGED <<pageVars, callVars, keyVars, box, last, ghostVars, calm, keeps, gen, upsets>>
LoadRecv(p, c) ==
  /\ Arrives(p, c) /\ recvKey[p] = None
  /\ fresh' = [fresh EXCEPT ![c] = savedR[p]] /\ handler' = [handler EXCEPT ![c] = "loading"]
  /\ UNCHANGED <<pageVars, callVars, keyVars, box, last, ghostVars, calm, keeps, gen, recvKey,
                 savedR, upsets>>

RestoreRecv(p, c) ==
  /\ to[c] = p /\ handler[c] = "loading" /\ fresh[c] # None
  /\ Decrypt(p, c, fresh[c])
  /\ UNCHANGED <<pageVars, callVars, keyVars, sentVars, ghostVars, calm, keeps, gen, upsets>>
FirstFrame(p, c) ==
  /\ to[c] = p /\ handler[c] = "loading" /\ fresh[c] = None
  /\ IF box[c].prekey # None THEN Establish(p, c)
     ELSE handler' = [handler EXCEPT ![c] = "failed"]
          /\ UNCHANGED <<recvKey, savedR, fresh>>
  /\ UNCHANGED <<pageVars, callVars, keyVars, sentVars, ghostVars, calm, keeps, gen, upsets>>

\* The get of the session is rejected here.
LoadRejected(p, c) ==
  /\ to[c] = p /\ handler[c] = "loading"
  /\ handler' = [handler EXCEPT ![c] = "rejected"] /\ fresh' = [fresh EXCEPT ![c] = None]
  /\ UNCHANGED <<pageVars, callVars, keyVars, sentVars, ghostVars, calm, keeps, gen, recvKey,
                 savedR, upsets>>

\* The session is saved: the frame is opened with the key just made, whatever
\* another handler has put in its place meanwhile.
Mut_OpenFirst(p, c) ==   \* with the key there is in memory
  /\ to[c] = p /\ handler[c] = "saving"
  /\ Open(c, recvKey[p]) /\ UNCHANGED recvKey
  /\ UNCHANGED <<pageVars, callVars, keyVars, sentVars, ghostVars, calm, keeps, gen, upsets>>
OpenFirst(p, c) ==
  /\ to[c] = p /\ handler[c] = "saving"
  /\ Open(c, fresh[c]) /\ UNCHANGED recvKey
  /\ UNCHANGED <<pageVars, callVars, keyVars, sentVars, ghostVars, calm, keeps, gen, upsets>>

\* The contact's page goes, and what is sent to it meanwhile with it, and is
\* loaded again.  Without a store it generates keys anew, under the device id
\* it had, and publishes them.
Return(p) ==
  LET gone == {c \in Call : to[c] = p /\ handler[c] \in {"loading", "saving"}} IN
  /\ upsets < UPSETS /\ upsets' = upsets + 1
  /\ wire' = [wire EXCEPT ![p] = <<>>]
  /\ handler' = [c \in Call |-> IF c \in gone THEN "gone" ELSE handler[c]]
  /\ fresh'   = [c \in Call |-> IF c \in gone THEN None ELSE fresh[c]]
  /\ recvKey' = [recvKey EXCEPT ![p] = None]
  /\ IF p \in keeps THEN UNCHANGED <<gen, savedR>>
     ELSE gen' = [gen EXCEPT ![p] = @ + 1] /\ savedR' = [savedR EXCEPT ![p] = None]
  /\ UNCHANGED <<pageVars, callVars, keyVars, box, last, ghostVars, calm, keeps>>

Handler(p, c) ==
  RestoreRecv(p, c) \/ FirstFrame(p, c) \/ LoadRejected(p, c) \/ OpenFirst(p, c)

-----------------------------------------------------------------------------
Next ==
  \/ ReadFlag \/ FlagRead \/ ConnectWS \/ SocketOpens \/ SocketCloses \/ Reload \/ Unmount
  \/ Announce \/ SendUpdate
  \/ \E c \in Call : CallStep(c)
  \/ \E g \in Toggle : ContactTold(g) \/ \E enabled \in BOOLEAN : SetGhostMode(g, enabled)
  \/ \E p \in Peer : Return(p)
                     \/ \E c \in Call : Receive(p, c) \/ LoadRecv(p, c) \/ Handler(p, c)

Spec == Init /\ [][Next]_vars

\* IndexedDB and fetches answer, promises run on, the relay delivers.
FairSpec ==
  /\ Spec
  /\ \A c \in Call : WF_vars(CallStep(c))
  /\ \A g \in Toggle : WF_vars(ContactTold(g))
  /\ \A p \in Peer, c \in Call : WF_vars(Receive(p, c) \/ LoadRecv(p, c) \/ Handler(p, c))

-----------------------------------------------------------------------------
(* Properties.                                                              *)

Status == {"update", "online", "offline", "farewell"}
Wait   == {"none", "devices", "loading", "bundle", "saving", "encrypting", "ended"}
KeyOr  == Key \union {None}

PageTypes ==
  /\ page \in {"keys", "flag", "register", "up", "unmounted"} /\ flagRead \in BOOLEAN
  /\ socket \in {"none", "connecting", "open", "closed"} /\ due \in BOOLEAN
  /\ ghost \in BOOLEAN /\ savedGhost \in BOOLEAN /\ calm \in BOOLEAN /\ raced \in BOOLEAN
  /\ toggle \in [Toggle -> [want: BOOLEAN, step: {"none", "await", "done"},
                            at: Nat, call: 0 .. CALLS]]
  /\ upsets \in Nat
CallTypes ==
  /\ calls \in 0 .. CALLS
  /\ to \in [Call -> Peer \union {None}] /\ what \in [Call -> Status \union {None}]
  /\ step \in [Call -> Wait] /\ on \subseteq Call /\ key \in [Call -> KeyOr]
KeyTypes ==
  sendKey \in [Peer -> KeyOr] /\ attach \in [Peer -> KeyOr] /\ savedS \in [Peer -> KeyOr]
SentTypes ==
  /\ wire \in [Peer -> Seq(Call)] /\ last \in [Peer -> Status \union {None}]
  /\ box \in [Call -> [key: KeyOr, prekey: KeyOr]]
PeerTypes ==
  /\ keeps \subseteq Peer /\ gen \in [Peer -> Nat]
  /\ recvKey \in [Peer -> KeyOr] /\ savedR \in [Peer -> KeyOr]
  /\ handler \in [Call -> {"none", "loading", "saving", "shown", "failed", "rejected", "gone"}]
  /\ fresh \in [Call -> KeyOr]
TypeOK == PageTypes /\ CallTypes /\ KeyTypes /\ SentTypes /\ PeerTypes

\* The key and the prekey message of a contact change together, a call that
\* waits for its put has its own key, a handler that waits for its put has the
\* key of its frame's prekey message and the generation of now.
SessionsPaired ==
  /\ sendKey = attach
  /\ \A c \in Call :
       /\ step[c] = "saving" => key[c] # None /\ key[c].by = c
       /\ step[c] # "saving" \/ page = "unmounted" \/ attach[to[c]] # None
       /\ handler[c] = "saving" =>
            box[c].prekey # None /\ fresh[c] = Responded(box[c].prekey, gen[to[c]])
TypeInv == TypeOK /\ SessionsPaired

\* docs/HOOKS.md, "Stale inbound sessions are transparently re-established
\* from the prekey carried on the sender's frames": a frame is refused only if
\* it was made for keys the contact no longer has, or by a call that ran X3DH
\* while another did and took the prekey message of that one.
FramesOpen ==
  \A c \in Call :
    /\ handler[c] = "failed" =>
         box[c].key.gen # gen[to[c]] \/ box[c].prekey # box[c].key
    /\ box[c] # NoBox => box[c].prekey = box[c].key \/ box[c].key.by = c

\* Why: a call has a contact, a frame one sender that is done, and no key is
\* for a generation to come.
CallsBegun ==
  \A c \in Call :
    /\ step[c] # "none" \/ key[c] # None \/ box[c] # NoBox => c <= calls
    /\ c <= calls => to[c] \in Peer
    /\ step[c] = "encrypting" => key[c] # None
FramesSent ==
  /\ \A c \in Call : box[c] # NoBox => step[c] = "ended" /\ box[c].key # None
  /\ \A c \in Call : handler[c] # "none" => box[c] # NoBox
  /\ \A p \in Peer : \A i \in DOMAIN wire[p] : to[wire[p][i]] = p /\ box[wire[p][i]] # NoBox
KeysAged ==
  /\ \A p \in Peer : \A k \in {sendKey[p], savedS[p]} : k # None => k.gen <= gen[p]
  /\ \A c \in Call : \A k \in {key[c], box[c].key} : k # None => k.gen <= gen[to[c]]

\* docs/HOOKS.md, "Ghost mode is persisted to IndexedDB and survives reloads":
\* once it is loaded the flag is the stored one, however calls of setGhostMode
\* overlap and pages reload; only disabling is stored late, after its
\* broadcasts, and a call during the load is undone by it.
GhostSaved ==
  page \in {"register", "up"} /\ ~raced /\ ghost # savedGhost =>
    ~ghost /\ \E g \in Toggle : toggle[g].step = "await" /\ ~toggle[g].want

\* setGhostMode, "Enabling broadcasts `offline` to all contacts then suppresses
\* future updates": in ghost mode the last thing a contact was sent, if it was
\* sent anything, is offline, if no other call was under way when ghost mode was
\* enabled, none of its calls failed and the connection held.
OfflineLast ==
  ghost /\ calm => \A p \in Peer : last[p] \in {None, "offline"}

\* setGhostMode comes to its end whichever of its calls fail, and a frame that
\* reached the relay is shown, unless the contact's page was loaded again, its
\* IndexedDB did not answer, or the frame was encrypted with a key that is not
\* its prekey message's.
PresenceEnds ==
  /\ \A g \in Toggle : toggle[g].step = "await" ~> toggle[g].step = "done"
  /\ \A c \in Call :
       box[c] # NoBox ~>
         \/ handler[c] \in {"shown", "rejected"} \/ box[c].prekey # box[c].key
         \/ upsets > 0 /\ \E p \in Peer : to[c] = p /\ (gen[p] > 1 \/ p \in keeps)

\* docs/HOOKS.md, "On unmount, best-effort broadcasts `offline` to contacts
\* with an established session": what the cleanup encrypts for an open socket is
\* sent.  It is not: the socket is closing by the time it is encrypted.
FarewellsLeave ==
  \A c \in Call : what[c] = "farewell" /\ key[c] # None => step[c] = "encrypting" \/ box[c] # NoBox

\* useE2EPresence.ts, "Aggregated presence state for a single peer - last update
\* wins".  An update overtakes one whose handler waits for its put.
LastUpdateWins ==
  [][\A c, d \in Call : /\ to[c] = to[d] /\ handler[d] = "shown"
                         /\ handler[c] # "shown" /\ handler'[c] = "shown" => d < c]_vars

\* setGhostMode, "go invisible", without the conditions of OfflineLast: an
\* update under way leaves after the offline broadcast.
GhostIsOffline == ghost => \A p \in Peer : last[p] \in {None, "offline"}
=============================================================================
