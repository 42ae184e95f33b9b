----------------------------- MODULE DeviceKeys -----------------------------
(***************************************************************************)
(* The X25519 key pair and the id of a device, and the files and forms     *)
(* encrypted with them: the hooks of packages/react/src/useE2EFile.ts and  *)
(* useE2EForm.ts, the same operations of EncraClient, the keypairs and     *)
(* devices tables of IndexedDB (packages/client/src/ratchetStore.ts) and   *)
(* the table of public keys at the server                                  *)
(* (packages/server/src/routes/keys.ts).                                   *)
(*                                                                         *)
(* One action is a turn of the event loop.  IndexedDB keeps what is put    *)
(* there; a get has the value at the time it is issued, a put counts as    *)
(* done then.  A run of init is a number, and the key pair or the device   *)
(* id that it generates has that number.  A list of device keys maps       *)
(* device ids to key pairs, 0 for a device that is not listed.             *)
(***************************************************************************)
EXTENDS Integers

CONSTANTS Hook,         \* consumers of the keys: hooks and clients
          Client,       \* those that are an EncraClient
          Browser,
          Home,         \* the browser of each
          User,
          Visitor,      \* the user each is first for
          MaxRuns,      \* bound: runs of init
          Envelope      \* files and forms that are encrypted

Run   == 1 .. MaxRuns
RunOr == 0 .. MaxRuns
List  == [Run -> RunOr]
Empty == [d \in Run |-> 0]

ASSUME ConsumerAssumption ==
  /\ Hook # {} /\ User # {} /\ Client \subseteq Hook
  /\ Home \in [Hook -> Browser] /\ Visitor \in [Hook -> User]
ASSUME BoundAssumption    == MaxRuns \in Nat

VARIABLES
  count,       \* runs of init so far
  run,         \* of each: consumer, user, wait, what was read or is posted, device id
  user,        \* the userId a consumer has now
  pair,        \* keyPairRef
  device,      \* deviceIdRef
  ready,       \* isReady
  storedId, storedPair,   \* the devices and keypairs tables of each browser
  table,       \* public_keys: the list of each user
  cache,       \* lists a consumer has cached
  envelope,
  idsMade, pairsMade,     \* history: runs that generated one
  late         \* history: a run set or used the refs of a hook with another user by then

keyVars   == <<storedId, storedPair, idsMade, pairsMade>>
localVars == <<user, pair, device, ready, late>>
vars == <<count, run, localVars, keyVars, table, cache, envelope>>

NoRun   == [hook |-> CHOOSE h \in Hook : TRUE, user |-> CHOOSE u \in User : TRUE,
            step |-> "none", got |-> 0, id |-> 0]
NoPaper == [step |-> "none", by |-> NoRun.hook, from |-> NoRun.user, to |-> NoRun.user,
            keys |-> Empty, pair |-> 0, reader |-> NoRun.hook, claim |-> NoRun.user,
            at |-> 0, senders |-> Empty, sound |-> FALSE]

Init ==
  /\ count = 0 /\ run = [r \in Run |-> NoRun]
  /\ user = Visitor
  /\ pair = [h \in Hook |-> 0] /\ device = [h \in Hook |-> 0]
  /\ ready = [h \in Hook |-> FALSE]
  /\ storedId = [b \in Browser |-> [u \in User |-> 0]]
  /\ storedPair = [b \in Browser |-> [u \in User |-> 0]]
  /\ table = [u \in User |-> Empty] /\ cache = [h \in Hook |-> [u \in User |-> Empty]]
  /\ envelope = [e \in Envelope |-> NoPaper]
  /\ idsMade = {} /\ pairsMade = {} /\ late = FALSE

-----------------------------------------------------------------------------
(* init: device id, key pair, registration; a client has its pair first.    *)

Superseded(r) == \E s \in r + 1 .. count : run[s].hook = run[r].hook
Place(r)      == Home[run[r].hook]
IdFirst(h)    == h \notin Client

\* The effect on [userId, ...]: a run for the user there is now, while an
\* earlier one goes on.  A client connects once, as the user it was made for.
Start(h, u) ==
  /\ count < MaxRuns /\ count' = count + 1
  /\ h \in Client => u = user[h] /\ \A r \in 1 .. count : run[r].hook # h
  /\ user' = [user EXCEPT ![h] = u]
  /\ run' = [run EXCEPT ![count + 1] =
       IF IdFirst(h)
       THEN [hook |-> h, user |-> u, step |-> "id", got |-> storedId[Home[h]][u], id |-> 0]
       ELSE [hook |-> h, user |-> u, step |-> "pair", got |-> storedPair[Home[h]][u], id |-> 0]]
  /\ UNCHANGED <<pair, device, ready, late, keyVars, table, cache, envelope>>

\* A run sets and reads the refs of its hook, whichever user that has by now.
Late(r) ==
  late' = (late \/ \E s \in r + 1 .. count : run[s].hook = run[r].hook /\ run[s].user # run[r].user)

\* The next wait of a run, what it got or posts, and its device id.
Goes(r, step, got, id) ==
  run' = [run EXCEPT ![r] = [hook |-> @.hook, user |-> @.user, step |-> step, got |-> got, id |-> id]]

\* getOrCreateDeviceId finds none: it generates and puts one.
MakeId(r) ==
  /\ run[r].step = "id" /\ run[r].got = 0
  /\ storedId' = [storedId EXCEPT ![Place(r)][run[r].user] = r]
  /\ idsMade' = idsMade \union {r}
  /\ Goes(r, "saveId", r, run[r].id)
  /\ UNCHANGED <<count, localVars, storedPair, pairsMade, table, cache, envelope>>

\* It has one.  A hook asks for the key pair next; a client registers, if it
\* has not been disconnected.
Mut_HaveId(r) ==   \* the run does not keep the id it got
  LET h == run[r].hook IN
  /\ run[r].step = "saveId" \/ (run[r].step = "id" /\ run[r].got # 0)
  /\ device' = [device EXCEPT ![h] = run[r].got] /\ Late(r)
  /\ IF IdFirst(h) THEN Goes(r, "pair", storedPair[Home[h]][run[r].user], run[r].id)
     ELSE IF pair[h] # 0 THEN Goes(r, "register", pair[h], run[r].id) ELSE Goes(r, "failed", 0, 0)
  /\ UNCHANGED <<count, user, pair, ready, keyVars, table, cache, envelope>>
HaveId(r) ==
  LET h == run[r].hook IN
  /\ run[r].step = "saveId" \/ (run[r].step = "id" /\ run[r].got # 0)
  /\ device' = [device EXCEPT ![h] = run[r].got] /\ Late(r)
  /\ IF IdFirst(h) THEN Goes(r, "pair", storedPair[Home[h]][run[r].user], run[r].got)
     ELSE IF pair[h] # 0 THEN Goes(r, "register", pair[h], run[r].got) ELSE Goes(r, "failed", 0, 0)
  /\ UNCHANGED <<count, user, pair, ready, keyVars, table, cache, envelope>>

\* loadKeyPair finds none: one is generated, held and put.
MakePair(r) ==
  /\ run[r].step = "pair" /\ run[r].got = 0
  /\ pair' = [pair EXCEPT ![run[r].hook] = r] /\ Late(r)
  /\ storedPair' = [storedPair EXCEPT ![Place(r)][run[r].user] = r]
  /\ pairsMade' = pairsMade \union {r}
  /\ Goes(r, "savePair", 0, run[r].id)
  /\ UNCHANGED <<count, user, device, ready, storedId, idsMade, table, cache, envelope>>

\* The wait after the key pair: a hook posts the pair it holds with the id of
\* the run, a client asks for the device id.
AfterPair(r, p) ==
  LET h == run[r].hook IN
  IF IdFirst(h) THEN Goes(r, "register", p, run[r].id)
  ELSE Goes(r, "id", storedId[Home[h]][run[r].user], run[r].id)
Mut_HavePair(r) ==   \* a consumer that holds none makes its own, though one is stored
  LET h == run[r].hook   k == IF pair[h] = 0 THEN r ELSE run[r].got IN
  /\ run[r].step = "pair" /\ run[r].got # 0
  /\ pair' = [pair EXCEPT ![h] = k] /\ Late(r)
  /\ storedPair' = [storedPair EXCEPT ![Place(r)][run[r].user] = k]
  /\ AfterPair(r, k)
  /\ UNCHANGED <<count, user, device, ready, storedId, idsMade, pairsMade, table, cache, envelope>>
HavePair(r) ==
  /\ run[r].step = "pair" /\ run[r].got # 0
  /\ pair' = [pair EXCEPT ![run[r].hook] = run[r].got] /\ Late(r)
  /\ AfterPair(r, run[r].got)
  /\ UNCHANGED <<count, user, device, ready, keyVars, table, cache, envelope>>
PairSaved(r) ==
  /\ run[r].step = "savePair" /\ AfterPair(r, pair[run[r].hook]) /\ Late(r)
  /\ UNCHANGED <<count, user, pair, device, ready, keyVars, table, cache, envelope>>

\* POST /v1/keys: the row of the device is inserted or updated.  A hook whose
\* effect was cleaned up meanwhile is not made ready by this run.
Register(u, d, k) == table' = [table EXCEPT ![u][d] = k]
Registered(r) ==
  /\ run[r].step = "register" /\ Goes(r, "done", 0, 0)
  /\ Register(run[r].user, run[r].id, run[r].got)
  /\ ready' = [ready EXCEPT ![run[r].hook] = @ \/ ~Superseded(r)]
  /\ UNCHANGED <<count, user, pair, device, late, keyVars, cache, envelope>>

\* The request fails, or the get of the key pair, which loadKeyPair returns
\* without awaiting it in its try, is rejected: init gives up.
InitFails(r) ==
  /\ run[r].step \in {"pair", "register"} /\ Goes(r, "failed", 0, 0)
  /\ UNCHANGED <<count, localVars, keyVars, table, cache, envelope>>

InitStep(r) ==
  MakeId(r) \/ HaveId(r) \/ MakePair(r) \/ HavePair(r) \/ PairSaved(r)
  \/ Registered(r) \/ InitFails(r)

\* disconnect of a client.
Disconnect(h) ==
  /\ h \in Client /\ pair[h] # 0
  /\ pair' = [pair EXCEPT ![h] = 0]
  /\ cache' = [cache EXCEPT ![h] = [u \in User |-> Empty]]
  /\ UNCHANGED <<count, run, user, device, ready, late, keyVars, table, envelope>>

-----------------------------------------------------------------------------
(* Device keys of a peer.                                                   *)

\* GET /v1/keys/:userId.
Registrations(u) == table[u]

\* The cached list, or the one the server has, which is cached.
DeviceKeys(h, u) == IF cache[h][u] # Empty THEN cache[h][u] ELSE Registrations(u)
FetchKeys(h, u) ==
  /\ DeviceKeys(h, u) # Empty
  /\ cache' = [cache EXCEPT ![h][u] = DeviceKeys(h, u)]

\* Five minutes later.
CacheExpires(h, u) ==
  /\ cache[h][u] # Empty /\ cache' = [cache EXCEPT ![h][u] = Empty]
  /\ UNCHANGED <<count, run, localVars, keyVars, table, envelope>>

-----------------------------------------------------------------------------
(* Files and forms.                                                         *)

\* The consumer is the user's as far as the application can tell, its last
\* run of init has ended, no first visits of its user to its browser
\* overlapped, and nothing there was set by a run that was no longer current.
Twice(made, b, u) ==
  \E r, s \in made : r # s /\ \A t \in {r, s} : Place(t) = b /\ run[t].user = u
Settled(h) ==
  /\ pair[h] # 0 /\ ~late
  /\ ~Twice(idsMade, Home[h], user[h]) /\ ~Twice(pairsMade, Home[h], user[h])
  /\ \E r \in 1 .. count :
       run[r].hook = h /\ ~Superseded(r) /\ run[r].step = "done"

\* What crypto_box_beforenm computes of a public and a private key.
SharedKey(k, l) == {k, l}

\* encryptFile, encryptFields up to the wait for the keys of the devices.
CanEncrypt(h) == pair[h] # 0 /\ (h \in Client \/ ready[h])
Encrypt(e, h, u) ==
  /\ envelope[e].step = "none" /\ CanEncrypt(h) /\ FetchKeys(h, u)
  /\ envelope' = [envelope EXCEPT ![e] =
       [NoPaper EXCEPT !.step = "fetching", !.by = h, !.from = user[h], !.to = u,
                       !.keys = DeviceKeys(h, u)]]
  /\ UNCHANGED <<count, run, localVars, keyVars, table>>

\* One entry for each device, all with the pair there is now; the method of a
\* client that was disconnected meanwhile throws.
Sealed(e) ==
  LET h == envelope[e].by IN
  /\ envelope[e].step = "fetching"
  /\ envelope' = [envelope EXCEPT ![e].step = IF pair[h] # 0 THEN "sealed" ELSE "none",
                                  ![e].pair = pair[h],
                                  ![e].sound = Settled(h) /\ user[h] = envelope[e].from]
  /\ UNCHANGED <<count, run, localVars, keyVars, table, cache>>

\* decryptFile, decryptFields with the entry of the own device, for the user
\* the application says it is from.  An envelope is read once, at any time: a
\* second reading sees nothing of the first but the list that it cached.
Decrypt(e, h, u) ==
  /\ envelope[e].step = "sealed" /\ pair[h] # 0
  /\ device[h] # 0 /\ envelope[e].keys[device[h]] # 0 /\ FetchKeys(h, u)
  /\ envelope' = [envelope EXCEPT ![e].step = "reading", ![e].reader = h, ![e].claim = u,
                                  ![e].at = device[h], ![e].senders = DeviceKeys(h, u)]
  /\ UNCHANGED <<count, run, localVars, keyVars, table>>

\* Each device of that user is tried, up to the first with which it opens.
Mut_Opened(e) ==   \* only one is
  LET v == envelope[e]
      k == pair[v.reader]
      d == CHOOSE c \in Run : v.senders[c] # 0
  IN
  /\ v.step = "reading"
  /\ envelope' = [envelope EXCEPT
       ![e].step = IF SharedKey(v.senders[d], k) = SharedKey(v.keys[v.at], v.pair)
                   THEN "opened" ELSE "refused",
       ![e].sound = v.sound /\ Settled(v.reader) /\ user[v.reader] = v.to]
  /\ UNCHANGED <<count, run, localVars, keyVars, table, cache>>
Opens(v, k) ==
  \E d \in Run : /\ v.senders[d] # 0
                 /\ SharedKey(v.senders[d], k) = SharedKey(v.keys[v.at], v.pair)
Opened(e) ==
  LET v == envelope[e]   k == pair[v.reader] IN
  /\ v.step = "reading"
  /\ envelope' = [envelope EXCEPT
       ![e].step = IF k # 0 /\ Opens(v, k) THEN "opened" ELSE "refused",
       ![e].sound = v.sound /\ Settled(v.reader) /\ user[v.reader] = v.to]
  /\ UNCHANGED <<count, run, localVars, keyVars, table, cache>>

\* All fields of a form without any open with the first device of all,
\* whoever is claimed to be the sender.  That is all there is to say of it.
OpenedBlank(e) ==
  LET v == envelope[e] IN
  /\ v.step = "reading" /\ pair[v.reader] # 0 /\ \E d \in Run : v.senders[d] # 0
  /\ envelope' = [envelope EXCEPT ![e] = [NoPaper EXCEPT !.step = "blank"]]
  /\ UNCHANGED <<count, run, localVars, keyVars, table, cache>>

-----------------------------------------------------------------------------
Next ==
  \/ \E h \in Hook, u \in User : Start(h, u) \/ CacheExpires(h, u)
  \/ \E r \in 1 .. count : InitStep(r)
  \/ \E h \in Hook : Disconnect(h)
  \/ \E e \in Envelope :
       \/ \E h \in Hook, u \in User : Encrypt(e, h, u) \/ Decrypt(e, h, u)
       \/ Sealed(e) \/ Opened(e) \/ OpenedBlank(e)

Spec == Init /\ [][Next]_vars

-----------------------------------------------------------------------------
(* Properties.                                                              *)

RunStep      == {"none", "id", "saveId", "pair", "savePair", "register", "done", "failed"}
EnvelopeStep == {"none", "fetching", "sealed", "reading", "opened", "refused", "blank"}
RunState == [hook: Hook, user: User, step: RunStep, got: RunOr, id: RunOr]
Paper    == [step: EnvelopeStep, by: Hook, from: User, to: User, keys: List, pair: RunOr,
             reader: Hook, claim: User, at: RunOr, senders: List, sound: BOOLEAN]
TypeOK ==
  /\ count \in RunOr /\ run \in [Run -> RunState]
  /\ user \in [Hook -> User] /\ pair \in [Hook -> RunOr] /\ device \in [Hook -> RunOr]
  /\ ready \in [Hook -> BOOLEAN]
  /\ storedId \in [Browser -> [User -> RunOr]] /\ storedPair \in [Browser -> [User -> RunOr]]
  /\ table \in [User -> List] /\ cache \in [Hook -> [User -> List]]
  /\ envelope \in [Envelope -> Paper]
  /\ idsMade \subseteq Run /\ pairsMade \subseteq Run /\ late \in BOOLEAN

\* A run registers the id it got, and what is cached or used was registered:
\* a pair that some run generated.
Generated == pairsMade \union {0}
TypeInv ==
  /\ TypeOK
  /\ \A r \in Run : /\ run[r].step = "register" => run[r].id \in idsMade /\ run[r].got \in pairsMade
                    /\ run[r].step # "none" <=> r <= count
  /\ \A h \in Hook : pair[h] \in Generated /\ \A u \in User, d \in Run : cache[h][u][d] \in Generated
  /\ \A u \in User, d \in Run : table[u][d] \in Generated

\* docs/HOOKS.md, "The same key pair is reused by all three hooks for the same
\* userId": consumers of one browser and user whose last init has ended hold
\* the stored pair and id, so all of them the same, and the server has that pair
\* for that device, across switches of users and runs that overlap.  Overlapping
\* first visits of a user, and a run that sets the keys of a hook which has
\* another user by then, do break it: Settled says that there were none.
OneIdentity ==
  \A h \in Hook : Settled(h) =>
    /\ pair[h] = storedPair[Home[h]][user[h]] /\ device[h] = storedId[Home[h]][user[h]]
    /\ table[user[h]][device[h]] = pair[h]

\* What a settled consumer encrypted and a settled one of the recipient reads
\* is opened, if the list of devices it was encrypted for and the list of the
\* sender's it is tried with have the two pairs; and it opens for one user
\* only, the one who encrypted it, unless it is a form without fields.
EnvelopesOpen ==
  \A e \in Envelope : LET v == envelope[e] IN v.sound =>
    /\ v.step = "refused" => v.claim # v.from \/ \A d \in Run : v.senders[d] # v.pair
    /\ v.step = "opened" => v.claim = v.from

\* OneIdentity without its conditions: two hooks that mount together on a first
\* visit each generate a pair.
SameKeyPair ==
  \A g, h \in Hook : ready[g] /\ ready[h] /\ Home[g] = Home[h] /\ user[g] = user[h] => pair[g] = pair[h]

\* What is registered for a user was generated for that user.  A run of another
\* user that is overtaken while it puts its pair posts the pair of the next.
OwnKeys ==
  \A u \in User, d \in Run : table[u][d] # 0 => run[table[u][d]].user = u
=============================================================================
