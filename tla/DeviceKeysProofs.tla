-------------------------- MODULE DeviceKeysProofs --------------------------
(***************************************************************************)
(* Proofs about DeviceKeys: types, that the consumers of one browser and   *)
(* user hold the stored key pair and id and the server has that pair, and  *)
(* what the files and forms encrypted with it open for, for any number of  *)
(* hooks, clients, browsers, users, runs of init and envelopes.            *)
(***************************************************************************)
EXTENDS DeviceKeys, TLAPS

\* What was generated for a user in a browser.
Of(made, b, u) == {r \in made : Place(r) = b /\ run[r].user = u}
IdsOf(r)   == Of(idsMade, Place(r), run[r].user)
PairsOf(r) == Of(pairsMade, Place(r), run[r].user)
HookRun(r) == IdFirst(run[r].hook)

\* Why TypeInv: the tables have what runs generated for that user and browser,
\* and a run carries the id, and waits with the pair, that it has from there.
StoredOf(stored, made) ==
  \A b \in Browser, u \in User :
    /\ stored[b][u] \in Of(made, b, u) \union {0}
    /\ Of(made, b, u) # {} => stored[b][u] # 0
RunKnown(r) ==
  /\ run[r].step = "id"     => run[r].got \in IdsOf(r) \union {0}
  /\ run[r].step = "saveId" => run[r].got \in IdsOf(r)
  /\ run[r].step = "pair"   => run[r].got \in PairsOf(r) \union {0}
  /\ run[r].step \in {"pair", "savePair"} /\ HookRun(r) => run[r].id \in IdsOf(r)
  /\ run[r].step = "savePair" /\ HookRun(r) => pair[run[r].hook] # 0
  /\ run[r].step = "register" => run[r].id \in IdsOf(r)
RunsKnown ==
  /\ idsMade \subseteq 1 .. count /\ pairsMade \subseteq 1 .. count
  /\ StoredOf(storedId, idsMade) /\ StoredOf(storedPair, pairsMade)
  /\ \A r \in 1 .. count : RunKnown(r)
  /\ \A h \in Hook : device[h] # 0 => device[h] \in idsMade /\ Place(device[h]) = Home[h]
Known == TypeInv /\ RunsKnown

-----------------------------------------------------------------------------
(* Types.                                                                   *)

\* Runs, and the list that is empty.
LEMMA EmptyTypes ==
  /\ Run \subseteq RunOr /\ 0 \in RunOr /\ 0 \notin Run
  /\ Empty \in List /\ \A d \in Run : Empty[d] = 0
  /\ NoRun \in RunState
<1>1. Run \subseteq RunOr /\ 0 \in RunOr /\ 0 \notin Run
  BY BoundAssumption DEF Run, RunOr
<1>2. NoRun.hook \in Hook /\ NoRun.user \in User
  BY ConsumerAssumption DEF NoRun
<1> QED BY <1>1, <1>2 DEF Empty, List, NoRun, RunState, RunStep

\* A run of init that has begun has a consumer, a user and a browser.
LEMMA RunPlaces ==
  ASSUME TypeInv, NEW r \in 1 .. count
  PROVE  /\ r \in Run /\ run[r].hook \in Hook /\ run[r].user \in User /\ Place(r) \in Browser
         /\ run[r].got \in RunOr /\ run[r].id \in RunOr /\ run[r].step # "none"
         /\ count \in 0 .. MaxRuns
<1>1. r \in Run /\ count \in 0 .. MaxRuns
  BY BoundAssumption DEF TypeInv, TypeOK, Run, RunOr
<1> QED BY <1>1, ConsumerAssumption DEF TypeInv, TypeOK, Place, RunState

\* A turn of init changes what its run waits for and has, nobody else's run.
LEMMA GoesMoves ==
  ASSUME TypeInv, NEW r \in 1 .. count, NEW st \in RunStep, NEW g \in RunOr, NEW i \in RunOr,
         Goes(r, st, g, i)
  PROVE  /\ run' \in [Run -> RunState] /\ \A s \in Run \ {r} : run'[s] = run[s]
         /\ run'[r].hook = run[r].hook /\ run'[r].user = run[r].user
         /\ run'[r].step = st /\ run'[r].got = g /\ run'[r].id = i
BY RunPlaces DEF Goes, TypeInv, TypeOK, RunState

-----------------------------------------------------------------------------
(* Types, and what the runs of init have.                                   *)

\* The consumer, user and browser of a run do not change, and what was
\* generated for them stays.
SameRuns ==
  /\ count' = count /\ idsMade \subseteq idsMade' /\ pairsMade \subseteq pairsMade'
  /\ \A s \in Run : run'[s].hook = run[s].hook /\ run'[s].user = run[s].user
LEMMA SameRunsKeep ==
  ASSUME TypeInv, SameRuns, NEW s \in Run
  PROVE  /\ Place(s)' = Place(s) /\ HookRun(s)' = HookRun(s)
         /\ IdsOf(s) \subseteq IdsOf(s)' /\ PairsOf(s) \subseteq PairsOf(s)'
<1>1. Place(s)' = Place(s) /\ HookRun(s)' = HookRun(s)
  BY DEF SameRuns, Place, HookRun, IdFirst
<1>2. \A t \in Run : Place(t)' = Place(t) /\ run'[t].user = run[t].user
  BY DEF SameRuns, Place
<1>3. idsMade \subseteq Run /\ pairsMade \subseteq Run
  BY DEF TypeInv, TypeOK
<1>4. IdsOf(s) \subseteq IdsOf(s)'
  BY <1>1, <1>2, <1>3 DEF SameRuns, IdsOf, Of
<1>5. PairsOf(s) \subseteq PairsOf(s)'
  BY <1>1, <1>2, <1>3 DEF SameRuns, PairsOf, Of
<1> QED BY <1>1, <1>4, <1>5

\* The runs that do not move know what they knew.
LEMMA OthersKnow ==
  ASSUME Known, SameRuns, NEW s \in 1 .. count, run'[s] = run[s],
         \A h \in Hook : pair[h] # 0 => pair'[h] # 0
  PROVE  RunKnown(s)'
<1>1. s \in Run /\ run[s].hook \in Hook /\ RunKnown(s) /\ TypeInv
  BY RunPlaces DEF Known, RunsKnown
<1>2. HookRun(s)' = HookRun(s) /\ IdsOf(s) \subseteq IdsOf(s)' /\ PairsOf(s) \subseteq PairsOf(s)'
  BY <1>1, SameRunsKeep
<1> QED BY <1>1, <1>2 DEF RunKnown

\* A table that gets what a run generated has what was generated.
OfNext(made, b, u) == {t \in made : Home[run'[t].hook] = b /\ run'[t].user = u}
StoredNext(stored, made) ==
  \A b \in Browser, u \in User :
    /\ stored[b][u] \in OfNext(made, b, u) \union {0}
    /\ OfNext(made, b, u) # {} => stored[b][u] # 0
LEMMA NextStored ==
  /\ StoredNext(storedId', idsMade') => StoredOf(storedId, idsMade)'
  /\ StoredNext(storedPair', pairsMade') => StoredOf(storedPair, pairsMade)'
BY DEF StoredOf, StoredNext, Of, OfNext, Place
LEMMA StoredMade ==
  ASSUME TypeInv, SameRuns, NEW r \in 1 .. count, NEW made \in SUBSET (1 .. count),
         NEW stored \in [Browser -> [User -> RunOr]], StoredOf(stored, made)
  PROVE  LET new == [stored EXCEPT ![Place(r)][run[r].user] = r]
         IN  /\ StoredNext(new, made \union {r})
             /\ new \in [Browser -> [User -> RunOr]]
<1>1. /\ r \in Run /\ run[r].user \in User /\ Place(r) \in Browser
      /\ Run \subseteq RunOr /\ 0 \notin Run /\ 1 .. count \subseteq Run
  BY RunPlaces, EmptyTypes
<1>2. \A t \in Run : Home[run'[t].hook] = Place(t) /\ run'[t].user = run[t].user
  BY DEF SameRuns, Place
<1>3. ASSUME NEW b \in Browser, NEW u \in User
      PROVE  OfNext(made \union {r}, b, u)
               = IF b = Place(r) /\ u = run[r].user THEN Of(made, b, u) \union {r} ELSE Of(made, b, u)
  BY <1>1, <1>2 DEF Of, OfNext
<1> DEFINE new == [stored EXCEPT ![Place(r)][run[r].user] = r]
<1>4. new \in [Browser -> [User -> RunOr]]
  BY <1>1
<1>5. \A b \in Browser, u \in User :
        new[b][u] = IF b = Place(r) /\ u = run[r].user THEN r ELSE stored[b][u]
  BY <1>1
<1>6. r # 0 /\ \A b \in Browser, u \in User : 0 \notin Of(made, b, u)
  BY <1>1 DEF Of, OfNext
<1> HIDE DEF new
<1>7. ASSUME NEW b \in Browser, NEW u \in User
      PROVE  /\ new[b][u] \in OfNext(made \union {r}, b, u) \union {0}
             /\ OfNext(made \union {r}, b, u) # {} => new[b][u] # 0
  <2>1. stored[b][u] \in Of(made, b, u) \union {0} /\ (Of(made, b, u) # {} => stored[b][u] # 0)
    BY DEF StoredOf
  <2>2. CASE b = Place(r) /\ u = run[r].user
    BY <1>3, <1>5, <1>6, <2>2
  <2>3. CASE ~(b = Place(r) /\ u = run[r].user)
    BY <1>3, <1>5, <2>1, <2>3
  <2> QED BY <2>2, <2>3
<1> QED BY <1>4, <1>7 DEF StoredNext, new
LEMMA StoredKept ==
  ASSUME TypeInv, SameRuns, NEW made \in SUBSET Run,
         NEW stored \in [Browser -> [User -> RunOr]], StoredOf(stored, made)
  PROVE  StoredNext(stored, made)
<1>1. \A t \in Run : Home[run'[t].hook] = Place(t) /\ run'[t].user = run[t].user
  BY DEF SameRuns, Place
<1>2. \A b \in Browser, u \in User : OfNext(made, b, u) = Of(made, b, u)
  BY <1>1 DEF Of, OfNext
<1> QED BY <1>2 DEF StoredOf, StoredNext

\* A turn of init that generates nothing and sets no table of the browser.
LEMMA RunKnows ==
  ASSUME Known, NEW r \in 1 .. count, UNCHANGED <<count, keyVars>>,
         \A s \in Run \ {r} : run'[s] = run[s],
         run'[r].hook = run[r].hook, run'[r].user = run[r].user,
         \A h \in Hook : pair[h] # 0 => pair'[h] # 0,
         \A h \in Hook : device'[h] = device[h] \/ (h = run[r].hook /\ device'[h] \in IdsOf(r)),
         RunKnown(r)'
  PROVE  RunsKnown'
<1>1. SameRuns /\ TypeInv /\ r \in Run /\ 1 .. count \subseteq Run
  BY RunPlaces DEF SameRuns, keyVars, Known
<1>2. StoredOf(storedId, idsMade)' /\ StoredOf(storedPair, pairsMade)'
  <2>1. /\ idsMade \in SUBSET Run /\ pairsMade \in SUBSET Run
        /\ storedId \in [Browser -> [User -> RunOr]] /\ storedPair \in [Browser -> [User -> RunOr]]
        /\ StoredOf(storedId, idsMade) /\ StoredOf(storedPair, pairsMade)
    BY DEF Known, TypeInv, TypeOK, RunsKnown
  <2>2. UNCHANGED <<storedId, storedPair, idsMade, pairsMade>>
    BY DEF keyVars
  <2> QED BY <1>1, <2>1, <2>2, StoredKept, NextStored
<1>3. \A s \in 1 .. count : RunKnown(s)'
  BY <1>1, OthersKnow
<1>4. ASSUME NEW h \in Hook, device'[h] # 0
      PROVE  device'[h] \in idsMade /\ Home[run'[device'[h]].hook] = Home[h]
  <2>1. device'[h] \in idsMade /\ Home[run[device'[h]].hook] = Home[h]
    BY <1>4 DEF Known, RunsKnown, IdsOf, Of, Place
  <2>2. device'[h] \in Run
    BY <1>1, <2>1 DEF Known, TypeInv, TypeOK
  <2> QED BY <1>1, <2>1, <2>2 DEF SameRuns
<1>5. idsMade \subseteq 1 .. count /\ pairsMade \subseteq 1 .. count
  BY DEF Known, RunsKnown
<1> QED BY <1>2, <1>3, <1>4, <1>5 DEF RunsKnown, keyVars, Place

\* A run of init that gets its id and its pair.
LEMMA MakeIdKnown ==
  ASSUME Known, NEW r \in 1 .. count, MakeId(r)
  PROVE  Known'
<1>1. /\ r \in Run /\ r \in RunOr /\ run[r].user \in User /\ Place(r) \in Browser /\ run[r].id \in RunOr
      /\ TypeInv /\ TypeOK /\ RunsKnown /\ 1 .. count \subseteq Run
  BY RunPlaces, EmptyTypes DEF Known, TypeInv
<1>2. /\ run' \in [Run -> RunState] /\ \A s \in Run \ {r} : run'[s] = run[s]
      /\ run'[r].hook = run[r].hook /\ run'[r].user = run[r].user
      /\ run'[r].step = "saveId" /\ run'[r].got = r /\ run'[r].id = run[r].id
  BY <1>1, GoesMoves DEF MakeId, RunStep
<1>3. /\ idsMade' = idsMade \union {r} /\ storedId' = [storedId EXCEPT ![Place(r)][run[r].user] = r]
      /\ UNCHANGED <<count, user, pair, device, ready, late, storedPair, pairsMade, table, cache, envelope>>
  BY DEF MakeId, localVars
<1>4. SameRuns
  BY <1>2, <1>3 DEF SameRuns
<1>5. \A t \in Run : Place(t)' = Place(t) /\ run'[t].user = run[t].user
  BY <1>1, <1>4, SameRunsKeep DEF SameRuns
<1>6. StoredOf(storedId, idsMade)' /\ storedId' \in [Browser -> [User -> RunOr]]
  <2>1. idsMade \in SUBSET (1 .. count) /\ storedId \in [Browser -> [User -> RunOr]]
        /\ StoredOf(storedId, idsMade)
    BY <1>1 DEF RunsKnown, TypeOK
  <2> DEFINE new == [storedId EXCEPT ![Place(r)][run[r].user] = r]
  <2>2. /\ StoredNext(new, idsMade \union {r})
        /\ new \in [Browser -> [User -> RunOr]]
    BY <1>1, <1>4, <2>1, StoredMade
  <2> QED BY <1>3, <2>2, NextStored
<1>7. StoredOf(storedPair, pairsMade)'
  <2>1. pairsMade \in SUBSET Run /\ storedPair \in [Browser -> [User -> RunOr]] /\ StoredOf(storedPair, pairsMade)
    BY <1>1 DEF RunsKnown, TypeOK
  <2> QED BY <1>1, <1>3, <1>4, <2>1, StoredKept, NextStored
<1>8. RunKnown(r)'
  BY <1>1, <1>2, <1>3, <1>5 DEF RunKnown, IdsOf, Of
<1>9. RunsKnown'
  <2>1. \A s \in 1 .. count : RunKnown(s)'
    BY <1>1, <1>2, <1>3, <1>4, <1>8, OthersKnow
  <2>2. \A h \in Hook : device[h] # 0 => device[h] \in Run
    BY <1>1 DEF RunsKnown
  <2> QED BY <1>1, <1>3, <1>5, <1>6, <1>7, <2>1, <2>2 DEF RunsKnown
<1>10. TypeInv'
  <2>1. TypeOK'
    BY <1>1, <1>2, <1>3, <1>6 DEF TypeOK
  <2> QED BY <1>1, <1>2, <1>3, <2>1 DEF TypeInv, Generated
<1> QED BY <1>9, <1>10 DEF Known
LEMMA MakePairKnown ==
  ASSUME Known, NEW r \in 1 .. count, MakePair(r)
  PROVE  Known'
<1>1. /\ r \in Run /\ r \in RunOr /\ 0 \in RunOr /\ r # 0 /\ run[r].user \in User
      /\ Place(r) \in Browser /\ run[r].id \in RunOr /\ run[r].hook \in Hook
      /\ TypeInv /\ TypeOK /\ RunsKnown /\ 1 .. count \subseteq Run
  BY RunPlaces, EmptyTypes DEF Known, TypeInv
<1>2. /\ run' \in [Run -> RunState] /\ \A s \in Run \ {r} : run'[s] = run[s]
      /\ run'[r].hook = run[r].hook /\ run'[r].user = run[r].user
      /\ run'[r].step = "savePair" /\ run'[r].got = 0 /\ run'[r].id = run[r].id
  BY <1>1, GoesMoves DEF MakePair, RunStep
<1>3. /\ pairsMade' = pairsMade \union {r} /\ storedPair' = [storedPair EXCEPT ![Place(r)][run[r].user] = r]
      /\ pair' = [pair EXCEPT ![run[r].hook] = r] /\ late' \in BOOLEAN /\ run[r].step = "pair"
      /\ UNCHANGED <<count, user, device, ready, storedId, idsMade, table, cache, envelope>>
  BY <1>1 DEF MakePair, Late, TypeOK
<1>4. SameRuns
  BY <1>2, <1>3 DEF SameRuns
<1>5. \A t \in Run : Place(t)' = Place(t) /\ run'[t].user = run[t].user
  BY <1>1, <1>4, SameRunsKeep DEF SameRuns
<1>6. StoredOf(storedPair, pairsMade)' /\ storedPair' \in [Browser -> [User -> RunOr]]
  <2>1. pairsMade \in SUBSET (1 .. count) /\ storedPair \in [Browser -> [User -> RunOr]]
        /\ StoredOf(storedPair, pairsMade)
    BY <1>1 DEF RunsKnown, TypeOK
  <2> DEFINE new == [storedPair EXCEPT ![Place(r)][run[r].user] = r]
  <2>2. StoredNext(new, pairsMade \union {r}) /\ new \in [Browser -> [User -> RunOr]]
    BY <1>1, <1>4, <2>1, StoredMade
  <2> QED BY <1>3, <2>2, NextStored
<1>7. StoredOf(storedId, idsMade)'
  <2>1. idsMade \in SUBSET Run /\ storedId \in [Browser -> [User -> RunOr]] /\ StoredOf(storedId, idsMade)
    BY <1>1 DEF RunsKnown, TypeOK
  <2> QED BY <1>1, <1>3, <1>4, <2>1, StoredKept, NextStored
<1>8. pair'[run[r].hook] # 0 /\ \A h \in Hook : pair[h] # 0 => pair'[h] # 0
  BY <1>1, <1>3 DEF TypeOK
<1>9. RunsKnown'
  <2>1. RunKnown(r)'
    <3>1. HookRun(r) => run[r].id \in IdsOf(r)
      BY <1>1, <1>3 DEF RunsKnown, RunKnown
    <3>2. HookRun(r)' = HookRun(r) /\ IdsOf(r) \subseteq IdsOf(r)'
      BY <1>1, <1>4, SameRunsKeep
    <3> QED BY <1>2, <1>8, <3>1, <3>2 DEF RunKnown
  <2>2. \A s \in 1 .. count : RunKnown(s)'
    BY <1>1, <1>2, <1>3, <1>4, <1>8, <2>1, OthersKnow
  <2>3. \A h \in Hook : device[h] # 0 => device[h] \in Run
    BY <1>1 DEF RunsKnown
  <2> QED BY <1>1, <1>3, <1>5, <1>6, <1>7, <2>2, <2>3 DEF RunsKnown
<1>10. TypeInv'
  <2>1. TypeOK'
    BY <1>1, <1>2, <1>3, <1>6 DEF TypeOK
  <2>2. \A h \in Hook : pair'[h] \in Generated'
    BY <1>1, <1>3 DEF TypeInv, TypeOK, Generated
  <2> QED BY <1>1, <1>2, <1>3, <2>1, <2>2 DEF TypeInv, Generated
<1> QED BY <1>9, <1>10 DEF Known

LEMMA HaveIdKnown ==
  ASSUME Known, NEW r \in 1 .. count, HaveId(r)
  PROVE  Known'
<1> DEFINE h == run[r].hook
<1>1. /\ r \in Run /\ run[r].user \in User /\ Place(r) = Home[h] /\ h \in Hook
      /\ Place(r) \in Browser /\ run[r].got \in RunOr
      /\ TypeInv /\ TypeOK /\ RunsKnown /\ RunKnown(r)
  BY RunPlaces DEF Known, TypeInv, RunsKnown, Place
<1>2. run[r].got \in IdsOf(r) /\ run[r].got \in idsMade
  BY <1>1 DEF HaveId, RunKnown, IdsOf, Of
<1>3. /\ device' = [device EXCEPT ![h] = run[r].got] /\ late' \in BOOLEAN
      /\ UNCHANGED <<count, user, pair, ready, storedId, storedPair, idsMade, pairsMade, table, cache, envelope>>
  BY <1>1 DEF HaveId, Late, TypeOK, keyVars
<1>4. \E st \in {"pair", "register", "failed"}, g \in RunOr, i \in RunOr :
        /\ Goes(r, st, g, i) /\ (st = "failed" \/ i = run[r].got)
        /\ st = "pair" => HookRun(r) /\ g = storedPair[Place(r)][run[r].user]
        /\ st = "register" => g = pair[h] /\ g # 0
  BY <1>1, EmptyTypes DEF HaveId, HookRun, TypeOK
<1>5. PICK st \in {"pair", "register", "failed"}, g \in RunOr, i \in RunOr :
        /\ run' \in [Run -> RunState] /\ \A s \in Run \ {r} : run'[s] = run[s]
        /\ run'[r].hook = h /\ run'[r].user = run[r].user
        /\ run'[r].step = st /\ run'[r].got = g /\ run'[r].id = i
        /\ st = "failed" \/ i = run[r].got
        /\ st = "pair" => HookRun(r) /\ g = storedPair[Place(r)][run[r].user]
        /\ st = "register" => g = pair[h] /\ g # 0
  BY <1>1, <1>4, GoesMoves DEF RunStep
<1>6. SameRuns
  BY <1>1, <1>3, <1>5 DEF SameRuns
<1>7. IdsOf(r) \subseteq IdsOf(r)' /\ PairsOf(r) \subseteq PairsOf(r)'
  BY <1>1, <1>6, SameRunsKeep
<1>8. RunKnown(r)'
  <2>1. st = "pair" => g \in PairsOf(r) \union {0}
    BY <1>1, <1>5 DEF RunsKnown, StoredOf, PairsOf
  <2> QED BY <1>2, <1>5, <1>7, <2>1 DEF RunKnown
<1>9. RunsKnown'
  <2>1. \A k \in Hook : device'[k] = device[k] \/ (k = h /\ device'[k] \in IdsOf(r))
    BY <1>1, <1>2, <1>3 DEF TypeOK
  <2> QED BY <1>3, <1>5, <1>8, <2>1, RunKnows DEF keyVars
<1>10. TypeInv'
  <2>1. TypeOK'
    BY <1>1, <1>3, <1>5 DEF TypeOK
  <2>2. st = "register" => g \in pairsMade
    BY <1>1, <1>5 DEF TypeInv, Generated
  <2> QED BY <1>1, <1>2, <1>3, <1>5, <2>1, <2>2 DEF TypeInv, Generated
<1> QED BY <1>9, <1>10 DEF Known

\* A run of init that has its pair.
LEMMA AfterPairKnown ==
  ASSUME Known, NEW r \in 1 .. count, HavePair(r) \/ PairSaved(r)
  PROVE  Known'
<1> DEFINE h == run[r].hook
           p == pair'[h]
<1>1. /\ r \in Run /\ run[r].user \in User /\ Place(r) = Home[h] /\ h \in Hook
      /\ Place(r) \in Browser /\ run[r].got \in RunOr /\ run[r].id \in RunOr
      /\ TypeInv /\ TypeOK /\ RunsKnown /\ RunKnown(r)
  BY RunPlaces DEF Known, TypeInv, RunsKnown, Place
<1>2. /\ run[r].step \in {"pair", "savePair"} /\ late' \in BOOLEAN /\ AfterPair(r, p)
      /\ pair' \in [Hook -> RunOr] /\ (HookRun(r) => p \in pairsMade)
      /\ \A k \in Hook : pair'[k] \in Generated /\ (pair[k] # 0 => pair'[k] # 0)
      /\ UNCHANGED <<count, user, device, ready, storedId, storedPair, idsMade, pairsMade, table, cache, envelope>>
  <2>1. CASE HavePair(r)
    <3>1. run[r].got \in pairsMade /\ run[r].got # 0 /\ run[r].step = "pair"
      BY <1>1, <2>1 DEF HavePair, RunKnown, PairsOf, Of
    <3>2. pair' = [pair EXCEPT ![h] = run[r].got] /\ AfterPair(r, run[r].got) /\ late' \in BOOLEAN
      BY <1>1, <2>1 DEF HavePair, Late, TypeOK
    <3>3. p = run[r].got
      BY <1>1, <3>2 DEF TypeOK
    <3> QED BY <1>1, <2>1, <3>1, <3>2, <3>3 DEF HavePair, TypeInv, TypeOK, Generated, keyVars
  <2>2. CASE PairSaved(r)
    BY <1>1, <2>2 DEF PairSaved, Late, TypeInv, TypeOK, RunKnown, Generated, keyVars
  <2> QED BY <2>1, <2>2
<1>3. \E st \in {"register", "id"}, g \in RunOr :
        /\ Goes(r, st, g, run[r].id)
        /\ st = "register" => HookRun(r) /\ g = p
        /\ st = "id" => ~HookRun(r) /\ g = storedId[Place(r)][run[r].user]
  <2>1. p \in RunOr /\ storedId[Home[h]][run[r].user] \in RunOr
    BY <1>1, <1>2 DEF TypeOK
  <2> QED BY <1>1, <1>2, <2>1 DEF AfterPair, HookRun
<1>4. PICK st \in {"register", "id"}, g \in RunOr :
        /\ run' \in [Run -> RunState] /\ \A s \in Run \ {r} : run'[s] = run[s]
        /\ run'[r].hook = h /\ run'[r].user = run[r].user
        /\ run'[r].step = st /\ run'[r].got = g /\ run'[r].id = run[r].id
        /\ st = "register" => HookRun(r) /\ g = p
        /\ st = "id" => ~HookRun(r) /\ g = storedId[Place(r)][run[r].user]
  BY <1>1, <1>3, GoesMoves DEF RunStep
<1>5. SameRuns
  BY <1>1, <1>2, <1>4 DEF SameRuns
<1>6. IdsOf(r) \subseteq IdsOf(r)' /\ HookRun(r)' = HookRun(r)
  BY <1>1, <1>5, SameRunsKeep
<1>7. st = "register" => run[r].id \in IdsOf(r) /\ g \in pairsMade
  BY <1>1, <1>2, <1>4 DEF RunKnown
<1>8. RunKnown(r)'
  <2>1. st = "id" => g \in IdsOf(r) \union {0}
    BY <1>1, <1>4 DEF RunsKnown, StoredOf, IdsOf
  <2> QED BY <1>4, <1>6, <1>7, <2>1 DEF RunKnown
<1>9. RunsKnown'
  BY <1>2, <1>4, <1>8, RunKnows DEF keyVars
<1>10. TypeInv'
  <2>1. TypeOK'
    BY <1>1, <1>2, <1>4 DEF TypeOK
  <2>2. st = "register" => run[r].id \in idsMade
    BY <1>7 DEF IdsOf, Of
  <2> QED BY <1>1, <1>2, <1>4, <1>7, <2>1, <2>2 DEF TypeInv, Generated
<1> QED BY <1>9, <1>10 DEF Known

\* The registration of a run is answered, or its init gives up.
LEMMA RegisteredKnown ==
  ASSUME Known, NEW r \in 1 .. count, Registered(r) \/ InitFails(r)
  PROVE  Known'
<1>1. /\ r \in Run /\ 0 \in RunOr /\ run[r].user \in User /\ run[r].hook \in Hook
      /\ TypeInv /\ TypeOK /\ RunsKnown /\ RunKnown(r)
  BY RunPlaces, EmptyTypes DEF Known, TypeInv, RunsKnown
<1>2. Registered(r) => run[r].id \in idsMade /\ run[r].got \in pairsMade
  BY <1>1 DEF Registered, TypeInv
<1>3. PICK st \in {"done", "failed"} :
        /\ run' \in [Run -> RunState] /\ \A s \in Run \ {r} : run'[s] = run[s]
        /\ run'[r].hook = run[r].hook /\ run'[r].user = run[r].user /\ run'[r].step = st
  <2>1. \E st \in {"done", "failed"} : Goes(r, st, 0, 0)
    BY DEF Registered, InitFails
  <2> QED BY <1>1, <2>1, GoesMoves DEF RunStep
<1>4. /\ ready' \in [Hook -> BOOLEAN] /\ table' \in [User -> List]
      /\ \A u \in User, d \in Run : table'[u][d] \in Generated
      /\ UNCHANGED <<count, user, pair, device, late, storedId, storedPair, idsMade, pairsMade, cache, envelope>>
  <2>1. CASE Registered(r)
    <3>1. table' = [table EXCEPT ![run[r].user][run[r].id] = run[r].got]
      BY <2>1 DEF Registered, Register
    <3>2. run[r].id \in Run /\ run[r].got \in RunOr
      BY <1>1, <1>2, <2>1, EmptyTypes DEF TypeOK
    <3> QED BY <1>1, <1>2, <2>1, <3>1, <3>2 DEF Registered, TypeInv, TypeOK, List, Generated, keyVars
  <2>2. CASE InitFails(r)
    BY <1>1, <2>2 DEF InitFails, TypeInv, TypeOK, localVars, keyVars
  <2> QED BY <2>1, <2>2
<1>5. RunKnown(r)'
  BY <1>3 DEF RunKnown
<1>6. RunsKnown'
  BY <1>3, <1>4, <1>5, RunKnows DEF keyVars
<1>7. TypeInv'
  <2>1. TypeOK'
    BY <1>1, <1>3, <1>4 DEF TypeOK
  <2> QED BY <1>1, <1>3, <1>4, <2>1 DEF TypeInv, Generated
<1> QED BY <1>6, <1>7 DEF Known

\* The runs so far stay as they are, and nothing is generated.
LEMMA RunsStay ==
  ASSUME Known, UNCHANGED <<storedId, storedPair, idsMade, pairsMade, device>>,
         \A s \in 1 .. count : run'[s] = run[s],
         \A h \in Hook : pair[h] # 0 => pair'[h] # 0 \/ h \in Client,
         count' \in {count, count + 1}, \A s \in (count + 1) .. count' : RunKnown(s)'
  PROVE  RunsKnown'
<1>1. /\ TypeInv /\ RunsKnown /\ count \in Nat /\ 1 .. count \subseteq Run
      /\ idsMade \subseteq 1 .. count /\ pairsMade \subseteq 1 .. count
      /\ \A s \in 1 .. count : run[s].hook \in Hook
  BY RunPlaces, BoundAssumption DEF Known, RunsKnown, TypeInv, TypeOK, RunOr
<1>2. \A t \in 1 .. count : Place(t)' = Place(t) /\ run'[t].user = run[t].user
  BY DEF Place
<1>3. \A b \in Browser, u \in User :
        Of(idsMade, b, u)' = Of(idsMade, b, u) /\ Of(pairsMade, b, u)' = Of(pairsMade, b, u)
  BY <1>1, <1>2 DEF Of
<1>4. StoredOf(storedId, idsMade)' /\ StoredOf(storedPair, pairsMade)'
  BY <1>1, <1>3 DEF RunsKnown, StoredOf
<1>5. \A s \in 1 .. count : IdsOf(s)' = IdsOf(s) /\ PairsOf(s)' = PairsOf(s)
  BY <1>1, <1>2, <1>3 DEF IdsOf, PairsOf, Of
<1>6. ASSUME NEW s \in 1 .. count PROVE RunKnown(s)'
  <2>1. RunKnown(s) /\ HookRun(s)' = HookRun(s)
    BY <1>1 DEF RunsKnown, HookRun
  <2>2. HookRun(s) /\ pair[run[s].hook] # 0 => pair'[run[s].hook] # 0
    BY <1>1 DEF HookRun, IdFirst
  <2> QED BY <1>5, <2>1, <2>2 DEF RunKnown
<1>7. \A s \in 1 .. count' : RunKnown(s)'
  BY <1>1, <1>6
<1>8. \A h \in Hook : device[h] # 0 => device[h] \in idsMade /\ Place(device[h])' = Home[h]
  BY <1>1, <1>2 DEF RunsKnown
<1> QED BY <1>1, <1>4, <1>7, <1>8 DEF RunsKnown

\* A run begins.
LEMMA StartKnown ==
  ASSUME Known, NEW h \in Hook, NEW u \in User, Start(h, u)
  PROVE  Known'
<1>a. TypeInv /\ TypeOK /\ RunsKnown /\ 0 \in RunOr /\ Home[h] \in Browser
  BY EmptyTypes, ConsumerAssumption DEF Known, TypeInv
<1>b. count \in Nat /\ count + 1 \in Run /\ count + 1 \notin 1 .. count /\ 1 .. count \subseteq Run
  BY <1>a, BoundAssumption DEF TypeOK, Start, Run, RunOr
<1>c. PICK n \in Run : n = count + 1
  BY <1>b
<1>1. /\ TypeInv /\ TypeOK /\ RunsKnown /\ count \in Nat /\ n \in Run /\ n \notin 1 .. count
      /\ 1 .. count \subseteq Run /\ 0 \in RunOr /\ Home[h] \in Browser
  BY <1>a, <1>b, <1>c
<1>2. /\ count' = n /\ user' = [user EXCEPT ![h] = u]
      /\ UNCHANGED <<pair, device, ready, late, storedId, storedPair, idsMade, pairsMade, table, cache, envelope>>
  BY <1>c DEF Start, keyVars
<1>3. PICK st \in {"id", "pair"}, g \in RunOr :
        /\ run' = [run EXCEPT ![n] = [hook |-> h, user |-> u, step |-> st, got |-> g, id |-> 0]]
        /\ st = "id" => g = storedId[Home[h]][u]
        /\ st = "pair" => g = storedPair[Home[h]][u] /\ ~IdFirst(h)
  <2>1. storedId[Home[h]][u] \in RunOr /\ storedPair[Home[h]][u] \in RunOr
    BY <1>1 DEF TypeOK
  <2> QED BY <1>c, <2>1 DEF Start
<1>4. /\ run' \in [Run -> RunState] /\ \A s \in Run \ {n} : run'[s] = run[s]
      /\ run'[n].hook = h /\ run'[n].user = u /\ run'[n].step = st /\ run'[n].got = g
  BY <1>1, <1>3 DEF TypeOK, RunState, RunStep
<1>5. RunKnown(n)'
  <2>1. Place(n)' = Home[h] /\ run'[n].user = u /\ HookRun(n)' = IdFirst(h)
    BY <1>4 DEF Place, HookRun, IdFirst
  <2>2. OfNext(idsMade, Home[h], u) = Of(idsMade, Home[h], u)
        /\ OfNext(pairsMade, Home[h], u) = Of(pairsMade, Home[h], u)
    BY <1>1, <1>4 DEF RunsKnown, Of, OfNext, Place
  <2>3. /\ storedId[Home[h]][u] \in Of(idsMade, Home[h], u) \union {0}
        /\ storedPair[Home[h]][u] \in Of(pairsMade, Home[h], u) \union {0}
    BY <1>1 DEF RunsKnown, StoredOf
  <2>4. IdsOf(n)' = OfNext(idsMade, Home[h], u) /\ PairsOf(n)' = OfNext(pairsMade, Home[h], u)
    BY <1>2, <1>4, <2>1 DEF IdsOf, PairsOf, Of, OfNext, Place
  <2> QED BY <1>3, <1>4, <2>1, <2>2, <2>3, <2>4 DEF RunKnown
<1>6. RunsKnown'
  <2>1. (count + 1) .. count' = {n} /\ count' = count + 1
    BY <1>1, <1>2, <1>c
  <2>2. \A s \in 1 .. count : run'[s] = run[s]
    BY <1>1, <1>4
  <2> QED BY <1>2, <1>5, <2>1, <2>2, RunsStay
<1>7. TypeInv'
  <2>1. TypeOK'
    <3>1. count' \in RunOr /\ user' \in [Hook -> User]
      BY <1>1, <1>2, EmptyTypes DEF TypeOK
    <3> QED BY <1>1, <1>2, <1>4, <3>1 DEF TypeOK
  <2>2. \A r \in Run : /\ run'[r].step = "register" => run'[r].id \in idsMade /\ run'[r].got \in pairsMade
                       /\ run'[r].step # "none" <=> r <= count'
    BY <1>c, <1>1, <1>2, <1>4 DEF TypeInv, Run
  <2> QED BY <1>1, <1>2, <2>1, <2>2 DEF TypeInv, Generated
<1> QED BY <1>6, <1>7 DEF Known

\* Nothing but what a consumer holds or caches, and the files and forms, moves.
LEMMA UsesKnown ==
  ASSUME Known, UNCHANGED <<count, run, user, device, ready, late, keyVars, table>>,
         TypeOK', \A h \in Hook : pair'[h] = pair[h] \/ (h \in Client /\ pair'[h] = 0),
         \A h \in Hook, u \in User, d \in Run : cache'[h][u][d] \in Generated
  PROVE  Known'
<1>1. /\ TypeInv /\ RunsKnown /\ count \in Nat
      /\ UNCHANGED <<storedId, storedPair, idsMade, pairsMade>>
  BY BoundAssumption DEF Known, TypeInv, TypeOK, RunOr, keyVars
<1>2. RunsKnown'
  BY <1>1, RunsStay
<1>3. TypeInv'
  BY <1>1 DEF TypeInv, Generated
<1> QED BY <1>2, <1>3 DEF Known

\* The list of a user, cached or fetched, and what is cached then.
LEMMA ListTypes ==
  ASSUME TypeInv, NEW h \in Hook, NEW u \in User
  PROVE  DeviceKeys(h, u) \in List /\ \A d \in Run : DeviceKeys(h, u)[d] \in Generated
BY DEF DeviceKeys, Registrations, TypeInv, TypeOK

LEMMA FetchTypes ==
  ASSUME TypeInv, NEW h \in Hook, NEW u \in User, FetchKeys(h, u)
  PROVE  /\ cache' \in [Hook -> [User -> List]]
         /\ \A k \in Hook, v \in User, d \in Run : cache'[k][v][d] \in Generated
<1>1. cache' = [cache EXCEPT ![h][u] = DeviceKeys(h, u)] /\ cache \in [Hook -> [User -> List]]
  BY DEF FetchKeys, TypeInv, TypeOK
<1> QED BY <1>1, ListTypes DEF TypeInv

LEMMA PaperTypes ==
  /\ NoPaper \in Paper
  /\ NoPaper.step = "none" /\ NoPaper.sound = FALSE
<1>1. NoRun.hook \in Hook /\ NoRun.user \in User /\ Empty \in List /\ 0 \in RunOr
  BY EmptyTypes DEF RunState
<1> QED BY <1>1 DEF NoPaper, Paper, EnvelopeStep

\* Keys are dropped, and files and forms come and go.
LEMMA DropKnown ==
  ASSUME Known, NEW h \in Hook, NEW u \in User, CacheExpires(h, u) \/ Disconnect(h)
  PROVE  Known'
<1>1. /\ TypeInv /\ TypeOK /\ Empty \in List /\ 0 \in RunOr
      /\ \A d \in Run : Empty[d] \in Generated
  BY EmptyTypes DEF Known, TypeInv, Generated
<1>2. CASE CacheExpires(h, u)
  <2>1. cache' = [cache EXCEPT ![h][u] = Empty]
    BY <1>2 DEF CacheExpires
  <2>2. cache' \in [Hook -> [User -> List]] /\ \A k \in Hook, v \in User, d \in Run : cache'[k][v][d] \in Generated
    BY <1>1, <2>1 DEF TypeInv, TypeOK
  <2>3. TypeOK'
    BY <1>1, <1>2, <2>2 DEF CacheExpires, TypeOK, localVars, keyVars
  <2> QED BY <1>2, <2>2, <2>3, UsesKnown DEF CacheExpires, localVars
<1>3. CASE Disconnect(h)
  <2>1. /\ cache' = [cache EXCEPT ![h] = [v \in User |-> Empty]]
        /\ pair' = [pair EXCEPT ![h] = 0] /\ h \in Client
    BY <1>3 DEF Disconnect
  <2>2. cache' \in [Hook -> [User -> List]] /\ \A k \in Hook, v \in User, d \in Run : cache'[k][v][d] \in Generated
    BY <1>1, <2>1 DEF TypeInv, TypeOK
  <2>3. pair' \in [Hook -> RunOr] /\ \A k \in Hook : pair'[k] = pair[k] \/ (k \in Client /\ pair'[k] = 0)
    BY <1>1, <2>1 DEF TypeOK
  <2>4. TypeOK'
    BY <1>1, <1>3, <2>2, <2>3 DEF Disconnect, TypeOK, keyVars
  <2> QED BY <1>3, <2>2, <2>3, <2>4, UsesKnown DEF Disconnect
<1> QED BY <1>2, <1>3
LEMMA UseKnown ==
  ASSUME Known, NEW h \in Hook, NEW u \in User, NEW e \in Envelope,
         Encrypt(e, h, u) \/ Decrypt(e, h, u) \/ Sealed(e) \/ Opened(e) \/ OpenedBlank(e)
  PROVE  Known'
<1>1. /\ TypeInv /\ TypeOK /\ Empty \in List /\ 0 \in RunOr /\ envelope[e] \in Paper
      /\ \A d \in Run : Empty[d] \in Generated
  BY EmptyTypes DEF Known, TypeInv, TypeOK, Generated
<1>4. CASE Encrypt(e, h, u)
  <2>1. /\ cache' \in [Hook -> [User -> List]]
        /\ \A k \in Hook, v \in User, d \in Run : cache'[k][v][d] \in Generated
    BY <1>1, <1>4, FetchTypes DEF Encrypt
  <2>2. envelope' \in [Envelope -> Paper]
    <3>1. [NoPaper EXCEPT !.step = "fetching", !.by = h, !.from = user[h], !.to = u,
                          !.keys = DeviceKeys(h, u)] \in Paper
      BY <1>1, PaperTypes, ListTypes DEF TypeOK, Paper, EnvelopeStep
    <3> QED BY <1>1, <1>4, <3>1 DEF Encrypt, TypeOK
  <2>3. TypeOK'
    BY <1>1, <1>4, <2>1, <2>2 DEF Encrypt, TypeOK, localVars, keyVars
  <2> QED BY <1>4, <2>1, <2>3, UsesKnown DEF Encrypt, localVars
<1>5. CASE Decrypt(e, h, u)
  <2>1. /\ cache' \in [Hook -> [User -> List]]
        /\ \A k \in Hook, v \in User, d \in Run : cache'[k][v][d] \in Generated
    BY <1>1, <1>5, FetchTypes DEF Decrypt
  <2>2. envelope' \in [Envelope -> Paper]
    <3>1. [envelope[e] EXCEPT !.step = "reading", !.reader = h, !.claim = u,
                              !.at = device[h], !.senders = DeviceKeys(h, u)] \in Paper
      BY <1>1, ListTypes DEF TypeOK, Paper, EnvelopeStep
    <3> QED BY <1>1, <1>5, <3>1 DEF Decrypt, TypeOK
  <2>3. TypeOK'
    BY <1>1, <1>5, <2>1, <2>2 DEF Decrypt, TypeOK, localVars, keyVars
  <2> QED BY <1>5, <2>1, <2>3, UsesKnown DEF Decrypt, localVars
<1>6. CASE Sealed(e)
  <2>1. envelope' \in [Envelope -> Paper]
    <3>1. Settled(envelope[e].by) \in BOOLEAN
      BY DEF Settled
    <3>2. pair[envelope[e].by] \in RunOr
      BY <1>1 DEF TypeOK, Paper
    <3>3. \A st \in EnvelopeStep, p \in RunOr, b \in BOOLEAN :
            [envelope[e] EXCEPT !.step = st, !.pair = p, !.sound = b] \in Paper
      BY <1>1 DEF Paper
    <3> QED BY <1>1, <1>6, <3>1, <3>2, <3>3 DEF Sealed, TypeOK, EnvelopeStep
  <2>2. TypeOK'
    BY <1>1, <1>6, <2>1 DEF Sealed, TypeOK, localVars, keyVars
  <2> QED BY <1>1, <1>6, <2>2, UsesKnown DEF Sealed, localVars, TypeInv
<1>7. CASE Opened(e)
  <2>1. envelope' \in [Envelope -> Paper]
    <3>1. Settled(envelope[e].reader) \in BOOLEAN /\ envelope[e].sound \in BOOLEAN
      BY <1>1 DEF Settled, Paper
    <3>2. \A st \in EnvelopeStep, b \in BOOLEAN :
            [envelope[e] EXCEPT !.step = st, !.sound = b] \in Paper
      BY <1>1 DEF Paper
    <3> QED BY <1>1, <1>7, <3>1, <3>2 DEF Opened, TypeOK, EnvelopeStep
  <2>2. TypeOK'
    BY <1>1, <1>7, <2>1 DEF Opened, TypeOK, localVars, keyVars
  <2> QED BY <1>1, <1>7, <2>2, UsesKnown DEF Opened, localVars, TypeInv
<1>8. CASE OpenedBlank(e)
  <2>1. [NoPaper EXCEPT !.step = "blank"] \in Paper
    BY PaperTypes DEF Paper, EnvelopeStep
  <2>2. TypeOK'
    BY <1>1, <1>8, <2>1 DEF OpenedBlank, TypeOK, localVars, keyVars
  <2> QED BY <1>1, <1>8, <2>2, UsesKnown DEF OpenedBlank, localVars, TypeInv
<1> QED BY <1>4, <1>5, <1>6, <1>7, <1>8

\* No run knows anything at first.
LEMMA InitKnown == Init => Known
<1> SUFFICES ASSUME Init PROVE Known
  OBVIOUS
<1>1. /\ Empty \in List /\ NoRun \in RunState /\ NoPaper \in Paper /\ 0 \in RunOr
      /\ NoRun.step = "none" /\ \A d \in Run : Empty[d] = 0
  BY EmptyTypes, PaperTypes DEF NoRun
<1>2. TypeOK
  BY <1>1, ConsumerAssumption DEF Init, TypeOK
<1>3. \A r \in Run : ~(r <= 0)
  BY DEF Run
<1>4. TypeInv
  BY <1>1, <1>2, <1>3 DEF Init, TypeInv, Generated
<1>5. RunsKnown
  BY DEF Init, RunsKnown, StoredOf, Of
<1> QED BY <1>4, <1>5 DEF Known

\* Every step.
LEMMA NextKnown == Known /\ [Next]_vars => Known'
<1> SUFFICES ASSUME Known, [Next]_vars PROVE Known'
  OBVIOUS
<1>1. ASSUME NEW h \in Hook, NEW u \in User, Start(h, u) PROVE Known'
  BY <1>1, StartKnown
<1>2. ASSUME NEW r \in 1 .. count, InitStep(r) PROVE Known'
  BY <1>2, MakeIdKnown, HaveIdKnown, MakePairKnown, AfterPairKnown, RegisteredKnown DEF InitStep
<1>3. CASE UNCHANGED vars
  <2>1. /\ TypeInv /\ TypeOK' /\ UNCHANGED <<count, run, user, device, ready, late, keyVars, table, pair, cache, envelope>>
    BY <1>3 DEF Known, TypeInv, TypeOK, vars, localVars, keyVars
  <2> QED BY <2>1, UsesKnown DEF TypeInv
<1>4. ASSUME NEW h \in Hook, NEW u \in User, NEW e \in Envelope,
             Encrypt(e, h, u) \/ Decrypt(e, h, u) \/ Sealed(e) \/ Opened(e) \/ OpenedBlank(e)
      PROVE  Known'
  BY <1>4, UseKnown
<1>5. ASSUME NEW h \in Hook, NEW u \in User, CacheExpires(h, u) \/ Disconnect(h) PROVE Known'
  BY <1>5, DropKnown
<1>6. \E h \in Hook, u \in User : TRUE
  BY ConsumerAssumption
<1> QED BY <1>1, <1>2, <1>3, <1>4, <1>5, <1>6 DEF Next

\* Whatever hooks and clients mount, switch users and disconnect, and in
\* whatever order their runs of init get their answers, what is registered,
\* cached or held is a key pair that a run generated, under an id that one did.
THEOREM DeviceKeysTypes == Spec => []TypeInv
<1>1. Known => TypeInv
  BY DEF Known
<1> QED BY <1>1, InitKnown, NextKnown, PTL DEF Spec


-----------------------------------------------------------------------------
(* The keys a consumer settles with.                                        *)

\* Why OneIdentity and EnvelopesOpen, as long as no run has set or used the refs
\* of a hook with another user by then: past the wait for its key pair, a run
\* that no run of another user follows leaves one of its user in the hook, past
\* the wait for its device id an id, and the server has a pair for that id once
\* the run is done.  A list has pairs of its user, of the browser of the device.
Current(r) == \A s \in r + 1 .. count : run[s].hook = run[r].hook => run[s].user = run[r].user
LatestUser == \A r \in 1 .. count : ~Superseded(r) => user[run[r].hook] = run[r].user
PastPair(r) ==
  run[r].step \notin (IF HookRun(r) THEN {"id", "saveId", "pair"} ELSE {"pair"}) \union {"failed"}
PastId(r) ==
  run[r].step \notin (IF HookRun(r) THEN {"id", "saveId"} ELSE {"id", "saveId", "pair", "savePair"})
                     \union {"failed"}
RefsOf(r) ==
  /\ Current(r) /\ PastPair(r) =>
       pair[run[r].hook] \in PairsOf(r) \/ (~HookRun(r) /\ pair[run[r].hook] = 0)
  /\ Current(r) /\ PastId(r) => device[run[r].hook] \in IdsOf(r)
  /\ run[r].step = "register" => run[r].got \in PairsOf(r)
  /\ run[r].step = "done" => \E d \in IdsOf(r) : table[run[r].user][d] # 0
RefsKept == \A r \in 1 .. count : RefsOf(r)
OwnList(l, u) ==
  \A d \in Run : l[d] # 0 =>
    /\ l[d] \in pairsMade /\ d \in idsMade /\ Place(l[d]) = Place(d)
    /\ run[l[d]].user = u
ListsKept == \A u \in User : OwnList(table[u], u) /\ \A h \in Hook : OwnList(cache[h][u], u)
PaperKept(v) ==
  /\ v.step # "none" => OwnList(v.keys, v.to)
  /\ v.step \in {"sealed", "reading", "opened", "refused"} /\ v.sound =>
       v.pair \in pairsMade /\ run[v.pair].user = v.from
  /\ v.step \in {"reading", "opened", "refused"} =>
       OwnList(v.senders, v.claim) /\ v.at # 0 /\ v.keys[v.at] # 0 /\ Place(v.at) = Home[v.reader]
KeysKept ==
  ~late => /\ RefsKept
           /\ ListsKept
           /\ \A e \in Envelope : PaperKept(envelope[e])
Settling == Known /\ LatestUser /\ KeysKept

\* A step ends no run, and forgets nothing that was generated.
RunsLast ==
  /\ count' \in {count, count + 1} /\ (late => late')
  /\ idsMade \subseteq idsMade' /\ pairsMade \subseteq pairsMade'
  /\ \A s \in 1 .. count : run'[s].hook = run[s].hook /\ run'[s].user = run[s].user
LEMMA StepsLast == Known /\ [Next]_vars => RunsLast
<1> SUFFICES ASSUME Known, [Next]_vars PROVE RunsLast
  OBVIOUS
<1>1. TypeInv /\ 1 .. count \subseteq Run /\ count \in Nat /\ run \in [Run -> RunState] /\ late \in BOOLEAN
  BY RunPlaces, BoundAssumption DEF Known, TypeInv, TypeOK, RunOr
<1>2. ASSUME NEW h \in Hook, NEW u \in User, Start(h, u) PROVE RunsLast
  <2>1. \A s \in 1 .. count : run'[s] = run[s]
    BY <1>1, <1>2 DEF Start
  <2> QED BY <1>2, <2>1 DEF Start, RunsLast, keyVars
<1>3. ASSUME NEW r \in 1 .. count, InitStep(r) PROVE RunsLast
  <2>1. ASSUME NEW st, NEW g, NEW i, Goes(r, st, g, i)
        PROVE  \A s \in 1 .. count : run'[s].hook = run[s].hook /\ run'[s].user = run[s].user
    BY <1>1, <2>1 DEF Goes, RunState
  <2>2. \E st, g, i : Goes(r, st, g, i)
    BY <1>3 DEF InitStep, MakeId, HaveId, MakePair, HavePair, PairSaved, AfterPair, Registered,
                InitFails
  <2>3. Late(r) => (late => late')
    BY DEF Late
  <2>4. /\ count' = count /\ (Late(r) \/ UNCHANGED late)
        /\ idsMade \subseteq idsMade' /\ pairsMade \subseteq pairsMade'
    BY <1>3 DEF InitStep, MakeId, HaveId, MakePair, HavePair, PairSaved, Registered,
                InitFails, localVars, keyVars
  <2> QED BY <2>1, <2>2, <2>3, <2>4 DEF RunsLast
<1>4. ASSUME UNCHANGED <<count, run, late, idsMade, pairsMade>> PROVE RunsLast
  BY <1>4 DEF RunsLast
<1>5. ASSUME NEW h \in Hook, NEW u \in User, CacheExpires(h, u) \/ Disconnect(h) PROVE RunsLast
  BY <1>4, <1>5 DEF CacheExpires, Disconnect, localVars, keyVars
<1>6. ASSUME NEW e \in Envelope, NEW h \in Hook, NEW u \in User, Encrypt(e, h, u) \/ Decrypt(e, h, u)
      PROVE  RunsLast
  BY <1>4, <1>6 DEF Encrypt, Decrypt, localVars, keyVars
<1>7. ASSUME NEW e \in Envelope, Sealed(e) \/ Opened(e) \/ OpenedBlank(e) PROVE RunsLast
  BY <1>4, <1>7 DEF Sealed, Opened, OpenedBlank, localVars, keyVars
<1>8. CASE UNCHANGED vars
  BY <1>4, <1>8 DEF vars, localVars, keyVars
<1>9. \A h \in Hook : Disconnect(h) => RunsLast
  BY <1>5, ConsumerAssumption
<1> QED BY <1>2, <1>3, <1>5, <1>6, <1>7, <1>8, <1>9 DEF Next

\* What was generated for the user of a run stays, and lists stay lists of
\* their users.
LEMMA LastingSets ==
  ASSUME Known, RunsLast, NEW s \in 1 .. count
  PROVE  /\ Place(s)' = Place(s) /\ HookRun(s)' = HookRun(s)
         /\ IdsOf(s) \subseteq IdsOf(s)' /\ PairsOf(s) \subseteq PairsOf(s)'
         /\ (Current(s)' => Current(s)) /\ s \in 1 .. count'
<1>1. idsMade \subseteq 1 .. count /\ pairsMade \subseteq 1 .. count /\ count \in Nat
  BY BoundAssumption DEF Known, RunsKnown, TypeInv, TypeOK, RunOr
<1>2. \A t \in 1 .. count : Place(t)' = Place(t) /\ run'[t].user = run[t].user
  BY DEF RunsLast, Place
<1>3. HookRun(s)' = HookRun(s)
  BY DEF RunsLast, HookRun, IdFirst
<1>4. IdsOf(s) \subseteq IdsOf(s)'
  BY <1>1, <1>2 DEF RunsLast, IdsOf, Of
<1>5. PairsOf(s) \subseteq PairsOf(s)'
  BY <1>1, <1>2 DEF RunsLast, PairsOf, Of
<1>6. Current(s)' => Current(s)
  BY <1>1 DEF Current, RunsLast
<1> QED BY <1>1, <1>2, <1>3, <1>4, <1>5, <1>6 DEF RunsLast
LEMMA ListsLast ==
  ASSUME Known, RunsLast, NEW l, NEW u, OwnList(l, u)
  PROVE  OwnList(l, u)'
<1>1. idsMade \subseteq 1 .. count /\ pairsMade \subseteq 1 .. count
  BY DEF Known, RunsKnown
<1>2. \A t \in 1 .. count : Place(t)' = Place(t) /\ run'[t].user = run[t].user
  BY DEF RunsLast, Place
<1> QED BY <1>1, <1>2 DEF OwnList, RunsLast

\* One run after another of a hook, neither with a run of another user after it.
LEMMA SameUser ==
  ASSUME Known, NEW r \in 1 .. count, NEW s \in 1 .. count, Current(r), Current(s),
         run[s].hook = run[r].hook
  PROVE  IdsOf(s) = IdsOf(r) /\ PairsOf(s) = PairsOf(r) /\ run[s].user = run[r].user
         /\ HookRun(s) = HookRun(r)
<1>1. count \in Nat
  BY BoundAssumption DEF Known, TypeInv, TypeOK, RunOr
<1>2. run[s].user = run[r].user
  BY <1>1 DEF Current
<1> QED BY <1>2 DEF IdsOf, PairsOf, Place, HookRun

\* A consumer has the user of its latest run.
LEMMA LatestUserStays == Known /\ LatestUser /\ [Next]_vars => LatestUser'
<1> SUFFICES ASSUME Known, LatestUser, [Next]_vars PROVE LatestUser'
  OBVIOUS
<1>1. RunsLast /\ count \in Nat /\ TypeOK /\ \A s \in 1 .. count : s \in Run /\ run[s].hook \in Hook
  BY StepsLast, RunPlaces, BoundAssumption DEF Known, TypeInv, TypeOK, RunOr
<1>2. ASSUME UNCHANGED <<count, user>> PROVE LatestUser'
  BY <1>1, <1>2 DEF RunsLast, LatestUser, Superseded
<1>3. ASSUME NEW h \in Hook, NEW u \in User, Start(h, u) PROVE LatestUser'
  <2>1. /\ count' = count + 1 /\ user' = [user EXCEPT ![h] = u] /\ count + 1 \in Run
        /\ \E st, g : run' = [run EXCEPT ![count + 1] =
             [hook |-> h, user |-> u, step |-> st, got |-> g, id |-> 0]]
    <3>1. count' = count + 1 /\ user' = [user EXCEPT ![h] = u] /\ count < MaxRuns
      BY <1>3 DEF Start
    <3>2. count + 1 \in Run
      BY <1>1, <3>1, BoundAssumption DEF Run
    <3>3. \E st, g : run' = [run EXCEPT ![count + 1] =
                               [hook |-> h, user |-> u, step |-> st, got |-> g, id |-> 0]]
      <4>1. run' = [run EXCEPT ![count + 1] =
              IF IdFirst(h)
              THEN [hook |-> h, user |-> u, step |-> "id", got |-> storedId[Home[h]][u], id |-> 0]
              ELSE [hook |-> h, user |-> u, step |-> "pair", got |-> storedPair[Home[h]][u], id |-> 0]]
        BY <1>3 DEF Start
      <4> QED BY <4>1
    <3> QED BY <3>1, <3>2, <3>3
  <2>2. run'[count + 1].hook = h /\ run'[count + 1].user = u
    <3>1. PICK st, g : run' = [run EXCEPT ![count + 1] =
                                 [hook |-> h, user |-> u, step |-> st, got |-> g, id |-> 0]]
      BY <2>1
    <3>2. run'[count + 1] = [hook |-> h, user |-> u, step |-> st, got |-> g, id |-> 0]
      BY <1>1, <2>1, <3>1 DEF TypeOK
    <3> QED BY <3>2
  <2>3. user'[h] = u /\ \A k \in Hook : k # h => user'[k] = user[k]
    BY <1>1, <2>1 DEF TypeOK
  <2>4. ASSUME NEW r \in 1 .. count', ~Superseded(r)' PROVE user'[run'[r].hook] = run'[r].user
    <3>1. CASE r = count + 1
      BY <2>2, <2>3, <3>1
    <3>2. CASE r # count + 1
      <4>1. r \in 1 .. count /\ count + 1 \in r + 1 .. count'
        BY <1>1, <2>1, <3>2
      <4>2. run'[r].hook = run[r].hook /\ run'[r].user = run[r].user /\ run'[r].hook # h
        BY <1>1, <2>2, <2>4, <4>1 DEF RunsLast, Superseded
      <4>3. ~Superseded(r)
        BY <1>1, <2>1, <2>4, <4>1 DEF RunsLast, Superseded
      <4> QED BY <1>1, <2>3, <4>1, <4>2, <4>3 DEF LatestUser
    <3> QED BY <3>1, <3>2
  <2> QED BY <2>4 DEF LatestUser
<1>4. ASSUME NEW r \in 1 .. count, InitStep(r) PROVE LatestUser'
  BY <1>2, <1>4 DEF InitStep, MakeId, HaveId, MakePair, HavePair, PairSaved, Registered,
                    InitFails, localVars, keyVars
<1>5. ASSUME NEW h \in Hook, NEW u \in User, CacheExpires(h, u) \/ Disconnect(h) PROVE LatestUser'
  BY <1>2, <1>5 DEF CacheExpires, Disconnect, localVars, keyVars
<1>6. ASSUME NEW e \in Envelope, NEW h \in Hook, NEW u \in User, Encrypt(e, h, u) \/ Decrypt(e, h, u)
      PROVE  LatestUser'
  BY <1>2, <1>6 DEF Encrypt, Decrypt, localVars, keyVars
<1>7. ASSUME NEW e \in Envelope, Sealed(e) \/ Opened(e) \/ OpenedBlank(e) PROVE LatestUser'
  BY <1>2, <1>7 DEF Sealed, Opened, OpenedBlank, localVars, keyVars
<1>8. CASE UNCHANGED vars
  BY <1>2, <1>8 DEF vars, localVars, keyVars
<1>9. \A h \in Hook : Disconnect(h) => LatestUser'
  BY <1>5, ConsumerAssumption
<1> QED BY <1>3, <1>4, <1>5, <1>6, <1>7, <1>8, <1>9 DEF Next

\* What a run knows of the refs outlasts what the others do: they may set its
\* refs to what was generated for its user, and a client drops its key pair.
LEMMA RefsLast ==
  ASSUME Known, RunsLast, NEW s \in 1 .. count, RefsOf(s), run'[s] = run[s],
         Current(s) => \/ pair'[run[s].hook] \in PairsOf(s)' \union {pair[run[s].hook]}
                       \/ ~HookRun(s) /\ pair'[run[s].hook] = 0,
         Current(s) => device'[run[s].hook] \in IdsOf(s)' \union {device[run[s].hook]},
         \A d \in Run : table[run[s].user][d] # 0 => table'[run[s].user][d] # 0
  PROVE  RefsOf(s)'
<1>1. /\ HookRun(s)' = HookRun(s) /\ (Current(s)' => Current(s))
      /\ IdsOf(s) \subseteq IdsOf(s)' /\ PairsOf(s) \subseteq PairsOf(s)'
  BY LastingSets
<1>2. PastPair(s)' = PastPair(s) /\ PastId(s)' = PastId(s)
  BY <1>1 DEF PastPair, PastId
<1>3. IdsOf(s) \subseteq Run
  BY DEF IdsOf, Of, Known, TypeInv, TypeOK
<1>4. Current(s)' /\ PastPair(s)' =>
        pair'[run'[s].hook] \in PairsOf(s)' \/ (~HookRun(s)' /\ pair'[run'[s].hook] = 0)
  BY <1>1, <1>2 DEF RefsOf
<1>5. Current(s)' /\ PastId(s)' => device'[run'[s].hook] \in IdsOf(s)'
  BY <1>1, <1>2 DEF RefsOf
<1>6. /\ run'[s].step = "register" => run'[s].got \in PairsOf(s)'
      /\ run'[s].step = "done" => \E d \in IdsOf(s)' : table'[run'[s].user][d] # 0
  BY <1>1, <1>3 DEF RefsOf
<1> QED BY <1>4, <1>5, <1>6 DEF RefsOf

\* A run that set or used the refs of its hook had no run of another user after it.
LEMMA LateCurrent ==
  ASSUME Known, NEW r \in 1 .. count, Late(r), ~late'
  PROVE  Current(r)
BY DEF Late, Current

\* A run sets the refs of its hook: every other run of it has the same user.
LEMMA OthersRefs ==
  ASSUME Known, RunsLast, NEW r \in 1 .. count, \A s \in 1 .. count : RefsOf(s),
         \A s \in Run \ {r} : run'[s] = run[s], count' = count,
         \A h \in Hook : h # run[r].hook => pair'[h] = pair[h] /\ device'[h] = device[h],
         \/ UNCHANGED <<pair, device>>
         \/ /\ Current(r)
            /\ pair'[run[r].hook] \in PairsOf(r)' \union {pair[run[r].hook]}
            /\ device'[run[r].hook] \in IdsOf(r)' \union {device[run[r].hook]},
         \A u \in User, d \in Run : table[u][d] # 0 => table'[u][d] # 0,
         RefsOf(r)'
  PROVE  \A s \in 1 .. count' : RefsOf(s)'
<1> SUFFICES ASSUME NEW s \in 1 .. count, s # r PROVE RefsOf(s)'
  OBVIOUS
<1>1. /\ s \in Run /\ r \in Run /\ run[s].hook \in Hook /\ run[s].user \in User /\ run'[s] = run[s]
      /\ run'[r].hook = run[r].hook /\ run'[r].user = run[r].user
  BY RunPlaces DEF Known, RunsLast
<1>2. CASE run[s].hook # run[r].hook \/ UNCHANGED <<pair, device>>
  BY <1>1, <1>2, RefsLast
<1>3. CASE run[s].hook = run[r].hook /\ Current(r)
  <2>1. ASSUME Current(s)
        PROVE  PairsOf(s)' = PairsOf(r)' /\ IdsOf(s)' = IdsOf(r)'
    BY <1>1, <1>3, <2>1, SameUser DEF PairsOf, IdsOf, Of, Place
  <2>2. /\ Current(s) => pair'[run[s].hook] \in PairsOf(s)' \union {pair[run[s].hook]}
        /\ Current(s) => device'[run[s].hook] \in IdsOf(s)' \union {device[run[s].hook]}
    BY <1>3, <2>1
  <2> QED BY <1>1, <2>2, RefsLast
<1> QED BY <1>2, <1>3

\* The turns of init.
LEMMA MakeIdRefs ==
  ASSUME Known, RunsLast, RefsKept, NEW r \in 1 .. count, MakeId(r)
  PROVE  RefsKept'
<1>1. TypeInv /\ r \in Run /\ r \in RunOr /\ run[r].id \in RunOr /\ RefsOf(r)
  BY RunPlaces, EmptyTypes DEF Known, RefsKept
<1>2. /\ run' \in [Run -> RunState] /\ \A s \in Run \ {r} : run'[s] = run[s]
      /\ run'[r].hook = run[r].hook /\ run'[r].step = "saveId"
  BY <1>1, GoesMoves DEF MakeId, RunStep
<1>3. run[r].step = "id" /\ UNCHANGED <<pair, device, table, count>>
  BY DEF MakeId, localVars
<1>4. RefsOf(r)'
  BY <1>1, <1>2, <1>3, LastingSets DEF RefsOf, PastPair, PastId
<1> QED BY <1>2, <1>3, <1>4, OthersRefs DEF RefsKept

LEMMA HaveIdRefs ==
  ASSUME Known, RunsLast, RefsKept, NEW r \in 1 .. count, HaveId(r), ~late'
  PROVE  RefsKept'
<1> DEFINE h == run[r].hook
<1>1. /\ TypeInv /\ r \in Run /\ h \in Hook /\ RefsOf(r) /\ RunKnown(r) /\ Current(r)
      /\ run[r].got \in RunOr /\ run[r].user \in User /\ Place(r) \in Browser /\ Place(r) = Home[h]
  BY RunPlaces, LateCurrent DEF Known, RunsKnown, RefsKept, HaveId, Place
<1>2. run[r].step \in {"id", "saveId"} /\ run[r].got \in IdsOf(r)
  BY <1>1 DEF HaveId, RunKnown
<1>3. device' = [device EXCEPT ![h] = run[r].got] /\ UNCHANGED <<pair, table, count>>
  BY DEF HaveId
<1>4. device'[h] = run[r].got /\ \A k \in Hook : k # h => device'[k] = device[k]
  BY <1>1, <1>3 DEF TypeInv, TypeOK
<1>5. \E st \in {"pair", "register", "failed"}, g \in RunOr, i \in RunOr :
        /\ Goes(r, st, g, i)
        /\ st = "pair" <=> HookRun(r)
        /\ st = "register" => g = pair[h] /\ g # 0
  BY <1>1, EmptyTypes DEF HaveId, HookRun, TypeInv, TypeOK
<1>6. PICK st \in {"pair", "register", "failed"}, g \in RunOr :
        /\ run' \in [Run -> RunState] /\ \A s \in Run \ {r} : run'[s] = run[s]
        /\ run'[r].hook = h /\ run'[r].step = st /\ run'[r].got = g
        /\ st = "pair" <=> HookRun(r)
        /\ st = "register" => g = pair[h] /\ g # 0
  BY <1>1, <1>5, GoesMoves DEF RunStep
<1>7. /\ HookRun(r)' = HookRun(r) /\ IdsOf(r) \subseteq IdsOf(r)' /\ PairsOf(r) \subseteq PairsOf(r)'
  BY LastingSets
<1>8. ~HookRun(r) => pair[h] \in PairsOf(r) \union {0}
  BY <1>1, <1>2 DEF RefsOf, PastPair
<1>9. RefsOf(r)'
  <2>1. PastPair(r)' => ~HookRun(r)
    BY <1>6, <1>7 DEF PastPair
  <2>2. device'[h] \in IdsOf(r)' /\ pair'[h] = pair[h]
    BY <1>2, <1>3, <1>4, <1>7
  <2> QED BY <1>6, <1>7, <1>8, <2>1, <2>2 DEF RefsOf
<1> QED BY <1>1, <1>2, <1>3, <1>4, <1>6, <1>7, <1>9, OthersRefs DEF RefsKept

LEMMA MakePairRefs ==
  ASSUME Known, RunsLast, RefsKept, NEW r \in 1 .. count, MakePair(r), ~late'
  PROVE  RefsKept'
<1> DEFINE h == run[r].hook
<1>1. /\ TypeInv /\ r \in Run /\ h \in Hook /\ RefsOf(r) /\ Current(r)
      /\ run[r].id \in RunOr /\ 0 \in RunOr
  BY RunPlaces, LateCurrent, EmptyTypes DEF Known, RefsKept, MakePair
<1>2. /\ run' \in [Run -> RunState] /\ \A s \in Run \ {r} : run'[s] = run[s]
      /\ run'[r].hook = h /\ run'[r].user = run[r].user /\ run'[r].step = "savePair"
  BY <1>1, GoesMoves DEF MakePair, RunStep
<1>3. /\ run[r].step = "pair" /\ pairsMade' = pairsMade \union {r}
      /\ pair' = [pair EXCEPT ![h] = r] /\ UNCHANGED <<device, table, count>>
  BY DEF MakePair
<1>4. pair'[h] = r /\ \A k \in Hook : k # h => pair'[k] = pair[k]
  BY <1>1, <1>3 DEF TypeInv, TypeOK
<1>5. /\ HookRun(r)' = HookRun(r) /\ IdsOf(r) \subseteq IdsOf(r)' /\ Place(r)' = Place(r)
  BY LastingSets
<1>6. r \in PairsOf(r)'
  BY <1>3 DEF PairsOf, Of
<1>7. RefsOf(r)'
  <2>1. PastId(r)' => PastId(r)
    BY <1>2, <1>3, <1>5 DEF PastId
  <2>2. PastId(r) => device[h] \in IdsOf(r)
    BY <1>1 DEF RefsOf
  <2> QED BY <1>2, <1>3, <1>4, <1>5, <1>6, <2>1, <2>2 DEF RefsOf
<1> QED BY <1>1, <1>2, <1>3, <1>4, <1>6, <1>7, OthersRefs DEF RefsKept

LEMMA AfterPairRefs ==
  ASSUME Known, RunsLast, RefsKept, NEW r \in 1 .. count, HavePair(r) \/ PairSaved(r), ~late'
  PROVE  RefsKept'
<1> DEFINE h == run[r].hook
<1>1. /\ TypeInv /\ r \in Run /\ h \in Hook /\ RefsOf(r) /\ RunKnown(r) /\ Current(r)
      /\ run[r].got \in RunOr /\ run[r].id \in RunOr /\ run[r].user \in User
      /\ Place(r) = Home[h] /\ Place(r) \in Browser
  BY RunPlaces, LateCurrent DEF Known, RunsKnown, RefsKept, HavePair, PairSaved, Place
<1>2. /\ run[r].step \in {"pair", "savePair"} /\ AfterPair(r, pair'[h])
      /\ pair'[h] \in PairsOf(r) \/ (~HookRun(r) /\ pair'[h] = 0 /\ pair[h] = 0)
      /\ pair'[h] \in RunOr /\ \A k \in Hook : k # h => pair'[k] = pair[k]
      /\ UNCHANGED <<device, table, count>>
  <2>1. CASE HavePair(r)
    <3>1. run[r].got \in PairsOf(r) /\ run[r].step = "pair"
      BY <1>1, <2>1 DEF HavePair, RunKnown
    <3>2. pair' = [pair EXCEPT ![h] = run[r].got] /\ AfterPair(r, run[r].got)
      BY <2>1 DEF HavePair
    <3>3. pair'[h] = run[r].got /\ \A k \in Hook : k # h => pair'[k] = pair[k]
      BY <1>1, <3>2 DEF TypeInv, TypeOK
    <3> QED BY <1>1, <2>1, <3>1, <3>2, <3>3 DEF HavePair
  <2>2. CASE PairSaved(r)
    <3>1. PastPair(r) /\ pair[h] \in RunOr
      BY <1>1, <2>2 DEF PairSaved, PastPair, TypeInv, TypeOK
    <3> QED BY <1>1, <2>2, <3>1 DEF PairSaved, RefsOf
  <2> QED BY <2>1, <2>2
<1>3. \E st \in {"register", "id"}, g \in RunOr :
        /\ Goes(r, st, g, run[r].id)
        /\ st = "register" <=> HookRun(r)
        /\ st = "register" => g = pair'[h]
  <2>1. storedId[Home[h]][run[r].user] \in RunOr
    BY <1>1 DEF TypeInv, TypeOK
  <2> QED BY <1>1, <1>2, <2>1 DEF AfterPair, HookRun
<1>4. PICK st \in {"register", "id"}, g \in RunOr :
        /\ run' \in [Run -> RunState] /\ \A s \in Run \ {r} : run'[s] = run[s]
        /\ run'[r].hook = h /\ run'[r].step = st /\ run'[r].got = g
        /\ st = "register" <=> HookRun(r)
        /\ st = "register" => g = pair'[h]
  BY <1>1, <1>3, GoesMoves DEF RunStep
<1>5. HookRun(r)' = HookRun(r) /\ IdsOf(r) \subseteq IdsOf(r)' /\ PairsOf(r) \subseteq PairsOf(r)'
  BY LastingSets
<1>6. RefsOf(r)'
  <2>1. PastId(r)' => PastId(r)
    BY <1>2, <1>4, <1>5 DEF PastId
  <2>2. PastId(r) => device[h] \in IdsOf(r)
    BY <1>1 DEF RefsOf
  <2> QED BY <1>2, <1>4, <1>5, <2>1, <2>2 DEF RefsOf
<1>7. pair'[h] \in PairsOf(r)' \union {pair[h]}
  BY <1>2, <1>5
<1> QED BY <1>1, <1>2, <1>4, <1>6, <1>7, OthersRefs DEF RefsKept

LEMMA RegisteredRefs ==
  ASSUME Known, RunsLast, RefsKept, NEW r \in 1 .. count, Registered(r) \/ InitFails(r)
  PROVE  RefsKept'
<1>1. /\ TypeInv /\ r \in Run /\ RefsOf(r) /\ RunKnown(r) /\ 0 \in RunOr /\ run[r].user \in User
      /\ idsMade \subseteq Run /\ 0 \notin Run /\ pairsMade \subseteq Run /\ table \in [User -> List]
  BY RunPlaces, EmptyTypes DEF Known, RunsKnown, RefsKept, TypeInv, TypeOK
<1>2. Registered(r) => /\ run[r].step = "register" /\ run[r].id \in IdsOf(r)
                       /\ run[r].got \in PairsOf(r) /\ run[r].id \in Run /\ run[r].got \in Run
  BY <1>1 DEF Registered, RunKnown, RefsOf, IdsOf, PairsOf, Of
<1>3. /\ run' \in [Run -> RunState] /\ \A s \in Run \ {r} : run'[s] = run[s]
      /\ run'[r].hook = run[r].hook /\ run'[r].user = run[r].user
      /\ run'[r].step \in {"done", "failed"} /\ (run'[r].step = "done" => Registered(r))
  BY <1>1, GoesMoves DEF Registered, InitFails, RunStep
<1>4. UNCHANGED <<pair, device, count>>
  BY DEF Registered, InitFails, localVars
<1>5. /\ \A u \in User, d \in Run : table[u][d] # 0 => table'[u][d] # 0
      /\ Registered(r) => table'[run[r].user][run[r].id] # 0
  <2>1. CASE Registered(r)
    <3>1. table' = [table EXCEPT ![run[r].user][run[r].id] = run[r].got] /\ run[r].got # 0
      BY <1>1, <1>2, <2>1 DEF Registered, Register
    <3> QED BY <1>1, <1>2, <3>1 DEF List
  <2>2. CASE InitFails(r) /\ ~Registered(r)
    BY <2>2 DEF InitFails
  <2> QED BY <2>1, <2>2
<1>6. RefsOf(r)'
  BY <1>1, <1>2, <1>3, <1>4, <1>5, LastingSets DEF RefsOf, PastPair, PastId
<1> QED BY <1>1, <1>3, <1>4, <1>5, <1>6, OthersRefs DEF RefsKept

\* A run begins, a client disconnects, or no run moves.
LEMMA OtherRefs ==
  ASSUME Known, RunsLast, RefsKept, NEW h \in Hook, NEW u \in User,
         \/ Start(h, u) \/ Disconnect(h)
         \/ UNCHANGED <<count, run, pair, device, table>>
  PROVE  RefsKept'
<1>1. /\ TypeOK /\ count \in Nat /\ UNCHANGED <<device, table>>
      /\ \A s \in 1 .. count : s \in Run /\ run[s].hook \in Hook
  BY RunPlaces, BoundAssumption DEF Known, TypeInv, TypeOK, RunOr, Start, Disconnect
<1>2. /\ \A s \in 1 .. count : run'[s] = run[s]
      /\ \A k \in Hook : pair'[k] = pair[k] \/ (k \in Client /\ pair'[k] = 0)
  <2>1. CASE Start(h, u)
    BY <1>1, <2>1 DEF Start, TypeOK
  <2>2. CASE Disconnect(h)
    BY <1>1, <2>2 DEF Disconnect, TypeOK
  <2>3. CASE UNCHANGED <<count, run, pair, device, table>>
    BY <2>3
  <2> QED BY <2>1, <2>2, <2>3
<1>3. ASSUME NEW s \in 1 .. count PROVE RefsOf(s)'
  <2>1. \/ pair'[run[s].hook] \in PairsOf(s)' \union {pair[run[s].hook]}
        \/ ~HookRun(s) /\ pair'[run[s].hook] = 0
    BY <1>1, <1>2 DEF HookRun, IdFirst
  <2> QED BY <1>1, <1>2, <2>1, RefsLast DEF RefsKept
<1>4. ASSUME NEW n \in 1 .. count', n \notin 1 .. count PROVE RefsOf(n)'
  <2>1. Start(h, u) /\ n = count + 1 /\ n \in Run
    <3>1. Start(h, u)
      BY <1>4 DEF Disconnect
    <3>2. count' = count + 1 /\ count < MaxRuns
      BY <3>1 DEF Start
    <3> QED BY <1>1, <1>4, <3>1, <3>2, BoundAssumption DEF Run
  <2>2. run' = [run EXCEPT ![n] =
          IF IdFirst(h)
          THEN [hook |-> h, user |-> u, step |-> "id", got |-> storedId[Home[h]][u], id |-> 0]
          ELSE [hook |-> h, user |-> u, step |-> "pair", got |-> storedPair[Home[h]][u], id |-> 0]]
    BY <2>1 DEF Start
  <2>3. run'[n].hook = h /\ run'[n].step = IF IdFirst(h) THEN "id" ELSE "pair"
    BY <1>1, <2>1, <2>2 DEF TypeOK
  <2>4. HookRun(n)' <=> IdFirst(h)
    BY <2>3 DEF HookRun, IdFirst
  <2>5. ~PastPair(n)' /\ ~PastId(n)'
    BY <2>3, <2>4 DEF PastPair, PastId
  <2> QED BY <2>3, <2>5 DEF RefsOf
<1> QED BY <1>3, <1>4 DEF RefsKept

\* The lists: at the server and cached.
LEMMA ListsLastKept ==
  ASSUME Known, RunsLast, ListsKept, UNCHANGED <<table, cache>>
  PROVE  ListsKept'
<1>1. \A u \in User : OwnList(table[u], u)' /\ \A h \in Hook : OwnList(cache[h][u], u)'
  BY ListsLast DEF ListsKept
<1> QED BY <1>1 DEF ListsKept

LEMMA RegisteredLists ==
  ASSUME Known, RunsLast, ListsKept, RefsKept, NEW r \in 1 .. count, Registered(r)
  PROVE  ListsKept'
<1> DEFINE w == run[r].user
           d == run[r].id
           k == run[r].got
<1>1. /\ TypeInv /\ r \in Run /\ RefsOf(r) /\ RunKnown(r) /\ w \in User
      /\ idsMade \subseteq Run /\ table \in [User -> List]
  BY RunPlaces DEF Known, RunsKnown, RefsKept, TypeInv, TypeOK
<1>2. /\ d \in idsMade /\ Place(d) = Place(r)
      /\ k \in pairsMade /\ Place(k) = Place(r) /\ run[k].user = w
  BY <1>1 DEF Registered, RunKnown, RefsOf, IdsOf, PairsOf, Of
<1>3. table' = [table EXCEPT ![w][d] = k] /\ UNCHANGED <<cache, idsMade, pairsMade>>
  BY DEF Registered, Register, keyVars
<1>4. \A u \in User : table'[u] = IF u = w THEN [table[u] EXCEPT ![d] = k] ELSE table[u]
  BY <1>1, <1>3
<1>5. OwnList(table[w], w) /\ table[w] \in [Run -> RunOr] /\ d \in Run
  BY <1>1, <1>2 DEF ListsKept, List
<1>6. OwnList([table[w] EXCEPT ![d] = k], w)
  BY <1>2, <1>5 DEF OwnList
<1>7. \A u \in User : OwnList(table'[u], u) /\ \A h \in Hook : OwnList(cache[h][u], u)
  BY <1>4, <1>6 DEF ListsKept
<1>8. PICK new, old : new = table' /\ old = cache'
  OBVIOUS
<1>9. \A u \in User : OwnList(new[u], u)' /\ \A h \in Hook : OwnList(old[h][u], u)'
  BY <1>3, <1>7, <1>8, ListsLast
<1> QED BY <1>8, <1>9 DEF ListsKept, OwnList

\* A list of a user is one that was registered or cached for that user.
LEMMA FetchedLists ==
  ASSUME ListsKept, NEW h \in Hook, NEW u \in User
  PROVE  OwnList(DeviceKeys(h, u), u)
BY DEF ListsKept, DeviceKeys, Registrations
LEMMA CachedLists ==
  ASSUME Known, RunsLast, ListsKept, NEW h \in Hook, NEW u \in User, UNCHANGED table,
         FetchKeys(h, u) \/ CacheExpires(h, u) \/ Disconnect(h)
  PROVE  ListsKept'
<1>1. cache \in [Hook -> [User -> List]]
  BY DEF Known, TypeInv, TypeOK
<1>2. \A v \in User : OwnList(Empty, v)
  BY EmptyTypes DEF OwnList
<1>3. \A k \in Hook, v \in User : OwnList(cache'[k][v], v)
  <2>1. CASE FetchKeys(h, u)
    BY <1>1, <2>1, FetchedLists DEF FetchKeys, ListsKept
  <2>2. CASE CacheExpires(h, u)
    BY <1>1, <1>2, <2>2 DEF CacheExpires, ListsKept
  <2>3. CASE Disconnect(h)
    BY <1>1, <1>2, <2>3 DEF Disconnect, ListsKept
  <2> QED BY <2>1, <2>2, <2>3
<1>4. PICK old, new : old = table' /\ new = cache'
  OBVIOUS
<1>5. \A v \in User : OwnList(old[v], v)' /\ \A k \in Hook : OwnList(new[k][v], v)'
  BY <1>3, <1>4, ListsLast DEF ListsKept
<1> QED BY <1>4, <1>5 DEF ListsKept, OwnList

\* One pair or id that was generated for a user in a browser is the only one.
LEMMA OnlyOne ==
  ASSUME NEW made, NEW b, NEW u, ~Twice(made, b, u), NEW p \in Of(made, b, u), NEW q \in Of(made, b, u)
  PROVE  p = q
BY DEF Twice, Of

\* A consumer that has settled holds what is stored, and the server has it.
LEMMA SettledKeys ==
  ASSUME Settling, NEW h \in Hook, Settled(h)
  PROVE  /\ pair[h] \in Of(pairsMade, Home[h], user[h])
         /\ pair[h] = storedPair[Home[h]][user[h]] /\ device[h] = storedId[Home[h]][user[h]]
         /\ table[user[h]][device[h]] = pair[h]
<1> DEFINE w == user[h]
           Ids == Of(idsMade, Home[h], w)
           Pairs == Of(pairsMade, Home[h], w)
<1>1. PICK r \in 1 .. count : run[r].hook = h /\ ~Superseded(r) /\ run[r].step = "done"
  BY DEF Settled
<1>2. /\ pair[h] # 0 /\ ~late /\ RefsKept /\ ListsKept /\ RefsOf(r) /\ ~Twice(idsMade, Home[h], w)
      /\ ~Twice(pairsMade, Home[h], w)
  BY <1>1 DEF Settled, Settling, KeysKept, RefsKept
<1>3. run[r].user = w /\ Place(r) = Home[h] /\ IdsOf(r) = Ids /\ PairsOf(r) = Pairs
  BY <1>1 DEF Settling, LatestUser, Place, IdsOf, PairsOf
<1>4. Current(r) /\ PastPair(r) /\ PastId(r)
  BY <1>1 DEF Superseded, Current, PastPair, PastId
<1>5. pair[h] \in Pairs /\ device[h] \in Ids
  BY <1>1, <1>2, <1>3, <1>4 DEF RefsOf
<1>6. /\ Home[h] \in Browser /\ w \in User /\ 0 \notin Run /\ Ids \subseteq Run
      /\ StoredOf(storedId, idsMade) /\ StoredOf(storedPair, pairsMade)
  BY EmptyTypes, ConsumerAssumption DEF Settling, Known, RunsKnown, TypeInv, TypeOK, Of
<1>7. storedPair[Home[h]][w] \in Pairs /\ storedId[Home[h]][w] \in Ids
  BY <1>5, <1>6 DEF StoredOf
<1>8. pair[h] = storedPair[Home[h]][w] /\ device[h] = storedId[Home[h]][w]
  BY <1>2, <1>5, <1>7, OnlyOne
<1>9. PICK d \in Ids : table[w][d] # 0
  BY <1>1, <1>2, <1>3 DEF RefsOf
<1>10. d = device[h]
  BY <1>2, <1>5, OnlyOne
<1>11. table[w][d] \in Pairs
  <2>1. OwnList(table[w], w) /\ d \in Run
    BY <1>2, <1>6 DEF ListsKept
  <2> QED BY <1>9, <2>1 DEF OwnList, Of
<1>12. table[w][d] = pair[h]
  BY <1>2, <1>5, <1>11, OnlyOne
<1> QED BY <1>5, <1>8, <1>10, <1>12

\* A file or form that is kept stays so.
LEMMA PaperLasts ==
  ASSUME Known, RunsLast, NEW v \in Paper, PaperKept(v)
  PROVE  PaperKept(v)'
<1>1. idsMade \subseteq 1 .. count /\ pairsMade \subseteq 1 .. count
  BY DEF Known, RunsKnown
<1>2. \A t \in 1 .. count : Place(t)' = Place(t) /\ run'[t].user = run[t].user
  BY DEF RunsLast, Place
<1>3. v.step # "none" => OwnList(v.keys, v.to)'
  BY ListsLast DEF PaperKept
<1>4. v.step \in {"sealed", "reading", "opened", "refused"} /\ v.sound =>
        v.pair \in pairsMade' /\ run'[v.pair].user = v.from
  BY <1>1, <1>2 DEF PaperKept, RunsLast
<1>5. v.step \in {"reading", "opened", "refused"} =>
        OwnList(v.senders, v.claim)' /\ v.at # 0 /\ v.keys[v.at] # 0 /\ Place(v.at)' = Home[v.reader]
  <2> SUFFICES ASSUME v.step \in {"reading", "opened", "refused"}
               PROVE  OwnList(v.senders, v.claim)' /\ v.at # 0 /\ v.keys[v.at] # 0
                      /\ Place(v.at)' = Home[v.reader]
    OBVIOUS
  <2>1. v.at \in Run /\ v.at # 0 /\ v.keys[v.at] # 0 /\ OwnList(v.keys, v.to)
    BY BoundAssumption DEF PaperKept, Paper, Run, RunOr
  <2>2. v.at \in idsMade
    BY <2>1 DEF OwnList
  <2>3. OwnList(v.senders, v.claim)'
    BY ListsLast DEF PaperKept
  <2> QED BY <1>1, <1>2, <2>1, <2>2, <2>3 DEF PaperKept
<1> QED BY <1>3, <1>4, <1>5 DEF PaperKept
LEMMA PapersLast ==
  ASSUME Known, RunsLast, NEW e \in Envelope, \A f \in Envelope : PaperKept(envelope[f]),
         NEW w \in Paper, PaperKept(w), envelope' = [envelope EXCEPT ![e] = w]
  PROVE  \A f \in Envelope : PaperKept(envelope[f])'
<1>1. envelope \in [Envelope -> Paper]
  BY DEF Known, TypeInv, TypeOK
<1>2. PaperKept(w)'
  BY PaperLasts
<1>3. ASSUME NEW f \in Envelope PROVE PaperKept(envelope[f])'
  <2>1. PICK v \in Paper : v = envelope[f]
    BY <1>1
  <2>2. PaperKept(v)'
    BY <2>1, PaperLasts
  <2>3. envelope'[f] = IF f = e THEN w ELSE v
    BY <1>1, <2>1
  <2>4. CASE f = e
    BY <1>2, <2>3, <2>4 DEF PaperKept
  <2>5. CASE f # e
    BY <2>2, <2>3, <2>5 DEF PaperKept
  <2> QED BY <2>4, <2>5
<1> QED BY <1>3

\* What an envelope opens for; EnvelopesOpen says it of each.
PaperOpens(v) ==
  v.sound => /\ v.step = "refused" => v.claim # v.from \/ \A d \in Run : v.senders[d] # v.pair
             /\ v.step = "opened" => v.claim = v.from

\* A consumer encrypts.
LEMMA EncryptPaper ==
  ASSUME Known, ListsKept, NEW h \in Hook, NEW u \in User, NEW e \in Envelope, Encrypt(e, h, u)
  PROVE  \E w \in Paper : envelope' = [envelope EXCEPT ![e] = w] /\ PaperKept(w) /\ PaperOpens(w)
<1> DEFINE w == [NoPaper EXCEPT !.step = "fetching", !.by = h, !.from = user[h], !.to = u,
                                !.keys = DeviceKeys(h, u)]
<1>1. user[h] \in User /\ DeviceKeys(h, u) \in List /\ OwnList(DeviceKeys(h, u), u)
  BY ListTypes, FetchedLists DEF Known, TypeInv, TypeOK
<1>2. w \in Paper /\ w.step = "fetching" /\ w.keys = DeviceKeys(h, u) /\ w.to = u /\ w.sound = FALSE
  BY <1>1, PaperTypes DEF Paper, EnvelopeStep
<1>3. envelope' = [envelope EXCEPT ![e] = w]
  BY DEF Encrypt
<1> HIDE DEF w
<1>4. PaperKept(w) /\ PaperOpens(w)
  BY <1>1, <1>2 DEF PaperKept, PaperOpens
<1> QED BY <1>2, <1>3, <1>4
LEMMA SealedPaper ==
  ASSUME Settling, NEW e \in Envelope, Sealed(e),
         PaperKept(envelope[e])
  PROVE  \E w \in Paper : envelope' = [envelope EXCEPT ![e] = w] /\ PaperKept(w) /\ PaperOpens(w)
<1> DEFINE v == envelope[e]
           h == v.by
           st == IF pair[h] # 0 THEN "sealed" ELSE "none"
           sound == Settled(h) /\ user[h] = v.from
           w == [v EXCEPT !.step = st, !.pair = pair[h], !.sound = sound]
<1>1. v \in Paper /\ h \in Hook /\ pair[h] \in RunOr /\ v.step = "fetching"
  BY DEF Settling, Known, TypeInv, TypeOK, Paper, Sealed
<1>2. sound \in BOOLEAN
  BY DEF Settled
<1>3. w \in Paper /\ w.step = st /\ w.pair = pair[h] /\ w.sound = sound /\ w.keys = v.keys /\ w.to = v.to
      /\ w.from = v.from
  BY <1>1, <1>2 DEF Paper, EnvelopeStep
<1>4. envelope' = [envelope EXCEPT ![e] = w]
  BY <1>1 DEF Sealed, Settling, Known, TypeInv, TypeOK, Paper
<1>5. sound => pair[h] \in pairsMade /\ run[pair[h]].user = v.from
  BY <1>1, SettledKeys DEF Of
<1>6. OwnList(v.keys, v.to)
  BY <1>1 DEF PaperKept
<1> HIDE DEF w, sound
<1>7. PaperKept(w) /\ PaperOpens(w)
  BY <1>3, <1>5, <1>6 DEF PaperKept, PaperOpens
<1> QED BY <1>3, <1>4, <1>7
LEMMA DecryptPaper ==
  ASSUME Known, ListsKept, NEW h \in Hook, NEW u \in User, NEW e \in Envelope, Decrypt(e, h, u),
         PaperKept(envelope[e])
  PROVE  \E w \in Paper : envelope' = [envelope EXCEPT ![e] = w] /\ PaperKept(w) /\ PaperOpens(w)
<1> DEFINE v == envelope[e]
           w == [v EXCEPT !.step = "reading", !.reader = h, !.claim = u, !.at = device[h],
                          !.senders = DeviceKeys(h, u)]
<1>1. /\ v \in Paper /\ device[h] \in RunOr /\ DeviceKeys(h, u) \in List /\ OwnList(DeviceKeys(h, u), u)
      /\ v.step = "sealed" /\ device[h] # 0 /\ v.keys[device[h]] # 0
  BY ListTypes, FetchedLists DEF Known, TypeInv, TypeOK, Decrypt
<1>2. w \in Paper /\ w.step = "reading" /\ w.pair = v.pair /\ w.sound = v.sound /\ w.keys = v.keys
      /\ w.to = v.to /\ w.from = v.from /\ w.at = device[h] /\ w.reader = h /\ w.claim = u
      /\ w.senders = DeviceKeys(h, u)
  BY <1>1 DEF Paper, EnvelopeStep
<1>3. envelope' = [envelope EXCEPT ![e] = w]
  BY <1>1 DEF Decrypt, Known, TypeInv, TypeOK, Paper
<1>4. Place(device[h]) = Home[h]
  BY <1>1 DEF Known, RunsKnown
<1> HIDE DEF w
<1>5. PaperKept(w) /\ PaperOpens(w)
  BY <1>1, <1>2, <1>4 DEF PaperKept, PaperOpens
<1> QED BY <1>2, <1>3, <1>5

\* The reader has settled: the entry of its device is for its pair, the only
\* one its user has in its browser, and the shared key is that of two pairs.
LEMMA OpensFor ==
  ASSUME Settling, NEW v \in Paper, PaperKept(v), v.step = "reading", v.sound,
         Settled(v.reader), user[v.reader] = v.to
  PROVE  /\ pair[v.reader] # 0
         /\ (\E d \in Run : v.senders[d] = v.pair) => Opens(v, pair[v.reader])
         /\ Opens(v, pair[v.reader]) => \E d \in Run : v.senders[d] = v.pair
         /\ \A d \in Run : v.senders[d] = v.pair => v.claim = v.from
<1> DEFINE k == pair[v.reader]
           a == v.keys[v.at]
<1>1. /\ ~Twice(pairsMade, Home[v.reader], v.to) /\ pairsMade \subseteq Run /\ 0 \notin Run
      /\ v.reader \in Hook /\ v.at \in Run
  BY EmptyTypes, BoundAssumption DEF Settled, Settling, Known, TypeInv, TypeOK, Paper, PaperKept, Run, RunOr
<1>2. k \in Of(pairsMade, Home[v.reader], v.to)
  BY <1>1, SettledKeys
<1>3. a \in Of(pairsMade, Home[v.reader], v.to)
  BY <1>1 DEF PaperKept, OwnList, Of
<1>4. a = k
  BY <1>1, <1>2, <1>3, OnlyOne
<1>5. v.pair \in pairsMade /\ run[v.pair].user = v.from /\ OwnList(v.senders, v.claim)
  BY DEF PaperKept
<1>6. v.pair # 0 /\ k # 0
  BY <1>1, <1>2, <1>5 DEF Of
<1>7. \A p : {p, k} = {a, v.pair} <=> p = v.pair
  BY <1>4
<1>8. /\ (\E d \in Run : v.senders[d] = v.pair) => Opens(v, k)
      /\ Opens(v, k) => \E d \in Run : v.senders[d] = v.pair
  BY <1>6, <1>7 DEF Opens, SharedKey
<1>9. \A d \in Run : v.senders[d] = v.pair => v.claim = v.from
  BY <1>5, <1>6 DEF OwnList
<1> QED BY <1>6, <1>8, <1>9
LEMMA OpenedPaper ==
  ASSUME Settling, NEW e \in Envelope, Opened(e), PaperKept(envelope[e])
  PROVE  \E w \in Paper : envelope' = [envelope EXCEPT ![e] = w] /\ PaperKept(w) /\ PaperOpens(w)
<1> DEFINE v == envelope[e]
           k == pair[v.reader]
           st == IF k # 0 /\ Opens(v, k) THEN "opened" ELSE "refused"
           sound == v.sound /\ Settled(v.reader) /\ user[v.reader] = v.to
           w == [v EXCEPT !.step = st, !.sound = sound]
<1>1. v \in Paper /\ v.step = "reading"
  BY DEF Settling, Known, TypeInv, TypeOK, Opened
<1>2. sound \in BOOLEAN
  BY <1>1 DEF Settled, Paper
<1>3. /\ w \in Paper /\ w.step = st /\ w.sound = sound /\ w.pair = v.pair /\ w.keys = v.keys
      /\ w.to = v.to /\ w.from = v.from /\ w.at = v.at /\ w.reader = v.reader /\ w.claim = v.claim
      /\ w.senders = v.senders
  BY <1>1, <1>2 DEF Paper, EnvelopeStep
<1>4. envelope' = [envelope EXCEPT ![e] = w]
  BY <1>1 DEF Opened, Settling, Known, TypeInv, TypeOK, Paper
<1>5. sound => /\ st = "refused" => \A d \in Run : v.senders[d] # v.pair
               /\ st = "opened" => v.claim = v.from
  BY <1>1, OpensFor
<1> HIDE DEF w
<1>6. PaperKept(w)
  BY <1>1, <1>3 DEF PaperKept
<1>7. PaperOpens(w)
  <2> HIDE DEF sound, st
  <2> QED BY <1>3, <1>5 DEF PaperOpens
<1> QED BY <1>3, <1>4, <1>6, <1>7
LEMMA BlankPaper ==
  ASSUME Known, NEW e \in Envelope, OpenedBlank(e)
  PROVE  \E w \in Paper : envelope' = [envelope EXCEPT ![e] = w] /\ PaperKept(w) /\ PaperOpens(w)
<1> DEFINE w == [NoPaper EXCEPT !.step = "blank"]
<1>1. w \in Paper /\ w.step = "blank" /\ w.sound = FALSE /\ w.keys = Empty /\ w.to \in User
  BY PaperTypes DEF Paper, EnvelopeStep, NoPaper
<1>2. envelope' = [envelope EXCEPT ![e] = w]
  BY DEF OpenedBlank
<1>3. OwnList(Empty, w.to)
  BY <1>1, EmptyTypes DEF OwnList
<1> HIDE DEF w
<1>4. PaperKept(w) /\ PaperOpens(w)
  BY <1>1, <1>3 DEF PaperKept, PaperOpens
<1> QED BY <1>1, <1>2, <1>4

\* Each kind of step, as long as no run is late.
LEMMA SettlingSteps ==
  ASSUME Settling, RunsLast, Known', LatestUser',
         ~late' => RefsKept' /\ ListsKept' /\ \A e \in Envelope : PaperKept(envelope[e])'
  PROVE  Settling'
BY DEF Settling, KeysKept
LEMMA NotLate ==
  ASSUME Settling, RunsLast, ~late'
  PROVE  ~late /\ RefsKept /\ ListsKept /\ \A e \in Envelope : PaperKept(envelope[e])
BY DEF Settling, KeysKept, RunsLast
LEMMA PapersStay ==
  ASSUME Known, RunsLast, UNCHANGED envelope, \A e \in Envelope : PaperKept(envelope[e])
  PROVE  \A e \in Envelope : PaperKept(envelope[e])'
<1> SUFFICES ASSUME NEW e \in Envelope PROVE PaperKept(envelope[e])'
  OBVIOUS
<1>1. PICK v \in Paper : v = envelope[e]
  BY DEF Known, TypeInv, TypeOK
<1>2. PaperKept(v)'
  BY <1>1, PaperLasts
<1> QED BY <1>1, <1>2 DEF PaperKept

LEMMA InitStepSettling ==
  ASSUME Settling, [Next]_vars, NEW r \in 1 .. count, InitStep(r)
  PROVE  Settling' /\ UNCHANGED envelope
<1>1. Known /\ RunsLast /\ Known' /\ LatestUser'
  BY NextKnown, StepsLast, LatestUserStays DEF Settling
<1>2. UNCHANGED envelope /\ (UNCHANGED <<table, cache>> \/ Registered(r))
  BY DEF InitStep, MakeId, HaveId, MakePair, HavePair, PairSaved, Registered, InitFails
<1>3. ASSUME ~late' PROVE RefsKept' /\ ListsKept' /\ \A e \in Envelope : PaperKept(envelope[e])'
  <2>1. RefsKept /\ ListsKept /\ \A e \in Envelope : PaperKept(envelope[e])
    BY <1>1, <1>3, NotLate
  <2>2. RefsKept'
    BY <1>1, <1>3, <2>1, MakeIdRefs, HaveIdRefs, MakePairRefs, AfterPairRefs, RegisteredRefs DEF InitStep
  <2>3. ListsKept'
    BY <1>1, <1>2, <2>1, ListsLastKept, RegisteredLists
  <2> QED BY <1>1, <1>2, <2>1, <2>2, <2>3, PapersStay
<1> QED BY <1>1, <1>2, <1>3, SettlingSteps
LEMMA OtherSettling ==
  ASSUME Settling, [Next]_vars, NEW h \in Hook, NEW u \in User,
         Start(h, u) \/ Disconnect(h) \/ CacheExpires(h, u) \/ UNCHANGED vars
  PROVE  Settling' /\ UNCHANGED envelope
<1>1. Known /\ RunsLast /\ Known' /\ LatestUser'
  BY NextKnown, StepsLast, LatestUserStays DEF Settling
<1>2. /\ UNCHANGED <<envelope, table>>
      /\ Disconnect(h) \/ CacheExpires(h, u) \/ UNCHANGED cache
      /\ Start(h, u) \/ Disconnect(h) \/ UNCHANGED <<count, run, pair, device, table>>
  BY DEF Start, Disconnect, CacheExpires, vars, localVars, keyVars
<1>3. ASSUME ~late' PROVE RefsKept' /\ ListsKept' /\ \A e \in Envelope : PaperKept(envelope[e])'
  <2>1. RefsKept /\ ListsKept /\ \A e \in Envelope : PaperKept(envelope[e])
    BY <1>1, <1>3, NotLate
  <2>2. ListsKept'
    BY <1>1, <1>2, <2>1, ListsLastKept, CachedLists
  <2> QED BY <1>1, <1>2, <2>1, <2>2, OtherRefs, PapersStay
<1> QED BY <1>1, <1>2, <1>3, SettlingSteps
LEMMA PaperSettling ==
  ASSUME Settling, [Next]_vars, NEW h \in Hook, NEW u \in User, NEW e \in Envelope,
         Encrypt(e, h, u) \/ Decrypt(e, h, u) \/ Sealed(e) \/ Opened(e) \/ OpenedBlank(e)
  PROVE  Settling'
<1>1. Known /\ RunsLast /\ Known' /\ LatestUser'
  BY NextKnown, StepsLast, LatestUserStays DEF Settling
<1>2. /\ UNCHANGED <<count, run, pair, device, table>>
      /\ UNCHANGED cache \/ FetchKeys(h, u)
  BY DEF Encrypt, Decrypt, Sealed, Opened, OpenedBlank, localVars, keyVars
<1>3. ASSUME ~late' PROVE RefsKept' /\ ListsKept' /\ \A f \in Envelope : PaperKept(envelope[f])'
  <2>1. RefsKept /\ ListsKept /\ \A f \in Envelope : PaperKept(envelope[f])
    BY <1>1, <1>3, NotLate
  <2>2. ListsKept'
    BY <1>1, <1>2, <2>1, ListsLastKept, CachedLists
  <2>3. \E w \in Paper : envelope' = [envelope EXCEPT ![e] = w] /\ PaperKept(w)
    BY <1>1, <2>1, EncryptPaper, DecryptPaper, SealedPaper, OpenedPaper, BlankPaper
  <2> QED BY <1>1, <1>2, <2>1, <2>2, <2>3, OtherRefs, PapersLast
<1> QED BY <1>1, <1>3, SettlingSteps

\* EnvelopesOpen, when keys are late too: such files and forms are not sound.
LEMMA PaperStillOpens ==
  ASSUME Settling, NEW h \in Hook, NEW u \in User, NEW e \in Envelope,
         Encrypt(e, h, u) \/ Decrypt(e, h, u) \/ Sealed(e) \/ Opened(e) \/ OpenedBlank(e),
         \A f \in Envelope : PaperOpens(envelope[f])
  PROVE  \A f \in Envelope : PaperOpens(envelope'[f])
<1>1. /\ Known /\ envelope \in [Envelope -> Paper]
      /\ \A f \in Envelope : f # e => envelope'[f] = envelope[f]
  BY DEF Settling, Known, TypeInv, TypeOK, Encrypt, Decrypt, Sealed, Opened, OpenedBlank
<1>2. PaperOpens(envelope'[e])
  <2>1. CASE ~late
    <3>1. ListsKept /\ PaperKept(envelope[e])
      BY <2>1 DEF Settling, KeysKept
    <3>2. \E w \in Paper : envelope' = [envelope EXCEPT ![e] = w] /\ PaperOpens(w)
      BY <1>1, <3>1, EncryptPaper, DecryptPaper, SealedPaper, OpenedPaper, BlankPaper
    <3> QED BY <1>1, <3>2
  <2>2. CASE late /\ Encrypt(e, h, u)
    BY <1>1, <2>2, PaperTypes DEF Encrypt, PaperOpens, NoPaper
  <2>3. CASE late /\ Decrypt(e, h, u)
    BY <1>1, <2>3 DEF Decrypt, PaperOpens, Paper
  <2>4. CASE late /\ Sealed(e)
    BY <1>1, <2>4 DEF Sealed, Settled, PaperOpens, Paper
  <2>5. CASE late /\ Opened(e)
    BY <1>1, <2>5 DEF Opened, Settled, PaperOpens, Paper
  <2>6. CASE OpenedBlank(e)
    BY <1>1, <2>6, BlankPaper
  <2> QED BY <2>1, <2>2, <2>3, <2>4, <2>5, <2>6
<1> QED BY <1>1, <1>2

\* The inductive invariant of the two theorems below.
Kept == Settling /\ \A e \in Envelope : PaperOpens(envelope[e])
LEMMA InitKept == Init => Kept
<1> SUFFICES ASSUME Init PROVE Kept
  OBVIOUS
<1>1. Known
  BY InitKnown
<1>2. LatestUser /\ RefsKept
  BY DEF Init, LatestUser, RefsKept
<1>3. \A u \in User : OwnList(Empty, u)
  BY EmptyTypes DEF OwnList
<1>4. ListsKept
  BY <1>3 DEF Init, ListsKept
<1>5. \A e \in Envelope : PaperKept(envelope[e]) /\ PaperOpens(envelope[e])
  BY PaperTypes DEF Init, PaperKept, PaperOpens
<1> QED BY <1>1, <1>2, <1>4, <1>5 DEF Kept, Settling, KeysKept
LEMMA NextKept == Kept /\ [Next]_vars => Kept'
<1> SUFFICES ASSUME Kept, [Next]_vars PROVE Kept'
  OBVIOUS
<1>1. Settling /\ \A e \in Envelope : PaperOpens(envelope[e])
  BY DEF Kept
<1>2. UNCHANGED envelope /\ Settling' => Kept'
  BY <1>1 DEF Kept, PaperOpens
<1>3. ASSUME NEW h \in Hook, NEW u \in User,
             Start(h, u) \/ Disconnect(h) \/ CacheExpires(h, u) \/ UNCHANGED vars
      PROVE  Kept'
  BY <1>1, <1>2, <1>3, OtherSettling
<1>4. ASSUME NEW r \in 1 .. count, InitStep(r) PROVE Kept'
  BY <1>1, <1>2, <1>4, InitStepSettling
<1>5. ASSUME NEW h \in Hook, NEW u \in User, NEW e \in Envelope,
             Encrypt(e, h, u) \/ Decrypt(e, h, u) \/ Sealed(e) \/ Opened(e) \/ OpenedBlank(e)
      PROVE  Kept'
  BY <1>1, <1>5, PaperSettling, PaperStillOpens DEF Kept, PaperOpens
<1>6. \E h \in Hook, u \in User : TRUE
  BY ConsumerAssumption
<1> QED BY <1>3, <1>4, <1>5, <1>6 DEF Next

\* Consumers of one browser and user that have settled hold the key pair and id
\* that are stored there, and the server has that pair for that device, through
\* any number of mounts, switches of users and overlapping runs of init.
THEOREM IdentityIsOne == Spec => []OneIdentity
<1>1. Kept => OneIdentity
  BY SettledKeys DEF Kept, OneIdentity
<1> QED BY <1>1, InitKept, NextKept, PTL DEF Spec

\* What a settled consumer encrypted opens for a settled one of the recipient
\* that has the sender's pair to try, and for the one user who encrypted it.
THEOREM EnvelopesOpenForTheirUsers == Spec => []EnvelopesOpen
<1>1. Kept => EnvelopesOpen
  BY DEF Kept, PaperOpens, EnvelopesOpen
<1> QED BY <1>1, InitKept, NextKept, PTL DEF Spec
=============================================================================
