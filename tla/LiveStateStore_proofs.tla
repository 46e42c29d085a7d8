------------------------ MODULE LiveStateStore_proofs ------------------------
(***************************************************************************)
(* Proofs about LiveStateStore: type correctness, and, where there is one  *)
(* store (Redis with at most one save under way on each connection, or the *)
(* map of the one process there is), that it implements VersionedState,    *)
(* that a publish replaces the state it was merged with, and that nobody   *)
(* takes a LIVE state from the telemetry runtime that owns it.  The        *)
(* argument is that of optimistic locking: between a GET under a WATCH that *)
(* is still clean and the EXEC, the key has not been written               *)
(* (WatchProtects), and within an era of the match a version names one     *)
(* state (ReadsStand).                                                     *)
(***************************************************************************)
EXTENDS LiveStateStore, TLAPS

-----------------------------------------------------------------------------
(* The assumption and the invariants.                                      *)

\* No two publishes share a connection.
OneSavePerConnection == \A v, w \in Writer : Home[v] = Home[w] => v = w

\* All publishes run in one process.
OneProcess == \A v, w \in Writer : Home[v] = Home[w]

\* There is one store.
OneStore == IF UseRedis THEN OneSavePerConnection ELSE OneProcess

\* The inductive invariant behind the refinement.  A save between WATCH and
\* EXEC watches the key; while the watch is clean the key is what GET returned,
\* and a save that reached EXEC found the version it expects.
WatchProtects ==
  \A w \in Writer :
    LET r == pub[w]
        c == Home[w]
    IN
    /\ r.pc \in {"get", "unwatch", "exec"} => watch[c] # "none"
    /\ r.pc = "exec" => ~Mismatch(r, r.seen)
    /\ r.pc = "exec" /\ watch[c] = "clean" => r.seen = redis

\* What w read and is about to save over is still there, or has been replaced
\* at a higher version, unless the match was evicted; and w brings telemetry if
\* telemetry owned the LIVE state it read.
Stands(w) ==
  LET r == pub[w] IN
  r.pc \in {"watch", "get", "unwatch", "exec"} /\ r.exp # NoVersion /\ r.era = evictions =>
    /\ TheState # Absent
    /\ r.exp <= TheState.ver
    /\ r.exp = TheState.ver /\ TheState.tel /\ r.live => r.tel

ReadsStand == \A w \in Writer : pub[w].era <= evictions /\ Stands(w)

-----------------------------------------------------------------------------
(* Types.                                                                  *)

\* The homes of a deployment are processes.
LEMMA HomeTyped ==
  ASSUME deployment \in Deployments
  PROVE  Home \in [Writer -> Process] /\ UseRedis \in BOOLEAN
BY DeploymentsAssumption DEF Deployment, Home, UseRedis

\* The deployment stays.
LEMMA HomeStays == [Next]_vars => deployment' = deployment /\ Home' = Home /\ UseRedis' = UseRedis
BY DEF Next, vars, Home, UseRedis

\* What a save writes is a state with a positive version.
LEMMA NextStateIsCell ==
  ASSUME NEW r \in Publish, NEW s \in Cell
  PROVE  NextState(r, s) \in Cell /\ NextState(r, s).ver > 0
BY DEF NextState, Publish, Cell, State, Absent, NoVersion

\* The idle record is a publish, and the absent state a cell.
LEMMA IdleAbsentTypes == Idle \in Publish /\ Absent \in Cell
BY AttemptsAssumption DEF Publish, Idle, Kinds, Cell, State, Absent, NoVersion

\* A publish that met a conflict goes on within its rounds.
LEMMA AfterConflictIsPublish ==
  ASSUME NEW r \in Publish
  PROVE  AfterConflict(r) \in Publish
<1>1. CASE r.kind = "patch" \/ r.round = Attempts
  BY <1>1, IdleAbsentTypes DEF AfterConflict
<1>2. CASE ~(r.kind = "patch" \/ r.round = Attempts)
  <2>1. r.round \in 1 .. Attempts
    BY DEF Publish
  <2>2. r.round + 1 \in 1 .. Attempts
    BY <1>2, <2>1, AttemptsAssumption
  <2>3. [r EXCEPT !.pc = "read", !.round = @ + 1] \in Publish
    BY <2>2 DEF Publish
  <2> QED BY <1>2, <2>3 DEF AfterConflict
<1> QED BY <1>1, <1>2

\* Every step keeps the types.
LEMMA TypeStep == TypeOK /\ [Next]_vars => TypeOK'
<1> SUFFICES ASSUME TypeOK, [Next]_vars PROVE TypeOK'
  OBVIOUS
<1> USE StoreBoundsAssumption
<1>d. deployment' = deployment
  BY HomeStays
<1>h. Home \in [Writer -> Process]
  BY HomeTyped DEF TypeOK
<1>c. \A w \in Writer : Stored(Home[w]) \in Cell /\ Home[w] \in Process
  BY <1>h DEF TypeOK, Stored
<1>t. Touch \in [Process -> {"none", "clean", "dirty"}]
  BY DEF TypeOK, Touch
<1>1. ASSUME NEW w \in Writer, NEW kind \in Kinds, NEW live \in BOOLEAN, Begin(w, kind, live)
      PROVE  TypeOK'
  <2>1. [Idle EXCEPT !.pc = "read", !.kind = kind, !.live = live] \in Publish
    BY IdleAbsentTypes DEF Publish
  <2> QED BY <1>d, <1>1, <2>1 DEF Begin, To, TypeOK, cells
<1>2. ASSUME NEW w \in Writer, NEW ripe \in BOOLEAN, Read(w, ripe) PROVE TypeOK'
  <2> DEFINE r == pub[w]
             current == Stored(Home[w])
             e == IF current = Absent THEN NoVersion ELSE current.ver
             next == [r EXCEPT !.pc = "watch", !.era = evictions, !.try = 1,
                               !.exp = e,
                               !.init = MergedInit(r, current) \/ ripe,
                               !.tel = MergedTel(r, current)]
  <2>1. r \in Publish /\ evictions \in Nat
    BY DEF TypeOK
  <2>2. e \in Nat \cup {NoVersion}
    BY <1>c DEF Cell, State
  <2>3. MergedInit(r, current) \in BOOLEAN /\ MergedTel(r, current) \in BOOLEAN
    BY <1>c, <2>1 DEF MergedInit, MergedTel, Cell, State, Publish, Kinds
  <2>4. 1 \in 1 .. Attempts
    BY AttemptsAssumption
  <2> HIDE DEF e, current
  <2>5. next \in Publish
    BY <2>1, <2>2, <2>3, <2>4 DEF Publish
  <2>6. pub' = [pub EXCEPT ![w] = Idle] \/ pub' = [pub EXCEPT ![w] = next]
    BY <1>2 DEF Read, To, e, current
  <2> QED BY <1>d, <1>2, <2>5, <2>6, IdleAbsentTypes DEF Read, TypeOK, cells
<1>3. ASSUME NEW w \in Writer, SaveInMemory(w) PROVE TypeOK'
  <2>1. pub[w] \in Publish /\ memory[Home[w]] \in Cell
    BY <1>h DEF TypeOK
  <2>2. /\ NextState(pub[w], memory[Home[w]]) \in Cell
        /\ AfterConflict(pub[w]) \in Publish
    BY <2>1, NextStateIsCell, AfterConflictIsPublish
  <2> QED BY <1>d, <1>3, <2>2, IdleAbsentTypes DEF SaveInMemory, To, TypeOK
<1>4. ASSUME NEW w \in Writer, Watch(w) PROVE TypeOK'
  <2>1. [pub[w] EXCEPT !.pc = "get"] \in Publish
    BY DEF TypeOK, Publish
  <2> QED BY <1>d, <1>4, <2>1 DEF Watch, To, TypeOK, cells
<1>5. ASSUME NEW w \in Writer, Get(w) PROVE TypeOK'
  <2>1. \A p \in {"unwatch", "exec"} : [pub[w] EXCEPT !.seen = redis, !.pc = p] \in Publish
    BY DEF TypeOK, Publish
  <2> QED BY <1>d, <1>5, <2>1 DEF Get, To, TypeOK, cells
<1>6. ASSUME NEW w \in Writer, Unwatch(w) PROVE TypeOK'
  <2>1. AfterConflict(pub[w]) \in Publish
    BY AfterConflictIsPublish DEF TypeOK
  <2> QED BY <1>d, <1>6, <2>1 DEF Unwatch, To, TypeOK, cells
<1>7. ASSUME NEW w \in Writer, Exec(w) PROVE TypeOK'
  <2>1. pub[w] \in Publish /\ pub[w].seen \in Cell
    BY DEF TypeOK, Publish
  <2>2. /\ NextState(pub[w], pub[w].seen) \in Cell
        /\ AfterConflict(pub[w]) \in Publish
    BY <2>1, NextStateIsCell, AfterConflictIsPublish
  <2>3. pub[w].try < Attempts => [pub[w] EXCEPT !.pc = "watch", !.try = @ + 1] \in Publish
    <3>1. pub[w].try \in 1 .. Attempts
      BY <2>1 DEF Publish
    <3>2. pub[w].try < Attempts => pub[w].try + 1 \in 1 .. Attempts
      BY <3>1, AttemptsAssumption
    <3> QED BY <2>1, <3>2 DEF Publish
  <2>4. CASE watch[Home[w]] = "dirty"
    BY <1>d, <1>7, <2>2, <2>3, <2>4 DEF Exec, To, TypeOK
  <2>5. CASE watch[Home[w]] # "dirty"
    BY <1>d, <1>7, <2>2, <2>5, <1>t, IdleAbsentTypes DEF Exec, To, TypeOK
  <2> QED BY <2>4, <2>5
<1>8. ASSUME NEW c \in Process, Evict(c) PROVE TypeOK'
  BY <1>d, <1>8, <1>t, IdleAbsentTypes DEF Evict, TypeOK
<1>9. CASE UNCHANGED vars
  BY <1>d, <1>9 DEF vars, cells, TypeOK
<1> QED
  BY <1>1, <1>2, <1>3, <1>4, <1>5, <1>6, <1>7, <1>8, <1>9, <1>h DEF Next, Step

\* The store, its watches and its publishes have their types, whatever the
\* deployment.
THEOREM TypeCorrect == Spec => []TypeOK
<1>1. Init => TypeOK
  BY IdleAbsentTypes, StoreBoundsAssumption DEF Init, TypeOK
<1> QED BY <1>1, TypeStep, PTL DEF Spec

-----------------------------------------------------------------------------
(* The watch protects the state that GET returned.                         *)

\* Every step keeps WatchProtects if no two publishes share a connection: only
\* the publish itself takes its watch away, and whoever writes the key makes
\* every clean watch dirty.
LEMMA WatchStep ==
  ASSUME OneSavePerConnection, UseRedis, TypeOK, WatchProtects, [Next]_vars
  PROVE  WatchProtects'
<1>d. Home' = Home
  BY HomeStays
<1>h. \A w \in Writer : Home[w] \in Process /\ pub[w] \in Publish
  BY HomeTyped DEF TypeOK
<1>t. /\ Touch \in [Process -> {"none", "clean", "dirty"}]
      /\ \A c \in Process : Touch[c] # "clean" /\ (Touch[c] = "none" <=> watch[c] = "none")
  BY DEF TypeOK, Touch
<1>w. watch \in [Process -> {"none", "clean", "dirty"}] /\ pub \in [Writer -> Publish]
  BY DEF TypeOK
<1>i. Idle.pc = "idle" /\ \A r \in Publish : AfterConflict(r).pc \in {"idle", "read"}
  BY DEF Idle, AfterConflict, Publish
<1>1. ASSUME NEW w \in Writer, NEW kind \in Kinds, NEW live \in BOOLEAN, Begin(w, kind, live)
      PROVE  WatchProtects'
  <2>1. pub'[w].pc = "read" /\ \A v \in Writer \ {w} : pub'[v] = pub[v]
    BY <1>1, <1>w DEF Begin, To, Idle
  <2> QED BY <1>d, <1>1, <2>1 DEF Begin, WatchProtects, cells, Mismatch
<1>2. ASSUME NEW w \in Writer, NEW ripe \in BOOLEAN, Read(w, ripe) PROVE WatchProtects'
  <2>1. pub'[w].pc \in {"idle", "watch"} /\ \A v \in Writer \ {w} : pub'[v] = pub[v]
    <3> DEFINE current == Stored(Home[w])
               e == IF current = Absent THEN NoVersion ELSE current.ver
               i == MergedInit(pub[w], current) \/ ripe
               t == MergedTel(pub[w], current)
               next == [pub[w] EXCEPT !.pc = "watch", !.era = evictions,
                                      !.try = 1, !.exp = e, !.init = i, !.tel = t]
    <3>1. pub' = [pub EXCEPT ![w] = next] \/ pub' = [pub EXCEPT ![w] = Idle]
      BY <1>2 DEF Read, To
    <3> HIDE DEF e, i, t, current
    <3>2. next.pc = "watch"
      BY <1>h DEF Publish
    <3> HIDE DEF next
    <3> QED BY <3>1, <3>2, <1>w, <1>i
  <2> QED BY <1>d, <1>2, <2>1 DEF Read, WatchProtects, cells, Mismatch
<1>3. ASSUME NEW w \in Writer, SaveInMemory(w) PROVE WatchProtects'
  BY <1>3 DEF SaveInMemory
<1>4. ASSUME NEW w \in Writer, Watch(w) PROVE WatchProtects'
  <2>1. /\ pub'[w].pc = "get" /\ watch'[Home[w]] # "none"
        /\ \A v \in Writer \ {w} : pub'[v] = pub[v] /\ watch'[Home[v]] = watch[Home[v]]
    BY <1>4, <1>w, <1>h DEF Watch, To, Publish, OneSavePerConnection
  <2> QED BY <1>d, <1>4, <2>1 DEF Watch, WatchProtects, cells, Mismatch
<1>5. ASSUME NEW w \in Writer, Get(w) PROVE WatchProtects'
  <2>1. /\ pub'[w].seen = redis /\ pub'[w].exp = pub[w].exp
        /\ pub'[w].pc \in {"unwatch", "exec"}
        /\ pub'[w].pc = "exec" => ~Mismatch(pub[w], redis)
        /\ \A v \in Writer \ {w} : pub'[v] = pub[v]
    BY <1>5, <1>w, <1>h DEF Get, To, Publish
  <2>2. watch[Home[w]] # "none" /\ pub[w].pc = "get"
    BY <1>d, <1>5 DEF Get, WatchProtects
  <2> QED BY <1>d, <1>5, <2>1, <2>2 DEF Get, WatchProtects, cells, Mismatch
<1>6. ASSUME NEW w \in Writer, Unwatch(w) PROVE WatchProtects'
  <2>1. /\ pub'[w].pc \in {"idle", "read"}
        /\ \A v \in Writer \ {w} : pub'[v] = pub[v] /\ watch'[Home[v]] = watch[Home[v]]
    BY <1>6, <1>w, <1>h, <1>i DEF Unwatch, To, OneSavePerConnection
  <2> QED BY <1>d, <1>6, <2>1 DEF Unwatch, WatchProtects, cells, Mismatch
<1>7. ASSUME NEW w \in Writer, Exec(w) PROVE WatchProtects'
  <2>1. pub'[w].pc \in {"idle", "read", "watch"}
    <3>1. \/ pub' = [pub EXCEPT ![w] = Idle]
          \/ pub' = [pub EXCEPT ![w] = AfterConflict(pub[w])]
          \/ pub' = [pub EXCEPT ![w] = [pub[w] EXCEPT !.pc = "watch", !.try = @ + 1]]
      BY <1>7 DEF Exec, To
    <3>2. [pub[w] EXCEPT !.pc = "watch", !.try = @ + 1].pc = "watch"
      BY <1>h DEF Publish
    <3> QED BY <3>1, <3>2, <1>w, <1>h, <1>i
  <2>2. \A v \in Writer \ {w} : pub'[v] = pub[v] /\ Home[v] # Home[w]
    BY <1>7, <1>w DEF Exec, To, OneSavePerConnection
  <2>3. CASE watch[Home[w]] = "dirty"
    <3>1. /\ redis' = redis
          /\ \A v \in Writer \ {w} : watch'[Home[v]] = watch[Home[v]]
      BY <1>7, <2>3, <2>2, <1>w, <1>h DEF Exec
    <3> QED BY <1>d, <2>1, <2>2, <3>1 DEF WatchProtects, Mismatch
  <2>4. CASE watch[Home[w]] # "dirty"
    <3>1. \A v \in Writer \ {w} : watch'[Home[v]] = Touch[Home[v]]
      BY <1>7, <2>4, <2>2, <1>t, <1>h DEF Exec
    <3> QED BY <1>d, <2>1, <2>2, <3>1, <1>t, <1>h DEF WatchProtects, Mismatch
  <2> QED BY <2>3, <2>4
<1>8. ASSUME NEW c \in Process, Evict(c) PROVE WatchProtects'
  <2>1. CASE redis # Absent
    BY <1>d, <1>8, <2>1, <1>t, <1>h DEF Evict, WatchProtects, Mismatch
  <2>2. CASE redis = Absent
    BY <1>d, <1>8, <2>2 DEF Evict, WatchProtects, Mismatch
  <2> QED BY <2>1, <2>2
<1>9. CASE UNCHANGED vars
  BY <1>d, <1>9 DEF vars, cells, WatchProtects, Mismatch
<1> QED
  BY <1>1, <1>2, <1>3, <1>4, <1>5, <1>6, <1>7, <1>8, <1>9, <1>h DEF Next, Step

-----------------------------------------------------------------------------
(* The one store.                                                          *)

\* The one store is what every publish reads, before a step and after it.
LEMMA StateIsStored ==
  ASSUME OneStore, TypeOK, [Next]_vars, NEW w \in Writer
  PROVE  TheState = Stored(Home[w]) /\ TheState' = Stored(Home[w])'
<1>h. /\ Home' = Home /\ UseRedis' = UseRedis
      /\ Home[w] \in Process
  BY HomeStays, HomeTyped DEF TypeOK
<1>1. CASE UseRedis
  BY <1>h, <1>1 DEF TheState, Stored
<1>2. CASE ~UseRedis
  <2>1. (CHOOSE c \in Process : \E v \in Writer : Home[v] = c) = Home[w]
    BY <1>h, <1>2 DEF OneStore, OneProcess
  <2>2. (CHOOSE c \in Process : \E v \in Writer : Home'[v] = c) = Home[w]
    BY <1>h, <1>2 DEF OneStore, OneProcess
  <2>3. TheState = memory[Home[w]]
    BY <1>2, <2>1, Zenon DEF TheState
  <2>4. TheState' = memory'[Home[w]]
    BY <1>h, <1>2, <2>2, Zenon DEF TheState
  <2> QED BY <1>h, <1>2, <2>3, <2>4 DEF Stored
<1> QED BY <1>1, <1>2
\* A step that leaves the deployment, Redis and the maps alone leaves the state.
LEMMA StateStays ==
  ASSUME UNCHANGED <<cells, deployment>>
  PROVE  TheState' = TheState
<1>1. redis' = redis /\ memory' = memory /\ UseRedis' = UseRedis /\ Home' = Home
  BY DEF cells, UseRedis, Home
<1>2. (CHOOSE c \in Process : \E w \in Writer : Home'[w] = c)
      = (CHOOSE c \in Process : \E w \in Writer : Home[w] = c)
  BY <1>1
<1>3. CASE UseRedis
  BY <1>1, <1>3 DEF TheState
<1>4. CASE ~UseRedis
  <2> DEFINE d == CHOOSE c \in Process : \E w \in Writer : Home[w] = c
  <2>1. TheState = memory[d]
    BY <1>4, Zenon DEF TheState
  <2>2. TheState' = memory'[d]
    BY <1>1, <1>2, <1>4, Zenon DEF TheState
  <2> QED BY <1>1, <2>1, <2>2
<1> QED BY <1>3, <1>4
\* The publish w replaces the state, at the version it expects.
Saves(w) ==
  /\ pub[w].pc \in {"watch", "exec"}
  /\ ~Mismatch(pub[w], TheState)
  /\ TheState' = NextState(pub[w], TheState)
  /\ pub' = [pub EXCEPT ![w] = Idle]
  /\ evictions' = evictions

\* The match is evicted.
Evicts == TheState' = Absent /\ pub' = pub /\ evictions' = evictions + 1

\* The steps of a publish that do not save.
Prepares(w) ==
  \/ \E kind \in Kinds, live \in BOOLEAN : Begin(w, kind, live)
  \/ \E ripe \in BOOLEAN : Read(w, ripe)
  \/ Watch(w) \/ Get(w) \/ Unwatch(w)
  \/ SaveInMemory(w) /\ Mismatch(pub[w], memory[Home[w]])
  \/ Exec(w) /\ (watch[Home[w]] = "dirty" \/ ~UseRedis)

\* Nothing but a save or an eviction changes the state.
LEMMA WhoWrites ==
  ASSUME OneStore, TypeOK, UseRedis => WatchProtects, [Next]_vars
  PROVE  \/ UNCHANGED vars /\ TheState' = TheState
         \/ \E w \in Writer : (Prepares(w) /\ TheState' = TheState) \/ Saves(w)
         \/ Evicts
<1>h. /\ Home' = Home /\ UseRedis' = UseRedis /\ deployment' = deployment
      /\ Home \in [Writer -> Process]
  BY HomeStays, HomeTyped DEF TypeOK
<1>s. ASSUME NEW w \in Writer
      PROVE  /\ TheState = IF UseRedis THEN redis ELSE memory[Home[w]]
             /\ TheState' = IF UseRedis THEN redis' ELSE memory'[Home[w]]
  BY <1>h, StateIsStored DEF Stored
<1>1. ASSUME NEW w \in Writer, Prepares(w)
      PROVE  TheState' = TheState
  <2>1. CASE Exec(w) /\ ~UseRedis
    BY <1>s, <2>1 DEF Exec
  <2>2. CASE ~(Exec(w) /\ ~UseRedis)
    <3>1. UNCHANGED cells
      BY <1>1, <2>2 DEF Prepares, Begin, Read, Watch, Get, Unwatch, SaveInMemory, Exec, cells
    <3> QED BY <1>h, <3>1, StateStays
  <2> QED BY <2>1, <2>2
<1>2. ASSUME NEW w \in Writer, SaveInMemory(w), ~Mismatch(pub[w], memory[Home[w]])
      PROVE  Saves(w)
  <2>1. /\ TheState = memory[Home[w]] /\ TheState' = memory'[Home[w]] /\ ~UseRedis
        /\ Home[w] \in Process
    BY <1>2, <1>s, <1>h DEF SaveInMemory
  <2>2. memory'[Home[w]] = NextState(pub[w], memory[Home[w]])
    BY <1>2, <2>1 DEF SaveInMemory, TypeOK
  <2> QED BY <1>2, <2>1, <2>2 DEF SaveInMemory, Saves, To
<1>3. ASSUME NEW w \in Writer, Exec(w), watch[Home[w]] # "dirty", UseRedis
      PROVE  Saves(w)
  <2>1. TheState = redis /\ TheState' = redis'
    BY <1>s, <1>3
  <2>2. pub[w].seen = redis /\ ~Mismatch(pub[w], redis)
    <3>1. watch[Home[w]] \in {"none", "clean", "dirty"}
      BY <1>h DEF TypeOK
    <3> QED BY <1>3, <3>1 DEF Exec, WatchProtects
  <2> QED BY <1>3, <2>1, <2>2 DEF Exec, Saves, To
<1>4. ASSUME NEW w \in Writer, Evict(Home[w]) PROVE Evicts
  <2>1. Home[w] \in Process
    BY <1>h
  <2>2. TheState' = Absent
    BY <1>4, <1>s, <2>1 DEF Evict, TypeOK
  <2> QED BY <1>4, <2>2 DEF Evict, Evicts
<1>5. CASE UNCHANGED vars
  <2>1. UNCHANGED <<cells, deployment>>
    BY <1>5 DEF vars, cells
  <2> QED BY <1>5, <2>1, StateStays
<1> QED BY <1>1, <1>2, <1>3, <1>4, <1>5 DEF Next, Step, Prepares
\* A save over a state moves its version on by one and keeps initialized; a
\* save over none makes one.
LEMMA SavedState ==
  ASSUME OneStore, TypeOK, [Next]_vars, NEW w \in Writer, Saves(w)
  PROVE  /\ TheState \in Cell /\ TheState' \in Cell /\ TheState'.ver > 0
         /\ TheState'.tel = pub[w].tel
         /\ TheState # Absent => /\ TheState'.ver = TheState.ver + 1
                                 /\ TheState.init => TheState'.init
                                 /\ (pub[w].exp # NoVersion => pub[w].exp = TheState.ver)
<1>1. TheState \in Cell /\ pub[w] \in Publish
  <2>1. Home[w] \in Process
    BY HomeTyped DEF TypeOK
  <2> QED BY <2>1, StateIsStored DEF Stored, TypeOK
<1>2. TheState' = NextState(pub[w], TheState) /\ ~Mismatch(pub[w], TheState)
  BY DEF Saves
<1>3. NextState(pub[w], TheState) \in Cell /\ NextState(pub[w], TheState).ver > 0
  BY <1>1, NextStateIsCell
<1> HIDE DEF TheState
<1>4. TheState'.tel = pub[w].tel
  BY <1>2 DEF NextState
<1>5. TheState # Absent /\ pub[w].exp # NoVersion => pub[w].exp = TheState.ver
  BY <1>2 DEF Mismatch
<1>6. TheState # Absent => TheState'.ver = TheState.ver + 1 /\ (TheState.init => TheState'.init)
  BY <1>1, <1>2, <1>5 DEF NextState
<1> QED BY <1>1, <1>2, <1>3, <1>4, <1>5, <1>6

-----------------------------------------------------------------------------
(* Reads stand.                                                            *)

\* A publish that does not save is back at its read, or still saves what it
\* merged, or has just merged what is there.
LEMMA WhoPrepares ==
  ASSUME OneStore, TypeOK, [Next]_vars, NEW w \in Writer, Prepares(w)
  PROVE  /\ evictions' = evictions
         /\ \A v \in Writer : v # w => pub'[v] = pub[v]
         /\ \/ pub'[w].pc \in {"idle", "read"} /\ pub'[w].era \in {0, pub[w].era}
            \/ /\ pub[w].pc \in {"watch", "get", "exec"}
               /\ pub'[w].exp = pub[w].exp /\ pub'[w].era = pub[w].era
               /\ pub'[w].live = pub[w].live /\ pub'[w].tel = pub[w].tel
            \/ /\ pub'[w].era = evictions
               /\ pub'[w].exp # NoVersion =>
                    /\ TheState # Absent /\ pub'[w].exp = TheState.ver
                    /\ TheState.tel /\ pub'[w].live => pub'[w].tel
<1> DEFINE r == pub[w]
<1>t. r \in Publish /\ pub \in [Writer -> Publish] /\ TheState \in Cell /\ TheState = Stored(Home[w])
  <2>1. Home[w] \in Process
    BY HomeTyped DEF TypeOK
  <2> QED BY <2>1, StateIsStored DEF Stored, TypeOK
<1>a. AfterConflict(r).pc \in {"idle", "read"} /\ AfterConflict(r).era \in {0, r.era}
  BY <1>t DEF AfterConflict, Idle, Publish
<1>i. Idle.pc = "idle" /\ Idle.era = 0
  BY DEF Idle
<1>1. ASSUME NEW kind \in Kinds, NEW live \in BOOLEAN, Begin(w, kind, live)
      PROVE  /\ evictions' = evictions
             /\ \A v \in Writer : v # w => pub'[v] = pub[v]
             /\ pub'[w].pc \in {"idle", "read"} /\ pub'[w].era \in {0, pub[w].era}
  BY <1>1, <1>t DEF Begin, To, Idle
<1>2. ASSUME NEW ripe \in BOOLEAN, Read(w, ripe)
      PROVE  /\ evictions' = evictions
             /\ \A v \in Writer : v # w => pub'[v] = pub[v]
             /\ \/ pub'[w].pc \in {"idle", "read"} /\ pub'[w].era \in {0, pub[w].era}
                \/ /\ pub'[w].era = evictions
                   /\ pub'[w].exp # NoVersion =>
                        /\ TheState # Absent /\ pub'[w].exp = TheState.ver
                        /\ TheState.tel /\ pub'[w].live => pub'[w].tel
  <2> DEFINE e == IF TheState = Absent THEN NoVersion ELSE TheState.ver
             i == MergedInit(r, TheState) \/ ripe
             t == MergedTel(r, TheState)
             next == [r EXCEPT !.pc = "watch", !.era = evictions, !.try = 1,
                               !.exp = e, !.init = i, !.tel = t]
  <2>1. /\ IF Refused(r, TheState) THEN pub' = [pub EXCEPT ![w] = Idle]
                                   ELSE pub' = [pub EXCEPT ![w] = next]
        /\ evictions' = evictions
    BY <1>2, <1>t DEF Read, To
  <2>2. ~Refused(r, TheState) /\ TheState.tel /\ r.live => t
    <3>1. r.kind \in Kinds /\ r.live \in BOOLEAN
      BY <1>t DEF Publish
    <3> QED BY <3>1 DEF Refused, MergedTel, Kinds
  <2>3. e # NoVersion => TheState # Absent /\ e = TheState.ver
    OBVIOUS
  <2> HIDE DEF e, i, t
  <2>4. next.era = evictions /\ next.exp = e /\ next.tel = t /\ next.live = r.live
    BY <1>t DEF Publish
  <2> HIDE DEF next
  <2>5. CASE Refused(r, TheState)
    BY <1>i, <1>t, <2>1, <2>5
  <2>6. CASE ~Refused(r, TheState)
    <3>1. pub'[w] = next /\ \A v \in Writer : v # w => pub'[v] = pub[v]
      BY <1>t, <2>1, <2>6
    <3> QED BY <2>1, <2>2, <2>3, <2>4, <2>6, <3>1
  <2> QED BY <2>5, <2>6
<1>3. CASE Watch(w) \/ Get(w)
  <2> DEFINE Same(x) == /\ x.exp = r.exp /\ x.era = r.era /\ x.live = r.live /\ x.tel = r.tel
  <2>1. Same([r EXCEPT !.pc = "get"]) /\ \A c \in {"unwatch", "exec"} : Same([r EXCEPT !.seen = redis, !.pc = c])
    BY <1>t DEF Publish
  <2>2. r.pc \in {"watch", "get"} /\ evictions' = evictions
    BY <1>3 DEF Watch, Get
  <2>3. \/ pub' = [pub EXCEPT ![w] = [r EXCEPT !.pc = "get"]]
        \/ \E c \in {"unwatch", "exec"} : pub' = [pub EXCEPT ![w] = [r EXCEPT !.seen = redis, !.pc = c]]
    BY <1>3 DEF Watch, Get, To
  <2>4. Same(pub'[w]) /\ \A v \in Writer : v # w => pub'[v] = pub[v]
    BY <1>t, <2>1, <2>3
  <2> QED BY <2>2, <2>4
<1>4. CASE Unwatch(w)
  BY <1>4, <1>a, <1>t DEF Unwatch, To
<1>5. CASE SaveInMemory(w) /\ Mismatch(pub[w], memory[Home[w]])
  BY <1>5, <1>a, <1>t DEF SaveInMemory, To
<1>6. CASE Exec(w)
  <2> DEFINE x == [r EXCEPT !.pc = "watch", !.try = @ + 1]
  <2>1. x.exp = r.exp /\ x.era = r.era /\ x.live = r.live /\ x.tel = r.tel
    BY <1>t DEF Publish
  <2>2. r.pc = "exec" /\ evictions' = evictions
    BY <1>6 DEF Exec
  <2>3. \/ pub' = [pub EXCEPT ![w] = x] \/ pub' = [pub EXCEPT ![w] = AfterConflict(r)]
        \/ pub' = [pub EXCEPT ![w] = Idle]
    BY <1>6 DEF Exec, To
  <2> HIDE DEF x
  <2> QED BY <1>a, <1>i, <1>t, <2>1, <2>2, <2>3
<1> QED BY <1>1, <1>2, <1>3, <1>4, <1>5, <1>6 DEF Prepares

\* Every step keeps what was read standing.
LEMMA ReadsStandStep ==
  ASSUME OneStore, TypeOK, UseRedis => WatchProtects, ReadsStand, [Next]_vars
  PROVE  ReadsStand'
<1>t. \A v \in Writer : pub[v] \in Publish /\ pub[v].era \in Nat /\ pub[v].exp \in Nat \cup {NoVersion}
  BY DEF TypeOK, Publish
<1>e. evictions \in Nat /\ pub \in [Writer -> Publish]
  BY StoreBoundsAssumption DEF TypeOK
<1>c. \A v \in Writer : TheState \in Cell
  <2>1. \A v \in Writer : Home[v] \in Process
    BY HomeTyped DEF TypeOK
  <2> QED BY <2>1, StateIsStored DEF Stored, TypeOK
<1>1. CASE UNCHANGED vars /\ TheState' = TheState
  <2>1. pub' = pub /\ evictions' = evictions
    BY <1>1 DEF vars
  <2> HIDE DEF TheState
  <2> QED BY <1>1, <2>1 DEF ReadsStand, Stands
<1>2. ASSUME NEW w \in Writer, Prepares(w), TheState' = TheState
      PROVE  ReadsStand'
  <2> HIDE DEF TheState
  <2>1. ASSUME NEW v \in Writer, v # w PROVE pub'[v].era <= evictions' /\ Stands(v)'
    <3>1. pub'[v] = pub[v] /\ evictions' = evictions
      BY <1>2, <2>1, WhoPrepares
    <3> QED BY <1>2, <2>1, <3>1 DEF ReadsStand, Stands
  <2>2. pub'[w].era <= evictions' /\ Stands(w)'
    <3>1. CASE pub'[w].pc \in {"idle", "read"} /\ pub'[w].era \in {0, pub[w].era}
      BY <1>2, <1>e, <1>t, <3>1, WhoPrepares DEF ReadsStand, Stands
    <3>2. CASE /\ pub[w].pc \in {"watch", "get", "exec"}
               /\ pub'[w].exp = pub[w].exp /\ pub'[w].era = pub[w].era
               /\ pub'[w].live = pub[w].live /\ pub'[w].tel = pub[w].tel
      BY <1>2, <3>2, WhoPrepares DEF ReadsStand, Stands
    <3>3. CASE /\ pub'[w].era = evictions
               /\ pub'[w].exp # NoVersion =>
                    /\ TheState # Absent /\ pub'[w].exp = TheState.ver
                    /\ TheState.tel /\ pub'[w].live => pub'[w].tel
      <4>1. evictions' = evictions /\ TheState.ver \in Nat
        BY <1>2, <1>c, WhoPrepares DEF Cell, State
      <4> QED BY <1>2, <1>e, <3>3, <4>1 DEF Stands
    <3> QED BY <1>2, <3>1, <3>2, <3>3, WhoPrepares
  <2> QED BY <2>1, <2>2 DEF ReadsStand
<1>3. ASSUME NEW w \in Writer, Saves(w) PROVE ReadsStand'
  <2>1. /\ TheState \in Cell /\ TheState' \in Cell /\ TheState'.ver > 0
        /\ TheState # Absent => TheState'.ver = TheState.ver + 1
    BY <1>3, SavedState
  <2>2. /\ pub'[w] = Idle /\ evictions' = evictions
        /\ \A v \in Writer : v # w => pub'[v] = pub[v]
    BY <1>3, <1>e DEF Saves
  <2> HIDE DEF TheState
  <2>3. TheState' # Absent /\ TheState.ver \in Nat
    BY <2>1 DEF Absent, Cell, State
  <2>4. ASSUME NEW v \in Writer, v # w PROVE pub'[v].era <= evictions' /\ Stands(v)'
    <3>1. pub[v].era <= evictions /\ Stands(v) /\ pub'[v] = pub[v]
      BY <2>2, <2>4 DEF ReadsStand
    <3> QED BY <1>t, <2>1, <2>2, <2>3, <2>4, <3>1 DEF Stands, NoVersion
  <2>5. pub'[w].era <= evictions' /\ Stands(w)'
    BY <1>e, <2>2 DEF Stands, Idle
  <2> QED BY <2>4, <2>5 DEF ReadsStand
<1>4. CASE Evicts
  <2>1. \A v \in Writer : pub'[v].era < evictions'
    BY <1>4, <1>e, <1>t DEF Evicts, ReadsStand
  <2>2. evictions' \in Nat /\ \A v \in Writer : pub'[v].era \in Nat
    BY <1>4, <1>e, <1>t DEF Evicts
  <2> QED BY <2>1, <2>2 DEF ReadsStand, Stands
<1> QED BY <1>1, <1>2, <1>3, <1>4, WhoWrites

-----------------------------------------------------------------------------
(* The theorems.                                                           *)

\* A step of the store is a save, an eviction or nothing to VersionedState.
LEMMA StoreStep ==
  ASSUME OneStore, TypeOK, UseRedis => WatchProtects, [Next]_vars
  PROVE  [Versioned!Next]_TheState
<1>1. ASSUME NEW w \in Writer, Saves(w) PROVE Versioned!Create \/ Versioned!Save
  <2>1. /\ TheState \in Cell /\ TheState' \in Cell /\ TheState'.ver > 0
        /\ TheState # Absent => /\ TheState'.ver = TheState.ver + 1
                                /\ TheState.init => TheState'.init
    BY <1>1, SavedState
  <2> HIDE DEF TheState
  <2> QED BY <2>1 DEF Versioned!Create, Versioned!Save, Versioned!Absent, Versioned!State,
                      Absent, Cell, State
<1>2. Evicts => Versioned!Evict
  BY DEF Evicts, Versioned!Evict, Versioned!Absent, Absent
<1> QED BY <1>1, <1>2, WhoWrites DEF Versioned!Next

\* A publish that writes over the state it read replaces that very state.
LEMMA ReplacesStep ==
  ASSUME OneStore, TypeOK, UseRedis => WatchProtects, ReadsStand, [Next]_vars,
         NEW w \in Writer, TheState' # TheState, pub'[w] = Idle, pub[w] # Idle,
         pub[w].exp # NoVersion, pub[w].era = evictions
  PROVE  Saves(w) /\ Stands(w) /\ TheState # Absent /\ TheState.ver = pub[w].exp
<1>1. ~Evicts
  BY DEF Evicts
<1>2. PICK v \in Writer : Saves(v)
  BY <1>1, WhoWrites
<1>3. v = w
  BY <1>2 DEF Saves, TypeOK
<1>4. Stands(w) /\ TheState # Absent
  BY <1>2, <1>3 DEF ReadsStand, Stands, Saves
<1> QED BY <1>2, <1>3, <1>4, SavedState

\* A deployment with one store: Redis with a connection for every publish under
\* way, or the map of the one process there is.
SingleStore(d) == IF d.redis THEN \A v, w \in Writer : d.home[v] = d.home[w] => v = w
                             ELSE \A v, w \in Writer : d.home[v] = d.home[w]

StoreInv == TypeOK /\ (UseRedis => WatchProtects) /\ ReadsStand

\* The invariant holds from the start on.
LEMMA StoreInvariant ==
  ASSUME \A d \in Deployments : SingleStore(d)
  PROVE  /\ TypeOK => OneStore
         /\ Init => StoreInv
         /\ StoreInv /\ [Next]_vars => StoreInv'
<1>1. TypeOK => OneStore
  BY DEF TypeOK, OneStore, OneSavePerConnection, OneProcess, SingleStore, UseRedis, Home
<1>2. ASSUME Init PROVE StoreInv
  <2>1. TypeOK
    BY <1>2, IdleAbsentTypes, StoreBoundsAssumption DEF Init, TypeOK
  <2> QED BY <1>2, <2>1 DEF Init, StoreInv, WatchProtects, ReadsStand, Stands, Idle
<1>3. ASSUME StoreInv, [Next]_vars PROVE StoreInv'
  <2>1. TypeOK' /\ ReadsStand'
    BY <1>1, <1>3, TypeStep, ReadsStandStep DEF StoreInv
  <2>2. UseRedis' => WatchProtects'
    BY <1>1, <1>3, HomeStays, WatchStep DEF StoreInv, OneStore
  <2> QED BY <2>1, <2>2 DEF StoreInv
<1> QED BY <1>1, <1>2, <1>3

\* Where there is one store it is the versioned state it is meant to be: for any
\* number of processes, publishes, retries and evictions.
THEOREM VersionedStateImplemented ==
  ASSUME Writer # {}, \A d \in Deployments : SingleStore(d)
  PROVE  Spec => ImplementsVersionedState
<1>1. Init => Versioned!Init
  <2> SUFFICES ASSUME Init PROVE TheState = Absent
    BY DEF Versioned!Init, Versioned!Absent, Absent
  <2>1. CASE UseRedis
    BY <2>1 DEF Init, TheState
  <2>2. CASE ~UseRedis
    <3> DEFINE h == CHOOSE c \in Process : \E w \in Writer : Home[w] = c
    <3>1. TheState = memory[h]
      BY <2>2, Zenon DEF TheState
    <3>2. PICK w \in Writer : TRUE
      OBVIOUS
    <3>3. Home[w] \in Process
      BY HomeTyped DEF Init
    <3>4. h \in Process
      BY <3>3
    <3> QED BY <3>1, <3>4 DEF Init
  <2> QED BY <2>1, <2>2
<1>2. StoreInv /\ [Next]_vars => [Versioned!Next]_TheState
  BY StoreInvariant, StoreStep DEF StoreInv
<1>3. Init => StoreInv
  BY StoreInvariant
<1>4. StoreInv /\ [Next]_vars => StoreInv'
  BY StoreInvariant
<1> QED BY <1>1, <1>2, <1>3, <1>4, PTL DEF Spec, ImplementsVersionedState, Versioned!Spec

\* No publish is lost unseen: where there is one store, one that read a state
\* replaces the very state it was merged with, unless the match was evicted in
\* between (LiveStateMirrorService.publish over MatchControlStateStore.save).
THEOREM SavesReplaceWhatTheyRead ==
  ASSUME \A d \in Deployments : SingleStore(d)
  PROVE  Spec => ReplacesWhatItRead
<1>1. StoreInv /\ [Next]_vars =>
        [\A w \in Writer :
           /\ pub[w].pc \in {"watch", "exec"} /\ pub[w].exp # NoVersion
           /\ TheState' # TheState /\ pub'[w] = Idle /\ pub[w] # Idle
           /\ pub[w].era = evictions
           => TheState.ver = pub[w].exp]_vars
  BY StoreInvariant, ReplacesStep DEF StoreInv
<1>2. Init => StoreInv
  BY StoreInvariant
<1>3. StoreInv /\ [Next]_vars => StoreInv'
  BY StoreInvariant
<1> QED BY <1>1, <1>2, <1>3, PTL DEF Spec, ReplacesWhatItRead

\* Where there is one store, no LIVE publish that read a state of this era takes
\* the state from the telemetry runtime that owns it (the mirror's merge and
\* its refusal of results).
THEOREM TelemetryKeepsItsState ==
  ASSUME \A d \in Deployments : SingleStore(d)
  PROVE  Spec => TelemetryKeepsWhatWasRead
<1>1. ASSUME StoreInv, [Next]_vars, NEW w \in Writer,
             TheState.tel, TheState' # TheState, pub[w] # Idle, pub'[w] = Idle,
             pub[w].live, pub[w].exp # NoVersion, pub[w].era = evictions
      PROVE  TheState'.tel
  <2>1. Saves(w) /\ Stands(w) /\ TheState # Absent /\ TheState.ver = pub[w].exp
    BY <1>1, StoreInvariant, ReplacesStep DEF StoreInv
  <2>2. TheState'.tel = pub[w].tel
    BY <1>1, <2>1, StoreInvariant, SavedState DEF StoreInv
  <2> HIDE DEF TheState
  <2> QED BY <1>1, <2>1, <2>2 DEF Stands, Saves
<1>2. StoreInv /\ [Next]_vars =>
        [\A w \in Writer :
           /\ TheState.tel /\ TheState' # TheState /\ pub[w] # Idle /\ pub'[w] = Idle
           /\ pub[w].live /\ pub[w].exp # NoVersion /\ pub[w].era = evictions
           => TheState'.tel]_vars
  BY <1>1
<1>3. Init => StoreInv
  BY StoreInvariant
<1>4. StoreInv /\ [Next]_vars => StoreInv'
  BY StoreInvariant
<1> QED BY <1>2, <1>3, <1>4, PTL DEF Spec, TelemetryKeepsWhatWasRead

\* Where there is one store, telemetry that was initialized stays so until the
\* match is evicted: what goes wrong with publishes that overlap on one
\* connection takes their sharing it.
THEOREM InitializedStaysInOneStore ==
  ASSUME \A d \in Deployments : SingleStore(d)
  PROVE  Spec => InitializedStays
<1>1. ASSUME StoreInv, [Next]_vars, TheState.init, evictions' = evictions
      PROVE  TheState'.init
  <2>1. ~Evicts
    BY <1>1, StoreBoundsAssumption DEF Evicts, StoreInv, TypeOK
  <2>2. ASSUME NEW w \in Writer, Saves(w) PROVE TheState'.init
    <3>1. TheState # Absent => TheState'.init
      BY <1>1, <2>2, StoreInvariant, SavedState DEF StoreInv
    <3> HIDE DEF TheState
    <3> QED BY <1>1, <3>1 DEF Absent
  <2> QED BY <1>1, <2>1, <2>2, StoreInvariant, WhoWrites DEF StoreInv
<1>2. StoreInv /\ [Next]_vars => [TheState.init /\ evictions' = evictions => TheState'.init]_vars
  BY <1>1
<1>3. Init => StoreInv
  BY StoreInvariant
<1>4. StoreInv /\ [Next]_vars => StoreInv'
  BY StoreInvariant
<1> QED BY <1>2, <1>3, <1>4, PTL DEF Spec, InitializedStays

=============================================================================
