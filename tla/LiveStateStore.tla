--------------------------- MODULE LiveStateStore ---------------------------
(***************************************************************************)
(* The live state of one match, as LiveStateMirrorService.publish reads,   *)
(* merges and saves it through MatchControlStateStore: in Redis under an   *)
(* optimistic WATCH / GET / MULTI SET EXEC, or in a map of the process     *)
(* when there is no Redis.  Every API process has ONE Redis connection,    *)
(* and a WATCH belongs to the connection: publishes of one process that    *)
(* overlap share it.                                                       *)
(*                                                                         *)
(* A publish is a record in pub[w].  Each step below is one command at the *)
(* Redis server with the code that runs until the next await.              *)
(***************************************************************************)
EXTENDS Integers

CONSTANTS
  Writer,      \* publishes that may be in flight
  Process,     \* API processes, each with one Redis connection and one map
  Deployments, \* the deployments considered
  Attempts,    \* tries of save under WATCH, and of publish (3 and 3)
  MaxVersion,  \* bound: no new publish over a state this old
  MaxEvict     \* bound: evictions

\* redis: REDIS_URL is set.  home[w]: the process a publish runs in.
Deployment == [redis: BOOLEAN, home: [Writer -> Process]]

ASSUME DeploymentsAssumption == Deployments \subseteq Deployment
ASSUME AttemptsAssumption == Attempts \in Nat \ {0}
ASSUME StoreBoundsAssumption == MaxVersion \in Nat /\ MaxEvict \in Nat

\* A stored LiveMatchState: its version, whether telemetry is initialized
\* (initialized), and whether a telemetry runtime owns it while the match is
\* LIVE (hasActiveTelemetryOwnership).
State  == [ver: Nat, init: BOOLEAN, tel: BOOLEAN]
Absent == [ver |-> 0, init |-> FALSE, tel |-> FALSE]
Cell   == {s \in State : s.ver > 0 \/ s = Absent}

NoVersion == -1     \* expectedVersion is undefined

\* Who publishes: the telemetry engine, match control, the results service, or
\* the patch detectMatchFinish saves without going through the mirror.
Kinds == {"telemetry", "control", "results", "patch"}

VARIABLES
  redis,       \* the state under the match's key in Redis
  memory,      \* memory[c]: the state in the map of process c
  watch,       \* watch[c]: "none", "clean" or "dirty": c's WATCH of the key
  pub,         \* the publishes in flight
  evictions,   \* evictions so far
  deployment   \* one of Deployments; never changes

UseRedis == deployment.redis
Home     == deployment.home

cells == <<redis, memory>>
vars  == <<redis, memory, watch, pub, evictions, deployment>>

\* live: the state to be published is LIVE with players in it (LIVE without
\* players is left out).  exp: expectedVersion.  era: the
\* evictions when the mirror read.  init, tel: of the merged state.  seen: what
\* the GET under WATCH returned.
Publish == [pc: {"idle", "read", "watch", "get", "unwatch", "exec"}, kind: Kinds,
            live: BOOLEAN, exp: Nat \cup {NoVersion}, era: Nat, init: BOOLEAN, tel: BOOLEAN,
            seen: Cell, try: 1 .. Attempts, round: 1 .. Attempts]

Idle == [pc |-> "idle", kind |-> "patch", live |-> FALSE, exp |-> NoVersion, era |-> 0,
         init |-> FALSE, tel |-> FALSE, seen |-> Absent, try |-> 1, round |-> 1]

Init ==
  /\ redis = Absent
  /\ memory = [c \in Process |-> Absent]
  /\ watch = [c \in Process |-> "none"]
  /\ pub = [w \in Writer |-> Idle]
  /\ evictions = 0
  /\ deployment \in Deployments

To(w, r) == pub' = [pub EXCEPT ![w] = r]

\* What MatchControlStateStore.get returns in process c.
Stored(c) == IF UseRedis THEN redis ELSE memory[c]

\* The key was written: whoever watches it will fail its EXEC.
Touch == [c \in Process |-> IF watch[c] = "clean" THEN "dirty" ELSE watch[c]]

-----------------------------------------------------------------------------
(* LiveStateMirrorService.publish and detectMatchFinish.                   *)

Begin(w, kind, live) ==
  /\ pub[w].pc = "idle"
  /\ Stored(Home[w]).ver < MaxVersion
  /\ kind = "telemetry" => live
  /\ To(w, [Idle EXCEPT !.pc = "read", !.kind = kind, !.live = live])
  /\ UNCHANGED <<cells, watch, evictions>>

\* The read and the merge: a LIVE state of match control that would replace one
\* the telemetry runtime owns republishes that one; telemetry is what only the
\* telemetry engine brings.
MergedTel(r, current) ==
  CASE r.kind = "patch"   -> current.tel
    [] r.kind = "control" -> current.tel /\ r.live
    [] OTHER              -> r.kind = "telemetry"

\* initialized comes with the state that was read only where the read state is
\* what is saved again.
MergedInit(r, current) ==
  current.init /\ (r.kind = "patch" \/ (r.kind = "control" /\ current.tel /\ r.live))

\* Mutant: a results publish goes through whoever owns the state.
RefusedOnlyPatch(r, current) == r.kind = "patch" /\ current = Absent

\* A results publish over a state the telemetry runtime owns is refused, and
\* there is nothing to patch if nothing is stored.
Refused(r, current) ==
  \/ r.kind = "results" /\ current.tel /\ r.live
  \/ r.kind = "patch" /\ current = Absent

\* ripe: the state has teams and players enough, or play has gone on for long.
Read(w, ripe) ==
  LET r == pub[w]
      current == Stored(Home[w])
  IN
  /\ r.pc = "read"
  /\ IF Refused(r, current)
       THEN To(w, Idle)
       ELSE To(w, [r EXCEPT !.pc = "watch", !.era = evictions, !.try = 1,
                     !.exp = IF current = Absent THEN NoVersion ELSE current.ver,
                     !.init = MergedInit(r, current) \/ ripe,
                     !.tel = MergedTel(r, current)])
  /\ UNCHANGED <<cells, watch, evictions>>

\* Mutant: the mirror tries for ever.
AfterConflictForever(r) ==
  IF r.kind = "patch" THEN Idle ELSE [r EXCEPT !.pc = "read", !.round = @ + 1]

\* What a publish does when its save met a conflict: the mirror reads and
\* merges again if it has a round left; the patch is given up.
AfterConflict(r) ==
  IF r.kind = "patch" \/ r.round = Attempts
    THEN Idle
    ELSE [r EXCEPT !.pc = "read", !.round = @ + 1]

-----------------------------------------------------------------------------
(* MatchControlStateStore.save.                                            *)

Mismatch(r, current) ==
  r.exp # NoVersion /\ current # Absent /\ current.ver # r.exp

\* Mutant: whether telemetry is initialized is decided by the new state alone.
NextStateForgetful(r, current) ==
  [ver  |-> (IF r.exp # NoVersion THEN r.exp ELSE current.ver) + 1,
   init |-> r.init,
   tel  |-> r.tel]

\* What is written over current: the version after the expected or the current
\* one, and initialized once and for all.
NextState(r, current) ==
  [ver  |-> (IF r.exp # NoVersion THEN r.exp ELSE current.ver) + 1,
   init |-> r.init \/ current.init,
   tel  |-> r.tel]

\* Without Redis: no await between the look and the write.
SaveInMemory(w) ==
  LET r == pub[w]
      c == Home[w]
  IN
  /\ ~UseRedis /\ r.pc = "watch"
  /\ IF Mismatch(r, memory[c])
       THEN To(w, AfterConflict(r)) /\ UNCHANGED memory
       ELSE /\ memory' = [memory EXCEPT ![c] = NextState(r, memory[c])]
            /\ To(w, Idle)
  /\ UNCHANGED <<redis, watch, evictions>>

\* WATCH does not clean a connection whose watched key was touched already.
Watch(w) ==
  /\ UseRedis /\ pub[w].pc = "watch"
  /\ watch' = [watch EXCEPT ![Home[w]] = IF @ = "none" THEN "clean" ELSE @]
  /\ To(w, [pub[w] EXCEPT !.pc = "get"])
  /\ UNCHANGED <<cells, evictions>>

Get(w) ==
  /\ pub[w].pc = "get"
  /\ To(w, [pub[w] EXCEPT !.seen = redis,
                          !.pc = IF Mismatch(pub[w], redis) THEN "unwatch" ELSE "exec"])
  /\ UNCHANGED <<cells, watch, evictions>>

Unwatch(w) ==
  /\ pub[w].pc = "unwatch"
  /\ watch' = [watch EXCEPT ![Home[w]] = "none"]
  /\ To(w, AfterConflict(pub[w]))
  /\ UNCHANGED <<cells, evictions>>

\* Mutant: the transaction is not conditional on the watch.
ExecUnconditionally(w) ==
  LET r == pub[w] IN
  /\ r.pc = "exec"
  /\ watch' = [Touch EXCEPT ![Home[w]] = "none"]
  /\ redis' = NextState(r, r.seen)
  /\ To(w, Idle)
  /\ UNCHANGED <<memory, evictions>>

\* MULTI, SET, EXEC in one go.  EXEC fails if the connection's watch is dirty;
\* either way the connection watches nothing afterwards.
Exec(w) ==
  LET r == pub[w]
      c == Home[w]
  IN
  /\ r.pc = "exec"
  /\ IF watch[c] = "dirty"
       THEN /\ watch' = [watch EXCEPT ![c] = "none"]
            /\ To(w, IF r.try < Attempts
                       THEN [r EXCEPT !.pc = "watch", !.try = @ + 1]
                       ELSE AfterConflict(r))
            /\ UNCHANGED redis
       ELSE /\ watch' = [Touch EXCEPT ![c] = "none"]
            /\ redis' = NextState(r, r.seen)
            /\ To(w, Idle)
  /\ UNCHANGED <<memory, evictions>>

\* evictMatches: a start, an unlock or a reset forgets the state.
Evict(c) ==
  /\ evictions < MaxEvict
  /\ evictions' = evictions + 1
  /\ memory' = [memory EXCEPT ![c] = Absent]
  /\ IF UseRedis /\ redis # Absent
       THEN redis' = Absent /\ watch' = Touch
       ELSE UNCHANGED <<redis, watch>>
  /\ UNCHANGED pub

-----------------------------------------------------------------------------

Step(w) ==
  \/ \E ripe \in BOOLEAN : Read(w, ripe)
  \/ SaveInMemory(w)
  \/ Watch(w) \/ Get(w) \/ Unwatch(w) \/ Exec(w)

Next ==
  /\ UNCHANGED deployment
  /\ \/ \E w \in Writer :
          \/ \E kind \in Kinds, live \in BOOLEAN : Begin(w, kind, live)
          \/ Step(w)
     \/ \E w \in Writer : Evict(Home[w])

Spec == Init /\ [][Next]_vars

-----------------------------------------------------------------------------
(* Properties.                                                             *)

TypeOK ==
  /\ redis \in Cell /\ memory \in [Process -> Cell]
  /\ watch \in [Process -> {"none", "clean", "dirty"}]
  /\ pub \in [Writer -> Publish]
  /\ evictions \in 0 .. MaxEvict
  /\ deployment \in Deployments

\* What the store of a deployment is, when it is one: Redis for all processes,
\* or the map of the only process.
TheState ==
  IF UseRedis THEN redis ELSE memory[CHOOSE c \in Process : \E w \in Writer : Home[w] = c]

\* The store implements VersionedState: each save moves the version on by one
\* and keeps initialized, whatever publishes overlap, retry and meet evictions.
Versioned == INSTANCE VersionedState WITH stored <- TheState
ImplementsVersionedState == Versioned!Spec

\* A publish that read a state replaces the very state it was merged with,
\* unless the match was evicted in between: no publish is lost unseen.
ReplacesWhatItRead ==
  [][\A w \in Writer :
       /\ pub[w].pc \in {"watch", "exec"} /\ pub[w].exp # NoVersion
       /\ TheState' # TheState /\ pub'[w] = Idle /\ pub[w] # Idle
       /\ pub[w].era = evictions
       => TheState.ver = pub[w].exp]_vars

\* Once a telemetry runtime owns the LIVE state, nobody else's LIVE publish
\* replaces it with a state of their own, if it read a state in this era of the
\* match: a publish that read none saves without an expected version.
TelemetryKeepsWhatWasRead ==
  [][\A w \in Writer :
       /\ TheState.tel /\ TheState' # TheState /\ pub[w] # Idle /\ pub'[w] = Idle
       /\ pub[w].live /\ pub[w].exp # NoVersion /\ pub[w].era = evictions
       => TheState'.tel]_vars

\* Telemetry that was initialized stays so until the match is evicted.
InitializedStays ==
  [][TheState.init /\ evictions' = evictions => TheState'.init]_vars

=============================================================================
