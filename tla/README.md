# Arenzyra platform: TLA+ verification project

Arenzyra runs mobile-esports tournaments: matches are scheduled, played on a
game server, followed by telemetry, put on air through overlays, and turned
into official results.  This directory models the part of `apps/api` that
decides which team gets a place in a session's lobby, what state a match is in
while it is played, and when its results become final.

All paths below are relative to the repository root; MCS is
`apps/api/src/modules/match-control/match-control.service.ts`.

## 1. The system

### 1.1 Components

| component | state it keeps | operations | talks to | hard behaviour |
|---|---|---|---|---|
| **Match control** (MCS) | `Match.status`, `MatchControlState` (state, version, `metaJson`), slot rows | start, rebind, end, detectMatchFinish, confirm, finalize, unlock, setStatus, auto-end, recovery | store, results, telemetry | several requests per match in flight; each loads, awaits, then commits; retries, recovery, restarts |
| **Lifecycle vocabulary** (`common/match-status.util.ts`) | none | folds two columns and a flag into one status | everybody | three sources that may disagree |
| **Live scope** (MCS `setMatchLiveInternal`) | the LIVE rows of an organization | find, auto-end, go live, look again | Postgres | concurrent transactions at READ COMMITTED, row locks, deadlock |
| **Live state store and mirror** (`state.store.ts`, `live-state-mirror.service.ts`, `redis.service.ts`) | one `LiveMatchState` per match in Redis or in a process map | get, save, evict, publish | Redis | optimistic WATCH on one shared connection, retries, eviction |
| **Telemetry ingress** (`telemetry-ingress.service.ts`) | sequence cursor in `metaJson` | ingest | engine, persistence, match control | cursor read and written far apart; rewinds; late packets |
| **Telemetry persistence** (`telemetry-persistence.service.ts`) | control row, compatibility snapshot | persistState, markTelemetryAccepted | Postgres | rewrites the control row outside its version check; its errors are logged only |
| **Telemetry engine** (`telemetry-engine.service.ts`, `match-engine.service.ts`) | in memory: the runtime of a match, the accepted run (session and sequence) | getState, adapter tick, reset, commit | ingress, persistence, readers | copies of the runtime across awaits; memory lost in a crash |
| **Match conclusion and results** (`modules/results`) | slot rows, player rows, standings | finalize, edit, restore | match control, store | must be written once per run |
| **Standings, scoring, rulesets** | totals | sums over final rows | results | arithmetic, ties |
| **Matches and slots** (`matches.service.ts`, `session-match-slot-sync.ts`) | match rows, slots | CRUD, slot sync | match control | clears `finalizedAt` outside the lifecycle |
| **Sessions and registrations** (`sessions.service.ts`) | `Session` row, `SessionRegistration` rows: slots, waitlist positions | register, place, waitlist, remove, update | bans, imports, Discord | SERIALIZABLE requests of many users; nothing retries them |
| **Team bans** (`team-bans.service.ts`, `results.service.ts` for no-shows) | `TeamBan` rows | ban, revoke: remove the team, repack the waitlist | registrations | a row of statements without a transaction |
| **Slot-list imports** (`session-telegram-import.service.ts`, `session-discord-sync.service.ts`, `production.service.ts`) | none of their own | place the teams of a list, drop those no longer on it | registrations | READ COMMITTED over rows read at the start |
| **Live sync, feed, projections** | `metaJson.liveSync`, read models | overrides, reads | store | another `metaJson` writer |
| **Realtime, event bus** | subscriptions | fan-out | clients | order of events |
| **Clients** (web, desktop, launcher, Discord bot, overlay server) | caches | HTTP and sockets | API | stale versions, repeated requests |
| **The rest** (auth, organizations, tournaments, YouTube, media, widgets) | their tables | CRUD, presentation | - | not part of the lifecycle |

`PROJECT.json` lists every component with its files and status.

### 1.2 How they interact

A control request enters MCS with an optional control-row version.  MCS loads
the match, decides, and commits one transaction that updates `Match` and,
through `writeControlStateCas`, `MatchControlState`; the latter increments
`version` and, when the request brought a version, fails if it differs.  After
the commit it publishes a live state through the mirror and may go on
(`endMatch` goes on to `finalizeMatch`, `startMatch` to confirm the matches it
auto-ended).  Telemetry packets reach the same rows by another path: ingress
checks the session, the lifecycle and the sequence number against its cursor,
the engine takes the runtime from memory (after a restart, from the snapshot),
checks the sequence again against its own accepted run, builds the next state,
persists it, the control row and the snapshot, and puts it in memory; ingress
then writes its cursor into `metaJson`, and `applyAuthoritativeMatchEnd` may end
the match.  Each arrow is an await, and nothing keeps a second packet or a
reader of the state out meanwhile.  The live state lives in
Redis (or the process), is versioned on its own, and is evicted by starts,
unlocks and resets.  Reading a lifecycle that has been FINISH_PENDING for more
than a minute queues a recovery in the background.

Registrations are a world of their own: matches take their slots from them, but
no match operation changes them.  Requests of captains, staff and Discord users
go through `withSessionMutation`, one SERIALIZABLE transaction that locks the
`Session` row and refuses rows it finds inconsistent.  Bans and imports write
the same rows by other means, and what they leave behind is what the next
request finds.

### 1.3 What makes each component correct

* **Match control**: the final results of a run are computed at most once;
  FINISHED is reached only out of FINISH_PENDING and never over an unlock or a
  new start; the two rows agree; a finished match carries its own run's
  results; a pending match that is over gets finished.
* **Live scope**: two matches are LIVE together only if the starts overlapped; a
  start leaves nothing running that it saw running; starts do not wait for ever.
* **Store**: a version names one state; no publish silently overwrites another;
  telemetry ownership and initialization are not lost.
* **Telemetry path**: the state in memory never goes back to an older packet or
  session; what a source was told is accepted survives a crash; a source that
  starts its sequence over is heard again.
* **Registrations**: no slot is given twice; the rows stay such that the next
  request can work with them; nobody gets into a closed session; overlapping
  requests act as if made one at a time, a newcomer gets the first free slot or
  the end of the waitlist, and nobody else is moved.
* **Results, standings**: placement and totals are functions of the final rows.

## 2. The modules

| module | models | status |
|---|---|---|
| `MatchStatus` | the functions of `match-status.util.ts` the lifecycle uses | done |
| `ResultsLedger` | abstract: what match control promises about results | done |
| `MatchLifecycle` | MCS for one match, with telemetry and other `metaJson` writers | done |
| `MatchLifecycle_proofs` | TLAPS proofs: types, results at most once, the ledger | done |
| `MatchRows_proofs` | TLAPS proofs: the two rows agree, a match finishes its own run | done |
| `LiveScope` | starts within one organization at READ COMMITTED | done |
| `LiveScope_proofs` | TLAPS proofs about it | done |
| `VersionedState` | abstract: what the live state store promises | done |
| `LiveStateStore` | publish, save and evict for one match | done |
| `LiveStateStore_proofs` | TLAPS proofs about it | done |
| `TelemetryIngress` | the packets of one match: two cursors, runtime, snapshot | done |
| `TelemetryIngress_proofs` | TLAPS proofs: types, nothing goes back, nothing acknowledged is lost | done |
| `TelemetryRestart_proofs` | TLAPS proof that a restarted source is heard | done |
| `SeatBook` | abstract: what the registrations of a session promise | done |
| `Registrations` | requests, bans and imports on one session's rows | done |
| `Registrations_proofs` | TLAPS proofs: types, slots, usable rows, closed sessions, imports | done |
| `SeatBook_proofs` | TLAPS proof that `Registrations` implements `SeatBook` | done |

`MCMatchLifecycle`, `MCLiveStateStore` and `MCRegistrations` hold the symmetry
sets, the deployments and the constraint of the runs.

### 2.1 MatchLifecycle

A request is a record in `req[p]`: its program location (`pc`), what it was
asked (`op`, `exp`, `sess`) and what it read before its last await (`ver`,
`status`, `control`, `meta`, `run`, `applied`).  An action is the code of one
request between two awaits that matter, or one transaction from the first row
lock to the commit.

| actions | code |
|---|---|
| `Submit`, `AcceptPacket`, `QueueRecovery`, `AutoEnd` | control API and sockets; `ingest`; `resolveFinalizationTiming`; `autoEndOtherLiveMatchesInScope` by another match |
| `EndLoad`, `EndCommit` | `endMatch` |
| `DetectLoad`, `DetectCommit`, `EligibleLoad` | `detectMatchFinish`, `confirmFinishedIfEligible` |
| `ConfirmLoad`, `Promote`, `PromoteLost`, `ResolveVersion` | `confirmFinished`, `ensureFinishPendingForFinalization`, `resolveFinalizationVersion` |
| `FinalizeRead`, `FinalizeCommit` | `finalizeMatch`: the reads of its transaction, and its writes |
| `StartLoad`, `RestartLoad`, `StartCommit`, `AlreadyLive`, `RebindCommit` | `setMatchLive`, `setMatchLiveInternal`, `handleAlreadyLiveStart` |
| `UnlockLoad`, `UnlockCommit` | `unlockMatch` |
| `StatusLoad`, `ReadyCommit`, `PendingCommit` | `setStatus` |
| `Conflict`, `PublishFails` | the exceptions of `writeControlStateCas` and of `persistAndBroadcast` |
| `PersistRead`, `PersistWrite` | `TelemetryPersistenceService.persistState` |
| `MetaRead`, `MetaWrite` | `persistIngressCursor`, `markTelemetryAccepted`, `captureFinalizationSnapshots`, ... |
| `Play`, `Crash` | the game; a restart of the process |

Abstractions.  `metaJson` is cut down to four facts: whether it says the results
are final and for which run it was written (`fin`), whether and in which run an
alive-team count of at most one was validated (`elig`), whether finalization was
started (`pend`), whether it holds telemetry (`tel`).  The run tags of `fin` and
`elig` are history: the code's guards only see presence.  Slot rows are cut down
to the run they hold final results of and to whether they show more than one
team alive.  `published[r]` counts the computations of run `r`'s results and
exists for the properties.  `oneTeam` is the live store's count; a start, an
unlock and a reset take it away in the step that commits (the code evicts right
after the commit).  A transaction is atomic from the lock of the match row to
its commit: the code's lifecycle transactions all update that row first.  The
unversioned writers do not take that lock, and one of them committing inside
the window between the version test and the update of `writeControlStateCas` is
not modelled.  Ages (a minute of pending, how old telemetry is) are left out: a
recovery may be queued as soon as the match is pending.  A packet always
persists, although one that changes nothing only writes its cursor, which is
what a `note` does; the end command of the telemetry engine is an `end` without
a version.  Left out altogether:
`resultsManualLock` and `resultsForceUnlock`, edits of `patchState`, matches
without slot rows, and slot edits.

### 2.2 ResultsLedger

A run is *open* (DRAFT, LIVE), *closed* (ENDED, FINISH_PENDING) or *final*
(FINISHED).  Results are published only when a closed run becomes final, for
that run, if none were published for it.  `MatchLifecycle!Ledger` maps
`phase <- Phase`, and `ImplementsLedger` is the refinement.

### 2.3 LiveScope

One transaction per start: `Begin` (`setMatchLive` has read a match that is not
LIVE), `FindConflicts`, `NextConflict` and `EndConflict` for each
(`autoEndOtherLiveMatchesInScope`), `GoLive` (its own rows), `CheckAgain`
(`partitionLiveScopeConflicts`: a LIVE match with no team alive does not block),
`Commit` or `Fail`.  A SELECT sees committed rows and the transaction's own
writes.  An UPDATE of a row that another transaction wrote waits (`Free`);
`DeadlockVictim` is Postgres failing a member of a cycle of waits.  The two
columns that say LIVE are one (`IsLive`), since every transition writes both.
`EndMatch` stands for any other lifecycle operation of a LIVE match.

`schema.prisma` has no constraint that allows one LIVE match only.  The code
translates a unique violation (P2002) into a conflict, so a migration may hold
such an index; migrations are not part of the repository, and the module is the
code without it: "at most one" is then *not* an invariant, and
`TwoLiveOnlyByOverlap` says how far the code alone keeps it.

### 2.4 LiveStateStore and VersionedState

A publish is `Begin`, `Read` (get, merge, ownership rule), then a save: `Watch`,
`Get`, and `Unwatch` or `Exec`; or `SaveInMemory` without Redis.  `Exec` that
fails tries again, `AfterConflict` reads and merges again.  A WATCH belongs to
the *connection*, `watch[c]`.  `deployment`, which never changes, says whether there
is Redis and which process, hence connection, a publish `w` runs in
(`Home[w]`); `Deployments` is the set of deployments a run considers.  The payload is two flags, `init` (telemetry initialized) and `tel`
(owned by the telemetry runtime while LIVE).  Left out: the merge of rosters,
stability timestamps, LIVE states without players, and the switch to the map
when the Redis connection drops.  `VersionedState` promises that a save moves
the version on by one and keeps `init`, and that only an eviction removes the
state.

### 2.5 TelemetryIngress

One LIVE match, its sources (one per session the match has been bound to), the
packets they send, `Handler` packets in the server at a time, and one reader of
the state.

| actions | code |
|---|---|
| `Send`, `RestartSource` | the source (a game client, the desktop bridge) |
| `HandleAlreadyLiveStart` | `handleAlreadyLiveStart`: a start with another session while LIVE |
| `Receive` | `ingestAdapterTelemetryEnvelope` up to the engine: session guard, `readIngressCursor`, `shouldResetIngressCursor` |
| `BeginGetState`, `EndGetState` | `getState` (memory or snapshot, then store the copy) and the checks of `applyAdapterTelemetryEnvelope` up to its next await |
| `ResetRuntimeForAcceptedRun` | `resetRuntimeForAcceptedRun`, `resetAcceptedRun` |
| `ApplyAdapterSnapshot` | building the next state over awaits; `advanceAcceptedRun` |
| `PersistState`, `CommitTransition` | the two halves of `commitTransition`: the awaited save, and the new state in memory |
| `PersistIngressCursor` | `persistIngressCursor` |
| `BeginRead`, `EndRead` | `getState` for the telemetry controller, the results service, the match conclusion |
| `Fail`, `Crash` | a query that throws; the process dies |

What a packet says is left out.  `Build` names a state by the session and the
packet it was built from, which is all that "older" and "newer" need; `Roster` is
the state without telemetry.  `id` is the order of sending and stands for the
packet's timestamp, so `at |-> sent` is the `updatedAt` of the cursor: clocks are
taken to agree.  Whether a packet changes anything, and whether a change of
session keeps the runtime (`shouldPreserveRuntimeAcrossPhaseTransition`), is a
choice.  `history` records for the properties the newest state there has been,
the newest one acknowledged, the run of packets dropped one after another
(`muted`), and when the source last started over (`since`): a packet of an earlier
run that is still on its way when the source restarts is rightly dropped, and
does not count against the new run.

The rigid variable `world` says what may happen, since no property holds with
everything at once:

* `delayed`: packets arrive late, twice, in any order or never, and queries fail,
  except the write of the cursor; one packet is handled at a time;
* `ordered`: packets arrive in the order of sending, only the newest is sent
  again; sources and the server restart, and every query may fail, the saving of
  the snapshot (whose error is logged) and the write of the cursor included; one
  at a time;
* `overlap`: several packets in the server at once.  The code does nothing
  against it; run `telemetry_overlap` shows what comes of it.

### 2.6 Registrations and SeatBook

The rows of one session.  `reg[t]` is the row of team `t`, `session` the `Session`
row, `tx[p]` what the transaction of request `p` is going to write, `ban` and
`imp` the ban and the import under way.

| actions | code |
|---|---|
| `RegisterTeam` | `registerTeam`, normal and VIP: `lowestAvailableSlot`, else `nextWaitlistPosition` |
| `PlaceInSlot`, `PlaceOnWaitlist` | `updateRegistrationPlacement` with SLOT, APPROVE, VIP; with WAITLIST |
| `RemoveRegistration`, `RemoveSlotRegistrations` | the functions of these names |
| `Commit`, `RollBack` | the end of `withSessionMutation`'s transaction |
| `UpdateSession` | `update` |
| `BanCreate`, `BanRemove`, `BanRead`, `BanWrite`, `BanCrash`, `BanRevoke` | `create`, `removeTeamFromSession` and `repackSessionWaitlist` of the bans service, statement by statement |
| `ImportBegin`, `ImportRow`, `ImportCommit`, `ImportFail` | the slot-list imports of Telegram and Discord, and of production (`locks = FALSE`) |

A SERIALIZABLE transaction sees what was committed when it began, so a request
is settled when it begins: its action computes the rows it will leave, checks
included, and `tx[p]` keeps them.  Postgres fails it at its commit when the
`Session` row or a row it writes has changed, or when another serializable
transaction has committed; nothing in the code retries, so it is dropped in the
step that causes this.  Imports work on the list they read at the beginning
(`imp.mem`) and show their writes when they commit.  `schema.prisma` has no
unique index on slots or waitlist positions, and migrations are not part of the
repository: the module is the code without one.

`mode`, rigid too, says who writes: `own` (the service alone, and no update that
takes away a slot in use), `bans` (bans too, never while a request is under
way), `imports` (any update, and imports that write the `Session` row first),
`mixed` (imports, and bans at any time), `production` (imports that do not write
it, too).

`SeatBook` promises a seating plan and a queue, changed by one request at a
time: a newcomer gets the lowest free seat or joins the end of the queue, a team
is moved only by a request about that team, and the order of the others stays.
Its queue is a set of teams and the relation `ahead` between them.
`KeepsTheSeatBook` is the refinement in the modes `own` and `bans`:
`waiting <- Waiting(reg)`, and `ahead` holds where one position is lower than
another, so that gaps and repacking do not show.

Left out: registration windows, rosters and play status, notes, Discord
messages, bans for a match, for every session and of managers, the expiry of
bans.  The no-show bans of `ResultsService` remove a team and repack the
waitlist by the same statements.  `promoteNextWaitlist` has no caller.

## 3. Plan

Done, the most important behaviour first: `MatchStatus`, `MatchLifecycle` with
its ledger and proofs; `LiveScope` with its proofs; `LiveStateStore` with its
abstraction and proofs; `Registrations` with its abstraction and proofs;
`TelemetryIngress` with its proofs.  Every safety property, action property and
refinement a passing run checks is a theorem.  What could follow:

1. `PublicationOrder`, composing lifecycle and store: the trailing publish and
   eviction of a start against a concurrent end.
2. `MatchLock`: the lock contract and the results edits it guards, with manual
   lock and forced unlock.
3. `RedisFallback`: what the store promises when a process loses Redis.
4. `Placement` and scoring as functions, checked against reference definitions.
5. The queue of the desktop's telemetry bridge, as the sender of the packets.

## 4. What is checked

Sizes are distinct states.  `CHECK_DEADLOCK FALSE` everywhere: the bounds end
every behaviour, and a match or session nobody touches really does stop.
Symmetry is used only in runs without liveness.

| run | bounds | shows |
|---|---|---|
| `lifecycle_all` | 2 requests, 1 session, every operation, 2 runs, client work up to version 3, 1 restart (850 thousand) | `TypeOK`, `PublishedAtMostOnce`, `FinalizationSafe` (the inductive invariant), `FinishedOnlyFromPending`, `ImplementsLedger` |
| `lifecycle_versioned` | 2 requests, versioned clients, no telemetry, 2 runs, version 3, 1 restart, fairness (180 thousand) | `RowsAgree`, `PendingMatchIsResolved` |
| `lifecycle_sequential` | 1 request, 2 sessions, every operation, 3 runs, version 9, 1 restart (250 thousand) | `FinishedHasThisRunsResults` |
| `scope_starts` | 3 matches, 2 of them LIVE at first, 2 starts, fairness (340 thousand) | `TypeOK`, `TwoLiveOnlyByOverlap`, `StartEndsWhatItSaw`, `StartsTerminate` |
| `live_store` | 2 publishes, in 2 processes with Redis or in 1 without; 2 tries, version 2, 1 eviction (1.5 million) | `TypeOK`, `ImplementsVersionedState`, `ReplacesWhatItRead`, `TelemetryKeepsWhatWasRead` |
| `registrations_all` | 3 teams, 2 requests, up to 3 slots (1 normal, 1 VIP), modes own, bans, imports (40 thousand) | `TypeOK`, `NoDoubleBooking`, `RowsStayUsable`, `ClosedMeansClosed`, `ImportsSpareManual`, `KeepsTheSeatBook` |
| `telemetry_ingress` | 1 packet in the server, 5 packets, 2 sessions, reset distance 2, 1 restart or crash, worlds delayed and ordered (3.2 million) | `TypeOK`, `AcknowledgedIsSaved`, `RestartedSourceIsHeard`, `NeverGoesBack` |
| `stale_meta`, `store_shared`, `registrations_import`, `registrations_production`, `telemetry_overlap` | see 6. | disagreements |

Why the bounds suffice.  The hazards of the lifecycle are races of *two*
requests (one that read, one that commits in between) and leftovers from the
*previous* run, so two slots and two runs (three in the sequential run) show
them; the version bound stops new client work only, requests in flight go on
past it, so version 3 still lets an unlock and a restart overtake a
finalization.  For starts, two transactions and the two LIVE matches they both
want to end are enough for a cycle of waits and for both orders of the second
look.  For publishes, one conflicting pair, a retry after each kind of conflict
and one eviction cover every branch of `save` and `publish`.  For registrations,
three slots of which the first is not for registration make the normal range,
the VIP range and a slot outside both; three teams then mean one seated and two
waiting, which is the least a repacked waitlist can go wrong with, and two
requests make every race.  The state constraint keeps the waitlist enabled
(disabling it only refuses requests) and, with imports, has two teams and one
request: an import races with one request over one slot or one team.  For
telemetry, a source that has sent five packets and starts over needs
`Delta + 1` of them to be heard, so that five packets with a reset distance of
two, three of them lost at first, show the bound of `RestartedSourceIsHeard` to
be tight (`Delta` refutes it); two restarts show nothing more and take the run
four times as long, and the theorem covers every number; a late packet, a repeated one and a packet of the
old session fit in as well.

Preconditions that matter.  `RowsAgree` needs clients that always send the
version they saw, and no telemetry: `setStatus` writes `Match.status` only if the
status it *read* differs, so that an unversioned reset racing a start leaves the
control row READY and the match row LIVE; and `persistState` writes the control
row from a copy.  `FinishedHasThisRunsResults` needs one request at a time: see
6.  `NoDoubleBooking` and `ImportsSpareManual` need imports that write the
`Session` row;
`RowsStayUsable` and `KeepsTheSeatBook` need that there are no imports, and that
bans keep apart from requests.  `NeverGoesBack` and the other telemetry
properties need packets, and readers of the state, that come one at a time.

### Fairness

Used in the runs `lifecycle_versioned` and `scope_starts`.
`MatchLifecycle!Fairness` is weak fairness of every request's steps (node runs
an accepted request to its end unless the process dies) and strong fairness of
`QueueRecovery`: a pending match keeps being read, by overlays, dashboards and
polling clients, and each read after a minute queues a recovery unless one is
running.  Strong, because the model's two slots may be full now and then, the
API's never are.  Nothing is assumed of clients, packets, play or restarts.
`LiveScope!FairSpec` assumes that a start that can go on does, and that Postgres
breaks deadlocks.

## 5. What is proved

The theorems hold for every number of requests, sessions, matches, starts,
processes, publishes, retries, packets and teams, and for every value of the
bounds.  A theorem that needs more than the assumptions on the constants says so
in its ASSUME; those hypotheses are named below with what justifies them.

**`MatchLifecycle_proofs`**

* `TypeCorrect`: `Spec => []TypeOK`.
* `FinalizationIsSafe`: `Spec => []FinalizationSafe`.  `PublishedAtMostOnce` is
  not inductive: a request between the reads and the writes of `finalizeMatch`
  could hold anything.  The strengthening says what keeps it right.
  `ReadsAreCurrent`: as long as the version is the one that request read, the
  match is still pending, in the same run, and if it found no final results there
  are none.  It holds because every commit that changes status, run or slot rows
  also moves the version on, while the unversioned writers change neither.
  `PublishedIsRecorded`: a run without final slot rows was not published, nor
  was any run to come.  The steps fall into three kinds, those that touch nothing of this
  (`QuietStep`), those that move the version on (`VersionedStep`), and
  `FinalizeRead` / `FinalizeCommit`.
* `ResultsPublishedOnce`, `FinishedFromPending`: the safety properties from it.
* `LedgerImplemented`: `Spec => ImplementsLedger`, step by step under the
  refinement mapping, with the same invariant.

**`MatchRows_proofs`**

* `RowsTellOneStory`: if every client sends the version it saw (`Versioned = TRUE`)
  and no telemetry packet comes (`"packet" \notin Ops`), `Spec => []RowsAgree`.
  Section 4 says why both are needed; run `lifecycle_versioned` is such an
  instance.  The invariant adds `Honest`: a request that will write the match row
  by the status it *read* (`start`, `setStatus`) either read the status of now or
  will be refused for its version.
* `SoleRequestFinishesItsRun`: with one request at a time
  (`\A p, q \in Req : p = q`), `Spec => [](FinishedHasThisRunsResults /\ RowsAgree)`,
  with any number of sessions, runs, packets and restarts and with unversioned
  clients.  So what `stale_meta` shows takes two requests.  `SoleInv` says that
  nothing comes between a request's reads and writes (`Undisturbed`), and that
  slot rows and `metaJson` speak of the present run only (`SlotsOfRun`).

**`LiveScope_proofs`**

* `TypeCorrect`: `Spec => []TypeOK`.
* `OneLiveUnlessOverlap`: `Spec => []TwoLiveOnlyByOverlap`.  The heart is
  `NobodyForgotten`: whatever is LIVE and is neither the start's own match nor on
  its list of conflicts was made LIVE by a start it overlaps with.  `OwnRowHeld`
  (from `GoLive` on a start holds the lock of its row and has no conflict left)
  makes this say, at its commit, that nothing else is LIVE;
  `OverlapIsMutual` and `LiveByDone` make overlapping the symmetric relation the
  property speaks of.
* `StartEndsItsConflicts`: `Spec => StartEndsWhatItSaw`, from `SeenDealtWith`: what
  a start saw LIVE is on its list, was ended, or has a newer version.

**`LiveStateStore_proofs`**

All but the first assume that every deployment considered is a `SingleStore`:
with Redis no two publishes share a connection, or without Redis all publishes
run in one process.  Both occur in run `live_store`.  The assumption is needed:
the API's processes do overlap saves on their one connection, and `store_shared`
is what happens then.

* `TypeCorrect`: `Spec => []TypeOK`, in any deployment.
* `VersionedStateImplemented`: `Spec => ImplementsVersionedState`, if there is a
  publish at all.  The invariant is `WatchProtects`: between GET and EXEC, while
  the watch is clean, the key is what GET returned.
* `SavesReplaceWhatTheyRead`, `TelemetryKeepsItsState`: `Spec => ReplacesWhatItRead`
  and `Spec => TelemetryKeepsWhatWasRead`.  A version alone does not name a state,
  since an eviction starts the versions again; `ReadsStand` says that within an
  era of the match it does, so that a save that finds the version its publish
  expects replaces the state that publish was merged with and judged by.
* `InitializedStaysInOneStore`: `Spec => InitializedStays`, the property that
  `store_shared` refutes where two publishes share a connection.

**`Registrations_proofs`** (any finite set of teams, any requests and slots)

* `TypeCorrect`: `Spec => []TypeOK`, in every mode.
* `NobodyDoubleBooked`: `Spec => []NoDoubleBooking`.  The invariant `SlotsInv`
  speaks of the rows as they are and as *every* transaction under way would leave
  them (`Apply(reg, tx[p])`): both have a slot only where the status is
  CONFIRMED, and no slot twice.  `ImportRemembers` adds that the list an import
  works on is the rows it has not written, and has no slot twice either.  It
  covers `mixed`, which the runs do not.
* `RowsAlwaysUsable`: `Spec => []RowsStayUsable`.  `UsableInv` is the same
  construction with the whole consistency check; `PlanIsSafe` says what the
  positions a half-done ban has still to write may be: each is free, or held by
  a team that is moved before, so that after any prefix of the writes no
  position is held twice.
* `OnlyTheOpenAdmit`: `Spec => ClosedMeansClosed`, from `NewcomersBelong`: a
  transaction that brings a team in found the session open, and the session has
  not changed since.
* `ManualRegistrationsSpared`: `Spec => ImportsSpareManual`, also in `mixed`.  An
  import takes a place only from teams it remembers as imported; `SparesManual`
  says that those are imported still, because until it commits rows only leave
  or change their position.

**`SeatBook_proofs`**

* `SeatBookKept`: `Spec => KeepsTheSeatBook`.  The actions of `SeatBook` are
  restated as relations between two sets of rows (`Moves`), and `BookInv` says
  that every transaction under way would move the book by one action *from the
  rows of now*: for the one that has just begun by what the code computes (the
  lowest free slot is the least element, the next position is behind all others,
  repacking keeps the order), for the others because each commit and each change
  of the session drops them.  A ban that goes on must not be seen in the book:
  `PlanKeepsOrder` says that it moves everybody forward and that whoever was ahead
  stays ahead, after each of its writes.

**`TelemetryIngress_proofs`**, **`TelemetryRestart_proofs`** (any number of packets,
sessions and restarts, any reset distance)

* `TypeCorrect`: `Spec => []TypeOK`, in every world.
* `AcknowledgedSaved` and `OneAtATimeNeverGoesBack`: if packets do not overlap
  (`"overlap" \notin Worlds`; run `telemetry_overlap` is what happens if they do),
  `Spec => []AcknowledgedIsSaved` and
  `Spec => NeverGoesBack`.  The heart of `Inv` is `Newer`: the packet in the
  server is no older than any state in memory, in the snapshot or acknowledged.
  In `ordered` that is because it is the newest received (`InOrder`).  In
  `delayed` it is because of the cursor: sequence numbers follow the order of
  sending (`Numbered`), and the cursor has reached every state known
  (`Delayed`), so what it lets through is newer.  `OneAtATime`, `Copies` and
  `Saved` say that nobody changes the runtime between two steps of a packet, and
  that the snapshot is no older than the memory.
* `RestartIsHeard`: `Spec => []RestartedSourceIsHeard`.  The bound `Delta + 1` is a
  count over a behaviour, so the invariant gives every packet still to come the
  room left for it (`RoomLeft`): no more packets of its run have been dropped in a
  row than the cursor can have dropped before it (those with a number between the
  cursor's less `Delta` and its own) and one that the accepted run drops, which
  makes that run its own.  The proof is where it came out that only packets
  of the present run of the source may count.

Numbers and sets need no induction principle here: where a least element is
wanted, `LeastNumber` takes it from the library's well-founded order on the
naturals.

Only model-checked: liveness (`PendingMatchIsResolved`, `StartsTerminate`), which
under fairness is out of the prover's reach.  The recursion-free functions of
`MatchStatus` are proved about only as far as the lifecycle uses them.

## 6. Disagreements found

Each is a run that TLC refutes; `PROJECT.json` quotes the line it contradicts.

* `stale_meta`: the `metaJson` writers read the whole object, await, and write
  it back.  The snapshot after a finalization can so restore `resultFinalized`
  over an unlock and a new start, and the next run is finished without results
  of its own.
* `store_shared`: saves of one process share a WATCH, and EXEC or UNWATCH of one
  takes it away from the other, which then overwrites a state it did not read.
* `registrations_import`: an import marks the teams it drops REMOVED and leaves
  `deletedAt` null, and every later request for the session refuses its rows.
* `registrations_production`: the production import writes the `Session` row only
  if the number of slots changes, so it neither waits for nor stops a
  registration; two teams get one slot.
* `telemetry_overlap`: a packet's checks come before its awaits, and its state is
  stored at the end without a look; of two packets at once, the older may win.

Limits of the code that no run refutes a document with:

* two starts that both read DRAFT start the match twice; a packet of a session
  that was rebound after its check still ends the match; a publish that read no
  state saves without an expected version over whatever is stored by then;
* `clearFinalizationMeta` keeps the eligibility keys, so the count validated in
  one run lets the recovery confirm the next one while several teams are alive;
* `endMatch` with a client version finalizes with that version, which its own
  transaction made stale; it fails, and a recovery has to finish;
* a match ended by another match's start is confirmed by a loop after that
  start's transaction; if it is cut off, the match stays ENDED, and recovery
  looks at FINISH_PENDING only;
* a ban writes the positions it planned whatever became of the rows: one
  confirmed meanwhile gets a position next to its slot, and later requests refuse
  the session; an `update` that lowers `slotCount` does the same to the slots
  beyond it; an import of a team whose row is deleted fails as a whole;
* a snapshot that fails to be saved is only logged, so a crash then loses what
  was acknowledged (`unsaved` in `AcknowledgedIsSaved`); a rewind of the source
  within the reset distance, again and again, or with a clock that is behind,
  keeps a source mute; and a packet that is dropped as stale still moves the
  accepted run back to its own number.

## 7. Not modelled

Components with status `not_modelled` in `PROJECT.json`: CRUD, presentation,
integrations with outside services, access control, clients (they are the
environment here), legacy services that are off by default.  Most of the
repository is of that kind: the Discord bot, the web application and the
rendering services format, fetch and show what the API decides.  Of the modelled
components: what sections 2.1 to 2.6 list as left out.
