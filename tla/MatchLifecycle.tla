--------------------------- MODULE MatchLifecycle ---------------------------
(***************************************************************************)
(* The lifecycle of one match as apps/api's MatchControlService runs it:   *)
(* several API requests are in flight at once, each loads the match, thinks *)
(* across awaits, and then commits one Postgres transaction that writes    *)
(* the Match row and, through writeControlStateCas, the MatchControlState  *)
(* row.  The telemetry pipeline and the result snapshots rewrite the       *)
(* control row's metaJson as well, outside that discipline.                *)
(*                                                                         *)
(* A request is a record in req[p]: where it is (pc), what it was asked    *)
(* (op, exp, sess) and what it read before its last await (ver, status,    *)
(* control, meta, run, applied).  Every step below is one request between  *)
(* two awaits, or one transaction; a transaction is atomic from its        *)
(* match.update, which takes the row lock, to its commit.                  *)
(***************************************************************************)
EXTENDS Integers, MatchStatus

CONSTANTS
  Req,            \* request slots: how many requests may be in flight at once
  Session,        \* telemetry session identifiers
  Ops,            \* the operations clients and workers submit
  Versioned,      \* TRUE: every client that can send a control version does
  MaxRun,         \* bound: match starts
  MaxVersion,     \* bound: no new client work once the control row is this old
  MaxCrash        \* bound: API process restarts

ASSUME BoundsAssumption == MaxRun \in Nat /\ MaxVersion \in Nat /\ MaxCrash \in Nat
ASSUME VersionedAssumption == Versioned \in BOOLEAN

NoVersion == -1   \* the request carries no version (dto.version ?? null)
NoRun     == -1   \* the field is absent from metaJson, or null in the slot rows
NoSession == "none"
Runs      == 0 .. MaxRun

ASSUME SessionAssumption == NoSession \notin Session

\* The operations that reach the service.  start, end, confirm, ready, pending
\* come from the control API and the sockets, unlock from the admin API;
\* autoend is another match of the organization going live; packet is a
\* telemetry packet; note is any other writer of metaJson; recover is the
\* background finalization recovery.
ClientOps == {"start", "end", "confirm", "ready", "pending"}
AllOps == ClientOps \cup {"unlock", "autoend", "packet", "note", "recover"}
ASSUME OpsAssumption == Ops \subseteq AllOps

VARIABLES
  status,     \* Match.status
  control,    \* MatchControlState.state
  version,    \* MatchControlState.version (0: no row yet, or never written)
  meta,       \* MatchControlState.metaJson, see Meta
  slotRun,    \* the run whose results the slot rows hold as final (finalizedAt)
  session,    \* Match.pcobSessionId
  run,        \* how often the match has been started (Match.startedAt moves on)
  oneTeam,    \* the live state store is initialized and has <= 1 team alive
  manyAlive,  \* the slot rows show more than one team alive
  published,  \* published[r]: how often results were computed in run r
  req,        \* the requests in flight
  crashes     \* restarts so far

db     == <<status, control, version, meta, slotRun, session, run, published>>
live   == <<oneTeam, manyAlive>>
vars   == <<status, control, version, meta, slotRun, session, run, oneTeam,
            manyAlive, published, req, crashes>>

\* metaJson, cut down to the keys the lifecycle reads: fin is resultFinalized
\* and finalizedAt, elig is finishEligibilityVerifiedAt with
\* finishEligibilityAliveTeams <= 1 (both tagged with the run they were
\* written in), pend is finalizationStartedAt, tel is telemetryRuntime /
\* telemetrySequence / liveSync.
Meta == [fin: Runs \cup {NoRun}, elig: Runs \cup {NoRun}, pend: BOOLEAN, tel: BOOLEAN]
EmptyMeta == [fin |-> NoRun, elig |-> NoRun, pend |-> FALSE, tel |-> FALSE]

PCs == {"idle", "load", "commit", "confirm", "promote", "resolve", "finread",
        "fincommit", "metaread", "metawrite", "persistread", "persistwrite"}

ReqOps == AllOps \cup {"restart", "detect", "eligible", "none"}

Request == [op: ReqOps, pc: PCs, exp: Int, sess: Session \cup {NoSession},
            ver: Int, status: MatchStatuses, control: ControlStates,
            meta: Meta, run: Runs, applied: BOOLEAN]

Idle == [op |-> "none", pc |-> "idle", exp |-> NoVersion, sess |-> NoSession,
         ver |-> 0, status |-> "DRAFT", control |-> "READY",
         meta |-> EmptyMeta, run |-> 0, applied |-> FALSE]

Init ==
  /\ status = "DRAFT" /\ control = "READY" /\ version = 0 /\ meta = EmptyMeta
  /\ slotRun = NoRun /\ session = NoSession /\ run = 0
  /\ oneTeam = FALSE /\ manyAlive = FALSE
  /\ published = [r \in Runs |-> 0]
  /\ req = [p \in Req |-> Idle] /\ crashes = 0

-----------------------------------------------------------------------------
(* Helpers: what the service's private methods do.                         *)

\* The request goes on with record r, which may forget what it no longer needs.
Goto(p, r) == req' = [req EXCEPT ![p] = r]
Done(p)    == Goto(p, Idle)

\* A request keeps a copy of the row it read; loadMatch reads the session too.
Loaded(r)    == [r EXCEPT !.status = status, !.control = control, !.meta = meta,
                          !.run = run]
LoadMatch(r) == [Loaded(r) EXCEPT !.sess = session, !.pc = "commit"]

\* Mutant: the control state is stored where the business status belongs.
ResetRunToControlState(r) ==
  /\ status' = "READY"
  /\ session' = IF r.sess # NoSession THEN NoSession ELSE session

\* buildRunResetMatchData: DRAFT again, and the session goes if one was read.
ResetRun(r) ==
  /\ status' = "DRAFT"
  /\ session' = IF r.sess # NoSession THEN NoSession ELSE session

\* Mutant: the version a client sends is ignored.
VersionIgnored(exp) == exp \in Int

\* The version test of writeControlStateCas: null skips it.
VersionMatches(exp) == exp = NoVersion \/ exp = version

\* Mutant: the version is not moved on.
WriteSameVersion(state, newMeta) ==
  /\ control' = state
  /\ meta' = newMeta
  /\ UNCHANGED version

\* The write of writeControlStateCas: state, metaJson, and version + 1.
WriteControlState(state, newMeta) ==
  /\ control' = state
  /\ meta' = newMeta
  /\ version' = version + 1

\* Mutant: the finalized flag outlives a reset or a start.
ClearPendingOnly(m, keepTelemetry) ==
  [m EXCEPT !.pend = FALSE, !.tel = keepTelemetry /\ m.tel]

\* buildControlMetaJson with clearFinalization: the eligibility keys stay.
ClearFinalization(m, keepTelemetry) ==
  [m EXCEPT !.fin = NoRun, !.pend = FALSE, !.tel = keepTelemetry /\ m.tel]

\* buildFinalizationEligibilityMeta without and with an alive-team count.
MarkPending(m)     == [m EXCEPT !.pend = TRUE]
MarkEligible(m, r) == [m EXCEPT !.pend = TRUE, !.elig = r]

\* loadMatch's lifecycle of what is persisted now.
LifecycleNow == Lifecycle(status, control, meta.fin # NoRun)

\* The conditions under which confirmFinishedIfEligible confirms a pending match.
EligibleToConfirm == ~manyAlive \/ meta.elig # NoRun \/ oneTeam

-----------------------------------------------------------------------------
(* Requests arrive.                                                        *)

\* A client submits an operation.  exp is the control version the client last
\* saw, or none; unlock, packets and notes carry no version.
Submit(p, op, exp) ==
  /\ req[p].pc = "idle"
  /\ op \in Ops \cap (ClientOps \cup {"unlock", "note"})
  /\ version < MaxVersion
  /\ op = "start" => run < MaxRun
  /\ IF op \in ClientOps
       THEN exp \in (IF Versioned THEN {version} ELSE {NoVersion, version})
       ELSE exp = NoVersion
  /\ Goto(p, [Idle EXCEPT !.op = op, !.exp = exp,
                          !.pc = IF op = "note" THEN "metaread" ELSE "load"])
  /\ UNCHANGED <<db, live, crashes>>

\* TelemetryIngressService.ingest accepts a packet: the lifecycle is LIVE and
\* the packet's session is the match's.
AcceptPacket(p) ==
  /\ req[p].pc = "idle"
  /\ "packet" \in Ops
  /\ version < MaxVersion
  /\ LifecycleNow = "LIVE"
  /\ session # NoSession
  /\ Goto(p, [Idle EXCEPT !.op = "packet", !.sess = session, !.pc = "persistread"])
  /\ UNCHANGED <<db, live, crashes>>

\* resolveFinalizationTiming: somebody reads the lifecycle of a match that has
\* been pending for a minute, and no recovery of it is in flight.
QueueRecovery(p) ==
  /\ req[p].pc = "idle"
  /\ "recover" \in Ops
  /\ status = "FINISH_PENDING" /\ meta.pend
  /\ \A q \in Req : req[q].op # "recover"
  /\ Goto(p, [Idle EXCEPT !.op = "recover", !.pc = "load"])
  /\ UNCHANGED <<db, live, crashes>>

\* autoEndOtherLiveMatchesInScope, run by the start of another match: the row
\* is ended if either column still says LIVE, and then confirmFinished runs.
AutoEnd(p) ==
  /\ req[p].pc = "idle"
  /\ "autoend" \in Ops
  /\ version < MaxVersion
  /\ status = "LIVE" \/ control = "LIVE"
  /\ status' = "ENDED"
  /\ WriteControlState("ENDED", meta)
  /\ oneTeam' = FALSE
  /\ Goto(p, [Idle EXCEPT !.op = "autoend", !.pc = "confirm"])
  /\ UNCHANGED <<slotRun, session, run, manyAlive, published, crashes>>

-----------------------------------------------------------------------------
(* endMatch.                                                               *)

EndLoad(p) ==
  /\ req[p].op = "end" /\ req[p].pc = "load"
  /\ IF IsFinishedStatus(status)
       THEN Done(p)
       ELSE Goto(p, [Loaded(req[p]) EXCEPT !.pc = "commit"])
  /\ UNCHANGED <<db, live, crashes>>

\* The transaction; then finalizeMatch is called with the caller's version if
\* there was one, and with the version read afterwards otherwise.
EndCommit(p) ==
  /\ req[p].op = "end" /\ req[p].pc = "commit"
  /\ VersionMatches(req[p].exp)
  /\ status' = "FINISH_PENDING"
  /\ WriteControlState("FINISH_PENDING", MarkPending(meta))
  /\ Goto(p, [Idle EXCEPT !.op = "end", !.exp = req[p].exp, !.pc = "resolve"])
  /\ UNCHANGED <<slotRun, session, run, published, live, crashes>>

(* detectMatchFinish, reached from a packet through                        *)
(* applyAuthoritativeMatchEnd.                                             *)

DetectLoad(p) ==
  /\ req[p].op = "detect" /\ req[p].pc = "load"
  /\ IF /\ session \in {NoSession, req[p].sess}
        /\ status = "LIVE"
        /\ oneTeam
       THEN Goto(p, [Loaded(req[p]) EXCEPT !.pc = "commit"])
       ELSE Done(p)
  /\ UNCHANGED <<db, live, crashes>>

\* The transaction carries no expected version: whatever is there now becomes
\* FINISH_PENDING.  Then confirmFinishedIfEligible.
DetectCommit(p) ==
  /\ req[p].op = "detect" /\ req[p].pc = "commit"
  /\ status' = "FINISH_PENDING"
  /\ WriteControlState("FINISH_PENDING", MarkEligible(meta, req[p].run))
  /\ Goto(p, [Idle EXCEPT !.op = "eligible", !.pc = "load"])
  /\ UNCHANGED <<slotRun, session, run, published, live, crashes>>

(* confirmFinishedIfEligible, called by detectMatchFinish and by recovery. *)

\* Mutant: a match already pending is not confirmed.
EligibleLoadLiveOnly(p) ==
  /\ req[p].op \in {"eligible", "recover"} /\ req[p].pc = "load"
  /\ IF status = "LIVE" /\ ~manyAlive
       THEN Goto(p, [req[p] EXCEPT !.pc = "confirm"])
       ELSE Done(p)
  /\ UNCHANGED <<db, live, crashes>>

EligibleLoad(p) ==
  /\ req[p].op \in {"eligible", "recover"} /\ req[p].pc = "load"
  /\ IF \/ status = "FINISH_PENDING" /\ EligibleToConfirm
        \/ status = "LIVE" /\ ~manyAlive
       THEN Goto(p, [req[p] EXCEPT !.pc = "confirm"])
       ELSE Done(p)
  /\ UNCHANGED <<db, live, crashes>>

(* confirmFinished and ensureFinishPendingForFinalization.                 *)

ConfirmLoad(p) ==
  /\ \/ req[p].op = "confirm" /\ req[p].pc = "load"
     \/ req[p].pc = "confirm"
  /\ CASE status = "FINISH_PENDING" -> Goto(p, [req[p] EXCEPT !.pc = "resolve"])
       [] status = "ENDED"          -> Goto(p, [req[p] EXCEPT !.pc = "promote"])
       [] OTHER                     -> Done(p)
  /\ UNCHANGED <<db, live, crashes>>

\* ENDED becomes FINISH_PENDING; the version written is the one to finalize at.
Promote(p) ==
  /\ req[p].pc = "promote" /\ status = "ENDED" /\ VersionMatches(req[p].exp)
  /\ status' = "FINISH_PENDING"
  /\ WriteControlState("FINISH_PENDING", MarkPending(meta))
  /\ Goto(p, [req[p] EXCEPT !.ver = version + 1, !.pc = "finread"])
  /\ UNCHANGED <<slotRun, session, run, published, live, crashes>>

\* Someone else moved the match on: fine if towards FINISHED, a conflict if not.
PromoteLost(p) ==
  /\ req[p].pc = "promote" /\ status # "ENDED"
  /\ IF status \in {"FINISH_PENDING", "FINISHED"}
       THEN Goto(p, [req[p] EXCEPT !.pc = "resolve"])
       ELSE Done(p)
  /\ UNCHANGED <<db, live, crashes>>

\* The version finalizeMatch will insist on (resolveFinalizationVersion).
ResolveVersion(p) ==
  /\ req[p].pc = "resolve"
  /\ Goto(p, [req[p] EXCEPT !.pc = "finread",
                !.ver = IF req[p].exp # NoVersion THEN req[p].exp ELSE version])
  /\ UNCHANGED <<db, live, crashes>>

(* finalizeMatch.                                                          *)

\* Mutant: only the flag in metaJson is believed.
FinalResultsFlagged == meta.fin # NoRun

\* finalResultsAlreadyApplied: the flag in metaJson, or a finalized slot row.
FinalResultsAlreadyApplied == meta.fin # NoRun \/ slotRun # NoRun

\* Mutant: a match that has the right version is finalized in any status.
FinalizeReadAnyStatus(p) ==
  /\ req[p].pc = "finread"
  /\ IF version = req[p].ver
       THEN Goto(p, [Loaded(req[p]) EXCEPT !.pc = "fincommit",
                                           !.applied = FinalResultsAlreadyApplied])
       ELSE Done(p)
  /\ UNCHANGED <<db, live, crashes>>

\* The reads of the transaction, before the results are computed.
FinalizeRead(p) ==
  /\ req[p].pc = "finread"
  /\ IF status = "FINISH_PENDING" /\ version = req[p].ver
       THEN Goto(p, [Loaded(req[p]) EXCEPT !.pc = "fincommit",
                                           !.applied = FinalResultsAlreadyApplied])
       ELSE Done(p)
  /\ UNCHANGED <<db, live, crashes>>

\* Mutant: the control row is written without comparing its version.
FinalizeCommitUnchecked(p) ==
  LET r == req[p] IN
  /\ r.pc = "fincommit"
  /\ status' = "FINISHED"
  /\ WriteControlState("ENDED", [r.meta EXCEPT !.fin = run])
  /\ IF r.applied
       THEN UNCHANGED <<slotRun, published, manyAlive>>
       ELSE /\ slotRun' = run
            /\ manyAlive' = FALSE
            /\ published' = [published EXCEPT ![run] = @ + 1]
  /\ Done(p)
  /\ UNCHANGED <<session, run, oneTeam, crashes>>

\* The writes: team, player and standing rows unless they were applied, the
\* match row, and the control row at the version the reads saw.
FinalizeCommit(p) ==
  LET r == req[p] IN
  /\ r.pc = "fincommit"
  /\ version = r.ver
  /\ status' = "FINISHED"
  /\ WriteControlState("ENDED",
       [r.meta EXCEPT !.fin = IF r.applied /\ r.meta.fin # NoRun THEN @ ELSE run])
  /\ IF r.applied
       THEN UNCHANGED <<slotRun, published, manyAlive>>
       ELSE /\ slotRun' = run
            /\ manyAlive' = FALSE
            /\ published' = [published EXCEPT ![run] = @ + 1]
  /\ Goto(p, [Idle EXCEPT !.op = "note", !.pc = "metaread"])
  /\ UNCHANGED <<session, run, oneTeam, crashes>>

-----------------------------------------------------------------------------
(* startMatch / setMatchLive / setMatchLiveInternal.                       *)

StartLoad(p) ==
  /\ req[p].op = "start" /\ req[p].pc = "load"
  /\ IF IsStartable(status) \/ status = "LIVE"
       THEN Goto(p, LoadMatch(req[p]))
       ELSE Done(p)
  /\ UNCHANGED <<db, live, crashes>>

\* setMatchLiveInternal as the second half of an unlock: no guard on the status.
RestartLoad(p) ==
  /\ req[p].op = "restart" /\ req[p].pc = "load"
  /\ Goto(p, LoadMatch(req[p]))
  /\ UNCHANGED <<db, live, crashes>>

\* shouldPreserveTelemetryOnLiveTransition: a telemetry-sourced start of a
\* match that already has telemetry keeps the rows of the run in progress.
MayPreserveTelemetry(r, s) ==
  /\ Lifecycle(r.status, r.control, r.meta.fin # NoRun) # "LIVE"
  /\ r.meta.tel
  /\ r.sess \in {NoSession, s} \/ s = NoSession

\* The start transaction.  s is the session it binds (resolveStartSessionBinding;
\* NoSession: it leaves the binding alone); unless telemetry is preserved, resetLiveProjection clears the slot rows.
StartCommit(p, s, preserve) ==
  LET r == req[p] IN
  /\ r.pc = "commit"
  /\ r.op = "restart" \/ (r.op = "start" /\ r.status # "LIVE")
  /\ VersionMatches(r.exp)
  /\ run < MaxRun
  /\ preserve => MayPreserveTelemetry(r, s)
  /\ status' = "LIVE" /\ run' = run + 1
  /\ session' = IF s = NoSession THEN session ELSE s
  /\ WriteControlState("LIVE", ClearFinalization(meta, preserve))
  /\ slotRun' = IF preserve THEN slotRun ELSE NoRun
  /\ manyAlive' = (preserve /\ manyAlive)
  /\ oneTeam' = FALSE
  /\ Done(p)
  /\ UNCHANGED <<published, crashes>>

\* handleAlreadyLiveStart: a start of a LIVE match changes nothing, or rebinds
\* the session if it names another one, or locks the telemetry source (s is
\* NoSession or the session already bound) and rewrites the control row.
AlreadyLive(p) ==
  /\ req[p].op = "start" /\ req[p].pc = "commit" /\ req[p].status = "LIVE"
  /\ Done(p)
  /\ UNCHANGED <<db, live, crashes>>

RebindCommit(p, s) ==
  LET r == req[p]
      rebinds == s \notin {NoSession, r.sess}
  IN
  /\ r.op = "start" /\ r.pc = "commit" /\ r.status = "LIVE"
  /\ VersionMatches(r.exp)
  /\ session' = IF rebinds THEN s ELSE session
  /\ oneTeam' = (oneTeam /\ ~rebinds)
  /\ WriteControlState("LIVE", meta)
  /\ Done(p)
  /\ UNCHANGED <<status, slotRun, run, manyAlive, published, crashes>>

(* unlockMatch.                                                            *)

UnlockLoad(p) ==
  /\ req[p].op = "unlock" /\ req[p].pc = "load"
  /\ IF IsFinishedStatus(status) \/ IsFinalizingStatus(status)
       THEN Goto(p, LoadMatch(req[p]))
       ELSE Done(p)
  /\ UNCHANGED <<db, live, crashes>>

\* Back to DRAFT, whatever the match is by now; with a LIVE target the same
\* request starts the match again.
UnlockCommit(p, restart) ==
  /\ req[p].op = "unlock" /\ req[p].pc = "commit"
  /\ ResetRun(req[p])
  /\ WriteControlState("READY", ClearFinalization(meta, FALSE))
  /\ oneTeam' = FALSE
  /\ IF restart
       THEN Goto(p, [Idle EXCEPT !.op = "restart", !.pc = "load"])
       ELSE Done(p)
  /\ UNCHANGED <<slotRun, run, manyAlive, published, crashes>>

(* setStatus to READY or COUNTDOWN, and to FINISH_PENDING.                 *)

StatusLoad(p) ==
  /\ req[p].op \in {"ready", "pending"} /\ req[p].pc = "load"
  /\ Goto(p, LoadMatch(req[p]))
  /\ UNCHANGED <<db, live, crashes>>

\* The match row is only written when the status that was READ differs.
\* metaJson is what the client sent (sent: an object without the keys above),
\* or the row's own without the finalization keys.
ReadyCommit(p, state, sent) ==
  /\ req[p].op = "ready" /\ req[p].pc = "commit"
  /\ VersionMatches(req[p].exp)
  /\ state \in {"READY", "COUNTDOWN"}
  /\ IF req[p].status # "DRAFT"
       THEN ResetRun(req[p])
       ELSE UNCHANGED <<status, session>>
  /\ WriteControlState(state, IF sent THEN EmptyMeta ELSE ClearFinalization(meta, FALSE))
  /\ oneTeam' = FALSE
  /\ Done(p)
  /\ UNCHANGED <<slotRun, run, manyAlive, published, crashes>>

PendingCommit(p, sent) ==
  /\ req[p].op = "pending" /\ req[p].pc = "commit"
  /\ VersionMatches(req[p].exp)
  /\ status' = IF req[p].status # "FINISH_PENDING" THEN "FINISH_PENDING" ELSE status
  /\ WriteControlState("FINISH_PENDING", IF sent THEN EmptyMeta ELSE meta)
  /\ Done(p)
  /\ UNCHANGED <<slotRun, session, run, published, live, crashes>>

\* ConflictException: a transaction whose version does not match rolls back.
Conflict(p) ==
  /\ \/ req[p].pc = "commit" /\ req[p].op \in {"end", "start", "ready", "pending"}
     \/ req[p].pc = "promote" /\ status = "ENDED"
     \/ req[p].pc = "fincommit"
  /\ IF req[p].pc = "fincommit" THEN version # req[p].ver
                                ELSE ~VersionMatches(req[p].exp)
  /\ Done(p)
  /\ UNCHANGED <<db, live, crashes>>

\* persistAndBroadcast of a match just ended is given up after its conflicts in
\* the live state store: the exception leaves the request between its
\* transaction and the finalization that would have followed.
PublishFails(p) ==
  /\ \/ req[p].op = "end" /\ req[p].pc = "resolve"
     \/ req[p].op = "autoend" /\ req[p].pc = "confirm"
  /\ Done(p)
  /\ UNCHANGED <<db, live, crashes>>

-----------------------------------------------------------------------------
(* Writers of the control row that do not take part in the version check.  *)

\* TelemetryPersistenceService.persistState reads the match ...
PersistRead(p) ==
  /\ req[p].pc = "persistread"
  /\ Goto(p, [Loaded(req[p]) EXCEPT !.pc = "persistwrite"])
  /\ UNCHANGED <<db, live, crashes>>

\* ... and upserts state and metaJson from what it read.
PersistWrite(p) ==
  LET r == req[p] IN
  /\ r.pc = "persistwrite"
  /\ control' = IF IsFinalizingStatus(r.status) \/ IsFinishedStatus(r.status)
                  THEN ControlOfStatus(r.status) ELSE r.control
  /\ meta' = [r.meta EXCEPT !.tel = TRUE]
  /\ Goto(p, [Idle EXCEPT !.op = r.op, !.sess = r.sess, !.pc = "metaread"])
  /\ UNCHANGED <<status, version, slotRun, session, run, published, live, crashes>>

\* persistIngressCursor, markTelemetryAccepted, captureFinalizationSnapshots,
\* upsertResultMeta, ...: read metaJson ...
MetaRead(p) ==
  /\ req[p].pc = "metaread"
  /\ Goto(p, [req[p] EXCEPT !.meta = meta, !.pc = "metawrite"])
  /\ UNCHANGED <<db, live, crashes>>

\* ... and, after more awaits, write the whole object back with one key changed.
\* A packet then goes on to applyAuthoritativeMatchEnd.
MetaWrite(p) ==
  LET r == req[p] IN
  /\ r.pc = "metawrite"
  /\ meta' = IF r.op = "packet" THEN [r.meta EXCEPT !.tel = TRUE] ELSE r.meta
  /\ IF r.op = "packet"
       THEN Goto(p, [Idle EXCEPT !.op = "detect", !.sess = r.sess, !.pc = "load"])
       ELSE Done(p)
  /\ UNCHANGED <<status, control, version, slotRun, session, run, published, live, crashes>>

-----------------------------------------------------------------------------
(* The environment.                                                        *)

\* Play goes on: teams are eliminated in the live store, and the slot rows
\* come to show who is present and alive.
Play ==
  /\ status = "LIVE"
  /\ oneTeam' \in BOOLEAN
  /\ manyAlive' \in BOOLEAN
  /\ UNCHANGED <<db, req, crashes>>

\* The API process restarts: every request in flight is gone, the rows stay.
Crash ==
  /\ crashes < MaxCrash
  /\ crashes' = crashes + 1
  /\ req' = [p \in Req |-> Idle]
  /\ UNCHANGED <<db, live>>

Finalizing(p) ==
  \/ EligibleLoad(p) \/ ConfirmLoad(p) \/ Promote(p) \/ PromoteLost(p)
  \/ ResolveVersion(p) \/ FinalizeRead(p) \/ FinalizeCommit(p)

Step(p) ==
  \/ EndLoad(p) \/ EndCommit(p) \/ DetectLoad(p) \/ DetectCommit(p)
  \/ Finalizing(p)
  \/ StartLoad(p) \/ RestartLoad(p) \/ UnlockLoad(p) \/ StatusLoad(p)
  \/ \E s \in Session \cup {NoSession}, k \in BOOLEAN : StartCommit(p, s, k)
  \/ AlreadyLive(p)
  \/ \E s \in Session \cup {NoSession} : RebindCommit(p, s)
  \/ \E restart \in BOOLEAN : UnlockCommit(p, restart)
  \/ \E state \in {"READY", "COUNTDOWN"}, sent \in BOOLEAN : ReadyCommit(p, state, sent)
  \/ \E sent \in BOOLEAN : PendingCommit(p, sent)
  \/ Conflict(p) \/ PublishFails(p)
  \/ PersistRead(p) \/ PersistWrite(p) \/ MetaRead(p) \/ MetaWrite(p)

Next ==
  \/ \E p \in Req :
       \/ \E op \in AllOps, exp \in {NoVersion, version} : Submit(p, op, exp)
       \/ AcceptPacket(p) \/ QueueRecovery(p) \/ AutoEnd(p)
       \/ Step(p)
  \/ Play
  \/ Crash

Spec == Init /\ [][Next]_vars

\* Node runs every request it has accepted to its end, and somebody keeps
\* reading the lifecycle of a match that is pending (strongly fair, because the
\* request slots of the model may all be taken for a while, those of the API
\* never are).  Nothing is assumed of clients, telemetry, play or crashes.
Fairness == /\ SF_vars(\E p \in Req : QueueRecovery(p))
            /\ \A p \in Req : WF_vars(Step(p))
FairSpec == Spec /\ Fairness

-----------------------------------------------------------------------------
(* What all this implements: the ledger of a match's results.              *)

Phase == CASE status \in {"DRAFT", "LIVE"}           -> "open"
           [] status \in {"ENDED", "FINISH_PENDING"} -> "closed"
           [] status = "FINISHED"                    -> "final"

Ledger == INSTANCE ResultsLedger WITH phase <- Phase

-----------------------------------------------------------------------------
(* Properties.                                                             *)

TypeOK ==
  /\ status \in MatchStatuses /\ control \in ControlStates
  /\ version \in Nat /\ meta \in Meta
  /\ slotRun \in Runs \cup {NoRun}
  /\ session \in Session \cup {NoSession}
  /\ run \in Runs
  /\ oneTeam \in BOOLEAN /\ manyAlive \in BOOLEAN
  /\ published \in [Runs -> Nat]
  /\ req \in [Req -> Request]
  /\ crashes \in 0 .. MaxCrash

\* However many requests race to finalize, time out, retry or are cut off by a
\* restart, and whatever the unversioned writers do to metaJson, the final
\* results of one run are computed at most once.
PublishedAtMostOnce == \A r \in Runs : published[r] <= 1

\* The lifecycle implements the ledger: results appear only when a pending
\* match becomes finished, for the run in progress, once, and for good.
ImplementsLedger == Ledger!Spec

\* A match becomes FINISHED only out of FINISH_PENDING and only in the run the
\* finalizing transaction read: nobody's unlock, reset or start that commits
\* while the results are being computed is overwritten.
FinishedOnlyFromPending ==
  [][status' = "FINISHED" /\ status # "FINISHED"
       => /\ status = "FINISH_PENDING"
          /\ \A p \in Req : req[p].pc = "fincommit" /\ req'[p] # req[p]
                => req[p].run = run]_vars

\* Why results are published once.  Whoever still holds the current version in
\* its finalizing transaction read the rows as they are: every commit that
\* changes the status, the run or the slot rows also moves the version ...
ReadsAreCurrent ==
  \A p \in Req : req[p].pc = "fincommit" =>
    /\ req[p].ver <= version
    /\ req[p].ver = version =>
         /\ status = "FINISH_PENDING"
         /\ req[p].run = run
         /\ ~req[p].applied => slotRun = NoRun

\* ... and a run whose slot rows are not final, or that has not been started,
\* has not been published.
PublishedIsRecorded ==
  /\ slotRun = NoRun => published[run] = 0
  /\ \A r \in Runs : r > run => published[r] = 0

\* The inductive strengthening of PublishedAtMostOnce.
FinalizationSafe == ReadsAreCurrent /\ PublishedIsRecorded /\ PublishedAtMostOnce

\* The two rows tell one story.  It takes clients that all send the version
\* they saw, since setStatus writes the match row only when the status it read
\* before differs, and no writer outside the version discipline.
RowsAgree ==
  <<status, control>> \in ({"DRAFT"} \X {"READY", "COUNTDOWN"})
     \cup {<<"LIVE", "LIVE">>, <<"ENDED", "ENDED">>,
           <<"FINISH_PENDING", "FINISH_PENDING">>, <<"FINISHED", "ENDED">>}

\* A finished match carries the results of the run that was just played, not
\* of an earlier one and not none.
FinishedHasThisRunsResults == status = "FINISHED" => slotRun = run

\* A match does not stay pending for ever while there is evidence it is over:
\* whatever conflicts, restarts and lost finalizations happen on the way, a
\* later recovery completes it, or somebody moves it on or evicts the evidence.
PendingMatchIsResolved ==
  []<>~(status = "FINISH_PENDING" /\ meta.pend /\ EligibleToConfirm)

=============================================================================
