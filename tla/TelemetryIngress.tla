--------------------------- MODULE TelemetryIngress ---------------------------
(***************************************************************************)
(* The telemetry packets of one LIVE match on their way from a source to   *)
(* the match state: TelemetryIngressService checks the session and the     *)
(* sequence number against a cursor in the database, the                   *)
(* TelemetryEngineService applies the packet to the runtime it keeps in    *)
(* memory and saves a snapshot of it, and the ingress writes the cursor.   *)
(* Every await is a step boundary: nothing stops a second request, or a    *)
(* reader of the state, from running there.                                *)
(*                                                                         *)
(* What a packet says is left out; the runtime is known by the packet it   *)
(* was built from.  The match stays LIVE: what ends it is in               *)
(* MatchLifecycle.                                                         *)
(***************************************************************************)
EXTENDS Integers, FiniteSets

CONSTANTS
  Handler,      \* packets that may be in the server at the same time
  Delta,        \* TELEMETRY_INGRESS_SEQUENCE_RESET_DELTA
  Worlds,       \* the circumstances considered, a subset of AllWorlds
  MaxPackets,   \* bound: packets sent
  MaxLost,      \* bound: packets lost before the first one ("ordered")
  MaxSession,   \* bound: sessions the match is bound to
  MaxRestart    \* bound: restarts of sources, and crashes of the server

AllWorlds == {"delayed", "ordered", "overlap"}

ASSUME DeltaAssumption  == Delta \in Nat \ {0}
ASSUME WorldsAssumption == Worlds \subseteq AllWorlds
ASSUME PacketBoundsAssumption == /\ MaxPackets \in Nat /\ MaxLost \in Nat
                                 /\ MaxSession \in Nat \ {0} /\ MaxRestart \in Nat

\* id: the order in which the packets were sent, and so their timestamp too.
\* sess: which of the sessions the match has been bound to.
Packet == [id: Nat \ {0}, sess: Nat \ {0}, seq: Nat \ {0}]

\* What a match state was built from: the packet id of a session, the roster
\* (id 0), or it is not in memory (id -1).
Build    == [sess: Nat, id: Nat]
Roster   == [sess |-> 0, id |-> 0]
Unloaded == [sess |-> 0, id |-> -1]
From(p)  == [sess |-> p.sess, id |-> p.id]

\* b is no older than a.
NoOlder(b, a) == b.sess > a.sess \/ (b.sess = a.sess /\ b.id >= a.id)

VARIABLES
  session,   \* Match.pcobSessionId
  cursor,    \* metaJson.telemetryIngress: sess, seq and updatedAt (at)
  snapshot,  \* MatchStateSnapshot
  runtime,   \* the engine's runtimes entry
  accepted,  \* the engine's acceptedRuns entry; 0 for null
  hand,      \* hand[h]: the packet in progress
  reader,    \* a getState in progress for someone who only reads
  source,    \* source[s]: the last sequence number of the source of session s
  sent,      \* packets sent so far, and so the time
  net,       \* packets sent
  restarts,  \* restarts and crashes so far
  world,     \* one of Worlds; never changes
  history    \* for the properties: see below

server == <<session, cursor, snapshot, runtime, accepted>>
outside == <<source, sent, net>>
vars == <<server, hand, reader, outside, restarts, world, history>>

\* "delayed": packets arrive late, twice or never; one at a time is handled.
\* "ordered": a packet is sent again only if it is the newest, sources and the
\*   server restart, and any await may fail; one packet at a time is handled.
\* "overlap": as "ordered" without the faults, but a packet may be sent again,
\*   or the next one come, while one is handled; the state is read at any time.

NoCursor == [sess |-> 0, seq |-> 0, at |-> 0]
NoRun    == [sess |-> 0, seq |-> 0]
NoPacket == [id |-> 0, sess |-> 0, seq |-> 0]

\* base: the state the packet is applied to.  fresh: getState has read it from
\* the database.
Steps == {"getting", "reset", "apply", "persist", "commit", "cursor"}
Idle  == [pc |-> "idle", pkt |-> NoPacket, base |-> Unloaded, fresh |-> FALSE]
Hand  == {Idle} \cup [pc: {"get"}, pkt: Packet, base: {Unloaded}, fresh: {FALSE}]
                \cup [pc: Steps, pkt: Packet, base: Build, fresh: BOOLEAN]

NotReading == [on |-> FALSE, base |-> Unloaded, fresh |-> FALSE]
Reader     == {NotReading} \cup [on: {TRUE}, base: Build, fresh: BOOLEAN]

\* newest: the newest packet received.  best: the newest state in memory since
\* the server started.  acked: the newest packet that is committed and has its
\* cursor.  since: the packets sent when the source started again.  muted: the
\* later packets of the bound session in a row that were sent after the cursor
\* was written and yet dropped.  judged: the newest packet that was taken or
\* counted in muted.  unsaved: a snapshot was not saved.
History == [newest: Nat, best: Build, acked: Build, since: Nat, muted: Nat, judged: Nat,
            unsaved: BOOLEAN]

TypeOK ==
  /\ session \in 1 .. MaxSession
  /\ cursor \in [sess: Nat, seq: Nat, at: Nat]
  /\ snapshot \in Build
  /\ runtime \in Build \cup {Unloaded}
  /\ accepted \in [sess: Nat, seq: Nat]
  /\ hand \in [Handler -> Hand]
  /\ reader \in Reader
  /\ source \in [1 .. MaxSession -> Nat]
  /\ sent \in 0 .. MaxPackets
  /\ net \subseteq Packet
  /\ restarts \in 0 .. MaxRestart
  /\ world \in Worlds
  /\ history \in History

Init ==
  /\ session = 1
  /\ cursor = NoCursor
  /\ snapshot = Roster
  /\ runtime = Unloaded
  /\ accepted = NoRun
  /\ hand = [h \in Handler |-> Idle]
  /\ reader = NotReading
  /\ sent = 0
  /\ net = {}
  /\ restarts = 0
  /\ world \in Worlds
  /\ source = [s \in 1 .. MaxSession |-> IF s = 1 /\ world = "ordered" THEN MaxLost ELSE 0]
  /\ history = [newest |-> 0, best |-> Roster, acked |-> Roster, since |-> 0, muted |-> 0,
                judged |-> 0, unsaved |-> FALSE]

Quiet == (\A h \in Handler : hand[h] = Idle) /\ reader = NotReading
Alone == world = "overlap" \/ Quiet

To(h, r)   == hand' = [hand EXCEPT ![h] = r]
Step(h, s) == To(h, [hand[h] EXCEPT !.pc = s])

-----------------------------------------------------------------------------
(* The sources.                                                            *)

\* The source of session s, which may be one the match is no longer bound to,
\* sends a packet.
Send(s) ==
  /\ s <= session
  /\ sent < MaxPackets
  /\ sent' = sent + 1
  /\ source' = [source EXCEPT ![s] = @ + 1]
  /\ net' = net \cup {[id |-> sent + 1, sess |-> s, seq |-> source[s] + 1]}
  /\ UNCHANGED <<server, hand, reader, restarts, world, history>>

\* The source starts again and counts from 1, in the same session.
RestartSource ==
  /\ world = "ordered" /\ restarts < MaxRestart
  /\ source' = [source EXCEPT ![session] = 0]
  /\ restarts' = restarts + 1
  /\ history' = [history EXCEPT !.since = sent, !.muted = 0]
  /\ UNCHANGED <<server, hand, reader, sent, net, world>>

-----------------------------------------------------------------------------
(* MatchControlService and TelemetryIngressService.                        *)

\* handleAlreadyLiveStart: a start with another session, while LIVE.
HandleAlreadyLiveStart ==
  /\ session < MaxSession
  /\ session' = session + 1
  /\ cursor' = NoCursor
  /\ history' = [history EXCEPT !.muted = 0]
  /\ UNCHANGED <<snapshot, runtime, accepted, hand, reader, outside, restarts, world>>

\* Mutant: a rewind is never taken for a restart.
NeverResetIngressCursor(p) == FALSE

ShouldResetIngressCursor(p) == cursor.seq - p.seq >= Delta /\ p.id > cursor.at

\* Mutant: any session is as good as the bound one.
AdmittedFromAnySession(p) ==
  \/ cursor.sess # p.sess
  \/ p.seq > cursor.seq
  \/ ShouldResetIngressCursor(p)

Admitted(p) ==
  /\ p.sess = session
  /\ \/ cursor.sess # p.sess
     \/ p.seq > cursor.seq
     \/ ShouldResetIngressCursor(p)

\* What the history says if p is dropped.
Greater(m, n) == IF m > n THEN m ELSE n
Muted(p) ==
  IF p.sess = session /\ p.id > cursor.at /\ p.id > history.since /\ p.id > history.judged
  THEN [history EXCEPT !.muted = @ + 1, !.judged = p.id] ELSE history

\* The match and its cursor are read, and the packet is let in or answered.
Receive(h, p) ==
  /\ hand[h] = Idle /\ Alone
  /\ world = "delayed" \/ p.id >= history.newest
  /\ IF Admitted(p) THEN To(h, [Idle EXCEPT !.pc = "get", !.pkt = p]) ELSE UNCHANGED hand
  /\ history' = [(IF Admitted(p) THEN history ELSE Muted(p)) EXCEPT !.newest = Greater(@, p.id)]
  /\ UNCHANGED <<server, reader, outside, restarts, world>>

\* persistIngressCursor, also after a packet the engine has ignored.
PersistIngressCursor(h) ==
  LET p == hand[h].pkt IN
  /\ hand[h].pc = "cursor"
  /\ cursor' = [sess |-> p.sess, seq |-> p.seq, at |-> sent]
  /\ history' = [history EXCEPT !.acked = IF runtime = From(p) THEN runtime ELSE @]
  /\ To(h, Idle)
  /\ UNCHANGED <<session, snapshot, runtime, accepted, reader, outside, restarts, world>>

-----------------------------------------------------------------------------
(* TelemetryEngineService.                                                 *)

\* Mutant: the snapshot is not read.
TakenFromMemory == [base |-> runtime, fresh |-> runtime = Unloaded]

\* getState copies the runtime, or reads the snapshot, and awaits.
Taken == [base |-> IF runtime = Unloaded THEN snapshot ELSE runtime, fresh |-> runtime = Unloaded]

\* getState stores its copy; a state that was read starts a new accepted run.
Stored(r)  == runtime' = r.base
Run(r)     == IF r.fresh THEN NoRun ELSE accepted

BeginGetState(h) ==
  /\ hand[h].pc = "get"
  /\ To(h, [hand[h] EXCEPT !.pc = "getting", !.base = Taken.base, !.fresh = Taken.fresh])
  /\ UNCHANGED <<server, reader, outside, restarts, world, history>>

\* The packet is not newer than the last one accepted.
StaleAcceptedSequence(p, run) == run.sess = p.sess /\ p.seq <= run.seq

\* applyAdapterTelemetryEnvelope from getState to its next await.  A change of
\* the session rebuilds the runtime from the roster, unless
\* shouldPreserveRuntimeAcrossPhaseTransition.
EndGetState(h) ==
  LET r == hand[h]
      p == r.pkt
      run == Run(r)
  IN
  /\ r.pc = "getting"
  /\ Stored(r)
  /\ \/ /\ run.sess \notin {0, p.sess}
        /\ Step(h, "reset") \/ Step(h, "apply")
        /\ accepted' = run
        /\ UNCHANGED history
     \/ /\ run.sess \in {0, p.sess} /\ ~StaleAcceptedSequence(p, run)
        /\ Step(h, "apply")
        /\ accepted' = run
        /\ UNCHANGED history
     \/ /\ run.sess \in {0, p.sess} /\ StaleAcceptedSequence(p, run)
        /\ Step(h, "cursor")
        /\ accepted' = [sess |-> p.sess, seq |-> p.seq]
        /\ history' = Muted(p)
  /\ UNCHANGED <<session, cursor, snapshot, reader, outside, restarts, world>>

\* resetRuntimeForAcceptedRun and resetAcceptedRun.
ResetRuntimeForAcceptedRun(h) ==
  /\ hand[h].pc = "reset"
  /\ runtime' = Roster
  /\ accepted' = NoRun
  /\ To(h, [hand[h] EXCEPT !.pc = "apply", !.base = Roster])
  /\ UNCHANGED <<session, cursor, snapshot, reader, outside, restarts, world, history>>

\* The next state is built over awaits, from the copy; it may be the same.
ApplyAdapterSnapshot(h) ==
  LET p == hand[h].pkt IN
  /\ hand[h].pc = "apply"
  /\ accepted' = [sess |-> p.sess, seq |-> p.seq]
  /\ history' = [history EXCEPT !.muted = 0, !.judged = Greater(@, p.id)]
  /\ \/ hand[h].base # From(p) /\ Step(h, "persist")
     \/ Step(h, "cursor")
  /\ UNCHANGED <<session, cursor, snapshot, runtime, reader, outside, restarts, world>>

\* Mutant: the write is not awaited, and is lost.
PersistStateNotAwaited(h) ==
  /\ hand[h].pc = "persist"
  /\ Step(h, "commit")
  /\ UNCHANGED <<server, reader, outside, restarts, world, history>>

\* commitTransition: persistState, whose error is only logged.
PersistState(h) ==
  /\ hand[h].pc = "persist"
  /\ Step(h, "commit")
  /\ \/ snapshot' = From(hand[h].pkt) /\ UNCHANGED history
     \/ /\ world = "ordered"
        /\ history' = [history EXCEPT !.unsaved = TRUE]
        /\ UNCHANGED snapshot
  /\ UNCHANGED <<session, cursor, runtime, accepted, reader, outside, restarts, world>>

\* commitTransition: the new state replaces whatever is in memory.
CommitTransition(h) ==
  LET b == From(hand[h].pkt) IN
  /\ hand[h].pc = "commit"
  /\ runtime' = b
  /\ history' = [history EXCEPT !.best = IF NoOlder(b, @) THEN b ELSE @]
  /\ Step(h, "cursor")
  /\ UNCHANGED <<session, cursor, snapshot, accepted, reader, outside, restarts, world>>

\* getState for someone who only reads: the telemetry controller, the results
\* service, the match conclusion.
BeginRead ==
  /\ reader = NotReading /\ Alone
  /\ reader' = [on |-> TRUE, base |-> Taken.base, fresh |-> Taken.fresh]
  /\ UNCHANGED <<server, hand, outside, restarts, world, history>>

EndRead ==
  /\ reader.on
  /\ Stored(reader)
  /\ accepted' = Run(reader)
  /\ reader' = NotReading
  /\ UNCHANGED <<session, cursor, snapshot, hand, outside, restarts, world, history>>

-----------------------------------------------------------------------------
(* Faults.                                                                 *)

\* A query throws; what was done so far stays.  In "delayed" not the write of
\* the cursor.
Fail(h) ==
  /\ world # "overlap"
  /\ hand[h].pc \in {"get", "getting", "reset", "apply", "cursor"}
  /\ hand[h].pc = "cursor" => world = "ordered"
  /\ To(h, Idle)
  /\ UNCHANGED <<server, reader, outside, restarts, world, history>>

\* The process dies: its memory is gone, and so are the requests in it.
Crash ==
  /\ world = "ordered" /\ restarts < MaxRestart
  /\ restarts' = restarts + 1
  /\ runtime' = Unloaded
  /\ accepted' = NoRun
  /\ hand' = [h \in Handler |-> Idle]
  /\ reader' = NotReading
  /\ history' = [history EXCEPT !.best = Roster]
  /\ UNCHANGED <<session, cursor, snapshot, outside, world>>

-----------------------------------------------------------------------------
Handle(h) ==
  \/ \E p \in net : Receive(h, p)
  \/ BeginGetState(h) \/ EndGetState(h) \/ ResetRuntimeForAcceptedRun(h)
  \/ ApplyAdapterSnapshot(h) \/ PersistState(h) \/ CommitTransition(h)
  \/ PersistIngressCursor(h) \/ Fail(h)

Next ==
  \/ \E s \in 1 .. MaxSession : Send(s)
  \/ RestartSource \/ HandleAlreadyLiveStart \/ Crash
  \/ \E h \in Handler : Handle(h)
  \/ BeginRead \/ EndRead

Spec == Init /\ [][Next]_vars

-----------------------------------------------------------------------------
(* Properties.                                                             *)

\* Telemetry never takes the match back: whatever packet the state in memory
\* comes from, no newer one, and none of a later session, has been there since
\* the server started (applyAdapterTelemetryEnvelope, commitTransition).
NeverGoesBack ==
  [][runtime' # runtime /\ runtime'.id > 0 => NoOlder(runtime', history.best)]_vars

\* A packet that has its cursor is in the snapshot, or a newer one is: a server
\* that crashes then comes back with all that sources were told is accepted.
\* Only a snapshot that failed to be saved breaks this (commitTransition logs
\* the error and goes on).
AcknowledgedIsSaved == ~history.unsaved => NoOlder(snapshot, history.acked)

\* A source that restarts in the same session and counts from 1 again is heard
\* after at most Delta + 1 packets, however the server fails meanwhile and
\* however often the source has restarted: its packets look like late ones to
\* the cursor and to the accepted run at first (shouldResetIngressCursor,
\* setAcceptedRun of a stale packet).
RestartedSourceIsHeard == world = "ordered" => history.muted <= Delta + 1
=============================================================================
