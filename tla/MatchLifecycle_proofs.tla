------------------------ MODULE MatchLifecycle_proofs ------------------------
(***************************************************************************)
(* Proofs about MatchLifecycle, for any number of requests, sessions, runs *)
(* and versions: types, the finalization invariant, and the refinement of  *)
(* ResultsLedger.                                                          *)
(***************************************************************************)
EXTENDS MatchLifecycle, TLAPS

(* The constants are what the assumptions say; every step below needs it.  *)
USE DEF NoVersion, NoRun

(* An idle slot, a reloaded request and every metaJson rewrite are of the   *)
(* declared types.                                                          *)
LEMMA MetaTypes ==
  ASSUME NEW m \in Meta, NEW k \in BOOLEAN, NEW r \in Runs \cup {NoRun}
  PROVE  /\ EmptyMeta \in Meta
         /\ ClearFinalization(m, k) \in Meta
         /\ MarkPending(m) \in Meta
         /\ MarkEligible(m, r) \in Meta
         /\ [m EXCEPT !.tel = TRUE] \in Meta
         /\ [m EXCEPT !.fin = r] \in Meta
BY DEF Meta, EmptyMeta, ClearFinalization, MarkPending, MarkEligible

(* The idle slot is a request.                                              *)
LEMMA IdleType == Idle \in Request
<1>1. 0 \in Runs
  BY BoundsAssumption DEF Runs
<1>2. EmptyMeta \in Meta
  BY DEF EmptyMeta, Meta
<1> QED
  BY <1>1, <1>2 DEF Idle, Request, ReqOps, AllOps, ClientOps, PCs, MatchStatuses, ControlStates

(* A request that (re)loads the match is a request.                         *)
LEMMA LoadedTypes ==
  ASSUME TypeOK, NEW r \in Request
  PROVE  /\ Loaded(r) \in Request
         /\ LoadMatch(r) \in Request
         /\ Loaded(r).pc = r.pc
         /\ LoadMatch(r).pc = "commit"
<1>1. Loaded(r) \in Request /\ Loaded(r).pc = r.pc
  BY DEF TypeOK, Loaded, Request
<1>2. LoadMatch(r) \in Request /\ LoadMatch(r).pc = "commit"
  BY <1>1 DEF TypeOK, LoadMatch, Request, PCs
<1> QED BY <1>1, <1>2

(* Steps that only move one request on, to any record of the right type,    *)
(* keep all types.                                                         *)
LEMMA GotoTypes ==
  ASSUME TypeOK, NEW p \in Req, NEW r \in Request, Goto(p, r),
         UNCHANGED <<db, live, crashes>>
  PROVE  TypeOK'
BY DEF TypeOK, Goto, db, live

(* WriteControlState stores a state and a metaJson of the right type.       *)
LEMMA WriteControlTypes ==
  ASSUME TypeOK, NEW c \in ControlStates, NEW m \in Meta, WriteControlState(c, m)
  PROVE  control' \in ControlStates /\ meta' \in Meta /\ version' \in Nat
BY DEF TypeOK, WriteControlState

(* The eligibility, confirmation and finalization steps keep the types.     *)
LEMMA FinalizingTypes ==
  ASSUME TypeOK, NEW p \in Req, Finalizing(p)
  PROVE  TypeOK'
<1> DEFINE r == req[p]
<1>0. r \in Request /\ Idle \in Request
  BY IdleType DEF TypeOK
<1>1. CASE EligibleLoad(p)
  <2>1. [r EXCEPT !.pc = "confirm"] \in Request
    BY <1>0 DEF Request, PCs
  <2> QED BY <1>0, <1>1, <2>1, GotoTypes DEF EligibleLoad, Done
<1>2. CASE ConfirmLoad(p)
  <2>1. [r EXCEPT !.pc = "resolve"] \in Request /\ [r EXCEPT !.pc = "promote"] \in Request
    BY <1>0 DEF Request, PCs
  <2>2. \E x \in Request : Goto(p, x)
    BY <1>0, <1>2, <2>1 DEF ConfirmLoad, Done
  <2> QED BY <1>2, <2>2, GotoTypes DEF ConfirmLoad
<1>3. CASE Promote(p)
  <2>1. [r EXCEPT !.ver = version + 1, !.pc = "finread"] \in Request
    <3>1. version + 1 \in Int
      BY DEF TypeOK
    <3> QED BY <1>0, <3>1 DEF Request, PCs
  <2>2. MarkPending(meta) \in Meta
    BY MetaTypes DEF TypeOK
  <2> QED BY <1>3, <2>1, <2>2
          DEF Promote, WriteControlState, Goto, TypeOK, live, MatchStatuses, ControlStates
<1>4. CASE PromoteLost(p)
  <2>1. [r EXCEPT !.pc = "resolve"] \in Request
    BY <1>0 DEF Request, PCs
  <2> QED BY <1>0, <1>4, <2>1, GotoTypes DEF PromoteLost, Done
<1>5. CASE ResolveVersion(p)
  <2>1. (IF r.exp # NoVersion THEN r.exp ELSE version) \in Int
    BY <1>0 DEF Request, TypeOK
  <2>2. [r EXCEPT !.pc = "finread", !.ver = IF r.exp # NoVersion THEN r.exp ELSE version] \in Request
    BY <1>0, <2>1 DEF Request, PCs
  <2> QED BY <1>5, <2>2, GotoTypes DEF ResolveVersion
<1>6. CASE FinalizeRead(p)
  <2>1. Loaded(r) \in Request
    BY <1>0, LoadedTypes
  <2>2. FinalResultsAlreadyApplied \in BOOLEAN
    BY DEF FinalResultsAlreadyApplied
  <2>3. [Loaded(r) EXCEPT !.pc = "fincommit", !.applied = FinalResultsAlreadyApplied] \in Request
    BY <2>1, <2>2 DEF Request, PCs
  <2> QED BY <1>0, <1>6, <2>3, GotoTypes DEF FinalizeRead, Done
<1>7. CASE FinalizeCommit(p)
  <2> DEFINE m == [r.meta EXCEPT !.fin = IF r.applied /\ r.meta.fin # NoRun THEN @ ELSE run]
             x == [Idle EXCEPT !.op = "note", !.pc = "metaread"]
  <2>1. m \in Meta
    BY <1>0 DEF TypeOK, Request, Meta
  <2>2. x \in Request
    BY <1>0 DEF Request, PCs, ReqOps, AllOps
  <2>3. published' \in [Runs -> Nat] /\ slotRun' \in Runs \cup {NoRun} /\ manyAlive' \in BOOLEAN
    <3>1. CASE r.applied
      BY <1>7, <3>1 DEF FinalizeCommit, TypeOK
    <3>2. CASE ~r.applied
      <4>1. slotRun' = run /\ manyAlive' = FALSE
            /\ published' = [published EXCEPT ![run] = published[run] + 1]
        BY <1>7, <3>2 DEF FinalizeCommit
      <4>2. published \in [Runs -> Nat] /\ run \in Runs
        BY DEF TypeOK
      <4>3. published[run] + 1 \in Nat
        BY <4>2
      <4>4. published' \in [Runs -> Nat]
        BY <4>1, <4>2, <4>3
      <4> QED BY <4>1, <4>2, <4>4
    <3> QED BY <3>1, <3>2
  <2>4. control' \in ControlStates /\ meta' \in Meta /\ version' \in Nat
    <3>1. WriteControlState("ENDED", m)
      BY <1>7 DEF FinalizeCommit
    <3> QED BY <3>1, <2>1, WriteControlTypes DEF ControlStates
  <2>5. req' \in [Req -> Request]
    BY <1>7, <2>2 DEF FinalizeCommit, Goto, TypeOK
  <2> QED BY <1>7, <2>3, <2>4, <2>5 DEF FinalizeCommit, TypeOK, MatchStatuses
<1> QED BY <1>1, <1>2, <1>3, <1>4, <1>5, <1>6, <1>7 DEF Finalizing

(* The steps that end, start, rebind, unlock and reset keep the types.      *)
LEMMA ControlTypes ==
  ASSUME TypeOK, NEW p \in Req,
         \/ EndCommit(p) \/ DetectCommit(p)
         \/ \E s \in Session \cup {NoSession}, k \in BOOLEAN : StartCommit(p, s, k)
         \/ \E s \in Session \cup {NoSession} : RebindCommit(p, s)
         \/ \E restart \in BOOLEAN : UnlockCommit(p, restart)
         \/ \E state \in {"READY", "COUNTDOWN"}, sent \in BOOLEAN : ReadyCommit(p, state, sent)
         \/ \E sent \in BOOLEAN : PendingCommit(p, sent)
  PROVE  TypeOK'
<1> DEFINE r == req[p]
<1>0. r \in Request /\ Idle \in Request /\ meta \in Meta /\ EmptyMeta \in Meta
  BY IdleType, MetaTypes DEF TypeOK
<1>a. ASSUME NEW k \in BOOLEAN PROVE ClearFinalization(meta, k) \in Meta
  BY <1>0, MetaTypes
<1>1. CASE EndCommit(p)
  <2>1. [Idle EXCEPT !.op = "end", !.exp = r.exp, !.pc = "resolve"] \in Request
    BY <1>0 DEF Request, PCs, ReqOps, AllOps, ClientOps
  <2>2. MarkPending(meta) \in Meta
    BY <1>0, MetaTypes
  <2> QED BY <1>1, <2>1, <2>2
          DEF EndCommit, WriteControlState, Goto, TypeOK, live, MatchStatuses, ControlStates
<1>2. CASE DetectCommit(p)
  <2>1. [Idle EXCEPT !.op = "eligible", !.pc = "load"] \in Request
    BY <1>0 DEF Request, PCs, ReqOps
  <2>2. MarkEligible(meta, r.run) \in Meta
    BY <1>0, MetaTypes DEF Request
  <2> QED BY <1>2, <2>1, <2>2
          DEF DetectCommit, WriteControlState, Goto, TypeOK, live, MatchStatuses, ControlStates
<1>3. ASSUME NEW s \in Session \cup {NoSession}, NEW k \in BOOLEAN, StartCommit(p, s, k)
      PROVE TypeOK'
  <2>1. run + 1 \in Runs
    BY <1>3, BoundsAssumption DEF StartCommit, TypeOK, Runs
  <2>2. ClearFinalization(meta, k) \in Meta
    BY <1>a
  <2>3. manyAlive' \in BOOLEAN /\ oneTeam' \in BOOLEAN
    BY <1>3 DEF StartCommit
  <2>4. slotRun' \in Runs \cup {NoRun} /\ session' \in Session \cup {NoSession}
        /\ run' \in Runs /\ status' \in MatchStatuses
    BY <1>3, <2>1 DEF StartCommit, TypeOK, MatchStatuses
  <2> QED BY <1>0, <1>3, <2>2, <2>3, <2>4
          DEF StartCommit, WriteControlState, Done, Goto, TypeOK, ControlStates
<1>4. ASSUME NEW s \in Session \cup {NoSession}, RebindCommit(p, s)
      PROVE TypeOK'
  <2>1. oneTeam' \in BOOLEAN
    BY <1>4 DEF RebindCommit
  <2> QED BY <1>0, <1>4, <2>1
          DEF RebindCommit, WriteControlState, Done, Goto, TypeOK, ControlStates
<1>5. ASSUME NEW restart \in BOOLEAN, UnlockCommit(p, restart)
      PROVE TypeOK'
  <2>1. [Idle EXCEPT !.op = "restart", !.pc = "load"] \in Request
    BY <1>0 DEF Request, PCs, ReqOps
  <2>2. req' \in [Req -> Request]
    BY <1>0, <1>5, <2>1 DEF UnlockCommit, Done, Goto, TypeOK
  <2>3. ClearFinalization(meta, FALSE) \in Meta
    BY <1>a
  <2>4. control' \in ControlStates /\ meta' \in Meta /\ version' \in Nat
    <3>1. WriteControlState("READY", ClearFinalization(meta, FALSE))
      BY <1>5 DEF UnlockCommit
    <3>2. "READY" \in ControlStates
      BY DEF ControlStates
    <3> QED BY ONLY TypeOK, <2>3, <3>1, <3>2, WriteControlTypes
  <2>5. status' \in MatchStatuses /\ session' \in Session \cup {NoSession}
    BY <1>5 DEF UnlockCommit, ResetRun, TypeOK, MatchStatuses
  <2>6. oneTeam' = FALSE /\ UNCHANGED <<slotRun, run, manyAlive, published, crashes>>
    BY <1>5 DEF UnlockCommit
  <2> QED BY <2>2, <2>4, <2>5, <2>6 DEF TypeOK
<1>6. ASSUME NEW state \in {"READY", "COUNTDOWN"}, NEW sent \in BOOLEAN,
             ReadyCommit(p, state, sent)
      PROVE TypeOK'
  <2>1. (IF sent THEN EmptyMeta ELSE ClearFinalization(meta, FALSE)) \in Meta
    BY <1>0, <1>a
  <2>2. status' \in MatchStatuses /\ session' \in Session \cup {NoSession}
    BY <1>6 DEF ReadyCommit, ResetRun, TypeOK, MatchStatuses
  <2>3. control' \in ControlStates /\ meta' \in Meta /\ version' \in Nat
    <3>1. WriteControlState(state, IF sent THEN EmptyMeta ELSE ClearFinalization(meta, FALSE))
      BY <1>6 DEF ReadyCommit
    <3>2. state \in ControlStates
      BY DEF ControlStates
    <3> QED BY ONLY TypeOK, <2>1, <3>1, <3>2, WriteControlTypes
  <2>4. req' \in [Req -> Request]
    BY <1>0, <1>6 DEF ReadyCommit, Done, Goto, TypeOK
  <2>5. oneTeam' = FALSE /\ UNCHANGED <<slotRun, run, manyAlive, published, crashes>>
    BY <1>6 DEF ReadyCommit
  <2> QED BY <2>2, <2>3, <2>4, <2>5 DEF TypeOK
<1>7. ASSUME NEW sent \in BOOLEAN, PendingCommit(p, sent)
      PROVE TypeOK'
  <2>1. (IF sent THEN EmptyMeta ELSE meta) \in Meta
    BY <1>0
  <2> QED BY <1>0, <1>7, <2>1
          DEF PendingCommit, WriteControlState, Done, Goto, TypeOK, live, MatchStatuses, ControlStates
<1> QED BY <1>1, <1>2, <1>3, <1>4, <1>5, <1>6, <1>7

(* The loads, refusals and metaJson writers keep the types.                 *)
LEMMA OtherTypes ==
  ASSUME TypeOK, NEW p \in Req,
         \/ EndLoad(p) \/ DetectLoad(p) \/ StartLoad(p) \/ RestartLoad(p)
         \/ UnlockLoad(p) \/ StatusLoad(p) \/ AlreadyLive(p) \/ Conflict(p)
         \/ PublishFails(p) \/ PersistRead(p) \/ PersistWrite(p) \/ MetaRead(p) \/ MetaWrite(p)
  PROVE  TypeOK'
<1> DEFINE r == req[p]
<1>0. r \in Request /\ Idle \in Request /\ meta \in Meta
  BY IdleType DEF TypeOK
<1>1. Loaded(r) \in Request /\ LoadMatch(r) \in Request
  BY <1>0, LoadedTypes
<1>2. CASE EndLoad(p) \/ DetectLoad(p)
  <2>1. [Loaded(r) EXCEPT !.pc = "commit"] \in Request
    BY <1>1 DEF Request, PCs
  <2> QED BY <1>0, <1>2, <2>1, GotoTypes DEF EndLoad, DetectLoad, Done
<1>3. CASE StartLoad(p) \/ RestartLoad(p) \/ UnlockLoad(p) \/ StatusLoad(p)
  BY <1>0, <1>1, <1>3, GotoTypes DEF StartLoad, RestartLoad, UnlockLoad, StatusLoad, Done
<1>4. CASE Conflict(p) \/ AlreadyLive(p) \/ PublishFails(p)
  BY <1>0, <1>4, GotoTypes DEF Conflict, AlreadyLive, PublishFails, Done
<1>5. CASE PersistRead(p)
  <2>1. [Loaded(r) EXCEPT !.pc = "persistwrite"] \in Request
    BY <1>1 DEF Request, PCs
  <2> QED BY <1>5, <2>1, GotoTypes DEF PersistRead
<1>6. CASE PersistWrite(p)
  <2>1. [Idle EXCEPT !.op = r.op, !.sess = r.sess, !.pc = "metaread"] \in Request
    BY <1>0 DEF Request, PCs
  <2>2. control' \in ControlStates
    BY <1>0, <1>6 DEF PersistWrite, ControlOfStatus, ControlStates, Request
  <2>3. meta' \in Meta
    BY <1>0, <1>6, MetaTypes DEF PersistWrite, Request
  <2> QED BY <1>6, <2>1, <2>2, <2>3 DEF PersistWrite, Goto, TypeOK, live
<1>7. CASE MetaRead(p)
  <2>1. [r EXCEPT !.meta = meta, !.pc = "metawrite"] \in Request
    BY <1>0 DEF Request, PCs
  <2> QED BY <1>7, <2>1, GotoTypes DEF MetaRead
<1>8. CASE MetaWrite(p)
  <2>1. [Idle EXCEPT !.op = "detect", !.sess = r.sess, !.pc = "load"] \in Request
    BY <1>0 DEF Request, PCs, ReqOps
  <2>2. r.meta \in Meta /\ [r.meta EXCEPT !.tel = TRUE] \in Meta
    BY <1>0, MetaTypes DEF Request
  <2>3. req' \in [Req -> Request]
    BY <1>0, <1>8, <2>1 DEF MetaWrite, Done, Goto, TypeOK
  <2> QED BY <1>8, <2>2, <2>3 DEF MetaWrite, TypeOK, live
<1> QED BY <1>2, <1>3, <1>4, <1>5, <1>6, <1>7, <1>8

(* New requests are of the declared type, and AutoEnd writes typed rows.    *)
LEMMA ArrivalTypes ==
  ASSUME TypeOK, NEW p \in Req,
         \/ \E op \in AllOps, exp \in {NoVersion, version} : Submit(p, op, exp)
         \/ AcceptPacket(p) \/ QueueRecovery(p) \/ AutoEnd(p)
  PROVE  TypeOK'
<1>0. Idle \in Request
  BY IdleType
<1>1. ASSUME NEW op \in AllOps, NEW exp \in {NoVersion, version}, Submit(p, op, exp)
      PROVE TypeOK'
  <2> DEFINE pc == IF op = "note" THEN "metaread" ELSE "load"
  <2>1. exp \in Int
    BY DEF TypeOK
  <2>2. [Idle EXCEPT !.op = op, !.exp = exp, !.pc = pc] \in Request
    BY <1>0, <2>1 DEF Request, PCs, ReqOps
  <2> QED BY <1>1, <2>2, GotoTypes DEF Submit
<1>2. CASE AcceptPacket(p)
  <2>1. [Idle EXCEPT !.op = "packet", !.sess = session, !.pc = "persistread"] \in Request
    BY <1>0 DEF Request, PCs, ReqOps, AllOps, TypeOK
  <2> QED BY <1>2, <2>1, GotoTypes DEF AcceptPacket
<1>3. CASE QueueRecovery(p)
  <2>1. [Idle EXCEPT !.op = "recover", !.pc = "load"] \in Request
    BY <1>0 DEF Request, PCs, ReqOps, AllOps
  <2> QED BY <1>3, <2>1, GotoTypes DEF QueueRecovery
<1>4. CASE AutoEnd(p)
  <2>1. [Idle EXCEPT !.op = "autoend", !.pc = "confirm"] \in Request
    BY <1>0 DEF Request, PCs, ReqOps, AllOps
  <2>2. control' \in ControlStates /\ meta' \in Meta /\ version' \in Nat
    BY <1>4 DEF AutoEnd, WriteControlState, TypeOK, ControlStates
  <2>3. req' \in [Req -> Request]
    BY <1>4, <2>1 DEF AutoEnd, Goto, TypeOK
  <2>4. /\ status' = "ENDED" /\ oneTeam' = FALSE
        /\ UNCHANGED <<slotRun, session, run, manyAlive, published, crashes>>
    BY <1>4 DEF AutoEnd
  <2> QED BY <2>2, <2>3, <2>4 DEF TypeOK, MatchStatuses
<1> QED BY <1>1, <1>2, <1>3, <1>4

(* Every step of Next is one of four kinds; the proofs below go through     *)
(* them.                                                                   *)
LEMMA TypeStep == TypeOK /\ [Next]_vars => TypeOK'
<1> SUFFICES ASSUME TypeOK, [Next]_vars PROVE TypeOK'
  OBVIOUS
<1>1. ASSUME NEW p \in Req, Step(p) PROVE TypeOK'
  BY <1>1, FinalizingTypes, ControlTypes, OtherTypes DEF Step
<1>2. CASE Play
  <2>1. oneTeam' \in BOOLEAN /\ manyAlive' \in BOOLEAN
    BY <1>2 DEF Play
  <2> QED BY <1>2, <2>1 DEF Play, TypeOK, db
<1>3. CASE Crash
  <2>1. crashes' \in 0 .. MaxCrash
    BY <1>3, BoundsAssumption DEF Crash, TypeOK
  <2> QED BY <1>3, <2>1, IdleType DEF Crash, TypeOK, db, live
<1>4. CASE UNCHANGED vars
  BY <1>4 DEF TypeOK, vars
<1> QED BY <1>1, <1>2, <1>3, <1>4, ArrivalTypes DEF Next

\* Every reachable state is well typed: no path through the service stores a
\* status, a control state or a version the schema does not have.
THEOREM TypeCorrect == Spec => []TypeOK
<1>1. Init => TypeOK
  <2> SUFFICES ASSUME Init PROVE TypeOK
    OBVIOUS
  <2>1. 0 \in Runs /\ 0 \in 0 .. MaxCrash
    BY BoundsAssumption DEF Runs
  <2>2. EmptyMeta \in Meta
    BY DEF EmptyMeta, Meta
  <2> QED BY <2>1, <2>2, IdleType DEF Init, TypeOK, MatchStatuses, ControlStates
<1> QED BY <1>1, TypeStep, PTL DEF Spec

-----------------------------------------------------------------------------
(* Finalization.  Apart from FinalizeRead and FinalizeCommit, a step of a   *)
(* request either leaves status, version, run and results alone, or moves   *)
(* the version on.                                                         *)

\* Only request p moves, and not to the write of a finalization.
OnlyMoves(p) ==
  /\ \A q \in Req : q # p => req'[q] = req[q]
  /\ req'[p].pc # "fincommit"

QuietStep(p)     == OnlyMoves(p) /\ UNCHANGED <<status, version, slotRun, run, published>>
VersionedStep(p) == OnlyMoves(p) /\ version' = version + 1

\* Goto moves one request and no other.
LEMMA GotoOthers ==
  ASSUME TypeOK, NEW p \in Req, NEW r, Goto(p, r)
  PROVE  req'[p] = r /\ \A q \in Req : q # p => req'[q] = req[q]
BY DEF TypeOK, Goto

\* An idle slot is not finalizing.
LEMMA IdlePC == Idle.pc = "idle"
BY DEF Idle

\* Loads, refusals and metaJson writers touch nothing the invariant is about.
LEMMA QuietSteps ==
  ASSUME TypeOK, NEW p \in Req,
         \/ EndLoad(p) \/ DetectLoad(p) \/ StartLoad(p) \/ RestartLoad(p)
         \/ UnlockLoad(p) \/ StatusLoad(p) \/ AlreadyLive(p) \/ Conflict(p)
         \/ PublishFails(p) \/ PersistRead(p) \/ PersistWrite(p) \/ MetaRead(p) \/ MetaWrite(p)
         \/ EligibleLoad(p) \/ ConfirmLoad(p) \/ PromoteLost(p) \/ ResolveVersion(p)
         \/ \E op \in AllOps, exp \in {NoVersion, version} : Submit(p, op, exp)
         \/ AcceptPacket(p) \/ QueueRecovery(p)
  PROVE  QuietStep(p)
<1> DEFINE r == req[p]
<1>0. r \in Request /\ Idle \in Request
  BY IdleType DEF TypeOK
<1>1. Loaded(r) \in Request /\ LoadMatch(r).pc = "commit"
  BY <1>0, LoadedTypes
<1>2. CASE EndLoad(p) \/ DetectLoad(p)
  <2>1. [Loaded(r) EXCEPT !.pc = "commit"].pc = "commit"
    BY <1>1 DEF Request
  <2> QED BY <1>2, <2>1, IdlePC, GotoOthers
          DEF EndLoad, DetectLoad, Done, db, QuietStep, OnlyMoves
<1>3. CASE StartLoad(p) \/ RestartLoad(p) \/ UnlockLoad(p) \/ StatusLoad(p)
  BY <1>3, <1>1, IdlePC, GotoOthers
     DEF StartLoad, RestartLoad, UnlockLoad, StatusLoad, Done, db, QuietStep, OnlyMoves
<1>4. CASE AlreadyLive(p) \/ Conflict(p) \/ PublishFails(p)
  BY <1>4, IdlePC, GotoOthers
     DEF AlreadyLive, Conflict, PublishFails, Done, db, QuietStep, OnlyMoves
<1>5. CASE PersistRead(p)
  <2>1. [Loaded(r) EXCEPT !.pc = "persistwrite"].pc = "persistwrite"
    BY <1>1 DEF Request
  <2> QED BY <1>5, <2>1, GotoOthers DEF PersistRead, db, QuietStep, OnlyMoves
<1>6. CASE PersistWrite(p)
  <2>1. [Idle EXCEPT !.op = r.op, !.sess = r.sess, !.pc = "metaread"].pc = "metaread"
    BY <1>0 DEF Request
  <2> QED BY <1>6, <2>1, GotoOthers DEF PersistWrite, QuietStep, OnlyMoves
<1>7. CASE MetaRead(p)
  <2>1. [r EXCEPT !.meta = meta, !.pc = "metawrite"].pc = "metawrite"
    BY <1>0 DEF Request
  <2> QED BY <1>7, <2>1, GotoOthers DEF MetaRead, db, QuietStep, OnlyMoves
<1>8. CASE MetaWrite(p)
  <2>1. [Idle EXCEPT !.op = "detect", !.sess = r.sess, !.pc = "load"].pc = "load"
    BY <1>0 DEF Request
  <2> QED BY <1>8, <2>1, IdlePC, GotoOthers DEF MetaWrite, Done, QuietStep, OnlyMoves
<1>9. CASE EligibleLoad(p)
  <2>1. [r EXCEPT !.pc = "confirm"].pc = "confirm"
    BY <1>0 DEF Request
  <2> QED BY <1>9, <2>1, IdlePC, GotoOthers DEF EligibleLoad, Done, db, QuietStep, OnlyMoves
<1>10. CASE ConfirmLoad(p) \/ PromoteLost(p)
  <2>1. [r EXCEPT !.pc = "resolve"].pc = "resolve" /\ [r EXCEPT !.pc = "promote"].pc = "promote"
    BY <1>0 DEF Request
  <2> QED BY <1>10, <2>1, IdlePC, GotoOthers
          DEF ConfirmLoad, PromoteLost, Done, db, QuietStep, OnlyMoves
<1>11. CASE ResolveVersion(p)
  <2> DEFINE v == IF r.exp # NoVersion THEN r.exp ELSE version
  <2>1. [r EXCEPT !.pc = "finread", !.ver = v].pc = "finread"
    BY <1>0 DEF Request
  <2> QED BY <1>11, <2>1, GotoOthers DEF ResolveVersion, db, QuietStep, OnlyMoves
<1>12. ASSUME NEW op \in AllOps, NEW exp \in {NoVersion, version}, Submit(p, op, exp)
       PROVE QuietStep(p)
  <2> DEFINE pc == IF op = "note" THEN "metaread" ELSE "load"
  <2>1. [Idle EXCEPT !.op = op, !.exp = exp, !.pc = pc].pc # "fincommit"
    BY <1>0 DEF Request
  <2> QED BY <1>12, <2>1, GotoOthers DEF Submit, db, QuietStep, OnlyMoves
<1>13. CASE AcceptPacket(p)
  <2>1. [Idle EXCEPT !.op = "packet", !.sess = session, !.pc = "persistread"].pc # "fincommit"
    BY <1>0 DEF Request
  <2> QED BY <1>13, <2>1, GotoOthers DEF AcceptPacket, db, QuietStep, OnlyMoves
<1>14. CASE QueueRecovery(p)
  <2>1. [Idle EXCEPT !.op = "recover", !.pc = "load"].pc # "fincommit"
    BY <1>0 DEF Request
  <2> QED BY <1>14, <2>1, GotoOthers DEF QueueRecovery, db, QuietStep, OnlyMoves
<1> QED BY <1>2, <1>3, <1>4, <1>5, <1>6, <1>7, <1>8, <1>9, <1>10, <1>11, <1>12, <1>13, <1>14

\* The control operations other than a start move the version and leave the
\* run and its results alone.
ControlStep(p) ==
  \/ AutoEnd(p) \/ EndCommit(p) \/ DetectCommit(p) \/ Promote(p)
  \/ \E s \in Session \cup {NoSession} : RebindCommit(p, s)
  \/ \E restart \in BOOLEAN : UnlockCommit(p, restart)
  \/ \E state \in {"READY", "COUNTDOWN"}, sent \in BOOLEAN : ReadyCommit(p, state, sent)
  \/ \E sent \in BOOLEAN : PendingCommit(p, sent)

\* Every control operation but a start moves the version and keeps slot rows,
\* run and publications.
LEMMA ControlSteps ==
  ASSUME TypeOK, NEW p \in Req, ControlStep(p)
  PROVE  VersionedStep(p) /\ UNCHANGED <<slotRun, run, published>>
<1> DEFINE r == req[p]
<1>0. r \in Request /\ Idle \in Request
  BY IdleType DEF TypeOK
<1>1. CASE AutoEnd(p)
  <2>1. [Idle EXCEPT !.op = "autoend", !.pc = "confirm"].pc # "fincommit"
    BY <1>0 DEF Request
  <2> QED BY <1>1, <2>1, GotoOthers DEF AutoEnd, WriteControlState, VersionedStep, OnlyMoves
<1>2. CASE EndCommit(p)
  <2>1. [Idle EXCEPT !.op = "end", !.exp = r.exp, !.pc = "resolve"].pc # "fincommit"
    BY <1>0 DEF Request
  <2> QED BY <1>2, <2>1, GotoOthers DEF EndCommit, WriteControlState, VersionedStep, OnlyMoves
<1>3. CASE DetectCommit(p)
  <2>1. [Idle EXCEPT !.op = "eligible", !.pc = "load"].pc # "fincommit"
    BY <1>0 DEF Request
  <2> QED BY <1>3, <2>1, GotoOthers DEF DetectCommit, WriteControlState, VersionedStep, OnlyMoves
<1>4. CASE Promote(p)
  <2>1. [r EXCEPT !.ver = version + 1, !.pc = "finread"].pc # "fincommit"
    BY <1>0 DEF Request
  <2> QED BY <1>4, <2>1, GotoOthers DEF Promote, WriteControlState, VersionedStep, OnlyMoves
<1>5. ASSUME NEW s \in Session \cup {NoSession}, RebindCommit(p, s)
      PROVE VersionedStep(p) /\ UNCHANGED <<slotRun, run, published>>
  BY <1>5, IdlePC, GotoOthers DEF RebindCommit, Done, WriteControlState, VersionedStep, OnlyMoves
<1>6. ASSUME NEW restart \in BOOLEAN, UnlockCommit(p, restart)
      PROVE VersionedStep(p) /\ UNCHANGED <<slotRun, run, published>>
  <2>1. [Idle EXCEPT !.op = "restart", !.pc = "load"].pc # "fincommit"
    BY <1>0 DEF Request
  <2> QED BY <1>6, <2>1, IdlePC, GotoOthers
          DEF UnlockCommit, Done, WriteControlState, VersionedStep, OnlyMoves
<1>7. ASSUME NEW state \in {"READY", "COUNTDOWN"}, NEW sent \in BOOLEAN,
             ReadyCommit(p, state, sent)
      PROVE VersionedStep(p) /\ UNCHANGED <<slotRun, run, published>>
  BY <1>7, IdlePC, GotoOthers DEF ReadyCommit, Done, WriteControlState, VersionedStep, OnlyMoves
<1>8. ASSUME NEW sent \in BOOLEAN, PendingCommit(p, sent)
      PROVE VersionedStep(p) /\ UNCHANGED <<slotRun, run, published>>
  BY <1>8, IdlePC, GotoOthers DEF PendingCommit, Done, WriteControlState, VersionedStep, OnlyMoves
<1> QED BY <1>1, <1>2, <1>3, <1>4, <1>5, <1>6, <1>7, <1>8 DEF ControlStep

(* A step that moves the version leaves every other finalization behind it. *)
LEMMA VersionedKeepsReads ==
  ASSUME TypeOK, ReadsAreCurrent, NEW p \in Req, VersionedStep(p)
  PROVE  ReadsAreCurrent'
<1> SUFFICES ASSUME NEW q \in Req, req'[q].pc = "fincommit"
             PROVE  req'[q].ver <= version' /\ req'[q].ver # version'
  BY DEF ReadsAreCurrent
<1>1. q # p /\ req'[q] = req[q]
  BY DEF VersionedStep, OnlyMoves
<1>2. req[q].ver <= version /\ req[q].ver \in Int /\ version \in Nat
  BY <1>1 DEF ReadsAreCurrent, TypeOK, Request
<1> QED BY <1>1, <1>2 DEF VersionedStep

\* A start begins a run that has not been published.
LEMMA StartKeepsSafe ==
  ASSUME TypeOK, FinalizationSafe, NEW p \in Req,
         NEW s \in Session \cup {NoSession}, NEW k \in BOOLEAN, StartCommit(p, s, k)
  PROVE  FinalizationSafe'
<1>1. ReadsAreCurrent'
  <2>1. VersionedStep(p)
    BY IdlePC, GotoOthers DEF StartCommit, Done, WriteControlState, VersionedStep, OnlyMoves
  <2> QED BY <2>1, VersionedKeepsReads DEF FinalizationSafe
<1>2. run' = run + 1 /\ published' = published /\ run \in Nat /\ run + 1 \in Runs
  BY BoundsAssumption DEF StartCommit, TypeOK, Runs
<1>3. \A r \in Runs : r > run => published[r] = 0
  BY DEF FinalizationSafe, PublishedIsRecorded
<1>4. published'[run'] = 0
  BY <1>2, <1>3
<1>5. \A r \in Runs : r > run' => published'[r] = 0
  BY <1>2, <1>3 DEF Runs
<1>6. PublishedAtMostOnce'
  BY <1>2 DEF FinalizationSafe, PublishedAtMostOnce
<1> QED BY <1>1, <1>4, <1>5, <1>6 DEF FinalizationSafe, PublishedIsRecorded

\* The read half of finalization records what is there.
LEMMA FinalizeReadKeepsSafe ==
  ASSUME TypeOK, FinalizationSafe, NEW p \in Req, FinalizeRead(p)
  PROVE  FinalizationSafe'
<1> DEFINE r == req[p]
           x == [Loaded(r) EXCEPT !.pc = "fincommit", !.applied = FinalResultsAlreadyApplied]
<1>0. r \in Request /\ Loaded(r) \in Request
  BY LoadedTypes DEF TypeOK
<1>1. UNCHANGED <<status, version, slotRun, run, published>>
  BY DEF FinalizeRead, db
<1>2. CASE req'[p].pc = "fincommit"
  <2>1. Goto(p, x) /\ status = "FINISH_PENDING" /\ version = r.ver
    <3>1. Goto(p, Idle) => req'[p].pc = "idle"
      BY GotoOthers, IdlePC
    <3> QED BY <1>2, <3>1 DEF FinalizeRead, Done
  <2>2. x.ver = r.ver /\ x.run = run /\ x.applied = FinalResultsAlreadyApplied
    BY <1>0 DEF Loaded, Request, TypeOK
  <2>3. ~FinalResultsAlreadyApplied => slotRun = NoRun
    BY DEF FinalResultsAlreadyApplied
  <2>4. req'[p] = x /\ \A q \in Req : q # p => req'[q] = req[q]
    BY <2>1, GotoOthers
  <2>5. version \in Nat
    BY DEF TypeOK
  <2>6. ReadsAreCurrent'
    <3> SUFFICES ASSUME NEW q \in Req, req'[q].pc = "fincommit"
                 PROVE  /\ req'[q].ver <= version
                        /\ req'[q].ver = version =>
                             /\ status = "FINISH_PENDING"
                             /\ req'[q].run = run
                             /\ ~req'[q].applied => slotRun = NoRun
      BY <1>1 DEF ReadsAreCurrent
    <3>1. CASE q = p
      BY <3>1, <2>1, <2>2, <2>3, <2>4, <2>5
    <3>2. CASE q # p
      BY <3>2, <2>4 DEF FinalizationSafe, ReadsAreCurrent
    <3> QED BY <3>1, <3>2
  <2> QED BY <1>1, <2>6 DEF FinalizationSafe, PublishedIsRecorded, PublishedAtMostOnce
<1>3. CASE req'[p].pc # "fincommit"
  <2>1. \A q \in Req : q # p => req'[q] = req[q]
    BY GotoOthers DEF FinalizeRead, Done
  <2>2. ReadsAreCurrent'
    BY <1>1, <1>3, <2>1 DEF FinalizationSafe, ReadsAreCurrent
  <2> QED BY <1>1, <2>2 DEF FinalizationSafe, PublishedIsRecorded, PublishedAtMostOnce
<1> QED BY <1>2, <1>3

\* The write half publishes only for a run that has not been published.
LEMMA FinalizeCommitKeepsSafe ==
  ASSUME TypeOK, FinalizationSafe, NEW p \in Req, FinalizeCommit(p)
  PROVE  /\ FinalizationSafe'
         /\ status = "FINISH_PENDING" /\ req[p].run = run
         /\ ~req[p].applied => published[run] = 0
<1> DEFINE r == req[p]
<1>0. r \in Request /\ run \in Runs /\ published \in [Runs -> Nat]
  BY DEF TypeOK
<1>1. VersionedStep(p)
  <2>1. [Idle EXCEPT !.op = "note", !.pc = "metaread"].pc # "fincommit"
    BY IdleType DEF Request
  <2> QED BY <2>1, GotoOthers DEF FinalizeCommit, WriteControlState, VersionedStep, OnlyMoves
<1>2. ReadsAreCurrent'
  BY <1>1, VersionedKeepsReads DEF FinalizationSafe
<1>3. status = "FINISH_PENDING" /\ r.run = run /\ (~r.applied => slotRun = NoRun)
  BY DEF FinalizeCommit, FinalizationSafe, ReadsAreCurrent
<1>4. ~r.applied => published[run] = 0
  BY <1>3 DEF FinalizationSafe, PublishedIsRecorded
<1>5. run' = run
  BY DEF FinalizeCommit
<1>6. CASE r.applied
  <2>1. UNCHANGED <<slotRun, published>>
    BY <1>6 DEF FinalizeCommit
  <2> QED BY <1>2, <1>3, <1>4, <1>5, <2>1
          DEF FinalizationSafe, PublishedIsRecorded, PublishedAtMostOnce
<1>7. CASE ~r.applied
  <2>1. slotRun' = run /\ published' = [published EXCEPT ![run] = published[run] + 1]
    BY <1>7 DEF FinalizeCommit
  <2>2. published' = [published EXCEPT ![run] = 1]
    <3>1. published[run] + 1 = 1
      BY <1>4, <1>7
    <3> QED BY <2>1, <3>1
  <2>3. slotRun' # NoRun
    BY <1>0, <2>1 DEF Runs
  <2>4. \A q \in Runs : q > run => published'[q] = 0
    BY <1>0, <2>2 DEF FinalizationSafe, PublishedIsRecorded, Runs
  <2>5. PublishedAtMostOnce'
    BY <1>0, <2>2 DEF FinalizationSafe, PublishedAtMostOnce
  <2> QED BY <1>2, <1>3, <1>4, <1>5, <2>3, <2>4, <2>5 DEF FinalizationSafe, PublishedIsRecorded
<1> QED BY <1>6, <1>7

\* The finalization invariant is inductive.
LEMMA SafeStep == TypeOK /\ FinalizationSafe /\ [Next]_vars => FinalizationSafe'
<1> SUFFICES ASSUME TypeOK, FinalizationSafe, [Next]_vars PROVE FinalizationSafe'
  OBVIOUS
<1>a. ASSUME NEW p \in Req, QuietStep(p) PROVE FinalizationSafe'
  <2>1. ReadsAreCurrent'
    BY <1>a DEF FinalizationSafe, ReadsAreCurrent, QuietStep, OnlyMoves
  <2> QED BY <1>a, <2>1 DEF FinalizationSafe, PublishedIsRecorded, PublishedAtMostOnce, QuietStep
<1>b. ASSUME NEW p \in Req, ControlStep(p) PROVE FinalizationSafe'
  <2>1. VersionedStep(p) /\ UNCHANGED <<slotRun, run, published>>
    BY <1>b, ControlSteps
  <2>2. ReadsAreCurrent'
    BY <2>1, VersionedKeepsReads DEF FinalizationSafe
  <2> QED BY <2>1, <2>2 DEF FinalizationSafe, PublishedIsRecorded, PublishedAtMostOnce
<1>1. ASSUME NEW p \in Req, Step(p) PROVE FinalizationSafe'
  BY <1>1, <1>a, <1>b, QuietSteps, StartKeepsSafe, FinalizeReadKeepsSafe, FinalizeCommitKeepsSafe
     DEF Step, Finalizing, ControlStep
<1>2. ASSUME NEW p \in Req,
             \/ \E op \in AllOps, exp \in {NoVersion, version} : Submit(p, op, exp)
             \/ AcceptPacket(p) \/ QueueRecovery(p) \/ AutoEnd(p)
      PROVE FinalizationSafe'
  BY <1>2, <1>a, <1>b, QuietSteps DEF ControlStep
<1>3. CASE Play
  BY <1>3 DEF Play, db, FinalizationSafe, ReadsAreCurrent, PublishedIsRecorded, PublishedAtMostOnce
<1>4. CASE Crash
  <2>1. \A p \in Req : req'[p].pc = "idle"
    BY <1>4, IdlePC DEF Crash
  <2> QED BY <1>4, <2>1
          DEF Crash, db, FinalizationSafe, ReadsAreCurrent, PublishedIsRecorded, PublishedAtMostOnce
<1>5. CASE UNCHANGED vars
  BY <1>5 DEF vars, FinalizationSafe, ReadsAreCurrent, PublishedIsRecorded, PublishedAtMostOnce
<1> QED BY <1>1, <1>2, <1>3, <1>4, <1>5 DEF Next

\* The strengthening holds: whoever can still commit a finalization has read
\* the rows as they are, and unrecorded runs are unpublished.
THEOREM FinalizationIsSafe == Spec => []FinalizationSafe
<1>1. Init => FinalizationSafe
  <2> SUFFICES ASSUME Init PROVE FinalizationSafe
    OBVIOUS
  <2>1. \A p \in Req : req[p].pc = "idle"
    BY IdlePC DEF Init
  <2>2. 0 \in Runs
    BY BoundsAssumption DEF Runs
  <2> QED BY <2>1, <2>2 DEF Init, FinalizationSafe, ReadsAreCurrent, PublishedIsRecorded, PublishedAtMostOnce
<1> QED BY <1>1, SafeStep, TypeCorrect, PTL DEF Spec

\* For any number of racing requests, restarts and stale metaJson writers, the
\* results of a run are computed at most once.
THEOREM ResultsPublishedOnce == Spec => []PublishedAtMostOnce
<1>1. FinalizationSafe => PublishedAtMostOnce
  BY DEF FinalizationSafe
<1> QED BY <1>1, FinalizationIsSafe, PTL

-----------------------------------------------------------------------------
(* The ledger.                                                             *)

\* No control operation makes a match finished.
LEMMA ControlStatus ==
  ASSUME TypeOK, NEW p \in Req, ControlStep(p)
  PROVE  status' \in {status, "DRAFT", "ENDED", "FINISH_PENDING"}
BY DEF ControlStep, AutoEnd, EndCommit, DetectCommit, Promote, RebindCommit, UnlockCommit,
       ReadyCommit, PendingCommit, ResetRun

\* Every step is quiet, a control operation, a start, a finalizing read, which
\* leaves the rows alone, or a finalizing write.
LEMMA StepKinds ==
  ASSUME TypeOK, [Next]_vars
  PROVE  \/ UNCHANGED <<status, run, published>>
         \/ \E p \in Req : ControlStep(p) /\ UNCHANGED <<run, published>>
         \/ \E p \in Req, s \in Session \cup {NoSession}, k \in BOOLEAN : StartCommit(p, s, k)
         \/ \E p \in Req : FinalizeCommit(p)
<1> DEFINE Kinds ==
         \/ UNCHANGED <<status, run, published>>
         \/ \E p \in Req : ControlStep(p) /\ UNCHANGED <<run, published>>
         \/ \E p \in Req, s \in Session \cup {NoSession}, k \in BOOLEAN : StartCommit(p, s, k)
         \/ \E p \in Req : FinalizeCommit(p)
<1>a. ASSUME NEW p \in Req, QuietStep(p) PROVE Kinds
  BY <1>a DEF QuietStep
<1>b. ASSUME NEW p \in Req, ControlStep(p) PROVE Kinds
  BY <1>b, ControlSteps
<1>1. ASSUME NEW p \in Req, Step(p) PROVE Kinds
  <2>1. CASE FinalizeRead(p)
    BY <2>1 DEF FinalizeRead, db
  <2>2. CASE FinalizeCommit(p)
    BY <2>2
  <2>3. CASE \E s \in Session \cup {NoSession}, k \in BOOLEAN : StartCommit(p, s, k)
    BY <2>3
  <2> QED BY <1>1, <1>a, <1>b, <2>1, <2>2, <2>3, QuietSteps DEF Step, Finalizing, ControlStep
<1>2. ASSUME NEW p \in Req,
             \/ \E op \in AllOps, exp \in {NoVersion, version} : Submit(p, op, exp)
             \/ AcceptPacket(p) \/ QueueRecovery(p) \/ AutoEnd(p)
      PROVE Kinds
  BY <1>2, <1>a, <1>b, QuietSteps DEF ControlStep
<1>3. CASE Play \/ Crash \/ UNCHANGED vars
  BY <1>3 DEF Play, Crash, db, vars
<1> QED BY <1>1, <1>2, <1>3 DEF Next

\* A match is finished only out of FINISH_PENDING, in the run that was read.
THEOREM FinishedFromPending == Spec => FinishedOnlyFromPending
<1> DEFINE A == status' = "FINISHED" /\ status # "FINISHED"
                  => /\ status = "FINISH_PENDING"
                     /\ \A p \in Req : req[p].pc = "fincommit" /\ req'[p] # req[p]
                           => req[p].run = run
<1>1. TypeOK /\ FinalizationSafe /\ [Next]_vars => [A]_vars
  <2> SUFFICES ASSUME TypeOK, FinalizationSafe, [Next]_vars,
                      status' = "FINISHED", status # "FINISHED"
               PROVE  /\ status = "FINISH_PENDING"
                      /\ \A p \in Req : req[p].pc = "fincommit" /\ req'[p] # req[p]
                            => req[p].run = run
    OBVIOUS
  <2>1. PICK p \in Req : FinalizeCommit(p)
    BY StepKinds, ControlStatus DEF StartCommit
  <2>2. \A q \in Req : q # p => req'[q] = req[q]
    BY <2>1, GotoOthers DEF FinalizeCommit
  <2> QED BY <2>1, <2>2, FinalizeCommitKeepsSafe
<1> QED BY <1>1, TypeCorrect, FinalizationIsSafe, PTL DEF Spec, FinishedOnlyFromPending

\* The lifecycle implements ResultsLedger, under the mapping that forgets
\* everything but the phase, the run and what was published.
THEOREM LedgerImplemented == Spec => ImplementsLedger
<1>1. Init => Ledger!Init
  BY DEF Init, Ledger!Init, Phase, Runs
<1>2. TypeOK /\ FinalizationSafe /\ [Next]_vars => [Ledger!Next]_<<Phase, run, published>>
  <2> SUFFICES ASSUME TypeOK, FinalizationSafe, [Next]_vars
               PROVE  Ledger!Next \/ UNCHANGED <<Phase, run, published>>
    OBVIOUS
  <2>1. CASE UNCHANGED <<status, run, published>>
    BY <2>1 DEF Phase
  <2>2. ASSUME NEW p \in Req, ControlStep(p), UNCHANGED <<run, published>>
        PROVE  Ledger!Next \/ UNCHANGED <<Phase, run, published>>
    <3>1. status' \in {status, "DRAFT", "ENDED", "FINISH_PENDING"}
      BY <2>2, ControlStatus
    <3>2. CASE status' = status
      BY <2>2, <3>2 DEF Phase
    <3>3. CASE status' = "DRAFT"
      BY <2>2, <3>3 DEF Phase, Ledger!Next, Ledger!Reopen
    <3>4. CASE status' \in {"ENDED", "FINISH_PENDING"}
      BY <2>2, <3>4 DEF Phase, Ledger!Next, Ledger!Close
    <3> QED BY <3>1, <3>2, <3>3, <3>4
  <2>3. ASSUME NEW p \in Req, NEW s \in Session \cup {NoSession}, NEW k \in BOOLEAN,
               StartCommit(p, s, k)
        PROVE  Ledger!Next
    BY <2>3 DEF StartCommit, Phase, Ledger!Next, Ledger!StartRun
  <2>4. ASSUME NEW p \in Req, FinalizeCommit(p)
        PROVE  Ledger!Next
    <3>1. /\ status = "FINISH_PENDING" /\ status' = "FINISHED" /\ run' = run
          /\ ~req[p].applied => published[run] = 0
      BY <2>4, FinalizeCommitKeepsSafe DEF FinalizeCommit
    <3>2. Phase = "closed" /\ Phase' = "final"
      BY <3>1 DEF Phase
    <3>3. CASE req[p].applied
      <4>1. published' = published
        BY <2>4, <3>3 DEF FinalizeCommit
      <4> QED BY <3>1, <3>2, <4>1 DEF Ledger!Next, Ledger!Finalize
    <3>4. CASE ~req[p].applied
      <4>1. published' = [published EXCEPT ![run] = published[run] + 1]
        BY <2>4, <3>4 DEF FinalizeCommit
      <4>2. published[run] = 0 /\ published[run] + 1 = 1
        BY <3>1, <3>4
      <4>3. published' = [published EXCEPT ![run] = 1]
        BY <4>1, <4>2
      <4> QED BY <3>1, <3>2, <4>2, <4>3 DEF Ledger!Next, Ledger!Finalize
    <3> QED BY <3>3, <3>4
  <2> QED BY <2>1, <2>2, <2>3, <2>4, StepKinds
<1> QED BY <1>1, <1>2, TypeCorrect, FinalizationIsSafe, PTL
       DEF Spec, ImplementsLedger, Ledger!Spec, Ledger!ledgerVars

=============================================================================
