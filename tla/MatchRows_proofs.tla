-------------------------- MODULE MatchRows_proofs --------------------------
(***************************************************************************)
(* What takes discipline on the clients' side, proved for any number of    *)
(* sessions, runs, versions and restarts.  That the match row and the      *)
(* control row agree (RowsAgree) takes clients that send the version they  *)
(* saw and no telemetry packet, which writes a control row it read before; *)
(* the number of requests in flight does not matter.  That a finished      *)
(* match carries the results of its own run (FinishedHasThisRunsResults)   *)
(* takes requests that come one at a time; versions and packets do not     *)
(* matter then.                                                            *)
(***************************************************************************)
EXTENDS MatchLifecycle_proofs

-----------------------------------------------------------------------------
(* Both rows, with versions.                                               *)

\* The operations that write the match row by what they read of it.
WritesByRead == {"start", "ready", "pending"}

\* A request that will is told apart by its version from the writers after its
\* read; and no request is about to store a control row it read before.
Honest(r) ==
  /\ r.pc \notin {"persistread", "persistwrite"}
  /\ r.op \in WritesByRead =>
       /\ r.exp # NoVersion /\ r.exp <= version
       /\ r.pc = "commit" /\ r.exp = version => r.status = status

RowsInv == RowsAgree /\ \A p \in Req : Honest(req[p])

\* An idle slot is honest, and so is every request for anything else.
LEMMA OthersAreHonest ==
  ASSUME NEW r, r.op \notin WritesByRead, r.pc \notin {"persistread", "persistwrite"}
  PROVE  Honest(r)
BY DEF Honest

\* What an idle slot is.
LEMMA IdleFields == Idle.op = "none" /\ Idle.pc = "idle"
BY DEF Idle

\* A request that only goes on is the same request elsewhere.
LEMMA MovedFields ==
  ASSUME NEW r \in Request, NEW c \in PCs
  PROVE  /\ [r EXCEPT !.pc = c].pc = c
         /\ [r EXCEPT !.pc = c].op = r.op /\ [r EXCEPT !.pc = c].exp = r.exp
         /\ [r EXCEPT !.pc = c].status = r.status /\ [r EXCEPT !.pc = c].control = r.control
         /\ [r EXCEPT !.pc = c].meta = r.meta /\ [r EXCEPT !.pc = c].run = r.run
         /\ [r EXCEPT !.pc = c].applied = r.applied
BY DEF Request

\* What a request that has loaded the match knows.
LEMMA LoadedFields ==
  ASSUME TypeOK, NEW r \in Request
  PROVE  /\ Loaded(r) \in Request
         /\ Loaded(r).pc = r.pc /\ Loaded(r).op = r.op /\ Loaded(r).exp = r.exp
         /\ Loaded(r).status = status /\ Loaded(r).control = control
         /\ Loaded(r).meta = meta /\ Loaded(r).run = run
         /\ LoadMatch(r).pc = "commit" /\ LoadMatch(r).op = r.op /\ LoadMatch(r).exp = r.exp
         /\ LoadMatch(r).status = status /\ LoadMatch(r).control = control
         /\ LoadMatch(r).meta = meta /\ LoadMatch(r).run = run
<1>1. /\ Loaded(r) \in Request
      /\ Loaded(r).pc = r.pc /\ Loaded(r).op = r.op /\ Loaded(r).exp = r.exp
      /\ Loaded(r).status = status /\ Loaded(r).control = control
      /\ Loaded(r).meta = meta /\ Loaded(r).run = run
  BY DEF TypeOK, Loaded, Request
<1> QED BY <1>1 DEF LoadMatch, Request

\* A step that writes neither row leaves them as they agreed.
LEMMA QuietKeepsRows ==
  ASSUME TypeOK, RowsInv, NEW p \in Req, NEW r, Goto(p, r), Honest(r),
         UNCHANGED <<status, control, version>>
  PROVE  RowsInv'
<1>1. req'[p] = r /\ \A q \in Req : q # p => req'[q] = req[q]
  BY GotoOthers
<1>2. \A q \in Req : Honest(req[q])'
  BY <1>1 DEF RowsInv, Honest
<1> QED BY <1>2 DEF RowsInv, RowsAgree

\* A step that moves the version tells every other request that its read is old.
LEMMA VersionedKeepsRows ==
  ASSUME TypeOK, RowsInv, NEW p \in Req, NEW r, Goto(p, r),
         r.op \notin WritesByRead, r.pc \notin {"persistread", "persistwrite"},
         version' = version + 1, RowsAgree'
  PROVE  RowsInv'
<1>1. req'[p] = r /\ \A q \in Req : q # p => req'[q] = req[q]
  BY GotoOthers
<1>2. ASSUME NEW q \in Req, q # p PROVE Honest(req[q])'
  <2>1. Honest(req[q]) /\ req'[q] = req[q]
    BY <1>1, <1>2 DEF RowsInv
  <2>2. req[q].exp \in Int /\ version \in Nat
    BY <1>2 DEF TypeOK, Request
  <2> QED BY <2>1, <2>2 DEF Honest
<1>3. Honest(req[p])'
  BY <1>1 DEF Honest
<1> QED BY <1>2, <1>3 DEF RowsInv
\* Loading, refusing, going on and leaving metaJson alone change neither row.
LEMMA QuietRows ==
  ASSUME TypeOK, RowsInv, NEW p \in Req,
         \/ EndLoad(p) \/ DetectLoad(p) \/ StartLoad(p) \/ RestartLoad(p)
         \/ UnlockLoad(p) \/ StatusLoad(p) \/ AlreadyLive(p) \/ Conflict(p)
         \/ PublishFails(p) \/ PersistRead(p) \/ PersistWrite(p) \/ MetaRead(p) \/ MetaWrite(p)
         \/ EligibleLoad(p) \/ ConfirmLoad(p) \/ PromoteLost(p) \/ ResolveVersion(p)
         \/ FinalizeRead(p)
  PROVE  RowsInv'
<1> DEFINE r == req[p]
<1>0. r \in Request /\ Honest(r) /\ Honest(Idle)
  BY IdleFields, OthersAreHonest DEF TypeOK, RowsInv, WritesByRead
<1>l. /\ Loaded(r) \in Request /\ Loaded(r).op = r.op
      /\ LoadMatch(r).op = r.op /\ LoadMatch(r).exp = r.exp
      /\ LoadMatch(r).pc = "commit" /\ LoadMatch(r).status = status
  BY <1>0, LoadedFields
<1>m. ASSUME NEW c \in {"confirm", "promote", "resolve", "finread", "metawrite"}
      PROVE  Honest([r EXCEPT !.pc = c])
  <2>1. [r EXCEPT !.pc = c].pc = c /\ [r EXCEPT !.pc = c].op = r.op /\ [r EXCEPT !.pc = c].exp = r.exp
    BY <1>0, MovedFields DEF PCs
  <2> QED BY <1>0, <2>1 DEF Honest
<1>1. CASE EndLoad(p) \/ DetectLoad(p)
  <2> DEFINE x == [Loaded(r) EXCEPT !.pc = "commit"]
  <2>1. x.op = r.op /\ x.pc = "commit"
    BY <1>l, MovedFields DEF PCs
  <2>2. r.op \in {"end", "detect"}
    BY <1>1 DEF EndLoad, DetectLoad
  <2>3. Honest(x)
    BY <2>1, <2>2 DEF Honest, WritesByRead
  <2>4. Goto(p, x) \/ Goto(p, Idle)
    BY <1>1 DEF EndLoad, DetectLoad, Done
  <2>5. UNCHANGED <<status, control, version>>
    BY <1>1 DEF EndLoad, DetectLoad, db
  <2> HIDE DEF x
  <2> QED BY <1>0, <2>3, <2>4, <2>5, QuietKeepsRows
<1>2. CASE StartLoad(p) \/ RestartLoad(p) \/ UnlockLoad(p) \/ StatusLoad(p)
  <2>1. Goto(p, LoadMatch(r)) \/ Goto(p, Idle)
    BY <1>2 DEF StartLoad, RestartLoad, UnlockLoad, StatusLoad, Done
  <2>2. UNCHANGED <<status, control, version>>
    BY <1>2 DEF StartLoad, RestartLoad, UnlockLoad, StatusLoad, db
  <2>3. Honest(LoadMatch(r))
    BY <1>0, <1>l DEF Honest
  <2> QED BY <1>0, <2>1, <2>2, <2>3, QuietKeepsRows
<1>3. CASE AlreadyLive(p) \/ Conflict(p) \/ PublishFails(p)
  BY <1>0, <1>3, QuietKeepsRows DEF AlreadyLive, Conflict, PublishFails, Done, db
<1>4. CASE PersistRead(p) \/ PersistWrite(p)
  BY <1>0, <1>4 DEF PersistRead, PersistWrite, Honest
<1>5. CASE MetaRead(p)
  <2> DEFINE x == [r EXCEPT !.meta = meta, !.pc = "metawrite"]
  <2>1. x.op = r.op /\ x.pc = "metawrite" /\ x.exp = r.exp
    BY <1>0 DEF Request
  <2>2. Honest(x)
    BY <1>0, <2>1 DEF Honest
  <2>3. Goto(p, x) /\ UNCHANGED <<status, control, version>>
    BY <1>5 DEF MetaRead, db
  <2> HIDE DEF x
  <2> QED BY <2>2, <2>3, QuietKeepsRows
<1>6. CASE MetaWrite(p)
  <2> DEFINE x == [Idle EXCEPT !.op = "detect", !.sess = r.sess, !.pc = "load"]
  <2>1. x.op = "detect" /\ x.pc = "load"
    BY IdleType DEF Request
  <2>2. Honest(x)
    BY <2>1, OthersAreHonest DEF WritesByRead
  <2>3. (Goto(p, x) \/ Goto(p, Idle)) /\ UNCHANGED <<status, control, version>>
    BY <1>6 DEF MetaWrite, Done
  <2> HIDE DEF x
  <2> QED BY <1>0, <2>2, <2>3, QuietKeepsRows
<1>7. CASE EligibleLoad(p) \/ ConfirmLoad(p) \/ PromoteLost(p)
  <2>1. \E x : Goto(p, x) /\ Honest(x)
    <3>1. \/ Goto(p, [r EXCEPT !.pc = "confirm"]) \/ Goto(p, [r EXCEPT !.pc = "promote"])
          \/ Goto(p, [r EXCEPT !.pc = "resolve"]) \/ Goto(p, Idle)
      BY <1>7 DEF EligibleLoad, ConfirmLoad, PromoteLost, Done
    <3>2. Honest([r EXCEPT !.pc = "confirm"]) /\ Honest([r EXCEPT !.pc = "promote"])
          /\ Honest([r EXCEPT !.pc = "resolve"])
      BY <1>m
    <3> QED BY <1>0, <3>1, <3>2
  <2>2. UNCHANGED <<status, control, version>>
    BY <1>7 DEF EligibleLoad, ConfirmLoad, PromoteLost, db
  <2> QED BY <2>1, <2>2, QuietKeepsRows
<1>8. CASE ResolveVersion(p)
  <2> DEFINE v == IF r.exp # NoVersion THEN r.exp ELSE version
             x == [r EXCEPT !.pc = "finread", !.ver = v]
  <2>1. x.op = r.op /\ x.pc = "finread" /\ x.exp = r.exp
    BY <1>0 DEF Request
  <2>2. Honest(x)
    BY <1>0, <2>1 DEF Honest
  <2>3. Goto(p, x) /\ UNCHANGED <<status, control, version>>
    BY <1>8 DEF ResolveVersion, db
  <2> HIDE DEF x
  <2> QED BY <2>2, <2>3, QuietKeepsRows
<1>9. CASE FinalizeRead(p)
  <2> DEFINE x == [Loaded(r) EXCEPT !.pc = "fincommit", !.applied = FinalResultsAlreadyApplied]
  <2>1. x.op = r.op /\ x.pc = "fincommit" /\ x.exp = r.exp
    BY <1>0, LoadedFields DEF Request
  <2>2. Honest(x)
    BY <1>0, <2>1 DEF Honest
  <2>3. (Goto(p, x) \/ Goto(p, Idle)) /\ UNCHANGED <<status, control, version>>
    BY <1>9 DEF FinalizeRead, Done, db
  <2> HIDE DEF x
  <2> QED BY <1>0, <2>2, <2>3, QuietKeepsRows
<1> QED BY <1>1, <1>2, <1>3, <1>4, <1>5, <1>6, <1>7, <1>8, <1>9
\* Every transaction that moves the version leaves the rows in agreement: it
\* writes both, or it read the one it does not write under the same version.
LEMMA VersionedRows ==
  ASSUME TypeOK, RowsInv, NEW p \in Req,
         \/ ControlStep(p) \/ FinalizeCommit(p)
         \/ \E s \in Session \cup {NoSession}, k \in BOOLEAN : StartCommit(p, s, k)
  PROVE  RowsInv'
<1> DEFINE r == req[p]
<1>0. r \in Request /\ Idle \in Request /\ Honest(r) /\ version \in Nat /\ r.exp \in Int
  BY IdleType DEF TypeOK, RowsInv, Request
<1>i. Idle.op \notin WritesByRead /\ Idle.pc \notin {"persistread", "persistwrite"}
  BY IdleFields DEF WritesByRead
<1>r. r.op \in WritesByRead /\ r.pc = "commit" /\ VersionMatches(r.exp) => r.status = status
  BY <1>0 DEF Honest, VersionMatches
<1>1. CASE AutoEnd(p)
  <2> DEFINE x == [Idle EXCEPT !.op = "autoend", !.pc = "confirm"]
  <2>1. Goto(p, x) /\ version' = version + 1 /\ status' = "ENDED" /\ control' = "ENDED"
    BY <1>1 DEF AutoEnd, WriteControlState
  <2>2. x.op = "autoend" /\ x.pc = "confirm"
    BY <1>0 DEF Request
  <2> HIDE DEF x
  <2> QED BY <2>1, <2>2, VersionedKeepsRows DEF RowsAgree, WritesByRead
<1>2. CASE EndCommit(p)
  <2> DEFINE x == [Idle EXCEPT !.op = "end", !.exp = r.exp, !.pc = "resolve"]
  <2>1. Goto(p, x) /\ version' = version + 1
        /\ status' = "FINISH_PENDING" /\ control' = "FINISH_PENDING"
    BY <1>2 DEF EndCommit, WriteControlState
  <2>2. x.op = "end" /\ x.pc = "resolve"
    BY <1>0 DEF Request
  <2> HIDE DEF x
  <2> QED BY <2>1, <2>2, VersionedKeepsRows DEF RowsAgree, WritesByRead
<1>3. CASE DetectCommit(p)
  <2> DEFINE x == [Idle EXCEPT !.op = "eligible", !.pc = "load"]
  <2>1. Goto(p, x) /\ version' = version + 1
        /\ status' = "FINISH_PENDING" /\ control' = "FINISH_PENDING"
    BY <1>3 DEF DetectCommit, WriteControlState
  <2>2. x.op = "eligible" /\ x.pc = "load"
    BY <1>0 DEF Request
  <2> HIDE DEF x
  <2> QED BY <2>1, <2>2, VersionedKeepsRows DEF RowsAgree, WritesByRead
<1>4. CASE Promote(p)
  <2> DEFINE x == [r EXCEPT !.ver = version + 1, !.pc = "finread"]
  <2>1. Goto(p, x) /\ version' = version + 1
        /\ status' = "FINISH_PENDING" /\ control' = "FINISH_PENDING"
    BY <1>4 DEF Promote, WriteControlState
  <2>2. x.op = r.op /\ x.pc = "finread" /\ x.exp = r.exp
    BY <1>0 DEF Request
  <2>3. RowsAgree'
    BY <2>1 DEF RowsAgree
  <2> HIDE DEF x
  <2>4. req'[p] = x /\ \A q \in Req : q # p => req'[q] = req[q]
    BY <2>1, GotoOthers
  <2>5. ASSUME NEW q \in Req PROVE Honest(req[q])'
    <3>1. Honest(req[q]) /\ req[q].exp \in Int
      BY DEF RowsInv, TypeOK, Request
    <3> QED BY <1>0, <2>1, <2>2, <2>4, <3>1 DEF Honest
  <2> QED BY <2>3, <2>5 DEF RowsInv
<1>5. ASSUME NEW s \in Session \cup {NoSession}, RebindCommit(p, s)
      PROVE RowsInv'
  <2>1. /\ Goto(p, Idle) /\ version' = version + 1 /\ control' = "LIVE" /\ status' = status
        /\ r.op = "start" /\ r.pc = "commit" /\ r.status = "LIVE" /\ VersionMatches(r.exp)
    BY <1>5 DEF RebindCommit, WriteControlState, Done
  <2>2. status' = "LIVE"
    BY <1>r, <2>1 DEF WritesByRead
  <2> QED BY <1>i, <2>1, <2>2, VersionedKeepsRows DEF RowsAgree
<1>6. ASSUME NEW restart \in BOOLEAN, UnlockCommit(p, restart)
      PROVE RowsInv'
  <2> DEFINE x == [Idle EXCEPT !.op = "restart", !.pc = "load"]
  <2>1. /\ Goto(p, x) \/ Goto(p, Idle)
        /\ version' = version + 1 /\ control' = "READY" /\ status' = "DRAFT"
    BY <1>6 DEF UnlockCommit, WriteControlState, ResetRun, Done
  <2>2. x.op = "restart" /\ x.pc = "load"
    BY <1>0 DEF Request
  <2> HIDE DEF x
  <2> QED BY <1>i, <2>1, <2>2, VersionedKeepsRows DEF RowsAgree, WritesByRead
<1>7. ASSUME NEW state \in {"READY", "COUNTDOWN"}, NEW sent \in BOOLEAN,
             ReadyCommit(p, state, sent)
      PROVE RowsInv'
  <2>1. /\ Goto(p, Idle) /\ version' = version + 1 /\ control' = state
        /\ IF r.status # "DRAFT" THEN status' = "DRAFT" ELSE status' = status
        /\ r.op = "ready" /\ r.pc = "commit" /\ VersionMatches(r.exp)
    BY <1>7 DEF ReadyCommit, WriteControlState, ResetRun, Done
  <2>2. status' = "DRAFT"
    BY <1>r, <2>1 DEF WritesByRead
  <2> QED BY <1>i, <2>1, <2>2, VersionedKeepsRows DEF RowsAgree
<1>8. ASSUME NEW sent \in BOOLEAN, PendingCommit(p, sent)
      PROVE RowsInv'
  <2>1. /\ Goto(p, Idle) /\ version' = version + 1 /\ control' = "FINISH_PENDING"
        /\ IF r.status # "FINISH_PENDING" THEN status' = "FINISH_PENDING" ELSE status' = status
        /\ r.op = "pending" /\ r.pc = "commit" /\ VersionMatches(r.exp)
    BY <1>8 DEF PendingCommit, WriteControlState, Done
  <2>2. status' = "FINISH_PENDING"
    BY <1>r, <2>1 DEF WritesByRead
  <2> QED BY <1>i, <2>1, <2>2, VersionedKeepsRows DEF RowsAgree
<1>9. CASE FinalizeCommit(p)
  <2> DEFINE x == [Idle EXCEPT !.op = "note", !.pc = "metaread"]
  <2>1. Goto(p, x) /\ version' = version + 1 /\ status' = "FINISHED" /\ control' = "ENDED"
    BY <1>9 DEF FinalizeCommit, WriteControlState
  <2>2. x.op = "note" /\ x.pc = "metaread"
    BY <1>0 DEF Request
  <2> HIDE DEF x
  <2> QED BY <2>1, <2>2, VersionedKeepsRows DEF RowsAgree, WritesByRead
<1>10. ASSUME NEW s \in Session \cup {NoSession}, NEW k \in BOOLEAN, StartCommit(p, s, k)
       PROVE RowsInv'
  <2>1. Goto(p, Idle) /\ version' = version + 1 /\ status' = "LIVE" /\ control' = "LIVE"
    BY <1>10 DEF StartCommit, WriteControlState, Done
  <2> QED BY <1>i, <2>1, VersionedKeepsRows DEF RowsAgree
<1> QED BY <1>1, <1>2, <1>3, <1>4, <1>5, <1>6, <1>7, <1>8, <1>9, <1>10 DEF ControlStep
\* A client that sends the version it saw is honest when it arrives, and the
\* rest reads or writes as it goes; a packet does not come.
LEMMA ArrivalRows ==
  ASSUME Versioned = TRUE, "packet" \notin Ops, TypeOK, RowsInv, NEW p \in Req,
         \/ \E op \in AllOps, exp \in {NoVersion, version} : Submit(p, op, exp)
         \/ AcceptPacket(p) \/ QueueRecovery(p)
  PROVE  RowsInv'
<1>0. Idle \in Request /\ version \in Nat
  BY IdleType DEF TypeOK
<1>1. ASSUME NEW op \in AllOps, NEW exp \in {NoVersion, version}, Submit(p, op, exp)
      PROVE RowsInv'
  <2> DEFINE pc == IF op = "note" THEN "metaread" ELSE "load"
             x  == [Idle EXCEPT !.op = op, !.exp = exp, !.pc = pc]
  <2>1. x.op = op /\ x.exp = exp /\ x.pc = pc
    BY <1>0 DEF Request
  <2>2. op \in WritesByRead => exp = version
    BY <1>1 DEF Submit, ClientOps, WritesByRead
  <2>3. Goto(p, x) /\ UNCHANGED <<status, control, version>>
    BY <1>1 DEF Submit, db
  <2> HIDE DEF x
  <2>4. Honest(x)
    BY <1>0, <2>1, <2>2 DEF Honest, NoVersion
  <2> QED BY <2>3, <2>4, QuietKeepsRows
<1>2. CASE AcceptPacket(p)
  BY <1>2 DEF AcceptPacket
<1>3. CASE QueueRecovery(p)
  <2> DEFINE x == [Idle EXCEPT !.op = "recover", !.pc = "load"]
  <2>1. x.op = "recover" /\ x.pc = "load"
    BY <1>0 DEF Request
  <2>2. Goto(p, x) /\ UNCHANGED <<status, control, version>>
    BY <1>3 DEF QueueRecovery, db
  <2> HIDE DEF x
  <2>3. Honest(x)
    BY <2>1, OthersAreHonest DEF WritesByRead
  <2> QED BY <2>2, <2>3, QuietKeepsRows
<1> QED BY <1>1, <1>2, <1>3

\* Every step keeps the rows in agreement.
LEMMA RowsStep ==
  ASSUME Versioned = TRUE, "packet" \notin Ops
  PROVE  TypeOK /\ RowsInv /\ [Next]_vars => RowsInv'
<1> SUFFICES ASSUME TypeOK, RowsInv, [Next]_vars PROVE RowsInv'
  OBVIOUS
<1>1. ASSUME NEW p \in Req, Step(p) PROVE RowsInv'
  BY <1>1, QuietRows, VersionedRows DEF Step, Finalizing, ControlStep
<1>2. ASSUME NEW p \in Req, AutoEnd(p) PROVE RowsInv'
  BY <1>2, VersionedRows DEF ControlStep
<1>3. CASE Play \/ UNCHANGED vars
  BY <1>3 DEF Play, db, vars, RowsInv, RowsAgree, Honest
<1>4. CASE Crash
  <2>1. \A p \in Req : req'[p] = Idle
    BY <1>4 DEF Crash
  <2>2. UNCHANGED <<status, control>>
    BY <1>4 DEF Crash, db
  <2> QED BY <2>1, <2>2, IdleFields DEF RowsInv, RowsAgree, Honest, WritesByRead
<1> QED BY <1>1, <1>2, <1>3, <1>4, ArrivalRows DEF Next

\* With clients that send the control version they saw, and no telemetry packet,
\* the match row and the control row always tell one story, however many
\* requests race (writeControlStateCas within each operation's transaction).
THEOREM RowsTellOneStory ==
  ASSUME Versioned = TRUE, "packet" \notin Ops
  PROVE  Spec => []RowsAgree
<1>1. Init => RowsInv
  <2> SUFFICES ASSUME Init PROVE RowsInv
    OBVIOUS
  <2>1. \A p \in Req : req[p] = Idle
    BY DEF Init
  <2> QED BY <2>1, IdleFields DEF Init, RowsInv, RowsAgree, Honest, WritesByRead
<1>2. RowsInv => RowsAgree
  BY DEF RowsInv
<1>3. TypeOK /\ RowsInv /\ [Next]_vars => RowsInv'
  BY RowsStep
<1> QED BY <1>1, <1>2, <1>3, TypeCorrect, PTL DEF Spec
-----------------------------------------------------------------------------
(* One request at a time.                                                  *)

\* What the slot rows and metaJson say of finished runs is about this one, and
\* a run to be played keeps neither rows nor telemetry of it.
SlotsOfRun ==
  /\ slotRun \in {NoRun, run}
  /\ meta.fin # NoRun => slotRun = run
  /\ slotRun # NoRun => status # "LIVE" /\ ~(status = "DRAFT" /\ meta.tel)
  /\ status = "FINISHED" => slotRun = run

\* Nothing has come between what the request read and what it will write.
Undisturbed(r) ==
  /\ r.pc \in {"commit", "persistwrite", "fincommit"} =>
       r.status = status /\ r.control = control /\ r.meta = meta /\ r.run = run
  /\ r.pc = "metawrite" => r.meta = meta
  /\ r.pc = "fincommit" => r.applied = FinalResultsAlreadyApplied
  /\ r.op = "restart" => status = "DRAFT"
  /\ r.op = "packet" \/ r.pc \in {"persistread", "persistwrite"} => status = "LIVE"
  /\ r.op = "start" /\ r.pc = "commit" => status \in {"DRAFT", "LIVE"}

SoleInv == RowsAgree /\ SlotsOfRun /\ \A p \in Req : Undisturbed(req[p])

\* A request that has read nothing and is bound to no phase.
Unbound(r) == /\ r.pc \notin {"commit", "persistread", "persistwrite", "fincommit", "metawrite"}
              /\ r.op \notin {"restart", "packet"}

\* The only request goes on; it writes nothing.
LEMMA QuietKeepsSole ==
  ASSUME \A p, q \in Req : p = q, TypeOK, SoleInv, NEW p \in Req, NEW r, Goto(p, r),
         UNCHANGED <<status, control, meta, slotRun, run>>, Undisturbed(r)
  PROVE  SoleInv'
<1>1. \A q \in Req : req'[q] = r
  BY GotoOthers
<1>2. \A q \in Req : Undisturbed(req[q])'
  BY <1>1 DEF Undisturbed, FinalResultsAlreadyApplied
<1> QED BY <1>2 DEF SoleInv, RowsAgree, SlotsOfRun

\* The only request writes, and forgets what it read.
LEMMA WriteKeepsSole ==
  ASSUME \A p, q \in Req : p = q, TypeOK, SoleInv, NEW p \in Req, NEW r, Goto(p, r),
         Unbound(r), RowsAgree', SlotsOfRun'
  PROVE  SoleInv'
<1>1. \A q \in Req : req'[q] = r
  BY GotoOthers
<1>2. \A q \in Req : Undisturbed(req[q])'
  BY <1>1 DEF Undisturbed, Unbound
<1> QED BY <1>2 DEF SoleInv

\* What is done to the keys of metaJson that results and telemetry depend on.
LEMMA MetaKeys ==
  ASSUME NEW m \in Meta, NEW r
  PROVE  /\ MarkPending(m).fin = m.fin /\ MarkPending(m).tel = m.tel
         /\ MarkEligible(m, r).fin = m.fin /\ MarkEligible(m, r).tel = m.tel
         /\ ClearFinalization(m, FALSE).fin = NoRun /\ ClearFinalization(m, FALSE).tel = FALSE
         /\ \A k \in BOOLEAN : ClearFinalization(m, k).fin = NoRun
         /\ EmptyMeta.fin = NoRun /\ EmptyMeta.tel = FALSE
         /\ [m EXCEPT !.tel = TRUE].fin = m.fin
         /\ [m EXCEPT !.fin = r].fin = r /\ [m EXCEPT !.fin = r].tel = m.tel
BY DEF Meta, EmptyMeta, MarkPending, MarkEligible, ClearFinalization
\* Loading, refusing, going on and metaJson writers do not disturb the one
\* request there is, and what they write is what is there.
LEMMA QuietSole ==
  ASSUME \A p, q \in Req : p = q, TypeOK, SoleInv, NEW p \in Req,
         \/ EndLoad(p) \/ DetectLoad(p) \/ StartLoad(p) \/ RestartLoad(p)
         \/ UnlockLoad(p) \/ StatusLoad(p) \/ AlreadyLive(p) \/ Conflict(p)
         \/ PublishFails(p) \/ PersistRead(p) \/ PersistWrite(p) \/ MetaRead(p) \/ MetaWrite(p)
         \/ EligibleLoad(p) \/ ConfirmLoad(p) \/ PromoteLost(p) \/ ResolveVersion(p)
         \/ FinalizeRead(p)
  PROVE  SoleInv'
<1> DEFINE r == req[p]
<1>0. r \in Request /\ Undisturbed(r) /\ Undisturbed(Idle) /\ Unbound(Idle) /\ meta \in Meta
      /\ control \in ControlStates
  BY IdleFields DEF TypeOK, SoleInv, Undisturbed, Unbound
<1>l. /\ Loaded(r) \in Request
      /\ Loaded(r).pc = r.pc /\ Loaded(r).op = r.op
      /\ Loaded(r).status = status /\ Loaded(r).control = control
      /\ Loaded(r).meta = meta /\ Loaded(r).run = run
      /\ LoadMatch(r).pc = "commit" /\ LoadMatch(r).op = r.op
      /\ LoadMatch(r).status = status /\ LoadMatch(r).control = control
      /\ LoadMatch(r).meta = meta /\ LoadMatch(r).run = run
  BY <1>0, LoadedFields
<1>m. ASSUME NEW c \in {"confirm", "promote", "resolve"}
      PROVE  Undisturbed([r EXCEPT !.pc = c])
  <2>1. [r EXCEPT !.pc = c].pc = c /\ [r EXCEPT !.pc = c].op = r.op
    BY <1>0, MovedFields DEF PCs
  <2> QED BY <1>0, <2>1 DEF Undisturbed
<1>1. CASE EndLoad(p) \/ DetectLoad(p)
  <2> DEFINE x == [Loaded(r) EXCEPT !.pc = "commit"]
  <2>1. /\ x.op = r.op /\ x.pc = "commit" /\ x.status = status /\ x.control = control
        /\ x.meta = meta /\ x.run = run
    BY <1>l, MovedFields DEF PCs
  <2>2. r.op \in {"end", "detect"}
    BY <1>1 DEF EndLoad, DetectLoad
  <2>3. (Goto(p, x) \/ Goto(p, Idle)) /\ UNCHANGED <<status, control, meta, slotRun, run>>
    BY <1>1 DEF EndLoad, DetectLoad, Done, db
  <2> HIDE DEF x
  <2>4. Undisturbed(x)
    BY <2>1, <2>2 DEF Undisturbed
  <2> QED BY <1>0, <2>3, <2>4, QuietKeepsSole
<1>2. CASE StartLoad(p) \/ RestartLoad(p) \/ UnlockLoad(p) \/ StatusLoad(p)
  <2>1. Undisturbed(LoadMatch(r)) \/ Goto(p, Idle)
    <3>1. r.op # "packet"
      BY <1>2 DEF StartLoad, RestartLoad, UnlockLoad, StatusLoad
    <3>2. r.op = "start" => status \in {"DRAFT", "LIVE"} \/ Goto(p, Idle)
      BY <1>2 DEF StartLoad, RestartLoad, UnlockLoad, StatusLoad, IsStartable, Done
    <3> QED BY <1>0, <1>l, <3>1, <3>2 DEF Undisturbed
  <2>2. (Goto(p, LoadMatch(r)) \/ Goto(p, Idle)) /\ UNCHANGED <<status, control, meta, slotRun, run>>
    BY <1>2 DEF StartLoad, RestartLoad, UnlockLoad, StatusLoad, Done, db
  <2> QED BY <1>0, <2>1, <2>2, QuietKeepsSole
<1>3. CASE AlreadyLive(p) \/ Conflict(p) \/ PublishFails(p)
  BY <1>0, <1>3, QuietKeepsSole DEF AlreadyLive, Conflict, PublishFails, Done, db
<1>4. CASE PersistRead(p)
  <2> DEFINE x == [Loaded(r) EXCEPT !.pc = "persistwrite"]
  <2>1. /\ x.op = r.op /\ x.pc = "persistwrite" /\ x.status = status /\ x.control = control
        /\ x.meta = meta /\ x.run = run
    BY <1>l, MovedFields DEF PCs
  <2>2. Goto(p, x) /\ UNCHANGED <<status, control, meta, slotRun, run>> /\ status = "LIVE"
    BY <1>0, <1>4 DEF PersistRead, db, Undisturbed
  <2> HIDE DEF x
  <2>3. Undisturbed(x)
    BY <1>0, <2>1, <2>2 DEF Undisturbed
  <2> QED BY <2>2, <2>3, QuietKeepsSole
<1>5. CASE PersistWrite(p)
  <2> DEFINE x == [Idle EXCEPT !.op = r.op, !.sess = r.sess, !.pc = "metaread"]
  <2>1. x.op = r.op /\ x.pc = "metaread"
    BY IdleType DEF Request
  <2>2. status = "LIVE" /\ r.status = status /\ r.control = control /\ r.meta = meta
    BY <1>0, <1>5 DEF PersistWrite, Undisturbed
  <2>3. control' = control /\ meta' = [meta EXCEPT !.tel = TRUE]
    BY <1>5, <2>2 DEF PersistWrite, IsFinalizingStatus, IsFinishedStatus
  <2>4. Goto(p, x) /\ UNCHANGED <<status, slotRun, run>>
    BY <1>5 DEF PersistWrite
  <2> HIDE DEF x
  <2>5. \A q \in Req : req'[q] = x
    BY <2>4, GotoOthers
  <2>6. \A q \in Req : Undisturbed(req[q])'
    BY <1>0, <2>1, <2>2, <2>4, <2>5 DEF Undisturbed
  <2>7. meta'.fin = meta.fin
    BY <1>0, <2>3, MetaKeys
  <2> QED BY <2>2, <2>3, <2>4, <2>6, <2>7 DEF SoleInv, RowsAgree, SlotsOfRun
<1>6. CASE MetaRead(p)
  <2> DEFINE x == [r EXCEPT !.meta = meta, !.pc = "metawrite"]
  <2>1. x.op = r.op /\ x.pc = "metawrite" /\ x.meta = meta
    BY <1>0 DEF Request
  <2>2. Goto(p, x) /\ UNCHANGED <<status, control, meta, slotRun, run>>
    BY <1>6 DEF MetaRead, db
  <2> HIDE DEF x
  <2>3. Undisturbed(x)
    BY <1>0, <2>1 DEF Undisturbed
  <2> QED BY <2>2, <2>3, QuietKeepsSole
<1>7. CASE MetaWrite(p)
  <2> DEFINE x == [Idle EXCEPT !.op = "detect", !.sess = r.sess, !.pc = "load"]
  <2>1. x.op = "detect" /\ x.pc = "load"
    BY IdleType DEF Request
  <2>2. (Goto(p, x) \/ Goto(p, Idle)) /\ UNCHANGED <<status, control, slotRun, run>>
    BY <1>7 DEF MetaWrite, Done
  <2>3. r.meta = meta /\ (r.op = "packet" => status = "LIVE")
    BY <1>0, <1>7 DEF MetaWrite, Undisturbed
  <2>4. meta' = meta \/ (status = "LIVE" /\ meta' = [meta EXCEPT !.tel = TRUE])
    BY <1>7, <2>3 DEF MetaWrite
  <2>5. meta'.fin = meta.fin
    BY <1>0, <2>4, MetaKeys
  <2>6. RowsAgree' /\ SlotsOfRun'
    BY <2>2, <2>4, <2>5 DEF SoleInv, RowsAgree, SlotsOfRun
  <2> HIDE DEF x
  <2>7. Unbound(x)
    BY <2>1 DEF Unbound
  <2> QED BY <1>0, <2>2, <2>6, <2>7, WriteKeepsSole
<1>8. CASE EligibleLoad(p) \/ ConfirmLoad(p) \/ PromoteLost(p)
  <2>1. \E x : Goto(p, x) /\ Undisturbed(x)
    <3>1. \/ Goto(p, [r EXCEPT !.pc = "confirm"]) \/ Goto(p, [r EXCEPT !.pc = "promote"])
          \/ Goto(p, [r EXCEPT !.pc = "resolve"]) \/ Goto(p, Idle)
      BY <1>8 DEF EligibleLoad, ConfirmLoad, PromoteLost, Done
    <3>2. Undisturbed([r EXCEPT !.pc = "confirm"]) /\ Undisturbed([r EXCEPT !.pc = "promote"])
          /\ Undisturbed([r EXCEPT !.pc = "resolve"])
      BY <1>m
    <3> QED BY <1>0, <3>1, <3>2
  <2>2. UNCHANGED <<status, control, meta, slotRun, run>>
    BY <1>8 DEF EligibleLoad, ConfirmLoad, PromoteLost, db
  <2> QED BY <2>1, <2>2, QuietKeepsSole
<1>9. CASE ResolveVersion(p)
  <2> DEFINE v == IF r.exp # NoVersion THEN r.exp ELSE version
             x == [r EXCEPT !.pc = "finread", !.ver = v]
  <2>1. x.op = r.op /\ x.pc = "finread"
    BY <1>0 DEF Request
  <2>2. Goto(p, x) /\ UNCHANGED <<status, control, meta, slotRun, run>>
    BY <1>9 DEF ResolveVersion, db
  <2> HIDE DEF x
  <2>3. Undisturbed(x)
    BY <1>0, <2>1 DEF Undisturbed
  <2> QED BY <2>2, <2>3, QuietKeepsSole
<1>10. CASE FinalizeRead(p)
  <2> DEFINE x == [Loaded(r) EXCEPT !.pc = "fincommit", !.applied = FinalResultsAlreadyApplied]
  <2>1. /\ x.op = r.op /\ x.pc = "fincommit" /\ x.status = status /\ x.control = control
        /\ x.meta = meta /\ x.run = run /\ x.applied = FinalResultsAlreadyApplied
    BY <1>0, <1>l DEF Request
  <2>2. (Goto(p, x) \/ Goto(p, Idle)) /\ UNCHANGED <<status, control, meta, slotRun, run>>
    BY <1>10 DEF FinalizeRead, Done, db
  <2> HIDE DEF x
  <2>3. Undisturbed(x)
    BY <1>0, <2>1 DEF Undisturbed
  <2> QED BY <1>0, <2>2, <2>3, QuietKeepsSole
<1> QED BY <1>1, <1>2, <1>3, <1>4, <1>5, <1>6, <1>7, <1>8, <1>9, <1>10
\* Every transaction of the one request there is leaves the rows in agreement,
\* and the results with the run they are of.
LEMMA WriteSole ==
  ASSUME \A p, q \in Req : p = q, TypeOK, SoleInv, NEW p \in Req,
         \/ ControlStep(p) \/ FinalizeCommit(p)
         \/ \E s \in Session \cup {NoSession}, k \in BOOLEAN : StartCommit(p, s, k)
  PROVE  SoleInv'
<1> DEFINE r == req[p]
<1>0. r \in Request /\ Undisturbed(r) /\ Unbound(Idle) /\ meta \in Meta /\ run \in Nat
      /\ RowsAgree /\ SlotsOfRun
  BY IdleFields DEF TypeOK, SoleInv, Unbound, Runs
<1>k. /\ MarkPending(meta).fin = meta.fin /\ MarkPending(meta).tel = meta.tel
      /\ ClearFinalization(meta, FALSE).fin = NoRun /\ ClearFinalization(meta, FALSE).tel = FALSE
      /\ \A k \in BOOLEAN : ClearFinalization(meta, k).fin = NoRun
      /\ EmptyMeta.fin = NoRun /\ EmptyMeta.tel = FALSE
  BY <1>0, MetaKeys
<1>1. CASE AutoEnd(p)
  <2> DEFINE x == [Idle EXCEPT !.op = "autoend", !.pc = "confirm"]
  <2>1. /\ Goto(p, x) /\ status' = "ENDED" /\ control' = "ENDED"
        /\ UNCHANGED <<meta, slotRun, run>>
    BY <1>1 DEF AutoEnd, WriteControlState
  <2>2. x.op = "autoend" /\ x.pc = "confirm"
    BY IdleType DEF Request
  <2>3. RowsAgree' /\ SlotsOfRun'
    BY <1>0, <2>1 DEF RowsAgree, SlotsOfRun
  <2> HIDE DEF x
  <2> QED BY <2>1, <2>2, <2>3, WriteKeepsSole DEF Unbound
<1>2. CASE EndCommit(p)
  <2> DEFINE x == [Idle EXCEPT !.op = "end", !.exp = r.exp, !.pc = "resolve"]
  <2>1. /\ Goto(p, x) /\ status' = "FINISH_PENDING" /\ control' = "FINISH_PENDING"
        /\ meta' = MarkPending(meta) /\ UNCHANGED <<slotRun, run>>
    BY <1>2 DEF EndCommit, WriteControlState
  <2>2. x.op = "end" /\ x.pc = "resolve"
    BY IdleType DEF Request
  <2>3. RowsAgree' /\ SlotsOfRun'
    BY <1>0, <1>k, <2>1 DEF RowsAgree, SlotsOfRun
  <2> HIDE DEF x
  <2> QED BY <2>1, <2>2, <2>3, WriteKeepsSole DEF Unbound
<1>3. CASE DetectCommit(p)
  <2> DEFINE x == [Idle EXCEPT !.op = "eligible", !.pc = "load"]
  <2>1. /\ Goto(p, x) /\ status' = "FINISH_PENDING" /\ control' = "FINISH_PENDING"
        /\ meta' = MarkEligible(meta, r.run) /\ UNCHANGED <<slotRun, run>>
    BY <1>3 DEF DetectCommit, WriteControlState
  <2>2. x.op = "eligible" /\ x.pc = "load"
    BY IdleType DEF Request
  <2>3. meta'.fin = meta.fin
    BY <1>0, <2>1, MetaKeys
  <2>4. RowsAgree' /\ SlotsOfRun'
    BY <1>0, <2>1, <2>3 DEF RowsAgree, SlotsOfRun
  <2> HIDE DEF x
  <2> QED BY <2>1, <2>2, <2>4, WriteKeepsSole DEF Unbound
<1>4. CASE Promote(p)
  <2> DEFINE x == [r EXCEPT !.ver = version + 1, !.pc = "finread"]
  <2>1. /\ Goto(p, x) /\ status = "ENDED" /\ status' = "FINISH_PENDING"
        /\ control' = "FINISH_PENDING"
        /\ meta' = MarkPending(meta) /\ UNCHANGED <<slotRun, run>>
    BY <1>4 DEF Promote, WriteControlState
  <2>2. x.op = r.op /\ x.pc = "finread"
    BY <1>0 DEF Request
  <2>3. Unbound(x)
    BY <1>0, <2>1, <2>2 DEF Unbound, Undisturbed
  <2>4. RowsAgree' /\ SlotsOfRun'
    BY <1>0, <1>k, <2>1 DEF RowsAgree, SlotsOfRun
  <2> HIDE DEF x
  <2> QED BY <2>1, <2>3, <2>4, WriteKeepsSole
<1>5. ASSUME NEW s \in Session \cup {NoSession}, RebindCommit(p, s)
      PROVE SoleInv'
  <2>1. /\ Goto(p, Idle) /\ control' = "LIVE" /\ r.status = "LIVE" /\ r.pc = "commit"
        /\ UNCHANGED <<status, meta, slotRun, run>>
    BY <1>5 DEF RebindCommit, WriteControlState, Done
  <2>2. RowsAgree' /\ SlotsOfRun'
    BY <1>0, <2>1 DEF RowsAgree, SlotsOfRun, Undisturbed
  <2> QED BY <1>0, <2>1, <2>2, WriteKeepsSole
<1>6. ASSUME NEW restart \in BOOLEAN, UnlockCommit(p, restart)
      PROVE SoleInv'
  <2> DEFINE x == [Idle EXCEPT !.op = "restart", !.pc = "load"]
  <2>1. /\ Goto(p, x) \/ Goto(p, Idle)
        /\ control' = "READY" /\ status' = "DRAFT"
        /\ meta' = ClearFinalization(meta, FALSE) /\ UNCHANGED <<slotRun, run>>
    BY <1>6 DEF UnlockCommit, WriteControlState, ResetRun, Done
  <2>2. x.op = "restart" /\ x.pc = "load"
    BY IdleType DEF Request
  <2>3. RowsAgree' /\ SlotsOfRun'
    BY <1>0, <1>k, <2>1 DEF RowsAgree, SlotsOfRun
  <2>4. CASE Goto(p, x)
    <3> HIDE DEF x
    <3>1. \A q \in Req : req'[q] = x
      BY <2>4, GotoOthers
    <3>2. \A q \in Req : Undisturbed(req[q])'
      BY <2>1, <2>2, <3>1 DEF Undisturbed
    <3> QED BY <2>3, <3>2 DEF SoleInv
  <2> QED BY <1>0, <2>1, <2>3, <2>4, WriteKeepsSole
<1>7. ASSUME NEW state \in {"READY", "COUNTDOWN"}, NEW sent \in BOOLEAN,
             ReadyCommit(p, state, sent)
      PROVE SoleInv'
  <2>1. /\ Goto(p, Idle) /\ control' = state
        /\ IF r.status # "DRAFT" THEN status' = "DRAFT" ELSE status' = status
        /\ meta' = IF sent THEN EmptyMeta ELSE ClearFinalization(meta, FALSE)
        /\ r.pc = "commit" /\ UNCHANGED <<slotRun, run>>
    BY <1>7 DEF ReadyCommit, WriteControlState, ResetRun, Done
  <2>2. status' = "DRAFT"
    BY <1>0, <2>1 DEF Undisturbed
  <2>3. meta'.fin = NoRun /\ meta'.tel = FALSE
    BY <1>k, <2>1
  <2>4. RowsAgree' /\ SlotsOfRun'
    BY <1>0, <2>1, <2>2, <2>3 DEF RowsAgree, SlotsOfRun
  <2> QED BY <1>0, <2>1, <2>4, WriteKeepsSole
<1>8. ASSUME NEW sent \in BOOLEAN, PendingCommit(p, sent)
      PROVE SoleInv'
  <2>1. /\ Goto(p, Idle) /\ control' = "FINISH_PENDING"
        /\ IF r.status # "FINISH_PENDING" THEN status' = "FINISH_PENDING" ELSE status' = status
        /\ meta' = IF sent THEN EmptyMeta ELSE meta
        /\ r.pc = "commit" /\ UNCHANGED <<slotRun, run>>
    BY <1>8 DEF PendingCommit, WriteControlState, Done
  <2>2. status' = "FINISH_PENDING"
    BY <1>0, <2>1 DEF Undisturbed
  <2>3. meta'.fin \in {NoRun, meta.fin}
    BY <1>k, <2>1
  <2>4. RowsAgree' /\ SlotsOfRun'
    BY <1>0, <2>1, <2>2, <2>3 DEF RowsAgree, SlotsOfRun
  <2> QED BY <1>0, <2>1, <2>4, WriteKeepsSole
<1>9. CASE FinalizeCommit(p)
  <2> DEFINE x == [Idle EXCEPT !.op = "note", !.pc = "metaread"]
  <2>1. /\ Goto(p, x) /\ status' = "FINISHED" /\ control' = "ENDED" /\ run' = run
        /\ IF r.applied THEN slotRun' = slotRun ELSE slotRun' = run
        /\ r.pc = "fincommit"
    BY <1>9 DEF FinalizeCommit, WriteControlState
  <2>2. r.applied = FinalResultsAlreadyApplied
    BY <1>0, <2>1 DEF Undisturbed
  <2>3. slotRun' = run
    BY <1>0, <2>1, <2>2 DEF FinalResultsAlreadyApplied, SlotsOfRun
  <2>4. RowsAgree' /\ SlotsOfRun'
    BY <2>1, <2>3 DEF RowsAgree, SlotsOfRun
  <2>5. x.op = "note" /\ x.pc = "metaread"
    BY IdleType DEF Request
  <2> HIDE DEF x
  <2> QED BY <2>1, <2>4, <2>5, WriteKeepsSole DEF Unbound
<1>10. ASSUME NEW s \in Session \cup {NoSession}, NEW k \in BOOLEAN, StartCommit(p, s, k)
       PROVE SoleInv'
  <2>1. /\ Goto(p, Idle) /\ status' = "LIVE" /\ control' = "LIVE" /\ run' = run + 1
        /\ meta' = ClearFinalization(meta, k)
        /\ IF k THEN slotRun' = slotRun ELSE slotRun' = NoRun
        /\ r.pc = "commit" /\ (r.op = "restart" \/ (r.op = "start" /\ r.status # "LIVE"))
        /\ k => MayPreserveTelemetry(r, s)
    BY <1>10 DEF StartCommit, WriteControlState, Done
  <2>2. status = "DRAFT"
    BY <1>0, <2>1 DEF Undisturbed
  <2>3. k => slotRun = NoRun
    BY <1>0, <2>1, <2>2 DEF MayPreserveTelemetry, Undisturbed, SlotsOfRun
  <2>4. slotRun' = NoRun /\ meta'.fin = NoRun
    BY <1>k, <2>1, <2>3
  <2>5. RowsAgree' /\ SlotsOfRun'
    BY <2>1, <2>4 DEF RowsAgree, SlotsOfRun
  <2> QED BY <1>0, <2>1, <2>5, WriteKeepsSole
<1> QED BY <1>1, <1>2, <1>3, <1>4, <1>5, <1>6, <1>7, <1>8, <1>9, <1>10 DEF ControlStep

\* A request arrives only when there is none.
LEMMA ArrivalSole ==
  ASSUME \A p, q \in Req : p = q, TypeOK, SoleInv, NEW p \in Req,
         \/ \E op \in AllOps, exp \in {NoVersion, version} : Submit(p, op, exp)
         \/ AcceptPacket(p) \/ QueueRecovery(p)
  PROVE  SoleInv'
<1>0. Idle \in Request /\ status \in MatchStatuses /\ control \in ControlStates
      /\ RowsAgree
  BY IdleType DEF TypeOK, SoleInv
<1>1. ASSUME NEW op \in AllOps, NEW exp \in {NoVersion, version}, Submit(p, op, exp)
      PROVE SoleInv'
  <2> DEFINE pc == IF op = "note" THEN "metaread" ELSE "load"
             x  == [Idle EXCEPT !.op = op, !.exp = exp, !.pc = pc]
  <2>1. x.op = op /\ x.pc \in {"metaread", "load"}
    BY <1>0 DEF Request
  <2>2. op \notin {"restart", "packet"}
    BY <1>1 DEF Submit, ClientOps
  <2>3. Goto(p, x) /\ UNCHANGED <<status, control, meta, slotRun, run>>
    BY <1>1 DEF Submit, db
  <2> HIDE DEF x
  <2>4. Undisturbed(x)
    BY <2>1, <2>2 DEF Undisturbed
  <2> QED BY <2>3, <2>4, QuietKeepsSole
<1>2. CASE AcceptPacket(p)
  <2> DEFINE x == [Idle EXCEPT !.op = "packet", !.sess = session, !.pc = "persistread"]
  <2>1. x.op = "packet" /\ x.pc = "persistread"
    BY <1>0 DEF Request
  <2>2. Goto(p, x) /\ UNCHANGED <<status, control, meta, slotRun, run>> /\ LifecycleNow = "LIVE"
    BY <1>2 DEF AcceptPacket, db
  <2>3. status = "LIVE"
    BY <1>0, <2>2 DEF LifecycleNow, Lifecycle, LifecycleOfStatus, LifecycleOfControl, RowsAgree
  <2> HIDE DEF x
  <2>4. Undisturbed(x)
    BY <2>1, <2>3 DEF Undisturbed
  <2> QED BY <2>2, <2>4, QuietKeepsSole
<1>3. CASE QueueRecovery(p)
  <2> DEFINE x == [Idle EXCEPT !.op = "recover", !.pc = "load"]
  <2>1. x.op = "recover" /\ x.pc = "load"
    BY <1>0 DEF Request
  <2>2. Goto(p, x) /\ UNCHANGED <<status, control, meta, slotRun, run>>
    BY <1>3 DEF QueueRecovery, db
  <2> HIDE DEF x
  <2>3. Undisturbed(x)
    BY <2>1 DEF Undisturbed
  <2> QED BY <2>2, <2>3, QuietKeepsSole
<1> QED BY <1>1, <1>2, <1>3

\* Every step of a service that handles one request at a time keeps all of it.
LEMMA SoleStep ==
  ASSUME \A p, q \in Req : p = q
  PROVE  TypeOK /\ SoleInv /\ [Next]_vars => SoleInv'
<1> SUFFICES ASSUME TypeOK, SoleInv, [Next]_vars PROVE SoleInv'
  OBVIOUS
<1>1. ASSUME NEW p \in Req, Step(p) PROVE SoleInv'
  BY <1>1, QuietSole, WriteSole DEF Step, Finalizing, ControlStep
<1>2. ASSUME NEW p \in Req, AutoEnd(p) PROVE SoleInv'
  BY <1>2, WriteSole DEF ControlStep
<1>3. CASE Play \/ UNCHANGED vars
  BY <1>3 DEF Play, db, vars, SoleInv, RowsAgree, SlotsOfRun, Undisturbed, FinalResultsAlreadyApplied
<1>4. CASE Crash
  <2>1. \A p \in Req : req'[p] = Idle
    BY <1>4 DEF Crash
  <2>2. UNCHANGED <<status, control, meta, slotRun, run>>
    BY <1>4 DEF Crash, db
  <2> QED BY <2>1, <2>2, IdleFields DEF SoleInv, RowsAgree, SlotsOfRun, Undisturbed
<1> QED BY <1>1, <1>2, <1>3, <1>4, ArrivalSole DEF Next

\* A service that handles the requests for a match one at a time never shows a
\* finished match with the results of another run, or with none, whatever the
\* versions, the packets, the metaJson writers and the restarts are, and its two
\* rows agree.  What goes wrong with two requests takes their race.
THEOREM SoleRequestFinishesItsRun ==
  ASSUME \A p, q \in Req : p = q
  PROVE  Spec => [](FinishedHasThisRunsResults /\ RowsAgree)
<1>1. Init => SoleInv
  <2> SUFFICES ASSUME Init PROVE SoleInv
    OBVIOUS
  <2>1. \A p \in Req : req[p] = Idle
    BY DEF Init
  <2>2. EmptyMeta.fin = NoRun
    BY DEF EmptyMeta
  <2> QED BY <2>1, <2>2, IdleFields DEF Init, SoleInv, RowsAgree, SlotsOfRun, Undisturbed
<1>2. SoleInv => FinishedHasThisRunsResults /\ RowsAgree
  BY DEF SoleInv, SlotsOfRun, FinishedHasThisRunsResults
<1>3. TypeOK /\ SoleInv /\ [Next]_vars => SoleInv'
  BY SoleStep
<1> QED BY <1>1, <1>2, <1>3, TypeCorrect, PTL DEF Spec

=============================================================================
