--------------------------- MODULE LiveScope_proofs ---------------------------
(***************************************************************************)
(* Proofs about LiveScope, for any number of matches and starts: types, how*)
(* far the code keeps one LIVE match per organization, and that a start    *)
(* ends what it saw.  The argument: a start that has looked for conflicts  *)
(* has not forgotten any LIVE match but those of starts it overlaps with   *)
(* (NobodyForgotten), and nobody else writes the row it is about to make   *)
(* LIVE (OwnRowHeld).                                                      *)
(***************************************************************************)
EXTENDS LiveScope, TLAPS

-----------------------------------------------------------------------------
(* The invariant.                                                          *)

\* A start that has looked for conflicts and is not over yet.
HasLooked(t) == start[t].pc \in {"next", "end", "check", "commit"}

\* The conflicts t still has to deal with, or has ended.
Dealing(t) == start[t].todo \cup start[t].ended
              \cup {n \in {start[t].current} : start[t].pc = "end"}

\* Who made a match LIVE has committed.
LiveByDone == \A m \in Match : liveBy[m] \in Start => start[liveBy[m]].pc = "done"

\* Overlapping is mutual, of starts that have begun, and any two that are
\* active do.
OverlapIsMutual ==
  \A t, u \in Start :
    /\ u \in overlapped[t] => /\ t \in overlapped[u]
                              /\ start[t].pc # "new" /\ start[u].pc # "new"
    /\ t # u /\ Active(t) /\ Active(u) => u \in overlapped[t]

\* Once t has written its own row, it holds it, and no conflict is left.
OwnRowHeld ==
  \A t \in Start : start[t].pc \in {"check", "commit"} =>
    lock[start[t].match] = t /\ start[t].todo = {}

\* Of the other LIVE matches t misses only those of starts it overlaps with.
NobodyForgotten ==
  \A t \in Start, n \in Match :
    HasLooked(t) /\ n # start[t].match /\ IsLive(n)
      => n \in Dealing(t) \/ liveBy[n] \in overlapped[t]

\* What t saw LIVE it deals with, unless it is over or has changed since.
SeenDealtWith ==
  \A t \in Start, n \in Match :
    HasLooked(t) /\ start[t].seen[n] # NoVersion =>
      /\ n # start[t].match
      /\ start[t].seen[n] <= version[n]
      /\ n \in Dealing(t) \/ liveBy[n] = NoStart \/ start[t].seen[n] < version[n]

ScopeInv == /\ LiveByDone /\ OverlapIsMutual /\ OwnRowHeld
            /\ NobodyForgotten /\ SeenDealtWith /\ TwoLiveOnlyByOverlap

-----------------------------------------------------------------------------
(* Types.                                                                  *)

\* A transaction that has not begun is a transaction.
LEMMA FreshIsTransaction ==
  ASSUME NEW m \in Match
  PROVE  Fresh(m) \in Transaction
BY DEF Fresh, Transaction, NoVersion

\* A start that only moves on, or fails, stays a transaction.
LEMMA MovedIsTransaction ==
  ASSUME NEW r \in Transaction,
         NEW pc \in {"new", "find", "next", "end", "own", "check", "commit", "done", "failed"}
  PROVE  [r EXCEPT !.pc = pc] \in Transaction
BY DEF Transaction

\* A start changes its own record, to another one.
LEMMA ToMoves ==
  ASSUME start \in [Start -> Transaction], NEW t \in Start, NEW r \in Transaction, To(t, r)
  PROVE  /\ start' \in [Start -> Transaction] /\ start'[t] = r
         /\ \A u \in Start : u # t => start'[u] = start[u]
BY DEF To

\* The start t fails, and what it holds is released.
Fails(t) ==
  /\ Active(t)
  /\ To(t, [start[t] EXCEPT !.pc = "failed"])
  /\ lock' = [m \in Match |-> IF lock[m] = t THEN NoStart ELSE lock[m]]
  /\ UNCHANGED <<rows, overlapped>>

\* A version mismatch, a match still LIVE and a deadlock all end a start so.
LEMMA WhoFails ==
  ASSUME NEW t \in Start,
         \/ Fail(t) \/ DeadlockVictim(t)
         \/ EndConflict(t) /\ IsLive(start[t].current)
              /\ version[start[t].current] # start[t].currentVer
  PROVE  Fails(t)
<1>1. CASE Fail(t)
  BY <1>1 DEF Fail, Fails, Active
<1>2. CASE DeadlockVictim(t)
  <2>1. WaitsFor(t) # {}
    BY <1>2 DEF DeadlockVictim
  <2>2. start[t].pc \in {"end", "next"}
    BY <2>1 DEF WaitsFor
  <2> QED BY <1>2, <2>2 DEF DeadlockVictim, Fails, Active
<1>3. CASE EndConflict(t) /\ IsLive(start[t].current)
             /\ version[start[t].current] # start[t].currentVer
  BY <1>3 DEF EndConflict, Fails, Active
<1> QED BY <1>1, <1>2, <1>3

\* The two ways a conflict is dealt with, but for the failure.
Skips(t) ==
  /\ start[t].pc = "end" /\ ~IsLive(start[t].current)
  /\ To(t, [start[t] EXCEPT !.pc = "next"])
  /\ UNCHANGED <<rows, lock, overlapped>>

Ends(t) ==
  LET r == start[t] IN
  /\ r.pc = "end" /\ Free(t, r.current)
  /\ To(t, [r EXCEPT !.pc = "next", !.ended = @ \cup {r.current}])
  /\ lock' = [lock EXCEPT ![r.current] = t]
  /\ UNCHANGED <<rows, overlapped>>

\* Every step, by what it does to the rows, the locks and the starts.
LEMMA NextCases ==
  ASSUME [Next]_vars
  PROVE  \/ \E t \in Start :
              \/ \E m \in Match : \E exp \in {NoVersion, version[m]} : Begin(t, m, exp)
              \/ FindConflicts(t)
              \/ \E n \in Match : NextConflict(t, n)
              \/ Skips(t) \/ Ends(t) \/ Fails(t)
              \/ GoLive(t) \/ CheckAgain(t) \/ Commit(t)
         \/ \E m \in Match : EndMatch(m) \/ Play(m)
         \/ UNCHANGED vars
<1>1. ASSUME NEW t \in Start, EndConflict(t)
      PROVE  Skips(t) \/ Ends(t) \/ Fails(t)
  <2>1. CASE ~IsLive(start[t].current)
    BY <1>1, <2>1 DEF EndConflict, Skips
  <2>2. CASE IsLive(start[t].current) /\ version[start[t].current] = start[t].currentVer
    BY <1>1, <2>2 DEF EndConflict, Ends
  <2>3. CASE IsLive(start[t].current) /\ version[start[t].current] # start[t].currentVer
    BY <1>1, <2>3, WhoFails
  <2> QED BY <2>1, <2>2, <2>3
<1> QED BY <1>1, WhoFails DEF Next, Run

\* The state has its type (every action).
LEMMA TypeStep == TypeOK /\ [Next]_vars => TypeOK'
<1> SUFFICES ASSUME TypeOK, [Next]_vars PROVE TypeOK'
  OBVIOUS
<1> USE StartAssumption
<1>s. start \in [Start -> Transaction] /\ \A t \in Start : start[t] \in Transaction
  BY DEF TypeOK
<1>1. ASSUME NEW t \in Start, NEW m \in Match, NEW exp \in {NoVersion, version[m]}, Begin(t, m, exp)
      PROVE  TypeOK'
  <2>1. [Fresh(m) EXCEPT !.pc = "find", !.exp = exp] \in Transaction
    <3>1. exp \in Int
      BY DEF TypeOK, NoVersion
    <3>2. Fresh(m) \in Transaction
      BY FreshIsTransaction
    <3> QED BY <3>1, <3>2 DEF Transaction
  <2>2. [Fresh(m) EXCEPT !.pc = "find", !.exp = exp].pc = "find"
    BY DEF Fresh
  <2>3. /\ start' \in [Start -> Transaction] /\ start'[t].pc = "find"
        /\ \A u \in Start : u # t => start'[u] = start[u]
    BY <1>1, <1>s, <2>1, <2>2, ToMoves DEF Begin
  <2>4. overlapped' \in [Start -> SUBSET Start]
    <3>1. \A u \in Start : overlapped'[u] \in SUBSET Start
      BY <1>1 DEF Begin, TypeOK
    <3> QED BY <1>1, <3>1 DEF Begin
  <2> QED BY <1>1, <2>3, <2>4 DEF Begin, TypeOK, rows, Active
<1>2. ASSUME NEW t \in Start, FindConflicts(t) PROVE TypeOK'
  <2> DEFINE r == start[t]
             found == {n \in Match \ {r.match} : IsLive(n)}
             seen == [n \in Match |-> IF n \in found THEN version[n] ELSE NoVersion]
             next == [r EXCEPT !.pc = "next", !.todo = found, !.seen = seen]
  <2>1. seen \in [Match -> Int] /\ found \in SUBSET Match
    BY DEF TypeOK, NoVersion
  <2>2. To(t, next) /\ r.pc = "find" /\ UNCHANGED <<rows, lock, overlapped>>
    BY <1>2 DEF FindConflicts
  <2> HIDE DEF seen, found
  <2>3. next \in Transaction /\ next.pc = "next"
    BY <1>s, <2>1 DEF Transaction
  <2>4. /\ start' \in [Start -> Transaction] /\ start'[t].pc = "next"
        /\ \A u \in Start : u # t => start'[u] = start[u]
    BY <1>s, <2>2, <2>3, ToMoves
  <2> QED BY <2>2, <2>4 DEF TypeOK, rows, Active
<1>3. ASSUME NEW t \in Start, NEW n \in Match, NextConflict(t, n) PROVE TypeOK'
  <2> DEFINE next == [start[t] EXCEPT !.pc = "end", !.todo = @ \ {n},
                                      !.current = n, !.currentVer = version[n]]
  <2>1. next \in Transaction /\ next.pc = "end"
    <3>1. version[n] \in Int
      BY DEF TypeOK
    <3> QED BY <1>s, <3>1 DEF Transaction
  <2>2. /\ start' \in [Start -> Transaction] /\ start'[t].pc = "end"
        /\ \A u \in Start : u # t => start'[u] = start[u]
    BY <1>3, <1>s, <2>1, ToMoves DEF NextConflict
  <2> QED BY <1>3, <2>2 DEF NextConflict, TypeOK, rows, Active
<1>4. ASSUME NEW t \in Start, Skips(t) \/ GoLive(t) \/ CheckAgain(t) PROVE TypeOK'
  <2>1. \E pc \in {"next", "check", "commit"} : To(t, [start[t] EXCEPT !.pc = pc])
    BY <1>4 DEF Skips, GoLive, CheckAgain
  <2>2. PICK pc \in {"next", "check", "commit"} : To(t, [start[t] EXCEPT !.pc = pc])
    BY <2>1
  <2>3. [start[t] EXCEPT !.pc = pc] \in Transaction /\ [start[t] EXCEPT !.pc = pc].pc = pc
    BY <1>s DEF Transaction
  <2>4. /\ start' \in [Start -> Transaction] /\ start'[t].pc = pc
        /\ \A u \in Start : u # t => start'[u] = start[u]
    BY <1>s, <2>2, <2>3, ToMoves
  <2>5. start[t].match \in Match
    BY <1>s DEF Transaction
  <2> QED BY <1>4, <2>4, <2>5 DEF Skips, GoLive, CheckAgain, TypeOK, rows, Active
<1>5. ASSUME NEW t \in Start, Ends(t) PROVE TypeOK'
  <2> DEFINE next == [start[t] EXCEPT !.pc = "next", !.ended = @ \cup {start[t].current}]
  <2>0. start[t].current \in Match /\ start[t].ended \cup {start[t].current} \in SUBSET Match
    BY <1>s DEF Transaction
  <2>1. next \in Transaction /\ next.pc = "next"
    BY <1>s, <2>0 DEF Transaction
  <2>2. /\ start' \in [Start -> Transaction] /\ start'[t].pc = "next"
        /\ \A u \in Start : u # t => start'[u] = start[u]
    BY <1>5, <1>s, <2>1, ToMoves DEF Ends
  <2> QED BY <1>5, <2>0, <2>2 DEF Ends, TypeOK, rows, Active
<1>6. ASSUME NEW t \in Start, Fails(t) PROVE TypeOK'
  <2>1. [start[t] EXCEPT !.pc = "failed"] \in Transaction
    BY <1>s, MovedIsTransaction
  <2>2. /\ start' \in [Start -> Transaction]
        /\ \A u \in Start : u # t => start'[u] = start[u]
    BY <1>6, <1>s, <2>1, ToMoves DEF Fails
  <2> QED BY <1>6, <2>2 DEF Fails, TypeOK, rows, Active
<1>7. ASSUME NEW t \in Start, Commit(t) PROVE TypeOK'
  <2>1. [start[t] EXCEPT !.pc = "done"] \in Transaction
    BY <1>s, MovedIsTransaction
  <2>2. /\ start' \in [Start -> Transaction]
        /\ \A u \in Start : u # t => start'[u] = start[u]
    BY <1>7, <1>s, <2>1, ToMoves DEF Commit
  <2>3. liveBy' \in [Match -> Start \cup {NoStart, Earlier}] /\ version' \in [Match -> Nat]
    <3>1. \A m \in Match : liveBy'[m] \in Start \cup {NoStart, Earlier} /\ version'[m] \in Nat
      BY <1>7 DEF Commit, TypeOK
    <3> QED BY <1>7, <3>1 DEF Commit
  <2> QED BY <1>7, <2>2, <2>3 DEF Commit, TypeOK, Active
<1>8. ASSUME NEW m \in Match, EndMatch(m) \/ Play(m) PROVE TypeOK'
  <2>1. liveBy' \in [Match -> Start \cup {NoStart, Earlier}] /\ version' \in [Match -> Nat]
    BY <1>8 DEF EndMatch, Play, TypeOK
  <2>2. noneAlive' \in [Match -> BOOLEAN]
    BY <1>8 DEF EndMatch, Play, TypeOK
  <2>3. UNCHANGED <<lock, start, overlapped>>
    BY <1>8 DEF EndMatch, Play
  <2> QED BY <2>1, <2>2, <2>3 DEF TypeOK, Active
<1>9. CASE UNCHANGED vars
  BY <1>9 DEF vars, TypeOK, Active
<1> QED BY <1>1, <1>2, <1>3, <1>4, <1>5, <1>6, <1>7, <1>8, <1>9, NextCases

\* Every reachable state is well typed, and whoever holds a row is in the
\* middle of its start.
THEOREM TypeCorrect == Spec => []TypeOK
<1>1. Init => TypeOK
  <2> SUFFICES ASSUME Init PROVE TypeOK
    OBVIOUS
  <2>1. PICK m \in Match : start = [t \in Start |-> Fresh(m)]
    BY DEF Init
  <2>2. start \in [Start -> Transaction]
    BY <2>1, FreshIsTransaction
  <2> QED BY <2>2 DEF Init, TypeOK
<1> QED BY <1>1, TypeStep, PTL DEF Spec

-----------------------------------------------------------------------------
(* The invariant is kept.                                                  *)

\* What the invariant says of the start t alone.
HeldBy(t) == start[t].pc \in {"check", "commit"} => lock[start[t].match] = t /\ start[t].todo = {}

RemembersAll(t) ==
  \A n \in Match : HasLooked(t) /\ n # start[t].match /\ IsLive(n)
                     => n \in Dealing(t) \/ liveBy[n] \in overlapped[t]

DealsWithSeen(t) ==
  \A n \in Match : HasLooked(t) /\ start[t].seen[n] # NoVersion =>
    /\ n # start[t].match
    /\ start[t].seen[n] <= version[n]
    /\ n \in Dealing(t) \/ liveBy[n] = NoStart \/ start[t].seen[n] < version[n]

Local(t) == HeldBy(t) /\ RemembersAll(t) /\ DealsWithSeen(t)

\* The invariant is about all of them, and about each start alone.
LEMMA ScopeInvParts ==
  ScopeInv <=> LiveByDone /\ OverlapIsMutual /\ TwoLiveOnlyByOverlap /\ \A t \in Start : Local(t)
BY DEF ScopeInv, OwnRowHeld, NobodyForgotten, SeenDealtWith,
       Local, HeldBy, RemembersAll, DealsWithSeen

\* t takes a step on its own: it neither begins nor commits, changes no row,
\* and takes no row from another start.
OwnStep(t) ==
  /\ Active(t) /\ start'[t].pc \notin {"new", "done"}
  /\ \A u \in Start : u # t => start'[u] = start[u]
  /\ \A m \in Match : lock[m] \in Start \ {t} => lock'[m] = lock[m]
  /\ UNCHANGED <<rows, overlapped>>

\* Such a step leaves the other starts and what is about all of them alone.
LEMMA OwnStepKeeps ==
  ASSUME TypeOK, ScopeInv, NEW t \in Start, OwnStep(t), Local(t)'
  PROVE  ScopeInv'
<1>1. LiveByDone'
  BY DEF ScopeInv, LiveByDone, OwnStep, rows, Active
<1>2. OverlapIsMutual'
  BY DEF ScopeInv, OverlapIsMutual, OwnStep, rows, Active
<1>3. TwoLiveOnlyByOverlap'
  BY DEF ScopeInv, TwoLiveOnlyByOverlap, OwnStep, rows, IsLive
<1>4. ASSUME NEW u \in Start, u # t PROVE Local(u)'
  <2>1. /\ start'[u] = start[u] /\ UNCHANGED <<rows, overlapped>>
        /\ start[u].match \in Match
    BY <1>4 DEF OwnStep, TypeOK, Transaction
  <2>2. Local(u)
    BY ScopeInvParts
  <2>3. HeldBy(u)'
    BY <1>4, <2>1, <2>2 DEF Local, HeldBy, OwnStep
  <2>4. RemembersAll(u)' /\ DealsWithSeen(u)'
    BY <2>1, <2>2 DEF Local, RemembersAll, DealsWithSeen, HasLooked, IsLive, Dealing, rows
  <2> QED BY <2>3, <2>4 DEF Local
<1>5. \A u \in Start : Local(u)'
  BY <1>4
<1>6. (LiveByDone /\ OverlapIsMutual /\ TwoLiveOnlyByOverlap /\ \A u \in Start : Local(u))'
  BY <1>1, <1>2, <1>3, <1>5
<1> QED BY <1>6 DEF ScopeInv, OwnRowHeld, NobodyForgotten, SeenDealtWith,
                    Local, HeldBy, RemembersAll, DealsWithSeen

\* Looking for conflicts, dealing with them, going LIVE, looking again and
\* failing keep the invariant.
LEMMA RunKeeps ==
  ASSUME TypeOK, ScopeInv, NEW t \in Start,
         \/ FindConflicts(t) \/ \E n \in Match : NextConflict(t, n)
         \/ Skips(t) \/ Ends(t) \/ Fails(t) \/ GoLive(t) \/ CheckAgain(t)
  PROVE  ScopeInv'
<1> DEFINE r == start[t]
<1>s. /\ start \in [Start -> Transaction] /\ r \in Transaction
      /\ r.match \in Match /\ r.current \in Match
      /\ version \in [Match -> Nat] /\ lock \in [Match -> Start \cup {NoStart}]
  BY DEF TypeOK, Transaction
<1>t. Local(t)
  BY ScopeInvParts
<1>1. CASE FindConflicts(t)
  <2> DEFINE found == {n \in Match \ {r.match} : IsLive(n)}
             seen == [n \in Match |-> IF n \in found THEN version[n] ELSE NoVersion]
  <2>1. r.pc = "find" /\ To(t, [r EXCEPT !.pc = "next", !.todo = found, !.seen = seen])
        /\ UNCHANGED <<rows, lock, overlapped>>
    BY <1>1 DEF FindConflicts
  <2>2. \A n \in Match : n \in found <=> n # r.match /\ IsLive(n)
    OBVIOUS
  <2>3. \A n \in Match : seen[n] # NoVersion => n \in found /\ seen[n] = version[n]
    OBVIOUS
  <2> HIDE DEF found, seen
  <2>4. /\ start'[t].pc = "next" /\ start'[t].todo = found /\ start'[t].seen = seen
        /\ start'[t].match = r.match /\ \A u \in Start : u # t => start'[u] = start[u]
    BY <1>s, <2>1 DEF To, Transaction
  <2>5. Local(t)'
    <3>1. \A n \in found : n \in Dealing(t)'
      BY <2>4 DEF Dealing
    <3>2. RemembersAll(t)'
      BY <2>1, <2>2, <2>4, <3>1 DEF RemembersAll, IsLive, rows
    <3>3. DealsWithSeen(t)'
      BY <1>s, <2>1, <2>2, <2>3, <2>4, <3>1 DEF DealsWithSeen, rows
    <3> QED BY <2>4, <3>2, <3>3 DEF Local, HeldBy
  <2>6. OwnStep(t)
    BY <2>1, <2>4 DEF OwnStep, Active
  <2> QED BY <2>5, <2>6, OwnStepKeeps
<1>2. ASSUME NEW n \in Match, NextConflict(t, n) PROVE ScopeInv'
  <2>1. /\ start'[t].pc = "end" /\ start'[t].todo = r.todo \ {n} /\ start'[t].current = n
        /\ start'[t].seen = r.seen /\ start'[t].match = r.match /\ start'[t].ended = r.ended
        /\ \A u \in Start : u # t => start'[u] = start[u]
    BY <1>s, <1>2 DEF NextConflict, To, Transaction
  <2>2. r.pc = "next" /\ UNCHANGED <<rows, lock, overlapped>>
    BY <1>2 DEF NextConflict
  <2>3. Dealing(t) \subseteq Dealing(t)'
    BY <2>1, <2>2 DEF Dealing
  <2>4. Local(t)'
    BY <1>t, <2>1, <2>2, <2>3 DEF Local, HeldBy, RemembersAll, DealsWithSeen, HasLooked, IsLive, rows
  <2>5. OwnStep(t)
    BY <2>1, <2>2 DEF OwnStep, Active
  <2> QED BY <2>4, <2>5, OwnStepKeeps
<1>3. CASE Skips(t)
  <2>1. /\ start'[t].pc = "next" /\ start'[t].todo = r.todo
        /\ start'[t].seen = r.seen /\ start'[t].match = r.match /\ start'[t].ended = r.ended
        /\ \A u \in Start : u # t => start'[u] = start[u]
    BY <1>s, <1>3 DEF Skips, To, Transaction
  <2>2. r.pc = "end" /\ liveBy[r.current] = NoStart /\ UNCHANGED <<rows, lock, overlapped>>
    BY <1>3 DEF Skips, IsLive
  <2>3. Dealing(t) \subseteq Dealing(t)' \cup {r.current}
    BY <2>1, <2>2 DEF Dealing
  <2>4. RemembersAll(t)' /\ DealsWithSeen(t)' /\ HeldBy(t)'
    BY <1>t, <2>1, <2>2, <2>3 DEF Local, HeldBy, RemembersAll, DealsWithSeen, HasLooked, IsLive, rows
  <2>5. OwnStep(t)
    BY <2>1, <2>2 DEF OwnStep, Active
  <2> QED BY <2>4, <2>5, OwnStepKeeps DEF Local
<1>4. CASE Ends(t)
  <2>1. /\ start'[t].pc = "next" /\ start'[t].todo = r.todo
        /\ start'[t].seen = r.seen /\ start'[t].match = r.match
        /\ start'[t].ended = r.ended \cup {r.current}
        /\ \A u \in Start : u # t => start'[u] = start[u]
    BY <1>s, <1>4 DEF Ends, To, Transaction
  <2>2. r.pc = "end" /\ Free(t, r.current) /\ lock' = [lock EXCEPT ![r.current] = t]
        /\ UNCHANGED <<rows, overlapped>>
    BY <1>4 DEF Ends
  <2>3. Dealing(t) \subseteq Dealing(t)'
    BY <2>1, <2>2 DEF Dealing
  <2>4. RemembersAll(t)' /\ DealsWithSeen(t)' /\ HeldBy(t)'
    BY <1>t, <2>1, <2>2, <2>3 DEF Local, HeldBy, RemembersAll, DealsWithSeen, HasLooked, IsLive, rows
  <2>5. OwnStep(t)
    BY <1>s, <2>1, <2>2, StartAssumption DEF OwnStep, Active, Free
  <2> QED BY <2>4, <2>5, OwnStepKeeps DEF Local
<1>5. CASE Fails(t)
  <2>1. /\ start'[t].pc = "failed"
        /\ \A u \in Start : u # t => start'[u] = start[u]
    BY <1>s, <1>5 DEF Fails, To, Transaction
  <2>2. Local(t)'
    BY <2>1 DEF Local, HeldBy, RemembersAll, DealsWithSeen, HasLooked
  <2>3. OwnStep(t)
    BY <1>5, <2>1 DEF OwnStep, Fails
  <2> QED BY <2>2, <2>3, OwnStepKeeps
<1>6. CASE GoLive(t)
  <2>1. /\ start'[t].pc = "check" /\ start'[t].todo = r.todo
        /\ start'[t].seen = r.seen /\ start'[t].match = r.match /\ start'[t].ended = r.ended
        /\ \A u \in Start : u # t => start'[u] = start[u]
    BY <1>s, <1>6 DEF GoLive, To, Transaction
  <2>2. r.pc = "next" /\ r.todo = {} /\ Free(t, r.match) /\ lock' = [lock EXCEPT ![r.match] = t]
        /\ UNCHANGED <<rows, overlapped>>
    BY <1>6 DEF GoLive
  <2>3. Dealing(t) \subseteq Dealing(t)'
    BY <2>1, <2>2 DEF Dealing
  <2>4. RemembersAll(t)' /\ DealsWithSeen(t)'
    BY <1>t, <2>1, <2>2, <2>3 DEF Local, RemembersAll, DealsWithSeen, HasLooked, IsLive, rows
  <2>5. HeldBy(t)'
    BY <1>s, <2>1, <2>2 DEF HeldBy
  <2>6. OwnStep(t)
    BY <1>s, <2>1, <2>2, StartAssumption DEF OwnStep, Active, Free
  <2> QED BY <2>4, <2>5, <2>6, OwnStepKeeps DEF Local
<1>7. CASE CheckAgain(t)
  <2>1. /\ start'[t].pc = "commit" /\ start'[t].todo = r.todo
        /\ start'[t].seen = r.seen /\ start'[t].match = r.match /\ start'[t].ended = r.ended
        /\ \A u \in Start : u # t => start'[u] = start[u]
    BY <1>s, <1>7 DEF CheckAgain, To, Transaction
  <2>2. r.pc = "check" /\ UNCHANGED <<rows, lock, overlapped>>
    BY <1>7 DEF CheckAgain
  <2>3. Dealing(t) \subseteq Dealing(t)'
    BY <2>1, <2>2 DEF Dealing
  <2>4. RemembersAll(t)' /\ DealsWithSeen(t)' /\ HeldBy(t)'
    BY <1>t, <2>1, <2>2, <2>3 DEF Local, HeldBy, RemembersAll, DealsWithSeen, HasLooked, IsLive, rows
  <2>5. OwnStep(t)
    BY <2>1, <2>2 DEF OwnStep, Active
  <2> QED BY <2>4, <2>5, OwnStepKeeps DEF Local
<1> QED BY <1>1, <1>2, <1>3, <1>4, <1>5, <1>6, <1>7

\* A new transaction overlaps with those that are active, and with no other.
LEMMA BeginKeeps ==
  ASSUME TypeOK, ScopeInv, NEW t \in Start, NEW m \in Match, NEW exp, Begin(t, m, exp)
  PROVE  ScopeInv'
<1>1. /\ start[t].pc = "new" /\ start'[t].pc = "find"
      /\ \A u \in Start : u # t => start'[u] = start[u]
      /\ UNCHANGED <<rows, lock>>
  BY DEF Begin, To, Fresh, TypeOK
<1>2. /\ overlapped'[t] = {v \in Start : Active(v)}
      /\ \A u \in Start : u # t /\ Active(u) => overlapped'[u] = overlapped[u] \cup {t}
      /\ \A u \in Start : u # t /\ ~Active(u) => overlapped'[u] = overlapped[u]
  BY DEF Begin
<1>3. \A u \in Start : u # t => overlapped[u] \subseteq overlapped'[u] /\ (Active(u)' <=> Active(u))
  BY <1>1, <1>2 DEF Active
<1>4. \A u \in Start : t \notin overlapped[u] /\ u \notin overlapped[t]
  BY <1>1 DEF ScopeInv, OverlapIsMutual
<1>5. LiveByDone'
  BY <1>1 DEF ScopeInv, LiveByDone, rows
<1>6. OverlapIsMutual'
  <2>1. ASSUME NEW a \in Start, NEW b \in overlapped'[a], b \in Start
        PROVE  a \in overlapped'[b] /\ start'[a].pc # "new" /\ start'[b].pc # "new"
    <3>1. CASE a = t
      BY <1>1, <1>2, <2>1, <3>1 DEF Active
    <3>2. CASE a # t /\ b = t
      <4>1. Active(a)
        BY <1>2, <1>4, <2>1, <3>2
      <4> QED BY <1>1, <1>2, <3>2, <4>1 DEF Active
    <3>3. CASE a # t /\ b # t
      <4>1. b \in overlapped[a]
        BY <1>2, <2>1, <3>3
      <4> QED BY <1>1, <1>3, <2>1, <3>3, <4>1 DEF ScopeInv, OverlapIsMutual
    <3> QED BY <3>1, <3>2, <3>3
  <2>2. ASSUME NEW a \in Start, NEW b \in Start, a # b, Active(a)', Active(b)'
        PROVE  b \in overlapped'[a]
    <3>1. CASE a = t
      BY <1>2, <1>3, <2>2, <3>1
    <3>2. CASE b = t
      BY <1>2, <1>3, <2>2, <3>2
    <3>3. CASE a # t /\ b # t
      BY <1>3, <2>2, <3>3 DEF ScopeInv, OverlapIsMutual
    <3> QED BY <3>1, <3>2, <3>3
  <2> QED BY <2>1, <2>2 DEF OverlapIsMutual
<1>7. TwoLiveOnlyByOverlap'
  <2>1. \A n \in Match : liveBy'[n] = liveBy[n] /\ liveBy[n] # t
    BY <1>1 DEF ScopeInv, LiveByDone, rows
  <2> QED BY <1>3, <2>1 DEF ScopeInv, TwoLiveOnlyByOverlap, IsLive
<1>8. ASSUME NEW u \in Start PROVE Local(u)'
  <2>1. CASE u = t
    BY <1>1, <2>1 DEF Local, HeldBy, RemembersAll, DealsWithSeen, HasLooked
  <2>2. CASE u # t
    <3>1. Local(u)
      BY ScopeInvParts
    <3>2. HeldBy(u)' /\ DealsWithSeen(u)'
      BY <1>1, <2>2, <3>1 DEF Local, HeldBy, DealsWithSeen, HasLooked, Dealing, rows
    <3>3. RemembersAll(u)'
      BY <1>1, <1>3, <2>2, <3>1 DEF Local, RemembersAll, HasLooked, IsLive, Dealing, rows
    <3> QED BY <3>2, <3>3 DEF Local
  <2> QED BY <2>1, <2>2
<1> QED BY <1>5, <1>6, <1>7, <1>8 DEF ScopeInv, OwnRowHeld, NobodyForgotten, SeenDealtWith,
                                      Local, HeldBy, RemembersAll, DealsWithSeen

\* A commit makes LIVE the one row it holds, whose version moves on, and clears
\* those it has ended; the LIVE matches it leaves are of starts it overlaps with.
LEMMA CommitKeeps ==
  ASSUME TypeOK, ScopeInv, NEW t \in Start, Commit(t)
  PROVE  ScopeInv'
<1> DEFINE r == start[t]
<1>1. /\ r.pc = "commit" /\ start'[t].pc = "done" /\ r.match \in Match
      /\ \A u \in Start : u # t => start'[u] = start[u]
      /\ overlapped' = overlapped
  BY DEF Commit, To, TypeOK, Transaction
<1>2. /\ liveBy'[r.match] = t
      /\ \A n \in r.ended \cap Match : n # r.match => liveBy'[n] = NoStart
      /\ \A n \in Match : n # r.match /\ n \notin r.ended => liveBy'[n] = liveBy[n]
  BY <1>1 DEF Commit
<1>3. \A n \in Match : /\ version[n] \in Nat
                       /\ version'[n] \in {version[n], version[n] + 1}
                       /\ lock[n] = t => version'[n] = version[n] + 1
                       /\ lock[n] # t => lock'[n] = lock[n]
  BY DEF Commit, Writes, TypeOK
<1>4. Local(t) /\ Active(t) /\ HasLooked(t) /\ lock[r.match] = t /\ r.todo = {}
  BY <1>1, ScopeInvParts DEF Local, HeldBy, Active, HasLooked
<1>5. \A n \in Match : IsLive(n)' /\ n # r.match => IsLive(n) /\ liveBy'[n] = liveBy[n]
  BY <1>2 DEF IsLive
<1>6. LiveByDone'
  BY <1>1, <1>2, StartAssumption DEF ScopeInv, LiveByDone
<1>7. OverlapIsMutual'
  BY <1>1, <1>4 DEF ScopeInv, OverlapIsMutual, Active
<1>8. ASSUME NEW n \in Match, n # r.match, IsLive(n)'
      PROVE  liveBy'[n] \in overlapped[t] /\ liveBy'[n] \in Start /\ t \in overlapped[liveBy'[n]]
  <2>1. n \notin Dealing(t)
    BY <1>1, <1>2, <1>4, <1>8 DEF Dealing, IsLive
  <2>2. liveBy[n] \in overlapped[t]
    BY <1>4, <1>5, <1>8, <2>1 DEF Local, RemembersAll
  <2>3. liveBy[n] \in Start
    BY <2>2 DEF TypeOK
  <2> QED BY <1>5, <1>8, <2>2, <2>3 DEF ScopeInv, OverlapIsMutual
<1>9. TwoLiveOnlyByOverlap'
  <2> SUFFICES ASSUME NEW m \in Match, NEW n \in Match, m # n, IsLive(m)', IsLive(n)'
               PROVE  (\/ liveBy[m] = Earlier /\ liveBy[n] = Earlier
                       \/ /\ {liveBy[m], liveBy[n]} \subseteq Start
                          /\ liveBy[m] \in overlapped[liveBy[n]]
                          /\ liveBy[n] \in overlapped[liveBy[m]])'
    BY DEF TwoLiveOnlyByOverlap
  <2>1. CASE m = r.match
    BY <1>1, <1>2, <1>8, <2>1
  <2>2. CASE n = r.match
    BY <1>1, <1>2, <1>8, <2>2
  <2>3. CASE m # r.match /\ n # r.match
    BY <1>1, <1>5, <2>3 DEF ScopeInv, TwoLiveOnlyByOverlap
  <2> QED BY <2>1, <2>2, <2>3
<1>10. ASSUME NEW u \in Start, u # t PROVE Local(u)'
  <2>1. Local(u) /\ start'[u] = start[u] /\ start[u] \in Transaction /\ start[u].match \in Match
    BY <1>1, <1>10, ScopeInvParts DEF TypeOK, Transaction
  <2>2. HeldBy(u)'
    BY <1>3, <1>10, <2>1 DEF Local, HeldBy
  <2>3. RemembersAll(u)'
    <3>1. HasLooked(u) => t \in overlapped[u]
      BY <1>4, <1>10 DEF ScopeInv, OverlapIsMutual, HasLooked, Active
    <3>2. \A n \in Match : IsLive(n)' => liveBy'[n] = t \/ (IsLive(n) /\ liveBy'[n] = liveBy[n])
      BY <1>2, <1>5
    <3> QED BY <1>1, <2>1, <3>1, <3>2 DEF Local, RemembersAll, HasLooked, Dealing
  <2>4. DealsWithSeen(u)'
    <3> SUFFICES ASSUME NEW n \in Match, HasLooked(u), start[u].seen[n] # NoVersion
                 PROVE  /\ n # start[u].match
                        /\ start[u].seen[n] <= version'[n]
                        /\ \/ n \in Dealing(u)
                           \/ liveBy'[n] = NoStart
                           \/ start[u].seen[n] < version'[n]
      BY <2>1 DEF DealsWithSeen, HasLooked, Dealing
    <3>1. /\ n # start[u].match /\ start[u].seen[n] <= version[n]
          /\ n \in Dealing(u) \/ liveBy[n] = NoStart \/ start[u].seen[n] < version[n]
      BY <2>1 DEF Local, DealsWithSeen
    <3>2. start[u].seen[n] \in Int
      BY <2>1 DEF Transaction
    <3>3. start[u].seen[n] < version[n] => start[u].seen[n] < version'[n]
      BY <1>3, <3>2
    <3>4. start[u].seen[n] <= version'[n]
      BY <1>3, <3>1, <3>2
    <3>5. CASE n = r.match
      BY <1>3, <1>4, <3>1, <3>2, <3>4, <3>5
    <3>6. CASE n # r.match
      BY <1>2, <3>1, <3>3, <3>4, <3>6
    <3> QED BY <3>5, <3>6
  <2> QED BY <2>2, <2>3, <2>4 DEF Local
<1>11. Local(t)'
  BY <1>1 DEF Local, HeldBy, RemembersAll, DealsWithSeen, HasLooked
<1>12. \A u \in Start : Local(u)'
  BY <1>10, <1>11
<1> QED BY <1>6, <1>7, <1>9, <1>12 DEF ScopeInv, OwnRowHeld, NobodyForgotten, SeenDealtWith,
                                       Local, HeldBy, RemembersAll, DealsWithSeen

\* An end by another operation only clears a row and moves its version on.
LEMMA EndMatchKeeps ==
  ASSUME TypeOK, ScopeInv, NEW m \in Match, EndMatch(m)
  PROVE  ScopeInv'
<1>1. /\ liveBy'[m] = NoStart /\ version'[m] = version[m] + 1
      /\ \A n \in Match : n # m => liveBy'[n] = liveBy[n] /\ version'[n] = version[n]
      /\ UNCHANGED <<lock, start, overlapped>>
  BY DEF EndMatch, TypeOK
<1>2. \A n \in Match : IsLive(n)' => IsLive(n) /\ liveBy'[n] = liveBy[n]
  BY <1>1 DEF IsLive
<1>3. LiveByDone'
  BY <1>1, StartAssumption DEF ScopeInv, LiveByDone
<1>4. OverlapIsMutual' /\ OwnRowHeld'
  BY <1>1 DEF ScopeInv, OverlapIsMutual, OwnRowHeld, Active
<1>5. NobodyForgotten'
  BY <1>1, <1>2 DEF ScopeInv, NobodyForgotten, HasLooked, Dealing
<1>6. SeenDealtWith'
  <2> SUFFICES ASSUME NEW t \in Start, NEW n \in Match, HasLooked(t), start[t].seen[n] # NoVersion
               PROVE  /\ n # start[t].match
                      /\ start[t].seen[n] <= version'[n]
                      /\ n \in Dealing(t) \/ liveBy'[n] = NoStart \/ start[t].seen[n] < version'[n]
    BY <1>1 DEF SeenDealtWith, HasLooked, Dealing
  <2>1. /\ n # start[t].match /\ start[t].seen[n] <= version[n]
        /\ n \in Dealing(t) \/ liveBy[n] = NoStart \/ start[t].seen[n] < version[n]
    BY DEF ScopeInv, SeenDealtWith
  <2>2. start[t].seen[n] \in Int /\ version[n] \in Nat
    BY DEF TypeOK, Transaction
  <2>3. CASE n = m
    BY <1>1, <2>1, <2>2, <2>3
  <2>4. CASE n # m
    BY <1>1, <2>1, <2>2, <2>4
  <2> QED BY <2>3, <2>4
<1>7. TwoLiveOnlyByOverlap'
  BY <1>1, <1>2 DEF ScopeInv, TwoLiveOnlyByOverlap
<1> QED BY <1>3, <1>4, <1>5, <1>6, <1>7 DEF ScopeInv

\* Every step keeps the invariant.
LEMMA ScopeStep == TypeOK /\ ScopeInv /\ [Next]_vars => ScopeInv'
<1> SUFFICES ASSUME TypeOK, ScopeInv, [Next]_vars PROVE ScopeInv'
  OBVIOUS
<1>1. ASSUME UNCHANGED <<liveBy, version, lock, start, overlapped>> PROVE ScopeInv'
  BY <1>1 DEF ScopeInv, LiveByDone, OverlapIsMutual, OwnRowHeld, NobodyForgotten, SeenDealtWith,
              TwoLiveOnlyByOverlap, HasLooked, Dealing, IsLive, Active
<1>2. ASSUME NEW m \in Match, Play(m) PROVE ScopeInv'
  BY <1>1, <1>2 DEF Play
<1>3. CASE UNCHANGED vars
  BY <1>1, <1>3 DEF vars
<1> QED BY <1>2, <1>3, NextCases, RunKeeps, BeginKeeps, CommitKeeps, EndMatchKeeps

\* Before the first start, what is LIVE is from earlier starts.
LEMMA ScopeInit == Init => ScopeInv
<1> SUFFICES ASSUME Init PROVE ScopeInv
  OBVIOUS
<1>1. \A t \in Start : start[t].pc = "new" /\ overlapped[t] = {}
  BY DEF Init, Fresh
<1>2. \A m \in Match : liveBy[m] \in {NoStart, Earlier} /\ liveBy[m] \notin Start
  BY StartAssumption DEF Init
<1> QED BY <1>1, <1>2 DEF ScopeInv, LiveByDone, OverlapIsMutual, OwnRowHeld, NobodyForgotten,
                          SeenDealtWith, TwoLiveOnlyByOverlap, HasLooked, IsLive, Active

-----------------------------------------------------------------------------
(* The theorems.                                                           *)

\* Two matches of an organization are LIVE together only if both were before
\* these starts, or if the transactions of their starts overlapped; a start
\* that runs alone leaves nothing else LIVE (setMatchLiveInternal).
THEOREM OneLiveUnlessOverlap == Spec => []TwoLiveOnlyByOverlap
<1>1. ScopeInv => TwoLiveOnlyByOverlap
  BY DEF ScopeInv
<1> QED BY <1>1, ScopeInit, ScopeStep, TypeCorrect, PTL DEF Spec

\* Only its commit takes a start from "commit" to "done".
LEMMA WhoCommits ==
  ASSUME TypeOK, [Next]_vars, NEW t \in Start, start[t].pc = "commit", start'[t].pc = "done"
  PROVE  Commit(t)
<1>s. start \in [Start -> Transaction] /\ \A u \in Start : start[u] \in Transaction
  BY DEF TypeOK
<1>1. ASSUME NEW u \in Start,
             \/ \E m \in Match : \E exp \in {NoVersion, version[m]} : Begin(u, m, exp)
             \/ FindConflicts(u) \/ (\E n \in Match : NextConflict(u, n))
             \/ Skips(u) \/ Ends(u) \/ GoLive(u) \/ CheckAgain(u)
      PROVE  u # t /\ start'[t] = start[t]
  <2>1. start[u].pc # "commit"
    BY <1>1 DEF Begin, FindConflicts, NextConflict, Skips, Ends, GoLive, CheckAgain
  <2>2. \E r : To(u, r)
    BY <1>1 DEF Begin, FindConflicts, NextConflict, Skips, Ends, GoLive, CheckAgain
  <2> QED BY <1>s, <2>1, <2>2 DEF To
<1>2. ASSUME NEW u \in Start, Fails(u) PROVE start'[t] = start[t] \/ start'[t].pc = "failed"
  BY <1>s, <1>2 DEF Fails, To, Transaction
<1>3. ASSUME NEW u \in Start, Commit(u), u # t PROVE start'[t] = start[t]
  BY <1>s, <1>3 DEF Commit, To
<1>4. start'[t] # start[t]
  OBVIOUS
<1>5. ASSUME NEW m \in Match, EndMatch(m) \/ Play(m) PROVE FALSE
  BY <1>4, <1>5 DEF EndMatch, Play
<1> QED BY <1>1, <1>2, <1>3, <1>4, <1>5, NextCases DEF vars

\* A start that commits leaves no match running that was LIVE when it looked:
\* each one was ended by it, or has changed since
\* (autoEndOtherLiveMatchesInScope).
THEOREM StartEndsItsConflicts == Spec => StartEndsWhatItSaw
<1>1. ASSUME TypeOK, ScopeInv, [Next]_vars,
             NEW t \in Start, start[t].pc = "commit", start'[t].pc = "done",
             NEW n \in Match, start[t].seen[n] # NoVersion
      PROVE  liveBy'[n] = NoStart \/ version'[n] # start[t].seen[n]
  <2>1. Commit(t) /\ HasLooked(t)
    BY <1>1, WhoCommits DEF HasLooked
  <2>2. /\ n # start[t].match /\ start[t].seen[n] <= version[n] /\ start[t].todo = {}
        /\ n \in Dealing(t) \/ liveBy[n] = NoStart \/ start[t].seen[n] < version[n]
    BY <1>1, <2>1 DEF ScopeInv, SeenDealtWith, OwnRowHeld
  <2>3. version[n] \in Nat /\ version'[n] \in {version[n], version[n] + 1}
        /\ start[t].seen[n] \in Int
    BY <1>1, <2>1 DEF Commit, Writes, TypeOK, Transaction
  <2>4. CASE n \in start[t].ended \/ liveBy[n] = NoStart
    BY <2>1, <2>2, <2>4 DEF Commit
  <2>5. CASE start[t].seen[n] < version[n]
    BY <2>3, <2>5
  <2> QED BY <1>1, <2>2, <2>4, <2>5 DEF Dealing
<1>2. TypeOK /\ ScopeInv /\ [Next]_vars =>
        [\A t \in Start : start[t].pc = "commit" /\ start'[t].pc = "done" =>
           \A n \in Match : start[t].seen[n] # NoVersion
             => liveBy'[n] = NoStart \/ version'[n] # start[t].seen[n]]_vars
  BY <1>1
<1> QED BY <1>2, ScopeInit, ScopeStep, TypeCorrect, PTL DEF Spec, StartEndsWhatItSaw

=============================================================================
