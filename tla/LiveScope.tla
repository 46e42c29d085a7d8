----------------------------- MODULE LiveScope -----------------------------
(***************************************************************************)
(* "At most one LIVE match per organization", as setMatchLiveInternal      *)
(* tries to keep it: one Postgres transaction per start, at READ COMMITTED,*)
(* that looks for LIVE matches in scope, ends each of them, makes its own  *)
(* match LIVE, looks again, and rolls back if somebody is still LIVE.      *)
(* schema.prisma declares no constraint that would enforce the rule; the   *)
(* code translates a P2002 should the SQL migrations (not in the           *)
(* repository) hold one.  This module is the code without it.              *)
(*                                                                         *)
(* A statement sees what is committed when it runs, plus what its own      *)
(* transaction wrote.  An UPDATE of a row another transaction has written  *)
(* waits for that transaction to end and then tests its WHERE again.       *)
(* Postgres breaks a cycle of waits by failing one of the transactions.    *)
(***************************************************************************)
EXTENDS Integers, FiniteSets

CONSTANTS
  Match,       \* the matches of one organization
  Start,       \* start requests; each is made once
  LiveAtFirst, \* the matches already LIVE, from earlier starts (several, if those overlapped)
  MaxVersion   \* bound: no further ends once a row is this old

ASSUME MaxVersionAssumption == MaxVersion \in Nat

NoStart == "none"
Earlier == "earlier"
ASSUME StartAssumption == {NoStart, Earlier} \cap Start = {}
ASSUME LiveAtFirstAssumption == LiveAtFirst \subseteq Match
NoVersion == -1

VARIABLES
  liveBy,      \* liveBy[m]: the start that made m LIVE, by the committed Match row
               \* or control row; NoStart if neither says LIVE
  version,     \* version[m]: the committed MatchControlState.version
  noneAlive,   \* noneAlive[m]: the live store or the slot rows count 0 teams alive
  lock,        \* lock[m]: the start whose transaction has written m's rows
  start,       \* start[t]: the transaction of t, see Transaction
  overlapped   \* overlapped[t]: starts whose transactions ran together with t's

rows == <<liveBy, version, noneAlive>>
vars == <<liveBy, version, noneAlive, lock, start, overlapped>>

\* pc: where t is.  match: what it starts.  exp: the client's control version.
\* seen: the conflicts it found, with their versions then.  todo: the conflicts
\* not dealt with yet.  current, currentVer: the one it is about to end.
\* ended: the ones it ended.
Transaction == [pc: {"new", "find", "next", "end", "own", "check", "commit", "done", "failed"},
                match: Match, exp: Int, seen: [Match -> Int], todo: SUBSET Match,
                current: Match, currentVer: Int, ended: SUBSET Match]

Fresh(m) == [pc |-> "new", match |-> m, exp |-> NoVersion,
             seen |-> [n \in Match |-> NoVersion], todo |-> {},
             current |-> m, currentVer |-> NoVersion, ended |-> {}]

Init ==
  /\ liveBy = [m \in Match |-> IF m \in LiveAtFirst THEN Earlier ELSE NoStart]
  /\ version = [m \in Match |-> 0]
  /\ noneAlive \in [Match -> BOOLEAN]
  /\ lock = [m \in Match |-> NoStart]
  /\ \E m \in Match : start = [t \in Start |-> Fresh(m)]
  /\ overlapped = [t \in Start |-> {}]

IsLive(m)   == liveBy[m] # NoStart
Active(t)   == start[t].pc \notin {"new", "done", "failed"}
Writes(t)   == {m \in Match : lock[m] = t}
Free(t, m)  == lock[m] \in {NoStart, t}

\* What a SELECT of t sees of m: its own uncommitted write, or the committed row.
SeesLive(t, m) ==
  CASE m \in start[t].ended                                -> FALSE
    [] m = start[t].match /\ start[t].pc \in {"check", "commit"} -> TRUE
    [] OTHER                                               -> IsLive(m)

To(t, r) == start' = [start EXCEPT ![t] = r]

-----------------------------------------------------------------------------
(* A start.                                                                *)

\* setMatchLive has loaded a match that is not LIVE and opens the transaction.
Begin(t, m, exp) ==
  /\ start[t].pc = "new"
  /\ ~IsLive(m)
  /\ exp \in {NoVersion, version[m]}
  /\ To(t, [Fresh(m) EXCEPT !.pc = "find", !.exp = exp])
  /\ overlapped' = [u \in Start |->
       CASE u = t                -> {v \in Start : Active(v)}
         [] u # t /\ Active(u)   -> overlapped[u] \cup {t}
         [] u # t /\ ~Active(u)  -> overlapped[u]]
  /\ UNCHANGED <<rows, lock>>

\* Mutant: a match none of whose teams is alive is not looked for.
FindConflictsAlive(t) ==
  LET r == start[t]
      found == {n \in Match \ {r.match} : IsLive(n) /\ ~noneAlive[n]}
  IN
  /\ r.pc = "find"
  /\ To(t, [r EXCEPT !.pc = "next", !.todo = found,
                     !.seen = [n \in Match |-> IF n \in found THEN version[n] ELSE NoVersion]])
  /\ UNCHANGED <<rows, lock, overlapped>>

\* The two findMany: every other match in scope whose rows say LIVE.
FindConflicts(t) ==
  LET r == start[t]
      found == {n \in Match \ {r.match} : IsLive(n)}
  IN
  /\ r.pc = "find"
  /\ To(t, [r EXCEPT !.pc = "next", !.todo = found,
                     !.seen = [n \in Match |-> IF n \in found THEN version[n] ELSE NoVersion]])
  /\ UNCHANGED <<rows, lock, overlapped>>

\* autoEndOtherLiveMatchesInScope, one conflict: read its version ...
NextConflict(t, n) ==
  /\ start[t].pc = "next" /\ n \in start[t].todo
  /\ To(t, [start[t] EXCEPT !.pc = "end", !.todo = @ \ {n},
                            !.current = n, !.currentVer = version[n]])
  /\ UNCHANGED <<rows, lock, overlapped>>

\* ... and end it if its rows, once nobody else holds them, still say LIVE,
\* failing if its version is not the one just read.
EndConflict(t) ==
  LET r == start[t]
      n == r.current
  IN
  /\ r.pc = "end" /\ Free(t, n)
  /\ CASE ~IsLive(n) ->
            /\ To(t, [r EXCEPT !.pc = "next"])
            /\ UNCHANGED lock
       [] IsLive(n) /\ version[n] = r.currentVer ->
            /\ To(t, [r EXCEPT !.pc = "next", !.ended = @ \cup {n}])
            /\ lock' = [lock EXCEPT ![n] = t]
       [] IsLive(n) /\ version[n] # r.currentVer ->
            /\ To(t, [r EXCEPT !.pc = "failed"])
            /\ lock' = [m \in Match |-> IF lock[m] = t THEN NoStart ELSE lock[m]]
  /\ UNCHANGED <<rows, overlapped>>

\* Mutant: the start does not wait until every conflict is dealt with.
GoLiveEarly(t) ==
  LET r == start[t] IN
  /\ r.pc = "next" /\ Free(t, r.match)
  /\ r.exp \in {NoVersion, version[r.match]}
  /\ To(t, [r EXCEPT !.pc = "check"])
  /\ lock' = [lock EXCEPT ![r.match] = t]
  /\ UNCHANGED <<rows, overlapped>>

\* Its own row and control row; the control write insists on exp if there is one.
GoLive(t) ==
  LET r == start[t] IN
  /\ r.pc = "next" /\ r.todo = {} /\ Free(t, r.match)
  /\ r.exp \in {NoVersion, version[r.match]}
  /\ To(t, [r EXCEPT !.pc = "check"])
  /\ lock' = [lock EXCEPT ![r.match] = t]
  /\ UNCHANGED <<rows, overlapped>>

\* The second look: a match still LIVE in scope blocks, unless no team of it is
\* alive (ZERO_ALIVE_TEAMS_STALE_LIVE_MATCH).
Blocked(t) == \E n \in Match \ {start[t].match} : SeesLive(t, n) /\ ~noneAlive[n]

CheckAgain(t) ==
  /\ start[t].pc = "check" /\ ~Blocked(t)
  /\ To(t, [start[t] EXCEPT !.pc = "commit"])
  /\ UNCHANGED <<rows, lock, overlapped>>

\* Mutant: a failed start keeps what it holds.
FailHolding(t) ==
  LET r == start[t] IN
  /\ \/ /\ r.pc = "next" /\ r.todo = {} /\ Free(t, r.match)
        /\ r.exp \notin {NoVersion, version[r.match]}
     \/ r.pc = "check" /\ Blocked(t)
  /\ To(t, [r EXCEPT !.pc = "failed"])
  /\ UNCHANGED <<rows, lock, overlapped>>

\* Mutant: a start that is still blocked is not failed.
FailOnVersionOnly(t) ==
  LET r == start[t] IN
  /\ r.pc = "next" /\ r.todo = {} /\ Free(t, r.match)
  /\ r.exp \notin {NoVersion, version[r.match]}
  /\ To(t, [r EXCEPT !.pc = "failed"])
  /\ lock' = [m \in Match |-> IF lock[m] = t THEN NoStart ELSE lock[m]]
  /\ UNCHANGED <<rows, overlapped>>

\* The transaction rolls back: a version mismatch, somebody still LIVE.
Fail(t) ==
  LET r == start[t] IN
  /\ \/ /\ r.pc = "next" /\ r.todo = {} /\ Free(t, r.match)
        /\ r.exp \notin {NoVersion, version[r.match]}
     \/ r.pc = "check" /\ Blocked(t)
  /\ To(t, [r EXCEPT !.pc = "failed"])
  /\ lock' = [m \in Match |-> IF lock[m] = t THEN NoStart ELSE lock[m]]
  /\ UNCHANGED <<rows, overlapped>>

Commit(t) ==
  LET r == start[t] IN
  /\ r.pc = "commit"
  /\ liveBy' = [m \in Match |-> IF m = r.match THEN t
                                ELSE IF m \in r.ended THEN NoStart ELSE liveBy[m]]
  /\ version' = [m \in Match |-> IF m \in Writes(t) THEN version[m] + 1 ELSE version[m]]
  /\ lock' = [m \in Match |-> IF lock[m] = t THEN NoStart ELSE lock[m]]
  /\ To(t, [r EXCEPT !.pc = "done"])
  /\ UNCHANGED <<noneAlive, overlapped>>

-----------------------------------------------------------------------------
(* The rest of the world.                                                  *)

\* What t waits for: the transaction that holds the row t must write next.
WaitsFor(t) ==
  LET r == start[t] IN
  CASE r.pc = "end"                   -> {lock[r.current]} \ {NoStart, t}
    [] r.pc = "next" /\ r.todo = {}   -> {lock[r.match]} \ {NoStart, t}
    [] OTHER                          -> {}

\* Postgres fails a transaction that waits in a cycle.
DeadlockVictim(t) ==
  /\ \E cycle \in SUBSET Start :
       /\ t \in cycle
       /\ \A u \in cycle : /\ WaitsFor(u) \cap cycle # {}
                          /\ \E v \in cycle : u \in WaitsFor(v)
  /\ To(t, [start[t] EXCEPT !.pc = "failed"])
  /\ lock' = [m \in Match |-> IF lock[m] = t THEN NoStart ELSE lock[m]]
  /\ UNCHANGED <<rows, overlapped>>

\* A LIVE match is ended or reset by one of the other control operations.
EndMatch(m) ==
  /\ IsLive(m) /\ lock[m] = NoStart /\ version[m] < MaxVersion
  /\ liveBy' = [liveBy EXCEPT ![m] = NoStart]
  /\ version' = [version EXCEPT ![m] = @ + 1]
  /\ UNCHANGED <<noneAlive, lock, start, overlapped>>

\* Play and telemetry change who is alive in a LIVE match.
Play(m) ==
  /\ IsLive(m)
  /\ noneAlive' = [noneAlive EXCEPT ![m] = ~@]
  /\ UNCHANGED <<liveBy, version, lock, start, overlapped>>

Run(t) ==
  \/ FindConflicts(t)
  \/ \E n \in Match : NextConflict(t, n)
  \/ EndConflict(t) \/ GoLive(t) \/ CheckAgain(t) \/ Fail(t) \/ Commit(t)
  \/ DeadlockVictim(t)

Next ==
  \/ \E t \in Start :
       \/ \E m \in Match : \E exp \in {NoVersion, version[m]} : Begin(t, m, exp)
       \/ Run(t)
  \/ \E m \in Match : EndMatch(m) \/ Play(m)

Spec == Init /\ [][Next]_vars

\* Node and Postgres carry on with a transaction that can go on.
FairSpec == Spec /\ \A t \in Start : WF_vars(Run(t))

-----------------------------------------------------------------------------
(* Properties.                                                             *)

TypeOK ==
  /\ liveBy \in [Match -> Start \cup {NoStart, Earlier}] /\ version \in [Match -> Nat]
  /\ noneAlive \in [Match -> BOOLEAN]
  /\ lock \in [Match -> Start \cup {NoStart}]
  /\ start \in [Start -> Transaction]
  /\ overlapped \in [Start -> SUBSET Start]
  /\ \A m \in Match : lock[m] # NoStart => Active(lock[m])

\* How far the code keeps the rule that an organization has at most one LIVE
\* match: of two matches LIVE together, both are from before the starts of this
\* model, or their start transactions overlapped.  A start that runs alone ends
\* everything LIVE.
TwoLiveOnlyByOverlap ==
  \A m, n \in Match : m # n /\ IsLive(m) /\ IsLive(n) =>
    \/ liveBy[m] = Earlier /\ liveBy[n] = Earlier
    \/ /\ {liveBy[m], liveBy[n]} \subseteq Start
       /\ liveBy[m] \in overlapped[liveBy[n]] /\ liveBy[n] \in overlapped[liveBy[m]]

\* A start that commits leaves no match running that was LIVE when it looked:
\* each one it saw was ended by it or has changed since.
StartEndsWhatItSaw ==
  [][\A t \in Start : start[t].pc = "commit" /\ start'[t].pc = "done" =>
       \A n \in Match : start[t].seen[n] # NoVersion
         => liveBy'[n] = NoStart \/ version'[n] # start[t].seen[n]]_vars

\* Starts that end each other's matches neither wait for ever nor hang: every
\* transaction that begins commits or fails.
StartsTerminate == \A t \in Start : Active(t) ~> ~Active(t)

=============================================================================
