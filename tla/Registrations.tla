--------------------------- MODULE Registrations ---------------------------
(***************************************************************************)
(* The registrations of one session (scrim or event): which team holds     *)
(* which lobby slot and who waits.  Four writers share the rows.           *)
(*   - SessionsService: every mutation is one SERIALIZABLE transaction that*)
(*     locks the Session row, refuses a set of rows it finds inconsistent, *)
(*     closes the gaps of the waitlist, writes, and checks again.          *)
(*   - TeamBansService (and the no-show bans of ResultsService): statements*)
(*     with no transaction around them.                                    *)
(*   - the Telegram and Discord slot-list imports: one READ COMMITTED      *)
(*     transaction whose first statement writes the Session row.           *)
(*   - the production slot-list sync: the same, but it writes the Session  *)
(*     row only if the number of slots grows.                              *)
(* A SERIALIZABLE transaction reads what was committed when it began, so   *)
(* its writes are settled then; Postgres fails it if the Session row or a  *)
(* row it writes has changed since, or another serializable one has        *)
(* committed.  Nothing retries it: it is dropped here when that happens.   *)
(***************************************************************************)
EXTENDS Integers, FiniteSets

CONSTANTS
  Team,        \* the teams of the organization
  Request,     \* mutation requests that can be under way at the same time
  MaxSlots,    \* bound: the largest slotCount
  FirstSlot,   \* getSlotAssignmentRange: the first slot registration may fill
  NormalSlots, \* SessionDiscordConfig.normalSlots
  VipSlots,    \* SessionDiscordConfig.vipSlots
  Modes        \* the deployments considered, a subset of AllModes

AllModes == {"own", "bans", "imports", "mixed", "production"}

ASSUME TeamAssumption == IsFiniteSet(Team)
ASSUME SlotAssumption == /\ MaxSlots \in Nat \ {0} /\ FirstSlot \in Nat \ {0}
                         /\ NormalSlots \in Nat /\ VipSlots \in Nat
ASSUME ModesAssumption == Modes \subseteq AllModes

VARIABLES
  reg,      \* reg[t]: the SessionRegistration row of t
  session,  \* the Session row: slotCount, accepting (status), waitlist (waitlistEnabled)
  banned,   \* the teams with an active TeamBan for the session
  tx,       \* tx[p]: the rows that p's transaction is going to write
  ban,      \* the ban under way: pc, who, todo (positions still to be written)
  imp,      \* the import under way
  mode      \* which writers there are; never changes

vars == <<reg, session, banned, tx, ban, imp, mode>>

\* "own": SessionsService only, and no update takes a slot away that is assigned.
\* "bans": bans too, never while a mutation is under way.
\* "imports": any update, and imports that write the Session row.
\* "mixed": imports, and bans at any time.
\* "production": imports that do not write the Session row, too.

(***************************************************************************)
(* Rows.  slot and wait are 0 for null.  "none" is no row, "DELETED" a row *)
(* with deletedAt set, "REMOVED" one that is removed but not deleted.      *)
(* REGISTERED, CHECKED_IN and DECLINED are never stored by this code.      *)
(***************************************************************************)
Row == [status: {"none", "DELETED", "CONFIRMED", "WAITLIST", "REMOVED"},
        slot: 0 .. MaxSlots, wait: Nat, imported: BOOLEAN]

NoRow          == [status |-> "none", slot |-> 0, wait |-> 0, imported |-> FALSE]
Deleted        == [NoRow EXCEPT !.status = "DELETED"]
Confirmed(s, i) == [status |-> "CONFIRMED", slot |-> s, wait |-> 0, imported |-> i]
Waitlisted(n, i) == [status |-> "WAITLIST", slot |-> 0, wait |-> n, imported |-> i]
Removed        == [status |-> "REMOVED", slot |-> 0, wait |-> 0, imported |-> TRUE]

Active(row) == row.status \notin {"none", "DELETED"}
Actives(r)  == {t \in Team : Active(r[t])}
Waiting(r)  == {t \in Team : r[t].status = "WAITLIST"}

Least(a, b) == IF a < b THEN a ELSE b
NormalEnd   == Least(session.slotCount, FirstSlot + NormalSlots - 1)
NormalRange == FirstSlot .. NormalEnd
VipRange    == NormalEnd + 1 .. Least(session.slotCount, NormalEnd + VipSlots)

\* assertActiveRegistrationConsistency, the waitlist possibly with gaps.
Usable(r) ==
  \A t \in Actives(r) :
    /\ r[t].status # "REMOVED"
    /\ r[t].slot = 0 \/ r[t].wait = 0
    /\ r[t].slot # 0 <=> r[t].status = "CONFIRMED"
    /\ r[t].status = "WAITLIST" => r[t].wait # 0
    /\ r[t].slot <= session.slotCount
    /\ \A u \in Actives(r) \ {t} : /\ r[t].slot # 0 => r[u].slot # r[t].slot
                                   /\ r[t].wait # 0 => r[u].wait # r[t].wait

Rank(r, t)  == Cardinality({u \in Waiting(r) : r[u].wait <= r[t].wait})

\* Mutant: the waitlist is sorted the wrong way round.
RepackedBackwards(r) ==
  [t \in Team |-> IF t \in Waiting(r)
                  THEN [r[t] EXCEPT !.wait = Cardinality(Waiting(r)) + 1 - Rank(r, t)]
                  ELSE r[t]]

\* repackWaitlist.
Repacked(r) == [t \in Team |-> IF t \in Waiting(r) THEN [r[t] EXCEPT !.wait = Rank(r, t)]
                                                   ELSE r[t]]

\* lowestAvailableSlot among the registrations other than t's: {} or one slot.
Taken(r, t) == {r[u].slot : u \in Actives(r) \ {t}}
LowestAvailableSlot(r, t, range) ==
  {s \in range \ Taken(r, t) : \A s2 \in range : s2 < s => s2 \in Taken(r, t)}

\* nextWaitlistPosition among the registrations other than t's: one position.
NextWaitlistPosition(r, t) ==
  LET used == {0} \cup {r[u].wait : u \in Actives(r) \ {t}}
  IN  {n + 1 : n \in {m \in used : \A k \in used : k <= m}}

-----------------------------------------------------------------------------
\* What a transaction is going to write: the new rows of some teams.
IsWrites(w) == DOMAIN w \subseteq Team /\ w \in [DOMAIN w -> Row]
Nothing     == [t \in {} |-> NoRow]
Idle(p) == tx[p] = Nothing

\* The rows once the writes w are there.
Apply(r, w) == [t \in Team |-> IF t \in DOMAIN w THEN w[t] ELSE r[t]]

\* A statement outside a serializable transaction has changed the rows of T.
DropWritersOf(T) == tx' = [p \in Request |-> IF DOMAIN tx[p] \cap T = {} THEN tx[p] ELSE Nothing]
DropAll          == tx' = [p \in Request |-> Nothing]

\* locks: the Session row is written; slotCount: with what.  list: the entries
\* still to come.  mem: the active rows as the import remembers them.  source:
\* the teams imported before.  written: the teams whose rows it has changed.
\* taken: the teams of the list that have their slot.
Lists  == UNION {[S -> Team] : S \in SUBSET (FirstSlot .. MaxSlots)}
Import == [on: BOOLEAN, locks: BOOLEAN, slotCount: 1 .. MaxSlots, list: Lists,
           mem: [Team -> Row], source: SUBSET Team, written: SUBSET Team, taken: SUBSET Team]

NoImport == [on |-> FALSE, locks |-> FALSE, slotCount |-> 1, list |-> [s \in {} |-> 0],
             mem |-> [t \in Team |-> NoRow], source |-> {}, written |-> {}, taken |-> {}]

NoBan == [pc |-> "idle", who |-> {}, todo |-> {}]

Init ==
  /\ reg = [t \in Team |-> NoRow]
  /\ session = [slotCount |-> MaxSlots, accepting |-> TRUE, waitlist |-> TRUE]
  /\ banned = {}
  /\ tx = [p \in Request |-> Nothing]
  /\ ban = NoBan
  /\ imp = NoImport
  /\ mode \in Modes

(***************************************************************************)
(* SessionsService.  A request whose checks fail throws and leaves nothing *)
(* behind, so only requests that write are actions.                        *)
(***************************************************************************)

\* loadConsistentActiveRegistrations accepts the rows p finds.
Ready(p) ==
  /\ Idle(p)
  /\ mode = "bans" => ban.pc = "idle"
  /\ Usable(reg)

\* withSessionMutation: p is to leave new, with the gaps of the waitlist closed,
\* if loadConsistentActiveRegistrations accepts that too.
Begin(p, new) ==
  /\ Usable(Repacked(new))
  /\ LET final == Repacked(new)
     IN  tx' = [tx EXCEPT ![p] = [t \in {u \in Team : final[u] # reg[u]} |-> final[t]]]
  /\ UNCHANGED <<reg, session, banned, ban, imp, mode>>

\* registerTeam: a slot in the range asked for, else the end of the waitlist.
\* The row of a removed team is used again; VIP also moves a registered team.
RegisterTeam(p, t, vip) ==
  /\ Ready(p)
  /\ session.accepting
  /\ t \notin banned
  /\ vip \/ ~Active(reg[t])
  /\ LET r == Repacked(reg)
         free == LowestAvailableSlot(r, t, IF vip THEN VipRange ELSE NormalRange)
     IN  \/ \E s \in free : Begin(p, [r EXCEPT ![t] = Confirmed(s, FALSE)])
         \/ /\ free = {} /\ ~vip /\ session.waitlist
            /\ \E n \in NextWaitlistPosition(r, t) : Begin(p, [r EXCEPT ![t] = Waitlisted(n, FALSE)])

\* updateRegistrationPlacement: SLOT takes any free slot of the two ranges,
\* APPROVE and VIP the lowest one of theirs.
PlaceInSlot(p, t) ==
  /\ Ready(p)
  /\ Active(reg[t])
  /\ LET r == Repacked(reg)
     IN  \E s \in (NormalRange \cup VipRange) \ Taken(r, t) :
           Begin(p, [r EXCEPT ![t] = Confirmed(s, reg[t].imported)])

\* updateRegistrationPlacement: WAITLIST.
PlaceOnWaitlist(p, t) ==
  /\ Ready(p)
  /\ Active(reg[t])
  /\ session.waitlist
  /\ LET r == Repacked(reg)
     IN  \E n \in NextWaitlistPosition(r, t) :
           Begin(p, [r EXCEPT ![t] = Waitlisted(n, reg[t].imported)])

\* removeRegistration.
RemoveRegistration(p, t) ==
  /\ Ready(p)
  /\ Active(reg[t])
  /\ Begin(p, [Repacked(reg) EXCEPT ![t] = Deleted])

\* removeSlotRegistrations: everyone in a slot at once.
RemoveSlotRegistrations(p) ==
  /\ Ready(p)
  /\ Begin(p, [t \in Team |-> IF Active(reg[t]) /\ reg[t].slot # 0 THEN Deleted ELSE Repacked(reg)[t]])

\* Mutant: Commit at READ COMMITTED, where the others go on with what they read.
CommitReadCommitted(p) ==
  /\ ~Idle(p)
  /\ reg' = Apply(reg, tx[p])
  /\ tx' = [tx EXCEPT ![p] = Nothing]
  /\ UNCHANGED <<session, banned, ban, imp, mode>>

\* The transaction commits: the other mutations under way have read what it
\* changed.  It waits for an import that has the Session row or a row of its own.
Commit(p) ==
  /\ ~Idle(p)
  /\ ~(imp.on /\ imp.locks)
  /\ DOMAIN tx[p] \cap imp.written = {}
  /\ reg' = Apply(reg, tx[p])
  /\ DropAll
  /\ UNCHANGED <<session, banned, ban, imp, mode>>

\* The transaction fails: a lost connection, the timeout, a crash of the API.
RollBack(p) ==
  /\ ~Idle(p)
  /\ tx' = [tx EXCEPT ![p] = Nothing]
  /\ UNCHANGED <<reg, session, banned, ban, imp, mode>>

\* Mutant: mutations do not lock the Session row, and go on when it changes.
UpdateSessionUnlocked ==
  /\ \E n \in 1 .. MaxSlots, a, w \in BOOLEAN :
       /\ mode \in {"own", "bans"} => \A t \in Team : reg[t].slot <= n
       /\ session' = [slotCount |-> n, accepting |-> a, waitlist |-> w]
  /\ UNCHANGED <<reg, banned, tx, ban, imp, mode>>

\* Mutant: validateCapacity lets a slotCount of 0 through.
UpdateSessionUnvalidated ==
  /\ \E n \in 0 .. MaxSlots, a, w \in BOOLEAN :
       /\ mode \in {"own", "bans"} => \A t \in Team : reg[t].slot <= n
       /\ session' = [slotCount |-> n, accepting |-> a, waitlist |-> w]
  /\ DropAll
  /\ UNCHANGED <<reg, banned, ban, imp, mode>>

\* update: one UPDATE of the Session row that looks at no registration.
UpdateSession ==
  /\ ~(imp.on /\ imp.locks)
  /\ \E n \in 1 .. MaxSlots, a, w \in BOOLEAN :
       /\ mode \in {"own", "bans"} => \A t \in Team : reg[t].slot <= n
       /\ session' = [slotCount |-> n, accepting |-> a, waitlist |-> w]
  /\ session' # session
  /\ DropAll
  /\ UNCHANGED <<reg, banned, ban, imp, mode>>

(***************************************************************************)
(* A ban for the session: create, removeTeamFromSession,                   *)
(* repackSessionWaitlist.  Each action is one statement.                   *)
(***************************************************************************)
BanCreate(t) ==
  /\ mode \notin {"own", "imports"} /\ ban.pc = "idle" /\ t \notin banned
  /\ mode = "bans" => \A p \in Request : Idle(p)
  /\ banned' = banned \cup {t}
  /\ ban' = [pc |-> "remove", who |-> {t}, todo |-> {}]
  /\ UNCHANGED <<reg, session, tx, imp, mode>>

\* Mutant: the status is set and deletedAt is not.
BanRemoveStatusOnly ==
  /\ ban.pc = "remove"
  /\ reg' = [t \in Team |-> IF t \in ban.who /\ Active(reg[t]) THEN Removed ELSE reg[t]]
  /\ DropWritersOf(ban.who)
  /\ ban' = [NoBan EXCEPT !.pc = "read"]
  /\ UNCHANGED <<session, banned, imp, mode>>

BanRemove ==
  /\ ban.pc = "remove"
  /\ ban.who \cap imp.written = {}
  /\ reg' = [t \in Team |-> IF t \in ban.who /\ Active(reg[t]) THEN Deleted ELSE reg[t]]
  /\ DropWritersOf(ban.who \cap Actives(reg))
  /\ ban' = [NoBan EXCEPT !.pc = "read"]
  /\ UNCHANGED <<session, banned, imp, mode>>

\* The positions the waitlist should have; rows of equal position by creation.
Orderings(W) == {f \in [W -> 1 .. Cardinality(W)] :
                   \A a, b \in W : a # b => /\ f[a] # f[b]
                                            /\ reg[a].wait < reg[b].wait => f[a] < f[b]}

BanRead ==
  /\ ban.pc = "read"
  /\ \E f \in Orderings(Waiting(reg)) :
       LET todo == {<<f[t], t>> : t \in {u \in Waiting(reg) : f[u] # reg[u].wait}}
       IN  ban' = IF todo = {} THEN NoBan ELSE [ban EXCEPT !.pc = "write", !.todo = todo]
  /\ UNCHANGED <<reg, session, banned, tx, imp, mode>>

\* UPDATE ... WHERE id: whatever has become of the row since it was read.  What
\* it writes to a deleted row is never read again.
BanWrite ==
  /\ ban.pc = "write"
  /\ \E x \in ban.todo :
       /\ \A y \in ban.todo : x[1] <= y[1]
       /\ x[2] \notin imp.written
       /\ reg' = IF Active(reg[x[2]]) THEN [reg EXCEPT ![x[2]].wait = x[1]] ELSE reg
       /\ DropWritersOf({x[2]})
       /\ ban' = IF ban.todo = {x} THEN NoBan ELSE [ban EXCEPT !.todo = @ \ {x}]
  /\ UNCHANGED <<session, banned, imp, mode>>

\* The API crashes between two of the statements.
BanCrash ==
  /\ ban.pc # "idle"
  /\ ban' = NoBan
  /\ UNCHANGED <<reg, session, banned, tx, imp, mode>>

BanRevoke(t) ==
  /\ t \in banned /\ ban.pc = "idle"
  /\ banned' = banned \ {t}
  /\ UNCHANGED <<reg, session, tx, ban, imp, mode>>

(***************************************************************************)
(* An import of a slot list: slot -> team.  It works on the list of rows   *)
(* it read (mem), writes row by row, and shows its writes when it commits. *)
(***************************************************************************)

\* refreshEvent and the Discord import write the Session row first; the
\* production sync only if the list has a slot beyond the present number.
ImportBegin(list, locks, slotCount) ==
  /\ mode \notin {"own", "bans"} /\ ~imp.on
  /\ locks \/ mode = "production"
  /\ \A s \in DOMAIN list : s <= slotCount
  /\ ~locks => slotCount = session.slotCount
  /\ imp' = [NoImport EXCEPT !.on = TRUE, !.locks = locks, !.slotCount = slotCount,
               !.list = list, !.mem = [t \in Team |-> IF Active(reg[t]) THEN reg[t] ELSE NoRow],
               !.source = {t \in Actives(reg) : reg[t].imported}]
  /\ UNCHANGED <<reg, session, banned, tx, ban, mode>>

\* The next entry of the list: team t for slot s.
ImportRow ==
  /\ imp.on
  /\ \E s \in DOMAIN imp.list :
       /\ \A s2 \in DOMAIN imp.list : s <= s2
       /\ LET t        == imp.list[s]
              holders  == {u \in Team \ {t} : imp.mem[u].slot = s}
              manual   == {u \in holders : ~imp.mem[u].imported}
              held     == Active(imp.mem[t])
              placed(u) == IF u = t THEN Confirmed(s, TRUE)
                           ELSE IF u \notin holders THEN imp.mem[u]
                           ELSE IF held THEN Removed ELSE NoRow
              rest     == [s2 \in DOMAIN imp.list \ {s} |-> imp.list[s2]]
          IN  IF t \in imp.taken \/ manual # {}
              THEN imp' = [imp EXCEPT !.list = rest]
              ELSE /\ held \/ reg[t].status = "none" \/ t \in imp.written
                   /\ imp' = [imp EXCEPT !.list = rest, !.mem = [u \in Team |-> placed(u)],
                                !.written = @ \cup {t} \cup holders, !.taken = @ \cup {t}]
  /\ UNCHANGED <<reg, session, banned, tx, ban, mode>>

\* The imported teams that are not in the list any more are marked REMOVED,
\* which leaves deletedAt null, and the transaction commits.
ImportCommit ==
  /\ imp.on /\ DOMAIN imp.list = {}
  /\ LET gone == {t \in imp.source \ imp.taken : imp.mem[t] # NoRow}
         all  == imp.written \cup gone
     IN  /\ reg' = [t \in Team |-> IF t \in gone THEN Removed
                                   ELSE IF t \in all THEN imp.mem[t] ELSE reg[t]]
         /\ IF imp.locks THEN DropAll ELSE DropWritersOf(all)
  /\ session' = [session EXCEPT !.slotCount = IF imp.locks THEN imp.slotCount ELSE @]
  /\ imp' = NoImport
  /\ UNCHANGED <<banned, ban, mode>>

\* It rolls back: the unique (session, team) of a deleted row, or a crash.
ImportFail ==
  /\ imp.on
  /\ imp' = NoImport
  /\ UNCHANGED <<reg, session, banned, tx, ban, mode>>

-----------------------------------------------------------------------------
Mutation(p) ==
  \/ \E t \in Team, vip \in BOOLEAN : RegisterTeam(p, t, vip)
  \/ \E t \in Team : PlaceInSlot(p, t) \/ PlaceOnWaitlist(p, t) \/ RemoveRegistration(p, t)
  \/ RemoveSlotRegistrations(p)
  \/ Commit(p)
  \/ RollBack(p)

BanStep == \/ \E t \in Team : BanCreate(t) \/ BanRevoke(t)
           \/ BanRemove \/ BanRead \/ BanWrite \/ BanCrash

ImportStep == \/ \E list \in Lists, locks \in BOOLEAN, n \in 1 .. MaxSlots : ImportBegin(list, locks, n)
              \/ ImportRow \/ ImportCommit \/ ImportFail

Next == (\E p \in Request : Mutation(p)) \/ UpdateSession \/ BanStep \/ ImportStep

Spec == Init /\ [][Next]_vars

-----------------------------------------------------------------------------
(* Properties.                                                             *)

TypeOK ==
  /\ reg \in [Team -> Row]
  /\ session \in [slotCount: 1 .. MaxSlots, accepting: BOOLEAN, waitlist: BOOLEAN]
  /\ banned \subseteq Team
  /\ tx = [p \in Request |-> tx[p]] /\ \A p \in Request : IsWrites(tx[p])
  /\ ban \in [pc: {"idle", "remove", "read", "write"}, who: SUBSET Team, todo: SUBSET (Nat \X Team)]
  /\ imp \in Import
  /\ mode \in AllModes

\* No two registrations hold the same lobby slot (the check of
\* assertActiveRegistrationConsistency), whatever mutations, bans and imports
\* overlap, as long as every import writes the Session row.
SlotsDiffer(r) == \A t, u \in Actives(r) : t # u /\ r[t].slot # 0 => r[t].slot # r[u].slot
NoDoubleBooking == mode # "production" => SlotsDiffer(reg)

\* The same with the production sync, which may not lock the session: violated.
NeverDoubleBooked == SlotsDiffer(reg)

\* SessionsService never refuses to work on rows it left behind itself, nor on
\* those a ban that ran alone left behind, even half done.
RowsStayUsable == mode \in {"own", "bans"} => Usable(reg)

\* assertActiveRegistrationConsistency takes it for granted that a removed
\* registration is deleted too; an import only marks it REMOVED: violated.
NoTerminalActiveRecord == \A t \in Team : reg[t].status # "REMOVED"

\* Nobody gets in by registration once the session is closed, even if the
\* request saw it open.
ClosedMeansClosed ==
  [][\A t \in Team : ~Active(reg[t]) /\ Active(reg'[t]) /\ UNCHANGED imp => session.accepting]_vars

\* An import that writes the Session row leaves the teams it has not placed
\* alone if they were registered by hand, also while it was at work.
ImportsSpareManual ==
  [][mode # "production" /\ imp.on /\ ~imp'.on
       => \A t \in Team \ imp.taken : Active(reg[t]) /\ ~reg[t].imported => reg'[t] = reg[t]]_vars

\* The registrations as a seating plan and a queue.
SeatsOf(r) == [t \in Team |-> r[t].slot]
QueueOf(r) == {x \in Waiting(r) \X Waiting(r) : r[x[1]].wait < r[x[2]].wait}

Book == INSTANCE SeatBook WITH seat <- SeatsOf(reg), waiting <- Waiting(reg),
                               ahead <- QueueOf(reg), normal <- NormalRange, vip <- VipRange

\* Overlapping mutations, with bans between them, act as if made one at a time:
\* each gives one team its place and leaves the seats and the order of the
\* others alone.
KeepsTheSeatBook ==
  Book!Init /\ [][(mode \in {"own", "bans"}) => (Book!Next \/ UNCHANGED Book!vars)]_vars
=============================================================================
