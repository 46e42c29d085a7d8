--------------------------- MODULE SeatBook_proofs ---------------------------
(***************************************************************************)
(* Proof that the registrations of a session implement SeatBook, for every *)
(* number of teams, requests and slots, where SessionsService is the only  *)
(* writer or bans run between its mutations.  The invariant says that each *)
(* transaction under way, if it commits, moves the book by one of its      *)
(* actions from what it is now: the Session row is locked, so what it was  *)
(* worked out from is still there.                                         *)
(***************************************************************************)
EXTENDS Registrations_proofs

(* The book, as a relation between sets of rows.                           *)

Holds(r, t) == r[t].slot # 0 \/ t \in Waiting(r)
FreeIn(r)   == (NormalRange \cup VipRange) \ {r[u].slot : u \in Team}

Without(r, T)     == {x \in QueueOf(r) : x[1] \notin T /\ x[2] \notin T}
Seated(r, r2, t, s) == SeatsOf(r2) = [SeatsOf(r) EXCEPT ![t] = s]
Gone(r, r2, T)    == Waiting(r2) = Waiting(r) \ T /\ QueueOf(r2) = Without(r, T)
Last(r, r2, t)    == /\ Waiting(r2) = Waiting(r) \cup {t}
                     /\ QueueOf(r2) = Without(r, {t}) \cup ((Waiting(r) \ {t}) \X {t})

\* Two sets of rows that are the same book.
Same(r, r2) == SeatsOf(r2) = SeatsOf(r) /\ Waiting(r2) = Waiting(r) /\ QueueOf(r2) = QueueOf(r)

JoinsSeat(r, r2, t) ==
  /\ ~Holds(r, t)
  /\ \E s \in NormalRange \cap FreeIn(r) :
       (\A s2 \in NormalRange \cap FreeIn(r) : s <= s2) /\ Seated(r, r2, t, s)
  /\ Waiting(r2) = Waiting(r) /\ QueueOf(r2) = QueueOf(r)

JoinsQueue(r, r2, t) ==
  /\ ~Holds(r, t) /\ NormalRange \cap FreeIn(r) = {}
  /\ SeatsOf(r2) = SeatsOf(r) /\ Last(r, r2, t)

Sits(r, r2, t) ==
  /\ \E s \in FreeIn(r) : (Holds(r, t) \/ s \in VipRange) /\ Seated(r, r2, t, s)
  /\ Gone(r, r2, {t})

Waits(r, r2, t) == Holds(r, t) /\ Seated(r, r2, t, 0) /\ Last(r, r2, t)

Leaves(r, r2, T) ==
  /\ SeatsOf(r2) = [t \in Team |-> IF t \in T THEN 0 ELSE SeatsOf(r)[t]]
  /\ Gone(r, r2, T)

Moves(r, r2) ==
  \/ Same(r, r2)
  \/ \E t \in Team : \/ JoinsSeat(r, r2, t) \/ JoinsQueue(r, r2, t)
                     \/ Sits(r, r2, t) \/ Waits(r, r2, t)
  \/ \E T \in SUBSET Team : Leaves(r, r2, T)

\* What a ban is still to write moves everyone forward and keeps the order.
PlanKeepsOrder ==
  /\ \A x \in ban.todo : x[1] < reg[x[2]].wait
  /\ \A x \in ban.todo : \A u \in Waiting(reg) :
       reg[u].wait < reg[x[2]].wait
         => reg[u].wait < x[1] \/ \E y \in ban.todo : y[2] = u /\ y[1] < x[1]

\* The inductive invariant: a transaction that commits moves the book, and a ban
\* that goes on does not change it.
BookInv ==
  mode \in {"own", "bans"} =>
    /\ \A p \in Request : Moves(reg, Apply(reg, tx[p]))
    /\ ban.pc = "write" => PlanKeepsOrder

-----------------------------------------------------------------------------
(* The book of some rows.                                                  *)

\* A set of natural numbers has a least one.
LEMMA LeastNumber ==
  ASSUME NEW S \in SUBSET Nat, S # {}
  PROVE  \E n \in S : \A m \in S : n <= m
<1> DEFINE R == {x \in Nat \X Nat : x[1] < x[2]}
<1>1. IsWellFoundedOn(R, Nat)
  <2>1. R = OpToRel(<, Nat)
    BY Zenon DEF OpToRel
  <2> QED BY <2>1, NatLessThanWellFounded, Zenon
<1>2. PICK n \in S : \A m \in S : ~ (<<m, n>> \in R)
  BY <1>1, WFMin
<1>3. ASSUME NEW m \in S PROVE n <= m
  <2>1. m \in Nat /\ n \in Nat /\ ~ (<<m, n>> \in R)
    BY <1>2
  <2>2. ~(m < n)
    BY <2>1
  <2> QED BY <2>1, <2>2
<1> QED BY <1>2, <1>3

\* Ranks are in the order of the positions.
LEMMA RankOrders ==
  ASSUME NEW r \in [Team -> Row], NEW t \in Waiting(r), NEW u \in Waiting(r)
  PROVE  Rank(r, t) < Rank(r, u) <=> r[t].wait < r[u].wait
<1> DEFINE Upto(v) == {w \in Waiting(r) : r[w].wait <= r[v].wait}
<1>1. \A w \in Waiting(r) : r[w].wait \in Nat
  BY DEF Waiting, Row
<1>2. \A v : IsFiniteSet(Upto(v)) /\ Cardinality(Upto(v)) \in Nat
  <2> SUFFICES ASSUME NEW v PROVE IsFiniteSet(Upto(v)) /\ Cardinality(Upto(v)) \in Nat
    OBVIOUS
  <2>1. Upto(v) \subseteq Team
    BY DEF Waiting
  <2>2. IsFiniteSet(Upto(v))
    BY <2>1, TeamAssumption, FS_Subset
  <2> QED BY <2>2, FS_CardinalityType
<1>3. \A v : Rank(r, v) = Cardinality(Upto(v))
  BY DEF Rank
<1>4. CASE r[t].wait < r[u].wait
  <2>1. Upto(t) \subseteq Upto(u)
    BY <1>1, <1>4
  <2>2. u \in Upto(u) /\ u \notin Upto(t)
    BY <1>1, <1>4
  <2> HIDE DEF Upto
  <2>3. Upto(t) # Upto(u)
    BY <2>2
  <2>4. Cardinality(Upto(t)) < Cardinality(Upto(u))
    BY <1>2, <2>1, <2>3, FS_Subset
  <2> QED BY <1>3, <1>4, <2>4
<1>5. CASE ~(r[t].wait < r[u].wait)
  <2>1. Upto(u) \subseteq Upto(t)
    BY <1>1, <1>5
  <2> HIDE DEF Upto
  <2>2. Cardinality(Upto(u)) <= Cardinality(Upto(t))
    BY <1>2, <2>1, FS_Subset
  <2> QED BY <1>2, <1>3, <1>5, <2>2
<1> QED BY <1>4, <1>5

\* Closing the gaps of the waitlist leaves the book as it is.
LEMMA RepackedIsSame ==
  ASSUME NEW r \in [Team -> Row]
  PROVE  Same(r, Repacked(r))
<1> DEFINE r2 == Repacked(r)
<1>1. /\ r2 \in [Team -> Row]
      /\ \A t \in Team : r2[t].status = r[t].status /\ r2[t].slot = r[t].slot
  BY RepackedRows
<1>2. \A t \in Waiting(r) : r2[t].wait = Rank(r, t)
  BY DEF Repacked, Waiting, Row
<1> HIDE DEF r2
<1>3. SeatsOf(r2) = SeatsOf(r) /\ Waiting(r2) = Waiting(r)
  BY <1>1 DEF SeatsOf, Waiting
<1>4. \A t, u \in Waiting(r) : r2[t].wait < r2[u].wait <=> r[t].wait < r[u].wait
  BY <1>2, RankOrders
<1>5. QueueOf(r2) = QueueOf(r)
  BY <1>3, <1>4 DEF QueueOf
<1> QED BY <1>3, <1>5 DEF Same, r2

\* Only the book of the rows counts.
LEMMA SameMoves ==
  ASSUME NEW r, NEW r1, NEW r2, NEW r3, Same(r, r1), Same(r2, r3), Moves(r1, r2)
  PROVE  Moves(r, r3)
<1>1. /\ SeatsOf(r1) = SeatsOf(r) /\ Waiting(r1) = Waiting(r) /\ QueueOf(r1) = QueueOf(r)
      /\ SeatsOf(r3) = SeatsOf(r2) /\ Waiting(r3) = Waiting(r2) /\ QueueOf(r3) = QueueOf(r2)
  BY DEF Same
<1>2. \A t \in Team : r1[t].slot = r[t].slot
  <2> SUFFICES ASSUME NEW t \in Team PROVE r1[t].slot = r[t].slot
    OBVIOUS
  <2>1. SeatsOf(r1)[t] = r1[t].slot /\ SeatsOf(r)[t] = r[t].slot
    BY DEF SeatsOf
  <2> QED BY <1>1, <2>1
<1>3. FreeIn(r1) = FreeIn(r)
  <2>1. {r1[u].slot : u \in Team} = {r[u].slot : u \in Team}
    BY <1>2
  <2> QED BY <2>1 DEF FreeIn
<1>4. \A t \in Team : Holds(r1, t) <=> Holds(r, t)
  BY <1>1, <1>2 DEF Holds
<1>5. \A T : Without(r1, T) = Without(r, T)
  BY <1>1 DEF Without
<1>6. /\ \A T : Gone(r1, r2, T) => Gone(r, r3, T)
      /\ \A t : Last(r1, r2, t) => Last(r, r3, t)
      /\ \A t, s : Seated(r1, r2, t, s) => Seated(r, r3, t, s)
  BY <1>1, <1>5 DEF Gone, Last, Seated
<1>7. CASE Same(r1, r2)
  BY <1>1, <1>7 DEF Same, Moves
<1>8. ASSUME NEW t \in Team, JoinsSeat(r1, r2, t) PROVE JoinsSeat(r, r3, t)
  BY <1>1, <1>3, <1>4, <1>6, <1>8 DEF JoinsSeat
<1>9. ASSUME NEW t \in Team, JoinsQueue(r1, r2, t) PROVE JoinsQueue(r, r3, t)
  BY <1>1, <1>3, <1>4, <1>6, <1>9 DEF JoinsQueue
<1>10. ASSUME NEW t \in Team, Sits(r1, r2, t) PROVE Sits(r, r3, t)
  BY <1>3, <1>4, <1>6, <1>10 DEF Sits
<1>11. ASSUME NEW t \in Team, Waits(r1, r2, t) PROVE Waits(r, r3, t)
  BY <1>4, <1>6, <1>11 DEF Waits
<1>12. ASSUME NEW T \in SUBSET Team, Leaves(r1, r2, T) PROVE Leaves(r, r3, T)
  BY <1>1, <1>6, <1>12 DEF Leaves
<1> QED BY <1>7, <1>8, <1>9, <1>10, <1>11, <1>12 DEF Moves

\* A row that does not wait takes its team out of the queue.
LEMMA RowLeavesQueue ==
  ASSUME NEW r \in [Team -> Row], NEW t \in Team, NEW row \in Row, row.status # "WAITLIST"
  PROVE  LET r2 == [r EXCEPT ![t] = row] IN Seated(r, r2, t, row.slot) /\ Gone(r, r2, {t})
<1> DEFINE r2 == [r EXCEPT ![t] = row]
<1>1. r2[t] = row /\ \A u \in Team : u # t => r2[u] = r[u]
  OBVIOUS
<1> HIDE DEF r2
<1>2. Seated(r, r2, t, row.slot)
  <2>1. SeatsOf(r2) = [u \in Team |-> IF u = t THEN row.slot ELSE r[u].slot]
    BY <1>1 DEF SeatsOf
  <2> QED BY <2>1 DEF Seated, SeatsOf
<1>3. Waiting(r2) = Waiting(r) \ {t}
  BY <1>1 DEF Waiting
<1>4. \A u, v \in Waiting(r) \ {t} : r2[u] = r[u] /\ r2[v] = r[v]
  BY <1>1 DEF Waiting
<1>5. QueueOf(r2) = Without(r, {t})
  BY <1>3, <1>4 DEF QueueOf, Without
<1> QED BY <1>2, <1>3, <1>5 DEF Gone, r2

\* A row that waits behind all others takes its team to the end of the queue.
LEMMA RowGoesLast ==
  ASSUME NEW r \in [Team -> Row], NEW t \in Team, NEW row \in Row, row.status = "WAITLIST",
         \A u \in Waiting(r) \ {t} : r[u].wait < row.wait
  PROVE  LET r2 == [r EXCEPT ![t] = row] IN Seated(r, r2, t, row.slot) /\ Last(r, r2, t)
<1> DEFINE r2 == [r EXCEPT ![t] = row]
           others == Waiting(r) \ {t}
<1>1. r2[t] = row /\ \A u \in Team : u # t => r2[u] = r[u]
  OBVIOUS
<1> HIDE DEF r2
<1>2. Seated(r, r2, t, row.slot)
  <2>1. SeatsOf(r2) = [u \in Team |-> IF u = t THEN row.slot ELSE r[u].slot]
    BY <1>1 DEF SeatsOf
  <2> QED BY <2>1 DEF Seated, SeatsOf
<1>3. Waiting(r2) = Waiting(r) \cup {t}
  BY <1>1 DEF Waiting
<1>4. \A u, v \in others : r2[u].wait < r2[v].wait <=> r[u].wait < r[v].wait
  BY <1>1 DEF Waiting
<1>5. \A u \in others : r2[u].wait < r2[t].wait /\ ~(r2[t].wait < r2[u].wait)
  <2>1. \A u \in others : r2[u] = r[u] /\ r[u].wait \in Nat
    BY <1>1 DEF Waiting, Row
  <2> QED BY <1>1, <2>1 DEF Row
<1>6. ~(r2[t].wait < r2[t].wait)
  BY <1>1 DEF Row
<1>7. QueueOf(r2) = Without(r, {t}) \cup (others \X {t})
  <2>1. \A u, v \in Waiting(r2) : r2[u].wait < r2[v].wait <=>
           \/ u \in others /\ v \in others /\ r[u].wait < r[v].wait
           \/ u \in others /\ v = t
    BY <1>3, <1>4, <1>5, <1>6
  <2>2. \A x : x \in QueueOf(r2) <=>
           /\ x \in Waiting(r2) \X Waiting(r2)
           /\ \/ x[1] \in others /\ x[2] \in others /\ r[x[1]].wait < r[x[2]].wait
              \/ x[1] \in others /\ x[2] = t
    BY <2>1 DEF QueueOf
  <2>3. \A x : x \in Without(r, {t}) <=>
           x \in Waiting(r) \X Waiting(r) /\ r[x[1]].wait < r[x[2]].wait /\ x[1] # t /\ x[2] # t
    BY DEF Without, QueueOf
  <2>4. \A x : x \in Without(r, {t}) <=>
           x \in others \X others /\ r[x[1]].wait < r[x[2]].wait
    <3>1. \A x : x \in Waiting(r) \X Waiting(r) /\ x[1] # t /\ x[2] # t <=> x \in others \X others
      <4> DEFINE W == Waiting(r)
      <4> HIDE DEF W
      <4>1. others = W \ {t}
        BY DEF W
      <4> QED BY <4>1 DEF W
    <3> HIDE DEF others
    <3> QED BY <2>3, <3>1
  <2>5. \A x : x \in QueueOf(r2) <=>
           \/ x \in others \X others /\ r[x[1]].wait < r[x[2]].wait
           \/ x \in others \X {t}
    BY <1>3, <2>2
  <2> QED BY <2>4, <2>5
<1> QED BY <1>2, <1>3, <1>7 DEF Last, r2

\* A row that waits has no seat, and one that has a seat does not wait.
LEMMA SeatsOfRows ==
  ASSUME NEW r \in [Team -> Row], Proper(r)
  PROVE  /\ \A t \in Team : t \in Waiting(r) => r[t].slot = 0
         /\ \A t \in Team : Holds(r, t) => Active(r[t])
         /\ \A t \in Team : Taken(r, t) \subseteq {r[u].slot : u \in Team}
         /\ \A t, u \in Team : u # t /\ r[u].slot # 0 => r[u].slot \in Taken(r, t)
<1>1. \A t \in Team : t \in Waiting(r) => r[t].slot = 0
  BY DEF Proper, Waiting
<1>2. \A t \in Team : Holds(r, t) => Active(r[t])
  BY DEF Proper, Holds, Waiting, Active
<1>3. \A u \in Team : r[u].slot # 0 => u \in Actives(r)
  BY DEF Proper, Actives, Active
<1> QED BY <1>1, <1>2, <1>3 DEF Taken, Actives

\* The slots of the session that are not taken by others are free, or t's own.
LEMMA FreeSlots ==
  ASSUME TypeOK, NEW r \in [Team -> Row], Proper(r), NEW t \in Team,
         NEW s \in NormalRange \cup VipRange
  PROVE  /\ s # 0
         /\ s \notin Taken(r, t) => s \in FreeIn(r) \/ s = r[t].slot
         /\ s \in FreeIn(r) => s \notin Taken(r, t)
<1>1. s # 0
  <2>1. session.slotCount \in Nat
    BY DEF TypeOK
  <2> QED BY <2>1, Ranges
<1> QED BY <1>1, SeatsOfRows DEF FreeIn

\* Teams whose rows have no seat and do not wait any more have left.
LEMMA RowsLeave ==
  ASSUME NEW r \in [Team -> Row], NEW r2, NEW T \in SUBSET Team,
         \A u \in Team \ T : r2[u] = r[u],
         \A u \in T : r2[u].slot = 0 /\ r2[u].status # "WAITLIST"
  PROVE  Leaves(r, r2, T)
<1>1. SeatsOf(r2) = [t \in Team |-> IF t \in T THEN 0 ELSE SeatsOf(r)[t]]
  BY DEF SeatsOf
<1>2. Waiting(r2) = Waiting(r) \ T
  BY DEF Waiting
<1>3. \A u \in Waiting(r) \ T : r2[u] = r[u]
  BY DEF Waiting
<1>4. QueueOf(r2) = Without(r, T)
  BY <1>2, <1>3 DEF QueueOf, Without
<1> QED BY <1>1, <1>2, <1>4 DEF Leaves, Gone

\* Who does not wait leaves no gap in the queue.
LEMMA NotInQueue ==
  ASSUME NEW r, NEW r2, NEW t, t \notin Waiting(r), Gone(r, r2, {t})
  PROVE  Waiting(r2) = Waiting(r) /\ QueueOf(r2) = QueueOf(r)
<1>1. \A x \in QueueOf(r) : x[1] \in Waiting(r) /\ x[2] \in Waiting(r)
  BY DEF QueueOf
<1>2. Without(r, {t}) = QueueOf(r)
  BY <1>1 DEF Without
<1> QED BY <1>2 DEF Gone

\* A team that is seated anywhere the others have left free, or stays where it is.
LEMMA SeatedMoves ==
  ASSUME TypeOK, NEW r \in [Team -> Row], Proper(r), NEW r2, NEW t \in Team,
         NEW s \in (NormalRange \cup VipRange) \ Taken(r, t),
         Holds(r, t) \/ s \in VipRange,
         Seated(r, r2, t, s), Gone(r, r2, {t})
  PROVE  Moves(r, r2)
<1>1. CASE s \in FreeIn(r)
  BY <1>1 DEF Moves, Sits
<1>2. CASE s \notin FreeIn(r)
  <2>1. s = r[t].slot /\ s # 0
    BY <1>2, FreeSlots
  <2>2. Waiting(r2) = Waiting(r) /\ QueueOf(r2) = QueueOf(r)
    BY <2>1, SeatsOfRows, NotInQueue
  <2>3. SeatsOf(r2) = SeatsOf(r)
    BY <2>1 DEF Seated, SeatsOf
  <2> QED BY <2>2, <2>3 DEF Moves, Same
<1> QED BY <1>1, <1>2

\* The lowest slot of a range that the others have left free, for a newcomer.
LEMMA LowestIsLowest ==
  ASSUME TypeOK, NEW r \in [Team -> Row], Proper(r), NEW t \in Team, ~Active(r[t])
  PROVE  LET free == LowestAvailableSlot(r, t, NormalRange) IN
         /\ \A s \in free : /\ s \in NormalRange \cap FreeIn(r)
                            /\ \A s2 \in NormalRange \cap FreeIn(r) : s <= s2
         /\ free = {} => NormalRange \cap FreeIn(r) = {}
<1> DEFINE N == NormalRange \cap FreeIn(r)
           free == LowestAvailableSlot(r, t, NormalRange)
<1>1. NormalRange \subseteq Nat
  BY SlotAssumption DEF NormalRange
<1>2. r[t].slot = 0 /\ ~Holds(r, t)
  BY SeatsOfRows DEF Proper, Active
<1>3. \A s \in NormalRange : s \in N <=> s \notin Taken(r, t)
  BY <1>2, FreeSlots
<1> HIDE DEF N
<1>4. N \subseteq NormalRange
  BY DEF N
<1>5. \A s \in free : s \in NormalRange /\ s \in N /\ \A s2 \in NormalRange : s2 < s => s2 \notin N
  BY <1>3 DEF LowestAvailableSlot
<1>6. \A s \in free : \A s2 \in N : s <= s2
  <2> HIDE DEF free
  <2> SUFFICES ASSUME NEW s \in free, NEW s2 \in N PROVE s <= s2
    OBVIOUS
  <2>1. s \in Nat /\ s2 \in Nat /\ ~(s2 < s)
    BY <1>1, <1>4, <1>5
  <2> QED BY <2>1
<1>7. N # {} => free # {}
  <2> SUFFICES ASSUME N # {} PROVE free # {}
    OBVIOUS
  <2>1. PICK s \in N : \A s2 \in N : s <= s2
    BY <1>1, <1>4, LeastNumber
  <2>2. \A s2 \in NormalRange : s2 < s => s2 \in Taken(r, t)
    <3> SUFFICES ASSUME NEW s2 \in NormalRange, s2 < s PROVE s2 \notin N
      BY <1>3
    <3>1. s \in Nat /\ s2 \in Nat
      BY <1>1, <1>4
    <3> QED BY <2>1, <3>1
  <2>3. s \in free
    BY <1>3, <1>4, <2>1, <2>2 DEF LowestAvailableSlot
  <2> QED BY <2>3
<1> HIDE DEF free
<1>8. /\ \A s \in free : s \in N /\ \A s2 \in N : s <= s2
      /\ free = {} => N = {}
  BY <1>5, <1>6, <1>7
<1> QED BY <1>8 DEF free, N

\* The position after everyone else's.
LEMMA NextIsLast ==
  ASSUME NEW r \in [Team -> Row], NEW t, NEW n \in NextWaitlistPosition(r, t)
  PROVE  n \in Nat /\ \A u \in Waiting(r) \ {t} : r[u].wait < n
<1> DEFINE used == {0} \cup {r[u].wait : u \in Actives(r) \ {t}}
<1>1. PICK m \in used : n = m + 1 /\ \A k \in used : k <= m
  BY DEF NextWaitlistPosition
<1>2. used \subseteq Nat
  BY DEF Actives, Row
<1>3. \A u \in Waiting(r) \ {t} : r[u].wait \in used
  BY DEF Waiting, Actives, Active
<1> HIDE DEF used
<1>4. ASSUME NEW u \in Waiting(r) \ {t} PROVE r[u].wait < n
  <2>1. r[u].wait \in Nat /\ m \in Nat /\ r[u].wait <= m
    BY <1>1, <1>2, <1>3
  <2> QED BY <1>1, <2>1
<1> QED BY <1>1, <1>2, <1>4

-----------------------------------------------------------------------------
(* What the requests of SessionsService make of the book.                  *)

\* What a usable row says of its team's place.
LEMMA ActiveHolds ==
  ASSUME TypeOK, Usable(reg), Proper(reg), NEW t \in Team
  PROVE  LET r == Repacked(reg) IN
         /\ r \in [Team -> Row] /\ Proper(r)
         /\ Active(r[t]) <=> Active(reg[t])
         /\ Active(reg[t]) => Holds(r, t)
<1> DEFINE r == Repacked(reg)
<1>1. /\ r \in [Team -> Row]
      /\ \A u \in Team : r[u].status = reg[u].status /\ r[u].slot = reg[u].slot
  BY RepackedRows DEF TypeOK
<1> HIDE DEF r
<1>2. Proper(r) /\ (Active(r[t]) <=> Active(reg[t]))
  BY <1>1 DEF Proper, Active
<1>3. ASSUME Active(reg[t]) PROVE Holds(r, t)
  <2>1. t \in Actives(reg) /\ reg[t] \in Row
    BY <1>3 DEF Actives, TypeOK
  <2>2. reg[t].status \in {"CONFIRMED", "WAITLIST"}
    BY <1>3, <2>1 DEF Usable, Active, Row
  <2>3. reg[t].status = "CONFIRMED" => reg[t].slot # 0
    BY <2>1 DEF Usable
  <2> QED BY <1>1, <2>2, <2>3 DEF Holds, Waiting
<1> QED BY <1>1, <1>2, <1>3 DEF r

\* A slot that is given is a row of the type.
LEMMA SlotRow ==
  ASSUME TypeOK, NEW s \in NormalRange \cup VipRange, NEW i \in BOOLEAN
  PROVE  /\ Confirmed(s, i) \in Row /\ Confirmed(s, i).slot = s
         /\ Confirmed(s, i).status # "WAITLIST"
<1>1. session.slotCount \in 1 .. MaxSlots
  BY DEF TypeOK
<1>2. s \in 0 .. MaxSlots
  BY <1>1, Ranges, SlotAssumption
<1> QED BY <1>2, RowConstructors DEF Confirmed

\* A place in the waitlist is a row of the type.
LEMMA WaitRow ==
  ASSUME NEW n \in Nat, NEW i \in BOOLEAN
  PROVE  /\ Waitlisted(n, i) \in Row /\ Waitlisted(n, i).slot = 0
         /\ Waitlisted(n, i).status = "WAITLIST" /\ Waitlisted(n, i).wait = n
BY RowConstructors DEF Waitlisted

\* A registration joins the seats or the queue, or a VIP is seated.
LEMMA RegisterMoves ==
  ASSUME TypeOK, Proper(reg), NEW p \in Request, NEW t \in Team, NEW vip \in BOOLEAN,
         RegisterTeam(p, t, vip)
  PROVE  \E new \in [Team -> Row] : Begin(p, new) /\ Moves(Repacked(reg), new)
<1> DEFINE r == Repacked(reg)
           range == IF vip THEN VipRange ELSE NormalRange
           free == LowestAvailableSlot(r, t, range)
<1>1. Usable(reg) /\ (vip \/ ~Active(reg[t]))
  BY DEF RegisterTeam, Ready
<1>2. r \in [Team -> Row] /\ Proper(r) /\ (Active(r[t]) <=> Active(reg[t]))
  BY <1>1, ActiveHolds
<1>3. ASSUME NEW s \in free, Begin(p, [r EXCEPT ![t] = Confirmed(s, FALSE)])
      PROVE  \E new \in [Team -> Row] : Begin(p, new) /\ Moves(r, new)
  <2> DEFINE new == [r EXCEPT ![t] = Confirmed(s, FALSE)]
  <2>1. s \in range /\ s \notin Taken(r, t)
    BY <1>3 DEF LowestAvailableSlot
  <2>2. s \in NormalRange \cup VipRange
    BY <2>1
  <2> HIDE DEF r, free, range
  <2>3. new \in [Team -> Row] /\ Seated(r, new, t, s) /\ Gone(r, new, {t})
    <3>1. Confirmed(s, FALSE) \in Row /\ Confirmed(s, FALSE).slot = s
          /\ Confirmed(s, FALSE).status # "WAITLIST"
      BY <2>2, SlotRow
    <3>2. new \in [Team -> Row]
      BY <1>2, <3>1
    <3> QED BY <1>2, <3>1, <3>2, RowLeavesQueue
  <2>4. Begin(p, new)
    BY <1>3
  <2> HIDE DEF new
  <2>5. CASE vip
    <3>1. s \in VipRange
      BY <2>1, <2>5 DEF range
    <3>2. Moves(r, new)
      BY <1>2, <2>1, <2>2, <2>3, <3>1, SeatedMoves
    <3> QED BY <2>3, <2>4, <3>2
  <2>6. CASE ~vip
    <3>1. ~Active(r[t]) /\ ~Holds(r, t) /\ t \notin Waiting(r)
      BY <1>1, <1>2, <2>6, SeatsOfRows DEF Holds
    <3>2. free = LowestAvailableSlot(r, t, NormalRange)
      BY <2>6 DEF free, range
    <3>3. s \in NormalRange \cap FreeIn(r) /\ \A s2 \in NormalRange \cap FreeIn(r) : s <= s2
      BY <1>2, <1>3, <3>1, <3>2, LowestIsLowest
    <3>4. Waiting(new) = Waiting(r) /\ QueueOf(new) = QueueOf(r)
      BY <2>3, <3>1, NotInQueue
    <3>5. JoinsSeat(r, new, t)
      BY <2>3, <3>1, <3>3, <3>4 DEF JoinsSeat
    <3> QED BY <2>3, <2>4, <3>5 DEF Moves
  <2> QED BY <2>5, <2>6
<1>4. ASSUME free = {}, ~vip, NEW n \in NextWaitlistPosition(r, t),
             Begin(p, [r EXCEPT ![t] = Waitlisted(n, FALSE)])
      PROVE  \E new \in [Team -> Row] : Begin(p, new) /\ Moves(r, new)
  <2> DEFINE new == [r EXCEPT ![t] = Waitlisted(n, FALSE)]
  <2>1. Begin(p, new) /\ LowestAvailableSlot(r, t, NormalRange) = {}
    BY <1>4
  <2> HIDE DEF r, free, range
  <2>2. n \in Nat /\ \A u \in Waiting(r) \ {t} : r[u].wait < n
    BY <1>2, <1>4, NextIsLast
  <2>3. Waitlisted(n, FALSE) \in Row /\ Waitlisted(n, FALSE).slot = 0
        /\ Waitlisted(n, FALSE).status = "WAITLIST" /\ Waitlisted(n, FALSE).wait = n
    BY <2>2, WaitRow
  <2>4. new \in [Team -> Row]
    BY <1>2, <2>3
  <2>5. Seated(r, new, t, 0) /\ Last(r, new, t)
    BY <1>2, <2>2, <2>3, RowGoesLast
  <2> HIDE DEF new
  <2>6. ~Active(r[t]) /\ ~Holds(r, t)
    BY <1>1, <1>2, <1>4, SeatsOfRows
  <2>7. NormalRange \cap FreeIn(r) = {}
    BY <1>2, <2>1, <2>6, LowestIsLowest
  <2>8. SeatsOf(new) = SeatsOf(r)
    BY <2>5, <2>6 DEF Seated, SeatsOf, Holds
  <2>9. JoinsQueue(r, new, t)
    BY <2>5, <2>6, <2>7, <2>8 DEF JoinsQueue
  <2> QED BY <2>1, <2>4, <2>9 DEF Moves
<1>5. \/ \E s \in free : Begin(p, [r EXCEPT ![t] = Confirmed(s, FALSE)])
      \/ /\ free = {} /\ ~vip
         /\ \E n \in NextWaitlistPosition(r, t) : Begin(p, [r EXCEPT ![t] = Waitlisted(n, FALSE)])
  BY Zenon DEF RegisterTeam
<1> QED BY <1>3, <1>4, <1>5
\* A placement seats a team, or leaves it where it is.
LEMMA PlaceInSlotMoves ==
  ASSUME TypeOK, Proper(reg), NEW p \in Request, NEW t \in Team, PlaceInSlot(p, t)
  PROVE  \E new \in [Team -> Row] : Begin(p, new) /\ Moves(Repacked(reg), new)
<1> DEFINE r == Repacked(reg)
<1>1. PICK s \in (NormalRange \cup VipRange) \ Taken(r, t) :
             Begin(p, [r EXCEPT ![t] = Confirmed(s, reg[t].imported)])
  BY Zenon DEF PlaceInSlot
<1>2. Usable(reg) /\ Active(reg[t]) /\ reg[t].imported \in BOOLEAN
  BY DEF PlaceInSlot, Ready, TypeOK, Row
<1>3. r \in [Team -> Row] /\ Proper(r) /\ Holds(r, t)
  BY <1>2, ActiveHolds
<1> DEFINE row == Confirmed(s, reg[t].imported)
           new == [r EXCEPT ![t] = row]
<1>4. row \in Row /\ row.slot = s /\ row.status # "WAITLIST"
  BY <1>1, <1>2, SlotRow
<1>5. Begin(p, new)
  BY <1>1
<1> HIDE DEF r, row
<1>6. new \in [Team -> Row] /\ Seated(r, new, t, s) /\ Gone(r, new, {t})
  BY <1>3, <1>4, RowLeavesQueue
<1> HIDE DEF new
<1>7. Moves(r, new)
  BY <1>1, <1>3, <1>6, SeatedMoves
<1> QED BY <1>5, <1>6, <1>7 DEF r

\* A team is sent to the end of the queue.
LEMMA PlaceOnWaitlistMoves ==
  ASSUME TypeOK, Proper(reg), NEW p \in Request, NEW t \in Team, PlaceOnWaitlist(p, t)
  PROVE  \E new \in [Team -> Row] : Begin(p, new) /\ Moves(Repacked(reg), new)
<1> DEFINE r == Repacked(reg)
<1>1. PICK n \in NextWaitlistPosition(r, t) :
             Begin(p, [r EXCEPT ![t] = Waitlisted(n, reg[t].imported)])
  BY Zenon DEF PlaceOnWaitlist
<1>2. Usable(reg) /\ Active(reg[t]) /\ reg[t].imported \in BOOLEAN
  BY DEF PlaceOnWaitlist, Ready, TypeOK, Row
<1>3. r \in [Team -> Row] /\ Holds(r, t)
  BY <1>2, ActiveHolds
<1> DEFINE row == Waitlisted(n, reg[t].imported)
           new == [r EXCEPT ![t] = row]
<1>4. n \in Nat /\ \A u \in Waiting(r) \ {t} : r[u].wait < n
  BY <1>1, <1>3, NextIsLast
<1>5. row \in Row /\ row.slot = 0 /\ row.status = "WAITLIST" /\ row.wait = n
  BY <1>2, <1>4, WaitRow
<1>6. Begin(p, new)
  BY <1>1
<1> HIDE DEF r, row
<1>7. new \in [Team -> Row] /\ Seated(r, new, t, 0) /\ Last(r, new, t)
  BY <1>3, <1>4, <1>5, RowGoesLast
<1> HIDE DEF new
<1>8. Moves(r, new)
  BY <1>3, <1>7 DEF Moves, Waits
<1> QED BY <1>6, <1>7, <1>8 DEF r

\* One team leaves, or everyone who has a seat.
LEMMA RemovalMoves ==
  ASSUME TypeOK, Proper(reg), NEW p \in Request,
         \/ \E t \in Team : RemoveRegistration(p, t)
         \/ RemoveSlotRegistrations(p)
  PROVE  \E new \in [Team -> Row] : Begin(p, new) /\ Moves(Repacked(reg), new)
<1> DEFINE r == Repacked(reg)
<1>1. r \in [Team -> Row]
  BY RepackedRows DEF TypeOK
<1>2. Deleted \in Row /\ Deleted.slot = 0 /\ Deleted.status # "WAITLIST"
  BY RowConstructors DEF Deleted, NoRow
<1>3. PICK T \in SUBSET Team : Begin(p, [t \in Team |-> IF t \in T THEN Deleted ELSE r[t]])
  <2>1. CASE RemoveSlotRegistrations(p)
    <3> DEFINE T == {t \in Team : Active(reg[t]) /\ reg[t].slot # 0}
    <3>1. Begin(p, [t \in Team |-> IF Active(reg[t]) /\ reg[t].slot # 0 THEN Deleted ELSE r[t]])
      BY <2>1, Zenon DEF RemoveSlotRegistrations
    <3>2. [t \in Team |-> IF Active(reg[t]) /\ reg[t].slot # 0 THEN Deleted ELSE r[t]]
            = [t \in Team |-> IF t \in T THEN Deleted ELSE r[t]]
      OBVIOUS
    <3>3. T \in SUBSET Team
      OBVIOUS
    <3> HIDE DEF T, r
    <3> QED BY <3>1, <3>2, <3>3
  <2>2. ASSUME NEW u \in Team, RemoveRegistration(p, u)
        PROVE  Begin(p, [t \in Team |-> IF t \in {u} THEN Deleted ELSE r[t]])
    <3>1. Begin(p, [r EXCEPT ![u] = Deleted])
      BY <2>2, Zenon DEF RemoveRegistration
    <3>2. [r EXCEPT ![u] = Deleted] = [t \in Team |-> IF t \in {u} THEN Deleted ELSE r[t]]
      <4> HIDE DEF r
      <4> QED BY <1>1
    <3> HIDE DEF r
    <3> QED BY <3>1, <3>2
  <2> QED BY <2>1, <2>2
<1> DEFINE new == [t \in Team |-> IF t \in T THEN Deleted ELSE r[t]]
<1> HIDE DEF r
<1>4. new \in [Team -> Row]
  BY <1>1, <1>2
<1>5. Leaves(r, new, T)
  BY <1>1, <1>2, RowsLeave
<1> HIDE DEF new
<1>6. Moves(r, new)
  BY <1>5 DEF Moves
<1> QED BY <1>3, <1>4, <1>6 DEF r, new

\* Every request that begins a transaction sets out to move the book.
LEMMA RequestsMove ==
  ASSUME TypeOK, Proper(reg), NEW p \in Request, Requests(p)
  PROVE  Moves(reg, Apply(reg, tx'[p]))
<1>1. PICK new \in [Team -> Row] : Begin(p, new) /\ Moves(Repacked(reg), new)
  BY RegisterMoves, PlaceInSlotMoves, PlaceOnWaitlistMoves, RemovalMoves DEF Requests
<1>2. Apply(reg, tx'[p]) = Repacked(new)
  BY <1>1, BeginLeaves
<1>3. Same(reg, Repacked(reg)) /\ Same(new, Repacked(new))
  BY RepackedIsSame DEF TypeOK
<1> QED BY <1>1, <1>2, <1>3, SameMoves
-----------------------------------------------------------------------------
(* What bans make of the book.                                             *)

\* The plan a ban makes keeps the order of the queue.
LEMMA PlanIsMade ==
  ASSUME TypeOK, Usable(reg), BanRead, ban'.pc = "write"
  PROVE  PlanKeepsOrder'
<1>1. PICK f \in Orderings(Waiting(reg)) :
             ban' = LET todo == {<<f[t], t>> : t \in {u \in Waiting(reg) : f[u] # reg[u].wait}}
                    IN  IF todo = {} THEN NoBan ELSE [ban EXCEPT !.pc = "write", !.todo = todo]
  BY Zenon DEF BanRead
<1> DEFINE wait == [t \in Team |-> reg[t].wait]
           W == Waiting(reg)
           plan == ban'.todo
<1>2. \A t \in W : wait[t] = reg[t].wait /\ wait[t] \in Nat
  BY DEF Waiting, TypeOK, Row
<1>3. plan = {<<f[t], t>> : t \in {u \in W : f[u] # reg[u].wait}}
  BY <1>1 DEF NoBan, TypeOK
<1>4. reg' = reg
  BY DEF BanRead
<1>5. /\ \A t \in W : f[t] \in Nat \ {0} /\ f[t] <= wait[t]
      /\ \A a, b \in W : a # b /\ wait[a] < wait[b] => f[a] < f[b]
  BY <1>2, OrderingsMoveForward DEF Orderings
<1> HIDE DEF plan
<1>6. \A x : x \in plan <=> \E t \in W : f[t] # wait[t] /\ x = <<f[t], t>>
  BY <1>2, <1>3
<1> HIDE DEF wait, W
<1>7. \A x \in plan : x[2] \in W /\ x[1] = f[x[2]] /\ x[1] < wait[x[2]]
  <2> SUFFICES ASSUME NEW t \in W, f[t] # wait[t] PROVE f[t] < wait[t]
    BY <1>6
  <2> QED BY <1>2, <1>5
<1>8. ASSUME NEW x \in plan, NEW u \in W, wait[u] < wait[x[2]]
      PROVE  wait[u] < x[1] \/ \E y \in plan : y[2] = u /\ y[1] < x[1]
  <2>1. f[u] < x[1]
    BY <1>2, <1>5, <1>7, <1>8
  <2>2. CASE f[u] = wait[u]
    BY <2>1, <2>2
  <2>3. CASE f[u] # wait[u]
    <3>1. <<f[u], u>> \in plan
      BY <1>6, <2>3
    <3> QED BY <2>1, <3>1
  <2> QED BY <2>2, <2>3
<1>9. \A x \in plan : reg[x[2]].wait = wait[x[2]]
  BY <1>2, <1>7
<1>10. \A u \in W : reg[u].wait = wait[u]
  BY <1>2
<1>11. \A x \in plan : x[1] < reg[x[2]].wait
  BY <1>7, <1>9
<1>12. \A x \in plan : \A u \in W : reg[u].wait < reg[x[2]].wait
         => reg[u].wait < x[1] \/ \E y \in plan : y[2] = u /\ y[1] < x[1]
  BY <1>8, <1>9, <1>10
<1> QED BY <1>4, <1>11, <1>12 DEF PlanKeepsOrder, plan, W

\* A position a ban writes leaves the book as it is, and the rest of its plan good.
LEMMA PlanIsWritten ==
  ASSUME TypeOK, Usable(reg), PlanIsSafe, PlanKeepsOrder, BanWrite
  PROVE  /\ Same(reg, reg')
         /\ ban'.pc = "write" => PlanKeepsOrder'
<1>1. PICK x \in ban.todo :
             /\ \A y \in ban.todo : x[1] <= y[1]
             /\ reg' = IF Active(reg[x[2]]) THEN [reg EXCEPT ![x[2]].wait = x[1]] ELSE reg
             /\ ban' = IF ban.todo = {x} THEN NoBan ELSE [ban EXCEPT !.todo = @ \ {x}]
  BY DEF BanWrite
<1> DEFINE t == x[2]
           n == x[1]
           W == Waiting(reg)
<1>2. n \in Nat \ {0} /\ t \in W /\ t \in Team /\ reg[t].status = "WAITLIST"
  BY DEF PlanIsSafe, Waiting
<1>3. reg' = [reg EXCEPT ![t].wait = n]
  BY <1>1, <1>2 DEF Active
<1>4. /\ \A u \in Team : reg'[u].status = reg[u].status /\ reg'[u].slot = reg[u].slot
      /\ \A u \in Team \ {t} : reg'[u] = reg[u]
      /\ reg'[t].wait = n
  <2> HIDE DEF t, n
  <2> QED BY <1>2, <1>3 DEF TypeOK, Row
<1>5. Waiting(reg') = W /\ SeatsOf(reg') = SeatsOf(reg)
  BY <1>4 DEF Waiting, SeatsOf
<1>6. /\ \A u \in W : reg[u].wait \in Nat
      /\ \A u \in W \ {t} : reg[u].wait # reg[t].wait
  <2>1. \A u \in W : u \in Actives(reg) /\ reg[u].wait \in Nat /\ reg[u].wait # 0
    BY DEF Waiting, Actives, Active, TypeOK, Row, Usable
  <2>2. \A u, v \in Actives(reg) : u # v /\ reg[u].wait # 0 => reg[v].wait # reg[u].wait
    BY DEF Usable
  <2> HIDE DEF W, t
  <2> QED BY <1>2, <2>1, <2>2
<1>7. n < reg[t].wait /\ \A y \in ban.todo : y[1] \in Nat /\ n <= y[1]
  BY <1>1 DEF PlanKeepsOrder, PlanIsSafe
<1>8. ASSUME NEW u \in W \ {t}
      PROVE  /\ reg[u].wait < reg[t].wait <=> reg[u].wait < n
             /\ reg[t].wait < reg[u].wait <=> n < reg[u].wait
  <2>1. reg[u].wait < reg[t].wait =>
          reg[u].wait < n \/ \E y \in ban.todo : y[2] = u /\ y[1] < n
    BY <1>1 DEF PlanKeepsOrder
  <2>2. reg[u].wait < reg[t].wait => reg[u].wait < n
    <3> HIDE DEF n, t, W
    <3> QED BY <1>2, <1>7, <2>1
  <2> HIDE DEF n, t, W
  <2> QED BY <1>2, <1>6, <1>7, <2>2
<1> HIDE DEF t, n, W
<1>9. \A u, v \in W : reg'[u].wait < reg'[v].wait <=> reg[u].wait < reg[v].wait
  <2> SUFFICES ASSUME NEW u \in W, NEW v \in W
               PROVE  reg'[u].wait < reg'[v].wait <=> reg[u].wait < reg[v].wait
    OBVIOUS
  <2>1. \A w \in W \ {t} : reg'[w].wait = reg[w].wait
    BY <1>4 DEF W, Waiting
  <2>2. CASE u # t /\ v # t
    BY <2>1, <2>2
  <2>3. CASE u = t /\ v # t
    BY <1>4, <1>8, <2>1, <2>3
  <2>4. CASE u # t /\ v = t
    BY <1>4, <1>8, <2>1, <2>4
  <2>5. CASE u = t /\ v = t
    BY <1>2, <1>4, <1>6, <2>5
  <2> QED BY <2>2, <2>3, <2>4, <2>5
<1>10. QueueOf(reg') = QueueOf(reg)
  BY <1>5, <1>9 DEF QueueOf, W
<1>11. ASSUME ban'.pc = "write" PROVE PlanKeepsOrder'
  <2>1. ban'.todo = ban.todo \ {x}
    BY <1>1, <1>11 DEF NoBan, TypeOK
  <2>2. \A y \in ban'.todo : /\ y \in ban.todo /\ y[2] \in W /\ y[2] # t /\ n < y[1]
                             /\ reg'[y[2]].wait = reg[y[2]].wait
    <3> SUFFICES ASSUME NEW y \in ban.todo, y # x
                 PROVE  y[2] \in W /\ y[2] # t /\ n < y[1] /\ reg'[y[2]].wait = reg[y[2]].wait
      BY <2>1
    <3>1. y[2] \in W /\ y[2] # t /\ y[1] # n
      BY DEF PlanIsSafe, W, t, n
    <3>2. n < y[1]
      BY <1>2, <1>7, <3>1
    <3>3. y[2] \in Team \ {t}
      BY <3>1 DEF W, Waiting
    <3> QED BY <1>4, <3>1, <3>2, <3>3
  <2>3. \A y \in ban'.todo : y[1] < reg'[y[2]].wait
    BY <2>2 DEF PlanKeepsOrder
  <2>4. ASSUME NEW y \in ban'.todo, NEW u \in W, reg'[u].wait < reg'[y[2]].wait
        PROVE  reg'[u].wait < y[1] \/ \E z \in ban'.todo : z[2] = u /\ z[1] < y[1]
    <3>1. CASE u = t
      BY <1>4, <2>2, <3>1
    <3>2. CASE u # t
      <4>1. reg'[u].wait = reg[u].wait
        BY <1>4, <3>2 DEF W, Waiting
      <4>2. reg[u].wait < y[1] \/ \E z \in ban.todo : z[2] = u /\ z[1] < y[1]
        BY <2>2, <2>4, <4>1 DEF PlanKeepsOrder, W
      <4>3. \A z \in ban.todo : z[2] = u => z \in ban'.todo
        BY <2>1, <3>2 DEF t
      <4> QED BY <4>1, <4>2, <4>3
    <3> QED BY <3>1, <3>2
  <2>5. \A y \in ban'.todo : \A u \in Waiting(reg') : reg'[u].wait < reg'[y[2]].wait
          => reg'[u].wait < y[1] \/ \E z \in ban'.todo : z[2] = u /\ z[1] < y[1]
    BY <1>5, <2>4
  <2> QED BY <2>3, <2>5 DEF PlanKeepsOrder
<1> QED BY <1>5, <1>10, <1>11 DEF Same, W
\* The rows a ban removes leave the book.
LEMMA RemovedLeave ==
  ASSUME TypeOK, Proper(reg), BanRemove
  PROVE  Moves(reg, reg')
<1>1. reg' = [t \in Team |-> IF t \in ban.who /\ Active(reg[t]) THEN Deleted ELSE reg[t]]
  BY DEF BanRemove
<1>2. ban.who \in SUBSET Team /\ reg \in [Team -> Row]
  BY DEF TypeOK
<1>3. \A u \in Team \ ban.who : reg'[u] = reg[u]
  BY <1>1
<1>4. \A u \in ban.who : reg'[u].slot = 0 /\ reg'[u].status # "WAITLIST"
  <2>1. \A u \in Team : ~Active(reg[u]) => reg[u].slot = 0 /\ reg[u].status # "WAITLIST"
    BY DEF Proper, Active
  <2> QED BY <1>1, <1>2, <2>1 DEF Deleted, NoRow
<1>5. Leaves(reg, reg', ban.who)
  BY <1>2, <1>3, <1>4, RowsLeave
<1> QED BY <1>2, <1>5 DEF Moves

-----------------------------------------------------------------------------
(* The book is kept.                                                       *)

\* Where no row changes, nothing moves.
LEMMA SameBook == \A r : Same(r, r) /\ Moves(r, r)
BY DEF Same, Moves

\* Transactions that are gone move nothing.
LEMMA NothingMoves ==
  ASSUME NEW r \in [Team -> Row], NEW w, w = Nothing
  PROVE  Moves(r, Apply(r, w))
BY NothingApplied, SameBook

\* Only an update and an import write the Session row.
LEMMA SessionStays == [Next]_vars /\ ~UpdateSession /\ ~ImportStep => session' = session
BY DEF Next, Mutation, RegisterTeam, PlaceInSlot, PlaceOnWaitlist, RemoveRegistration,
       RemoveSlotRegistrations, Begin, Commit, RollBack, BanStep, BanCreate, BanRevoke,
       BanRemove, BanRead, BanWrite, BanCrash, vars

\* While the Session row stays, so do the seats on offer.
LEMMA RangesStay ==
  ASSUME session' = session
  PROVE  NormalRange' = NormalRange /\ VipRange' = VipRange
BY DEF NormalRange, VipRange, NormalEnd

\* While the Session row stays, a move is a move in the next state too.
LEMMA MovesLater ==
  ASSUME session' = session, NEW p \in Request, Moves(reg', Apply(reg', tx'[p]))
  PROVE  Moves(reg, Apply(reg, tx[p]))'
<1> DEFINE r2 == Apply(reg', tx'[p])
<1>1. NormalRange' = NormalRange /\ VipRange' = VipRange
  BY RangesStay
<1>2. FreeIn(reg)' = FreeIn(reg')
  BY <1>1 DEF FreeIn
<1>3. \A t \in Team : /\ JoinsSeat(reg', r2, t) => JoinsSeat(reg, Apply(reg, tx[p]), t)'
                      /\ JoinsQueue(reg', r2, t) => JoinsQueue(reg, Apply(reg, tx[p]), t)'
                      /\ Sits(reg', r2, t) => Sits(reg, Apply(reg, tx[p]), t)'
  BY <1>1, <1>2 DEF JoinsSeat, JoinsQueue, Sits
<1> QED BY <1>3 DEF Moves

\* Every step keeps what the transactions and the ban under way set out to do.
LEMMA BookStep == TypeOK /\ UsableInv /\ BookInv /\ [Next]_vars => BookInv'
<1> SUFFICES ASSUME TypeOK, UsableInv, BookInv, [Next]_vars, mode \in {"own", "bans"}
             PROVE  BookInv'
  <2>1. ASSUME [Next]_vars, mode \notin {"own", "bans"} PROVE BookInv'
    BY <2>1, ModeStays DEF BookInv
  <2> QED BY <2>1
<1> DEFINE Kept == /\ \A p \in Request : Moves(reg', Apply(reg', tx'[p]))
                   /\ ban'.pc = "write" => PlanKeepsOrder'
<1>1. /\ Proper(reg) /\ Usable(reg) /\ ~imp.on
      /\ ban.pc # "idle" => \A p \in Request : tx[p] = Nothing
      /\ ban.pc = "write" => PlanIsSafe
      /\ mode = "own" => ban.pc = "idle"
  BY UsableIsConsistent DEF UsableInv, Idle
<1>2. /\ \A p \in Request : Moves(reg, Apply(reg, tx[p]))
      /\ ban.pc = "write" => PlanKeepsOrder
  BY DEF BookInv
<1>3. reg \in [Team -> Row] /\ reg' \in [Team -> Row]
  BY TypeStep DEF TypeOK
<1>4. ASSUME reg' = reg, ban' = ban PROVE ban'.pc = "write" => PlanKeepsOrder'
  BY <1>2, <1>4 DEF PlanKeepsOrder
<1>5. ASSUME NEW p \in Request, Requests(p) PROVE Kept
  <2>1. PICK new \in [Team -> Row] : Begin(p, new)
    BY <1>5, RequestsBegin
  <2>2. \A q \in Request \ {p} : tx'[q] = tx[q]
    BY <2>1, BeginLeaves
  <2>3. UNCHANGED <<reg, ban>>
    BY <2>1 DEF Begin
  <2>4. Moves(reg, Apply(reg, tx'[p]))
    BY <1>1, <1>5, RequestsMove
  <2>5. \A q \in Request : Moves(reg, Apply(reg, tx'[q]))
    BY <1>2, <2>2, <2>4
  <2> QED BY <1>4, <2>3, <2>5
<1>6. ASSUME NEW p \in Request, Commit(p) PROVE Kept
  <2>1. \A q \in Request : tx'[q] = Nothing
    BY <1>6 DEF Commit, DropAll
  <2>2. ban' = ban /\ tx[p] # Nothing
    BY <1>6 DEF Commit, Idle
  <2>3. ban'.pc # "write"
    BY <1>1, <2>2
  <2> QED BY <1>3, <2>1, <2>3, NothingMoves
<1>7. ASSUME NEW p \in Request, RollBack(p) PROVE Kept
  <2>1. /\ UNCHANGED <<reg, ban>> /\ tx'[p] = Nothing
        /\ \A q \in Request \ {p} : tx'[q] = tx[q]
    BY <1>7 DEF RollBack, TypeOK
  <2>2. Moves(reg, Apply(reg, tx'[p]))
    BY <1>3, <2>1, NothingMoves
  <2> QED BY <1>2, <1>4, <2>1, <2>2
<1>8. ASSUME UpdateSession PROVE Kept
  <2>1. UNCHANGED <<reg, ban>> /\ \A q \in Request : tx'[q] = Nothing
    BY <1>8 DEF UpdateSession, DropAll
  <2> QED BY <1>3, <1>4, <2>1, NothingMoves
<1>9. ASSUME BanStep PROVE Kept
  <2>1. CASE \E t \in Team : BanCreate(t)
    <3>1. UNCHANGED <<reg, tx>> /\ ban'.pc = "remove"
      BY <2>1 DEF BanCreate
    <3> QED BY <1>2, <3>1
  <2>2. CASE \E t \in Team : BanRevoke(t)
    <3>1. UNCHANGED <<reg, tx, ban>>
      BY <2>2 DEF BanRevoke
    <3> QED BY <1>2, <1>4, <3>1
  <2>3. CASE BanRemove
    <3>1. ban.pc # "idle" /\ ban'.pc # "write" /\ (\E T : DropWritersOf(T))
      BY <2>3 DEF BanRemove, NoBan
    <3>2. \A q \in Request : tx'[q] = Nothing
      BY <1>1, <3>1 DEF DropWritersOf
    <3> QED BY <1>3, <3>1, <3>2, NothingMoves
  <2>4. CASE BanRead
    <3>1. UNCHANGED <<reg, tx>>
      BY <2>4 DEF BanRead
    <3> QED BY <1>1, <1>2, <2>4, <3>1, PlanIsMade
  <2>5. CASE BanWrite
    <3>1. ban.pc = "write" /\ (\E T : DropWritersOf(T))
      BY <2>5 DEF BanWrite
    <3>2. \A q \in Request : tx'[q] = Nothing
      BY <1>1, <3>1 DEF DropWritersOf
    <3>3. ban'.pc = "write" => PlanKeepsOrder'
      BY <1>1, <1>2, <2>5, <3>1, PlanIsWritten
    <3> QED BY <1>3, <3>2, <3>3, NothingMoves
  <2>6. CASE BanCrash
    <3>1. UNCHANGED <<reg, tx>> /\ ban'.pc = "idle"
      BY <2>6 DEF BanCrash, NoBan
    <3> QED BY <1>2, <3>1
  <2> QED BY <1>9, <2>1, <2>2, <2>3, <2>4, <2>5, <2>6 DEF BanStep
<1>10. ~ImportStep
  BY <1>1 DEF ImportStep, ImportBegin, ImportRow, ImportCommit, ImportFail
<1>11. ASSUME UNCHANGED vars PROVE Kept
  <2>1. UNCHANGED <<reg, tx, ban>>
    BY <1>11 DEF vars
  <2> QED BY <1>2, <1>4, <2>1
<1>12. Kept
  <2> HIDE DEF Kept
  <2>1. ASSUME NEW p \in Request, Mutation(p) PROVE Kept
    BY <1>5, <1>6, <1>7, <2>1 DEF Mutation, Requests
  <2>2. CASE Next
    BY <1>8, <1>9, <1>10, <2>1, <2>2 DEF Next
  <2> QED BY <1>11, <2>2
<1>13. ASSUME NEW p \in Request PROVE Moves(reg, Apply(reg, tx[p]))'
  <2>1. CASE UpdateSession
    <3>1. Apply(reg', tx'[p]) = reg'
      BY <1>3, <2>1, NothingApplied DEF UpdateSession, DropAll
    <3>2. Same(reg, Apply(reg, tx[p]))'
      BY <3>1 DEF Same
    <3> QED BY <3>2 DEF Moves
  <2>2. CASE session' = session
    BY <1>12, <2>2, MovesLater
  <2> QED BY <1>10, <2>1, <2>2, SessionStays
<1> QED BY <1>12, <1>13 DEF BookInv
\* A move of the rows is a step of the book.
LEMMA MovesAreSteps ==
  ASSUME TypeOK, session' = session, Moves(reg, reg')
  PROVE  Book!Next \/ UNCHANGED Book!vars
<1>1. NormalRange' = NormalRange /\ VipRange' = VipRange
  BY RangesStay
<1>2. /\ SeatsOf(reg)' = SeatsOf(reg') /\ Waiting(reg)' = Waiting(reg')
      /\ QueueOf(reg)' = QueueOf(reg')
  OBVIOUS
<1>3. Book!Kept
  BY <1>1 DEF Book!Kept
<1>4. \A t \in Team : SeatsOf(reg)[t] = reg[t].slot
  BY DEF SeatsOf
<1>5. FreeIn(reg) = Book!Free
  <2>1. {SeatsOf(reg)[t] : t \in Team} = {reg[u].slot : u \in Team}
    BY <1>4
  <2> QED BY <2>1 DEF FreeIn, Book!Free
<1>6. \A t \in Team : Holds(reg, t) <=> Book!Present(t)
  BY <1>4 DEF Holds, Book!Present
<1>7. /\ \A T : Gone(reg, reg', T) => Book!Dequeue(T)
      /\ \A t : Last(reg, reg', t) => Book!ToTheEnd(t)
  BY <1>2 DEF Gone, Last, Without, Book!Dequeue, Book!ToTheEnd, Book!Others
<1>8. CASE Same(reg, reg')
  BY <1>1, <1>2, <1>8 DEF Same, Book!vars
<1>9. ASSUME NEW t \in Team, JoinsSeat(reg, reg', t) PROVE Book!Join(t)
  <2>1. PICK s \in NormalRange \cap FreeIn(reg) :
           (\A s2 \in NormalRange \cap FreeIn(reg) : s <= s2) /\ Seated(reg, reg', t, s)
    BY <1>9 DEF JoinsSeat
  <2>2. ~Book!Present(t) /\ NormalRange \cap Book!Free # {}
    BY <1>5, <1>6, <1>9, <2>1 DEF JoinsSeat
  <2>3. Waiting(reg)' = Waiting(reg) /\ QueueOf(reg)' = QueueOf(reg)
    BY <1>2, <1>9 DEF JoinsSeat
  <2>4. /\ s \in NormalRange \cap Book!Free
        /\ \A s2 \in NormalRange \cap Book!Free : s <= s2
        /\ SeatsOf(reg)' = [SeatsOf(reg) EXCEPT ![t] = s]
    BY <1>2, <1>5, <2>1 DEF Seated
  <2> QED BY <1>3, <2>2, <2>3, <2>4 DEF Book!Join
<1>10. ASSUME NEW t \in Team, JoinsQueue(reg, reg', t) PROVE Book!Join(t)
  <2>1. ~Book!Present(t) /\ NormalRange \cap Book!Free = {}
    BY <1>5, <1>6, <1>10 DEF JoinsQueue
  <2>2. SeatsOf(reg)' = SeatsOf(reg) /\ Book!ToTheEnd(t)
    BY <1>2, <1>7, <1>10 DEF JoinsQueue
  <2> QED BY <1>3, <2>1, <2>2 DEF Book!Join
<1>11. ASSUME NEW t \in Team, Sits(reg, reg', t) PROVE Book!Sit(t)
  <2>1. PICK s \in FreeIn(reg) : (Holds(reg, t) \/ s \in VipRange) /\ Seated(reg, reg', t, s)
    BY <1>11 DEF Sits
  <2>2. s \in Book!Free /\ (Book!Present(t) \/ s \in VipRange)
    BY <1>5, <1>6, <2>1
  <2>3. SeatsOf(reg)' = [SeatsOf(reg) EXCEPT ![t] = s]
    BY <1>2, <2>1 DEF Seated
  <2>4. Book!Dequeue({t})
    BY <1>7, <1>11 DEF Sits
  <2> QED BY <1>3, <2>2, <2>3, <2>4 DEF Book!Sit
<1>12. ASSUME NEW t \in Team, Waits(reg, reg', t) PROVE Book!Wait(t)
  <2>1. Book!Present(t) /\ Book!ToTheEnd(t)
    BY <1>6, <1>7, <1>12 DEF Waits
  <2>2. SeatsOf(reg)' = [SeatsOf(reg) EXCEPT ![t] = 0]
    BY <1>2, <1>12 DEF Waits, Seated
  <2> QED BY <1>3, <2>1, <2>2 DEF Book!Wait
<1>13. ASSUME NEW T \in SUBSET Team, Leaves(reg, reg', T) PROVE Book!Leave(T)
  BY <1>2, <1>3, <1>7, <1>13 DEF Leaves, Book!Leave
<1> QED BY <1>8, <1>9, <1>10, <1>11, <1>12, <1>13 DEF Moves, Book!Next

\* Every step is a step of the book, or leaves it as it is.
LEMMA BookImplemented ==
  ASSUME TypeOK, UsableInv, BookInv, [Next]_vars, mode \in {"own", "bans"}
  PROVE  Book!Next \/ UNCHANGED Book!vars
<1>1. /\ Proper(reg) /\ Usable(reg) /\ ~imp.on
      /\ ban.pc = "write" => PlanIsSafe
  BY UsableIsConsistent DEF UsableInv
<1>2. /\ \A p \in Request : Moves(reg, Apply(reg, tx[p]))
      /\ ban.pc = "write" => PlanKeepsOrder
  BY DEF BookInv
<1>3. CASE UpdateSession
  <2>1. reg' = reg
    BY <1>3 DEF UpdateSession
  <2>2. NormalRange' \subseteq Nat /\ VipRange' \subseteq Nat
    <3>1. TypeOK'
      BY TypeStep
    <3>2. session'.slotCount \in 1 .. MaxSlots
      BY <3>1 DEF TypeOK
    <3>3. NormalEnd' \in Nat
      BY <3>2, SlotAssumption DEF NormalEnd, Least
    <3> QED BY <3>2, <3>3, SlotAssumption DEF NormalRange, VipRange, Least
  <2>3. Book!Resize
    BY <2>1, <2>2 DEF Book!Resize
  <2> QED BY <2>3 DEF Book!Next
<1>4. CASE ~UpdateSession
  <2>1. ~ImportStep
    BY <1>1 DEF ImportStep, ImportBegin, ImportRow, ImportCommit, ImportFail
  <2>2. session' = session
    BY <1>4, <2>1, SessionStays
  <2>3. ASSUME reg' = reg PROVE Moves(reg, reg')
    BY <2>3, SameBook
  <2>4. ASSUME NEW p \in Request, Mutation(p) PROVE Moves(reg, reg')
    <3>1. CASE Requests(p)
      <4>1. PICK new : Begin(p, new)
        BY <3>1, RequestsBegin
      <4> QED BY <2>3, <4>1 DEF Begin
    <3>2. CASE Commit(p)
      BY <1>2, <3>2 DEF Commit
    <3>3. CASE RollBack(p)
      BY <2>3, <3>3 DEF RollBack
    <3> QED BY <2>4, <3>1, <3>2, <3>3 DEF Mutation, Requests
  <2>5. ASSUME BanStep PROVE Moves(reg, reg')
    <3>1. CASE BanRemove
      BY <1>1, <3>1, RemovedLeave
    <3>2. CASE BanWrite
      <4>1. ban.pc = "write"
        BY <3>2 DEF BanWrite
      <4> QED BY <1>1, <1>2, <3>2, <4>1, PlanIsWritten DEF Moves
    <3>3. CASE ~BanRemove /\ ~BanWrite
      <4>1. reg' = reg
        BY <2>5, <3>3 DEF BanStep, BanCreate, BanRevoke, BanRead, BanCrash
      <4> QED BY <2>3, <4>1
    <3> QED BY <3>1, <3>2, <3>3
  <2>6. ASSUME UNCHANGED vars PROVE Moves(reg, reg')
    BY <2>3, <2>6 DEF vars
  <2>7. Moves(reg, reg')
    <3>1. CASE Next
      BY <1>4, <2>1, <2>4, <2>5, <3>1 DEF Next
    <3> QED BY <2>6, <3>1
  <2> QED BY <2>2, <2>7, MovesAreSteps
<1> QED BY <1>3, <1>4

\* Overlapping mutations of SessionsService, with bans between them, act as if
\* made one at a time: each is a step of the seating plan and the queue.
THEOREM SeatBookKept == Spec => KeepsTheSeatBook
<1>1. Init => Book!Init
  <2> SUFFICES ASSUME Init PROVE Book!Init
    OBVIOUS
  <2>1. TypeOK
    BY TypeInit
  <2>2. NormalRange \subseteq Nat /\ VipRange \subseteq Nat
    BY <2>1, Ranges, SlotAssumption DEF NormalRange, VipRange
  <2>3. SeatsOf(reg) = [t \in Team |-> 0] /\ Waiting(reg) = {} /\ QueueOf(reg) = {}
    BY DEF Init, NoRow, SeatsOf, Waiting, QueueOf
  <2> QED BY <2>2, <2>3 DEF Book!Init
<1>2. Init => BookInv
  <2> SUFFICES ASSUME Init PROVE BookInv
    OBVIOUS
  <2>1. reg \in [Team -> Row] /\ ban.pc = "idle" /\ \A p \in Request : tx[p] = Nothing
    BY TypeInit DEF TypeOK, Init, NoBan
  <2> QED BY <2>1, NothingMoves DEF BookInv
<1>3. TypeOK /\ UsableInv /\ BookInv /\ [Next]_vars
        => [(mode \in {"own", "bans"}) => (Book!Next \/ UNCHANGED Book!vars)]_vars
  BY BookImplemented
<1> QED BY <1>1, <1>2, <1>3, BookStep, UsableInit, UsableStep, TypeCorrect, PTL
        DEF Spec, KeepsTheSeatBook

=============================================================================
