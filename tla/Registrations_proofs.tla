------------------------ MODULE Registrations_proofs ------------------------
(***************************************************************************)
(* Proofs about Registrations, for every number of teams, requests and     *)
(* slots and for every set of deployments:                                 *)
(*   TypeCorrect     the states are well typed;                            *)
(*   OnlyTheOpenAdmit  a closed session admits nobody;                     *)
(*   NobodyDoubleBooked  no slot is held twice while imports lock;         *)
(*   RowsAlwaysUsable  SessionsService and bans never lock themselves out. *)
(***************************************************************************)
EXTENDS Registrations, FiniteSetTheorems, TLAPS

(* Rows and ranges.                                                        *)

\* A position in the waitlist is a natural number, of at least 1 if t waits.
LEMMA RankIsNat ==
  ASSUME NEW r \in [Team -> Row], NEW t
  PROVE  Rank(r, t) \in Nat
<1>1. IsFiniteSet({u \in Waiting(r) : r[u].wait <= r[t].wait})
  BY TeamAssumption, FS_Subset DEF Waiting
<1> QED BY <1>1, FS_CardinalityType DEF Rank

\* Closing the gaps of the waitlist changes nothing but positions.
LEMMA RepackedRows ==
  ASSUME NEW r \in [Team -> Row]
  PROVE  /\ Repacked(r) \in [Team -> Row]
         /\ \A t \in Team : /\ Repacked(r)[t].status = r[t].status
                            /\ Repacked(r)[t].slot = r[t].slot
                            /\ Repacked(r)[t].imported = r[t].imported
                            /\ t \notin Waiting(r) => Repacked(r)[t] = r[t]
<1> SUFFICES ASSUME NEW t \in Team
             PROVE  /\ Repacked(r)[t] \in Row
                    /\ Repacked(r)[t].status = r[t].status
                    /\ Repacked(r)[t].slot = r[t].slot
                    /\ Repacked(r)[t].imported = r[t].imported
                    /\ t \notin Waiting(r) => Repacked(r)[t] = r[t]
  BY DEF Repacked
<1>1. CASE t \in Waiting(r)
  <2>1. Repacked(r)[t] = [r[t] EXCEPT !.wait = Rank(r, t)]
    BY <1>1 DEF Repacked
  <2> QED BY <1>1, <2>1, RankIsNat DEF Row
<1>2. CASE t \notin Waiting(r)
  BY <1>2 DEF Repacked
<1> QED BY <1>1, <1>2

\* The rows the session service builds are rows of the type.
LEMMA RowConstructors ==
  /\ NoRow \in Row /\ Deleted \in Row /\ Removed \in Row
  /\ \A s \in 0 .. MaxSlots, i \in BOOLEAN : Confirmed(s, i) \in Row
  /\ \A n \in Nat, i \in BOOLEAN : Waitlisted(n, i) \in Row
<1>1. 0 \in 0 .. MaxSlots
  BY SlotAssumption
<1>2. NoRow \in Row /\ Removed \in Row
  BY <1>1 DEF Row, NoRow, Removed
<1>3. Deleted \in Row
  BY <1>1 DEF Row, NoRow, Deleted
<1>4. \A s \in 0 .. MaxSlots, i \in BOOLEAN : Confirmed(s, i) \in Row
  BY DEF Row, Confirmed
<1>5. \A n \in Nat, i \in BOOLEAN : Waitlisted(n, i) \in Row
  BY <1>1 DEF Row, Waitlisted
<1> QED BY <1>2, <1>3, <1>4, <1>5

\* The slots registration fills are slots of the session.
LEMMA Ranges ==
  ASSUME TypeOK
  PROVE  NormalRange \cup VipRange \subseteq 1 .. session.slotCount
<1>1. session.slotCount \in 1 .. MaxSlots
  BY DEF TypeOK
<1>2. NormalEnd \in Nat /\ NormalEnd <= session.slotCount
  BY <1>1, SlotAssumption DEF NormalEnd, Least
<1>3. NormalRange \subseteq 1 .. session.slotCount
  BY <1>1, <1>2, SlotAssumption DEF NormalRange
<1>4. VipRange \subseteq 1 .. session.slotCount
  BY <1>1, <1>2, SlotAssumption DEF VipRange, Least
<1> QED BY <1>3, <1>4

\* getNextWaitlistPosition never answers 0, which stands for no position.
LEMMA PositionsArePositive ==
  ASSUME NEW r \in [Team -> Row], NEW t, NEW n \in NextWaitlistPosition(r, t)
  PROVE  n \in Nat \ {0}
<1>1. \A u \in Actives(r) : r[u].wait \in Nat
  BY DEF Actives, Row
<1> QED BY <1>1 DEF NextWaitlistPosition

\* What applying writes gives, and what applying none gives.
LEMMA AppliedRows ==
  ASSUME NEW r \in [Team -> Row], NEW w, IsWrites(w)
  PROVE  Apply(r, w) \in [Team -> Row]
BY DEF Apply, IsWrites

\* A transaction without writes changes no row.
LEMMA NothingApplied ==
  ASSUME NEW r \in [Team -> Row]
  PROVE  IsWrites(Nothing) /\ Apply(r, Nothing) = r
BY DEF Apply, Nothing, IsWrites

\* The transaction that begins is going to leave what Begin names.
LEMMA BeginLeaves ==
  ASSUME TypeOK, NEW p \in Request, NEW new \in [Team -> Row], Begin(p, new)
  PROVE  /\ IsWrites(tx'[p])
         /\ Apply(reg, tx'[p]) = Repacked(new)
         /\ \A q \in Request \ {p} : tx'[q] = tx[q]
         /\ DOMAIN tx' = Request
         /\ tx' = [q \in Request |-> tx'[q]]
<1> DEFINE final == Repacked(new)
           dom == {u \in Team : final[u] # reg[u]}
<1>1. tx' = [tx EXCEPT ![p] = [t \in dom |-> final[t]]]
  BY Zenon DEF Begin
<1>2. DOMAIN tx = Request /\ tx = [q \in Request |-> tx[q]]
  BY DEF TypeOK
<1>3. tx'[p] = [t \in dom |-> final[t]] /\ \A q \in Request \ {p} : tx'[q] = tx[q]
  BY <1>1, <1>2
<1>4. final \in [Team -> Row] /\ reg \in [Team -> Row]
  BY RepackedRows DEF TypeOK
<1>5. IsWrites(tx'[p])
  BY <1>3, <1>4 DEF IsWrites
<1>6. Apply(reg, tx'[p]) = final
  BY <1>3, <1>4 DEF Apply
<1> QED BY <1>1, <1>2, <1>3, <1>5, <1>6

(* Dropping transactions.                                                  *)
LEMMA Dropped ==
  ASSUME TypeOK, NEW T, DropWritersOf(T) \/ DropAll
  PROVE  /\ tx' = [p \in Request |-> tx'[p]]
         /\ \A p \in Request : \/ tx'[p] = Nothing
                               \/ tx'[p] = tx[p] /\ DOMAIN tx[p] \cap T = {} /\ DropWritersOf(T)
         /\ \A p \in Request : IsWrites(tx'[p])
<1>1. IsWrites(Nothing)
  BY DEF IsWrites, Nothing
<1> QED BY <1>1 DEF DropWritersOf, DropAll, TypeOK

-----------------------------------------------------------------------------
(* What a request of SessionsService sets out to do.                       *)

Requests(p) ==
  \/ \E t \in Team, vip \in BOOLEAN : RegisterTeam(p, t, vip)
  \/ \E t \in Team : PlaceInSlot(p, t) \/ PlaceOnWaitlist(p, t) \/ RemoveRegistration(p, t)
  \/ RemoveSlotRegistrations(p)

\* Only a confirmed row has a slot.
Proper(r) == \A t \in Team : r[t].slot # 0 => r[t].status = "CONFIRMED"

\* No two rows, active or not, have the same slot.
Distinct(r) == \A t, u \in Team : t # u /\ r[t].slot # 0 => r[u].slot # r[t].slot

\* It begins a transaction that leaves well-typed rows; it gives slots to
\* confirmed rows only, and brings teams in only while the session is open.
LEMMA RequestsBegin ==
  ASSUME TypeOK, NEW p \in Request, Requests(p)
  PROVE  \E new \in [Team -> Row] :
            /\ Begin(p, new) /\ Ready(p)
            /\ Proper(reg) => Proper(new)
            /\ \A t \in Team : Active(new[t]) /\ ~Active(reg[t]) => session.accepting
<1> DEFINE r == Repacked(reg)
           Good(new) == /\ new \in [Team -> Row]
                        /\ Proper(reg) => Proper(new)
                        /\ \A t \in Team : Active(new[t]) /\ ~Active(reg[t]) => session.accepting
<1>1. reg \in [Team -> Row] /\ r \in [Team -> Row]
  BY RepackedRows DEF TypeOK
<1>2. \A t \in Team : r[t].status = reg[t].status /\ r[t].slot = reg[t].slot
  BY <1>1, RepackedRows
<1>3. ASSUME NEW t \in Team, NEW row \in Row,
             row.slot # 0 => row.status = "CONFIRMED",
             Active(row) => Active(reg[t]) \/ session.accepting
      PROVE  Good([r EXCEPT ![t] = row])
  <2>1. [r EXCEPT ![t] = row] \in [Team -> Row]
    BY <1>1
  <2>2. ASSUME Proper(reg) PROVE Proper([r EXCEPT ![t] = row])
    BY <1>1, <1>2, <1>3, <2>2 DEF Proper
  <2>3. \A u \in Team : Active([r EXCEPT ![t] = row][u]) /\ ~Active(reg[u]) => session.accepting
    BY <1>1, <1>2, <1>3 DEF Active
  <2> QED BY <2>1, <2>2, <2>3
<1>4. \A s \in NormalRange \cup VipRange, i \in BOOLEAN : Confirmed(s, i) \in Row
  <2>1. session.slotCount \in 1 .. MaxSlots
    BY DEF TypeOK
  <2>2. NormalRange \cup VipRange \subseteq 0 .. MaxSlots
    BY <2>1, Ranges, SlotAssumption
  <2> QED BY <2>2, RowConstructors
<1>5. \A s, i, n : /\ Confirmed(s, i).status = "CONFIRMED"
                   /\ Waitlisted(n, i).slot = 0
                   /\ Deleted.slot = 0 /\ Deleted.status = "DELETED"
  BY DEF Confirmed, Waitlisted, Deleted, NoRow
<1>6. \A t \in Team : reg[t].imported \in BOOLEAN
  BY <1>1 DEF Row
<1>7. ASSUME NEW t \in Team, NEW vip \in BOOLEAN, RegisterTeam(p, t, vip)
      PROVE  \E new : Good(new) /\ Begin(p, new) /\ Ready(p)
  <2> DEFINE free == LowestAvailableSlot(r, t, IF vip THEN VipRange ELSE NormalRange)
  <2>1. session.accepting /\ Ready(p)
    BY <1>7 DEF RegisterTeam
  <2>2. ASSUME NEW s \in free, Begin(p, [r EXCEPT ![t] = Confirmed(s, FALSE)])
        PROVE  \E new : Good(new) /\ Begin(p, new) /\ Ready(p)
    <3>1. s \in NormalRange \cup VipRange
      BY <2>2 DEF LowestAvailableSlot
    <3>2. Confirmed(s, FALSE) \in Row
      BY <1>4, <3>1
    <3> HIDE DEF Good, r
    <3>3. Good([r EXCEPT ![t] = Confirmed(s, FALSE)])
      BY <1>3, <1>5, <2>1, <3>2
    <3> QED BY <2>1, <2>2, <3>3
  <2>3. ASSUME NEW n \in NextWaitlistPosition(r, t), Begin(p, [r EXCEPT ![t] = Waitlisted(n, FALSE)])
        PROVE  \E new : Good(new) /\ Begin(p, new) /\ Ready(p)
    <3>1. Waitlisted(n, FALSE) \in Row
      BY <1>1, PositionsArePositive, RowConstructors
    <3> HIDE DEF Good, r
    <3>2. Good([r EXCEPT ![t] = Waitlisted(n, FALSE)])
      BY <1>3, <1>5, <2>1, <3>1
    <3> QED BY <2>1, <2>3, <3>2
  <2> QED BY <1>7, <2>2, <2>3, Zenon DEF RegisterTeam
<1>8. ASSUME NEW t \in Team, PlaceInSlot(p, t)
      PROVE  \E new : Good(new) /\ Begin(p, new) /\ Ready(p)
  <2>1. PICK s \in (NormalRange \cup VipRange) \ Taken(r, t) :
               Begin(p, [r EXCEPT ![t] = Confirmed(s, reg[t].imported)])
    BY <1>8, Zenon DEF PlaceInSlot
  <2>2. Confirmed(s, reg[t].imported) \in Row
    BY <1>4, <1>6, <2>1
  <2>3. Active(reg[t]) /\ Ready(p)
    BY <1>8 DEF PlaceInSlot
  <2> HIDE DEF Good, r
  <2>4. Good([r EXCEPT ![t] = Confirmed(s, reg[t].imported)])
    BY <1>3, <1>5, <2>2, <2>3
  <2> QED BY <2>1, <2>3, <2>4
<1>9. ASSUME NEW t \in Team, PlaceOnWaitlist(p, t)
      PROVE  \E new : Good(new) /\ Begin(p, new) /\ Ready(p)
  <2>1. PICK n \in NextWaitlistPosition(r, t) :
               Begin(p, [r EXCEPT ![t] = Waitlisted(n, reg[t].imported)])
    BY <1>9, Zenon DEF PlaceOnWaitlist
  <2>2. Waitlisted(n, reg[t].imported) \in Row
    BY <1>1, <1>6, <2>1, PositionsArePositive, RowConstructors
  <2>3. Active(reg[t]) /\ Ready(p)
    BY <1>9 DEF PlaceOnWaitlist
  <2> HIDE DEF Good, r
  <2>4. Good([r EXCEPT ![t] = Waitlisted(n, reg[t].imported)])
    BY <1>3, <1>5, <2>2, <2>3
  <2> QED BY <2>1, <2>3, <2>4
<1>10. ASSUME NEW t \in Team, RemoveRegistration(p, t)
       PROVE  \E new : Good(new) /\ Begin(p, new) /\ Ready(p)
  <2>1. Begin(p, [r EXCEPT ![t] = Deleted]) /\ Ready(p) /\ Active(reg[t])
    BY <1>10, Zenon DEF RemoveRegistration
  <2>2. Good([r EXCEPT ![t] = Deleted])
    BY <1>3, <1>5, <2>1, RowConstructors
  <2> HIDE DEF Good, r
  <2> QED BY <2>1, <2>2
<1>11. ASSUME RemoveSlotRegistrations(p)
       PROVE  \E new : Good(new) /\ Begin(p, new) /\ Ready(p)
  <2> DEFINE new == [t \in Team |-> IF Active(reg[t]) /\ reg[t].slot # 0 THEN Deleted ELSE r[t]]
  <2>1. Begin(p, new) /\ Ready(p)
    BY <1>11, Zenon DEF RemoveSlotRegistrations
  <2> HIDE DEF r
  <2>2. new \in [Team -> Row]
    BY <1>1, RowConstructors
  <2>3. Proper(reg) => Proper(new)
    BY <1>2, <1>5 DEF Proper
  <2>4. \A t \in Team : Active(new[t]) /\ ~Active(reg[t]) => session.accepting
    BY <1>2, <1>5 DEF Active
  <2> QED BY <2>1, <2>2, <2>3, <2>4
<1> QED BY <1>7, <1>8, <1>9, <1>10, <1>11 DEF Requests

-----------------------------------------------------------------------------
(* Types.                                                                  *)

\* A list without one of its entries is a list.
LEMMA ShorterList ==
  ASSUME NEW list \in Lists, NEW s \in DOMAIN list
  PROVE  /\ [s2 \in DOMAIN list \ {s} |-> list[s2]] \in Lists
         /\ list[s] \in Team /\ s \in FirstSlot .. MaxSlots
<1>1. PICK S \in SUBSET (FirstSlot .. MaxSlots) : list \in [S -> Team]
  BY DEF Lists
<1>2. DOMAIN list = S
  BY <1>1
<1>3. [s2 \in S \ {s} |-> list[s2]] \in [S \ {s} -> Team]
  BY <1>1
<1>4. S \ {s} \in SUBSET (FirstSlot .. MaxSlots)
  BY <1>1
<1>5. [s2 \in S \ {s} |-> list[s2]] \in Lists
  BY <1>3, <1>4 DEF Lists
<1> QED BY <1>1, <1>2, <1>5

\* The record of an import that is not running has its type.
LEMMA NoImportIsImport == NoImport \in Import
<1>1. NoImport.list \in [{} -> Team] /\ {} \in SUBSET (FirstSlot .. MaxSlots)
  BY DEF NoImport
<1>2. NoImport.list \in Lists
  BY <1>1 DEF Lists
<1>3. NoImport.mem \in [Team -> Row]
  BY RowConstructors DEF NoImport
<1> QED BY <1>2, <1>3, SlotAssumption DEF NoImport, Import

\* The steps of requests and of the session.
LEMMA TypeMutation ==
  ASSUME TypeOK, (\E p \in Request : Mutation(p)) \/ UpdateSession
  PROVE  TypeOK'
<1>1. ASSUME NEW p \in Request, Requests(p) PROVE TypeOK'
  <2>1. PICK new \in [Team -> Row] : Begin(p, new)
    BY <1>1, RequestsBegin
  <2>2. tx' = [q \in Request |-> tx'[q]] /\ \A q \in Request : IsWrites(tx'[q])
    BY <2>1, BeginLeaves DEF TypeOK
  <2>3. UNCHANGED <<reg, session, banned, ban, imp, mode>>
    BY <2>1 DEF Begin
  <2> QED BY <2>2, <2>3 DEF TypeOK
<1>2. ASSUME NEW p \in Request, Commit(p) PROVE TypeOK'
  <2>1. reg' \in [Team -> Row]
    BY <1>2, AppliedRows DEF Commit, TypeOK
  <2>2. tx' = [q \in Request |-> tx'[q]] /\ \A q \in Request : IsWrites(tx'[q])
    BY <1>2, Dropped DEF Commit
  <2> QED BY <1>2, <2>1, <2>2 DEF TypeOK, Commit
<1>3. ASSUME NEW p \in Request, RollBack(p) PROVE TypeOK'
  <2>1. IsWrites(Nothing)
    BY DEF IsWrites, Nothing
  <2>2. tx' = [q \in Request |-> tx'[q]] /\ \A q \in Request : IsWrites(tx'[q])
    BY <1>3, <2>1 DEF RollBack, TypeOK
  <2> QED BY <1>3, <2>2 DEF TypeOK, RollBack
<1>4. ASSUME UpdateSession PROVE TypeOK'
  <2>0. PICK n \in 1 .. MaxSlots, a \in BOOLEAN, w \in BOOLEAN :
               session' = [slotCount |-> n, accepting |-> a, waitlist |-> w]
    BY <1>4, Zenon DEF UpdateSession
  <2>1. session' \in [slotCount: 1 .. MaxSlots, accepting: BOOLEAN, waitlist: BOOLEAN]
    BY <2>0
  <2>2. tx' = [q \in Request |-> tx'[q]] /\ \A q \in Request : IsWrites(tx'[q])
    BY <1>4, Dropped DEF UpdateSession
  <2> QED BY <1>4, <2>1, <2>2 DEF TypeOK, UpdateSession
<1> QED BY <1>1, <1>2, <1>3, <1>4 DEF Mutation, Requests

\* The steps of bans.
LEMMA TypeBan ==
  ASSUME TypeOK, BanStep
  PROVE  TypeOK'
<1> DEFINE Ban == [pc: {"idle", "remove", "read", "write"}, who: SUBSET Team,
                   todo: SUBSET (Nat \X Team)]
<1>1. NoBan \in Ban
  BY DEF NoBan
<1>2. ASSUME NEW t \in Team, BanCreate(t) \/ BanRevoke(t) PROVE TypeOK'
  BY <1>2 DEF BanCreate, BanRevoke, TypeOK
<1>3. ASSUME BanRemove PROVE TypeOK'
  <2>1. reg' \in [Team -> Row]
    BY <1>3, RowConstructors DEF BanRemove, TypeOK
  <2>2. tx' = [q \in Request |-> tx'[q]] /\ \A q \in Request : IsWrites(tx'[q])
    BY <1>3, Dropped DEF BanRemove
  <2>3. ban' \in Ban
    BY <1>3, <1>1 DEF BanRemove
  <2> QED BY <1>3, <2>1, <2>2, <2>3 DEF TypeOK, BanRemove
<1>4. ASSUME BanRead PROVE TypeOK'
  <2>1. PICK f \in Orderings(Waiting(reg)) :
               ban' = LET todo == {<<f[t], t>> : t \in {u \in Waiting(reg) : f[u] # reg[u].wait}}
                      IN  IF todo = {} THEN NoBan ELSE [ban EXCEPT !.pc = "write", !.todo = todo]
    BY <1>4, Zenon DEF BanRead
  <2>2. f \in [Waiting(reg) -> Nat] /\ Waiting(reg) \subseteq Team
    <3>1. Waiting(reg) \subseteq Team /\ IsFiniteSet(Waiting(reg))
      BY TeamAssumption, FS_Subset DEF Waiting
    <3>2. Cardinality(Waiting(reg)) \in Nat
      BY <3>1, FS_CardinalityType
    <3> QED BY <3>1, <3>2 DEF Orderings
  <2> DEFINE todo == {<<f[t], t>> : t \in {u \in Waiting(reg) : f[u] # reg[u].wait}}
  <2>3. todo \in SUBSET (Nat \X Team)
    BY <2>2
  <2> HIDE DEF todo
  <2>4. ban' = NoBan \/ ban' = [ban EXCEPT !.pc = "write", !.todo = todo]
    BY <2>1 DEF todo
  <2>5. ban' \in Ban
    BY <1>1, <2>3, <2>4 DEF TypeOK
  <2> QED BY <1>4, <2>5 DEF TypeOK, BanRead
<1>5. ASSUME BanWrite PROVE TypeOK'
  <2>1. PICK x \in ban.todo :
               /\ reg' = IF Active(reg[x[2]]) THEN [reg EXCEPT ![x[2]].wait = x[1]] ELSE reg
               /\ DropWritersOf({x[2]})
               /\ ban' = IF ban.todo = {x} THEN NoBan ELSE [ban EXCEPT !.todo = @ \ {x}]
    BY <1>5 DEF BanWrite
  <2>2. x[1] \in Nat /\ x[2] \in Team
    BY DEF TypeOK
  <2>3. reg' \in [Team -> Row]
    BY <2>1, <2>2 DEF TypeOK, Row
  <2>4. tx' = [q \in Request |-> tx'[q]] /\ \A q \in Request : IsWrites(tx'[q])
    BY <2>1, Dropped
  <2>5. ban' \in Ban
    BY <1>1, <2>1 DEF TypeOK
  <2> QED BY <1>5, <2>3, <2>4, <2>5 DEF TypeOK, BanWrite
<1>6. ASSUME BanCrash PROVE TypeOK'
  BY <1>1, <1>6 DEF BanCrash, TypeOK
<1> QED BY <1>2, <1>3, <1>4, <1>5, <1>6 DEF BanStep

\* The steps of imports.
LEMMA TypeImport ==
  ASSUME TypeOK, ImportStep
  PROVE  TypeOK'
<1>1. ASSUME NEW list \in Lists, NEW locks \in BOOLEAN, NEW n \in 1 .. MaxSlots,
             ImportBegin(list, locks, n)
      PROVE  TypeOK'
  <2> DEFINE mem == [t \in Team |-> IF Active(reg[t]) THEN reg[t] ELSE NoRow]
             source == {t \in Actives(reg) : reg[t].imported}
  <2>1. mem \in [Team -> Row] /\ source \in SUBSET Team
    BY RowConstructors DEF TypeOK, Actives
  <2>2. imp' = [NoImport EXCEPT !.on = TRUE, !.locks = locks, !.slotCount = n,
                  !.list = list, !.mem = mem, !.source = source]
    BY <1>1 DEF ImportBegin
  <2> HIDE DEF mem, source
  <2>3. imp' \in Import
    BY <2>1, <2>2, NoImportIsImport DEF Import
  <2> QED BY <1>1, <2>3 DEF ImportBegin, TypeOK
<1>2. ASSUME ImportRow PROVE TypeOK'
  <2>1. PICK s \in DOMAIN imp.list :
          LET t        == imp.list[s]
              holders  == {u \in Team \ {t} : imp.mem[u].slot = s}
              manual   == {u \in holders : ~imp.mem[u].imported}
              held     == Active(imp.mem[t])
              placed(u) == IF u = t THEN Confirmed(s, TRUE)
                           ELSE IF u \notin holders THEN imp.mem[u]
                           ELSE IF held THEN Removed ELSE NoRow
              rest     == [s2 \in DOMAIN imp.list \ {s} |-> imp.list[s2]]
          IN  IF t \in imp.taken \/ manual # {}
              THEN imp' = [imp EXCEPT !.list = rest]
              ELSE imp' = [imp EXCEPT !.list = rest, !.mem = [u \in Team |-> placed(u)],
                             !.written = @ \cup {t} \cup holders, !.taken = @ \cup {t}]
    BY <1>2, Zenon DEF ImportRow
  <2> DEFINE t == imp.list[s]
             holders == {u \in Team \ {t} : imp.mem[u].slot = s}
             rest == [s2 \in DOMAIN imp.list \ {s} |-> imp.list[s2]]
             mem == [u \in Team |-> IF u = t THEN Confirmed(s, TRUE)
                                    ELSE IF u \notin holders THEN imp.mem[u]
                                    ELSE IF Active(imp.mem[t]) THEN Removed ELSE NoRow]
  <2>2. imp \in Import /\ imp.list \in Lists /\ imp.mem \in [Team -> Row]
    BY DEF TypeOK, Import
  <2>3. rest \in Lists /\ t \in Team /\ s \in 0 .. MaxSlots
    BY <2>2, ShorterList, SlotAssumption
  <2>4. mem \in [Team -> Row]
    BY <2>2, <2>3, RowConstructors
  <2>5. \/ imp' = [imp EXCEPT !.list = rest]
        \/ imp' = [imp EXCEPT !.list = rest, !.mem = mem,
                     !.written = @ \cup {t} \cup holders, !.taken = @ \cup {t}]
    BY <2>1
  <2>6. holders \subseteq Team
    OBVIOUS
  <2> HIDE DEF rest, mem, holders, t
  <2>7. imp' \in Import
    BY <2>2, <2>3, <2>4, <2>5, <2>6 DEF Import
  <2> QED BY <1>2, <2>7 DEF ImportRow, TypeOK
<1>3. ASSUME ImportCommit PROVE TypeOK'
  <2>1. reg' \in [Team -> Row]
    <3>1. imp.mem \in [Team -> Row]
      BY DEF TypeOK, Import
    <3> QED BY <1>3, <3>1, RowConstructors DEF ImportCommit, TypeOK
  <2>2. tx' = [q \in Request |-> tx'[q]] /\ \A q \in Request : IsWrites(tx'[q])
    <3>1. PICK T : DropAll \/ DropWritersOf(T)
      BY <1>3 DEF ImportCommit
    <3> QED BY <3>1, Dropped
  <2>3. session' \in [slotCount: 1 .. MaxSlots, accepting: BOOLEAN, waitlist: BOOLEAN]
    BY <1>3 DEF ImportCommit, TypeOK, Import
  <2> QED BY <1>3, <2>1, <2>2, <2>3, NoImportIsImport DEF ImportCommit, TypeOK
<1>4. ASSUME ImportFail PROVE TypeOK'
  BY <1>4, NoImportIsImport DEF ImportFail, TypeOK
<1> QED BY <1>1, <1>2, <1>3, <1>4 DEF ImportStep

\* Every session the model starts from is well typed.
LEMMA TypeInit == Init => TypeOK
<1> SUFFICES ASSUME Init PROVE TypeOK
  OBVIOUS
<1>1. IsWrites(Nothing)
  BY DEF IsWrites, Nothing
<1>2. reg \in [Team -> Row] /\ imp \in Import
  BY RowConstructors, NoImportIsImport DEF Init
<1>3. session \in [slotCount: 1 .. MaxSlots, accepting: BOOLEAN, waitlist: BOOLEAN]
  BY SlotAssumption DEF Init
<1>4. tx = [p \in Request |-> tx[p]] /\ \A p \in Request : IsWrites(tx[p])
  BY <1>1 DEF Init
<1>5. banned \subseteq Team /\ mode \in AllModes
  BY ModesAssumption DEF Init
<1> QED BY <1>2, <1>3, <1>4, <1>5 DEF Init, TypeOK, NoBan

\* No request, ban or import takes a row out of its type.
LEMMA TypeStep == TypeOK /\ [Next]_vars => TypeOK'
<1>1. ASSUME TypeOK, Next PROVE TypeOK'
  BY <1>1, TypeMutation, TypeBan, TypeImport DEF Next
<1>2. ASSUME TypeOK, UNCHANGED vars PROVE TypeOK'
  BY <1>2 DEF vars, TypeOK
<1> QED BY <1>1, <1>2

\* Every reachable state is well typed, in every deployment.
THEOREM TypeCorrect == Spec => []TypeOK
BY TypeInit, TypeStep, PTL DEF Spec

-----------------------------------------------------------------------------
(* A closed session admits nobody.                                         *)

\* Whoever is about to be brought in is so while the session is open: closing
\* it writes the Session row, which the transaction has locked.
NewcomersBelong ==
  \A p \in Request : \A t \in DOMAIN tx[p] :
    ~Active(reg[t]) /\ Active(tx[p][t]) => session.accepting

\* The rows a writer outside the serializable transactions has changed are not
\* among those of the transactions it leaves alone.
LEMMA OthersUntouched ==
  ASSUME TypeOK, NewcomersBelong, NEW T, DropWritersOf(T) \/ DropAll,
         \A t \in Team \ T : Active(reg'[t]) <=> Active(reg[t]),
         session'.accepting = session.accepting
  PROVE  NewcomersBelong'
<1> SUFFICES ASSUME NEW p \in Request, NEW t \in DOMAIN tx'[p],
                    ~Active(reg'[t]), Active(tx'[p][t])
             PROVE  session'.accepting
  BY DEF NewcomersBelong
<1>1. tx'[p] = tx[p] /\ DOMAIN tx[p] \cap T = {}
  BY Dropped DEF Nothing
<1>2. t \in Team \ T
  BY <1>1 DEF TypeOK, IsWrites
<1> QED BY <1>1, <1>2 DEF NewcomersBelong

\* No step makes a transaction create a team the session already has.
LEMMA NewcomersStep == TypeOK /\ NewcomersBelong /\ [Next]_vars => NewcomersBelong'
<1> SUFFICES ASSUME TypeOK, NewcomersBelong, [Next]_vars PROVE NewcomersBelong'
  OBVIOUS
<1>1. ASSUME NEW p \in Request, Requests(p) PROVE NewcomersBelong'
  <2>1. PICK new \in [Team -> Row] :
               /\ Begin(p, new)
               /\ \A t \in Team : Active(new[t]) /\ ~Active(reg[t]) => session.accepting
    BY <1>1, RequestsBegin
  <2>2. /\ IsWrites(tx'[p]) /\ Apply(reg, tx'[p]) = Repacked(new)
        /\ \A q \in Request \ {p} : tx'[q] = tx[q]
    BY <2>1, BeginLeaves
  <2>3. UNCHANGED <<reg, session>>
    BY <2>1 DEF Begin
  <2>4. ASSUME NEW t \in DOMAIN tx'[p], ~Active(reg[t]), Active(tx'[p][t])
        PROVE  session.accepting
    <3>1. t \in Team /\ tx'[p][t] = Repacked(new)[t]
      BY <2>2 DEF IsWrites, Apply
    <3>2. Active(new[t])
      BY <2>4, <3>1, RepackedRows DEF Active
    <3> QED BY <2>1, <2>4, <3>1, <3>2
  <2> QED BY <2>2, <2>3, <2>4 DEF NewcomersBelong
<1>2. ASSUME NEW p \in Request, Commit(p) PROVE NewcomersBelong'
  BY <1>2 DEF Commit, DropAll, Nothing, NewcomersBelong
<1>3. ASSUME NEW p \in Request, RollBack(p) PROVE NewcomersBelong'
  BY <1>3 DEF RollBack, Nothing, NewcomersBelong, TypeOK
<1>4. ASSUME UpdateSession PROVE NewcomersBelong'
  BY <1>4 DEF UpdateSession, DropAll, Nothing, NewcomersBelong
<1>5. ASSUME BanStep PROVE NewcomersBelong'
  <2>1. ASSUME NEW t \in Team, BanCreate(t) \/ BanRevoke(t) PROVE NewcomersBelong'
    BY <2>1 DEF BanCreate, BanRevoke, NewcomersBelong
  <2>2. CASE BanRemove
    <3>1. \A t \in Team \ (ban.who \cap Actives(reg)) : Active(reg'[t]) <=> Active(reg[t])
      BY <2>2 DEF BanRemove, Actives
    <3> QED BY <2>2, <3>1, OthersUntouched DEF BanRemove
  <2>3. CASE BanWrite
    <3>1. PICK x \in ban.todo :
                 /\ reg' = IF Active(reg[x[2]]) THEN [reg EXCEPT ![x[2]].wait = x[1]] ELSE reg
                 /\ DropWritersOf({x[2]})
      BY <2>3 DEF BanWrite
    <3>2. \A t \in Team \ {x[2]} : Active(reg'[t]) <=> Active(reg[t])
      BY <3>1 DEF TypeOK
    <3>3. UNCHANGED session
      BY <2>3 DEF BanWrite
    <3> QED BY <3>1, <3>2, <3>3, OthersUntouched
  <2>4. CASE BanRead \/ BanCrash
    BY <2>4 DEF BanRead, BanCrash, NewcomersBelong
  <2> QED BY <1>5, <2>1, <2>2, <2>3, <2>4 DEF BanStep
<1>6. ASSUME ImportStep PROVE NewcomersBelong'
  <2>1. ASSUME NEW list \in Lists, NEW locks \in BOOLEAN, NEW n \in 1 .. MaxSlots,
               ImportBegin(list, locks, n)
        PROVE  NewcomersBelong'
    BY <2>1 DEF ImportBegin, NewcomersBelong
  <2>2. CASE ImportRow \/ ImportFail
    BY <2>2 DEF ImportRow, ImportFail, NewcomersBelong
  <2>3. CASE ImportCommit
    <3> DEFINE gone == {t \in imp.source \ imp.taken : imp.mem[t] # NoRow}
               all == imp.written \cup gone
    <3>1. /\ reg' = [t \in Team |-> IF t \in gone THEN Removed
                                    ELSE IF t \in all THEN imp.mem[t] ELSE reg[t]]
          /\ DropAll \/ DropWritersOf(all)
          /\ session'.accepting = session.accepting
      BY <2>3 DEF ImportCommit, TypeOK
    <3>2. \A t \in Team \ all : Active(reg'[t]) <=> Active(reg[t])
      BY <3>1
    <3> QED BY <3>1, <3>2, OthersUntouched
  <2> QED BY <1>6, <2>1, <2>2, <2>3 DEF ImportStep
<1>7. CASE UNCHANGED vars
  BY <1>7 DEF vars, NewcomersBelong
<1> QED BY <1>1, <1>2, <1>3, <1>4, <1>5, <1>6, <1>7 DEF Next, Mutation, Requests

\* Only a commit brings a team in, an import apart.
LEMMA AdmittedWhileOpen ==
  ASSUME TypeOK, NewcomersBelong, [Next]_vars, NEW t \in Team,
         ~Active(reg[t]), Active(reg'[t]), UNCHANGED imp
  PROVE  session.accepting
<1>1. ASSUME NEW p \in Request, Mutation(p) PROVE session.accepting
  <2>1. CASE Commit(p)
    <3>1. t \in DOMAIN tx[p] /\ Active(tx[p][t])
      BY <2>1 DEF Commit, Apply
    <3> QED BY <3>1 DEF NewcomersBelong
  <2>2. CASE RollBack(p)
    BY <2>2 DEF RollBack
  <2>3. CASE Requests(p)
    <3>1. PICK new \in [Team -> Row] : Begin(p, new)
      BY <2>3, RequestsBegin
    <3> QED BY <3>1 DEF Begin
  <2> QED BY <1>1, <2>1, <2>2, <2>3 DEF Mutation, Requests
<1>2. CASE UpdateSession
  BY <1>2 DEF UpdateSession
<1>3. CASE BanStep
  <2>1. CASE BanRemove
    BY <2>1 DEF BanRemove, Active, Deleted, NoRow
  <2>2. CASE BanWrite
    <3>1. PICK x \in ban.todo :
                 reg' = IF Active(reg[x[2]]) THEN [reg EXCEPT ![x[2]].wait = x[1]] ELSE reg
      BY <2>2 DEF BanWrite
    <3> QED BY <3>1 DEF TypeOK, Active, Row
  <2> QED BY <1>3, <2>1, <2>2 DEF BanStep, BanCreate, BanRevoke, BanRead, BanCrash
<1>4. CASE ImportStep
  <2>1. CASE ImportCommit
    BY <2>1 DEF ImportCommit, NoImport
  <2> QED BY <1>4, <2>1 DEF ImportStep, ImportBegin, ImportRow, ImportFail
<1> QED BY <1>1, <1>2, <1>3, <1>4 DEF Next, vars

\* Nobody gets in by registration once the session is closed, whatever the
\* requests, bans, imports and updates do and however they overlap.
THEOREM OnlyTheOpenAdmit == Spec => ClosedMeansClosed
<1>1. Init => NewcomersBelong
  BY DEF Init, NewcomersBelong, Nothing
<1>2. TypeOK /\ NewcomersBelong /\ [Next]_vars =>
        [\A t \in Team : ~Active(reg[t]) /\ Active(reg'[t]) /\ UNCHANGED imp => session.accepting]_vars
  BY AdmittedWhileOpen
<1> QED BY <1>1, <1>2, NewcomersStep, TypeCorrect, PTL DEF Spec, ClosedMeansClosed

-----------------------------------------------------------------------------
(* No slot is held twice.                                                  *)

\* The rows as the import under way will leave those it has changed.
ImportRemembers ==
  imp.on => /\ imp.locks
            /\ Proper(imp.mem) /\ Distinct(imp.mem)
            /\ \A t \in Team \ imp.written : reg[t].slot \in {0, imp.mem[t].slot}

\* The inductive invariant: no slot is held twice now, nor once any one of the
\* transactions under way has committed.
SlotsInv ==
  mode # "production" =>
    /\ Proper(reg) /\ Distinct(reg)
    /\ \A p \in Request : LET r == Apply(reg, tx[p]) IN Proper(r) /\ Distinct(r)
    /\ ImportRemembers

\* Rows that only give slots up stay apart.
LEMMA GivingUp ==
  ASSUME NEW r, NEW r2, Distinct(r), \A t \in Team : r2[t].slot \in {0, r[t].slot}
  PROVE  Distinct(r2)
BY DEF Distinct

\* The consistency check finds a slot that is held twice.
LEMMA UsableIsDistinct ==
  ASSUME NEW r \in [Team -> Row], Usable(r), Proper(r)
  PROVE  Distinct(r)
<1>1. \A t \in Team : r[t].slot # 0 => t \in Actives(r)
  BY DEF Proper, Actives, Active
<1>2. \A t \in Actives(r) : \A u \in Actives(r) \ {t} : r[t].slot # 0 => r[u].slot # r[t].slot
  BY DEF Usable
<1> QED BY <1>1, <1>2 DEF Distinct

\* No request of the session service gives a slot to two teams.
LEMMA SlotsMutation ==
  ASSUME TypeOK, SlotsInv, mode # "production", (\E p \in Request : Mutation(p)) \/ UpdateSession
  PROVE  SlotsInv'
<1> USE DEF SlotsInv
<1>0. \A r \in [Team -> Row] : Apply(r, Nothing) = r
  BY NothingApplied
<1>1. ASSUME NEW p \in Request, Requests(p) PROVE SlotsInv'
  <2>1. PICK new \in [Team -> Row] : Begin(p, new) /\ Proper(new)
    BY <1>1, RequestsBegin
  <2>2. /\ Apply(reg, tx'[p]) = Repacked(new)
        /\ \A q \in Request \ {p} : tx'[q] = tx[q]
    BY <2>1, BeginLeaves
  <2>3. UNCHANGED <<reg, imp, mode>> /\ Usable(Repacked(new))
    BY <2>1, Zenon DEF Begin
  <2>4. Repacked(new) \in [Team -> Row] /\ Proper(Repacked(new))
    BY <2>1, RepackedRows DEF Proper
  <2>5. Distinct(Repacked(new))
    BY <2>3, <2>4, UsableIsDistinct
  <2> QED BY <2>2, <2>3, <2>4, <2>5 DEF ImportRemembers
<1>2. ASSUME NEW p \in Request, Commit(p) PROVE SlotsInv'
  <2>1. /\ reg' = Apply(reg, tx[p]) /\ UNCHANGED <<imp, mode>>
        /\ \A q \in Request : tx'[q] = Nothing
        /\ ~imp.on
    BY <1>2 DEF Commit, DropAll, ImportRemembers
  <2>2. reg' \in [Team -> Row]
    BY <2>1, AppliedRows DEF TypeOK
  <2>3. \A q \in Request : Apply(reg', tx'[q]) = reg'
    BY <1>0, <2>1, <2>2
  <2> QED BY <2>1, <2>3 DEF ImportRemembers
<1>3. ASSUME NEW p \in Request, RollBack(p) PROVE SlotsInv'
  <2>1. /\ UNCHANGED <<reg, imp, mode>> /\ tx'[p] = Nothing
        /\ \A q \in Request \ {p} : tx'[q] = tx[q]
    BY <1>3 DEF RollBack, TypeOK
  <2>2. Apply(reg, tx'[p]) = reg
    BY <1>0, <2>1 DEF TypeOK
  <2> QED BY <2>1, <2>2 DEF ImportRemembers
<1>4. ASSUME UpdateSession PROVE SlotsInv'
  <2>1. UNCHANGED <<reg, imp, mode>> /\ \A q \in Request : tx'[q] = Nothing
    BY <1>4 DEF UpdateSession, DropAll
  <2>2. \A q \in Request : Apply(reg, tx'[q]) = reg
    BY <1>0, <2>1 DEF TypeOK
  <2> QED BY <2>1, <2>2 DEF ImportRemembers
<1> QED BY <1>1, <1>2, <1>3, <1>4 DEF Mutation, Requests

\* A statement outside the transactions that only gives slots up.
LEMMA SlotsGivenUp ==
  ASSUME TypeOK, SlotsInv, mode # "production", NEW T, DropWritersOf(T),
         reg' \in [Team -> Row], UNCHANGED <<imp, mode>>, T \cap imp.written = {},
         \A t \in Team \ T : reg'[t] = reg[t],
         \A t \in Team : /\ reg'[t].slot \in {0, reg[t].slot}
                         /\ reg'[t].slot # 0 => reg'[t].status = reg[t].status
  PROVE  SlotsInv'
<1> USE DEF SlotsInv
<1>1. Proper(reg') /\ Distinct(reg')
  BY GivingUp DEF Proper
<1>2. ASSUME NEW p \in Request
      PROVE  Proper(Apply(reg', tx'[p])) /\ Distinct(Apply(reg', tx'[p]))
  <2>1. CASE tx'[p] = Nothing
    BY <1>1, <2>1, NothingApplied
  <2>2. CASE tx'[p] = tx[p]
    <3> DEFINE r == Apply(reg, tx[p])
               r2 == Apply(reg', tx[p])
    <3>1. \A t \in Team : r2[t].slot \in {0, r[t].slot}
      BY DEF Apply
    <3>2. Distinct(r2)
      BY <3>1, GivingUp
    <3>3. Proper(r2)
      BY DEF Proper, Apply
    <3> QED BY <2>2, <3>2, <3>3
  <2> QED BY <2>1, <2>2, Dropped
<1>3. ImportRemembers'
  BY DEF ImportRemembers
<1> QED BY <1>1, <1>2, <1>3

\* No statement of a ban gives a slot to two teams.
LEMMA SlotsBan ==
  ASSUME TypeOK, SlotsInv, mode # "production", BanStep
  PROVE  SlotsInv'
<1>1. CASE BanRemove
  <2>1. reg' \in [Team -> Row]
    BY TypeBan DEF TypeOK
  <2>2. \A t \in Team \ (ban.who \cap Actives(reg)) : reg'[t] = reg[t]
    BY <1>1 DEF BanRemove, Actives, TypeOK
  <2>3. \A t \in Team : /\ reg'[t].slot \in {0, reg[t].slot}
                        /\ reg'[t].slot # 0 => reg'[t].status = reg[t].status
    BY <1>1 DEF BanRemove, Deleted, NoRow
  <2> QED BY <1>1, <2>1, <2>2, <2>3, SlotsGivenUp DEF BanRemove
<1>2. CASE BanWrite
  <2>1. PICK x \in ban.todo :
               /\ x[2] \notin imp.written
               /\ reg' = IF Active(reg[x[2]]) THEN [reg EXCEPT ![x[2]].wait = x[1]] ELSE reg
               /\ DropWritersOf({x[2]})
    BY <1>2 DEF BanWrite
  <2>2. reg' \in [Team -> Row] /\ reg \in [Team -> Row]
    BY TypeBan DEF TypeOK
  <2>3. \A t \in Team \ {x[2]} : reg'[t] = reg[t]
    BY <2>1, <2>2
  <2>4. \A t \in Team : reg'[t].slot = reg[t].slot /\ reg'[t].status = reg[t].status
    BY <2>1, <2>2 DEF Row
  <2> QED BY <1>2, <2>1, <2>2, <2>3, <2>4, SlotsGivenUp DEF BanWrite
<1> QED BY <1>1, <1>2 DEF BanStep, BanCreate, BanRevoke, BanRead, BanCrash, SlotsInv, ImportRemembers

\* No statement of a slot-list import gives a slot to two teams.
LEMMA SlotsImport ==
  ASSUME TypeOK, SlotsInv, mode # "production", ImportStep
  PROVE  SlotsInv'
<1> USE DEF SlotsInv
<1>1. ASSUME NEW list \in Lists, NEW locks \in BOOLEAN, NEW n \in 1 .. MaxSlots,
             ImportBegin(list, locks, n)
      PROVE  SlotsInv'
  <2> DEFINE mem == [t \in Team |-> IF Active(reg[t]) THEN reg[t] ELSE NoRow]
  <2>1. /\ UNCHANGED <<reg, tx, mode>> /\ locks
        /\ imp'.locks = locks /\ imp'.mem = mem /\ imp'.written = {}
    BY <1>1 DEF ImportBegin, NoImport
  <2>2. \A t \in Team : mem[t].slot \in {0, reg[t].slot}
    BY DEF NoRow
  <2>3. Distinct(mem)
    BY <2>2, GivingUp
  <2>4. Proper(mem)
    BY DEF Proper, NoRow
  <2>5. \A t \in Team : reg[t].slot \in {0, mem[t].slot}
    BY DEF Proper, Active
  <2> QED BY <2>1, <2>3, <2>4, <2>5 DEF ImportRemembers
<1>2. CASE ImportRow
  <2>1. PICK s \in DOMAIN imp.list :
          LET t        == imp.list[s]
              holders  == {u \in Team \ {t} : imp.mem[u].slot = s}
              manual   == {u \in holders : ~imp.mem[u].imported}
              held     == Active(imp.mem[t])
              placed(u) == IF u = t THEN Confirmed(s, TRUE)
                           ELSE IF u \notin holders THEN imp.mem[u]
                           ELSE IF held THEN Removed ELSE NoRow
              rest     == [s2 \in DOMAIN imp.list \ {s} |-> imp.list[s2]]
          IN  IF t \in imp.taken \/ manual # {}
              THEN imp' = [imp EXCEPT !.list = rest]
              ELSE imp' = [imp EXCEPT !.list = rest, !.mem = [u \in Team |-> placed(u)],
                             !.written = @ \cup {t} \cup holders, !.taken = @ \cup {t}]
    BY <1>2, Zenon DEF ImportRow
  <2> DEFINE t == imp.list[s]
             holders == {u \in Team \ {t} : imp.mem[u].slot = s}
             mem == [u \in Team |-> IF u = t THEN Confirmed(s, TRUE)
                                    ELSE IF u \notin holders THEN imp.mem[u]
                                    ELSE IF Active(imp.mem[t]) THEN Removed ELSE NoRow]
  <2>2. UNCHANGED <<reg, tx, mode>> /\ imp.on
    BY <1>2 DEF ImportRow
  <2>3. /\ imp'.locks = imp.locks
        /\ \/ imp'.mem = imp.mem /\ imp'.written = imp.written
           \/ imp'.mem = mem /\ imp'.written = imp.written \cup {t} \cup holders
    BY <2>1 DEF TypeOK, Import
  <2>4. Distinct(imp.mem) /\ Proper(imp.mem) /\ imp.locks
        /\ \A u \in Team \ imp.written : reg[u].slot \in {0, imp.mem[u].slot}
    BY <2>2 DEF ImportRemembers
  <2>5. /\ mem[t].slot = s
        /\ \A u \in Team \ {t} : mem[u].slot # s /\ mem[u].slot \in {0, imp.mem[u].slot}
    <3>0. imp.list \in Lists
      BY DEF TypeOK, Import
    <3>1. t \in Team /\ s \in FirstSlot .. MaxSlots
      BY <3>0, ShorterList
    <3>2. s # 0
      BY <3>1, SlotAssumption
    <3> QED BY <3>1, <3>2 DEF Confirmed, Removed, NoRow
  <2>6. Distinct(mem)
    BY <2>4, <2>5 DEF Distinct
  <2>7. Proper(mem)
    BY <2>4 DEF Proper, Confirmed, Removed, NoRow
  <2>8. \A u \in Team \ ({t} \cup holders) : mem[u] = imp.mem[u]
    OBVIOUS
  <2> QED BY <2>2, <2>3, <2>4, <2>6, <2>7, <2>8 DEF ImportRemembers
<1>3. CASE ImportCommit
  <2> DEFINE gone == {t \in imp.source \ imp.taken : imp.mem[t] # NoRow}
             all == imp.written \cup gone
  <2>1. /\ reg' = [t \in Team |-> IF t \in gone THEN Removed
                                  ELSE IF t \in all THEN imp.mem[t] ELSE reg[t]]
        /\ \A p \in Request : tx'[p] = Nothing
        /\ ~imp'.on /\ mode' = mode
    BY <1>3 DEF ImportCommit, ImportRemembers, NoImport, DropAll
  <2>2. reg' \in [Team -> Row]
    BY TypeImport DEF TypeOK
  <2>3. /\ Distinct(imp.mem) /\ Proper(imp.mem)
        /\ \A u \in Team \ imp.written : reg[u].slot \in {0, imp.mem[u].slot}
    BY <1>3 DEF ImportRemembers, ImportCommit
  <2>4. \A t \in Team : reg'[t].slot \in {0, imp.mem[t].slot}
    BY <2>1, <2>3 DEF Removed
  <2>5. Distinct(reg')
    BY <2>3, <2>4, GivingUp
  <2>6. Proper(reg')
    BY <2>1, <2>3 DEF Proper, Removed
  <2>7. \A p \in Request : Apply(reg', tx'[p]) = reg'
    BY <2>1, <2>2, NothingApplied
  <2> QED BY <2>1, <2>5, <2>6, <2>7 DEF ImportRemembers
<1>4. CASE ImportFail
  BY <1>4 DEF ImportFail, ImportRemembers, NoImport
<1> QED BY <1>1, <1>2, <1>3, <1>4 DEF ImportStep

\* The deployment does not change.
LEMMA ModeStays == [Next]_vars => mode' = mode
BY DEF Next, Mutation, RegisterTeam, PlaceInSlot, PlaceOnWaitlist, RemoveRegistration,
       RemoveSlotRegistrations, Begin, Commit, RollBack, UpdateSession, BanStep, BanCreate,
       BanRevoke, BanRemove, BanRead, BanWrite, BanCrash, ImportStep, ImportBegin, ImportRow,
       ImportCommit, ImportFail, vars

\* Outside production sync, no step gives a slot to two teams.
LEMMA SlotsStep == TypeOK /\ SlotsInv /\ [Next]_vars => SlotsInv'
<1> SUFFICES ASSUME TypeOK, SlotsInv, [Next]_vars PROVE SlotsInv'
  OBVIOUS
<1>1. mode' = mode
  BY ModeStays
<1>2. CASE mode = "production"
  BY <1>1, <1>2 DEF SlotsInv
<1>3. CASE mode # "production" /\ Next
  BY <1>3, SlotsMutation, SlotsBan, SlotsImport DEF Next
<1>4. CASE UNCHANGED vars
  BY <1>4 DEF vars, SlotsInv, ImportRemembers
<1> QED BY <1>2, <1>3, <1>4

\* No two registrations hold the same lobby slot, whatever mutations, updates,
\* bans and imports overlap, as long as every import writes the Session row.
THEOREM NobodyDoubleBooked == Spec => []NoDoubleBooking
<1>1. Init => SlotsInv
  <2> SUFFICES ASSUME Init PROVE SlotsInv
    OBVIOUS
  <2>1. reg \in [Team -> Row] /\ \A p \in Request : Apply(reg, tx[p]) = reg
    BY TypeInit, NothingApplied DEF TypeOK, Init
  <2>2. Proper(reg) /\ Distinct(reg) /\ ~imp.on
    BY DEF Init, Proper, Distinct, NoRow, NoImport
  <2> QED BY <2>1, <2>2 DEF SlotsInv, ImportRemembers
<1>2. TypeOK /\ SlotsInv => NoDoubleBooking
  BY DEF SlotsInv, NoDoubleBooking, SlotsDiffer, Distinct, Actives
<1> QED BY <1>1, <1>2, SlotsStep, TypeCorrect, PTL DEF Spec

-----------------------------------------------------------------------------
(* SessionsService and bans never lock themselves out.                     *)

\* Usable, with the number of slots as a parameter.
Consistent(r, n) ==
  \A t \in Actives(r) :
    /\ r[t].status # "REMOVED"
    /\ r[t].slot = 0 \/ r[t].wait = 0
    /\ r[t].slot # 0 <=> r[t].status = "CONFIRMED"
    /\ r[t].status = "WAITLIST" => r[t].wait # 0
    /\ r[t].slot <= n
    /\ \A u \in Actives(r) \ {t} : /\ r[t].slot # 0 => r[u].slot # r[t].slot
                                   /\ r[t].wait # 0 => r[u].wait # r[t].wait

\* The code's test of a usable session is the one the seat book promises.
LEMMA UsableIsConsistent == \A r : Usable(r) <=> Consistent(r, session.slotCount)
BY DEF Usable, Consistent

\* What a ban is still to write never gives a team the position another one
\* holds, unless that one is to get a lower position first.
PlanIsSafe ==
  /\ \A x \in ban.todo : x[1] \in Nat \ {0} /\ x[2] \in Waiting(reg)
  /\ \A x, y \in ban.todo : x # y => x[1] # y[1] /\ x[2] # y[2]
  /\ \A x \in ban.todo : \A u \in Waiting(reg) \ {x[2]} :
       reg[u].wait = x[1] => \E y \in ban.todo : y[2] = u /\ y[1] < x[1]

\* The inductive invariant: the rows are usable now, and once any one of the
\* transactions under way has committed; a ban is alone.
UsableInv ==
  mode \in {"own", "bans"} =>
    /\ Proper(reg) /\ Consistent(reg, session.slotCount)
    /\ \A p \in Request : LET r == Apply(reg, tx[p])
                         IN  Proper(r) /\ Consistent(r, session.slotCount)
    /\ ~imp.on
    /\ mode = "own" => ban.pc = "idle"
    /\ ban.pc # "idle" => \A p \in Request : Idle(p)
    /\ ban.pc = "write" => PlanIsSafe

\* The positions of a usable waitlist are at least the ranks, so closing its
\* gaps never moves anybody back.
LEMMA OrderingsMoveForward ==
  ASSUME TypeOK, Usable(reg), NEW f \in Orderings(Waiting(reg)), NEW t \in Waiting(reg)
  PROVE  f[t] <= reg[t].wait /\ f[t] \in Nat \ {0}
<1> DEFINE W == Waiting(reg)
           n == Cardinality(W)
<1>1. IsFiniteSet(W) /\ n \in Nat /\ W \subseteq Team
  <2>1. W \subseteq Team
    BY DEF Waiting
  <2>2. IsFiniteSet(W)
    BY <2>1, TeamAssumption, FS_Subset
  <2> QED BY <2>1, <2>2, FS_CardinalityType
<1>2. /\ f \in [W -> 1 .. n]
      /\ \A a, b \in W : a # b => f[a] # f[b] /\ (reg[a].wait < reg[b].wait => f[a] < f[b])
  BY DEF Orderings
<1> HIDE DEF n
<1>3. f \in Injection(W, 1 .. n)
  BY <1>2 DEF Injection, IsInjective
<1>4. IsFiniteSet(1 .. n) /\ Cardinality(1 .. n) = n
  BY <1>1, FS_Interval
<1>5. f \in Surjection(W, 1 .. n)
  BY <1>3, <1>4, FS_Injection DEF n
<1>6. /\ \A a \in W : reg[a].wait \in Nat \ {0}
      /\ \A a, b \in W : a # b => reg[a].wait # reg[b].wait
  <2>1. \A a \in W : a \in Actives(reg) /\ reg[a].wait \in Nat
    BY DEF Waiting, Actives, Active, TypeOK, Row
  <2>2. \A a \in W : reg[a].wait # 0
    BY <2>1 DEF Usable, Waiting
  <2>3. \A a \in W : \A b \in W \ {a} : reg[b].wait # reg[a].wait
    BY <2>1, <2>2 DEF Usable
  <2> QED BY <2>1, <2>2, <2>3
<1>7. f[t] \in 1 .. n
  BY <1>2
<1> DEFINE A == 1 .. f[t]
           B == 1 .. reg[t].wait
           who(i) == CHOOSE v \in W : f[v] = i
           g == [i \in A |-> reg[who(i)].wait]
<1>8. \A i \in A : who(i) \in W /\ f[who(i)] = i
  <2> SUFFICES ASSUME NEW i \in A PROVE \E v \in W : f[v] = i
    OBVIOUS
  <2>1. i \in 1 .. n
    BY <1>1, <1>7
  <2> QED BY <1>5, <2>1 DEF Surjection
<1>9. \A i \in A : g[i] \in B
  <2> SUFFICES ASSUME NEW i \in A PROVE reg[who(i)].wait \in B
    OBVIOUS
  <2> HIDE DEF who
  <2>1. who(i) \in W /\ f[who(i)] = i /\ i <= f[t] /\ i \in Nat
    BY <1>7, <1>8
  <2>2. ~(reg[t].wait < reg[who(i)].wait)
    <3>1. CASE who(i) = t
      BY <1>6, <3>1
    <3>2. CASE who(i) # t
      BY <1>2, <1>7, <2>1, <3>2
    <3> QED BY <3>1, <3>2
  <2> QED BY <1>6, <2>1, <2>2
<1>10. \A i, j \in A : g[i] = g[j] => i = j
  <2> HIDE DEF who
  <2> QED BY <1>6, <1>8
<1>11. g \in Injection(A, B)
  <2> HIDE DEF who, A, B
  <2> QED BY <1>9, <1>10 DEF Injection, IsInjective
<1>12. /\ IsFiniteSet(B) /\ Cardinality(B) = reg[t].wait
       /\ Cardinality(A) = f[t]
  <2>1. \A k \in Nat \ {0} : IsFiniteSet(1 .. k) /\ Cardinality(1 .. k) = k
    BY FS_Interval
  <2>2. f[t] \in Nat \ {0} /\ reg[t].wait \in Nat \ {0}
    BY <1>1, <1>6, <1>7
  <2> QED BY <2>1, <2>2
<1>13. Cardinality(A) <= Cardinality(B)
  <2> HIDE DEF A, B, g
  <2> QED BY <1>11, <1>12, FS_Injection
<1> QED BY <1>1, <1>7, <1>12, <1>13

\* Removed rows and more room keep the rows usable.
LEMMA ConsistentRemoved ==
  ASSUME NEW r, NEW r2, NEW n, Consistent(r, n), \A t \in Team : r2[t] \in {r[t], Deleted}
  PROVE  Consistent(r2, n)
<1>1. ~Active(Deleted)
  BY DEF Active, Deleted, NoRow
<1>2. \A t \in Actives(r2) : t \in Actives(r) /\ r2[t] = r[t]
  BY <1>1 DEF Actives
<1> QED BY <1>2 DEF Consistent

\* A waiting team gets a position no other one has.
LEMMA ConsistentMoved ==
  ASSUME NEW r \in [Team -> Row], NEW n, NEW t \in Team, NEW k \in Nat \ {0},
         Consistent(r, n), r[t].status = "WAITLIST",
         \A u \in Waiting(r) \ {t} : r[u].wait # k
  PROVE  Consistent([r EXCEPT ![t].wait = k], n)
<1> DEFINE r2 == [r EXCEPT ![t].wait = k]
<1>1. /\ \A u \in Team : r2[u].status = r[u].status /\ r2[u].slot = r[u].slot
      /\ \A u \in Team : u # t => r2[u].wait = r[u].wait
      /\ r2[t].wait = k
  BY DEF Row
<1>2. t \in Actives(r) /\ r[t].slot = 0
  BY DEF Consistent, Actives, Active
<1>3. \A u \in Actives(r) : u \in Team /\ (u # t => r[u].wait # k)
  <2> SUFFICES ASSUME NEW u \in Actives(r), u # t, r[u].wait = k PROVE FALSE
    BY DEF Actives
  <2>1. u \in Team /\ r[u].status \in {"CONFIRMED", "WAITLIST"} /\ r[u].slot = 0
    BY DEF Consistent, Actives, Active, Row
  <2> QED BY <2>1 DEF Waiting, Consistent
<1> HIDE DEF r2
<1>4. Actives(r2) = Actives(r)
  BY <1>1 DEF Actives, Active
<1>5. ASSUME NEW u \in Actives(r)
      PROVE  /\ r2[u].status # "REMOVED"
             /\ r2[u].slot = 0 \/ r2[u].wait = 0
             /\ r2[u].slot # 0 <=> r2[u].status = "CONFIRMED"
             /\ r2[u].status = "WAITLIST" => r2[u].wait # 0
             /\ r2[u].slot <= n
  BY <1>1, <1>2, <1>3 DEF Consistent
<1>6. ASSUME NEW u \in Actives(r), NEW v \in Actives(r) \ {u}
      PROVE  /\ r2[u].slot # 0 => r2[v].slot # r2[u].slot
             /\ r2[u].wait # 0 => r2[v].wait # r2[u].wait
  <2>1. /\ r[u].slot # 0 => r[v].slot # r[u].slot
        /\ r[u].wait # 0 => r[v].wait # r[u].wait
    BY DEF Consistent
  <2> QED BY <1>1, <1>3, <2>1
<1>7. Consistent(r2, n)
  BY <1>4, <1>5, <1>6 DEF Consistent
<1> QED BY <1>7 DEF r2

\* A request of the session service leaves the rows usable.
LEMMA UsableMutation ==
  ASSUME TypeOK, UsableInv, mode \in {"own", "bans"}, (\E p \in Request : Mutation(p)) \/ UpdateSession
  PROVE  UsableInv'
<1> USE DEF UsableInv
<1>0. \A r \in [Team -> Row] : Apply(r, Nothing) = r
  BY NothingApplied
<1>1. ASSUME NEW p \in Request, Requests(p) PROVE UsableInv'
  <2>1. PICK new \in [Team -> Row] : Begin(p, new) /\ Proper(new) /\ Ready(p)
    BY <1>1, RequestsBegin
  <2>2. /\ Apply(reg, tx'[p]) = Repacked(new)
        /\ \A q \in Request \ {p} : tx'[q] = tx[q]
    BY <2>1, BeginLeaves
  <2>3. UNCHANGED <<reg, session, ban, imp, mode>> /\ Usable(Repacked(new))
    BY <2>1, Zenon DEF Begin
  <2>4. Proper(Repacked(new)) /\ Consistent(Repacked(new), session.slotCount)
    BY <2>1, <2>3, RepackedRows, UsableIsConsistent DEF Proper
  <2>5. ban.pc = "idle"
    BY <2>1 DEF Ready
  <2> QED BY <2>2, <2>3, <2>4, <2>5
<1>2. ASSUME NEW p \in Request, Commit(p) PROVE UsableInv'
  <2>1. /\ reg' = Apply(reg, tx[p]) /\ UNCHANGED <<session, ban, imp, mode>>
        /\ \A q \in Request : tx'[q] = Nothing
    BY <1>2 DEF Commit, DropAll
  <2>2. ban.pc = "idle"
    BY <1>2 DEF Commit
  <2>3. reg' \in [Team -> Row]
    BY <2>1, AppliedRows DEF TypeOK
  <2>4. \A q \in Request : Apply(reg', tx'[q]) = reg'
    BY <1>0, <2>1, <2>3
  <2> QED BY <2>1, <2>2, <2>4
<1>3. ASSUME NEW p \in Request, RollBack(p) PROVE UsableInv'
  <2>1. /\ UNCHANGED <<reg, session, ban, imp, mode>> /\ tx'[p] = Nothing
        /\ \A q \in Request \ {p} : tx'[q] = tx[q]
    BY <1>3 DEF RollBack, TypeOK
  <2>2. Apply(reg, tx'[p]) = reg
    BY <1>0, <2>1 DEF TypeOK
  <2>3. ban.pc = "idle"
    BY <1>3 DEF RollBack
  <2> QED BY <2>1, <2>2, <2>3
<1>4. ASSUME UpdateSession PROVE UsableInv'
  <2>1. UNCHANGED <<reg, ban, imp, mode>> /\ \A q \in Request : tx'[q] = Nothing
    BY <1>4 DEF UpdateSession, DropAll
  <2>2. \A q \in Request : Apply(reg, tx'[q]) = reg
    BY <1>0, <2>1 DEF TypeOK
  <2>3. PICK n \in 1 .. MaxSlots, a \in BOOLEAN, w \in BOOLEAN :
               /\ \A t \in Team : reg[t].slot <= n
               /\ session' = [slotCount |-> n, accepting |-> a, waitlist |-> w]
    BY <1>4 DEF UpdateSession
  <2>4. Consistent(reg, session'.slotCount)
    BY <2>3 DEF Consistent, Actives
  <2>5. ban.pc = "write" => PlanIsSafe'
    BY <2>1 DEF PlanIsSafe, Waiting
  <2> QED BY <2>1, <2>2, <2>4, <2>5 DEF Idle
<1> QED BY <1>1, <1>2, <1>3, <1>4 DEF Mutation, Requests

\* A statement of a ban leaves the rows usable.
LEMMA UsableBan ==
  ASSUME TypeOK, UsableInv, mode \in {"own", "bans"}, BanStep
  PROVE  UsableInv'
<1> USE DEF UsableInv
<1>0. \A r \in [Team -> Row] : Apply(r, Nothing) = r
  BY NothingApplied
<1>1. ASSUME NEW t \in Team, BanCreate(t) PROVE UsableInv'
  <2>1. /\ UNCHANGED <<reg, session, tx, imp, mode>> /\ ban'.pc = "remove"
        /\ mode = "bans" /\ \A p \in Request : Idle(p)
    BY <1>1 DEF BanCreate
  <2> QED BY <2>1 DEF Idle
<1>2. ASSUME NEW t \in Team, BanRevoke(t) PROVE UsableInv'
  BY <1>2 DEF BanRevoke
<1>3. ASSUME ban.pc # "idle", reg' \in [Team -> Row], UNCHANGED <<session, imp, mode>>,
             Proper(reg'), Consistent(reg', session.slotCount),
             \A p \in Request : tx'[p] = Nothing,
             ban'.pc = "write" => PlanIsSafe'
      PROVE  UsableInv'
  <2>1. \A p \in Request : Apply(reg', tx'[p]) = reg'
    BY <1>0, <1>3
  <2> QED BY <1>3, <2>1 DEF Idle
<1>4. CASE BanRemove
  <2>1. \A t \in Team : reg'[t] \in {reg[t], Deleted}
    BY <1>4 DEF BanRemove
  <2>2. Proper(reg')
    BY <2>1 DEF Proper, Deleted, NoRow
  <2>3. Consistent(reg', session.slotCount)
    BY <2>1, ConsistentRemoved
  <2>4. \A p \in Request : tx'[p] = Nothing
    BY <1>4 DEF BanRemove, DropWritersOf, Idle
  <2>5. reg' \in [Team -> Row]
    BY TypeBan DEF TypeOK
  <2>6. ban.pc # "idle" /\ ban'.pc # "write" /\ UNCHANGED <<session, imp, mode>>
    BY <1>4 DEF BanRemove, NoBan
  <2> QED BY <1>3, <2>2, <2>3, <2>4, <2>5, <2>6
<1>5. CASE BanRead
  <2>1. UNCHANGED <<reg, session, tx, imp, mode>> /\ ban.pc = "read"
    BY <1>5 DEF BanRead
  <2>2. PICK f \in Orderings(Waiting(reg)) :
               ban' = LET todo == {<<f[t], t>> : t \in {u \in Waiting(reg) : f[u] # reg[u].wait}}
                      IN  IF todo = {} THEN NoBan ELSE [ban EXCEPT !.pc = "write", !.todo = todo]
    BY <1>5, Zenon DEF BanRead
  <2> DEFINE todo == {<<f[t], t>> : t \in {u \in Waiting(reg) : f[u] # reg[u].wait}}
  <2>3. ban'.pc = "idle" \/ (ban'.pc = "write" /\ ban'.todo = todo)
    BY <2>2 DEF NoBan, TypeOK
  <2>4. ban'.pc = "write" => PlanIsSafe'
    <3> SUFFICES ASSUME ban'.pc = "write" PROVE PlanIsSafe'
      OBVIOUS
    <3>1. ban'.todo = {<<f[t], t>> : t \in {u \in Waiting(reg) : f[u] # reg[u].wait}}
      BY <2>3
    <3>2. \A t \in Waiting(reg) : f[t] <= reg[t].wait /\ f[t] \in Nat \ {0}
      BY OrderingsMoveForward, UsableIsConsistent
    <3>3. \A a, b \in Waiting(reg) : a # b => f[a] # f[b]
      BY DEF Orderings
    <3> DEFINE wait == [t \in Team |-> reg[t].wait]
    <3>4. \A t \in Waiting(reg) : wait[t] = reg[t].wait /\ wait[t] \in Nat
      BY DEF Waiting, TypeOK, Row
    <3>5. ban'.todo = {<<f[t], t>> : t \in {u \in Waiting(reg) : f[u] # wait[u]}}
      BY <3>1, <3>4
    <3> DEFINE plan == ban'.todo
    <3> HIDE DEF wait, todo, plan
    <3>6. \A t \in Waiting(reg) : f[t] \in Nat \ {0} /\ wait[t] \in Nat /\ f[t] <= wait[t]
      BY <3>2, <3>4
    <3>7. \A x : x \in plan <=> \E t \in Waiting(reg) : f[t] # wait[t] /\ x = <<f[t], t>>
      BY <3>5 DEF plan
    <3>8. /\ \A x \in plan : x[1] \in Nat \ {0} /\ x[2] \in Waiting(reg)
          /\ \A x, y \in plan : x # y => x[1] # y[1] /\ x[2] # y[2]
          /\ \A x \in plan : \A u \in Waiting(reg) \ {x[2]} :
               wait[u] = x[1] => \E y \in plan : y[2] = u /\ y[1] < x[1]
      <4>1. \A x \in plan : x[2] \in Waiting(reg) /\ x[1] = f[x[2]] /\ x = <<f[x[2]], x[2]>>
        BY <3>7
      <4>2. ASSUME NEW x \in plan, NEW u \in Waiting(reg) \ {x[2]}, wait[u] = x[1]
            PROVE  \E y \in plan : y[2] = u /\ y[1] < x[1]
        <5>1. f[u] # f[x[2]] /\ f[u] <= wait[u] /\ wait[u] = f[x[2]]
          BY <3>3, <3>6, <4>1, <4>2
        <5>2. f[u] < x[1] /\ f[u] # wait[u]
          BY <3>6, <4>1, <5>1
        <5>3. <<f[u], u>> \in plan
          BY <3>7, <5>2
        <5> QED BY <5>2, <5>3
      <4> QED BY <3>3, <3>6, <4>1, <4>2
    <3>9. reg' = reg
      BY <2>1
    <3> QED BY <3>4, <3>8, <3>9 DEF PlanIsSafe, plan
  <2>5. mode # "own"
    BY <2>1
  <2> QED BY <2>1, <2>4, <2>5 DEF Idle
<1>6. CASE BanWrite
  <2>1. PICK x \in ban.todo :
               /\ \A y \in ban.todo : x[1] <= y[1]
               /\ reg' = IF Active(reg[x[2]]) THEN [reg EXCEPT ![x[2]].wait = x[1]] ELSE reg
               /\ DropWritersOf({x[2]})
               /\ ban' = IF ban.todo = {x} THEN NoBan ELSE [ban EXCEPT !.todo = @ \ {x}]
    BY <1>6 DEF BanWrite
  <2>2. UNCHANGED <<session, imp, mode>> /\ ban.pc = "write" /\ PlanIsSafe
    BY <1>6 DEF BanWrite
  <2>3. reg' \in [Team -> Row]
    BY TypeBan DEF TypeOK
  <2>4. \A p \in Request : tx'[p] = Nothing
    BY <2>1, <2>2 DEF DropWritersOf, Idle
  <2> DEFINE t == x[2]
             n == x[1]
  <2>5. n \in Nat \ {0} /\ t \in Team /\ reg[t].status = "WAITLIST"
    BY <2>2 DEF PlanIsSafe, Waiting
  <2>6. reg' = [reg EXCEPT ![t].wait = n]
    BY <2>1, <2>5 DEF Active
  <2> HIDE DEF t, n
  <2>7. /\ \A u \in Team : reg'[u].status = reg[u].status /\ reg'[u].slot = reg[u].slot
        /\ \A u \in Team \ {t} : reg'[u] = reg[u]
        /\ reg'[t].wait = n
    BY <2>5, <2>6 DEF TypeOK, Row
  <2>8. \A u \in Waiting(reg) \ {t} : reg[u].wait # n
    <3> SUFFICES ASSUME NEW u \in Waiting(reg) \ {t}, reg[u].wait = n PROVE FALSE
      OBVIOUS
    <3>1. PICK y \in ban.todo : y[1] < n
      BY <2>2 DEF PlanIsSafe, t, n
    <3>2. y[1] \in Nat
      BY <2>2 DEF PlanIsSafe
    <3> QED BY <2>1, <2>5, <3>1, <3>2 DEF n
  <2>9. Proper(reg')
    BY <2>7 DEF Proper
  <2>10. Consistent(reg', session.slotCount)
    <3>1. Consistent([reg EXCEPT ![t].wait = n], session.slotCount)
      BY <2>5, <2>8, ConsistentMoved DEF TypeOK
    <3> QED BY <2>6, <3>1
  <2>11. ban'.pc = "write" => PlanIsSafe'
    <3> SUFFICES ASSUME ban'.pc = "write" PROVE PlanIsSafe'
      OBVIOUS
    <3>1. ban'.todo = ban.todo \ {x}
      BY <2>1 DEF NoBan, TypeOK
    <3>2. Waiting(reg') = Waiting(reg)
      BY <2>7 DEF Waiting
    <3>3. ASSUME NEW y \in ban.todo \ {x}, NEW u \in Waiting(reg) \ {y[2]}, reg'[u].wait = y[1]
          PROVE  \E z \in ban.todo \ {x} : z[2] = u /\ z[1] < y[1]
      <4>1. u # t
        BY <2>2, <2>7, <3>3 DEF PlanIsSafe, n
      <4>2. reg[u].wait = y[1]
        BY <2>7, <3>3, <4>1 DEF Waiting
      <4>3. PICK z \in ban.todo : z[2] = u /\ z[1] < y[1]
        BY <2>2, <4>2 DEF PlanIsSafe
      <4> QED BY <4>1, <4>3 DEF t
    <3> QED BY <2>2, <3>1, <3>2, <3>3 DEF PlanIsSafe
  <2>12. ban.pc # "idle"
    BY <2>2
  <2> QED BY <1>3, <2>2, <2>3, <2>4, <2>9, <2>10, <2>11, <2>12
<1>7. CASE BanCrash
  BY <1>7 DEF BanCrash, NoBan
<1> QED BY <1>1, <1>2, <1>4, <1>5, <1>6, <1>7 DEF BanStep

\* Where nothing is imported, every step leaves the rows usable.
LEMMA UsableStep == TypeOK /\ UsableInv /\ [Next]_vars => UsableInv'
<1> SUFFICES ASSUME TypeOK, UsableInv, [Next]_vars PROVE UsableInv'
  OBVIOUS
<1>1. mode' = mode
  BY ModeStays
<1>2. CASE mode \notin {"own", "bans"}
  BY <1>1, <1>2 DEF UsableInv
<1>3. CASE mode \in {"own", "bans"} /\ Next
  <2>1. ~ImportStep
    BY <1>3 DEF UsableInv, ImportStep, ImportBegin, ImportRow, ImportCommit, ImportFail
  <2> QED BY <1>3, <2>1, UsableMutation, UsableBan DEF Next
<1>4. CASE UNCHANGED vars
  BY <1>4 DEF vars, UsableInv, PlanIsSafe, Waiting, Idle
<1> QED BY <1>2, <1>3, <1>4

\* An empty session is usable.
LEMMA UsableInit == Init => UsableInv
<1> SUFFICES ASSUME Init PROVE UsableInv
  OBVIOUS
<1>1. reg \in [Team -> Row] /\ \A p \in Request : Apply(reg, tx[p]) = reg
  BY TypeInit, NothingApplied DEF TypeOK, Init
<1>2. Proper(reg) /\ Actives(reg) = {} /\ ~imp.on /\ ban.pc = "idle"
  BY DEF Init, Proper, Actives, Active, NoRow, NoImport, NoBan
<1>3. Consistent(reg, session.slotCount)
  BY <1>2 DEF Consistent
<1> QED BY <1>1, <1>2, <1>3 DEF UsableInv

\* SessionsService accepts every set of rows that it has left behind itself,
\* and those a ban that ran alone has left behind, even half done.
THEOREM RowsAlwaysUsable == Spec => []RowsStayUsable
<1>1. TypeOK /\ UsableInv => RowsStayUsable
  BY UsableIsConsistent DEF UsableInv, RowsStayUsable
<1> QED BY <1>1, UsableInit, UsableStep, TypeCorrect, PTL DEF Spec
-----------------------------------------------------------------------------
(* Imports leave alone what was registered by hand.                        *)

\* The teams an import may still take a place from.
Marked == imp.source \cup imp.written \cup {t \in Team : imp.mem[t].imported}

\* The inductive invariant: an import that locks the session has set its eyes on
\* no active team that was registered by hand, unless it is in its list.
SparesManual ==
  mode # "production" /\ imp.on =>
    /\ imp.locks
    /\ \A t \in Marked \ imp.taken : Active(reg[t]) => reg[t].imported

\* Only the steps of an import change its state.
LEMMA ImportStays == [Next]_vars /\ ~ImportStep => imp' = imp
BY DEF Next, Mutation, RegisterTeam, PlaceInSlot, PlaceOnWaitlist, RemoveRegistration,
       RemoveSlotRegistrations, Begin, Commit, RollBack, UpdateSession, BanStep, BanCreate,
       BanRevoke, BanRemove, BanRead, BanWrite, BanCrash, vars

\* While the import runs, rows only leave or change their position.
LEMMA RowsUnderImport ==
  ASSUME TypeOK, SparesManual, [Next]_vars, mode # "production", imp.on
  PROVE  \/ ImportCommit
         \/ \A t \in Team : /\ Active(reg'[t]) => Active(reg[t])
                            /\ Active(reg'[t]) => reg'[t].imported = reg[t].imported
<1> USE DEF SparesManual
<1> DEFINE Kept == \A t \in Team : /\ Active(reg'[t]) => Active(reg[t])
                                   /\ Active(reg'[t]) => reg'[t].imported = reg[t].imported
<1>0. ~Active(Deleted)
  BY DEF Active, Deleted, NoRow
<1>1. ASSUME reg' = reg PROVE Kept
  BY <1>1
<1>2. ASSUME NEW p \in Request, Mutation(p) PROVE Kept
  <2>1. reg' = reg
    BY <1>2 DEF Mutation, RegisterTeam, PlaceInSlot, PlaceOnWaitlist, RemoveRegistration,
                RemoveSlotRegistrations, Begin, Commit, RollBack
  <2> QED BY <1>1, <2>1
<1>3. ASSUME BanRemove PROVE Kept
  BY <1>0, <1>3 DEF BanRemove
<1>4. ASSUME BanWrite PROVE Kept
  <2>1. PICK x \in ban.todo :
               reg' = IF Active(reg[x[2]]) THEN [reg EXCEPT ![x[2]].wait = x[1]] ELSE reg
    BY <1>4 DEF BanWrite
  <2>2. \A t \in Team : reg'[t].status = reg[t].status /\ reg'[t].imported = reg[t].imported
    BY <2>1 DEF TypeOK, Row
  <2> QED BY <2>2 DEF Active
<1>5. ASSUME BanStep, ~BanRemove, ~BanWrite PROVE Kept
  <2>1. reg' = reg
    BY <1>5 DEF BanStep, BanCreate, BanRevoke, BanRead, BanCrash
  <2> QED BY <1>1, <2>1
<1>6. ASSUME UpdateSession \/ UNCHANGED vars PROVE Kept
  BY <1>1, <1>6 DEF UpdateSession, vars
<1>7. ASSUME ImportStep, ~ImportCommit PROVE Kept
  <2>1. reg' = reg
    BY <1>7 DEF ImportStep, ImportBegin, ImportRow, ImportFail
  <2> QED BY <1>1, <2>1
<1> HIDE DEF Kept
<1>8. ImportCommit \/ Kept
  BY <1>2, <1>3, <1>4, <1>5, <1>6, <1>7 DEF Next
<1> QED BY <1>8 DEF Kept

\* Every step keeps the eyes of an import off what was registered by hand.
LEMMA SparesStep == TypeOK /\ SparesManual /\ [Next]_vars => SparesManual'
<1> SUFFICES ASSUME TypeOK, SparesManual, [Next]_vars, mode # "production", imp'.on
             PROVE  /\ imp'.locks
                    /\ \A t \in (Marked \ imp.taken)' : Active(reg'[t]) => reg'[t].imported
  BY ModeStays DEF SparesManual
<1>1. CASE \E list \in Lists, locks \in BOOLEAN, n \in 1 .. MaxSlots : ImportBegin(list, locks, n)
  <2>1. /\ reg' = reg /\ imp'.locks /\ imp'.taken = {} /\ imp'.written = {}
        /\ imp'.mem = [t \in Team |-> IF Active(reg[t]) THEN reg[t] ELSE NoRow]
        /\ imp'.source = {t \in Actives(reg) : reg[t].imported}
    BY <1>1 DEF ImportBegin, NoImport
  <2> QED BY <2>1 DEF Marked, Actives, NoRow
<1>2. CASE imp.on
  <2>1. imp.locks /\ \A t \in Marked \ imp.taken : Active(reg[t]) => reg[t].imported
    BY <1>2 DEF SparesManual
  <2>2. ~ImportCommit /\ ~ImportFail
    BY DEF ImportCommit, ImportFail, NoImport
  <2>3. Marked \subseteq Team
    BY DEF Marked, TypeOK, Import
  <2>4. \A t \in Team : /\ Active(reg'[t]) => Active(reg[t])
                        /\ Active(reg'[t]) => reg'[t].imported = reg[t].imported
    BY <1>2, <2>2, RowsUnderImport
  <2>5. CASE ImportRow
    <3>1. PICK s \in DOMAIN imp.list :
             LET t        == imp.list[s]
                 holders  == {u \in Team \ {t} : imp.mem[u].slot = s}
                 manual   == {u \in holders : ~imp.mem[u].imported}
                 held     == Active(imp.mem[t])
                 placed(u) == IF u = t THEN Confirmed(s, TRUE)
                              ELSE IF u \notin holders THEN imp.mem[u]
                              ELSE IF held THEN Removed ELSE NoRow
                 rest     == [s2 \in DOMAIN imp.list \ {s} |-> imp.list[s2]]
             IN  IF t \in imp.taken \/ manual # {}
                 THEN imp' = [imp EXCEPT !.list = rest]
                 ELSE imp' = [imp EXCEPT !.list = rest, !.mem = [u \in Team |-> placed(u)],
                                !.written = @ \cup {t} \cup holders, !.taken = @ \cup {t}]
      BY <2>5, Zenon DEF ImportRow
    <3> DEFINE t       == imp.list[s]
               holders == {u \in Team \ {t} : imp.mem[u].slot = s}
               mem     == [u \in Team |-> IF u = t THEN Confirmed(s, TRUE)
                                          ELSE IF u \notin holders THEN imp.mem[u]
                                          ELSE IF Active(imp.mem[t]) THEN Removed ELSE NoRow]
    <3>2. \/ imp'.mem = imp.mem /\ imp'.written = imp.written /\ imp'.taken = imp.taken
          \/ /\ \A u \in holders : imp.mem[u].imported
             /\ imp'.mem = mem
             /\ imp'.written = imp.written \cup {t} \cup holders
             /\ imp'.taken = imp.taken \cup {t}
      <4>1. CASE t \in imp.taken \/ {u \in holders : ~imp.mem[u].imported} # {}
        <5>1. imp' = [imp EXCEPT !.list = [s2 \in DOMAIN imp.list \ {s} |-> imp.list[s2]]]
          BY <3>1, <4>1
        <5> QED BY <5>1 DEF TypeOK, Import
      <4>2. CASE ~(t \in imp.taken \/ {u \in holders : ~imp.mem[u].imported} # {})
        <5>1. imp' = [imp EXCEPT !.list = [s2 \in DOMAIN imp.list \ {s} |-> imp.list[s2]],
                        !.mem = mem, !.written = @ \cup {t} \cup holders, !.taken = @ \cup {t}]
          BY <3>1, <4>2
        <5>2. \A u \in holders : imp.mem[u].imported
          BY <4>2
        <5> HIDE DEF mem, holders, t
        <5> QED BY <5>1, <5>2 DEF TypeOK, Import
      <4> QED BY <4>1, <4>2
    <3>3. imp'.source = imp.source /\ imp'.locks = imp.locks
      BY <3>1 DEF TypeOK, Import
    <3>4. reg' = reg
      BY <2>5 DEF ImportRow
    <3> HIDE DEF t
    <3>5. (Marked \ imp.taken)' \subseteq Marked \ imp.taken
      BY <3>2, <3>3 DEF Marked
    <3> QED BY <2>1, <3>3, <3>4, <3>5
  <2>6. CASE ~ImportRow
    <3>1. imp' = imp
      BY <1>2, <2>2, <2>6, ImportStays DEF ImportStep, ImportBegin
    <3> QED BY <2>1, <2>3, <2>4, <3>1 DEF Marked
  <2> QED BY <2>5, <2>6
<1>3. CASE ~imp.on /\ ~(\E list \in Lists, locks \in BOOLEAN, n \in 1 .. MaxSlots :
                          ImportBegin(list, locks, n))
  <2>1. imp' = imp
    BY <1>3, ImportStays DEF ImportStep, ImportRow, ImportCommit, ImportFail
  <2> QED BY <1>3, <2>1 DEF NoImport
<1> QED BY <1>1, <1>2, <1>3

\* An import that writes the Session row leaves the teams it has not placed alone
\* if they were registered by hand, whatever requests and bans it overlaps with.
THEOREM ManualRegistrationsSpared == Spec => ImportsSpareManual
<1>1. Init => SparesManual
  BY DEF Init, NoImport, SparesManual
<1>2. TypeOK /\ SparesManual /\ [Next]_vars
        => [mode # "production" /\ imp.on /\ ~imp'.on
              => \A t \in Team \ imp.taken : Active(reg[t]) /\ ~reg[t].imported => reg'[t] = reg[t]]_vars
  <2> SUFFICES ASSUME TypeOK, SparesManual, Next, mode # "production", imp.on, ~imp'.on,
                      NEW t \in Team \ imp.taken, Active(reg[t]), ~reg[t].imported
               PROVE  reg'[t] = reg[t]
    OBVIOUS
  <2>1. t \notin Marked
    BY DEF SparesManual
  <2>2. CASE ImportCommit
    BY <2>1, <2>2 DEF ImportCommit, Marked
  <2>3. CASE ~ImportCommit
    <3>1. ~ImportRow
      BY DEF ImportRow, TypeOK, Import
    <3>2. ImportFail
      BY <2>3, <3>1, ImportStays DEF ImportStep, ImportBegin
    <3> QED BY <3>2 DEF ImportFail
  <2> QED BY <2>2, <2>3
<1> QED BY <1>1, <1>2, SparesStep, TypeCorrect, PTL DEF Spec, ImportsSpareManual

=============================================================================
