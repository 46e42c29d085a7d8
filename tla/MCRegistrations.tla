-------------------------- MODULE MCRegistrations --------------------------
(* Teams and requests are interchangeable. *)
EXTENDS Registrations, TLC

Symmetry == Permutations(Team) \cup Permutations(Request)

\* Bounds.  The waitlist stays enabled: disabling it only refuses requests.
\* With imports there are two teams and one mutation at a time.
Concerned == {t \in Team : \/ reg[t] # NoRow \/ t \in imp.written
                          \/ \E p \in Request : t \in DOMAIN tx[p]
                          \/ \E s \in DOMAIN imp.list : imp.list[s] = t}
SmallModel ==
  /\ session.waitlist
  /\ mode = "imports" => /\ Cardinality(Concerned) <= 2
                         /\ Cardinality({p \in Request : ~Idle(p)}) <= 1
=============================================================================
