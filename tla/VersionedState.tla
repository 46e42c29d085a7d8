--------------------------- MODULE VersionedState ---------------------------
(***************************************************************************)
(* What the live state store promises about the state of one match: it is  *)
(* absent, or a state with a version.  A save over a state moves the       *)
(* version on by exactly one, so that a version names one state until the  *)
(* match is evicted, and it never takes back that telemetry has been       *)
(* initialized.  Only an eviction removes the state.                       *)
(***************************************************************************)
EXTENDS Integers

VARIABLE stored     \* version, telemetry initialized, telemetry owned

State == [ver: Nat, init: BOOLEAN, tel: BOOLEAN]

\* No state is stored.
Absent == [ver |-> 0, init |-> FALSE, tel |-> FALSE]

Init == stored = Absent

\* The first save after an eviction, at whatever version the saver had in mind.
Create ==
  /\ stored = Absent
  /\ stored' \in State /\ stored'.ver > 0

Save ==
  /\ stored # Absent
  /\ stored' \in State
  /\ stored'.ver = stored.ver + 1
  /\ stored.init => stored'.init

Evict == stored' = Absent

Next == Create \/ Save \/ Evict

Spec == Init /\ [][Next]_stored

=============================================================================
