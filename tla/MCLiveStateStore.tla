-------------------------- MODULE MCLiveStateStore --------------------------
(* Deployments of LiveStateStore. *)
EXTENDS LiveStateStore

CONSTANTS w1, w2, c1, c2

\* Both publishes in one process, or each in its own.
Together == [w \in Writer |-> c1]
Apart    == [w \in Writer |-> IF w = w1 THEN c1 ELSE c2]

\* Redis with a save at a time on each connection, or the map of one process.
Supported == {[redis |-> TRUE, home |-> Apart], [redis |-> FALSE, home |-> Together]}

\* Redis, and both publishes on one connection.
SharedConnection == {[redis |-> TRUE, home |-> Together]}
=============================================================================
