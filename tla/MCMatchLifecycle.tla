-------------------------- MODULE MCMatchLifecycle --------------------------
(* Model values and views for the MatchLifecycle runs. *)
EXTENDS MatchLifecycle, TLC

Requests == Permutations(Req)
=============================================================================
