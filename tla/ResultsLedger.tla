---------------------------- MODULE ResultsLedger ----------------------------
(***************************************************************************)
(* What match control promises about the results of a match, without       *)
(* requests, versions, locks or metadata.  A match is played in numbered   *)
(* runs.  The current run is open while it is being prepared and played,   *)
(* closed once play is over, and final once its results stand.  Results    *)
(* are published when a closed run becomes final, for that run, and only   *)
(* if none were published for it before; they are never taken back.        *)
(***************************************************************************)
EXTENDS Integers

CONSTANT MaxRun     \* bound: runs

VARIABLES
  phase,      \* "open", "closed" or "final"
  run,        \* the current run
  published   \* published[r]: how often results of run r were published

ledgerVars == <<phase, run, published>>

Phases == {"open", "closed", "final"}

Init ==
  /\ phase = "open" /\ run = 0
  /\ published = [r \in 0 .. MaxRun |-> 0]

\* A new run begins; the one before it can no longer become final.
StartRun ==
  /\ run < MaxRun
  /\ phase' = "open" /\ run' = run + 1
  /\ UNCHANGED published

\* An administrator reopens the run.
Reopen == phase' = "open" /\ UNCHANGED <<run, published>>

\* Play is over, or is declared over.
Close == phase' = "closed" /\ UNCHANGED <<run, published>>

\* The closed run becomes final, and its results are published unless they
\* already are.
Finalize ==
  /\ phase = "closed" /\ phase' = "final"
  /\ published' \in {published, [published EXCEPT ![run] = 1]}
  /\ published # published' => published[run] = 0
  /\ UNCHANGED run

Next == StartRun \/ Reopen \/ Close \/ Finalize

Spec == Init /\ [][Next]_ledgerVars

=============================================================================
