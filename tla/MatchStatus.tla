---------------------------- MODULE MatchStatus ----------------------------
(***************************************************************************)
(* The lifecycle vocabulary of apps/api/src/common/match-status.util.ts:   *)
(* how the two persisted columns (Match.status and                         *)
(* MatchControlState.state) and the resultFinalized flag of the control    *)
(* row's metaJson are folded into one public lifecycle status, and what    *)
(* that status locks.  Everything here is a total function of its          *)
(* arguments; the modules that act on matches extend it.                   *)
(***************************************************************************)

\* Match.status (enum MatchStatus of schema.prisma, the values in use).
MatchStatuses == {"DRAFT", "LIVE", "ENDED", "FINISH_PENDING", "FINISHED"}

\* MatchControlState.state: what the code persists, and the legacy PAUSED
\* and CONFIRMED that are only read.
ControlStates == {"READY", "COUNTDOWN", "LIVE", "PAUSED", "FINISH_PENDING",
                  "ENDED", "CONFIRMED"}

IsFinishedStatus(s)   == s \in {"FINISHED", "ENDED"}
IsFinalizingStatus(s) == s = "FINISH_PENDING"
IsStartable(s)        == s = "DRAFT"

\* The lifecycle a match row alone stands for.
LifecycleOfStatus(s) ==
  CASE s = "DRAFT"                       -> "READY"
    [] s = "LIVE"                        -> "LIVE"
    [] s \in {"FINISH_PENDING", "ENDED"} -> "FINISH_PENDING"
    [] s = "FINISHED"                    -> "FINISHED"

\* The lifecycle a control row alone stands for: PAUSED and ENDED are folded.
LifecycleOfControl(c) ==
  CASE c = "PAUSED"    -> "LIVE"
    [] c = "ENDED"     -> "FINISH_PENDING"
    [] c = "CONFIRMED" -> "FINISHED"
    [] OTHER           -> c

\* The control state a writer falls back on when it has only the match row.
ControlOfStatus(s) ==
  CASE s = "LIVE"           -> "LIVE"
    [] s = "FINISH_PENDING" -> "FINISH_PENDING"
    [] OTHER                -> "READY"

\* deriveCanonicalMatchLifecycleStatus: the match row decides once play is
\* over, then the control row, then the finalized flag.
Lifecycle(s, c, finalized) ==
  LET ml == LifecycleOfStatus(s)
      cl == LifecycleOfControl(c)
  IN CASE ml = "FINISHED"                       -> "FINISHED"
       [] ml = "FINISH_PENDING"                 -> "FINISH_PENDING"
       [] cl = "FINISHED"                       -> "FINISHED"
       [] cl = "FINISH_PENDING" /\ finalized    -> "FINISHED"
       [] cl = "FINISH_PENDING" /\ ~finalized   -> "FINISH_PENDING"
       [] cl \in {"COUNTDOWN", "LIVE"}          -> cl
       [] cl = "READY" /\ finalized             -> "FINISHED"
       [] cl = "READY" /\ ~finalized            -> ml

=============================================================================
