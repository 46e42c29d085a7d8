SPECIFICATION Spec
CONSTANTS
  Req = {p1}
  Session = {s1, s2}
  Ops = {"start", "end", "confirm", "ready", "pending", "unlock", "autoend", "packet", "note", "recover"}
  Versioned = FALSE
  MaxRun = 3
  MaxVersion = 9
  MaxCrash = 1
INVARIANTS FinishedHasThisRunsResults
CHECK_DEADLOCK FALSE
