SPECIFICATION Spec
CONSTANTS
  Req = {p1, p2}
  Session = {s1}
  Ops = {"start", "end", "unlock"}
  Versioned = FALSE
  MaxRun = 2
  MaxVersion = 6
  MaxCrash = 0
SYMMETRY Requests
INVARIANTS FinishedHasThisRunsResults
CHECK_DEADLOCK FALSE
