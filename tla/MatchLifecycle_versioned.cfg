SPECIFICATION FairSpec
CONSTANTS
  Req = {p1, p2}
  Session = {s1}
  Ops = {"start", "end", "confirm", "ready", "pending", "unlock", "autoend", "recover"}
  Versioned = TRUE
  MaxRun = 2
  MaxVersion = 3
  MaxCrash = 1
INVARIANTS RowsAgree
PROPERTIES PendingMatchIsResolved
CHECK_DEADLOCK FALSE
