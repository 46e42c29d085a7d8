SPECIFICATION Spec
CONSTANTS
  Req = {p1, p2}
  Session = {s1}
  Ops = {"start", "end", "confirm", "ready", "pending", "unlock", "autoend", "packet", "note", "recover"}
  Versioned = FALSE
  MaxRun = 2
  MaxVersion = 3
  MaxCrash = 1
SYMMETRY Requests
INVARIANTS TypeOK PublishedAtMostOnce FinalizationSafe
PROPERTIES FinishedOnlyFromPending ImplementsLedger
CHECK_DEADLOCK FALSE
