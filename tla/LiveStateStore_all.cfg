SPECIFICATION Spec
CONSTANTS
  w1 = w1
  w2 = w2
  c1 = c1
  c2 = c2
  Writer = {w1, w2}
  Process = {c1, c2}
  Deployments <- Supported
  Attempts = 2
  MaxVersion = 2
  MaxEvict = 1
INVARIANTS TypeOK
PROPERTIES ImplementsVersionedState ReplacesWhatItRead TelemetryKeepsWhatWasRead
CHECK_DEADLOCK FALSE
