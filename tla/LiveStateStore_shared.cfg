SPECIFICATION Spec
CONSTANTS
  w1 = w1
  w2 = w2
  c1 = c1
  c2 = c2
  Writer = {w1, w2}
  Process = {c1, c2}
  Deployments <- SharedConnection
  Attempts = 2
  MaxVersion = 3
  MaxEvict = 1
PROPERTIES InitializedStays
CHECK_DEADLOCK FALSE
