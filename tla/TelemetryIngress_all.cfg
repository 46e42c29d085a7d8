SPECIFICATION Spec
CONSTANTS
  Handler = {h1}
  Delta = 2
  Worlds = {"delayed", "ordered"}
  MaxPackets = 5
  MaxLost = 3
  MaxSession = 2
  MaxRestart = 1
INVARIANTS TypeOK AcknowledgedIsSaved RestartedSourceIsHeard
PROPERTIES NeverGoesBack
CHECK_DEADLOCK FALSE
