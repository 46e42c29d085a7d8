SPECIFICATION Spec
CONSTANTS
  Handler = {h1, h2}
  Delta = 2
  Worlds = {"overlap"}
  MaxPackets = 2
  MaxLost = 0
  MaxSession = 1
  MaxRestart = 0
PROPERTY NeverGoesBack
CHECK_DEADLOCK FALSE
