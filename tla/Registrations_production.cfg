SPECIFICATION Spec
CONSTANTS
  Team = {a, b}
  Request = {p}
  MaxSlots = 3
  FirstSlot = 2
  NormalSlots = 1
  VipSlots = 1
  Modes = {"production"}
INVARIANT NeverDoubleBooked
CHECK_DEADLOCK FALSE
