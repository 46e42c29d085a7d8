SPECIFICATION Spec
CONSTANTS
  Team = {a, b, c}
  Request = {p, q}
  MaxSlots = 3
  FirstSlot = 2
  NormalSlots = 1
  VipSlots = 1
  Modes = {"own", "bans", "imports"}
INVARIANTS TypeOK NoDoubleBooking RowsStayUsable
PROPERTIES ClosedMeansClosed ImportsSpareManual KeepsTheSeatBook
CONSTRAINT SmallModel
SYMMETRY Symmetry
CHECK_DEADLOCK FALSE
