SPECIFICATION Spec
CONSTANTS
  p1 = p1
  None = None
  Customers = {c1}
  Providers = {p1}
  Admins = {a1}
  BookingIds = {b1}
  Times = {1, 2}
  Requests = {r1, r2}
  Creations <- AnySlot
  Patches <- ConfirmOnly
PROPERTIES
  TerminalIsFinal
CHECK_DEADLOCK FALSE
