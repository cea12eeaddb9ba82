SPECIFICATION JFairSpec
CONSTANTS
  p1 = p1
  None = None
  Customers = {c1}
  Providers = {p1}
  Admins = {}
  BookingIds = {b1}
  Times = {2, 3, 4, 5}
  Requests = {r1}
  Creations <- EarlyAndLate
  Patches <- ForwardAndEarlier
  MaxTime = 4
  Interval = 1
  Window = 3
  MaxRestarts = 1
INVARIANTS
  JTypeOK
  BothOrNone
  NoticeAfterConfirmation
  RemindedInTime
PROPERTIES
  OverdueIsNoticed
CHECK_DEADLOCK FALSE
