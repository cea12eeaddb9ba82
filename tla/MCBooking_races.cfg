SPECIFICATION FairSpec
CONSTANTS
  p1 = p1
  None = None
  Customers = {c1}
  Providers = {p1}
  Admins = {a1}
  BookingIds = {b1}
  Times = {1, 2, 3}
  Requests = {r1, r2}
  Creations <- WholeDay
  Patches <- AllPatches
INVARIANTS
  TypeOK
  ValidIntervals
  LifecycleNotified
  NoWaitCycle
PROPERTIES
  RequestsEnd
CHECK_DEADLOCK FALSE
