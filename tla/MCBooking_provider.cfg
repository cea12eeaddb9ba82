SPECIFICATION PerProviderSpec
CONSTANTS
  p1 = p1
  None = None
  Customers = {c1}
  Providers = {p1, p2}
  Admins = {a1}
  BookingIds = {b1, b2}
  Times = {1, 2, 3}
  Requests = {r1, r2}
  Creations <- AnyProvider
  Patches <- EndPatches
PROPERTIES
  KeepsContract
SYMMETRY AnyOrder
CHECK_DEADLOCK FALSE
