SPECIFICATION PFairSpec
CONSTANTS
  None = None
  Absent = Absent
  Notes = {1, 2, 3}
  CreatedAt <- TwoTogether
  Readers = {r1, r2}
  MaxClock = 2
  Limit = 1
INVARIANTS
  PTypeOK
PROPERTIES
  BulkNeverOverwrites
  AllMarked
  PagingMissesNothing
  ReadersEnd
CHECK_DEADLOCK FALSE
