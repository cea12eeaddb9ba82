SPECIFICATION PSpec
CONSTANTS
  None = None
  Absent = Absent
  Notes = {1, 2, 3}
  CreatedAt <- TwoTogether
  Readers = {r1, r2}
  MaxClock = 2
  Limit = 1
PROPERTIES
  ReadAtIsFinal
CHECK_DEADLOCK FALSE
