SPECIFICATION FairSpec
CONSTANTS
  Users = {u1, u2}
  MaxCommands = 3
  MaxCrashes = 2
INVARIANTS
  TypeOK
  VersionTellsDatabase
  FailsOnlyByRace
PROPERTIES
  ApiServes
CHECK_DEADLOCK FALSE
