SPECIFICATION FairSpec
CONSTANTS
  None = None
  Addresses = {a1, a2}
  Forms = {plain, shouted}
  Normal = plain
  Registrations = {r1, r2, r3}
INVARIANTS
  TypeOK
  OneAccountPerAddress
  AnswersAreTrue
PROPERTIES
  RegistrationsEnd
CHECK_DEADLOCK FALSE
