SPECIFICATION FairSpec
CONSTANTS
  Requests = {r1, r2, r3}
  Threads = 2
  Connections = 1
INVARIANTS
  TypeOK
  NoLeak
PROPERTIES
  RequestsAreClosed
  LoopResumes
CHECK_DEADLOCK FALSE
