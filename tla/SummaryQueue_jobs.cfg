SPECIFICATION FairSpec
CONSTANTS
  None = None
  Jobs = {j1, j2}
  Workers = {w1, w2}
  MaxReviews = 1
  FaultSets = {
    {"api_down", "api_lost", "database"},
    {"api_down", "database", "sigterm"},
    {"api_down", "worker_redis", "pop_lost", "database", "crash", "expiry"} }
INVARIANTS
  TypeOK
  QueuedIsVisible
  NothingLost
  RefusedIsInert
  SummaryIsFresh
PROPERTIES
  KeepsQueueContract
  AcceptedIsAnswered
CHECK_DEADLOCK FALSE
