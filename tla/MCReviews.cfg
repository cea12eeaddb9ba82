SPECIFICATION RFairSpec
CONSTANTS
  p1 = p1
  None = None
  Customers = {c1}
  Providers = {p1}
  Admins = {}
  BookingIds = {b1}
  Times = {1, 2}
  Requests = {r1, r2}
  Creations <- AnySlot
  Patches <- ForwardPatches
  Reviewers = {q1, q2}
  Ratings = {1, 5}
  MaxReviews = 2
INVARIANTS
  RTypeOK
  OneReviewPerBooking
  ReviewedIsCompleted
PROPERTIES
  DeletedStaysDeleted
  ReviewRequestsEnd
CHECK_DEADLOCK FALSE
