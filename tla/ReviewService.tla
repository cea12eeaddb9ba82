--------------------------- MODULE ReviewService ---------------------------
(***************************************************************************)
(* Reviews of completed bookings, written while the booking requests of    *)
(* BookingService run.  A review request reads the booking in one          *)
(* statement, looks for an earlier review in another and inserts in a      *)
(* third; what makes the reviews of a booking at most one is the unique    *)
(* index, at which the INSERT waits.                                       *)
(***************************************************************************)
EXTENDS BookingService

CONSTANTS
  Reviewers,   \* request threads of the review endpoints
  Ratings,     \* the ratings clients send
  MaxReviews   \* bound on the reviews ever written

ASSUME ReviewAssumption ==
  /\ Ratings \subseteq 1..5
  /\ MaxReviews \in Nat
  /\ None \notin Ratings

VARIABLES
  reviews,   \* committed rows of table reviews
  drawn,     \* the number of review ids drawn so far
  rpc,       \* the next statement of each review request
  rtxn,      \* its row: to be inserted, or as loaded; and the new rating
  overwritten  \* history: bookings whose completion a stale request undid

rvars == <<reviews, drawn, rpc, rtxn>>

(* comment is a second field that no rule reads and is left out; the       *)
(* provider is the one of the booking.                                     *)
Review == [id: 1..MaxReviews, booking: BookingIds, customer: Users,
           rating: Ratings]

NoReview == [row |-> None, rating |-> None]

RInit ==
  /\ Init
  /\ reviews = {}
  /\ drawn = 0
  /\ rpc = [q \in Reviewers |-> "idle"]
  /\ rtxn = [q \in Reviewers |-> NoReview]
  /\ overwritten = {}

Goto(q, stmt) == rpc' = [rpc EXCEPT ![q] = stmt]

(* The request is answered and its session closed.                         *)
End(q) ==
  /\ Goto(q, "idle")
  /\ rtxn' = [rtxn EXCEPT ![q] = NoReview]

-----------------------------------------------------------------------------
(* Slip: a customer may review as soon as the booking is confirmed.        *)
ReviewableEarly(u, b) ==
  /\ Role(u) = "customer"
  /\ Exists(b)
  /\ bookings[b].customer = u
  /\ bookings[b].status \in {"confirmed", "completed"}

(* The booking must be a completed one of the caller, a customer.          *)
Reviewable(u, b) ==
  /\ Role(u) = "customer"
  /\ Exists(b)
  /\ bookings[b].customer = u
  /\ bookings[b].status = "completed"

(* POST /reviews, up to the check of the booking.                          *)
create_review(q, u, b, rating) ==
  LET row == [id |-> drawn + 1, booking |-> b, customer |-> u,
              rating |-> rating]
  IN  /\ rpc[q] = "idle"
      /\ drawn < MaxReviews
      /\ Reviewable(u, b)
      /\ drawn' = drawn + 1
      /\ Goto(q, "query")
      /\ rtxn' = [rtxn EXCEPT ![q] = [row |-> row, rating |-> rating]]
      /\ UNCHANGED reviews

Reviewed(b) == \E row \in reviews : row.booking = b

(* The query for an earlier review: 409, or go on.                         *)
existing_review(q) ==
  /\ rpc[q] = "query"
  /\ \/ Reviewed(rtxn[q].row.booking) /\ End(q)
     \/ /\ ~Reviewed(rtxn[q].row.booking)
        /\ Goto(q, "insert")
        /\ UNCHANGED rtxn
  /\ UNCHANGED <<reviews, drawn>>

Written == {"inserted", "updated", "deleted"}

(* The rows other transactions have written and not committed.             *)
Pending(q, kinds) ==
  {rtxn[o].row : o \in {x \in Reviewers \ {q} : rpc[x] \in kinds}}

(* Slip: the table has no unique index.                                    *)
InsertReviewAlways(q) ==
  /\ rpc[q] = "insert"
  /\ Goto(q, "inserted")
  /\ UNCHANGED <<reviews, drawn, rtxn>>

(* Slip: a duplicate is tried again.                                       *)
InsertReviewRetry(q) ==
  LET b == rtxn[q].row.booking
  IN  /\ rpc[q] = "insert"
      /\ \A row \in Pending(q, {"inserted", "deleted"}) : row.booking # b
      /\ IF Reviewed(b) THEN UNCHANGED rpc ELSE Goto(q, "inserted")
      /\ UNCHANGED <<reviews, drawn, rtxn>>

(* INSERT: waits for a transaction that inserted or deleted a review of    *)
(* the same booking, and is a 409 if there is one then.                    *)
insert_review(q) ==
  LET b == rtxn[q].row.booking
  IN  /\ rpc[q] = "insert"
      /\ \A row \in Pending(q, {"inserted", "deleted"}) : row.booking # b
      /\ \/ Reviewed(b) /\ End(q)
         \/ ~Reviewed(b) /\ Goto(q, "inserted") /\ UNCHANGED rtxn
      /\ UNCHANGED <<reviews, drawn>>

-----------------------------------------------------------------------------
(* PATCH and DELETE /reviews/{id}, up to the commit().  A PATCH may leave   *)
(* the rating out.                                                         *)
update_review(q, u, row, rating) ==
  /\ rpc[q] = "idle"
  /\ Role(u) = "customer" /\ row.customer = u
  /\ Goto(q, "update")
  /\ rtxn' = [rtxn EXCEPT ![q] = [row |-> row,
                                  rating |-> Given(rating, row.rating)]]
  /\ UNCHANGED <<reviews, drawn>>

delete_review(q, u, row) ==
  /\ rpc[q] = "idle"
  /\ Role(u) = "admin" \/ (Role(u) = "customer" /\ row.customer = u)
  /\ Goto(q, "delete")
  /\ rtxn' = [rtxn EXCEPT ![q] = [row |-> row, rating |-> row.rating]]
  /\ UNCHANGED <<reviews, drawn>>

Stored(id) == \E row \in reviews : row.id = id

(* Slip: a row that is gone counts as written.                             *)
FlushReviewBlindly(q) ==
  /\ rpc[q] \in {"update", "delete"}
  /\ Goto(q, IF rpc[q] = "update" THEN "updated" ELSE "deleted")
  /\ UNCHANGED <<reviews, drawn, rtxn>>

(* The UPDATE or DELETE by primary key waits for the row.  A rating that   *)
(* is the loaded one sends no UPDATE.  A row that is gone makes an UPDATE  *)
(* an error; a DELETE finds nothing to do.                                 *)
flush_review(q) ==
  LET t == rtxn[q]
      unchanged == rpc[q] = "update" /\ t.rating = t.row.rating
  IN  /\ rpc[q] \in {"update", "delete"}
      /\ unchanged \/ \A row \in Pending(q, {"updated", "deleted"}) :
                        row.id # t.row.id
      /\ \/ (unchanged \/ ~Stored(t.row.id)) /\ End(q)
         \/ /\ ~unchanged /\ Stored(t.row.id)
            /\ Goto(q, IF rpc[q] = "update" THEN "updated" ELSE "deleted")
            /\ UNCHANGED rtxn
      /\ UNCHANGED <<reviews, drawn>>

(* COMMIT of the one row the transaction wrote.                            *)
commit_review(q) ==
  LET t == rtxn[q]
      others == {row \in reviews : row.id # t.row.id}
  IN  /\ rpc[q] \in Written
      /\ reviews' = IF rpc[q] = "deleted" THEN others
                    ELSE others \cup {[t.row EXCEPT !.rating = t.rating]}
      /\ End(q)
      /\ UNCHANGED drawn

(* A statement fails or the process dies before the COMMIT.                *)
abort_review(q) ==
  /\ rpc[q] # "idle"
  /\ End(q)
  /\ UNCHANGED <<reviews, drawn>>

-----------------------------------------------------------------------------
ReviewArrive(q) ==
  \E u \in Users :
    \/ \E b \in BookingIds, rating \in Ratings : create_review(q, u, b, rating)
    \/ \E row \in reviews :
         \/ \E rating \in Ratings \cup {None} : update_review(q, u, row, rating)
         \/ delete_review(q, u, row)

ReviewProceed(q) ==
  \/ existing_review(q)
  \/ insert_review(q)
  \/ flush_review(q)
  \/ commit_review(q)

ReviewNext ==
  /\ \E q \in Reviewers : ReviewArrive(q) \/ ReviewProceed(q) \/ abort_review(q)
  /\ UNCHANGED vars

(* Booking request r is about to replace a completed status it never saw.  *)
Overwrites(r) ==
  LET t == txn[r]
  IN  /\ bookings[t.bid].status = "completed"
      /\ t.old.status # "completed"
      /\ t.new.status \notin {t.old.status, "completed"}

BookingNext ==
  /\ Next
  /\ UNCHANGED rvars
  /\ overwritten' =
       overwritten \cup
         {txn[r].bid : r \in {x \in Requests : Commit(x) /\ Overwrites(x)}}

rall == <<vars, rvars, overwritten>>

RSpec ==
  RInit /\ [][(ReviewNext /\ UNCHANGED overwritten) \/ BookingNext]_rall

(* Threads run, and PostgreSQL wakes whoever waits for a row or a key.     *)
RFairSpec ==
  /\ RSpec
  /\ \A q \in Reviewers :
       /\ WF_rall((existing_review(q) \/ commit_review(q))
                    /\ UNCHANGED <<vars, overwritten>>)
       /\ SF_rall((insert_review(q) \/ flush_review(q))
                    /\ UNCHANGED <<vars, overwritten>>)

-----------------------------------------------------------------------------
ReviewTypes ==
  /\ TypeOK
  /\ reviews \subseteq Review
  /\ drawn \in 0..MaxReviews
  /\ rpc \in [Reviewers ->
       {"idle", "query", "insert", "update", "delete"} \cup Written]
  /\ rtxn \in [Reviewers -> [row: Review \cup {None},
                             rating: Ratings \cup {None}]]

RTypeOK == ReviewTypes /\ overwritten \subseteq BookingIds

(* "At most one review per booking", although two requests may both find   *)
(* none and deletions make room for new ones.                              *)
OneReviewPerBooking ==
  \A x, y \in reviews : x.booking = y.booking => x = y

(* A review that was deleted is not brought back by an update that had     *)
(* loaded it: every row that appears is one just inserted.                 *)
DeletedStaysDeleted ==
  [][\A row \in reviews' :
       Stored(row.id) \/ \E q \in Reviewers :
                           rpc[q] = "inserted" /\ rtxn[q].row = row]_rall

(* "One review per completed booking": what a review is about was a        *)
(* completed booking when create_review looked, and still is, unless a     *)
(* booking request that had loaded it before overwrote that status, before *)
(* or after the review was committed.  Nothing else takes the ground from  *)
(* under a review, and no review is of a booking that was never completed. *)
ReviewedIsCompleted ==
  \A row \in reviews :
    \/ Exists(row.booking) /\ bookings[row.booking].status = "completed"
    \/ row.booking \in overwritten

(* Every review request is answered, whatever locks the others take.       *)
ReviewRequestsEnd ==
  \A q \in Reviewers : rpc[q] # "idle" ~> rpc[q] = "idle"
=============================================================================
