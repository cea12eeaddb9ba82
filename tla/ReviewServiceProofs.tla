------------------------ MODULE ReviewServiceProofs ------------------------
(***************************************************************************)
(* Safety of ReviewService beside any number of booking and review         *)
(* requests.  The query for an earlier review proves nothing about the     *)
(* moment of the INSERT and is no part of the argument: the inductive      *)
(* invariant says what each session holds (ReviewSession) and what two of  *)
(* them cannot both hold (Apart).                                          *)
(***************************************************************************)
EXTENDS ReviewService, BookingServiceProofs

Creating == {"query", "insert", "inserted"}
Rewriting == {"update", "delete", "updated", "deleted"}
Locking == {"updated", "deleted"}

(* A creator's id is in no row; a row under another's id is about the      *)
(* booking its session loaded; a written row is there, an inserted one has *)
(* its booking for itself.                                                 *)
ReviewSession(q) ==
  LET t == rtxn[q]
  IN  /\ rpc[q] # "idle" =>
           t.row \in Review /\ t.rating \in Ratings /\ t.row.id <= drawn
      /\ rpc[q] \in Creating => t.rating = t.row.rating /\ ~Stored(t.row.id)
      /\ rpc[q] \in Rewriting =>
           \A row \in reviews :
             row.id = t.row.id => row.booking = t.row.booking
      /\ rpc[q] \in Locking => Stored(t.row.id)
      /\ rpc[q] = "inserted" => ~Reviewed(t.row.booking)

(* A creator's id is its own; keys and rows have one holder.               *)
Apart(q, o) ==
  /\ rpc[q] \in Creating /\ rpc[o] # "idle"
       => rtxn[q].row.id # rtxn[o].row.id
  /\ rpc[q] = "inserted" /\ rpc[o] = "inserted"
       => rtxn[q].row.booking # rtxn[o].row.booking
  /\ rpc[q] \in Locking /\ rpc[o] \in Locking
       => rtxn[q].row.id # rtxn[o].row.id

UniqueReviews ==
  /\ OneReviewPerBooking
  /\ \A x, y \in reviews : x.id = y.id => x = y
  /\ \A x \in reviews : x.id <= drawn

ReviewInv ==
  /\ Sessions
  /\ ReviewTypes
  /\ UniqueReviews
  /\ \A q \in Reviewers : ReviewSession(q)
  /\ \A q, o \in Reviewers : q # o => Apart(q, o)

-----------------------------------------------------------------------------
LEMMA InitReviews == RInit => ReviewInv
<1> SUFFICES ASSUME RInit PROVE ReviewInv
  OBVIOUS
<1>1. Sessions /\ TypeOK
  BY InitSessions DEF RInit, Sessions
<1>2. ReviewTypes
  BY <1>1, ReviewAssumption DEF RInit, ReviewTypes, NoReview
<1> QED
  BY <1>1, <1>2
  DEF RInit, ReviewInv, UniqueReviews, OneReviewPerBooking, ReviewSession,
      Apart, Creating, Rewriting, Locking

(* A step of one request that stores nothing: the others' sessions are as  *)
(* they were, its own has to be shown in order and apart from theirs.      *)
LEMMA QuietReviews ==
  ASSUME ReviewInv, NEW q \in Reviewers,
         NEW stmt \in {"idle", "query", "insert", "update", "delete"}
                        \cup Written,
         NEW t \in [row : Review \cup {None}, rating : Ratings \cup {None}],
         rpc' = [rpc EXCEPT ![q] = stmt], rtxn' = [rtxn EXCEPT ![q] = t],
         UNCHANGED <<vars, reviews>>,
         drawn' \in 0..MaxReviews, drawn <= drawn',
         ReviewSession(q)',
         \A o \in Reviewers \ {q} : Apart(q, o)' /\ Apart(o, q)'
  PROVE  ReviewInv'
<1>1. Sessions' /\ TypeOK'
  BY DEF ReviewInv, Sessions, vars, TypeOK, FreshIds, SessionOK
<1>2. ReviewTypes'
  BY <1>1 DEF ReviewInv, ReviewTypes
<1>3. drawn \in Nat /\ drawn' \in Nat /\ reviews \subseteq Review
  BY ReviewAssumption DEF ReviewInv, ReviewTypes
<1>4. \A row \in Review : row.id \in Nat
  BY DEF Review
<1>5. UniqueReviews'
  BY <1>3, <1>4 DEF ReviewInv, UniqueReviews, OneReviewPerBooking
<1>6. \A o \in Reviewers \ {q} : rpc'[o] = rpc[o] /\ rtxn'[o] = rtxn[o]
  BY DEF ReviewInv, ReviewTypes
<1>7. ASSUME NEW o \in Reviewers PROVE ReviewSession(o)'
  <2>1. CASE o # q
    BY <1>3, <1>4, <1>6, <2>1
    DEF ReviewInv, ReviewSession, Stored, Reviewed
  <2> QED
    BY <2>1
<1>8. ASSUME NEW o \in Reviewers, NEW p \in Reviewers, o # p PROVE Apart(o, p)'
  <2>1. CASE o # q /\ p # q
    BY <1>6, <1>8, <2>1 DEF ReviewInv, Apart
  <2> QED
    BY <1>8, <2>1
<1> QED
  BY <1>1, <1>2, <1>5, <1>7, <1>8 DEF ReviewInv

(* A request that ends without a COMMIT.                                   *)
LEMMA EndReviews ==
  ASSUME ReviewInv, NEW q \in Reviewers, End(q),
         UNCHANGED <<vars, reviews, drawn>>
  PROVE  ReviewInv'
<1>1. /\ NoReview \in [row : Review \cup {None}, rating : Ratings \cup {None}]
      /\ drawn' \in 0..MaxReviews /\ drawn <= drawn'
      /\ UNCHANGED <<vars, reviews>>
  BY ReviewAssumption DEF NoReview, ReviewInv, ReviewTypes
<1>2. /\ rpc' = [rpc EXCEPT ![q] = "idle"]
      /\ rtxn' = [rtxn EXCEPT ![q] = NoReview]
  BY DEF End, Goto
<1>3. rpc'[q] = "idle"
  BY <1>2 DEF ReviewInv, ReviewTypes
<1>4. /\ ReviewSession(q)'
      /\ \A o \in Reviewers : Apart(q, o)' /\ Apart(o, q)'
  BY <1>3 DEF ReviewSession, Apart, Creating, Rewriting, Locking
<1> QED
  BY <1>1, <1>2, <1>4, QuietReviews

(* A request that goes on to stmt with the session it has.                 *)
LEMMA AdvanceReviews ==
  ASSUME ReviewInv, NEW q \in Reviewers,
         NEW stmt \in {"insert", "inserted", "updated", "deleted"},
         Goto(q, stmt), UNCHANGED <<vars, reviews, drawn, rtxn>>,
         stmt = "insert" => rpc[q] = "query",
         stmt = "inserted" =>
           /\ rpc[q] = "insert" /\ ~Reviewed(rtxn[q].row.booking)
           /\ \A row \in Pending(q, {"inserted"}) :
                row.booking # rtxn[q].row.booking,
         stmt \in Locking =>
           /\ rpc[q] \in {"update", "delete"} /\ Stored(rtxn[q].row.id)
           /\ \A row \in Pending(q, Locking) : row.id # rtxn[q].row.id
  PROVE  ReviewInv'
<1>0. rtxn \in [Reviewers -> [row : Review \cup {None},
                              rating : Ratings \cup {None}]]
  BY DEF ReviewInv, ReviewTypes
<1>1. /\ rpc' = [rpc EXCEPT ![q] = stmt]
      /\ rtxn' = [rtxn EXCEPT ![q] = rtxn[q]]
      /\ rtxn[q] \in [row : Review \cup {None}, rating : Ratings \cup {None}]
      /\ drawn' \in 0..MaxReviews /\ drawn <= drawn'
      /\ UNCHANGED <<vars, reviews>>
      /\ stmt \in {"idle", "query", "insert", "update", "delete"} \cup Written
  BY <1>0, ReviewAssumption DEF Goto, ReviewInv, ReviewTypes, Written
<1>2. \A o \in Reviewers : rpc'[o] = IF o = q THEN stmt ELSE rpc[o]
  BY <1>1 DEF ReviewInv, ReviewTypes
<1>3. rpc[q] \in Creating <=> stmt \notin Locking
  BY DEF Creating, Locking
<1>4. rpc[q] # "idle" /\ (rpc[q] \in Rewriting <=> stmt \in Locking)
  BY DEF Rewriting, Locking
<1>5. ReviewSession(q)'
  <2>1. ReviewSession(q) /\ UNCHANGED <<reviews, drawn, rtxn>> /\ rpc'[q] = stmt
    BY <1>2 DEF ReviewInv
  <2> QED
    BY <1>3, <1>4, <2>1
    DEF ReviewSession, Stored, Reviewed, Creating, Rewriting, Locking
<1>6. ASSUME NEW o \in Reviewers \ {q} PROVE Apart(q, o)' /\ Apart(o, q)'
  <2>1. Apart(q, o) /\ Apart(o, q)
    BY DEF ReviewInv
  <2>2. \A kinds : rpc[o] \in kinds => rtxn[o].row \in Pending(q, kinds)
    BY DEF Pending
  <2>3. rtxn' = rtxn /\ rpc'[q] = stmt /\ rpc'[o] = rpc[o]
    BY <1>2
  <2> QED
    BY <1>3, <1>4, <2>1, <2>2, <2>3 DEF Apart, Creating, Locking
<1> QED
  BY <1>1, <1>5, <1>6, QuietReviews

-----------------------------------------------------------------------------
(* COMMIT: the stored rows change by one row, under an id and for a        *)
(* booking that are nobody else's.                                         *)
LEMMA CommitReviews ==
  ASSUME ReviewInv, NEW q \in Reviewers, commit_review(q), UNCHANGED vars
  PROVE  ReviewInv'
<1> DEFINE t == rtxn[q]
           new == [t.row EXCEPT !.rating = t.rating]
           others == {row \in reviews : row.id # t.row.id}
<1>0. /\ reviews \subseteq Review /\ drawn \in Nat
      /\ \A row \in Review : row.id \in Nat
      /\ rpc \in [Reviewers ->
           {"idle", "query", "insert", "update", "delete"} \cup Written]
      /\ rtxn \in [Reviewers -> [row : Review \cup {None},
                                 rating : Ratings \cup {None}]]
  BY ReviewAssumption DEF ReviewInv, ReviewTypes, Review
<1>1. /\ rpc[q] \in Written
      /\ reviews' = IF rpc[q] = "deleted" THEN others ELSE others \cup {new}
      /\ UNCHANGED drawn
      /\ rpc' = [rpc EXCEPT ![q] = "idle"]
      /\ rtxn' = [rtxn EXCEPT ![q] = NoReview]
  BY DEF commit_review, End, Goto
<1>2. ReviewSession(q) /\ rpc[q] # "idle"
  BY <1>1 DEF ReviewInv, Written
<1>3. /\ t.row \in Review /\ new \in Review
      /\ new.id = t.row.id /\ new.booking = t.row.booking /\ new.id <= drawn
  BY <1>2 DEF ReviewSession, Review
<1>4. ASSUME rpc[q] # "deleted", NEW row \in others
      PROVE  row.booking # new.booking
  <2>1. CASE rpc[q] = "inserted"
    BY <1>2, <1>3, <2>1 DEF ReviewSession, Reviewed
  <2>2. CASE rpc[q] = "updated"
    <3>1. PICK old \in reviews : old.id = t.row.id
      BY <1>2, <2>2 DEF ReviewSession, Locking, Stored
    <3>2. old.booking = t.row.booking
      BY <1>2, <2>2, <3>1 DEF ReviewSession, Rewriting
    <3> QED
      BY <1>3, <3>1, <3>2 DEF ReviewInv, UniqueReviews, OneReviewPerBooking
  <2> QED
    BY <1>1, <1>4, <2>1, <2>2 DEF Written
<1>5. NoReview \in [row : Review \cup {None}, rating : Ratings \cup {None}]
  BY DEF NoReview
<1>6. Sessions' /\ ReviewTypes'
  <2>1. Sessions' /\ TypeOK'
    BY DEF ReviewInv, Sessions, vars, TypeOK, FreshIds, SessionOK
  <2>2. reviews' \subseteq Review
    BY <1>0, <1>1, <1>3
  <2> HIDE DEF new, others
  <2> QED
    BY <1>1, <1>5, <2>1, <2>2 DEF ReviewInv, ReviewTypes
<1>7. UniqueReviews'
  <2>1. \A x \in others : x \in reviews /\ x.id # new.id
    BY <1>3
  <2> HIDE DEF new, others
  <2> QED
    BY <1>1, <1>3, <1>4, <2>1
    DEF ReviewInv, UniqueReviews, OneReviewPerBooking
<1>8. \A o \in Reviewers :
        /\ rpc'[o] = IF o = q THEN "idle" ELSE rpc[o]
        /\ o # q => rtxn'[o] = rtxn[o]
  BY <1>0, <1>1
<1>9. ASSUME NEW o \in Reviewers PROVE ReviewSession(o)'
  <2>1. CASE o = q
    BY <1>8, <2>1 DEF ReviewSession, Creating, Rewriting, Locking
  <2>2. CASE o # q
    <3>1. ReviewSession(o) /\ Apart(q, o) /\ Apart(o, q)
      BY <2>2 DEF ReviewInv
    <3>2. rpc'[o] = rpc[o] /\ rtxn'[o] = rtxn[o] /\ drawn' = drawn
      BY <1>1, <1>8, <2>2
    <3>3. ASSUME rpc[o] \in Creating PROVE ~Stored(rtxn[o].row.id)'
      BY <1>1, <1>2, <1>3, <3>1, <3>2, <3>3
      DEF ReviewSession, Apart, Stored, Creating
    <3>4. ASSUME rpc[o] \in Rewriting, NEW row \in reviews',
                 row.id = rtxn[o].row.id
          PROVE  row.booking = rtxn[o].row.booking
      <4>1. CASE row \in reviews
        BY <3>1, <3>4, <4>1 DEF ReviewSession
      <4>2. CASE row \notin reviews
        <5>1. row = new /\ rpc[q] # "deleted" /\ rtxn[o].row.id = t.row.id
          BY <1>1, <1>3, <3>4, <4>2
        <5>2. rpc[q] = "updated"
          <6>1. rpc[q] # "inserted"
            BY <3>1, <3>4, <5>1 DEF Apart, Creating, Rewriting
          <6> QED
            BY <1>1, <5>1, <6>1 DEF Written
        <5>3. PICK old \in reviews : old.id = t.row.id
          BY <1>2, <5>2 DEF ReviewSession, Locking, Stored
        <5>4. old.booking = t.row.booking
          BY <1>2, <5>2, <5>3 DEF ReviewSession, Rewriting
        <5>5. old.booking = rtxn[o].row.booking
          BY <3>1, <3>4, <5>1, <5>3 DEF ReviewSession
        <5> QED
          BY <1>3, <5>1, <5>4, <5>5
      <4> QED
        BY <4>1, <4>2
    <3>5. ASSUME rpc[o] \in Locking PROVE Stored(rtxn[o].row.id)'
      <4>1. PICK row \in reviews : row.id = rtxn[o].row.id
        BY <3>1, <3>5 DEF ReviewSession, Stored
      <4>2. CASE row.id # t.row.id
        <5>1. row \in reviews'
          BY <1>1, <4>2
        <5> QED
          BY <3>2, <4>1, <5>1 DEF Stored
      <4>3. CASE row.id = t.row.id
        <5>1. rpc[q] = "inserted"
          BY <1>1, <3>1, <3>5, <4>1, <4>3 DEF Apart, Written, Locking
        <5> QED
          BY <1>2, <4>1, <4>3, <5>1 DEF ReviewSession, Creating, Stored
      <4> QED
        BY <4>2, <4>3
    <3>6. ASSUME rpc[o] = "inserted" PROVE ~Reviewed(rtxn[o].row.booking)'
      <4>1. ASSUME NEW row \in reviews' PROVE row.booking # rtxn[o].row.booking
        <5>1. CASE row \in reviews
          BY <3>1, <3>6, <5>1 DEF ReviewSession, Reviewed
        <5>2. CASE row = new /\ rpc[q] = "inserted"
          BY <1>3, <3>1, <3>6, <5>2 DEF Apart
        <5>3. CASE row = new /\ rpc[q] = "updated"
          <6>1. PICK old \in reviews : old.id = t.row.id
            BY <1>2, <5>3 DEF ReviewSession, Locking, Stored
          <6>2. old.booking = t.row.booking
            BY <1>2, <5>3, <6>1 DEF ReviewSession, Rewriting
          <6> QED
            BY <1>3, <3>1, <3>6, <5>3, <6>1, <6>2
            DEF ReviewSession, Reviewed
        <5> QED
          BY <1>1, <5>1, <5>2, <5>3 DEF Written
      <4> QED
        BY <3>2, <4>1 DEF Reviewed
    <3> HIDE DEF new, others, t
    <3> QED
      BY <3>1, <3>2, <3>3, <3>4, <3>5, <3>6
      DEF ReviewSession
  <2> QED
    BY <2>1, <2>2
<1>10. ASSUME NEW o \in Reviewers, NEW p \in Reviewers, o # p
       PROVE  Apart(o, p)'
  BY <1>8, <1>10 DEF ReviewInv, Apart, Creating, Locking
<1> QED
  BY <1>6, <1>7, <1>9, <1>10 DEF ReviewInv

-----------------------------------------------------------------------------
(* A step as the program takes it, without its history.                    *)
Step == ReviewNext \/ (Next /\ UNCHANGED rvars)

RSteps == (ReviewNext /\ UNCHANGED overwritten) \/ BookingNext

LEMMA StepOfProgram == [RSteps]_rall => [Step]_<<vars, rvars>>
BY DEF RSteps, Step, BookingNext, rall

LEMMA NextReviews == ReviewInv /\ [Step]_<<vars, rvars>> => ReviewInv'
<1> SUFFICES ASSUME ReviewInv, [Step]_<<vars, rvars>> PROVE ReviewInv'
  OBVIOUS
<1>0. /\ reviews \subseteq Review /\ drawn \in 0..MaxReviews
      /\ MaxReviews \in Nat /\ ReviewTypes
      /\ \A row \in Review : row.id \in Nat
      /\ \A q \in Reviewers : rtxn[q].row \in Review \cup {None}
      /\ \A q \in Reviewers : ReviewSession(q)
  BY ReviewAssumption DEF ReviewInv, ReviewTypes, Review
<1>1. ASSUME NEW q \in Reviewers, NEW u \in Users, NEW b \in BookingIds,
             NEW rating \in Ratings, create_review(q, u, b, rating),
             UNCHANGED vars
      PROVE  ReviewInv'
  <2> DEFINE row == [id |-> drawn + 1, booking |-> b, customer |-> u,
                     rating |-> rating]
             t == [row |-> row, rating |-> rating]
  <2>1. /\ drawn < MaxReviews /\ drawn' = drawn + 1
        /\ rpc' = [rpc EXCEPT ![q] = "query"]
        /\ rtxn' = [rtxn EXCEPT ![q] = t]
        /\ UNCHANGED <<vars, reviews>>
    BY <1>1 DEF create_review, Goto
  <2>2. row \in Review /\ row.rating = rating /\ row.id = drawn + 1
    BY <1>0, <2>1 DEF Review
  <2>3. /\ t \in [row : Review \cup {None}, rating : Ratings \cup {None}]
        /\ drawn' \in 0..MaxReviews /\ drawn <= drawn'
        /\ "query" \in {"idle", "query", "insert", "update", "delete"}
                         \cup Written
    BY <1>0, <2>1, <2>2
  <2>4. \A o \in Reviewers :
          /\ rpc'[o] = IF o = q THEN "query" ELSE rpc[o]
          /\ rtxn'[o] = IF o = q THEN t ELSE rtxn[o]
    BY <1>0, <2>1 DEF ReviewTypes
  <2>5. t.row = row /\ t.rating = rating
    OBVIOUS
  <2> HIDE DEF t, row
  <2>6. ReviewSession(q)'
    <3>1. \A x \in reviews' : x.id # row.id
      BY <1>0, <2>1, <2>2 DEF ReviewInv, UniqueReviews
    <3> QED
      BY <1>0, <2>1, <2>2, <2>4, <2>5, <3>1
      DEF ReviewSession, Stored, Creating, Rewriting, Locking
  <2>7. ASSUME NEW o \in Reviewers \ {q} PROVE Apart(q, o)' /\ Apart(o, q)'
    <3>1. rpc[o] # "idle" => rtxn[o].row.id # row.id
      BY <1>0, <2>2 DEF ReviewSession
    <3> QED
      BY <2>4, <2>5, <3>1 DEF Apart, Creating, Locking
  <2> QED
    BY <2>1, <2>3, <2>6, <2>7, QuietReviews
<1>2. ASSUME NEW q \in Reviewers, NEW row \in reviews,
             NEW rating \in Ratings, NEW stmt \in {"update", "delete"},
             rpc[q] = "idle", Goto(q, stmt),
             rtxn' = [rtxn EXCEPT ![q] = [row |-> row, rating |-> rating]],
             UNCHANGED <<vars, reviews, drawn>>
      PROVE  ReviewInv'
  <2> DEFINE t == [row |-> row, rating |-> rating]
  <2>1. /\ rpc' = [rpc EXCEPT ![q] = stmt]
        /\ rtxn' = [rtxn EXCEPT ![q] = t]
        /\ UNCHANGED <<vars, reviews>>
        /\ t \in [row : Review \cup {None}, rating : Ratings \cup {None}]
        /\ drawn' \in 0..MaxReviews /\ drawn <= drawn'
        /\ stmt \in {"idle", "query", "insert", "update", "delete"}
                      \cup Written
    BY <1>0, <1>2 DEF Goto
  <2>2. \A o \in Reviewers :
          /\ rpc'[o] = IF o = q THEN stmt ELSE rpc[o]
          /\ rtxn'[o] = IF o = q THEN t ELSE rtxn[o]
    BY <1>0, <1>2, <2>1 DEF ReviewTypes
  <2>3. t.row = row /\ t.rating = rating /\ row \in Review /\ row.id <= drawn
    BY <1>0 DEF ReviewInv, UniqueReviews
  <2> HIDE DEF t
  <2>4. ReviewSession(q)'
    <3>1. \A x \in reviews : x.id = row.id => x.booking = row.booking
      BY DEF ReviewInv, UniqueReviews
    <3> QED
      BY <1>2, <2>2, <2>3, <3>1
      DEF ReviewSession, Creating, Rewriting, Locking
  <2>5. ASSUME NEW o \in Reviewers \ {q} PROVE Apart(q, o)' /\ Apart(o, q)'
    <3>1. rpc[o] \in Creating => rtxn[o].row.id # row.id
      BY <1>0 DEF ReviewSession, Stored
    <3> QED
      BY <2>2, <2>3, <3>1 DEF Apart, Creating, Locking
  <2> QED
    BY <2>1, <2>4, <2>5, QuietReviews
<1>3. ASSUME NEW q \in Reviewers, NEW u \in Users, NEW row \in reviews,
             NEW rating \in Ratings \cup {None},
             update_review(q, u, row, rating), UNCHANGED vars
      PROVE  ReviewInv'
  <2>1. Given(rating, row.rating) \in Ratings
    BY <1>0 DEF Given, Review
  <2> QED
    BY <1>2, <1>3, <2>1 DEF update_review
<1>4. ASSUME NEW q \in Reviewers, NEW u \in Users, NEW row \in reviews,
             delete_review(q, u, row), UNCHANGED vars
      PROVE  ReviewInv'
  <2>1. row.rating \in Ratings
    BY <1>0 DEF Review
  <2> QED
    BY <1>2, <1>4, <2>1 DEF delete_review
<1>5. ASSUME NEW q \in Reviewers, existing_review(q), UNCHANGED vars
      PROVE  ReviewInv'
  BY <1>5, EndReviews, AdvanceReviews DEF existing_review, Locking
<1>6. ASSUME NEW q \in Reviewers, insert_review(q), UNCHANGED vars
      PROVE  ReviewInv'
  <2>1. Pending(q, {"inserted"}) \subseteq Pending(q, {"inserted", "deleted"})
    BY DEF Pending
  <2> QED
    BY <1>6, <2>1, EndReviews, AdvanceReviews DEF insert_review, Locking
<1>7. ASSUME NEW q \in Reviewers, flush_review(q), UNCHANGED vars
      PROVE  ReviewInv'
  BY <1>7, EndReviews, AdvanceReviews DEF flush_review, Locking
<1>8. ASSUME NEW q \in Reviewers, commit_review(q), UNCHANGED vars
      PROVE  ReviewInv'
  BY <1>8, CommitReviews
<1>9. ASSUME NEW q \in Reviewers, abort_review(q), UNCHANGED vars
      PROVE  ReviewInv'
  BY <1>9, EndReviews DEF abort_review
<1>10. CASE Next /\ UNCHANGED rvars
  <2>1. Sessions'
    BY <1>10, NextSessions DEF ReviewInv
  <2> QED
    BY <1>10, <2>1
    DEF rvars, ReviewInv, ReviewTypes, Sessions, UniqueReviews,
        OneReviewPerBooking, ReviewSession, Apart, Stored, Reviewed
<1>11. CASE UNCHANGED <<vars, rvars>>
  <2>1. Sessions'
    BY <1>11, NextSessions DEF ReviewInv
  <2> QED
    BY <1>11, <2>1
    DEF rvars, ReviewInv, ReviewTypes, Sessions, UniqueReviews,
        OneReviewPerBooking, ReviewSession, Apart, Stored, Reviewed
<1> QED
  BY <1>1, <1>3, <1>4, <1>5, <1>6, <1>7, <1>8, <1>9, <1>10, <1>11
  DEF Step, ReviewNext, ReviewArrive, ReviewProceed

(* Ids and keys of reviews have one holder, whatever booking and review    *)
(* requests run beside each other.                                         *)
THEOREM ReviewsInvariant == RSpec => []ReviewInv
<1> QED
  BY InitReviews, NextReviews, StepOfProgram, PTL DEF RSpec, RSteps

(* Type correctness of the reviews, the bookings and both kinds of session.*)
THEOREM ReviewsTypeCorrect == RSpec => []RTypeOK
<1> DEFINE Known == overwritten \subseteq BookingIds
<1>1. RInit => Known
  BY DEF RInit
<1>2. ReviewInv /\ Known /\ [RSteps]_rall => Known'
  <2> SUFFICES ASSUME ReviewInv, Known, BookingNext PROVE Known'
    BY DEF RSteps, rall
  <2>1. \A r \in Requests : pc[r] = "commit" => txn[r].bid \in BookingIds
    BY DEF ReviewInv, Sessions, SessionOK, Loaded
  <2> QED
    BY <2>1 DEF BookingNext, Commit
<1>3. ReviewInv /\ Known => RTypeOK
  BY DEF ReviewInv, RTypeOK
<1> QED
  BY <1>1, <1>2, <1>3, ReviewsInvariant, PTL DEF RSpec, RSteps

(* "At most one review per booking": the INSERT waits at the unique index, *)
(* which makes up for an existence query whose answer is stale.            *)
THEOREM BookingsAreReviewedOnce == RSpec => []OneReviewPerBooking
<1>1. ReviewInv => OneReviewPerBooking
  BY DEF ReviewInv, UniqueReviews
<1> QED
  BY <1>1, ReviewsInvariant, PTL

(* An update of a review that is deleted meanwhile does not write it back: *)
(* the row it wrote is locked until its COMMIT, and a row that is gone is  *)
(* found out by the flush.                                                 *)
THEOREM DeletionsLast == RSpec => DeletedStaysDeleted
<1> DEFINE Accounted == \A row \in reviews' :
             Stored(row.id) \/ \E q \in Reviewers :
                                 rpc[q] = "inserted" /\ rtxn[q].row = row
<1>1. ReviewInv /\ [RSteps]_rall => [Accounted]_rall
  <2> SUFFICES ASSUME ReviewInv, Step PROVE Accounted
    BY DEF RSteps, Step, BookingNext
  <2>1. CASE UNCHANGED reviews
    BY <2>1 DEF Stored
  <2>2. ASSUME NEW q \in Reviewers, commit_review(q)
        PROVE  Accounted
    <3> DEFINE t == rtxn[q]
               new == [t.row EXCEPT !.rating = t.rating]
    <3>1. ReviewSession(q) /\ rpc[q] \in Written
      BY <2>2 DEF ReviewInv, commit_review
    <3>2. t.row \in Review /\ new.id = t.row.id
      BY <3>1 DEF ReviewSession, Written, Review
    <3>3. CASE rpc[q] = "inserted"
      <4>1. new = t.row
        BY <3>1, <3>2, <3>3 DEF ReviewSession, Creating, Review
      <4> QED
        BY <2>2, <3>3, <4>1 DEF commit_review, Stored
    <3>4. CASE rpc[q] # "inserted"
      <4>1. Stored(new.id)
        BY <3>1, <3>2, <3>4 DEF ReviewSession, Written, Locking
      <4> HIDE DEF new
      <4> QED
        BY <2>2, <4>1 DEF commit_review, Stored, new
    <3> QED
      BY <3>3, <3>4
  <2> QED
    BY <2>1, <2>2
    DEF ReviewNext, ReviewArrive, ReviewProceed, create_review, update_review,
        delete_review, existing_review, insert_review, flush_review,
        abort_review, rvars, Step
<1> QED
  BY <1>1, ReviewsInvariant, PTL DEF RSpec, RSteps, DeletedStaysDeleted

-----------------------------------------------------------------------------
(* A booking stays sound for a review: completed, or known to be one whose *)
(* completion was overwritten.                                             *)

Done(b) == Exists(b) /\ bookings[b].status = "completed"

Sound(b) == Done(b) \/ b \in overwritten

SoundInv ==
  /\ ReviewedIsCompleted
  /\ \A q \in Reviewers : rpc[q] # "idle" => Sound(rtxn[q].row.booking)

SoundStays == \A b \in BookingIds : Sound(b) => Sound(b)'

(* What create_review checked still holds when it commits and ever after.  *)
LEMMA NextSound ==
  ASSUME ReviewInv, SoundInv, SoundStays, [Step]_<<vars, rvars>>
  PROVE  SoundInv'
<1>0. /\ rpc \in [Reviewers -> {"idle", "query", "insert", "update", "delete"}
                                 \cup Written]
      /\ rtxn \in [Reviewers -> [row: Review \cup {None},
                                 rating: Ratings \cup {None}]]
      /\ reviews \subseteq Review
  BY DEF ReviewInv, ReviewTypes
<1>1. \A b \in BookingIds : Sound(b) => Sound(b)'
  BY DEF SoundStays
<1>2. \A row \in reviews : row.booking \in BookingIds /\ Sound(row.booking)
  BY <1>0 DEF Review, SoundInv, ReviewedIsCompleted, Sound, Done
<1>3. \A q \in Reviewers : rpc[q] # "idle" =>
        rtxn[q].row.booking \in BookingIds /\ Sound(rtxn[q].row.booking)
  BY DEF ReviewInv, ReviewSession, Review, SoundInv
<1>4. ASSUME reviews' = reviews, NEW q \in Reviewers,
             \A o \in Reviewers \ {q} : rpc'[o] = rpc[o] /\ rtxn'[o] = rtxn[o],
             rpc'[q] # "idle" => /\ rtxn'[q].row.booking \in BookingIds
                                 /\ Sound(rtxn'[q].row.booking)
      PROVE  SoundInv'
  <2>1. ReviewedIsCompleted'
    BY <1>1, <1>2, <1>4 DEF ReviewedIsCompleted, Sound, Done
  <2>2. ASSUME NEW o \in Reviewers, rpc'[o] # "idle"
        PROVE  Sound(rtxn[o].row.booking)'
    BY <1>1, <1>3, <1>4, <2>2 DEF Sound, Done, Exists
  <2> QED
    BY <2>1, <2>2 DEF SoundInv
<1>5. CASE UNCHANGED rvars
  <2>1. ReviewedIsCompleted'
    BY <1>1, <1>2, <1>5 DEF ReviewedIsCompleted, Sound, Done, rvars
  <2> QED
    BY <1>1, <1>3, <1>5, <2>1 DEF SoundInv, Sound, Done, rvars
<1>6. ASSUME NEW q \in Reviewers, NEW u \in Users, NEW b \in BookingIds,
             NEW rating \in Ratings, create_review(q, u, b, rating)
      PROVE  SoundInv'
  <2>1. /\ reviews' = reviews /\ Sound(b)
        /\ \A o \in Reviewers \ {q} : rpc'[o] = rpc[o] /\ rtxn'[o] = rtxn[o]
        /\ rtxn'[q].row.booking = b
    BY <1>0, <1>6 DEF create_review, Reviewable, Sound, Done, Goto
  <2> QED
    BY <1>4, <2>1
<1>7. ASSUME NEW q \in Reviewers, NEW u \in Users, NEW row \in reviews,
             \/ \E rating \in Ratings \cup {None} :
                  update_review(q, u, row, rating)
             \/ delete_review(q, u, row)
      PROVE  SoundInv'
  <2>1. /\ reviews' = reviews
        /\ \A o \in Reviewers \ {q} : rpc'[o] = rpc[o] /\ rtxn'[o] = rtxn[o]
        /\ rtxn'[q].row = row
    BY <1>0, <1>7 DEF update_review, delete_review, Goto
  <2> QED
    BY <1>2, <1>4, <2>1
<1>8. ASSUME NEW q \in Reviewers,
             \/ existing_review(q) \/ insert_review(q) \/ flush_review(q)
             \/ abort_review(q)
      PROVE  SoundInv'
  <2>1. /\ reviews' = reviews /\ rpc[q] # "idle"
        /\ \A o \in Reviewers \ {q} : rpc'[o] = rpc[o] /\ rtxn'[o] = rtxn[o]
        /\ rpc'[q] = "idle" \/ rtxn'[q] = rtxn[q]
    BY <1>0, <1>8
    DEF existing_review, insert_review, flush_review, abort_review, End, Goto
  <2> QED
    BY <1>3, <1>4, <2>1
<1>9. ASSUME NEW q \in Reviewers, commit_review(q)
      PROVE  SoundInv'
  <2> DEFINE t == rtxn[q]
             new == [t.row EXCEPT !.rating = t.rating]
  <2>1. /\ rpc[q] # "idle" /\ t.row \in Review
        /\ reviews' \subseteq reviews \cup {new}
        /\ \A o \in Reviewers \ {q} : rpc'[o] = rpc[o] /\ rtxn'[o] = rtxn[o]
        /\ rpc'[q] = "idle"
    BY <1>0, <1>9
    DEF commit_review, End, Goto, Written, ReviewInv, ReviewSession
  <2>2. new.booking = t.row.booking
    BY <2>1 DEF Review
  <2> HIDE DEF new, t
  <2>3. ASSUME NEW row \in reviews' PROVE Sound(row.booking)'
    BY <1>1, <1>2, <1>3, <2>1, <2>2 DEF t
  <2>4. ReviewedIsCompleted'
    BY <2>3 DEF ReviewedIsCompleted, Sound, Done
  <2>5. ASSUME NEW o \in Reviewers, rpc'[o] # "idle"
        PROVE  Sound(rtxn[o].row.booking)'
    BY <1>1, <1>3, <2>1, <2>5 DEF Sound, Done, Exists
  <2> QED
    BY <2>4, <2>5 DEF SoundInv
<1>10. CASE UNCHANGED <<vars, rvars>>
  BY <1>5, <1>10
<1> QED
  BY <1>5, <1>6, <1>7, <1>8, <1>9, <1>10
  DEF Step, ReviewNext, ReviewArrive, ReviewProceed

-----------------------------------------------------------------------------
(* Who undoes a completion.                                                *)

(* No handler of a booking sets about changing a finished one.             *)
LoadedLive == \A r \in Requests : pc[r] \in Loaded => txn[r].old.status \notin Terminal

LEMMA NextLoadedLive == Sessions /\ LoadedLive /\ [Next]_vars => LoadedLive'
<1> SUFFICES ASSUME Sessions, LoadedLive, [Next]_vars PROVE LoadedLive'
  OBVIOUS
<1>0. /\ pc \in [Requests -> {"idle", "insert", "notify", "check", "flush", "commit"}]
      /\ txn \in [Requests -> Txn]
  BY DEF Sessions, TypeOK
<1>1. ASSUME NEW r \in Requests,
             \A q \in Requests \ {r} : pc'[q] = pc[q] /\ txn'[q] = txn[q],
             \/ pc'[r] \notin Loaded
             \/ pc[r] \in Loaded /\ txn'[r].old = txn[r].old
             \/ txn'[r].old.status \notin Terminal
      PROVE  LoadedLive'
  BY <1>1 DEF LoadedLive
<1>2. ASSUME NEW r \in Requests, NEW b, NEW row, NEW new, NEW notes, NEW resched,
             Begin(r, b, row, new, notes, resched), row.status \notin Terminal
      PROVE  LoadedLive'
  <2>1. /\ txn'[r].old = row
        /\ \A q \in Requests \ {r} : pc'[q] = pc[q] /\ txn'[q] = txn[q]
    BY <1>0, <1>2 DEF Begin
  <2> QED
    BY <1>1, <1>2, <2>1
<1>3. ASSUME NEW r \in Requests, Rollback(r)
      PROVE  LoadedLive'
  <2>1. /\ pc'[r] \notin Loaded
        /\ \A q \in Requests \ {r} : pc'[q] = pc[q] /\ txn'[q] = txn[q]
    BY <1>0, <1>3 DEF Rollback, Loaded
  <2> QED
    BY <1>1, <2>1
<1>4. ASSUME NEW r \in Requests, Arrive(r)
      PROVE  LoadedLive'
  <2>1. ASSUME NEW u \in Users, NEW body \in Creations, create_booking(r, u, body)
        PROVE  LoadedLive'
    <3>1. /\ pc'[r] \notin Loaded
          /\ \A q \in Requests \ {r} : pc'[q] = pc[q] /\ txn'[q] = txn[q]
      BY <1>0, <2>1 DEF create_booking, Loaded
    <3> QED
      BY <1>1, <3>1
  <2>2. ASSUME NEW u \in Users, NEW b \in BookingIds, NEW patch \in Patches,
               update_booking(r, u, b, patch)
        PROVE  LoadedLive'
    BY <1>2, <2>2 DEF update_booking
  <2>3. ASSUME NEW u \in Users, NEW b \in BookingIds, cancel_booking(r, u, b)
        PROVE  LoadedLive'
    BY <1>2, <2>3 DEF cancel_booking, validate_status_transition
  <2>4. ASSUME NEW u \in Users, NEW b \in BookingIds, delete_booking(r, u, b)
        PROVE  LoadedLive'
    BY <1>2, <2>4 DEF delete_booking, Terminal
  <2> QED
    BY <1>4, <2>1, <2>2, <2>3, <2>4 DEF Arrive
<1>5. ASSUME NEW r \in Requests, insert_booking(r) \/ Commit(r)
      PROVE  LoadedLive'
  <2>1. /\ pc'[r] \notin Loaded
        /\ \A q \in Requests \ {r} : pc'[q] = pc[q] /\ txn'[q] = txn[q]
    BY <1>0, <1>5 DEF insert_booking, Commit, Loaded
  <2> QED
    BY <1>1, <2>1
<1>6. ASSUME NEW r \in Requests, create_notification(r)
      PROVE  LoadedLive'
  <2>1. /\ pc[r] \in Loaded /\ txn'[r].old = txn[r].old
        /\ \A q \in Requests \ {r} : pc'[q] = pc[q] /\ txn'[q] = txn[q]
    BY <1>0, <1>6 DEF create_notification, Loaded, Txn
  <2> QED
    BY <1>1, <2>1
<1>7. ASSUME NEW r \in Requests, check_provider_conflict(r) \/ Flush(r)
      PROVE  LoadedLive'
  <2>1. CASE Rollback(r)
    BY <1>3, <2>1
  <2>2. CASE ~Rollback(r)
    <3>1. /\ pc[r] \in Loaded /\ UNCHANGED txn
          /\ \A q \in Requests \ {r} : pc'[q] = pc[q]
      BY <1>0, <1>7, <2>2 DEF check_provider_conflict, Flush, Loaded
    <3> QED
      BY <1>1, <3>1
  <2> QED
    BY <2>1, <2>2
<1>8. CASE UNCHANGED vars
  BY <1>8 DEF LoadedLive, vars
<1> QED
  BY <1>3, <1>4, <1>5, <1>6, <1>7, <1>8 DEF Next, Proceed, Abort

THEOREM LoadedAreLive == Spec => []LoadedLive
<1>1. Init => LoadedLive
  BY DEF Init, LoadedLive, Loaded
<1> QED
  BY <1>1, NextLoadedLive, SessionsInvariant, PTL DEF Spec

(* A commit that takes a completed status away overwrites one it never saw.*)
LEMMA CommitUndoes ==
  ASSUME Sessions, LoadedLive, NEW r \in Requests, Commit(r),
         NEW b \in BookingIds, Done(b), ~Done(b)'
  PROVE  b = txn[r].bid /\ Overwrites(r)
<1> DEFINE t == txn[r]
<1>1. /\ t.bid \in BookingIds /\ t.old \in Row /\ t.old.status \notin Terminal
      /\ bookings \in [BookingIds -> Row \cup {None}]
      /\ bookings' = [bookings EXCEPT ![t.bid] = Merge(t.old, t.new, @)]
  BY DEF Sessions, TypeOK, SessionOK, LoadedLive, Loaded, Commit
<1>2. b = t.bid
  BY <1>1 DEF Done, Exists
<1>3. bookings[b] \in Row /\ bookings[b].status = "completed"
  BY <1>1 DEF Done, Exists
<1>4. bookings'[b] = Merge(t.old, t.new, bookings[b])
  BY <1>1, <1>2
<1>5. /\ Merge(t.old, t.new, bookings[b]) \in Row
      /\ Merge(t.old, t.new, bookings[b]).status
           = IF t.new.status # t.old.status THEN t.new.status
             ELSE bookings[b].status
  <2>1. t.new \in Row
    BY DEF Sessions, SessionOK, Loaded, Commit
  <2> QED
    BY <1>1, <1>3, <2>1, MergeType DEF Merge, Row
<1>6. t.new.status # t.old.status /\ t.new.status # "completed"
  BY <1>3, <1>4, <1>5, NoneIsApart DEF Done, Exists
<1> QED
  BY <1>1, <1>2, <1>3, <1>6 DEF Overwrites, Terminal

(* Overwrites takes a completion away, and nothing else does.              *)
LEMMA OnlyOverwritten ==
  ASSUME Sessions, LoadedLive, [RSteps]_rall
  PROVE  SoundStays
<1> SUFFICES ASSUME NEW b \in BookingIds, Sound(b) PROVE Sound(b)'
  BY DEF SoundStays
<1>1. CASE UNCHANGED <<vars, overwritten>>
  BY <1>1 DEF Sound, Done, Exists, vars
<1>2. CASE BookingNext
  <2>1. overwritten \subseteq overwritten'
    BY <1>2 DEF BookingNext
  <2>2. CASE b \in overwritten
    BY <2>1, <2>2 DEF Sound
  <2>3. CASE Done(b) /\ \E r \in Requests : Commit(r)
    <3>1. PICK r \in Requests : Commit(r)
      BY <2>3
    <3>2. CASE ~Done(b)'
      <4>1. b = txn[r].bid /\ Overwrites(r)
        BY <2>3, <3>1, <3>2, CommitUndoes
      <4>2. b \in overwritten'
        BY <1>2, <3>1, <4>1 DEF BookingNext
      <4> QED
        BY <4>2 DEF Sound
    <3> QED
      BY <3>2 DEF Sound
  <2>4. CASE Done(b) /\ ~ \E r \in Requests : Commit(r)
    <3>1. PICK r \in Requests : Arrive(r) \/ Proceed(r) \/ Abort(r)
      BY <1>2 DEF BookingNext, Next
    <3>2. CASE insert_booking(r)
      <4>1. bookings[txn[r].bid] = None /\ txn[r].bid # b
        BY <2>4, <3>2 DEF insert_booking, Sessions, SessionOK, Done, Exists
      <4>2. bookings'[b] = bookings[b]
        BY <3>2, <4>1 DEF insert_booking, Sessions, TypeOK
      <4> QED
        BY <2>4, <4>2 DEF Sound, Done, Exists
    <3>3. CASE ~insert_booking(r)
      <4>1. UNCHANGED bookings
        <5>1. CASE Arrive(r)
          <6>1. \A u \in Users, body \in Creations :
                  create_booking(r, u, body) => UNCHANGED bookings
            BY DEF create_booking
          <6>2. \A u \in Users, c \in BookingIds, patch \in Patches :
                  update_booking(r, u, c, patch) => UNCHANGED bookings
            BY DEF update_booking, Begin
          <6>3. \A u \in Users, c \in BookingIds :
                  cancel_booking(r, u, c) \/ delete_booking(r, u, c)
                    => UNCHANGED bookings
            BY DEF cancel_booking, delete_booking, Begin
          <6> QED
            BY <5>1, <6>1, <6>2, <6>3 DEF Arrive
        <5>2. CASE create_notification(r) \/ check_provider_conflict(r) \/ Flush(r)
          BY <5>2 DEF create_notification, check_provider_conflict, Flush, Rollback
        <5>3. CASE Abort(r)
          BY <5>3 DEF Abort, Rollback
        <5> QED
          BY <2>4, <3>1, <3>3, <5>1, <5>2, <5>3 DEF Proceed
      <4> QED
        BY <2>4, <4>1 DEF Sound, Done, Exists
    <3> QED
      BY <3>2, <3>3
  <2> QED
    BY <2>2, <2>3, <2>4 DEF Sound
<1> QED
  BY <1>1, <1>2 DEF RSteps, ReviewNext, rall

(* Reviews read bookings and never write them, so every theorem about the  *)
(* booking requests holds beside the review requests.                      *)
THEOREM ReviewsLeaveBookings == RSpec => Spec
<1>1. RInit => Init
  BY DEF RInit
<1>2. [Step]_<<vars, rvars>> => [Next]_vars
  BY DEF Step, ReviewNext
<1> QED
  BY <1>1, <1>2, StepOfProgram, PTL DEF RSpec, RSteps, Spec

(* "One review per completed booking": however booking and review requests *)
(* interleave, a review is of a completed booking, or of one whose         *)
(* completion a request that had loaded it before overwrote.               *)
THEOREM ReviewsAreOfCompletedBookings == RSpec => []ReviewedIsCompleted
<1>1. RInit => SoundInv
  BY DEF RInit, SoundInv, ReviewedIsCompleted
<1>2. ReviewInv /\ LoadedLive /\ SoundInv /\ [RSteps]_rall => SoundInv'
  <2> SUFFICES ASSUME ReviewInv, LoadedLive, SoundInv, [RSteps]_rall
               PROVE  SoundInv'
    OBVIOUS
  <2>1. SoundStays
    BY OnlyOverwritten DEF ReviewInv
  <2> QED
    BY <2>1, NextSound, StepOfProgram
<1>3. SoundInv => ReviewedIsCompleted
  BY DEF SoundInv
<1> QED
  BY <1>1, <1>2, <1>3, ReviewsInvariant, ReviewsLeaveBookings, LoadedAreLive, PTL
  DEF RSpec, RSteps

(* A step that undoes no completed booking.                                *)
DoneStays == \A b \in BookingIds : Done(b) => Done(b)'

(* Without the exception: every review is of a completed booking.          *)
AllCompleted == \A row \in reviews : Done(row.booking)

(* While no booking request undoes a completion, the handlers of reviews   *)
(* never leave one of a booking that is not completed.                     *)
THEOREM ReviewsFollowCompletion ==
  RSpec /\ [][DoneStays]_vars => []AllCompleted
<1> DEFINE Clean == overwritten = {}
<1>1. RInit => Clean
  BY DEF RInit
<1>2. Sessions /\ Clean /\ [DoneStays]_vars /\ [RSteps]_rall => Clean'
  <2> SUFFICES ASSUME Sessions, Clean, [DoneStays]_vars, BookingNext
               PROVE  Clean'
    BY DEF RSteps, rall
  <2>1. ASSUME NEW r \in Requests, Commit(r), Overwrites(r)
        PROVE  FALSE
    <3> DEFINE t == txn[r]
    <3>1. /\ t.bid \in BookingIds /\ bookings[t.bid] # None
          /\ t.old \in Row /\ t.new \in Row
          /\ bookings \in [BookingIds -> Row \cup {None}]
          /\ bookings' = [bookings EXCEPT ![t.bid] = Merge(t.old, t.new, @)]
      BY <2>1 DEF Sessions, TypeOK, SessionOK, Loaded, Commit
    <3>2. bookings'[t.bid].status = t.new.status
      BY <2>1, <3>1 DEF Overwrites, Merge, Row
    <3>3. PICK b \in BookingIds : b = t.bid
      BY <3>1
    <3>4. Done(b) /\ ~Done(b)'
      BY <2>1, <3>1, <3>2, <3>3 DEF Overwrites, Done, Exists
    <3>5. bookings' # bookings
      BY <3>4 DEF Done, Exists
    <3> QED
      BY <3>4, <3>5 DEF DoneStays, vars
  <2> QED
    BY <2>1 DEF BookingNext
<1>3. Clean /\ ReviewedIsCompleted => AllCompleted
  BY DEF ReviewedIsCompleted, AllCompleted, Done
<1> QED
  BY <1>1, <1>2, <1>3, ReviewsAreOfCompletedBookings, ReviewsLeaveBookings,
     SessionsInvariant, PTL
  DEF RSpec, RSteps

LEMMA StaysDone ==
  ASSUME Sessions, ValidIntervals, ProviderInv, [PerProviderNext]_vars
  PROVE  [DoneStays]_vars
<1> SUFFICES ASSUME NEW b \in BookingIds, Done(b) PROVE Done(b)'
  BY DEF DoneStays
<1>1. bookings'[b] = bookings[b]
  BY ProviderStep, ContractIsFinal DEF Done, Exists, Terminal
<1> QED
  BY <1>1 DEF Done, Exists

(* No completion is undone while at most one booking request of a provider *)
(* is under way: then a reviewed booking is, and stays, a completed one.   *)
THEOREM ReviewsAreSafePerProvider ==
  RSpec /\ [][PerProviderNext]_vars => []AllCompleted
<1>2. RSpec /\ [][PerProviderNext]_vars => PerProviderSpec
  BY ReviewsLeaveBookings, PTL DEF Spec, PerProviderSpec
<1>3. PerProviderSpec => [](Sessions /\ ValidIntervals /\ ProviderInv)
  BY PerProviderIsSpec, SessionsInvariant, IntervalsStayValid, ProviderInvariant, PTL
<1>4. Sessions /\ ValidIntervals /\ ProviderInv /\ [PerProviderNext]_vars
        => [DoneStays]_vars
  BY StaysDone
<1>5. PerProviderSpec => [][DoneStays]_vars
  BY <1>3, <1>4, PTL DEF PerProviderSpec
<1> QED
  BY <1>2, <1>5, ReviewsFollowCompletion, PTL
=============================================================================
