---------------------------- MODULE MCReviews ----------------------------
(* Values for the constants of ReviewService; the bodies of the booking    *)
(* requests are the ones of MCBooking.                                     *)
EXTENDS ReviewService, MCBooking
=============================================================================
