------------------------------ MODULE MCJobs ------------------------------
(* Values for the constants of BackgroundJobs; the bodies of the booking   *)
(* requests are built like the ones of MCBooking.                          *)
EXTENDS BackgroundJobs, MCBooking

(* POST bodies: a slot over before the last moment, and one that starts    *)
(* then.                                                                   *)
EarlyAndLate ==
  {x \in AnySlot : <<x.start, x.end>> \in {<<2, 3>>, <<4, 5>>}}

(* PATCH bodies that confirm, complete, or put the late slot forward.      *)
ForwardAndEarlier == ForwardPatches \cup {[Blank EXCEPT !.start = 3]}
=============================================================================
