---------------------------- MODULE MCBooking ----------------------------
(* Values for the constants of BookingService.                             *)
EXTENDS BookingService, TLC

CONSTANTS p1

Slots == {<<s, e>> \in Times \X Times : s < e}

(* POST bodies: any slot with one provider.                                *)
AnySlot == {[provider |-> p1, start |-> x[1], end |-> x[2]] : x \in Slots}

(* POST bodies: one slot.                                                  *)
WholeDay == {[provider |-> p1, start |-> 1, end |-> 3]}

(* POST bodies: any slot with one provider, one with the others.           *)
AnyProvider ==
  AnySlot \cup {[provider |-> p, start |-> 2, end |-> 3] : p \in Providers}

Blank == [status |-> None, start |-> None, end |-> None]

StatusPatches ==
  {[Blank EXCEPT !.status = s] : s \in Status \ {"pending"}}

(* PATCH bodies that confirm, or confirm and complete.                     *)
ConfirmOnly == {[Blank EXCEPT !.status = "confirmed"]}

ForwardPatches == ConfirmOnly \cup {[Blank EXCEPT !.status = "completed"]}

(* PATCH bodies that move one end, or confirm and move in one request.     *)
MovePatches ==
  {[Blank EXCEPT !.start = t] : t \in Times}
    \cup {[Blank EXCEPT !.end = t] : t \in Times}

ConfirmAndMove ==
  {[Blank EXCEPT !.status = "confirmed", !.end = t] : t \in Times}

(* Changes of status, of the end of a booking, or of both.                  *)
EndPatches ==
  StatusPatches \cup ConfirmAndMove \cup {[Blank EXCEPT !.end = t] : t \in Times}

AllPatches == StatusPatches \cup MovePatches \cup ConfirmAndMove \cup {Blank}

(* Requests are alike.                                                     *)
AnyOrder == Permutations(Requests)
=============================================================================
