-------------------------- MODULE BookingContract --------------------------
(***************************************************************************)
(* What the booking endpoints promise their callers, one atomic step per   *)
(* request: a reservation takes a free slot, an amendment follows the      *)
(* status machine and the caller's role and moves only into a free slot,   *)
(* and the notifications of a step are stored with it or not at all.       *)
(* BookingService is shown to keep this promise while no two requests are  *)
(* about one provider, and not to keep it when two are.                    *)
(***************************************************************************)
EXTENDS BookingRules

VARIABLES bookings, notifs

cvars == <<bookings, notifs>>

CInit ==
  /\ bookings = [b \in BookingIds |-> None]
  /\ notifs = {}

(* Does row keep its provider busy at instant t?                           *)
Busy(row, t) == row.status # "cancelled" /\ row.start <= t /\ t < row.end

(* No booking other than b wants the provider at an instant row does.      *)
Free(b, row) ==
  \A other \in BookingIds \ {b} :
    bookings[other] # None /\ bookings[other].provider = row.provider
      => \A t \in Times : ~(Busy(bookings[other], t) /\ Busy(row, t))

Reserve(u, b) ==
  /\ bookings[b] = None
  /\ \E row \in Row :
       /\ row.customer = u /\ row.provider # u
       /\ row.status = "pending"
       /\ row.start < row.end
       /\ Free(b, row)
       /\ bookings' = [bookings EXCEPT ![b] = row]
       /\ notifs' = notifs \cup {NoteFor(row.provider, b, "booking_created")}

(* A new status and new times, each allowed, in one step.                  *)
Amend(u, b) ==
  LET row == bookings[b]
  IN  /\ row # None
      /\ Authorized(u, row)
      /\ \E target \in Status, start, end \in Times :
           LET new == [row EXCEPT !.status = target, !.start = start,
                                  !.end = end]
           IN  /\ validate_status_transition(row.status, target, Role(u))
               /\ start < end
               /\ Free(b, new)
               /\ bookings' = [bookings EXCEPT ![b] = new]
               /\ notifs' = notifs \cup Range(StatusNotes(b, row, target, u))

CNext == \E u \in Users, b \in BookingIds : Reserve(u, b) \/ Amend(u, b)

CSpec == CInit /\ [][CNext]_cvars

-----------------------------------------------------------------------------
(* No provider has two active bookings at any instant.                     *)
NoOverlap ==
  \A a, b \in BookingIds :
    a # b /\ bookings[a] # None /\ bookings[b] # None =>
      \/ bookings[a].provider # bookings[b].provider
      \/ \A t \in Times : ~(Busy(bookings[a], t) /\ Busy(bookings[b], t))

(* A booking that was completed or cancelled is never modified again, and  *)
(* no booking disappears.                                                  *)
TerminalIsFinal ==
  [][\A b \in BookingIds :
       bookings[b] # None =>
         /\ bookings'[b] # None
         /\ bookings[b].status \in Terminal => bookings'[b] = bookings[b]]_cvars
=============================================================================
