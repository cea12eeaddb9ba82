--------------------------- MODULE BookingRules ---------------------------
(***************************************************************************)
(* The business rules of the booking service as constants and operators:   *)
(* roles, the status machine, the overlap query and the authorisation      *)
(* tests.  Nothing here has a state; BookingService runs these rules       *)
(* inside concurrent database transactions and BookingContract runs them   *)
(* atomically.                                                             *)
(***************************************************************************)
EXTENDS Integers, Sequences, Functions

CONSTANTS
  Customers,    \* users whose role column is "customer"
  Providers,    \* users whose role column is "provider"
  Admins,       \* users whose role column is "admin"
  BookingIds,   \* the primary keys uuid4() may draw
  Times,        \* the instants a client may send
  None          \* SQL NULL / Python None

Users == Customers \cup Providers \cup Admins

Status == {"pending", "confirmed", "completed", "cancelled"}

NotificationType ==
  {"booking_created", "booking_confirmed", "booking_cancelled",
   "booking_reminder", "booking_completed", "booking_overdue"}

(* A row of table bookings; service_name and the audit columns are left    *)
(* out, no rule reads them.                                                *)
Row == [customer: Users, provider: Providers, start: Times, end: Times,
        status: Status]

(* The columns uq_notifications_user_booking_type makes unique identify a  *)
(* notification; title and message are wording.                            *)
Note == [user: Users, booking: BookingIds, type: NotificationType]

(* Roles are one column of users, so no user has two.  Times are instants. *)
(* None is no legal value of a column.                                     *)
ASSUME RulesAssumption ==
  /\ Customers \cap Providers = {}
  /\ Customers \cap Admins = {}
  /\ Providers \cap Admins = {}
  /\ Times \subseteq Int
  /\ None \notin Row /\ None \notin Times /\ None \notin Status
  /\ None \notin BookingIds

Role(u) == IF u \in Admins THEN "admin"
           ELSE IF u \in Providers THEN "provider" ELSE "customer"

Terminal == {"completed", "cancelled"}

VALID_TRANSITIONS ==
  {<<"pending", "confirmed">>, <<"pending", "cancelled">>,
   <<"confirmed", "completed">>, <<"confirmed", "cancelled">>}

ROLE_ALLOWED_TRANSITIONS ==
  (VALID_TRANSITIONS \X {"provider", "admin"})
    \cup ({<<"pending", "cancelled">>, <<"confirmed", "cancelled">>}
            \X {"customer"})

(* validate_status_transition returns without raising.                     *)
validate_status_transition(current, target, role) ==
  /\ current \notin Terminal
  /\ \/ target = current
     \/ /\ <<current, target>> \in VALID_TRANSITIONS
        /\ <<<<current, target>>, role>> \in ROLE_ALLOWED_TRANSITIONS

(* Slip: asks only whether the request begins inside the booking.          *)
OverlapAtStart(s1, e1, s2, e2) == s1 <= s2 /\ e1 > s2

(* The WHERE clause: half-open intervals that share an instant.            *)
Overlap(s1, e1, s2, e2) == s1 < e2 /\ e1 > s2

(* Does the existence query find an active booking of provider p, other    *)
(* than the excluded one, in [start, end)?  db is the table as the         *)
(* statement sees it.                                                      *)
is_provider_available(db, p, start, end, exclude) ==
  \A b \in BookingIds \ {exclude} :
    db[b] # None =>
      ~ /\ db[b].provider = p
        /\ db[b].status # "cancelled"
        /\ Overlap(db[b].start, db[b].end, start, end)

(* The three-way test of get_booking_by_id and update_booking: admin,      *)
(* owning customer, assigned provider, each in that role only.             *)
Authorized(u, row) ==
  \/ Role(u) = "admin"
  \/ Role(u) = "customer" /\ row.customer = u
  \/ Role(u) = "provider" /\ row.provider = u

(* delete_booking lets the owning customer or an admin through.            *)
MayDelete(u, row) ==
  /\ Role(u) # "provider"
  /\ Role(u) = "customer" => row.customer = u

NoteFor(u, b, type) == [user |-> u, booking |-> b, type |-> type]

(* Slip: the order depends on the status.                                  *)
NotifyByStatus(b, row, actor) ==
  LET parties == IF row.status = "confirmed" THEN <<row.provider, row.customer>>
                 ELSE <<row.customer, row.provider>>
      Notes(u) == IF actor = u THEN <<>>
                  ELSE <<NoteFor(u, b, "booking_cancelled")>>
  IN  Notes(parties[1]) \o Notes(parties[2])

(* The notifications _notify_cancellation inserts, in its order: customer  *)
(* first, the actor left out.                                              *)
notify_cancellation(b, row, actor) ==
  LET toCustomer == NoteFor(row.customer, b, "booking_cancelled")
      toProvider == NoteFor(row.provider, b, "booking_cancelled")
  IN  (IF actor # row.customer THEN <<toCustomer>> ELSE <<>>)
        \o (IF actor # row.provider THEN <<toProvider>> ELSE <<>>)

(* The notifications a change of status from row.status to target inserts. *)
StatusNotes(b, row, target, actor) ==
  CASE target = row.status -> <<>>
    [] target # row.status /\ target = "confirmed" ->
         <<NoteFor(row.customer, b, "booking_confirmed")>>
    [] target # row.status /\ target = "completed" ->
         <<NoteFor(row.customer, b, "booking_completed")>>
    [] target # row.status /\ target = "cancelled" ->
         notify_cancellation(b, row, actor)
    [] OTHER -> <<>>
=============================================================================
