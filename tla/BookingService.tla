-------------------------- MODULE BookingService --------------------------
(***************************************************************************)
(* The mutating booking endpoints as they run: each request is a thread    *)
(* with its own SQLAlchemy session, that is one READ COMMITTED transaction *)
(* of PostgreSQL.  A request loads a row into its identity map, decides on *)
(* that copy, inserts notifications, and on commit writes back the columns *)
(* it changed, whatever other requests committed in between.               *)
(*                                                                         *)
(* Rejected requests (4xx before any write) change nothing and are the     *)
(* guards of the actions; rejections after a write are Rollback.           *)
(***************************************************************************)
EXTENDS BookingRules

CONSTANTS
  Requests,    \* request threads running at the same time
  Creations,   \* bodies POST /bookings receives
  Patches      \* bodies PATCH /bookings/{id} receives

(* Bodies that passed the schema's field types; an absent field is None.   *)
BookingCreate == [provider: Users, start: Times, end: Times]
BookingUpdate == [status: Status \cup {None}, start: Times \cup {None},
                  end: Times \cup {None}]

ASSUME InputsAssumption ==
  /\ Creations \subseteq BookingCreate
  /\ Patches \subseteq BookingUpdate

(* The validators of the schemas that look at two fields at once.          *)
validate_booking_rules(body) == body.end > body.start

validate_time_range(patch) ==
  patch.start # None /\ patch.end # None => patch.end > patch.start

VARIABLES
  bookings,   \* committed rows of table bookings, None where there is none
  notifs,     \* committed unique keys of table notifications
  pc,         \* the next statement of each request
  txn         \* the session and open transaction of each request

vars == <<bookings, notifs, pc, txn>>

(* One session: the row as loaded (old) and as the code has set its        *)
(* attributes (new), notifications still to insert, keys inserted but not  *)
(* committed, and whether the body names a time.                           *)
Txn == [bid: BookingIds \cup {None}, old: Row \cup {None},
        new: Row \cup {None}, todo: Seq(Note), held: SUBSET Note,
        resched: BOOLEAN]

NoTxn == [bid |-> None, old |-> None, new |-> None, todo |-> <<>>,
          held |-> {}, resched |-> FALSE]

Init ==
  /\ bookings = [b \in BookingIds |-> None]
  /\ notifs = {}
  /\ pc = [r \in Requests |-> "idle"]
  /\ txn = [r \in Requests |-> NoTxn]

-----------------------------------------------------------------------------
(* Statements shared by the handlers.                                      *)

(* Slip: the session is not closed, its transaction stays open.            *)
RollbackUnclosed(r) ==
  /\ pc' = [pc EXCEPT ![r] = "idle"]
  /\ txn' = [txn EXCEPT ![r].todo = <<>>]
  /\ UNCHANGED <<bookings, notifs>>

(* rollback, or the close() of a session that never committed.             *)
Rollback(r) ==
  /\ pc' = [pc EXCEPT ![r] = "idle"]
  /\ txn' = [txn EXCEPT ![r] = NoTxn]
  /\ UNCHANGED <<bookings, notifs>>

(* Slip: new times are stored without the conflict query.                  *)
AfterNotesUnchecked(todo, resched) == IF todo # <<>> THEN "notify" ELSE "flush"

(* Notifications come first, then the checks of a move, then the commit.   *)
AfterNotes(todo, resched) ==
  IF todo # <<>> THEN "notify" ELSE IF resched THEN "check" ELSE "flush"

(* The part of a handler up to its first write: row b was loaded as row,   *)
(* its attributes set to new, notes are to be inserted.                    *)
Begin(r, b, row, new, notes, resched) ==
  /\ pc' = [pc EXCEPT ![r] = AfterNotes(notes, resched)]
  /\ txn' = [txn EXCEPT ![r] = [bid |-> b, old |-> row, new |-> new,
                                todo |-> notes, held |-> {},
                                resched |-> resched]]
  /\ UNCHANGED <<bookings, notifs>>

(* Slip: a key another transaction has inserted counts as there already.   *)
CreateNotificationNoWait(r) ==
  LET key == Head(txn[r].todo)
      rest == Tail(txn[r].todo)
      known == notifs \cup UNION {txn[q].held : q \in Requests \ {r}}
  IN  /\ pc[r] = "notify"
      /\ pc' = [pc EXCEPT ![r] = AfterNotes(rest, txn[r].resched)]
      /\ txn' = [txn EXCEPT
                   ![r].todo = rest,
                   ![r].held = IF key \in known THEN @ ELSE @ \cup {key}]
      /\ UNCHANGED <<bookings, notifs>>

(* INSERT ... ON CONFLICT DO NOTHING: a committed key makes it a no-op, a  *)
(* key another transaction inserted and has not committed makes it wait.   *)
create_notification(r) ==
  LET key == Head(txn[r].todo)
      rest == Tail(txn[r].todo)
  IN  /\ pc[r] = "notify"
      /\ \A q \in Requests \ {r} : key \notin txn[q].held
      /\ pc' = [pc EXCEPT ![r] = AfterNotes(rest, txn[r].resched)]
      /\ txn' = [txn EXCEPT
                   ![r].todo = rest,
                   ![r].held = IF key \in notifs THEN @ ELSE @ \cup {key}]
      /\ UNCHANGED <<bookings, notifs>>

(* UPDATE names only the columns whose value differs from the loaded one,  *)
(* and applies them to the newest committed version of the row.            *)
Merge(old, new, current) ==
  [current EXCEPT
     !.start = IF new.start # old.start THEN new.start ELSE @,
     !.end = IF new.end # old.end THEN new.end ELSE @,
     !.status = IF new.status # old.status THEN new.status ELSE @]

(* A transaction between its UPDATE and its COMMIT holds the row's lock;   *)
(* a session without changes sends no UPDATE.                              *)
LocksRow(q, b) ==
  /\ pc[q] = "commit"
  /\ txn[q].bid = b
  /\ txn[q].old # txn[q].new

(* Slip: the table has no CHECK.                                           *)
FlushUnchecked(r) ==
  /\ pc[r] = "flush"
  /\ txn[r].old # txn[r].new
       => \A q \in Requests \ {r} : ~LocksRow(q, txn[r].bid)
  /\ pc' = [pc EXCEPT ![r] = "commit"]
  /\ UNCHANGED <<bookings, notifs, txn>>

(* The UPDATE the session's flush sends, if it sends one: it waits for the  *)
(* row's lock and is refused when the row it would leave breaks the table's *)
(* CHECK end_time > start_time.                                            *)
Flush(r) ==
  LET t == txn[r]
      row == Merge(t.old, t.new, bookings[t.bid])
      accepted == t.old = t.new \/ row.end > row.start
  IN  /\ pc[r] = "flush"
      /\ t.old # t.new => \A q \in Requests \ {r} : ~LocksRow(q, t.bid)
      /\ \/ /\ accepted
            /\ pc' = [pc EXCEPT ![r] = "commit"]
            /\ UNCHANGED <<bookings, notifs, txn>>
         \/ ~accepted /\ Rollback(r)

Commit(r) ==
  LET t == txn[r]
  IN  /\ pc[r] = "commit"
      /\ bookings' = [bookings EXCEPT ![t.bid] = Merge(t.old, t.new, @)]
      /\ notifs' = notifs \cup t.held
      /\ pc' = [pc EXCEPT ![r] = "idle"]
      /\ txn' = [txn EXCEPT ![r] = NoTxn]

(* A lost connection, a statement error or the death of the process: the   *)
(* database rolls the transaction back.                                    *)
Abort(r) ==
  /\ pc[r] # "idle"
  /\ Rollback(r)

-----------------------------------------------------------------------------
(* POST /bookings up to and including the conflict query.  uuid4() draws an *)
(* id no other row and no other request has; BookingIds bounds the table.  *)
create_booking(r, u, body) ==
  /\ pc[r] = "idle"
  /\ validate_booking_rules(body)
  /\ u # body.provider
  /\ body.provider \in Providers
  /\ is_provider_available(bookings, body.provider, body.start, body.end,
                           None)
  /\ \E b \in BookingIds :
       /\ bookings[b] = None
       /\ \A q \in Requests : txn[q].bid # b
       /\ txn' = [txn EXCEPT ![r].bid = b,
                             ![r].new = [customer |-> u,
                                         provider |-> body.provider,
                                         start |-> body.start,
                                         end |-> body.end,
                                         status |-> "pending"]]
  /\ pc' = [pc EXCEPT ![r] = "insert"]
  /\ UNCHANGED <<bookings, notifs>>

(* The INSERTs of the booking and its notification, and their COMMIT: the  *)
(* keys are fresh, so nothing here can wait or make another request wait.  *)
insert_booking(r) ==
  LET b == txn[r].bid
      row == txn[r].new
  IN  /\ pc[r] = "insert"
      /\ bookings' = [bookings EXCEPT ![b] = row]
      /\ notifs' = notifs \cup {NoteFor(row.provider, b, "booking_created")}
      /\ pc' = [pc EXCEPT ![r] = "idle"]
      /\ txn' = [txn EXCEPT ![r] = NoTxn]

(* Slip: "or booking.start_time" is forgotten.                              *)
GivenOrNull(field, default) == field

(* A field the body leaves out keeps the loaded value.                     *)
Given(field, default) == IF field = None THEN default ELSE field

(* PATCH /bookings/{id}, up to the first write.                            *)
update_booking(r, u, b, patch) ==
  LET row == bookings[b]
      target == Given(patch.status, row.status)
      new == [row EXCEPT !.status = target,
                         !.start = Given(patch.start, @),
                         !.end = Given(patch.end, @)]
  IN  /\ pc[r] = "idle"
      /\ validate_time_range(patch)
      /\ row # None
      /\ Authorized(u, row)
      /\ row.status \notin Terminal
      /\ target # row.status
           => validate_status_transition(row.status, target, Role(u))
      /\ Begin(r, b, row, new, StatusNotes(b, row, target, u),
               patch.start # None \/ patch.end # None)

(* The rescheduling half of PATCH: the conflict query sees the bookings of *)
(* its own moment, the times it tests come from the row as loaded.         *)
check_provider_conflict(r) ==
  LET t == txn[r]
  IN  /\ pc[r] = "check"
      /\ \/ /\ t.new.end > t.new.start
            /\ is_provider_available(bookings, t.new.provider, t.new.start,
                                     t.new.end, t.bid)
            /\ pc' = [pc EXCEPT ![r] = "flush"]
            /\ UNCHANGED <<bookings, notifs, txn>>
         \/ /\ ~ /\ t.new.end > t.new.start
                 /\ is_provider_available(bookings, t.new.provider,
                                          t.new.start, t.new.end, t.bid)
            /\ Rollback(r)

(* POST /bookings/{id}/cancel, up to the first write.                      *)
cancel_booking(r, u, b) ==
  LET row == bookings[b]
  IN  /\ pc[r] = "idle"
      /\ row # None
      /\ Authorized(u, row)
      /\ validate_status_transition(row.status, "cancelled", Role(u))
      /\ Begin(r, b, row, [row EXCEPT !.status = "cancelled"],
               notify_cancellation(b, row, u), FALSE)

(* Slip: only confirmed bookings are refused.                              *)
DeleteUnlessConfirmed(r, u, b) ==
  LET row == bookings[b]
  IN  /\ pc[r] = "idle"
      /\ row # None
      /\ MayDelete(u, row)
      /\ row.status # "confirmed"
      /\ Begin(r, b, row, [row EXCEPT !.status = "cancelled"],
               notify_cancellation(b, row, u), FALSE)

(* DELETE /bookings/{id}, up to the first write.                           *)
delete_booking(r, u, b) ==
  LET row == bookings[b]
  IN  /\ pc[r] = "idle"
      /\ row # None
      /\ MayDelete(u, row)
      /\ row.status = "pending"
      /\ Begin(r, b, row, [row EXCEPT !.status = "cancelled"],
               notify_cancellation(b, row, u), FALSE)

-----------------------------------------------------------------------------
Arrive(r) ==
  \E u \in Users :
    \/ \E body \in Creations : create_booking(r, u, body)
    \/ \E b \in BookingIds :
         \/ \E patch \in Patches : update_booking(r, u, b, patch)
         \/ cancel_booking(r, u, b)
         \/ delete_booking(r, u, b)

(* The statements a request still has to run.                              *)
Proceed(r) ==
  \/ insert_booking(r)
  \/ create_notification(r)
  \/ check_provider_conflict(r)
  \/ Flush(r)
  \/ Commit(r)

Next == \E r \in Requests : Arrive(r) \/ Proceed(r) \/ Abort(r)

Spec == Init /\ [][Next]_vars

(* Threads run; PostgreSQL queues the waiters of a lock and wakes them, so *)
(* a statement that is let through again and again runs in the end.        *)
Fairness ==
  \A r \in Requests :
    /\ WF_vars(insert_booking(r) \/ check_provider_conflict(r) \/ Commit(r))
    /\ SF_vars(create_notification(r))
    /\ SF_vars(Flush(r))

FairSpec == Spec /\ Fairness

(* Requests about one provider that do not overlap in time, as a lock on   *)
(* the provider would have it that a request takes before it reads.        *)
OneOfProvider(r) ==
  \A q \in Requests \ {r} :
    pc[q] # "idle" => txn[q].new.provider # txn[r].new.provider

PerProviderNext ==
  \E r \in Requests :
    (Arrive(r) /\ OneOfProvider(r)') \/ Proceed(r) \/ Abort(r)

PerProviderSpec == Init /\ [][PerProviderNext]_vars

-----------------------------------------------------------------------------
TypeOK ==
  /\ bookings \in [BookingIds -> Row \cup {None}]
  /\ notifs \subseteq Note
  /\ pc \in [Requests ->
               {"idle", "insert", "notify", "check", "flush", "commit"}]
  /\ txn \in [Requests -> Txn]

Exists(b) == bookings[b] # None

(* Two requests may each move one end of the same booking, and each move   *)
(* is fine against the row that request loaded; no committed row is empty  *)
(* or reversed all the same.                                               *)
ValidIntervals ==
  \A b \in BookingIds : Exists(b) => bookings[b].end > bookings[b].start

(* The notifications in keys tell the parties of booking b how it came to  *)
(* be as row is: the provider of the booking, the customer of a            *)
(* confirmation and a completion, and of a cancellation at least the party *)
(* that did not cancel.                                                    *)
Told(b, row, keys) ==
  /\ NoteFor(row.provider, b, "booking_created") \in keys
  /\ row.status \in {"confirmed", "completed"}
       => NoteFor(row.customer, b, "booking_confirmed") \in keys
  /\ row.status = "completed"
       => NoteFor(row.customer, b, "booking_completed") \in keys
  /\ row.status = "cancelled"
       => \/ NoteFor(row.customer, b, "booking_cancelled") \in keys
          \/ NoteFor(row.provider, b, "booking_cancelled") \in keys

(* Status and notifications stay in step under every interleaving, wait    *)
(* and rollback: no committed row has a status its parties were not told.  *)
LifecycleNotified ==
  \A b \in BookingIds : Exists(b) => Told(b, bookings[b], notifs)

(* Request r cannot go on before request q ends its transaction.           *)
WaitsFor(r, q) ==
  /\ r # q
  /\ \/ pc[r] = "notify" /\ Head(txn[r].todo) \in txn[q].held
     \/ /\ pc[r] = "flush" /\ txn[r].old # txn[r].new
        /\ LocksRow(q, txn[r].bid)

(* Requests take notification keys (customer's before provider's) and then *)
(* the row, so however many run, no set of them waits in a circle.         *)
NoWaitCycle ==
  \A S \in SUBSET Requests :
    S # {} => \E r \in S : \A q \in S : ~WaitsFor(r, q)

(* Every request that was accepted gets its answer.                        *)
RequestsEnd ==
  \A r \in Requests : pc[r] # "idle" ~> pc[r] = "idle"

Contract == INSTANCE BookingContract
              WITH bookings <- bookings, notifs <- notifs

(* Every accepted request is one atomic step of the contract.              *)
KeepsContract == Contract!CSpec

(* DESIGN_NOTE section 8: no provider has two active bookings at once.     *)
NoOverlap == Contract!NoOverlap

(* A booking that was completed or cancelled is never modified again.      *)
TerminalIsFinal == Contract!TerminalIsFinal
=============================================================================
