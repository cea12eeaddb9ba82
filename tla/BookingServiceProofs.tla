----------------------- MODULE BookingServiceProofs -----------------------
(***************************************************************************)
(* Safety of BookingService for any number of requests, users, bookings    *)
(* and instants.  The inductive invariant has three layers: what a session *)
(* holds at each statement (Sessions), what protects a row between its     *)
(* UPDATE and its COMMIT (RowLocks), and which notifications an open       *)
(* transaction has put in place (Promised).  Then: nobody waits in a       *)
(* circle (WaitOrder), and requests one at a time of each provider keep    *)
(* the contract (ProviderInv).                                             *)
(***************************************************************************)
EXTENDS BookingService, TLAPS

(* The statements a request that loaded an existing booking goes through.  *)
Loaded == {"notify", "check", "flush", "commit"}

SameParties(x, y) == x.customer = y.customer /\ x.provider = y.provider

(* A creator's row is a legal one of an id nobody else has; any other open *)
(* session is about an existing booking of the same two parties.           *)
SessionOK(r) ==
  LET t == txn[r]
  IN  /\ pc[r] = "idle" => t = NoTxn
      /\ pc[r] = "insert" =>
           /\ t.bid \in BookingIds /\ t.new \in Row
           /\ bookings[t.bid] = None
           /\ t.new.status = "pending" /\ t.new.end > t.new.start
      /\ pc[r] \in Loaded =>
           /\ t.bid \in BookingIds /\ t.old \in Row /\ t.new \in Row
           /\ bookings[t.bid] # None
           /\ SameParties(t.old, bookings[t.bid])
           /\ SameParties(t.new, bookings[t.bid])
      /\ pc[r] = "notify" => t.todo # <<>>
      /\ pc[r] \in {"check", "flush", "commit"} => t.todo = <<>>

FreshIds ==
  \A r, q \in Requests :
    r # q /\ pc[r] = "insert" => txn[q].bid # txn[r].bid

Sessions == TypeOK /\ FreshIds /\ \A r \in Requests : SessionOK(r)

-----------------------------------------------------------------------------
(* Facts about the rules.                                                  *)

(* A note about a party of a row is a note.                                *)
LEMMA NoteForType ==
  ASSUME NEW u \in Users, NEW b \in BookingIds, NEW type \in NotificationType
  PROVE  NoteFor(u, b, type) \in Note
BY DEF NoteFor, Note

(* What _notify_cancellation inserts is a sequence of notifications.       *)
LEMMA CancellationNotesType ==
  ASSUME NEW b \in BookingIds, NEW row \in Row, NEW actor
  PROVE  notify_cancellation(b, row, actor) \in Seq(Note)
<1>1. row.customer \in Users /\ row.provider \in Users
  BY DEF Row, Users
<1>2. /\ NoteFor(row.customer, b, "booking_cancelled") \in Note
      /\ NoteFor(row.provider, b, "booking_cancelled") \in Note
  BY <1>1, NoteForType DEF NotificationType
<1> QED
  BY <1>2 DEF notify_cancellation

(* So is what any change of status inserts.                                *)
LEMMA StatusNotesType ==
  ASSUME NEW b \in BookingIds, NEW row \in Row, NEW target, NEW actor
  PROVE  StatusNotes(b, row, target, actor) \in Seq(Note)
<1>1. row.customer \in Users
  BY DEF Row
<1>2. /\ <<NoteFor(row.customer, b, "booking_confirmed")>> \in Seq(Note)
      /\ <<NoteFor(row.customer, b, "booking_completed")>> \in Seq(Note)
  BY <1>1, NoteForType DEF NotificationType
<1>3. notify_cancellation(b, row, actor) \in Seq(Note)
  BY CancellationNotesType
<1> QED
  BY <1>2, <1>3 DEF StatusNotes

(* No value of a row's columns, and no row, is None.                       *)
LEMMA NoneIsApart ==
  /\ None \notin Row /\ None \notin Times /\ None \notin Status
  /\ None \notin BookingIds
BY RulesAssumption

(* Merging one session's changes into a row gives a row of the same        *)
(* parties.                                                                *)
LEMMA MergeType ==
  ASSUME NEW old \in Row, NEW new \in Row, NEW current \in Row
  PROVE  /\ Merge(old, new, current) \in Row
         /\ SameParties(Merge(old, new, current), current)
BY DEF Merge, Row, SameParties

-----------------------------------------------------------------------------
(* Sessions: the type invariant and what each session holds.               *)

LEMMA InitSessions == Init => Sessions
BY NoneIsApart DEF Init, Sessions, TypeOK, FreshIds, SessionOK, Loaded, NoTxn, Txn

(* A rolled back request leaves nothing behind.                            *)
LEMMA RollbackSessions ==
  ASSUME Sessions, NEW r \in Requests, Rollback(r)
  PROVE  Sessions'
<1>1. NoTxn \in Txn
  BY DEF NoTxn, Txn
<1>2. TypeOK'
  BY <1>1 DEF Sessions, TypeOK, Rollback
<1>3. FreshIds'
  BY NoneIsApart DEF Sessions, FreshIds, SessionOK, Rollback, NoTxn, TypeOK
<1>4. ASSUME NEW q \in Requests PROVE SessionOK(q)'
  <2>1. CASE q = r
    BY <2>1 DEF Sessions, TypeOK, SessionOK, Rollback, Loaded
  <2>2. CASE q # r
    BY <2>2 DEF Sessions, TypeOK, SessionOK, Rollback, Loaded
  <2> QED
    BY <2>1, <2>2
<1> QED
  BY <1>2, <1>3, <1>4 DEF Sessions

(* A handler that has loaded row b and decided on its changes.             *)
LEMMA BeginSessions ==
  ASSUME Sessions, NEW r \in Requests, NEW b \in BookingIds,
         NEW new \in Row, NEW notes \in Seq(Note), NEW resched \in BOOLEAN,
         bookings[b] # None, SameParties(new, bookings[b]), pc[r] = "idle",
         Begin(r, b, bookings[b], new, notes, resched)
  PROVE  Sessions'
<1>1. bookings[b] \in Row
  BY DEF Sessions, TypeOK
<1> DEFINE t == [bid |-> b, old |-> bookings[b], new |-> new, todo |-> notes,
                 held |-> {}, resched |-> resched]
<1>2. t \in Txn
  BY <1>1 DEF Txn
<1>3. /\ txn' = [txn EXCEPT ![r] = t]
      /\ pc' = [pc EXCEPT ![r] = AfterNotes(notes, resched)]
      /\ UNCHANGED <<bookings, notifs>>
  BY DEF Begin
<1>4. /\ AfterNotes(notes, resched) \in {"notify", "check", "flush"}
      /\ AfterNotes(notes, resched) = "notify" <=> notes # <<>>
  BY DEF AfterNotes
<1>5. TypeOK'
  BY <1>2, <1>3, <1>4 DEF Sessions, TypeOK
<1>6. FreshIds'
  BY <1>3, <1>4 DEF Sessions, FreshIds, SessionOK, TypeOK
<1>7. ASSUME NEW q \in Requests PROVE SessionOK(q)'
  <2>1. CASE q = r
    <3>1. txn'[q] = t /\ pc'[q] = AfterNotes(notes, resched)
      BY <1>3, <2>1 DEF Sessions, TypeOK
    <3> QED
      BY <1>1, <1>3, <1>4, <3>1 DEF SessionOK, SameParties
  <2>2. CASE q # r
    BY <1>3, <2>2 DEF Sessions, TypeOK, SessionOK, Loaded
  <2> QED
    BY <2>1, <2>2
<1> QED
  BY <1>5, <1>6, <1>7 DEF Sessions

(* One notification inserted, or found to exist.                           *)
LEMMA NotifySessions ==
  ASSUME Sessions, NEW r \in Requests, create_notification(r)
  PROVE  Sessions'
<1> DEFINE key == Head(txn[r].todo)
           rest == Tail(txn[r].todo)
           held == IF key \in notifs THEN txn[r].held
                   ELSE txn[r].held \cup {key}
           t == [txn[r] EXCEPT !.todo = rest, !.held = held]
<1>1. /\ pc[r] = "notify" /\ txn[r] \in Txn
      /\ txn[r].todo \in Seq(Note) /\ txn[r].todo # <<>>
      /\ txn[r].resched \in BOOLEAN
  BY DEF create_notification, Sessions, TypeOK, SessionOK, Txn
<1>2. key \in Note /\ rest \in Seq(Note)
  BY <1>1
<1>3. t \in Txn
  BY <1>1, <1>2 DEF Txn
<1>4. /\ pc' = [pc EXCEPT ![r] = AfterNotes(rest, txn[r].resched)]
      /\ txn' = [txn EXCEPT ![r] = t]
      /\ UNCHANGED <<bookings, notifs>>
  BY <1>1 DEF create_notification, Sessions, TypeOK, Txn
<1>5. /\ AfterNotes(rest, txn[r].resched) \in {"notify", "check", "flush"}
      /\ AfterNotes(rest, txn[r].resched) = "notify" <=> rest # <<>>
  BY DEF AfterNotes
<1>6. TypeOK'
  BY <1>3, <1>4, <1>5 DEF Sessions, TypeOK
<1>7. FreshIds'
  BY <1>1, <1>4, <1>5 DEF Sessions, FreshIds, TypeOK, Txn
<1>8. ASSUME NEW q \in Requests PROVE SessionOK(q)'
  <2>1. CASE q = r
    <3>1. txn'[q] = t /\ pc'[q] = AfterNotes(rest, txn[r].resched)
      BY <1>4, <2>1 DEF Sessions, TypeOK
    <3>2. SessionOK(r)
      BY DEF Sessions
    <3>3. /\ t.bid = txn[r].bid /\ t.old = txn[r].old /\ t.new = txn[r].new
          /\ t.todo = rest
      BY <1>1 DEF Txn
    <3> HIDE DEF t, rest
    <3> QED
      BY <1>1, <1>4, <1>5, <2>1, <3>1, <3>2, <3>3 DEF SessionOK, Loaded
  <2>2. CASE q # r
    BY <1>4, <2>2 DEF Sessions, TypeOK, SessionOK, Loaded
  <2> QED
    BY <2>1, <2>2
<1> QED
  BY <1>6, <1>7, <1>8 DEF Sessions

(* A statement that only lets its request go on.                           *)
LEMMA AdvanceSessions ==
  ASSUME Sessions, NEW r \in Requests, NEW next \in {"flush", "commit"},
         pc[r] \in {"check", "flush"}, pc' = [pc EXCEPT ![r] = next],
         UNCHANGED <<bookings, notifs, txn>>
  PROVE  Sessions'
<1>1. TypeOK'
  BY DEF Sessions, TypeOK
<1>2. FreshIds'
  BY DEF Sessions, FreshIds, TypeOK
<1>3. ASSUME NEW q \in Requests PROVE SessionOK(q)'
  BY DEF Sessions, TypeOK, SessionOK, Loaded
<1> QED
  BY <1>1, <1>2, <1>3 DEF Sessions

(* The end of a transaction that stores a row of the same parties.         *)
LEMMA StoreSessions ==
  ASSUME Sessions, NEW r \in Requests, NEW b \in BookingIds, NEW row \in Row,
         NEW keys \in SUBSET Note,
         bookings[b] = None => \A q \in Requests \ {r} :
                                 pc[q] # "idle" => txn[q].bid # b,
         bookings[b] # None => SameParties(row, bookings[b]),
         bookings' = [bookings EXCEPT ![b] = row],
         notifs' = notifs \cup keys,
         pc' = [pc EXCEPT ![r] = "idle"],
         txn' = [txn EXCEPT ![r] = NoTxn]
  PROVE  Sessions'
<1>1. NoTxn \in Txn
  BY DEF NoTxn, Txn
<1>2. TypeOK'
  BY <1>1 DEF Sessions, TypeOK
<1>3. FreshIds'
  BY NoneIsApart DEF Sessions, FreshIds, SessionOK, NoTxn, TypeOK
<1>4. ASSUME NEW q \in Requests PROVE SessionOK(q)'
  <2>1. CASE q = r
    BY <2>1 DEF Sessions, TypeOK, SessionOK, Loaded
  <2>2. CASE q # r
    <3>1. /\ txn'[q] = txn[q] /\ pc'[q] = pc[q]
          /\ bookings'[b] = row
          /\ \A c \in BookingIds \ {b} : bookings'[c] = bookings[c]
      BY <2>2 DEF Sessions, TypeOK
    <3>2. SessionOK(q)
      BY DEF Sessions
    <3>3. CASE pc[q] = "insert"
      BY <2>2, <3>1, <3>2, <3>3 DEF SessionOK, Loaded, Sessions, FreshIds
    <3>4. CASE pc[q] \in Loaded
      BY <2>2, <3>1, <3>2, <3>4, NoneIsApart DEF SessionOK, Loaded, SameParties
    <3> QED
      BY <3>1, <3>2, <3>3, <3>4 DEF SessionOK, Sessions, TypeOK, Loaded
  <2> QED
    BY <2>1, <2>2
<1> QED
  BY <1>2, <1>3, <1>4 DEF Sessions

(* POST: the new session's row is legal and its id nobody else's.          *)
LEMMA CreateSessions ==
  ASSUME Sessions, NEW r \in Requests, NEW u \in Users,
         NEW body \in Creations, create_booking(r, u, body)
  PROVE  Sessions'
<1> DEFINE row == [customer |-> u, provider |-> body.provider,
                   start |-> body.start, end |-> body.end,
                   status |-> "pending"]
<1>1. row \in Row /\ row.status = "pending" /\ row.end > row.start
  BY InputsAssumption
       DEF create_booking, validate_booking_rules, BookingCreate, Row, Status
<1>2. PICK b \in BookingIds :
        /\ bookings[b] = None
        /\ \A q \in Requests : txn[q].bid # b
        /\ txn' = [txn EXCEPT ![r].bid = b, ![r].new = row]
  BY DEF create_booking
<1>3. /\ pc[r] = "idle" /\ txn[r] \in Txn
      /\ pc' = [pc EXCEPT ![r] = "insert"]
      /\ UNCHANGED <<bookings, notifs>>
  BY DEF create_booking, Sessions, TypeOK
<1> DEFINE t == [txn[r] EXCEPT !.bid = b, !.new = row]
<1>4. /\ txn' = [txn EXCEPT ![r] = t]
      /\ t \in Txn /\ t.bid = b /\ t.new = row
  <2> HIDE DEF row
  <2> QED
    BY <1>1, <1>2, <1>3 DEF Sessions, TypeOK, Txn
<1> HIDE DEF t, row
<1>5. TypeOK'
  BY <1>3, <1>4 DEF Sessions, TypeOK
<1>6. FreshIds'
  BY <1>2, <1>3, <1>4 DEF Sessions, FreshIds, SessionOK, TypeOK
<1>7. ASSUME NEW q \in Requests PROVE SessionOK(q)'
  <2>1. CASE q = r
    BY <1>1, <1>2, <1>3, <1>4, <2>1 DEF Sessions, TypeOK, SessionOK, Loaded
  <2>2. CASE q # r
    BY <1>3, <1>4, <2>2 DEF Sessions, TypeOK, SessionOK, Loaded
  <2> QED
    BY <2>1, <2>2
<1> QED
  BY <1>5, <1>6, <1>7 DEF Sessions

(* The row update_booking is about to write has legal columns.             *)
LEMMA PatchedRow ==
  ASSUME NEW row \in Row, NEW patch \in Patches
  PROVE  LET target == Given(patch.status, row.status)
             new == [row EXCEPT !.status = target,
                                !.start = Given(patch.start, @),
                                !.end = Given(patch.end, @)]
         IN  /\ target \in Status /\ new \in Row /\ SameParties(new, row)
             /\ new.status = target
             /\ patch.start = None /\ patch.end = None
                  => new.start = row.start /\ new.end = row.end
<1>1. patch \in [status : Status \cup {None}, start : Times \cup {None},
                 end : Times \cup {None}]
  BY InputsAssumption DEF BookingUpdate
<1>2. /\ Given(patch.status, row.status) \in Status
      /\ Given(patch.start, row.start) \in Times
      /\ Given(patch.end, row.end) \in Times
  BY <1>1 DEF Given, Row
<1>3. /\ patch.start = None => Given(patch.start, row.start) = row.start
      /\ patch.end = None => Given(patch.end, row.end) = row.end
  BY DEF Given
<1> QED
  BY <1>2, <1>3 DEF Row, SameParties

(* Every step keeps every session in order.                                *)
LEMMA NextSessions == Sessions /\ [Next]_vars => Sessions'
<1> SUFFICES ASSUME Sessions, [Next]_vars PROVE Sessions'
  OBVIOUS
<1>0. \A b \in BookingIds : bookings[b] # None => bookings[b] \in Row
  BY DEF Sessions, TypeOK
<1>1. ASSUME NEW r \in Requests, NEW u \in Users, NEW body \in Creations,
             create_booking(r, u, body)
      PROVE  Sessions'
  BY <1>1, CreateSessions
<1>2. ASSUME NEW r \in Requests, NEW u \in Users, NEW b \in BookingIds,
             NEW patch \in Patches, update_booking(r, u, b, patch)
      PROVE  Sessions'
  <2> DEFINE row == bookings[b]
             target == Given(patch.status, row.status)
             new == [row EXCEPT !.status = target,
                                !.start = Given(patch.start, @),
                                !.end = Given(patch.end, @)]
             resched == patch.start # None \/ patch.end # None
  <2>1. row # None /\ row \in Row /\ pc[r] = "idle"
    BY <1>0, <1>2 DEF update_booking
  <2>2. new \in Row /\ SameParties(new, row)
    BY <2>1, PatchedRow
  <2>3. StatusNotes(b, row, target, u) \in Seq(Note)
    BY <2>1, StatusNotesType
  <2>4. Begin(r, b, row, new, StatusNotes(b, row, target, u), resched)
    BY <1>2 DEF update_booking
  <2>5. resched \in BOOLEAN
    OBVIOUS
  <2> HIDE DEF new, resched
  <2> QED
    BY <2>1, <2>2, <2>3, <2>4, <2>5, BeginSessions
<1>3. ASSUME NEW r \in Requests, NEW u \in Users, NEW b \in BookingIds,
             cancel_booking(r, u, b) \/ delete_booking(r, u, b)
      PROVE  Sessions'
  <2> DEFINE row == bookings[b]
             new == [row EXCEPT !.status = "cancelled"]
  <2>1. row # None /\ row \in Row /\ pc[r] = "idle"
    BY <1>0, <1>3 DEF cancel_booking, delete_booking
  <2>2. new \in Row /\ SameParties(new, row)
    BY <2>1 DEF Row, Status, SameParties
  <2>3. notify_cancellation(b, row, u) \in Seq(Note)
    BY <2>1, CancellationNotesType
  <2>4. Begin(r, b, row, new, notify_cancellation(b, row, u), FALSE)
    BY <1>3 DEF cancel_booking, delete_booking
  <2> HIDE DEF new
  <2> QED
    BY <2>1, <2>2, <2>3, <2>4, BeginSessions
<1>4. ASSUME NEW r \in Requests, insert_booking(r)
      PROVE  Sessions'
  <2> DEFINE b == txn[r].bid
             row == txn[r].new
             keys == {NoteFor(row.provider, b, "booking_created")}
  <2>1. /\ pc[r] = "insert" /\ SessionOK(r)
        /\ b \in BookingIds /\ row \in Row /\ bookings[b] = None
    BY <1>4 DEF insert_booking, Sessions, SessionOK
  <2>2. keys \in SUBSET Note
    BY <2>1, NoteForType DEF Row, Users, NotificationType
  <2>3. \A q \in Requests \ {r} : txn[q].bid # b
    BY <2>1 DEF Sessions, FreshIds
  <2>4. /\ bookings' = [bookings EXCEPT ![b] = row]
        /\ notifs' = notifs \cup keys
        /\ pc' = [pc EXCEPT ![r] = "idle"]
        /\ txn' = [txn EXCEPT ![r] = NoTxn]
    BY <1>4 DEF insert_booking
  <2> HIDE DEF b, row, keys
  <2> QED
    BY <2>1, <2>2, <2>3, <2>4, StoreSessions
<1>5. ASSUME NEW r \in Requests, create_notification(r)
      PROVE  Sessions'
  BY <1>5, NotifySessions
<1>6. ASSUME NEW r \in Requests, check_provider_conflict(r) \/ Flush(r)
      PROVE  Sessions'
  BY <1>6, RollbackSessions, AdvanceSessions DEF check_provider_conflict, Flush
<1>7. ASSUME NEW r \in Requests, Commit(r)
      PROVE  Sessions'
  <2> DEFINE b == txn[r].bid
             row == Merge(txn[r].old, txn[r].new, bookings[b])
  <2>1. /\ pc[r] = "commit" /\ SessionOK(r)
        /\ txn[r].held \in SUBSET Note
    BY <1>7 DEF Commit, Sessions, TypeOK, Txn
  <2>2. /\ b \in BookingIds /\ bookings[b] # None
        /\ txn[r].old \in Row /\ txn[r].new \in Row /\ bookings[b] \in Row
    BY <1>0, <2>1 DEF SessionOK, Loaded
  <2>3. row \in Row /\ SameParties(row, bookings[b])
    BY <2>2, MergeType
  <2>4. /\ bookings' = [bookings EXCEPT ![b] = row]
        /\ notifs' = notifs \cup txn[r].held
        /\ pc' = [pc EXCEPT ![r] = "idle"]
        /\ txn' = [txn EXCEPT ![r] = NoTxn]
    BY <1>7, <2>2 DEF Commit, Sessions, TypeOK
  <2> HIDE DEF b, row
  <2> QED
    BY <2>1, <2>2, <2>3, <2>4, StoreSessions
<1>8. ASSUME NEW r \in Requests, Abort(r)
      PROVE  Sessions'
  BY <1>8, RollbackSessions DEF Abort
<1>9. CASE UNCHANGED vars
  BY <1>9 DEF vars, Sessions, TypeOK, FreshIds, SessionOK
<1> QED
  BY <1>1, <1>2, <1>3, <1>4, <1>5, <1>6, <1>7, <1>8, <1>9
  DEF Next, Arrive, Proceed

(* The state of the service stays well-typed, and every open session is    *)
(* about an existing booking whose parties it knows: nobody changes the    *)
(* parties of a booking or takes its id a second time.                     *)
THEOREM SessionsInvariant == Spec => []Sessions
<1> QED
  BY InitSessions, NextSessions, PTL DEF Spec

(* Type correctness of the tables and the sessions, for any constants.     *)
THEOREM TypeCorrect == Spec => []TypeOK
<1>1. Sessions => TypeOK
  BY DEF Sessions
<1> QED
  BY <1>1, SessionsInvariant, PTL

-----------------------------------------------------------------------------
(* RowLocks: from its UPDATE to its COMMIT a request is alone on the row,  *)
(* so the row that passed the CHECK is the row that is stored.             *)

ValidRow(row) == row.end > row.start

Changing(r) == pc[r] = "commit" /\ txn[r].old # txn[r].new

RowLocks ==
  /\ ValidIntervals
  /\ \A r, q \in Requests :
       r # q /\ Changing(r) /\ Changing(q) => txn[r].bid # txn[q].bid
  /\ \A r \in Requests :
       Changing(r) =>
         ValidRow(Merge(txn[r].old, txn[r].new, bookings[txn[r].bid]))

(* A session without changes stores the row it finds.                      *)
LEMMA MergeNothing ==
  ASSUME NEW old \in Row, NEW current \in Row
  PROVE  Merge(old, old, current) = current
BY DEF Merge, Row

(* A step that stores nothing and takes no request to its COMMIT.          *)
LEMMA QuietRowLocks ==
  ASSUME Sessions, RowLocks, NEW r \in Requests,
         NEW next \in {"idle", "insert", "notify", "check", "flush"},
         bookings' = bookings, pc' = [pc EXCEPT ![r] = next],
         \A q \in Requests \ {r} : txn'[q] = txn[q]
  PROVE  RowLocks'
<1>1. \A q \in Requests : Changing(q)' => q # r /\ Changing(q) /\ txn'[q] = txn[q]
  BY DEF Changing, Sessions, TypeOK
<1>2. ValidIntervals'
  BY DEF RowLocks, ValidIntervals, Exists
<1> QED
  BY <1>1, <1>2 DEF RowLocks

LEMMA NextRowLocks == Sessions /\ RowLocks /\ [Next]_vars => RowLocks'
<1> SUFFICES ASSUME Sessions, RowLocks, [Next]_vars PROVE RowLocks'
  OBVIOUS
<1>0. txn \in [Requests -> Txn] /\ bookings \in [BookingIds -> Row \cup {None}]
  BY DEF Sessions, TypeOK
<1>1. ASSUME NEW r \in Requests, Rollback(r)
      PROVE  RowLocks'
  BY <1>0, <1>1, QuietRowLocks DEF Rollback
<1>2. ASSUME NEW r \in Requests, NEW u \in Users, NEW body \in Creations,
             create_booking(r, u, body)
      PROVE  RowLocks'
  BY <1>0, <1>2, QuietRowLocks DEF create_booking
<1>3. ASSUME NEW r \in Requests, NEW b, NEW row, NEW new, NEW notes,
             NEW resched, Begin(r, b, row, new, notes, resched)
      PROVE  RowLocks'
  BY <1>0, <1>3, QuietRowLocks DEF Begin, AfterNotes
<1>4. ASSUME NEW r \in Requests, create_notification(r)
      PROVE  RowLocks'
  BY <1>0, <1>4, QuietRowLocks DEF create_notification, AfterNotes
<1>5. ASSUME NEW r \in Requests, check_provider_conflict(r)
      PROVE  RowLocks'
  BY <1>0, <1>1, <1>5, QuietRowLocks DEF check_provider_conflict
<1>6. ASSUME NEW r \in Requests, Flush(r)
      PROVE  RowLocks'
  <2>1. CASE Rollback(r)
    BY <1>1, <2>1
  <2>2. CASE ~Rollback(r)
    <3>1. /\ pc' = [pc EXCEPT ![r] = "commit"]
          /\ UNCHANGED <<bookings, notifs, txn>>
          /\ txn[r].old # txn[r].new =>
               /\ \A q \in Requests \ {r} : ~LocksRow(q, txn[r].bid)
               /\ ValidRow(Merge(txn[r].old, txn[r].new,
                                 bookings[txn[r].bid]))
      BY <1>6, <2>2 DEF Flush, ValidRow
    <3>2. ValidIntervals'
      BY <3>1 DEF RowLocks, ValidIntervals, Exists
    <3>3. \A q \in Requests : Changing(q)' <=>
            IF q = r THEN txn[r].old # txn[r].new ELSE Changing(q)
      BY <3>1 DEF Changing, Sessions, TypeOK
    <3>4. ASSUME NEW q \in Requests, NEW s \in Requests, q # s,
                 Changing(q)', Changing(s)'
          PROVE  txn'[q].bid # txn'[s].bid
      BY <3>1, <3>3, <3>4 DEF RowLocks, LocksRow, Changing
    <3>5. ASSUME NEW q \in Requests, Changing(q)'
          PROVE  ValidRow(Merge(txn'[q].old, txn'[q].new,
                                bookings'[txn'[q].bid]))
      BY <3>1, <3>3, <3>5 DEF RowLocks
    <3> QED
      BY <3>2, <3>4, <3>5 DEF RowLocks
  <2> QED
    BY <2>1, <2>2
<1>7. ASSUME NEW r \in Requests, NEW b \in BookingIds, NEW row \in Row,
             ValidRow(row),
             bookings' = [bookings EXCEPT ![b] = row],
             pc' = [pc EXCEPT ![r] = "idle"],
             txn' = [txn EXCEPT ![r] = NoTxn],
             \A q \in Requests \ {r} :
               Changing(q) /\ txn[q].bid = b => row = bookings[b]
      PROVE  RowLocks'
  <2>1. \A c \in BookingIds :
          bookings'[c] = IF c = b THEN row ELSE bookings[c]
    BY <1>0, <1>7
  <2>2. ValidIntervals'
    BY <1>7, <2>1 DEF RowLocks, ValidIntervals, Exists, ValidRow
  <2>3. \A q \in Requests :
          Changing(q)' => q # r /\ Changing(q) /\ txn'[q] = txn[q]
    BY <1>0, <1>7 DEF Changing, Sessions, TypeOK
  <2>4. ASSUME NEW q \in Requests, Changing(q)'
        PROVE  bookings'[txn[q].bid] = bookings[txn[q].bid]
    <3>1. txn[q].bid \in BookingIds
      BY <2>3, <2>4 DEF Sessions, SessionOK, Loaded, Changing
    <3> QED
      BY <1>7, <2>1, <2>3, <2>4, <3>1
  <2> QED
    BY <2>2, <2>3, <2>4 DEF RowLocks
<1>8. ASSUME NEW r \in Requests, insert_booking(r)
      PROVE  RowLocks'
  <2> DEFINE b == txn[r].bid
             row == txn[r].new
  <2>1. /\ b \in BookingIds /\ row \in Row /\ ValidRow(row)
        /\ pc[r] = "insert" /\ bookings[b] = None
    BY <1>8 DEF insert_booking, Sessions, SessionOK, ValidRow
  <2>2. \A q \in Requests \ {r} : txn[q].bid # b
    BY <2>1 DEF Sessions, FreshIds
  <2> QED
    BY <1>7, <1>8, <2>1, <2>2 DEF insert_booking
<1>9. ASSUME NEW r \in Requests, Commit(r)
      PROVE  RowLocks'
  <2> DEFINE t == txn[r]
             b == t.bid
             row == Merge(t.old, t.new, bookings[b])
  <2>1. /\ pc[r] = "commit" /\ SessionOK(r)
        /\ bookings' = [bookings EXCEPT ![b] = Merge(t.old, t.new, @)]
        /\ pc' = [pc EXCEPT ![r] = "idle"]
        /\ txn' = [txn EXCEPT ![r] = NoTxn]
    BY <1>9 DEF Commit, Sessions
  <2>2. /\ b \in BookingIds /\ t.old \in Row /\ t.new \in Row
        /\ bookings[b] \in Row /\ bookings[b] # None
    BY <1>0, <2>1 DEF SessionOK, Loaded
  <2>3. bookings' = [bookings EXCEPT ![b] = row] /\ row \in Row
    BY <1>0, <2>1, <2>2, MergeType
  <2>4. CASE t.old = t.new
    <3>1. row = bookings[b]
      BY <2>2, <2>4, MergeNothing
    <3>2. ValidRow(row)
      BY <2>2, <3>1 DEF RowLocks, ValidIntervals, Exists, ValidRow
    <3> HIDE DEF row
    <3> QED
      BY <1>7, <2>1, <2>2, <2>3, <3>1, <3>2
  <2>5. CASE t.old # t.new
    <3>1. Changing(r)
      BY <2>1, <2>5 DEF Changing
    <3>2. ValidRow(row)
      BY <3>1 DEF RowLocks
    <3>3. \A q \in Requests \ {r} :
            Changing(q) /\ txn[q].bid = b => row = bookings[b]
      BY <3>1 DEF RowLocks
    <3> HIDE DEF row
    <3> QED
      BY <1>7, <2>1, <2>2, <2>3, <3>2, <3>3
  <2> QED
    BY <2>4, <2>5
<1>10. ASSUME NEW r \in Requests, NEW u \in Users, NEW b \in BookingIds,
              NEW patch \in Patches, update_booking(r, u, b, patch)
       PROVE  RowLocks'
  BY <1>3, <1>10 DEF update_booking
<1>11. ASSUME NEW r \in Requests, NEW u \in Users, NEW b \in BookingIds,
              cancel_booking(r, u, b) \/ delete_booking(r, u, b)
       PROVE  RowLocks'
  BY <1>3, <1>11 DEF cancel_booking, delete_booking
<1>12. CASE UNCHANGED vars
  BY <1>12 DEF vars, RowLocks, ValidIntervals, Exists, Changing
<1> QED
  BY <1>1, <1>2, <1>4, <1>5, <1>6, <1>8, <1>9, <1>10, <1>11, <1>12
  DEF Next, Arrive, Proceed, Abort

(* However requests that move the two ends of one booking interleave, no   *)
(* committed booking is empty or reversed: the row lock an UPDATE holds to *)
(* its COMMIT and the CHECK it passed make up for the stale row the        *)
(* handlers validated.                                                     *)
THEOREM IntervalsStayValid == Spec => []ValidIntervals
<1>1. Init => RowLocks
  BY DEF Init, RowLocks, ValidIntervals, Exists, Changing
<1>2. Spec => []RowLocks
  BY <1>1, NextRowLocks, SessionsInvariant, PTL DEF Spec
<1>3. RowLocks => ValidIntervals
  BY DEF RowLocks
<1> QED
  BY <1>2, <1>3, PTL

-----------------------------------------------------------------------------
(* Promised: the row an open transaction is about to store is one whose    *)
(* parties are told by what is committed, what the transaction inserted    *)
(* and what it is still to insert.                                         *)

TwoParties(row) == row.customer # row.provider

Keys(r) == notifs \cup txn[r].held \cup Range(txn[r].todo)

Promised ==
  /\ \A b \in BookingIds :
       Exists(b) => TwoParties(bookings[b]) /\ Told(b, bookings[b], notifs)
  /\ \A r \in Requests :
       /\ pc[r] = "insert" => TwoParties(txn[r].new)
       /\ pc[r] \in Loaded => Told(txn[r].bid, txn[r].new, Keys(r))

(* Telling depends on the parties and the status alone, and more           *)
(* notifications never tell less.                                          *)
LEMMA ToldMonotone ==
  ASSUME NEW b, NEW x \in Row, NEW y \in Row, NEW small, NEW large,
         SameParties(x, y), x.status = y.status, small \subseteq large,
         Told(b, x, small)
  PROVE  Told(b, y, large)
BY DEF Told, SameParties

(* The range of a sequence is its head and the range of its tail.          *)
LEMMA RangeOfSeq ==
  ASSUME NEW S, NEW s \in Seq(S)
  PROVE  /\ s = <<>> => Range(s) = {}
         /\ s # <<>> => Range(s) = {Head(s)} \cup Range(Tail(s))
<1>1. ASSUME s # <<>>, NEW i \in DOMAIN s
      PROVE  s[i] = Head(s) \/ \E j \in DOMAIN Tail(s) : Tail(s)[j] = s[i]
  <2>1. CASE i = 1
    BY <2>1
  <2>2. CASE i # 1
    <3>1. i - 1 \in DOMAIN Tail(s) /\ Tail(s)[i - 1] = s[i]
      BY <1>1, <2>2
    <3> QED
      BY <3>1
  <2> QED
    BY <2>1, <2>2
<1>2. ASSUME s # <<>>, NEW j \in DOMAIN Tail(s)
      PROVE  j + 1 \in DOMAIN s /\ Tail(s)[j] = s[j + 1]
  BY <1>2
<1>3. s # <<>> => 1 \in DOMAIN s /\ Head(s) = s[1]
  OBVIOUS
<1> QED
  BY <1>1, <1>2, <1>3 DEF Range

(* Inserting one notification changes one session, and moves the key from  *)
(* what is to be inserted to what is, or is found to be committed.         *)
LEMMA NotifyStep ==
  ASSUME Sessions, NEW r \in Requests, create_notification(r)
  PROVE  /\ UNCHANGED <<bookings, notifs>>
         /\ \A q \in Requests \ {r} : pc'[q] = pc[q] /\ txn'[q] = txn[q]
         /\ txn'[r].bid = txn[r].bid /\ txn'[r].old = txn[r].old
         /\ txn'[r].new = txn[r].new /\ txn'[r].resched = txn[r].resched
         /\ pc'[r] \in Loaded
         /\ pc'[r] = "flush" => ~txn[r].resched
         /\ pc'[r] # "commit"
         /\ Keys(r)' = Keys(r)
<1> DEFINE t == txn[r]
           key == Head(t.todo)
<1>0. txn \in [Requests -> Txn]
  BY DEF Sessions, TypeOK
<1>1. /\ pc[r] = "notify" /\ t \in Txn /\ t.todo \in Seq(Note)
      /\ t.todo # <<>>
  BY <1>0 DEF create_notification, Sessions, SessionOK, Txn
<1>2. /\ UNCHANGED <<bookings, notifs>>
      /\ \A q \in Requests \ {r} : pc'[q] = pc[q] /\ txn'[q] = txn[q]
      /\ txn'[r].bid = t.bid /\ txn'[r].old = t.old
      /\ txn'[r].new = t.new /\ txn'[r].resched = t.resched
      /\ txn'[r].todo = Tail(t.todo)
      /\ txn'[r].held = IF key \in notifs THEN t.held ELSE t.held \cup {key}
  BY <1>0, <1>1 DEF create_notification, Sessions, TypeOK, Txn
<1>3. /\ pc'[r] \in Loaded
      /\ pc'[r] = "flush" => ~txn[r].resched
      /\ pc'[r] # "commit"
  BY <1>1 DEF create_notification, AfterNotes, Loaded, Sessions, TypeOK
<1>4. Range(t.todo) = {key} \cup Range(Tail(t.todo))
  BY <1>1, RangeOfSeq
<1>5. Keys(r)' = Keys(r)
  BY <1>2, <1>4 DEF Keys
<1> QED
  BY <1>2, <1>3, <1>5

(* _notify_cancellation leaves out the actor, who is at most one of two.   *)
LEMMA CancellationTells ==
  ASSUME NEW b \in BookingIds, NEW row \in Row, NEW actor, NEW keys,
         TwoParties(row), Told(b, row, keys), row.status \notin Terminal
  PROVE  Told(b, [row EXCEPT !.status = "cancelled"],
              keys \cup Range(notify_cancellation(b, row, actor)))
<1> DEFINE new == [row EXCEPT !.status = "cancelled"]
           toCustomer == NoteFor(row.customer, b, "booking_cancelled")
           toProvider == NoteFor(row.provider, b, "booking_cancelled")
           notes == notify_cancellation(b, row, actor)
<1>1. /\ new.status = "cancelled"
      /\ new.customer = row.customer /\ new.provider = row.provider
  BY DEF Row
<1>2. \/ notes[1] = toCustomer /\ 1 \in DOMAIN notes
      \/ notes[1] = toProvider /\ 1 \in DOMAIN notes
  BY DEF notify_cancellation, TwoParties
<1>3. toCustomer \in Range(notes) \/ toProvider \in Range(notes)
  BY <1>2 DEF Range
<1>4. Told(b, new, keys \cup Range(notes))
  <2> HIDE DEF new, notes
  <2> QED
    BY <1>1, <1>3 DEF Told
<1> QED
  BY <1>4

(* The notifications of a permitted change of status tell of it.           *)
LEMMA StatusNotesTell ==
  ASSUME NEW b \in BookingIds, NEW row \in Row, NEW target \in Status,
         NEW actor, NEW role, NEW keys,
         TwoParties(row), Told(b, row, keys), row.status \notin Terminal,
         target # row.status
           => validate_status_transition(row.status, target, role)
  PROVE  Told(b, [row EXCEPT !.status = target],
              keys \cup Range(StatusNotes(b, row, target, actor)))
<1> DEFINE new == [row EXCEPT !.status = target]
           notes == StatusNotes(b, row, target, actor)
<1>1. /\ new.status = target /\ new \in Row /\ SameParties(row, new)
  BY DEF Row, SameParties
<1> SUFFICES Told(b, new, keys \cup Range(notes))
  OBVIOUS
<1>2. CASE target = row.status
  <2> HIDE DEF new, notes
  <2> QED
    BY <1>1, <1>2, ToldMonotone
<1>3. CASE target # row.status /\ target = "confirmed"
  <2>1. notes = <<NoteFor(row.customer, b, "booking_confirmed")>>
    BY <1>3 DEF StatusNotes
  <2>2. NoteFor(row.customer, b, "booking_confirmed") \in Range(notes)
    BY <2>1 DEF Range
  <2> HIDE DEF notes, new
  <2> QED
    BY <1>1, <1>3, <2>2 DEF Told, SameParties
<1>4. CASE target # row.status /\ target = "completed"
  <2>1. notes = <<NoteFor(row.customer, b, "booking_completed")>>
    BY <1>4 DEF StatusNotes
  <2>2. NoteFor(row.customer, b, "booking_completed") \in Range(notes)
    BY <2>1 DEF Range
  <2>3. row.status = "confirmed"
    BY <1>4 DEF validate_status_transition, VALID_TRANSITIONS
  <2> HIDE DEF notes, new
  <2> QED
    BY <1>1, <1>4, <2>2, <2>3 DEF Told, SameParties
<1>5. CASE target # row.status /\ target = "cancelled"
  <2>1. notes = notify_cancellation(b, row, actor)
    BY <1>5 DEF StatusNotes
  <2> QED
    BY <1>5, <2>1, CancellationTells
<1>6. CASE target # row.status /\ target = "pending"
  BY <1>6 DEF validate_status_transition, VALID_TRANSITIONS
<1> QED
  BY <1>2, <1>3, <1>4, <1>5, <1>6 DEF Status

(* A step that stores nothing and leaves its own session in order.         *)
LEMMA QuietPromised ==
  ASSUME Sessions, Promised, NEW r \in Requests,
         UNCHANGED <<bookings, notifs>>,
         \A q \in Requests \ {r} : pc'[q] = pc[q] /\ txn'[q] = txn[q],
         pc'[r] = "insert" => TwoParties(txn'[r].new),
         pc'[r] \in Loaded => Told(txn'[r].bid, txn'[r].new, Keys(r)')
  PROVE  Promised'
<1>1. \A b \in BookingIds :
        Exists(b)' => TwoParties(bookings'[b]) /\ Told(b, bookings'[b], notifs')
  BY DEF Promised, Exists
<1>2. ASSUME NEW q \in Requests
      PROVE  /\ pc'[q] = "insert" => TwoParties(txn'[q].new)
             /\ pc'[q] \in Loaded => Told(txn'[q].bid, txn'[q].new, Keys(q)')
  <2>1. CASE q = r
    BY <2>1
  <2>2. CASE q # r
    BY <2>2 DEF Promised, Keys
  <2> QED
    BY <2>1, <2>2
<1> QED
  BY <1>1, <1>2 DEF Promised

(* A step that stores a row its parties are told of.                       *)
LEMMA StorePromised ==
  ASSUME Sessions, Promised, NEW r \in Requests, NEW b \in BookingIds,
         NEW row \in Row, NEW keys,
         TwoParties(row), Told(b, row, notifs \cup keys),
         bookings' = [bookings EXCEPT ![b] = row],
         notifs' = notifs \cup keys,
         pc' = [pc EXCEPT ![r] = "idle"],
         txn' = [txn EXCEPT ![r] = NoTxn]
  PROVE  Promised'
<1>1. ASSUME NEW c \in BookingIds, Exists(c)'
      PROVE  TwoParties(bookings'[c]) /\ Told(c, bookings'[c], notifs')
  <2>1. CASE c = b
    BY <2>1 DEF Sessions, TypeOK
  <2>2. CASE c # b
    <3>1. /\ bookings'[c] = bookings[c] /\ Exists(c) /\ bookings[c] \in Row
          /\ TwoParties(bookings[c]) /\ Told(c, bookings[c], notifs)
      BY <1>1, <2>2 DEF Sessions, TypeOK, Exists, Promised
    <3> QED
      BY <3>1, ToldMonotone DEF SameParties
  <2> QED
    BY <2>1, <2>2
<1>2. ASSUME NEW q \in Requests
      PROVE  /\ pc'[q] = "insert" => TwoParties(txn'[q].new)
             /\ pc'[q] \in Loaded => Told(txn'[q].bid, txn'[q].new, Keys(q)')
  <2>1. CASE q = r
    BY <2>1 DEF Sessions, TypeOK, Loaded
  <2>2. CASE q # r
    <3>1. pc'[q] = pc[q] /\ txn'[q] = txn[q] /\ Keys(q) \subseteq Keys(q)'
      BY <2>2 DEF Sessions, TypeOK, Keys
    <3>2. CASE pc[q] \in Loaded
      <4>1. txn[q].new \in Row /\ Told(txn[q].bid, txn[q].new, Keys(q))
        BY <3>2 DEF Sessions, SessionOK, Promised
      <4>2. Told(txn[q].bid, txn[q].new, Keys(q)')
        BY <3>1, <4>1, ToldMonotone DEF SameParties
      <4> QED
        BY <3>1, <3>2, <4>2 DEF Loaded
    <3>3. CASE pc[q] \notin Loaded
      BY <3>1, <3>3 DEF Promised
    <3> QED
      BY <3>2, <3>3
  <2> QED
    BY <2>1, <2>2
<1> QED
  BY <1>1, <1>2 DEF Promised

(* A handler that has decided on a row its notifications tell of.          *)
LEMMA BeginPromised ==
  ASSUME Sessions, Promised, NEW r \in Requests, NEW b \in BookingIds,
         NEW new \in Row, NEW notes, NEW resched,
         Told(b, new, notifs \cup Range(notes)),
         Begin(r, b, bookings[b], new, notes, resched)
  PROVE  Promised'
<1>1. /\ UNCHANGED <<bookings, notifs>>
      /\ \A q \in Requests \ {r} : pc'[q] = pc[q] /\ txn'[q] = txn[q]
      /\ txn'[r].bid = b /\ txn'[r].new = new
      /\ txn'[r].held = {} /\ txn'[r].todo = notes
      /\ pc'[r] \in {"notify", "check", "flush"}
  BY DEF Begin, AfterNotes, Sessions, TypeOK
<1>2. Keys(r)' = notifs \cup Range(notes)
  BY <1>1 DEF Keys
<1> QED
  BY <1>1, <1>2, QuietPromised

LEMMA NextPromised ==
  Sessions /\ Promised /\ [Next]_vars => Promised'
<1> SUFFICES ASSUME Sessions, Promised, [Next]_vars PROVE Promised'
  OBVIOUS
<1>0. /\ txn \in [Requests -> Txn] /\ notifs \subseteq Note
      /\ bookings \in [BookingIds -> Row \cup {None}]
      /\ \A b \in BookingIds : bookings[b] # None =>
           /\ bookings[b] \in Row
           /\ TwoParties(bookings[b]) /\ Told(b, bookings[b], notifs)
  BY DEF Sessions, TypeOK, Promised, Exists
<1>1. ASSUME NEW r \in Requests, Rollback(r)
      PROVE  Promised'
  BY <1>0, <1>1, QuietPromised DEF Rollback, Loaded, Sessions, TypeOK
<1>2. ASSUME NEW r \in Requests, NEW u \in Users, NEW body \in Creations,
             create_booking(r, u, body)
      PROVE  Promised'
  <2>1. PICK b \in BookingIds :
          txn' = [txn EXCEPT ![r].bid = b,
                             ![r].new = [customer |-> u,
                                         provider |-> body.provider,
                                         start |-> body.start,
                                         end |-> body.end,
                                         status |-> "pending"]]
    BY <1>2 DEF create_booking
  <2>2. /\ UNCHANGED <<bookings, notifs>>
        /\ pc' = [pc EXCEPT ![r] = "insert"] /\ u # body.provider
    BY <1>2 DEF create_booking
  <2>3. txn'[r].new.customer = u /\ txn'[r].new.provider = body.provider
    BY <1>0, <2>1 DEF Txn
  <2>4. TwoParties(txn'[r].new)
    BY <2>2, <2>3 DEF TwoParties
  <2>5. \A q \in Requests \ {r} : pc'[q] = pc[q] /\ txn'[q] = txn[q]
    BY <1>0, <2>1, <2>2 DEF Sessions, TypeOK
  <2>6. pc'[r] = "insert"
    BY <2>2 DEF Sessions, TypeOK
  <2> QED
    BY <2>2, <2>4, <2>5, <2>6, QuietPromised DEF Loaded
<1>3. ASSUME NEW r \in Requests, NEW u \in Users, NEW b \in BookingIds,
             NEW patch \in Patches, update_booking(r, u, b, patch)
      PROVE  Promised'
  <2> DEFINE row == bookings[b]
             target == Given(patch.status, row.status)
             new == [row EXCEPT !.status = target,
                                !.start = Given(patch.start, @),
                                !.end = Given(patch.end, @)]
             told == [row EXCEPT !.status = target]
             notes == StatusNotes(b, row, target, u)
  <2>1. /\ row # None /\ row.status \notin Terminal
        /\ target # row.status
             => validate_status_transition(row.status, target, Role(u))
        /\ Begin(r, b, row, new, notes, patch.start # None \/ patch.end # None)
    BY <1>3 DEF update_booking
  <2>2. /\ row \in Row /\ target \in Status /\ new \in Row
        /\ SameParties(new, row) /\ new.status = target
    BY <1>0, <2>1, PatchedRow
  <2>3. Told(b, told, notifs \cup Range(notes))
    <3> HIDE DEF row, target
    <3> QED
      BY <1>0, <2>1, <2>2, StatusNotesTell DEF row
  <2>4. told \in Row /\ SameParties(told, new) /\ told.status = new.status
    BY <2>2 DEF Row, SameParties
  <2> HIDE DEF told, new, notes
  <2>5. Told(b, new, notifs \cup Range(notes))
    BY <2>2, <2>3, <2>4, ToldMonotone
  <2> QED
    BY <2>1, <2>2, <2>5, BeginPromised
<1>4. ASSUME NEW r \in Requests, NEW u \in Users, NEW b \in BookingIds,
             cancel_booking(r, u, b) \/ delete_booking(r, u, b)
      PROVE  Promised'
  <2> DEFINE row == bookings[b]
             new == [row EXCEPT !.status = "cancelled"]
             notes == notify_cancellation(b, row, u)
  <2>1. /\ row # None /\ row.status \notin Terminal
        /\ Begin(r, b, row, new, notes, FALSE)
    BY <1>4 DEF cancel_booking, delete_booking, validate_status_transition,
                Terminal
  <2>2. row \in Row /\ new \in Row
    BY <1>0, <2>1 DEF Row, Status
  <2>3. Told(b, new, notifs \cup Range(notes))
    BY <1>0, <2>1, <2>2, CancellationTells
  <2> HIDE DEF new, notes
  <2> QED
    BY <2>1, <2>2, <2>3, BeginPromised
<1>5. ASSUME NEW r \in Requests, insert_booking(r)
      PROVE  Promised'
  <2> DEFINE b == txn[r].bid
             row == txn[r].new
             keys == {NoteFor(row.provider, b, "booking_created")}
  <2>1. /\ b \in BookingIds /\ row \in Row /\ row.status = "pending"
        /\ TwoParties(row)
    BY <1>5 DEF insert_booking, Sessions, SessionOK, Promised
  <2>2. Told(b, row, notifs \cup keys)
    BY <2>1 DEF Told
  <2>3. /\ bookings' = [bookings EXCEPT ![b] = row]
        /\ notifs' = notifs \cup keys
        /\ pc' = [pc EXCEPT ![r] = "idle"]
        /\ txn' = [txn EXCEPT ![r] = NoTxn]
    BY <1>5 DEF insert_booking
  <2> HIDE DEF b, row, keys
  <2> QED
    BY <2>1, <2>2, <2>3, StorePromised
<1>6. ASSUME NEW r \in Requests, create_notification(r)
      PROVE  Promised'
  <2>1. pc[r] = "notify" /\ Told(txn[r].bid, txn[r].new, Keys(r))
    BY <1>6 DEF create_notification, Promised, Loaded
  <2> QED
    BY <1>6, <2>1, NotifyStep, QuietPromised DEF Loaded
<1>7. ASSUME NEW r \in Requests, check_provider_conflict(r) \/ Flush(r)
      PROVE  Promised'
  <2>1. CASE Rollback(r)
    BY <1>1, <2>1
  <2>2. CASE ~Rollback(r)
    <3>1. /\ UNCHANGED <<bookings, notifs, txn>>
          /\ \A q \in Requests \ {r} : pc'[q] = pc[q]
          /\ pc[r] \in Loaded /\ pc'[r] \in {"flush", "commit"}
      BY <1>7, <2>2 DEF check_provider_conflict, Flush, Sessions, TypeOK, Loaded
    <3>2. Told(txn'[r].bid, txn'[r].new, Keys(r)')
      BY <3>1 DEF Promised, Keys
    <3> QED
      BY <3>1, <3>2, QuietPromised
  <2> QED
    BY <2>1, <2>2
<1>8. ASSUME NEW r \in Requests, Commit(r)
      PROVE  Promised'
  <2> DEFINE t == txn[r]
             b == t.bid
             row == Merge(t.old, t.new, bookings[b])
  <2>1. /\ pc[r] = "commit" /\ SessionOK(r)
        /\ bookings' = [bookings EXCEPT ![b] = Merge(t.old, t.new, @)]
        /\ notifs' = notifs \cup t.held
        /\ pc' = [pc EXCEPT ![r] = "idle"]
        /\ txn' = [txn EXCEPT ![r] = NoTxn]
    BY <1>8 DEF Commit, Sessions
  <2>2. /\ b \in BookingIds /\ t.old \in Row /\ t.new \in Row
        /\ t.todo = <<>> /\ bookings[b] \in Row /\ bookings[b] # None
        /\ SameParties(t.new, bookings[b])
    BY <1>0, <2>1 DEF SessionOK, Loaded
  <2>3. /\ bookings' = [bookings EXCEPT ![b] = row] /\ row \in Row
        /\ SameParties(row, bookings[b])
    BY <1>0, <2>1, <2>2, MergeType
  <2>4. Keys(r) = notifs \cup t.held
    BY <2>2 DEF Keys, Range
  <2>5. Told(b, t.new, notifs \cup t.held)
    BY <2>1, <2>4 DEF Promised, Loaded
  <2>6. row.status = t.new.status \/ row.status = bookings[b].status
    BY <2>2 DEF Merge, Row
  <2>7. TwoParties(row)
    BY <1>0, <2>2, <2>3 DEF TwoParties, SameParties
  <2>8. Told(b, row, notifs \cup t.held)
    <3>1. CASE row.status = t.new.status
      <4>1. SameParties(t.new, row)
        BY <2>2, <2>3 DEF SameParties
      <4> HIDE DEF row
      <4> QED
        BY <2>2, <2>3, <2>5, <3>1, <4>1, ToldMonotone
    <3>2. CASE row.status = bookings[b].status
      <4>1. SameParties(bookings[b], row) /\ Told(b, bookings[b], notifs)
        BY <1>0, <2>2, <2>3 DEF SameParties
      <4> HIDE DEF row
      <4> QED
        BY <2>2, <2>3, <3>2, <4>1, ToldMonotone
    <3> QED
      BY <2>6, <3>1, <3>2
  <2> HIDE DEF b, row
  <2> QED
    BY <2>1, <2>2, <2>3, <2>7, <2>8, StorePromised
<1>9. CASE UNCHANGED vars
  BY <1>9 DEF vars, Promised, Exists, Keys
<1> QED
  BY <1>1, <1>2, <1>3, <1>4, <1>5, <1>6, <1>7, <1>8, <1>9
  DEF Next, Arrive, Proceed, Abort

(* No interleaving of confirmations, completions, cancellations, moves and *)
(* rollbacks stores a status its parties were not told of: the             *)
(* notifications of a handler commit with its UPDATE, and a handler skips  *)
(* an insertion only for a key that is committed.                          *)
THEOREM EveryStatusIsTold == Spec => []LifecycleNotified
<1>1. Init => Promised
  BY DEF Init, Promised, Exists, Loaded
<1>2. Spec => []Promised
  BY <1>1, NextPromised, SessionsInvariant, PTL DEF Spec
<1>3. Promised => LifecycleNotified
  BY DEF Promised, LifecycleNotified
<1> QED
  BY <1>2, <1>3, PTL

-----------------------------------------------------------------------------
(* WaitOrder: the customer's key, then the provider's, then the row.       *)

(* Notifications about booking b, the customer's before the other party's. *)
InOrder(notes, b, customer) ==
  /\ Len(notes) <= 2
  /\ \A i \in DOMAIN notes : notes[i].booking = b
  /\ Len(notes) = 2 => notes[1].user = customer /\ notes[2].user # customer

OrderedKeys(r) ==
  LET t == txn[r]
  IN  /\ pc[r] \notin Loaded => t.held = {}
      /\ pc[r] \in Loaded => \A n \in t.held : n.booking = t.bid
      /\ pc[r] = "notify" =>
           /\ InOrder(t.todo, t.bid, t.old.customer)
           /\ Len(t.todo) = 2 => t.held = {}
           /\ t.held # {} =>
                /\ t.todo[1].user # t.old.customer
                /\ \A n \in t.held : n.user = t.old.customer

WaitOrder == \A r \in Requests : OrderedKeys(r)

LEMMA NoneInOrder == \A b, customer : InOrder(<<>>, b, customer)
  BY DEF InOrder

LEMMA OneInOrder ==
  ASSUME NEW s, Len(s) = 1, DOMAIN s = {1}, NEW customer
  PROVE  InOrder(s, s[1].booking, customer)
  BY DEF InOrder

LEMMA TailOfTwo ==
  ASSUME NEW S, NEW s \in Seq(S), s # <<>>, Len(s) = 2
  PROVE  Len(Tail(s)) = 1 /\ Tail(s)[1] = s[2] /\ DOMAIN Tail(s) = {1}
<1>1. Tail(s) \in Seq(S) /\ Len(Tail(s)) = 1
  OBVIOUS
<1>2. Tail(s)[1] = s[2]
  OBVIOUS
<1>3. DOMAIN Tail(s) = {1}
  <2>1. \A z \in Seq(S) : DOMAIN z = 1..Len(z)
    OBVIOUS
  <2>2. 1..1 = {1}
    OBVIOUS
  <2> QED
    BY <1>1, <2>1, <2>2, Zenon
<1> QED
  BY <1>1, <1>2, <1>3

(* The head and the tail of what is still to insert.                       *)
LEMMA ShortTail ==
  ASSUME NEW S, NEW s \in Seq(S), s # <<>>, Len(s) <= 2
  PROVE  /\ Len(s) = 1 \/ Len(s) = 2
         /\ Head(s) = s[1]
         /\ Len(s) = 1 => Tail(s) = <<>>
         /\ Len(s) = 2 => /\ Len(Tail(s)) = 1 /\ DOMAIN Tail(s) = {1}
                          /\ Tail(s)[1] = s[2]
<1>1. Len(s) = 1 \/ Len(s) = 2
  <2> DEFINE n == Len(s)
  <2>1. n \in Nat
    OBVIOUS
  <2>2. n # 0
    OBVIOUS
  <2> HIDE DEF n
  <2>3. n \in Nat /\ n # 0 /\ n <= 2 => n = 1 \/ n = 2
    OBVIOUS
  <2> QED
    BY <2>1, <2>2, <2>3 DEF n
<1>2. Head(s) = s[1]
  OBVIOUS
<1>3. ASSUME Len(s) = 1 PROVE Tail(s) = <<>>
  <2>1. Tail(s) \in Seq(S) /\ Len(Tail(s)) = 0
    BY <1>3
  <2>2. \A z \in Seq(S) : z # <<>> => Len(z) # 0
    OBVIOUS
  <2> QED
    BY <2>1, <2>2
<1>4. ASSUME Len(s) = 2
      PROVE  Len(Tail(s)) = 1 /\ DOMAIN Tail(s) = {1} /\ Tail(s)[1] = s[2]
  BY <1>4, TailOfTwo
<1> QED
  BY <1>1, <1>2, <1>3, <1>4

LEMMA CancellationInOrder ==
  ASSUME NEW b, NEW row, TwoParties(row), NEW actor
  PROVE  InOrder(notify_cancellation(b, row, actor), b, row.customer)
<1> DEFINE c == NoteFor(row.customer, b, "booking_cancelled")
           p == NoteFor(row.provider, b, "booking_cancelled")
           x == IF actor # row.customer THEN <<c>> ELSE <<>>
           y == IF actor # row.provider THEN <<p>> ELSE <<>>
<1>1. /\ c.user = row.customer /\ c.booking = b
      /\ p.user # row.customer /\ p.booking = b
  BY DEF NoteFor, TwoParties
<1>2. notify_cancellation(b, row, actor) = x \o y
  BY DEF notify_cancellation
<1>3. x \in {<<c>>, <<>>} /\ y \in {<<p>>, <<>>}
  OBVIOUS
<1> HIDE DEF x, y, c, p
<1>4. CASE x = <<c>> /\ y = <<p>>
  <2>1. /\ Len(<<c>> \o <<p>>) = 2 /\ DOMAIN (<<c>> \o <<p>>) = {1, 2}
        /\ (<<c>> \o <<p>>)[1] = c /\ (<<c>> \o <<p>>)[2] = p
    OBVIOUS
  <2> QED
    BY <1>1, <1>2, <1>4, <2>1 DEF InOrder
<1>5. CASE x = <<c>> /\ y = <<>>
  <2>1. /\ Len(<<c>> \o <<>>) = 1 /\ DOMAIN (<<c>> \o <<>>) = {1}
        /\ (<<c>> \o <<>>)[1] = c
    OBVIOUS
  <2> QED
    BY <1>1, <1>2, <1>5, <2>1, OneInOrder
<1>6. CASE x = <<>> /\ y = <<p>>
  <2>1. /\ Len(<<>> \o <<p>>) = 1 /\ DOMAIN (<<>> \o <<p>>) = {1}
        /\ (<<>> \o <<p>>)[1] = p
    OBVIOUS
  <2> QED
    BY <1>1, <1>2, <1>6, <2>1, OneInOrder
<1>7. CASE x = <<>> /\ y = <<>>
  <2>1. <<>> \o <<>> = <<>>
    OBVIOUS
  <2> QED
    BY <1>2, <1>7, <2>1, NoneInOrder
<1> QED
  BY <1>3, <1>4, <1>5, <1>6, <1>7

LEMMA StatusNotesInOrder ==
  ASSUME NEW b, NEW row, TwoParties(row), NEW target, NEW actor
  PROVE  InOrder(StatusNotes(b, row, target, actor), b, row.customer)
<1> DEFINE c == NoteFor(row.customer, b, "booking_confirmed")
           d == NoteFor(row.customer, b, "booking_completed")
<1>1. c.booking = b /\ d.booking = b
  BY DEF NoteFor
<1>2. \/ StatusNotes(b, row, target, actor) = notify_cancellation(b, row, actor)
      \/ StatusNotes(b, row, target, actor) \in {<<>>, <<c>>, <<d>>}
  BY DEF StatusNotes
<1> HIDE DEF c, d
<1>3. \A s \in {<<>>, <<c>>, <<d>>} : InOrder(s, b, row.customer)
  <2>1. \A n : Len(<<n>>) = 1 /\ DOMAIN <<n>> = {1} /\ <<n>>[1] = n
    OBVIOUS
  <2> QED
    BY <1>1, <2>1, NoneInOrder, OneInOrder
<1> QED
  BY <1>2, <1>3, CancellationInOrder

(* A handler that has decided on its changes.                              *)
LEMMA BeginOrder ==
  ASSUME Sessions, WaitOrder, NEW r \in Requests, NEW b, NEW new,
         NEW notes, NEW resched,
         InOrder(notes, b, bookings[b].customer),
         Begin(r, b, bookings[b], new, notes, resched)
  PROVE  WaitOrder'
<1>1. /\ \A q \in Requests \ {r} : pc'[q] = pc[q] /\ txn'[q] = txn[q]
      /\ txn'[r].bid = b /\ txn'[r].held = {} /\ txn'[r].todo = notes
      /\ txn'[r].old = bookings[b]
  BY DEF Begin, Sessions, TypeOK
<1>2. OrderedKeys(r)'
  BY <1>1 DEF OrderedKeys
<1> QED
  BY <1>1, <1>2 DEF WaitOrder, OrderedKeys

(* A request that is over.                                                 *)
LEMMA EndOrder ==
  ASSUME Sessions, WaitOrder, NEW r \in Requests,
         pc' = [pc EXCEPT ![r] = "idle"], txn' = [txn EXCEPT ![r] = NoTxn]
  PROVE  WaitOrder'
<1>1. /\ \A q \in Requests \ {r} : pc'[q] = pc[q] /\ txn'[q] = txn[q]
      /\ pc'[r] = "idle" /\ txn'[r].held = {}
  BY DEF Sessions, TypeOK, NoTxn
<1> QED
  BY <1>1 DEF WaitOrder, OrderedKeys, Loaded

LEMMA NextWaitOrder ==
  Sessions /\ Promised /\ WaitOrder /\ [Next]_vars => WaitOrder'
<1> SUFFICES ASSUME Sessions, Promised, WaitOrder, [Next]_vars
             PROVE  WaitOrder'
  OBVIOUS
<1>0. txn \in [Requests -> Txn]
  BY DEF Sessions, TypeOK
<1>1. ASSUME NEW r \in Requests, Rollback(r)
      PROVE  WaitOrder'
  BY <1>1, EndOrder DEF Rollback
<1>2. ASSUME NEW r \in Requests, insert_booking(r) \/ Commit(r)
      PROVE  WaitOrder'
  BY <1>2, EndOrder DEF insert_booking, Commit
<1>3. ASSUME NEW r \in Requests, NEW u \in Users, NEW body \in Creations,
             create_booking(r, u, body)
      PROVE  WaitOrder'
  <2>1. PICK b, new :
          txn' = [txn EXCEPT ![r].bid = b, ![r].new = new]
    BY <1>3 DEF create_booking
  <2>2. /\ \A q \in Requests \ {r} : pc'[q] = pc[q] /\ txn'[q] = txn[q]
        /\ pc[r] = "idle" /\ pc'[r] = "insert" /\ txn'[r].held = txn[r].held
    BY <1>0, <1>3, <2>1 DEF create_booking, Sessions, TypeOK, Txn
  <2> QED
    BY <2>2 DEF WaitOrder, OrderedKeys, Loaded
<1>4. ASSUME NEW r \in Requests, NEW u \in Users, NEW b \in BookingIds,
             NEW patch \in Patches, update_booking(r, u, b, patch)
      PROVE  WaitOrder'
  <2> DEFINE row == bookings[b]
             target == Given(patch.status, row.status)
             new == [row EXCEPT !.status = target,
                                !.start = Given(patch.start, @),
                                !.end = Given(patch.end, @)]
             notes == StatusNotes(b, row, target, u)
             resched == patch.start # None \/ patch.end # None
  <2>1. row # None /\ Begin(r, b, row, new, notes, resched)
    BY <1>4 DEF update_booking
  <2>2. InOrder(notes, b, row.customer)
    BY <2>1, StatusNotesInOrder DEF Promised, Exists
  <2> HIDE DEF new, target, notes, resched
  <2> QED
    BY <2>1, <2>2, BeginOrder
<1>5. ASSUME NEW r \in Requests, NEW u \in Users, NEW b \in BookingIds,
             cancel_booking(r, u, b) \/ delete_booking(r, u, b)
      PROVE  WaitOrder'
  <2> DEFINE row == bookings[b]
             new == [row EXCEPT !.status = "cancelled"]
             notes == notify_cancellation(b, row, u)
  <2>1. row # None /\ Begin(r, b, row, new, notes, FALSE)
    BY <1>5 DEF cancel_booking, delete_booking
  <2>2. InOrder(notes, b, row.customer)
    BY <2>1, CancellationInOrder DEF Promised, Exists
  <2> HIDE DEF new, notes
  <2> QED
    BY <2>1, <2>2, BeginOrder
<1>6. ASSUME NEW r \in Requests, create_notification(r)
      PROVE  WaitOrder'
  <2> DEFINE t == txn[r]
             key == Head(t.todo)
  <2>1. /\ pc[r] = "notify" /\ t \in Txn /\ t.todo \in Seq(Note)
        /\ t.todo # <<>> /\ OrderedKeys(r)
    BY <1>0, <1>6 DEF create_notification, Sessions, SessionOK, Txn, WaitOrder
  <2>2. /\ \A q \in Requests \ {r} : pc'[q] = pc[q] /\ txn'[q] = txn[q]
        /\ txn'[r].old = t.old /\ txn'[r].bid = t.bid
        /\ txn'[r].todo = Tail(t.todo)
        /\ txn'[r].held \in {t.held, t.held \cup {key}}
        /\ pc'[r] = "notify" => Tail(t.todo) # <<>>
        /\ pc'[r] \in Loaded
    BY <1>0, <1>6, <2>1
    DEF create_notification, AfterNotes, Sessions, TypeOK, Txn, Loaded
  <2>3. /\ Len(t.todo) = 1 \/ Len(t.todo) = 2
        /\ key = t.todo[1]
        /\ Len(t.todo) = 1 => Tail(t.todo) = <<>>
        /\ Len(t.todo) = 2 =>
             /\ Len(Tail(t.todo)) = 1 /\ DOMAIN Tail(t.todo) = {1}
             /\ Tail(t.todo)[1] = t.todo[2]
    <3>1. t.todo \in Seq(Note) /\ t.todo # <<>> /\ Len(t.todo) <= 2
      BY <2>1 DEF OrderedKeys, InOrder
    <3> HIDE DEF t
    <3> QED
      BY <3>1, ShortTail
  <2>4. /\ \A i \in 1..Len(t.todo) : t.todo[i].booking = t.bid
        /\ Len(t.todo) = 2 =>
             /\ t.held = {} /\ t.todo[1].user = t.old.customer
             /\ t.todo[2].user # t.old.customer
    <3>1. DOMAIN t.todo = 1..Len(t.todo)
      BY <2>1
    <3> QED
      BY <2>1, <3>1 DEF OrderedKeys, InOrder
  <2>5. key.booking = t.bid /\ \A n \in t.held : n.booking = t.bid
    BY <2>1, <2>3, <2>4 DEF OrderedKeys, Loaded
  <2>6. ASSUME pc'[r] = "notify"
        PROVE  /\ InOrder(txn'[r].todo, t.bid, t.old.customer)
               /\ Len(txn'[r].todo) = 1
               /\ txn'[r].todo[1].user # t.old.customer
               /\ \A n \in txn'[r].held : n.user = t.old.customer
    <3> DEFINE last == t.todo[2]
               rest == txn'[r].todo
    <3>1. /\ Len(rest) = 1 /\ DOMAIN rest = {1} /\ rest[1] = last
          /\ last.booking = t.bid /\ last.user # t.old.customer
          /\ key.user = t.old.customer /\ t.held = {}
      BY <2>2, <2>3, <2>4, <2>6
    <3>2. \A n \in txn'[r].held : n = key
      BY <2>2, <3>1
    <3>3. InOrder(rest, rest[1].booking, t.old.customer)
      <4> HIDE DEF t, rest
      <4> QED
        BY <3>1, OneInOrder
    <3> QED
      BY <3>1, <3>2, <3>3
  <2>7. OrderedKeys(r)'
    <3> HIDE DEF t, key
    <3>1. \A n \in txn'[r].held : n.booking = txn'[r].bid
      BY <2>2, <2>5
    <3>2. ASSUME pc'[r] = "notify"
          PROVE  /\ InOrder(txn'[r].todo, txn'[r].bid, txn'[r].old.customer)
                 /\ Len(txn'[r].todo) # 2
                 /\ txn'[r].todo[1].user # txn'[r].old.customer
                 /\ \A n \in txn'[r].held : n.user = txn'[r].old.customer
      BY <2>2, <2>6, <3>2
    <3> QED
      BY <2>2, <3>1, <3>2 DEF OrderedKeys
  <2>8. \A q \in Requests \ {r} : OrderedKeys(q)'
    BY <2>2 DEF WaitOrder, OrderedKeys
  <2> QED
    BY <2>7, <2>8 DEF WaitOrder
<1>7. ASSUME NEW r \in Requests, check_provider_conflict(r) \/ Flush(r)
      PROVE  WaitOrder'
  <2>1. CASE ~Rollback(r)
    <3>1. /\ UNCHANGED txn /\ pc[r] \in Loaded /\ pc'[r] \in Loaded \ {"notify"}
          /\ \A q \in Requests \ {r} : pc'[q] = pc[q]
      BY <1>7, <2>1 DEF check_provider_conflict, Flush, Sessions, TypeOK, Loaded
    <3> QED
      BY <3>1 DEF WaitOrder, OrderedKeys
  <2> QED
    BY <1>1, <2>1
<1>8. CASE UNCHANGED vars
  BY <1>8 DEF vars, WaitOrder, OrderedKeys
<1> QED
  BY <1>1, <1>2, <1>3, <1>4, <1>5, <1>6, <1>7, <1>8
  DEF Next, Arrive, Proceed, Abort

(* How far a request is in taking what others may wait for.                *)
Rank(r) ==
  IF pc[r] = "notify"
  THEN IF Head(txn[r].todo).user = txn[r].old.customer THEN 1 ELSE 2
  ELSE IF pc[r] = "flush" THEN 3 ELSE 4

LEMMA WaitsForHigherRank ==
  ASSUME Sessions, WaitOrder, NEW r \in Requests, NEW q \in Requests,
         WaitsFor(r, q)
  PROVE  Rank(r) < Rank(q)
<1>1. CASE pc[r] = "notify" /\ Head(txn[r].todo) \in txn[q].held
  <2> DEFINE h == Head(txn[r].todo)
  <2>1. pc[q] \in Loaded /\ h.booking = txn[q].bid
    BY <1>1 DEF WaitOrder, OrderedKeys
  <2>2. txn[r].todo \in Seq(Note) /\ txn[r].todo # <<>>
    BY <1>1 DEF Sessions, TypeOK, SessionOK, Txn
  <2>3. h = txn[r].todo[1] /\ 1 \in DOMAIN txn[r].todo
    BY <2>2
  <2>4. h.booking = txn[r].bid
    BY <1>1, <2>3 DEF WaitOrder, OrderedKeys, InOrder
  <2>5. txn[r].old.customer = txn[q].old.customer
    <3>1. SameParties(txn[r].old, bookings[txn[r].bid])
          /\ SameParties(txn[q].old, bookings[txn[q].bid])
      BY <1>1, <2>1 DEF Sessions, SessionOK, Loaded
    <3> QED
      BY <2>1, <2>4, <3>1 DEF SameParties
  <2>6. CASE pc[q] = "notify"
    <3>1. /\ txn[q].todo[1].user # txn[q].old.customer
          /\ h.user = txn[q].old.customer
      BY <1>1, <2>6 DEF WaitOrder, OrderedKeys
    <3>2. Head(txn[q].todo) = txn[q].todo[1]
      <4>1. txn[q].todo \in Seq(Note) /\ txn[q].todo # <<>>
        BY <2>6 DEF Sessions, TypeOK, SessionOK, Txn
      <4> QED
        BY <4>1
    <3> QED
      BY <1>1, <2>5, <2>6, <3>1, <3>2 DEF Rank
  <2> QED
    BY <1>1, <2>1, <2>6 DEF Rank, Loaded
<1>2. CASE pc[r] = "flush" /\ LocksRow(q, txn[r].bid)
  BY <1>2 DEF LocksRow, Rank
<1> QED
  BY <1>1, <1>2 DEF WaitsFor

(* Whoever is furthest waits for nobody else.                              *)
LEMMA OrderedWaits == Sessions /\ WaitOrder => NoWaitCycle
<1> SUFFICES ASSUME Sessions, WaitOrder, NEW S \in SUBSET Requests, S # {}
             PROVE  \E r \in S : \A q \in S : ~WaitsFor(r, q)
  BY DEF NoWaitCycle
<1>1. \A r \in S : Rank(r) \in {1, 2, 3, 4}
  BY DEF Rank
<1>2. PICK r \in S : \A q \in S : ~(Rank(r) < Rank(q))
  <2>1. CASE \E r \in S : Rank(r) = 4
    BY <1>1, <2>1
  <2>2. CASE (\E r \in S : Rank(r) = 3) /\ \A r \in S : Rank(r) # 4
    BY <1>1, <2>2
  <2>3. CASE (\E r \in S : Rank(r) = 2) /\ \A r \in S : Rank(r) \notin {3, 4}
    BY <1>1, <2>3
  <2>4. CASE \A r \in S : Rank(r) = 1
    BY <2>4
  <2> QED
    BY <1>1, <2>1, <2>2, <2>3, <2>4
<1> QED
  BY <1>2, WaitsForHigherRank

(* However many requests wait for each other's keys and rows, no set of    *)
(* them waits in a circle.                                                 *)
THEOREM NobodyWaitsInACircle == Spec => []NoWaitCycle
<1>1. Init => Promised /\ WaitOrder
  BY DEF Init, Promised, Exists, Loaded, WaitOrder, OrderedKeys, NoTxn
<1>2. Spec => [](Promised /\ WaitOrder)
  BY <1>1, NextPromised, NextWaitOrder, SessionsInvariant, PTL DEF Spec
<1> QED
  BY <1>2, OrderedWaits, SessionsInvariant, PTL

-----------------------------------------------------------------------------
(***************************************************************************)
(* BookingService keeps the promise of BookingContract when the requests   *)
(* about one provider do not overlap in time; those about different        *)
(* providers may.  The inductive invariant, ProviderInv, says what each    *)
(* request at work has established about the table it is to change: the    *)
(* row it loaded is still the committed one, the slot its query found free *)
(* is still free, and its notifications are the ones its status calls for. *)
(***************************************************************************)

(* The conflict query finds nothing in the way of row.                     *)
SlotIsFree(exclude, row) ==
  is_provider_available(bookings, row.provider, row.start, row.end, exclude)

(* Some user may make the change, and its notifications are under way.     *)
Allowed(r) ==
  LET t == txn[r]
  IN  \E u \in Users :
        /\ Authorized(u, t.old)
        /\ validate_status_transition(t.old.status, t.new.status, Role(u))
        /\ Keys(r) = notifs \cup Range(StatusNotes(t.bid, t.old, t.new.status, u))

Working(r) ==
  LET t == txn[r]
  IN  /\ pc[r] = "insert" => TwoParties(t.new) /\ SlotIsFree(None, t.new)
      /\ pc[r] \in Loaded =>
           /\ t.old = bookings[t.bid]
           /\ Allowed(r)
           /\ ~t.resched => t.new.start = t.old.start /\ t.new.end = t.old.end
      /\ pc[r] \in {"flush", "commit"} /\ t.resched => SlotIsFree(t.bid, t.new)
      /\ pc[r] = "commit" => ValidRow(t.new)

OneEach ==
  \A r, q \in Requests :
    r # q /\ pc[r] # "idle" /\ pc[q] # "idle"
      => txn[r].new.provider # txn[q].new.provider

ProviderInv == OneEach /\ NoOverlap /\ \A r \in Requests : Working(r)

-----------------------------------------------------------------------------
(* The query and the promise: half-open intervals.                         *)

(* A slot the query finds free is free at every instant.                   *)
LEMMA QueryFindsFree ==
  ASSUME TypeOK, NEW b \in BookingIds, NEW exclude \in {b, None},
         NEW row \in Row, SlotIsFree(exclude, row)
  PROVE  Contract!Free(b, row)
<1> SUFFICES ASSUME NEW other \in BookingIds \ {b},
                    bookings[other] # None,
                    bookings[other].provider = row.provider,
                    NEW t \in Times,
                    Contract!Busy(bookings[other], t), Contract!Busy(row, t)
             PROVE  FALSE
  BY DEF Contract!Free
<1> DEFINE o == bookings[other]
<1>1. o \in Row /\ other \in BookingIds \ {exclude}
  BY NoneIsApart DEF TypeOK
<1>2. o.status # "cancelled" /\ o.start <= t /\ t < o.end
      /\ row.start <= t /\ t < row.end
  BY DEF Contract!Busy
<1>3. ~(o.start < row.end /\ o.end > row.start)
  BY <1>1, <1>2 DEF SlotIsFree, is_provider_available, Overlap
<1>4. /\ o.start \in Int /\ o.end \in Int /\ t \in Int
      /\ row.start \in Int /\ row.end \in Int
  BY <1>1, RulesAssumption DEF Row
<1> HIDE DEF o
<1> QED
  BY <1>2, <1>3, <1>4

(* An active booking that keeps its times keeps its slot.                  *)
LEMMA SameTimesAreFree ==
  ASSUME NoOverlap, NEW b \in BookingIds, bookings[b] # None,
         bookings[b].status # "cancelled", NEW row,
         row.provider = bookings[b].provider,
         row.start = bookings[b].start, row.end = bookings[b].end
  PROVE  Contract!Free(b, row)
<1>1. \A t : Contract!Busy(row, t) => Contract!Busy(bookings[b], t)
  BY DEF Contract!Busy
<1> QED
  BY <1>1 DEF NoOverlap, Contract!NoOverlap, Contract!Free

(* A booking stored in a free slot overlaps no other.                      *)
LEMMA FreeKeepsApart ==
  ASSUME TypeOK, NoOverlap, NEW b \in BookingIds, NEW row,
         Contract!Free(b, row), bookings' = [bookings EXCEPT ![b] = row]
  PROVE  NoOverlap'
<1> SUFFICES ASSUME NEW x \in BookingIds, NEW y \in BookingIds, x # y,
                    bookings'[x] # None, bookings'[y] # None,
                    bookings'[x].provider = bookings'[y].provider,
                    NEW t \in Times
             PROVE  ~ /\ Contract!Busy(bookings'[x], t)
                      /\ Contract!Busy(bookings'[y], t)
  BY DEF NoOverlap, Contract!NoOverlap
<1>1. /\ bookings'[b] = row
      /\ \A c \in BookingIds \ {b} : bookings'[c] = bookings[c]
  BY DEF TypeOK
<1>2. CASE x = b
  BY <1>1, <1>2 DEF Contract!Free
<1>3. CASE y = b
  BY <1>1, <1>3 DEF Contract!Free
<1>4. CASE x # b /\ y # b
  BY <1>1, <1>4 DEF NoOverlap, Contract!NoOverlap
<1> QED
  BY <1>2, <1>3, <1>4

(* The UPDATE of a request alone writes the row the request decided on.    *)
LEMMA MergeAlone ==
  ASSUME NEW old \in Row, NEW new \in Row, SameParties(new, old)
  PROVE  /\ Merge(old, new, old) = new
         /\ new = [old EXCEPT !.status = new.status, !.start = new.start,
                              !.end = new.end]
BY DEF Merge, Row, SameParties

-----------------------------------------------------------------------------
(* What each statement establishes for the next one.                       *)

(* A request that is over has nothing left to establish.                   *)
LEMMA EndWorking ==
  ASSUME Sessions, NEW r \in Requests, pc' = [pc EXCEPT ![r] = "idle"]
  PROVE  Working(r)'
<1>1. pc'[r] = "idle"
  BY DEF Sessions, TypeOK
<1> QED
  BY <1>1 DEF Working, Loaded

(* POST, up to and including the conflict query.                           *)
LEMMA CreateWorking ==
  ASSUME Sessions, NEW r \in Requests, NEW u \in Users,
         NEW body \in Creations, create_booking(r, u, body)
  PROVE  UNCHANGED <<bookings, notifs>> /\ Working(r)'
<1> DEFINE row == [customer |-> u, provider |-> body.provider,
                   start |-> body.start, end |-> body.end,
                   status |-> "pending"]
<1>1. PICK b \in BookingIds : txn' = [txn EXCEPT ![r].bid = b, ![r].new = row]
  BY DEF create_booking
<1>2. /\ UNCHANGED <<bookings, notifs>> /\ u # body.provider
      /\ pc' = [pc EXCEPT ![r] = "insert"]
      /\ is_provider_available(bookings, body.provider, body.start, body.end,
                               None)
  BY DEF create_booking
<1>3. txn'[r].new = row /\ pc'[r] = "insert"
  <2> HIDE DEF row
  <2> QED
    BY <1>1, <1>2 DEF Sessions, TypeOK, Txn
<1>4. TwoParties(row) /\ SlotIsFree(None, row)'
  BY <1>2 DEF TwoParties, SlotIsFree
<1> HIDE DEF row
<1> QED
  BY <1>2, <1>3, <1>4 DEF Working, Loaded, TwoParties, SlotIsFree

(* A handler that has loaded a row and decided on a change of it.          *)
LEMMA BeginWorking ==
  ASSUME Sessions, NEW r \in Requests, NEW u \in Users, NEW b \in BookingIds,
         NEW new, NEW resched \in BOOLEAN,
         Authorized(u, bookings[b]),
         validate_status_transition(bookings[b].status, new.status, Role(u)),
         ~resched => /\ new.start = bookings[b].start
                     /\ new.end = bookings[b].end,
         Begin(r, b, bookings[b], new,
               StatusNotes(b, bookings[b], new.status, u), resched)
  PROVE  UNCHANGED <<bookings, notifs>> /\ Working(r)'
<1> DEFINE notes == StatusNotes(b, bookings[b], new.status, u)
<1>1. /\ UNCHANGED <<bookings, notifs>>
      /\ txn'[r].bid = b /\ txn'[r].old = bookings[b] /\ txn'[r].new = new
      /\ txn'[r].todo = notes /\ txn'[r].held = {}
      /\ txn'[r].resched = resched
  BY DEF Begin, Sessions, TypeOK
<1>2. /\ pc'[r] \in {"notify", "check", "flush"}
      /\ pc'[r] = "flush" => ~resched
  BY DEF Begin, AfterNotes, Sessions, TypeOK
<1>3. Keys(r)' = notifs \cup Range(notes)
  BY <1>1 DEF Keys
<1>4. Allowed(r)'
  BY <1>1, <1>3 DEF Allowed
<1> QED
  BY <1>1, <1>2, <1>4 DEF Working

(* What cancel_booking and delete_booking insert is what a change to       *)
(* cancelled calls for.                                                    *)
LEMMA CancelsNotes ==
  ASSUME NEW b, NEW row, row.status # "cancelled", NEW u
  PROVE  notify_cancellation(b, row, u) = StatusNotes(b, row, "cancelled", u)
BY DEF StatusNotes

LEMMA ArriveWorking ==
  ASSUME Sessions, NEW r \in Requests, Arrive(r)
  PROVE  UNCHANGED <<bookings, notifs>> /\ Working(r)'
<1>1. PICK u \in Users :
        \/ \E body \in Creations : create_booking(r, u, body)
        \/ \E b \in BookingIds :
             \/ \E patch \in Patches : update_booking(r, u, b, patch)
             \/ cancel_booking(r, u, b)
             \/ delete_booking(r, u, b)
  BY DEF Arrive
<1>0. \A b \in BookingIds : bookings[b] # None => bookings[b] \in Row
  BY DEF Sessions, TypeOK
<1>2. ASSUME NEW b \in BookingIds, NEW patch \in Patches,
             update_booking(r, u, b, patch)
      PROVE  UNCHANGED <<bookings, notifs>> /\ Working(r)'
  <2> DEFINE row == bookings[b]
             target == Given(patch.status, row.status)
             new == [row EXCEPT !.status = target,
                                !.start = Given(patch.start, @),
                                !.end = Given(patch.end, @)]
             resched == patch.start # None \/ patch.end # None
  <2>1. row # None /\ row \in Row
    BY <1>0, <1>2 DEF update_booking
  <2>2. /\ new.status = target
        /\ ~resched => new.start = row.start /\ new.end = row.end
    BY <2>1, PatchedRow
  <2>3. /\ Authorized(u, row) /\ row.status \notin Terminal
        /\ target # row.status
             => validate_status_transition(row.status, target, Role(u))
        /\ Begin(r, b, row, new, StatusNotes(b, row, target, u), resched)
    BY <1>2 DEF update_booking
  <2>4. validate_status_transition(row.status, target, Role(u))
    BY <2>3 DEF validate_status_transition
  <2>5. resched \in BOOLEAN
    OBVIOUS
  <2> HIDE DEF new, target, resched
  <2> QED
    BY <2>2, <2>3, <2>4, <2>5, BeginWorking
<1>3. ASSUME NEW b \in BookingIds, cancel_booking(r, u, b) \/ delete_booking(r, u, b)
      PROVE  UNCHANGED <<bookings, notifs>> /\ Working(r)'
  <2> DEFINE row == bookings[b]
             new == [row EXCEPT !.status = "cancelled"]
  <2>1. row \in Row /\ Begin(r, b, row, new, notify_cancellation(b, row, u), FALSE)
    BY <1>0, <1>3 DEF cancel_booking, delete_booking
  <2>2. new.status = "cancelled" /\ new.start = row.start /\ new.end = row.end
    BY <2>1 DEF Row
  <2>3. /\ Authorized(u, row)
        /\ validate_status_transition(row.status, "cancelled", Role(u))
    <3>1. CASE cancel_booking(r, u, b)
      BY <3>1 DEF cancel_booking
    <3>2. CASE delete_booking(r, u, b)
      BY <3>2
      DEF delete_booking, MayDelete, Authorized, Role, Terminal,
          validate_status_transition, VALID_TRANSITIONS,
          ROLE_ALLOWED_TRANSITIONS
    <3> QED
      BY <1>3, <3>1, <3>2
  <2>4. row.status # "cancelled"
    BY <2>3 DEF validate_status_transition, Terminal
  <2>5. Begin(r, b, row, new, StatusNotes(b, row, new.status, u), FALSE)
    <3>1. notify_cancellation(b, row, u) = StatusNotes(b, row, new.status, u)
      BY <2>2, <2>4, CancelsNotes
    <3> HIDE DEF new
    <3> QED
      BY <2>1, <3>1
  <2> HIDE DEF new
  <2> QED
    BY <2>2, <2>3, <2>5, BeginWorking
<1> QED
  BY <1>1, <1>2, <1>3, CreateWorking

LEMMA NotifyWorking ==
  ASSUME Sessions, NEW r \in Requests, Working(r), create_notification(r)
  PROVE  UNCHANGED <<bookings, notifs>> /\ Working(r)'
<1>1. pc[r] \in Loaded
  BY DEF create_notification, Loaded
<1>2. Allowed(r)'
  <2>1. Allowed(r)
    BY <1>1 DEF Working
  <2> QED
    BY <2>1, NotifyStep DEF Allowed
<1> QED
  BY <1>1, <1>2, NotifyStep DEF Working, Loaded

(* The checks of a move, and the flush.                                    *)
LEMMA CheckedWorking ==
  ASSUME Sessions, ValidIntervals, NEW r \in Requests, Working(r),
         check_provider_conflict(r) \/ Flush(r)
  PROVE  UNCHANGED <<bookings, notifs>> /\ Working(r)'
<1> DEFINE t == txn[r]
<1>1. CASE Rollback(r)
  BY <1>1, EndWorking DEF Rollback
<1>2. CASE check_provider_conflict(r) /\ ~Rollback(r)
  <2>1. /\ UNCHANGED <<bookings, notifs, txn>> /\ pc[r] = "check"
        /\ pc'[r] = "flush" /\ SlotIsFree(t.bid, t.new)
    BY <1>2 DEF check_provider_conflict, SlotIsFree, Sessions, TypeOK
  <2>2. Allowed(r)'
    BY <2>1 DEF Working, Loaded, Allowed, Keys
  <2> QED
    BY <2>1, <2>2 DEF Working, Loaded, SlotIsFree
<1>3. CASE Flush(r) /\ ~Rollback(r)
  <2>1. /\ UNCHANGED <<bookings, notifs, txn>> /\ pc[r] = "flush"
        /\ pc'[r] = "commit"
        /\ t.old = t.new \/ ValidRow(Merge(t.old, t.new, bookings[t.bid]))
    BY <1>3 DEF Flush, ValidRow, Sessions, TypeOK
  <2>2. Allowed(r)'
    BY <2>1 DEF Working, Loaded, Allowed, Keys
  <2>3. /\ t.old \in Row /\ t.new \in Row /\ t.bid \in BookingIds
        /\ bookings[t.bid] # None /\ t.old = bookings[t.bid]
        /\ SameParties(t.new, t.old)
    BY <2>1 DEF Sessions, SessionOK, Working, Loaded
  <2>4. ValidRow(t.new)
    <3>1. CASE t.old = t.new
      BY <2>3, <3>1 DEF ValidIntervals, Exists, ValidRow
    <3>2. CASE t.old # t.new
      BY <2>1, <2>3, <3>2, MergeAlone
    <3> QED
      BY <3>1, <3>2
  <2> QED
    BY <2>1, <2>2, <2>4 DEF Working, Loaded, SlotIsFree, ValidRow
<1> QED
  BY <1>1, <1>2, <1>3

(* The contract is about the same rules.                                   *)
LEMMA SameRules ==
  /\ Contract!Users = Users /\ Contract!Status = Status /\ Contract!Row = Row
  /\ Contract!Terminal = Terminal
  /\ \A s : Contract!Range(s) = Range(s)
  /\ \A u : Contract!Role(u) = Role(u)
  /\ \A u, b, type : Contract!NoteFor(u, b, type) = NoteFor(u, b, type)
  /\ \A u, row : Contract!Authorized(u, row) <=> Authorized(u, row)
  /\ \A x, y, role : Contract!validate_status_transition(x, y, role)
                       <=> validate_status_transition(x, y, role)
  /\ \A b, row, target, u :
       Contract!StatusNotes(b, row, target, u) = StatusNotes(b, row, target, u)
<1>1. /\ Contract!Users = Users /\ Contract!Status = Status
      /\ Contract!Terminal = Terminal
  BY DEF Contract!Users, Users, Contract!Status, Status,
         Contract!Terminal, Terminal
<1>0. \A s : Contract!Range(s) = Range(s)
  BY DEF Contract!Range, Range
<1>2. Contract!Row = Row
  BY <1>1 DEF Contract!Row, Row
<1>3. \A u : Contract!Role(u) = Role(u)
  BY DEF Contract!Role, Role
<1>4. \A u, b, type : Contract!NoteFor(u, b, type) = NoteFor(u, b, type)
  BY DEF Contract!NoteFor, NoteFor
<1>5. \A u, row : Contract!Authorized(u, row) <=> Authorized(u, row)
  BY <1>3 DEF Contract!Authorized, Authorized
<1>6. \A x, y, role : Contract!validate_status_transition(x, y, role)
                       <=> validate_status_transition(x, y, role)
  BY <1>1 DEF Contract!validate_status_transition, validate_status_transition,
         Contract!VALID_TRANSITIONS, VALID_TRANSITIONS,
         Contract!ROLE_ALLOWED_TRANSITIONS, ROLE_ALLOWED_TRANSITIONS
<1>7. \A b, row, u : Contract!notify_cancellation(b, row, u)
                        = notify_cancellation(b, row, u)
  BY <1>4 DEF Contract!notify_cancellation, notify_cancellation
<1>8. \A b, row, target, u :
        Contract!StatusNotes(b, row, target, u) = StatusNotes(b, row, target, u)
  BY <1>4, <1>7 DEF Contract!StatusNotes, StatusNotes
<1> QED
  BY <1>1, <1>2, <1>3, <1>4, <1>5, <1>6, <1>8, <1>0

-----------------------------------------------------------------------------
(* The two statements that change the tables are steps of the contract.    *)

LEMMA InsertReserves ==
  ASSUME Sessions, NoOverlap, NEW r \in Requests, Working(r),
         insert_booking(r)
  PROVE  /\ Contract!CNext
         /\ NoOverlap' /\ Working(r)'
<1> DEFINE b == txn[r].bid
           row == txn[r].new
<1>1. /\ pc[r] = "insert" /\ b \in BookingIds /\ row \in Row
      /\ bookings[b] = None /\ row.status = "pending" /\ row.end > row.start
  BY DEF insert_booking, Sessions, SessionOK
<1>2. /\ bookings' = [bookings EXCEPT ![b] = row]
      /\ notifs' = notifs \cup {NoteFor(row.provider, b, "booking_created")}
      /\ pc' = [pc EXCEPT ![r] = "idle"]
  BY DEF insert_booking
<1>3. row.customer # row.provider /\ SlotIsFree(None, row)
  BY <1>1 DEF Working, TwoParties
<1>4. row.start < row.end /\ row.customer \in Users
  <2>1. row.start \in Int /\ row.end \in Int
    BY <1>1, RulesAssumption DEF Row
  <2> QED
    BY <1>1, <2>1 DEF Row
<1> HIDE DEF b, row
<1>5. Contract!Free(b, row)
  BY <1>1, <1>3, QueryFindsFree DEF Sessions
<1>6. Contract!Reserve(row.customer, b)
  BY <1>1, <1>2, <1>3, <1>4, <1>5, SameRules DEF Contract!Reserve
<1>7. NoOverlap'
  BY <1>1, <1>2, <1>5, FreeKeepsApart DEF Sessions
<1> QED
  BY <1>1, <1>2, <1>4, <1>6, <1>7, EndWorking, SameRules
  DEF Contract!CNext

LEMMA CommitAmends ==
  ASSUME Sessions, NoOverlap, NEW r \in Requests, Working(r), Commit(r)
  PROVE  /\ Contract!CNext
         /\ NoOverlap' /\ Working(r)'
<1> DEFINE b == txn[r].bid
           old == txn[r].old
           new == txn[r].new
<1>1. /\ pc[r] = "commit" /\ b \in BookingIds /\ old \in Row /\ new \in Row
      /\ bookings[b] # None /\ old = bookings[b] /\ SameParties(new, old)
      /\ txn[r].todo = <<>>
  BY DEF Commit, Sessions, SessionOK, Loaded, Working
<1>2. /\ bookings' = [bookings EXCEPT ![b] = new]
      /\ notifs' = notifs \cup txn[r].held
      /\ pc' = [pc EXCEPT ![r] = "idle"]
  BY <1>1, MergeAlone DEF Commit, Sessions, TypeOK
<1>3. PICK u \in Users :
        /\ Authorized(u, old)
        /\ validate_status_transition(old.status, new.status, Role(u))
        /\ Keys(r) = notifs \cup Range(StatusNotes(b, old, new.status, u))
  BY <1>1 DEF Working, Allowed, Loaded
<1>4. notifs' = notifs \cup Range(StatusNotes(b, old, new.status, u))
  <2>1. Range(txn[r].todo) = {}
    BY <1>1 DEF Range
  <2>2. Keys(r) = notifs \cup txn[r].held
    BY <2>1 DEF Keys
  <2> QED
    BY <1>2, <1>3, <2>2
<1>5. new.start < new.end
  <2>1. new.start \in Int /\ new.end \in Int
    BY <1>1, RulesAssumption DEF Row
  <2> QED
    BY <1>1, <2>1 DEF Working, ValidRow
<1>6. Contract!Free(b, new)
  <2>1. CASE txn[r].resched
    <3>1. SlotIsFree(b, new)
      BY <1>1, <2>1 DEF Working
    <3> QED
      BY <1>1, <3>1, QueryFindsFree DEF Sessions
  <2>2. CASE ~txn[r].resched
    <3>1. new.start = old.start /\ new.end = old.end
      BY <1>1, <2>2 DEF Working, Loaded
    <3>2. new.provider = old.provider /\ old.status # "cancelled"
      BY <1>1, <1>3 DEF SameParties, validate_status_transition, Terminal
    <3> QED
      BY <1>1, <3>1, <3>2, SameTimesAreFree
  <2> QED
    BY <2>1, <2>2
<1>7. /\ new = [old EXCEPT !.status = new.status, !.start = new.start,
                           !.end = new.end]
      /\ new.status \in Status /\ new.start \in Times /\ new.end \in Times
  BY <1>1, MergeAlone DEF Row
<1> HIDE DEF b, old, new
<1>8. Contract!Amend(u, b)
  BY <1>1, <1>2, <1>3, <1>4, <1>5, <1>6, <1>7, SameRules
  DEF Contract!Amend
<1>9. NoOverlap'
  BY <1>1, <1>2, <1>6, FreeKeepsApart DEF Sessions
<1> QED
  BY <1>1, <1>2, <1>8, <1>9, EndWorking, SameRules DEF Contract!CNext

-----------------------------------------------------------------------------
(* Requests about different providers.                                     *)

(* A step of one request leaves the sessions of the others alone.          *)
LEMMA StepIsOwn ==
  ASSUME Sessions, NEW r \in Requests, Arrive(r) \/ Proceed(r) \/ Abort(r),
         NEW q \in Requests \ {r}
  PROVE  pc'[q] = pc[q] /\ txn'[q] = txn[q]
<1> DEFINE Own == pc'[q] = pc[q] /\ txn'[q] = txn[q]
<1>0. q # r /\ q \in DOMAIN pc /\ q \in DOMAIN txn
  BY DEF Sessions, TypeOK
<1>1. CASE Arrive(r)
  <2>1. \A b, row, new, notes, resched : Begin(r, b, row, new, notes, resched) => Own
    BY <1>0 DEF Begin
  <2>2. \A u, body : create_booking(r, u, body) => Own
    BY <1>0 DEF create_booking
  <2>3. \A u, b, patch : update_booking(r, u, b, patch) => Own
    BY <2>1 DEF update_booking
  <2>4. \A u, b : cancel_booking(r, u, b) => Own
    BY <2>1 DEF cancel_booking
  <2>5. \A u, b : delete_booking(r, u, b) => Own
    BY <2>1 DEF delete_booking
  <2> QED
    BY <1>1, <2>2, <2>3, <2>4, <2>5 DEF Arrive
<1>2. Rollback(r) => Own
  BY <1>0 DEF Rollback
<1>3. CASE insert_booking(r) \/ create_notification(r) \/ Commit(r)
  BY <1>0, <1>3 DEF insert_booking, create_notification, Commit
<1>4. CASE check_provider_conflict(r) \/ Flush(r) \/ Abort(r)
  BY <1>0, <1>2, <1>4 DEF check_provider_conflict, Flush, Abort
<1> QED
  BY <1>1, <1>3, <1>4 DEF Proceed

(* A request that goes on is still about the provider it was about.        *)
LEMMA StepKeepsProvider ==
  ASSUME Sessions, NEW r \in Requests, Proceed(r) \/ Abort(r)
  PROVE  /\ pc[r] # "idle"
         /\ pc'[r] = "idle" \/ txn'[r].new = txn[r].new
<1>0. r \in DOMAIN pc /\ r \in DOMAIN txn /\ txn[r] \in Txn
  BY DEF Sessions, TypeOK
<1>1. Rollback(r) => pc'[r] = "idle"
  BY <1>0 DEF Rollback
<1>2. CASE insert_booking(r) \/ Commit(r)
  BY <1>0, <1>2 DEF insert_booking, Commit
<1>3. CASE create_notification(r)
  BY <1>0, <1>3 DEF create_notification, Txn
<1>4. CASE check_provider_conflict(r) \/ Flush(r) \/ Abort(r)
  BY <1>0, <1>1, <1>4 DEF check_provider_conflict, Flush, Abort
<1> QED
  BY <1>2, <1>3, <1>4 DEF Proceed

(* What a request stores is a booking of the provider it is about, and so  *)
(* was the row it replaces.                                                *)
LEMMA StepStoresOwn ==
  ASSUME Sessions, NEW r \in Requests, Arrive(r) \/ Proceed(r) \/ Abort(r)
  PROVE  /\ notifs \subseteq notifs'
         /\ \A c \in BookingIds :
              \/ bookings'[c] = bookings[c]
              \/ /\ pc[r] # "idle" /\ bookings'[c] # None
                 /\ bookings'[c].provider = txn[r].new.provider
                 /\ Exists(c) => bookings[c].provider = txn[r].new.provider
<1> DEFINE b == txn[r].bid
           new == txn[r].new
<1>1. CASE insert_booking(r)
  <2>1. /\ pc[r] = "insert" /\ b \in BookingIds /\ new \in Row /\ ~Exists(b)
        /\ bookings' = [bookings EXCEPT ![b] = new] /\ notifs \subseteq notifs'
    BY <1>1 DEF insert_booking, Sessions, SessionOK, Exists
  <2> HIDE DEF b, new
  <2>2. bookings'[b] = new /\ \A c \in BookingIds \ {b} : bookings'[c] = bookings[c]
    BY <2>1 DEF Sessions, TypeOK
  <2> QED
    BY <2>1, <2>2, NoneIsApart DEF new
<1>2. CASE Commit(r)
  <2> DEFINE row == Merge(txn[r].old, new, bookings[b])
  <2>1. /\ pc[r] = "commit" /\ b \in BookingIds /\ Exists(b)
        /\ txn[r].old \in Row /\ new \in Row /\ bookings[b] \in Row
        /\ SameParties(new, bookings[b])
    BY <1>2 DEF Commit, Sessions, TypeOK, SessionOK, Loaded, Exists
  <2>2. row \in Row /\ SameParties(row, bookings[b])
    BY <2>1, MergeType
  <2>3. bookings' = [bookings EXCEPT ![b] = row] /\ notifs \subseteq notifs'
    BY <1>2 DEF Commit
  <2> HIDE DEF row, b, new
  <2>4. bookings'[b] = row /\ \A c \in BookingIds \ {b} : bookings'[c] = bookings[c]
    BY <2>1, <2>3 DEF Sessions, TypeOK
  <2> QED
    BY <2>1, <2>2, <2>3, <2>4, NoneIsApart DEF SameParties, new
<1>3. CASE UNCHANGED <<bookings, notifs>>
  BY <1>3
<1>4. CASE create_notification(r) \/ check_provider_conflict(r) \/ Flush(r) \/ Abort(r)
  BY <1>3, <1>4
  DEF create_notification, check_provider_conflict, Flush, Abort, Rollback
<1>5. CASE Arrive(r)
  BY <1>3, <1>5, ArriveWorking
<1> QED
  BY <1>1, <1>2, <1>4, <1>5 DEF Proceed

(* What a request has established outlasts the steps of requests about     *)
(* other providers: they store no row it has loaded and take no slot of    *)
(* its provider, and their notifications are only more.                    *)
LEMMA OthersKeepWorking ==
  ASSUME Sessions, NEW q \in Requests, Working(q),
         pc'[q] = pc[q], txn'[q] = txn[q], notifs \subseteq notifs',
         pc[q] # "idle" =>
           \A c \in BookingIds :
             \/ bookings'[c] = bookings[c]
             \/ /\ bookings'[c] # None
                /\ bookings'[c].provider # txn[q].new.provider
                /\ Exists(c) => bookings[c].provider # txn[q].new.provider
  PROVE  Working(q)'
<1> DEFINE t == txn[q]
<1>1. CASE pc[q] = "idle"
  BY <1>1 DEF Working, Loaded
<1>2. CASE pc[q] # "idle"
  <2>1. ASSUME NEW exclude, SlotIsFree(exclude, t.new) PROVE SlotIsFree(exclude, t.new)'
    BY <1>2, <2>1 DEF SlotIsFree, is_provider_available, Exists
  <2>2. ASSUME pc[q] \in Loaded PROVE bookings'[t.bid] = bookings[t.bid]
    BY <1>2, <2>2 DEF Sessions, SessionOK, SameParties, Exists
  <2>3. ASSUME Allowed(q) PROVE Allowed(q)'
    <3>1. PICK u \in Users :
            /\ Authorized(u, t.old)
            /\ validate_status_transition(t.old.status, t.new.status, Role(u))
            /\ Keys(q) = notifs \cup Range(StatusNotes(t.bid, t.old, t.new.status, u))
      BY <2>3 DEF Allowed
    <3>2. Keys(q)' = notifs' \cup Keys(q)
      BY DEF Keys
    <3>3. Keys(q)' = notifs' \cup Range(StatusNotes(t.bid, t.old, t.new.status, u))
      BY <3>1, <3>2
    <3> QED
      BY <3>1, <3>3 DEF Allowed
  <2>4. pc[q] = "insert" => TwoParties(t.new) /\ SlotIsFree(None, t.new)'
    BY <2>1 DEF Working
  <2>5. pc[q] \in {"flush", "commit"} /\ t.resched => SlotIsFree(t.bid, t.new)'
    BY <2>1 DEF Working
  <2>6. pc[q] \in Loaded =>
          /\ t.old = bookings'[t.bid] /\ Allowed(q)'
          /\ ~t.resched => t.new.start = t.old.start /\ t.new.end = t.old.end
    BY <2>2, <2>3 DEF Working
  <2>7. pc[q] = "commit" => ValidRow(t.new)
    BY DEF Working
  <2> QED
    BY <2>4, <2>5, <2>6, <2>7 DEF Working, TwoParties, ValidRow, SlotIsFree
<1> QED
  BY <1>1, <1>2

(* Every step of the service is a step of the contract, or changes neither *)
(* table, and keeps the invariant.                                         *)
LEMMA ProviderStep ==
  ASSUME Sessions, ValidIntervals, ProviderInv, [PerProviderNext]_vars
  PROVE  ProviderInv' /\ [Contract!CNext]_<<bookings, notifs>>
<1>1. CASE PerProviderNext
  <2>1. PICK r \in Requests : \/ Arrive(r) /\ OneOfProvider(r)'
                              \/ Proceed(r) \/ Abort(r)
    BY <1>1 DEF PerProviderNext
  <2>2. \A q \in Requests \ {r} : pc'[q] = pc[q] /\ txn'[q] = txn[q]
    BY <2>1, StepIsOwn
  <2>3. OneEach'
    <3>1. ASSUME NEW q \in Requests \ {r}, pc'[r] # "idle", pc'[q] # "idle"
          PROVE  txn'[r].new.provider # txn'[q].new.provider
      <4>1. CASE Arrive(r) /\ OneOfProvider(r)'
        BY <3>1, <4>1 DEF OneOfProvider
      <4>2. CASE Proceed(r) \/ Abort(r)
        BY <2>2, <3>1, <4>2, StepKeepsProvider DEF ProviderInv, OneEach
      <4> QED
        BY <2>1, <4>1, <4>2
    <3> QED
      BY <2>2, <3>1 DEF ProviderInv, OneEach
  <2>4. ASSUME NEW q \in Requests \ {r} PROVE Working(q)'
    <3>1. \A c \in BookingIds :
            \/ bookings'[c] = bookings[c]
            \/ /\ pc[r] # "idle" /\ bookings'[c] # None
               /\ bookings'[c].provider = txn[r].new.provider
               /\ Exists(c) => bookings[c].provider = txn[r].new.provider
      BY <2>1, StepStoresOwn
    <3>2. notifs \subseteq notifs'
      BY <2>1, StepStoresOwn
    <3>3. pc[r] # "idle" /\ pc[q] # "idle" => txn[r].new.provider # txn[q].new.provider
      BY DEF ProviderInv, OneEach
    <3>4. pc[q] # "idle" =>
            \A c \in BookingIds :
              \/ bookings'[c] = bookings[c]
              \/ /\ bookings'[c] # None
                 /\ bookings'[c].provider # txn[q].new.provider
                 /\ Exists(c) => bookings[c].provider # txn[q].new.provider
      BY <3>1, <3>3
    <3> QED
      BY <2>2, <3>2, <3>4, OthersKeepWorking DEF ProviderInv
  <2>5. Working(r) /\ NoOverlap
    BY DEF ProviderInv
  <2>6. CASE UNCHANGED <<bookings, notifs>> /\ Working(r)'
    <3>1. NoOverlap'
      BY <2>5, <2>6 DEF NoOverlap, Contract!NoOverlap
    <3> QED
      BY <2>3, <2>4, <2>6, <3>1 DEF ProviderInv
  <2>7. CASE Contract!CNext /\ NoOverlap' /\ Working(r)'
    BY <2>3, <2>4, <2>7 DEF ProviderInv
  <2>8. CASE Rollback(r)
    <3>1. UNCHANGED <<bookings, notifs>> /\ Working(r)'
      BY <2>8, EndWorking DEF Rollback
    <3> QED
      BY <2>6, <3>1
  <2>9. CASE Arrive(r)
    BY <2>6, <2>9, ArriveWorking
  <2>10. CASE insert_booking(r)
    BY <2>5, <2>7, <2>10, InsertReserves
  <2>11. CASE create_notification(r)
    BY <2>5, <2>6, <2>11, NotifyWorking
  <2>12. CASE check_provider_conflict(r) \/ Flush(r)
    BY <2>5, <2>6, <2>12, CheckedWorking
  <2>13. CASE Commit(r)
    BY <2>5, <2>7, <2>13, CommitAmends
  <2> QED
    BY <2>1, <2>8, <2>9, <2>10, <2>11, <2>12, <2>13 DEF Proceed, Abort
<1>2. CASE UNCHANGED vars
  <2>1. bookings' = bookings /\ notifs' = notifs /\ pc' = pc /\ txn' = txn
    BY <1>2 DEF vars
  <2>2. \A q \in Requests : Working(q)'
    BY <2>1, OthersKeepWorking DEF ProviderInv
  <2> QED
    BY <2>1, <2>2 DEF ProviderInv, OneEach, NoOverlap, Contract!NoOverlap
<1> QED
  BY <1>1, <1>2

LEMMA ProviderInit == Init => ProviderInv /\ Contract!CInit
BY DEF Init, ProviderInv, OneEach, NoOverlap, Contract!NoOverlap, Working,
       Loaded, Contract!CInit

(* Such requests are requests.                                             *)
LEMMA PerProviderIsSpec == PerProviderSpec => Spec
<1>1. [PerProviderNext]_vars => [Next]_vars
  BY DEF PerProviderNext, Next
<1> QED
  BY <1>1, PTL DEF PerProviderSpec, Spec

(* What a request at work relies on stays true until it commits, as long   *)
(* as no other request about its provider is under way.                    *)
THEOREM ProviderInvariant == PerProviderSpec => []ProviderInv
BY PerProviderIsSpec, SessionsInvariant, IntervalsStayValid, ProviderInit,
   ProviderStep, PTL DEF PerProviderSpec

(* The handlers, their queries, flushes and commits refine one atomic,     *)
(* checked step per request, as long as requests about one provider do not *)
(* overlap in time: the lock DESIGN_NOTE.md:28 speaks of would be enough.  *)
THEOREM RequestsKeepContract == PerProviderSpec => KeepsContract
<1>1. Sessions /\ ValidIntervals /\ ProviderInv /\ [PerProviderNext]_vars
        => [Contract!CNext]_(Contract!cvars)
  BY ProviderStep DEF Contract!cvars
<1> QED
  BY <1>1, PerProviderIsSpec, SessionsInvariant, IntervalsStayValid,
     ProviderInvariant, ProviderInit, PTL
  DEF PerProviderSpec, KeepsContract, Contract!CSpec

(* The claim of the design notes, which interleaved requests refute: with  *)
(* one request of a provider at a time, no provider has two active         *)
(* bookings at once.                                                       *)
THEOREM NobodyIsBookedTwice == PerProviderSpec => []NoOverlap
BY ProviderInvariant, PTL DEF ProviderInv

(* A step of the contract leaves no booking out, and finished ones alone.  *)
LEMMA ContractIsFinal ==
  ASSUME Sessions, [Contract!CNext]_<<bookings, notifs>>,
         NEW b \in BookingIds, bookings[b] # None
  PROVE  /\ bookings'[b] # None
         /\ bookings[b].status \in Terminal => bookings'[b] = bookings[b]
<1>0. bookings \in [BookingIds -> Row \cup {None}]
  BY DEF Sessions, TypeOK
<1>1. ASSUME NEW u \in Users, NEW c \in BookingIds, Contract!Reserve(u, c)
      PROVE  bookings'[b] = bookings[b]
  BY <1>0, <1>1 DEF Contract!Reserve
<1>2. ASSUME NEW u \in Users, NEW c \in BookingIds, Contract!Amend(u, c)
      PROVE  /\ bookings'[b] # None
             /\ bookings[b].status \in Terminal => bookings'[b] = bookings[b]
  <2>0. PICK target \in Contract!Status, start \in Times, end \in Times :
          /\ bookings[c] # None
          /\ Contract!validate_status_transition(bookings[c].status, target,
                                                 Contract!Role(u))
          /\ bookings' = [bookings EXCEPT
               ![c] = [bookings[c] EXCEPT !.status = target, !.start = start,
                                          !.end = end]]
    BY <1>2 DEF Contract!Amend
  <2>1. /\ target \in Status
        /\ validate_status_transition(bookings[c].status, target, Role(u))
    BY <2>0, SameRules
  <2>2. bookings[c].status \notin Terminal
    BY <2>1 DEF validate_status_transition
  <2>3. [bookings[c] EXCEPT !.status = target, !.start = start, !.end = end]
          \in Row
    BY <1>0, <2>0, <2>1 DEF Row
  <2> QED
    BY <1>0, <2>0, <2>2, <2>3, NoneIsApart
<1>3. CASE UNCHANGED <<bookings, notifs>>
  BY <1>3
<1> QED
  BY <1>1, <1>2, <1>3, SameRules DEF Contract!CNext

(* With one request of a provider at a time, none reopens, moves or        *)
(* removes a completed or cancelled booking; interleaved ones do.          *)
THEOREM FinishedStaysFinished == PerProviderSpec => TerminalIsFinal
<1>1. Sessions /\ [Contract!CNext]_<<bookings, notifs>>
        => [\A b \in BookingIds :
              bookings[b] # None =>
                /\ bookings'[b] # None
                /\ bookings[b].status \in Contract!Terminal
                     => bookings'[b] = bookings[b]]_(Contract!cvars)
  BY ContractIsFinal, SameRules DEF Contract!cvars
<1>2. PerProviderSpec => [][Contract!CNext]_<<bookings, notifs>>
  BY PerProviderIsSpec, SessionsInvariant, IntervalsStayValid, ProviderInvariant,
     ProviderStep, PTL DEF PerProviderSpec
<1> QED
  BY <1>1, <1>2, PerProviderIsSpec, SessionsInvariant, PTL
  DEF TerminalIsFinal, Contract!TerminalIsFinal
=============================================================================
