----------------------- MODULE BackgroundJobsProofs -----------------------
(***************************************************************************)
(* What the background jobs promise beside any number of booking requests, *)
(* for any clock, interval, window and number of restarts: no party is     *)
(* told alone, nobody is told of a booking that was never confirmed, and   *)
(* no start falls between two runs of the reminder job.                    *)
(***************************************************************************)
EXTENDS BackgroundJobs, BookingServiceProofs

(* The two notifications of a job about a booking.                         *)
CustomerNote(b, type) == NoteFor(bookings[b].customer, b, type)
ProviderNote(b, type) == NoteFor(bookings[b].provider, b, type)

-----------------------------------------------------------------------------
(* The requests, as the jobs see them: they insert other notifications,    *)
(* and never make a booking pending again.                                 *)

Careful(r) ==
  pc[r] \in Loaded =>
    /\ \A n \in txn[r].held \cup Range(txn[r].todo) : n.type \notin Jobs
    /\ txn[r].new.status # txn[r].old.status => txn[r].new.status # "pending"

CarefulRequests == \A r \in Requests : Careful(r)

LEMMA CancellationNotesAreNoJobs ==
  ASSUME NEW b, NEW row, NEW actor,
         NEW n \in Range(notify_cancellation(b, row, actor))
  PROVE  n.type \notin Jobs
<1> DEFINE c == NoteFor(row.customer, b, "booking_cancelled")
           p == NoteFor(row.provider, b, "booking_cancelled")
<1>1. c.type = "booking_cancelled" /\ p.type = "booking_cancelled"
  BY DEF NoteFor
<1>2. Range(notify_cancellation(b, row, actor)) \subseteq {c, p}
  <2> DEFINE x == IF actor # row.customer THEN <<c>> ELSE <<>>
             y == IF actor # row.provider THEN <<p>> ELSE <<>>
  <2>1. notify_cancellation(b, row, actor) = x \o y
    BY DEF notify_cancellation
  <2>2. x \in {<<c>>, <<>>} /\ y \in {<<p>>, <<>>}
    OBVIOUS
  <2> HIDE DEF x, y, c, p
  <2>3. \A i \in {<<c>>, <<>>}, k \in {<<p>>, <<>>} :
          \A m \in DOMAIN (i \o k) : (i \o k)[m] \in {c, p}
    OBVIOUS
  <2> QED
    BY <2>1, <2>2, <2>3 DEF Range
<1> HIDE DEF c, p
<1> QED
  BY <1>1, <1>2 DEF Jobs

LEMMA StatusNotesAreNoJobs ==
  ASSUME NEW b, NEW row, NEW target, NEW actor,
         NEW n \in Range(StatusNotes(b, row, target, actor))
  PROVE  n.type \notin Jobs
<1> DEFINE c == NoteFor(row.customer, b, "booking_confirmed")
           p == NoteFor(row.customer, b, "booking_completed")
<1>1. c.type = "booking_confirmed" /\ p.type = "booking_completed"
  BY DEF NoteFor
<1> HIDE DEF c, p
<1>2. \/ StatusNotes(b, row, target, actor) \in {<<>>, <<c>>, <<p>>}
      \/ StatusNotes(b, row, target, actor) = notify_cancellation(b, row, actor)
  BY DEF StatusNotes, c, p
<1>3. CASE StatusNotes(b, row, target, actor) \in {<<>>, <<c>>, <<p>>}
  <2>1. Range(StatusNotes(b, row, target, actor)) \subseteq {c, p}
    BY <1>3 DEF Range
  <2> QED
    BY <1>1, <2>1 DEF Jobs
<1> QED
  BY <1>2, <1>3, CancellationNotesAreNoJobs

(* A handler that has decided on its changes.                              *)
LEMMA BeginCareful ==
  ASSUME Sessions, CarefulRequests, NEW r \in Requests, NEW b, NEW new,
         NEW notes, NEW resched,
         Begin(r, b, bookings[b], new, notes, resched),
         \A n \in Range(notes) : n.type \notin Jobs,
         new.status # bookings[b].status => new.status # "pending"
  PROVE  CarefulRequests'
<1>1. /\ \A q \in Requests \ {r} : pc'[q] = pc[q] /\ txn'[q] = txn[q]
      /\ txn'[r].held = {} /\ txn'[r].todo = notes
      /\ txn'[r].old = bookings[b] /\ txn'[r].new = new
  BY DEF Begin, Sessions, TypeOK
<1>2. Careful(r)'
  BY <1>1 DEF Careful
<1> QED
  BY <1>1, <1>2 DEF CarefulRequests, Careful

(* A request that is over, or only beginning, holds nothing.               *)
LEMMA QuietCareful ==
  ASSUME Sessions, CarefulRequests, NEW r \in Requests,
         NEW next \in {"idle", "insert"}, pc' = [pc EXCEPT ![r] = next],
         \A q \in Requests \ {r} : txn'[q] = txn[q]
  PROVE  CarefulRequests'
BY DEF CarefulRequests, Careful, Loaded, Sessions, TypeOK

LEMMA NextCareful ==
  Sessions /\ CarefulRequests /\ [Next]_vars => CarefulRequests'
<1> SUFFICES ASSUME Sessions, CarefulRequests, [Next]_vars
             PROVE  CarefulRequests'
  OBVIOUS
<1>0. /\ txn \in [Requests -> Txn]
      /\ \A b \in BookingIds : bookings[b] # None => bookings[b] \in Row
  BY DEF Sessions, TypeOK
<1>1. ASSUME NEW r \in Requests, Rollback(r)
      PROVE  CarefulRequests'
  BY <1>0, <1>1, QuietCareful DEF Rollback
<1>2. ASSUME NEW r \in Requests, NEW u \in Users, NEW body \in Creations,
             create_booking(r, u, body)
      PROVE  CarefulRequests'
  BY <1>0, <1>2, QuietCareful DEF create_booking
<1>3. ASSUME NEW r \in Requests, insert_booking(r) \/ Commit(r)
      PROVE  CarefulRequests'
  BY <1>0, <1>3, QuietCareful DEF insert_booking, Commit
<1>4. ASSUME NEW r \in Requests, NEW u \in Users, NEW b \in BookingIds,
             NEW patch \in Patches, update_booking(r, u, b, patch)
      PROVE  CarefulRequests'
  <2> DEFINE row == bookings[b]
             target == Given(patch.status, row.status)
             new == [row EXCEPT !.status = target,
                                !.start = Given(patch.start, @),
                                !.end = Given(patch.end, @)]
             notes == StatusNotes(b, row, target, u)
  <2>1. /\ row # None
        /\ target # row.status
             => validate_status_transition(row.status, target, Role(u))
        /\ Begin(r, b, row, new, notes, patch.start # None \/ patch.end # None)
    BY <1>4 DEF update_booking
  <2>2. new.status = target
    BY <1>0, <2>1, PatchedRow
  <2>3. target # row.status => target # "pending"
    BY <2>1 DEF validate_status_transition, VALID_TRANSITIONS
  <2>4. \A n \in Range(notes) : n.type \notin Jobs
    BY StatusNotesAreNoJobs
  <2> HIDE DEF new, target, notes
  <2> QED
    BY <2>1, <2>2, <2>3, <2>4, BeginCareful
<1>5. ASSUME NEW r \in Requests, NEW u \in Users, NEW b \in BookingIds,
             cancel_booking(r, u, b) \/ delete_booking(r, u, b)
      PROVE  CarefulRequests'
  <2> DEFINE row == bookings[b]
             new == [row EXCEPT !.status = "cancelled"]
             notes == notify_cancellation(b, row, u)
  <2>1. row # None /\ Begin(r, b, row, new, notes, FALSE)
    BY <1>5 DEF cancel_booking, delete_booking
  <2>2. new.status = "cancelled"
    BY <1>0, <2>1 DEF Row
  <2>3. \A n \in Range(notes) : n.type \notin Jobs
    BY CancellationNotesAreNoJobs
  <2> HIDE DEF new, notes
  <2> QED
    BY <2>1, <2>2, <2>3, BeginCareful
<1>6. ASSUME NEW r \in Requests, create_notification(r)
      PROVE  CarefulRequests'
  <2> DEFINE t == txn[r]
             key == Head(t.todo)
  <2>1. /\ pc[r] = "notify" /\ t \in Txn /\ t.todo \in Seq(Note)
        /\ t.todo # <<>>
    BY <1>0, <1>6 DEF create_notification, Sessions, SessionOK, Txn
  <2>2. /\ \A q \in Requests \ {r} : pc'[q] = pc[q] /\ txn'[q] = txn[q]
        /\ txn'[r].old = t.old /\ txn'[r].new = t.new
        /\ txn'[r].todo = Tail(t.todo)
        /\ txn'[r].held \subseteq t.held \cup {key}
    BY <1>0, <1>6, <2>1 DEF create_notification, Sessions, TypeOK, Txn
  <2>3. Range(t.todo) = {key} \cup Range(Tail(t.todo))
    BY <2>1, RangeOfSeq
  <2>4. Careful(r)'
    BY <2>1, <2>2, <2>3 DEF CarefulRequests, Careful, Loaded
  <2> QED
    BY <2>2, <2>4 DEF CarefulRequests, Careful
<1>7. ASSUME NEW r \in Requests, check_provider_conflict(r) \/ Flush(r)
      PROVE  CarefulRequests'
  <2>1. CASE Rollback(r)
    BY <1>1, <2>1
  <2>2. CASE ~Rollback(r)
    <3>1. /\ UNCHANGED txn /\ pc[r] \in Loaded
          /\ \A q \in Requests \ {r} : pc'[q] = pc[q]
      BY <1>7, <2>2 DEF check_provider_conflict, Flush, Sessions, TypeOK, Loaded
    <3> QED
      BY <3>1 DEF CarefulRequests, Careful
  <2> QED
    BY <2>1, <2>2
<1>8. CASE UNCHANGED vars
  BY <1>8 DEF vars, CarefulRequests, Careful
<1> QED
  BY <1>1, <1>2, <1>3, <1>4, <1>5, <1>6, <1>7, <1>8
  DEF Next, Arrive, Proceed, Abort

(* What a step of the requests may do to the tables.                       *)
RowsGoOn ==
  /\ notifs \subseteq notifs'
  /\ \A b \in BookingIds :
       Exists(b) =>
         /\ Exists(b)' /\ SameParties(bookings[b], bookings'[b])
         /\ bookings[b].status # "pending" => bookings'[b].status # "pending"

LEMMA NextRows ==
  Sessions /\ CarefulRequests /\ [Next]_vars =>
    RowsGoOn /\ \A n \in notifs' \ notifs : n.type \notin Jobs
<1> SUFFICES ASSUME Sessions, CarefulRequests, [Next]_vars
             PROVE  RowsGoOn /\ \A n \in notifs' \ notifs : n.type \notin Jobs
  OBVIOUS
<1>0. bookings \in [BookingIds -> Row \cup {None}]
  BY DEF Sessions, TypeOK
<1>1. ASSUME UNCHANGED <<bookings, notifs>>
      PROVE  RowsGoOn /\ \A n \in notifs' \ notifs : n.type \notin Jobs
  BY <1>1 DEF RowsGoOn, Exists, SameParties
<1>2. ASSUME NEW r \in Requests, insert_booking(r)
      PROVE  RowsGoOn /\ \A n \in notifs' \ notifs : n.type \notin Jobs
  <2> DEFINE b == txn[r].bid
             key == NoteFor(txn[r].new.provider, b, "booking_created")
  <2>1. /\ b \in BookingIds /\ bookings[b] = None
        /\ bookings' = [bookings EXCEPT ![b] = txn[r].new]
        /\ notifs' = notifs \cup {key}
    BY <1>2 DEF insert_booking, Sessions, SessionOK
  <2>2. key.type \notin Jobs
    BY DEF NoteFor, Jobs
  <2>3. \A c \in BookingIds : Exists(c) => bookings'[c] = bookings[c]
    BY <1>0, <2>1 DEF Exists
  <2> QED
    BY <2>1, <2>2, <2>3 DEF RowsGoOn, Exists, SameParties
<1>3. ASSUME NEW r \in Requests, Commit(r)
      PROVE  RowsGoOn /\ \A n \in notifs' \ notifs : n.type \notin Jobs
  <2> DEFINE t == txn[r]
             b == t.bid
             row == Merge(t.old, t.new, bookings[b])
  <2>1. /\ pc[r] = "commit" /\ SessionOK(r) /\ Careful(r)
        /\ bookings' = [bookings EXCEPT ![b] = Merge(t.old, t.new, @)]
        /\ notifs' = notifs \cup t.held
    BY <1>3 DEF Commit, Sessions, CarefulRequests
  <2>2. /\ b \in BookingIds /\ t.old \in Row /\ t.new \in Row
        /\ bookings[b] \in Row /\ bookings[b] # None
    BY <1>0, <2>1 DEF SessionOK, Loaded
  <2>3. bookings' = [bookings EXCEPT ![b] = row] /\ row \in Row
        /\ SameParties(row, bookings[b])
    BY <1>0, <2>1, <2>2, MergeType
  <2>4. bookings[b].status # "pending" => row.status # "pending"
    BY <2>1, <2>2 DEF Merge, Row, Careful, Loaded
  <2>5. \A n \in t.held : n.type \notin Jobs
    BY <2>1 DEF Careful, Loaded
  <2>6. row # None
    BY <2>3, NoneIsApart
  <2> HIDE DEF row
  <2>7. ASSUME NEW c \in BookingIds, Exists(c)
        PROVE  /\ Exists(c)' /\ SameParties(bookings[c], bookings'[c])
               /\ bookings[c].status # "pending" => bookings'[c].status # "pending"
    <3>1. CASE c = b
      BY <1>0, <2>2, <2>3, <2>4, <2>6, <3>1 DEF Exists, SameParties
    <3>2. CASE c # b
      BY <1>0, <2>2, <2>3, <2>7, <3>2 DEF Exists, SameParties
    <3> QED
      BY <3>1, <3>2
  <2> QED
    BY <2>1, <2>5, <2>7 DEF RowsGoOn
<1>4. ASSUME NEW r \in Requests, Arrive(r) \/ Abort(r)
      PROVE  UNCHANGED <<bookings, notifs>>
  <2>1. \A b, row, new, notes, resched :
          Begin(r, b, row, new, notes, resched) => UNCHANGED <<bookings, notifs>>
    BY DEF Begin
  <2>2. \A u, body : create_booking(r, u, body) => UNCHANGED <<bookings, notifs>>
    BY DEF create_booking
  <2>3. \A u, b, patch : update_booking(r, u, b, patch) => UNCHANGED <<bookings, notifs>>
    BY <2>1 DEF update_booking
  <2>4. \A u, b : cancel_booking(r, u, b) => UNCHANGED <<bookings, notifs>>
    BY <2>1 DEF cancel_booking
  <2>5. \A u, b : delete_booking(r, u, b) => UNCHANGED <<bookings, notifs>>
    BY <2>1 DEF delete_booking
  <2>6. CASE Arrive(r)
    BY <2>2, <2>3, <2>4, <2>5, <2>6 DEF Arrive
  <2>7. CASE Abort(r)
    BY <2>7 DEF Abort, Rollback
  <2> QED
    BY <1>4, <2>6, <2>7
<1>5. ASSUME NEW r \in Requests, create_notification(r)
             \/ check_provider_conflict(r) \/ Flush(r)
      PROVE  UNCHANGED <<bookings, notifs>>
  BY <1>5 DEF create_notification, check_provider_conflict, Flush, Rollback
<1>6. CASE UNCHANGED vars
  BY <1>1, <1>6 DEF vars
<1> QED
  BY <1>1, <1>2, <1>3, <1>4, <1>5, <1>6 DEF Next, Proceed

-----------------------------------------------------------------------------
(* The jobs beside the requests.                                           *)

Quiet == UNCHANGED vars

(* What a step is to the requests' variables and to the jobs'.             *)
LEMMA JNextIs ==
  ASSUME [JNext]_<<vars, jvars>>
  PROVE  \/ Quiet
         \/ commit_job
         \/ crash
         \/ [Next]_vars /\ UNCHANGED <<now, slow, task, inserted, restarts>>
            /\ task.pc # "down"
BY DEF JNext, Job, Quiet, read_clock, select_bookings, insert_notice, Insert, fail_job,
       wake, stop, start, Tick, vars, jvars

(* The key an INSERT of the jobs adds, if it is one.                       *)
LEMMA TaskTypes ==
  ASSUME task \in Task
  PROVE  task.job \in Jobs /\ task.job \in NotificationType
         /\ task.rows \subseteq BookingIds
BY DEF Task, Jobs, NotificationType

Base ==
  /\ Sessions /\ Promised /\ CarefulRequests
  /\ inserted \subseteq Note

(* A process that died leaves sessions nobody has.                         *)
LEMMA CrashBase == Base /\ crash => Base'
<1> SUFFICES ASSUME Base, crash PROVE Base'
  OBVIOUS
<1>1. NoTxn \in Txn
  BY DEF NoTxn, Txn
<1>2. /\ UNCHANGED <<bookings, notifs>> /\ inserted' = {}
      /\ pc' = [r \in Requests |-> "idle"]
      /\ txn' = [r \in Requests |-> NoTxn]
  BY DEF crash
<1>3. TypeOK'
  BY <1>1, <1>2 DEF Base, Sessions, TypeOK
<1>4. FreshIds'
  BY <1>2 DEF FreshIds
<1>5. ASSUME NEW r \in Requests
      PROVE  SessionOK(r)' /\ Careful(r)'
  <2>1. pc'[r] = "idle" /\ txn'[r] = NoTxn
    BY <1>2
  <2> QED
    BY <2>1 DEF SessionOK, Careful, Loaded
<1>6. Sessions' /\ CarefulRequests'
  BY <1>3, <1>4, <1>5 DEF Sessions, CarefulRequests
<1>7. Promised'
  BY <1>2 DEF Base, Promised, Exists, Loaded
<1> QED
  BY <1>2, <1>6, <1>7 DEF Base

(* More notifications never tell less.                                     *)
LEMMA CommitBase == Base /\ commit_job => Base'
<1> SUFFICES ASSUME Base, commit_job PROVE Base'
  OBVIOUS
<1>1. /\ notifs' = notifs \cup inserted /\ inserted' = {}
      /\ UNCHANGED <<bookings, pc, txn>>
  BY DEF commit_job
<1>2. Sessions'
  BY <1>1 DEF Base, Sessions, TypeOK, FreshIds, SessionOK
<1>3. CarefulRequests'
  BY <1>1 DEF Base, CarefulRequests, Careful
<1>4. \A b \in BookingIds : Exists(b)' =>
        TwoParties(bookings'[b]) /\ Told(b, bookings'[b], notifs')
  <2> SUFFICES ASSUME NEW b \in BookingIds, Exists(b)
               PROVE  TwoParties(bookings[b]) /\ Told(b, bookings[b], notifs')
    BY <1>1 DEF Exists
  <2>1. bookings[b] \in Row /\ TwoParties(bookings[b])
        /\ Told(b, bookings[b], notifs)
    BY DEF Base, Promised, Sessions, TypeOK, Exists
  <2> QED
    BY <1>1, <2>1, ToldMonotone DEF SameParties
<1>5. ASSUME NEW r \in Requests
      PROVE  /\ pc'[r] = "insert" => TwoParties(txn'[r].new)
             /\ pc'[r] \in Loaded => Told(txn'[r].bid, txn'[r].new, Keys(r)')
  <2>1. Keys(r) \subseteq Keys(r)'
    BY <1>1 DEF Keys
  <2>2. ASSUME pc[r] \in Loaded
        PROVE  Told(txn[r].bid, txn[r].new, Keys(r)')
    <3>1. txn[r].new \in Row /\ Told(txn[r].bid, txn[r].new, Keys(r))
      BY <2>2 DEF Base, Promised, Sessions, SessionOK
    <3> QED
      BY <2>1, <3>1, ToldMonotone DEF SameParties
  <2> QED
    BY <1>1, <2>2 DEF Base, Promised
<1> QED
  BY <1>1, <1>2, <1>3, <1>4, <1>5 DEF Base, Promised

LEMMA QuietBase == Base /\ Quiet => Sessions' /\ Promised' /\ CarefulRequests'
<1> SUFFICES ASSUME Base, Quiet PROVE Sessions' /\ Promised' /\ CarefulRequests'
  OBVIOUS
<1>1. /\ bookings' = bookings /\ notifs' = notifs /\ pc' = pc /\ txn' = txn
      /\ Sessions /\ Promised /\ CarefulRequests
  BY DEF Quiet, vars, Base
<1>2. TypeOK' /\ FreshIds'
  BY <1>1 DEF Sessions, TypeOK, FreshIds
<1>3. \A r \in Requests : SessionOK(r)'
  BY <1>1 DEF Sessions, SessionOK
<1>4. Promised'
  BY <1>1 DEF Promised, Exists, Keys
<1>5. CarefulRequests'
  BY <1>1 DEF CarefulRequests, Careful
<1> QED
  BY <1>2, <1>3, <1>4, <1>5 DEF Sessions

-----------------------------------------------------------------------------
(* The task's records.                                                     *)

Fresh(t) == t \in Task /\ t.rows = {} /\ t.second = None

LEMMA StartTask ==
  ASSUME NEW job \in Jobs, NEW due \in 0..MaxTime
  PROVE  /\ Fresh(Start(job, due)) /\ Start(job, due).pc = "clock"
         /\ Start(job, due).job = job /\ Start(job, due).due = due
<1>1. Start(job, due) = [pc |-> "clock", job |-> job, at |-> 0, rows |-> {},
                         second |-> None, due |-> due]
  BY DEF Start
<1>2. 0 \in 0..MaxTime
  BY JobsAssumption
<1> QED
  BY <1>1, <1>2 DEF Fresh, Task

(* Asleep for at most an interval from now.                                *)
Sleeps(t) ==
  /\ Fresh(t) /\ t.pc = "sleep" /\ t.job = "booking_reminder"
  /\ now <= t.due /\ t.due <= now + Interval

LEMMA SleepTask ==
  ASSUME now \in 0..MaxTime
  PROVE  Sleeps(Asleep)
<1> DEFINE due == IF now + Interval < MaxTime THEN now + Interval ELSE MaxTime
           s == Start("booking_reminder", due)
<1>1. due \in 0..MaxTime /\ now <= due /\ due <= now + Interval
  BY JobsAssumption
<1>2. Asleep = [s EXCEPT !.pc = "sleep"]
  BY DEF Asleep
<1> HIDE DEF due
<1>3. /\ s \in Task /\ s.rows = {} /\ s.second = None
      /\ s.job = "booking_reminder" /\ s.due = due
  BY <1>1, StartTask DEF Fresh, Jobs
<1> HIDE DEF s
<1>4. /\ Asleep \in Task /\ Asleep.rows = {} /\ Asleep.second = None
      /\ Asleep.job = "booking_reminder" /\ Asleep.pc = "sleep"
      /\ Asleep.due = due
  BY <1>2, <1>3 DEF Task
<1> QED
  BY <1>1, <1>4 DEF Sleeps, Fresh

LEMMA DownTask == Fresh(Down) /\ Down.pc = "down" /\ Down.job = "booking_reminder"
<1> DEFINE s == Start("booking_reminder", 0)
<1>1. s \in Task /\ s.rows = {} /\ s.second = None /\ s.job = "booking_reminder"
  BY StartTask, JobsAssumption DEF Fresh, Jobs
<1>2. Down = [s EXCEPT !.pc = "down"]
  BY DEF Down
<1> HIDE DEF s
<1> QED
  BY <1>1, <1>2 DEF Task, Fresh

(* The end of a job starts the other or the sleep.                         *)
LEMMA NextJobTask ==
  ASSUME task \in Task, now \in 0..MaxTime, NextJob
  PROVE  \/ /\ task.job = "booking_reminder"
            /\ Fresh(task') /\ task'.pc = "clock" /\ task'.job = "booking_overdue"
            /\ task'.due = task.due
         \/ /\ task.job = "booking_overdue"
            /\ Sleeps(task')
<1>1. task.job \in Jobs /\ task.due \in 0..MaxTime
  BY TaskTypes DEF Task
<1> QED
  BY <1>1, StartTask, SleepTask DEF NextJob, Jobs

(* A step that ends whatever the task is at.                               *)
Resets ==
  /\ UNCHANGED <<bookings, notifs>>
  /\ inserted' = {}
  /\ Fresh(task') /\ task'.pc # "insert"

-----------------------------------------------------------------------------
(* What the jobs have told, and whom they are still to tell.               *)

PastPending(b) ==
  /\ Exists(b) /\ bookings[b].status # "pending"
  /\ Noted(bookings[b].customer, b, "booking_confirmed")

(* Between the two INSERTs of booking b.                                   *)
HalfTold(b) ==
  /\ PastPending(b) /\ task.second = ProviderNote(b, task.job)
  /\ CustomerNote(b, task.job) \in notifs \cup inserted

JobInv ==
  /\ task.pc # "insert" =>
       task.rows = {} /\ task.second = None /\ inserted = {}
  /\ \A b \in task.rows : PastPending(b)
  /\ task.second # None => \E b \in BookingIds : HalfTold(b)
  /\ \A n \in inserted : n.type = task.job /\ n \notin notifs
  /\ \A n \in notifs \cup inserted : n.type \in Jobs => Exists(n.booking)
  /\ BothOrNone
  /\ \A b \in BookingIds, type \in Jobs :
       Exists(b) =>
         (CustomerNote(b, type) \in inserted
            <=> \/ ProviderNote(b, type) \in inserted
                \/ /\ task.second = ProviderNote(b, type)
                   /\ CustomerNote(b, type) \notin notifs)
  /\ NoticeAfterConfirmation

LEMMA NoteFields ==
  /\ \A u, b, type : /\ NoteFor(u, b, type).user = u
                     /\ NoteFor(u, b, type).booking = b
                     /\ NoteFor(u, b, type).type = type
BY DEF NoteFor

LEMMA InitJobs == JInit => Base /\ JobInv
<1> SUFFICES ASSUME JInit PROVE Base /\ JobInv
  OBVIOUS
<1>1. /\ Init /\ inserted = {} /\ Fresh(task) /\ task.pc = "clock"
  BY StartTask, JobsAssumption DEF JInit, Jobs
<1>2. Sessions
  BY <1>1, InitSessions
<1>3. Promised /\ CarefulRequests
  BY <1>1 DEF Init, Promised, Exists, Loaded, CarefulRequests, Careful
<1>4. JobInv
  BY <1>1 DEF Init, JobInv, Fresh, BothOrNone, NoticeAfterConfirmation, Exists
<1> QED
  BY <1>1, <1>2, <1>3, <1>4 DEF Base

LEMMA JobNotes ==
  ASSUME Base, NEW b \in BookingIds, Exists(b), NEW type \in Jobs
  PROVE  /\ CustomerNote(b, type) \in Note /\ CustomerNote(b, type) # None
         /\ ProviderNote(b, type) \in Note /\ ProviderNote(b, type) # None
<1>1. bookings[b].customer \in Users /\ bookings[b].provider \in Users
  BY DEF Base, Sessions, TypeOK, Exists, Row, Users
<1>2. type \in NotificationType
  BY DEF Jobs, NotificationType
<1> QED
  BY <1>1, <1>2, NoteForType, JobsAssumption DEF CustomerNote, ProviderNote

LEMMA ResetJobs == Base /\ JobInv /\ Resets => JobInv'
<1> SUFFICES ASSUME Base, JobInv, Resets PROVE JobInv'
  OBVIOUS
<1>1. /\ bookings' = bookings /\ notifs' = notifs /\ inserted' = {}
      /\ task'.rows = {} /\ task'.second = None
  BY DEF Resets, Fresh
<1>3. BothOrNone' /\ NoticeAfterConfirmation'
  BY <1>1 DEF JobInv, BothOrNone, NoticeAfterConfirmation, Exists, Noted
<1>4. ASSUME NEW b \in BookingIds, NEW type \in Jobs, Exists(b)'
      PROVE  ProviderNote(b, type)' # None
  BY <1>1, <1>4, JobNotes DEF ProviderNote, Exists
<1> QED
  BY <1>1, <1>3, <1>4 DEF JobInv, Exists, CustomerNote

(* A booking that is confirmed at the SELECT was told to be.               *)
LEMMA SelectJobs ==
  Base /\ JobInv /\ task \in Task /\ select_bookings => JobInv' /\ task' \in Task
<1> SUFFICES ASSUME Base, JobInv, task \in Task, select_bookings
             PROVE  JobInv' /\ task' \in Task
  OBVIOUS
<1> DEFINE chosen == {b \in BookingIds : IF task.job = "booking_reminder"
                                         THEN InWindow(b) ELSE Overdue(b)}
<1>1. /\ UNCHANGED <<bookings, notifs, inserted>> /\ task.pc = "select"
      /\ task' = [task EXCEPT !.pc = "insert", !.rows = chosen]
  BY DEF select_bookings, vars
<1>2. \A b \in chosen : b \in BookingIds /\ PastPending(b)
  <2> SUFFICES ASSUME NEW b \in BookingIds, Confirmed(b)
               PROVE  PastPending(b)
    BY DEF InWindow, Overdue
  <2>1. Exists(b) /\ bookings[b].status = "confirmed" /\ Told(b, bookings[b], notifs)
    BY DEF Confirmed, Base, Promised
  <2> QED
    BY <2>1 DEF PastPending, Told, Noted
<1> HIDE DEF chosen
<1>3. /\ task'.pc = "insert" /\ task'.rows = chosen
      /\ task'.job = task.job /\ task'.second = task.second /\ task' \in Task
  BY <1>1, <1>2 DEF Task
<1>4. task.second = None /\ inserted = {}
  BY <1>1 DEF JobInv
<1>5. BothOrNone' /\ NoticeAfterConfirmation'
  BY <1>1 DEF JobInv, BothOrNone, NoticeAfterConfirmation, Exists, Noted
<1>6. \A b \in task'.rows : PastPending(b)'
  BY <1>1, <1>2, <1>3 DEF PastPending, Exists, Noted
<1> QED
  BY <1>1, <1>3, <1>4, <1>5, <1>6 DEF JobInv, Exists, CustomerNote, ProviderNote

(* The two INSERTs of a booking.                                           *)
LEMMA InsertJobs ==
  Base /\ JobInv /\ task \in Task /\ insert_notice =>
    JobInv' /\ task' \in Task /\ inserted' \subseteq Note
<1> SUFFICES ASSUME Base, JobInv, task \in Task, insert_notice
             PROVE  JobInv' /\ task' \in Task /\ inserted' \subseteq Note
  OBVIOUS
<1>0. /\ task.job \in Jobs /\ task.rows \subseteq BookingIds
      /\ task.pc = "insert" /\ UNCHANGED <<bookings, notifs>>
  BY TaskTypes DEF insert_notice, Insert
<1>1. BothOrNone' /\ \A b \in BookingIds : PastPending(b) => PastPending(b)'
  BY <1>0 DEF JobInv, BothOrNone, PastPending, Exists, Noted
<1>2. ASSUME NEW b \in task.rows, task.second = None,
             Insert(CustomerNote(b, task.job)),
             task' = [task EXCEPT !.rows = @ \ {b},
                                  !.second = ProviderNote(b, task.job)]
      PROVE  JobInv' /\ task' \in Task /\ inserted' \subseteq Note
  <2> DEFINE c == CustomerNote(b, task.job)
             p == ProviderNote(b, task.job)
  <2>1. b \in BookingIds /\ PastPending(b) /\ Exists(b)
    BY <1>0, <1>2 DEF JobInv, PastPending
  <2>2. c \in Note /\ p \in Note /\ p # None
    BY <1>0, <2>1, JobNotes
  <2>3. /\ c.type = task.job /\ c.booking = b /\ c.user = bookings[b].customer
        /\ p.type = task.job /\ p.booking = b
    BY NoteFields DEF CustomerNote, ProviderNote
  <2>4. inserted' = IF c \in notifs THEN inserted ELSE inserted \cup {c}
    BY <1>2 DEF Insert
  <2> HIDE DEF c, p
  <2>5. /\ task'.pc = "insert" /\ task'.rows = task.rows \ {b}
        /\ task'.job = task.job /\ task'.second = p /\ task' \in Task
    BY <1>0, <1>2, <2>2 DEF Task, p
  <2>6. /\ inserted' \subseteq Note
        /\ \A n \in inserted' : n.type = task'.job /\ n \notin notifs'
        /\ \A n \in notifs' \cup inserted' : n.type \in Jobs => Exists(n.booking)'
    BY <1>0, <2>1, <2>2, <2>3, <2>4, <2>5 DEF JobInv, Base, Exists
  <2>7. ASSUME NEW d \in BookingIds, NEW type \in Jobs, Exists(d)'
        PROVE  CustomerNote(d, type)' \in inserted'
                 <=> \/ ProviderNote(d, type)' \in inserted'
                     \/ /\ task'.second = ProviderNote(d, type)'
                        /\ CustomerNote(d, type)' \notin notifs'
    <3> DEFINE cd == CustomerNote(d, type)
               pd == ProviderNote(d, type)
    <3>1. /\ Exists(d) /\ CustomerNote(d, type)' = cd /\ ProviderNote(d, type)' = pd
      BY <1>0, <2>7 DEF Exists, CustomerNote, ProviderNote
    <3>2. pd # None /\ cd.booking = d /\ cd.type = type /\ pd.booking = d /\ pd.type = type
      BY <3>1, JobNotes, NoteFields DEF CustomerNote, ProviderNote
    <3>3. cd \in inserted <=> pd \in inserted
      BY <1>2, <3>1, <3>2 DEF JobInv
    <3>4. cd \in notifs <=> pd \in notifs
      BY <3>1 DEF JobInv, BothOrNone, CustomerNote, ProviderNote, Noted
    <3>5. \A n \in inserted : n \notin notifs
      BY DEF JobInv
    <3>6. d = b /\ type = task.job => cd = c /\ pd = p
      BY DEF c, p
    <3> HIDE DEF cd, pd
    <3>7. CASE d = b /\ type = task.job
      BY <1>0, <2>4, <2>5, <3>1, <3>3, <3>4, <3>5, <3>6, <3>7
    <3>8. CASE ~(d = b /\ type = task.job)
      BY <1>0, <2>3, <2>4, <2>5, <3>1, <3>2, <3>3, <3>8
    <3> QED
      BY <3>7, <3>8
  <2>8. NoticeAfterConfirmation'
    <3> SUFFICES ASSUME NEW d \in BookingIds, NEW type \in Jobs, Exists(d),
                        CustomerNote(d, type) \in notifs \cup inserted'
                 PROVE  PastPending(d)
      BY <1>0 DEF NoticeAfterConfirmation, Exists, Noted, PastPending, CustomerNote
    <3>1. CASE CustomerNote(d, type) \in notifs \cup inserted
      BY <3>1 DEF JobInv, NoticeAfterConfirmation, PastPending, CustomerNote
    <3>2. CASE CustomerNote(d, type) = c
      <4>1. d = b
        BY <2>3, <3>2, NoteFields DEF CustomerNote
      <4> QED
        BY <2>1, <4>1
    <3> QED
      BY <2>4, <3>1, <3>2
  <2>9. HalfTold(b)'
    <3>1. PastPending(b)'
      BY <1>1, <2>1
    <3>2. c' = c /\ p' = p
      BY <1>0, <2>5 DEF c, p, CustomerNote, ProviderNote
    <3>3. c \in notifs' \cup inserted'
      BY <1>0, <2>4
    <3> QED
      BY <2>5, <3>1, <3>2, <3>3 DEF HalfTold, c, p
  <2>10. \A d \in task'.rows : PastPending(d)'
    BY <1>0, <1>1, <2>5 DEF JobInv
  <2> QED
    BY <1>1, <2>1, <2>5, <2>6, <2>7, <2>8, <2>9, <2>10 DEF JobInv
<1>3. ASSUME task.second # None, Insert(task.second),
             task' = [task EXCEPT !.second = None]
      PROVE  JobInv' /\ task' \in Task /\ inserted' \subseteq Note
  <2> DEFINE p == task.second
  <2>1. PICK b \in BookingIds :
          /\ PastPending(b) /\ p = ProviderNote(b, task.job)
          /\ CustomerNote(b, task.job) \in notifs \cup inserted
    BY <1>3 DEF JobInv, HalfTold
  <2>2. p \in Note /\ Exists(b)
    BY <1>0, <2>1, JobNotes DEF PastPending
  <2>3. p.type = task.job /\ p.booking = b
    BY <2>1, NoteFields DEF ProviderNote
  <2>4. inserted' = IF p \in notifs THEN inserted ELSE inserted \cup {p}
    BY <1>3 DEF Insert
  <2> HIDE DEF p
  <2>5. /\ task'.pc = "insert" /\ task'.rows = task.rows
        /\ task'.job = task.job /\ task'.second = None /\ task' \in Task
    BY <1>0, <1>3 DEF Task
  <2>6. /\ inserted' \subseteq Note
        /\ \A n \in inserted' : n.type = task'.job /\ n \notin notifs'
        /\ \A n \in notifs' \cup inserted' : n.type \in Jobs => Exists(n.booking)'
    BY <1>0, <2>1, <2>2, <2>3, <2>4, <2>5 DEF JobInv, Base, Exists
  <2>7. ASSUME NEW d \in BookingIds, NEW type \in Jobs, Exists(d)'
        PROVE  CustomerNote(d, type)' \in inserted'
                 <=> \/ ProviderNote(d, type)' \in inserted'
                     \/ /\ task'.second = ProviderNote(d, type)'
                        /\ CustomerNote(d, type)' \notin notifs'
    <3> DEFINE cd == CustomerNote(d, type)
               pd == ProviderNote(d, type)
    <3>1. /\ Exists(d) /\ CustomerNote(d, type)' = cd /\ ProviderNote(d, type)' = pd
      BY <1>0, <2>7 DEF Exists, CustomerNote, ProviderNote
    <3>2. pd # None /\ cd.booking = d /\ cd.type = type /\ pd.booking = d /\ pd.type = type
      BY <3>1, JobNotes, NoteFields DEF CustomerNote, ProviderNote
    <3>3. cd \in inserted <=> pd \in inserted \/ (p = pd /\ cd \notin notifs)
      BY <3>1 DEF JobInv, p
    <3>4. cd \in notifs <=> pd \in notifs
      BY <3>1 DEF JobInv, BothOrNone, CustomerNote, ProviderNote, Noted
    <3>5. \A n \in inserted : n \notin notifs
      BY DEF JobInv
    <3>6. d = b /\ type = task.job =>
            pd = p /\ cd \in notifs \cup inserted
      BY <2>1
    <3> HIDE DEF cd, pd
    <3>7. CASE d = b /\ type = task.job
      BY <1>0, <2>4, <2>5, <3>1, <3>2, <3>3, <3>4, <3>5, <3>6, <3>7
    <3>8. CASE ~(d = b /\ type = task.job)
      BY <1>0, <2>3, <2>4, <2>5, <3>1, <3>2, <3>3, <3>8
    <3> QED
      BY <3>7, <3>8
  <2>8. NoticeAfterConfirmation'
    <3> SUFFICES ASSUME NEW d \in BookingIds, NEW type \in Jobs, Exists(d),
                        CustomerNote(d, type) \in notifs \cup inserted'
                 PROVE  PastPending(d)
      BY <1>0 DEF NoticeAfterConfirmation, Exists, Noted, PastPending, CustomerNote
    <3>1. CASE CustomerNote(d, type) \in notifs \cup inserted
      BY <3>1 DEF JobInv, NoticeAfterConfirmation, PastPending, CustomerNote
    <3>2. CASE CustomerNote(d, type) = p
      <4>1. d = b
        BY <2>3, <3>2, NoteFields DEF CustomerNote
      <4> QED
        BY <2>1, <4>1
    <3> QED
      BY <2>4, <3>1, <3>2
  <2>9. \A d \in task'.rows : PastPending(d)'
    BY <1>0, <1>1, <2>5 DEF JobInv
  <2> QED
    BY <1>1, <2>5, <2>6, <2>7, <2>8, <2>9 DEF JobInv
<1> QED
  BY <1>2, <1>3 DEF insert_notice, CustomerNote, ProviderNote

(* The COMMIT tells both parties of every booking it tells one of.         *)
LEMMA CommitJobs ==
  Base /\ JobInv /\ task \in Task /\ now \in 0..MaxTime /\ commit_job
    => JobInv' /\ task' \in Task
<1> SUFFICES ASSUME Base, JobInv, task \in Task, now \in 0..MaxTime, commit_job
             PROVE  JobInv' /\ task' \in Task
  OBVIOUS
<1>1. /\ notifs' = notifs \cup inserted /\ inserted' = {} /\ bookings' = bookings
      /\ task.second = None /\ NextJob
  BY DEF commit_job
<1>2. Fresh(task') /\ task'.pc # "insert"
  BY <1>1, NextJobTask DEF Sleeps
<1>3. ASSUME NEW b \in BookingIds, NEW type \in Jobs, Exists(b)
      PROVE  /\ CustomerNote(b, type) \in notifs' <=> ProviderNote(b, type) \in notifs'
             /\ CustomerNote(b, type) \in notifs' => PastPending(b)
             /\ ProviderNote(b, type) # None
             /\ CustomerNote(b, type)' = CustomerNote(b, type)
             /\ ProviderNote(b, type)' = ProviderNote(b, type)
  <2>1. ProviderNote(b, type) # None
    BY <1>3, JobNotes
  <2>2. CustomerNote(b, type) \in inserted <=> ProviderNote(b, type) \in inserted
    BY <1>1, <1>3, <2>1 DEF JobInv
  <2>3. CustomerNote(b, type) \in notifs <=> ProviderNote(b, type) \in notifs
    BY <1>3 DEF JobInv, BothOrNone, CustomerNote, ProviderNote, Noted
  <2>4. CustomerNote(b, type) \in notifs' => PastPending(b)
    BY <1>1, <1>3 DEF JobInv, NoticeAfterConfirmation, PastPending, CustomerNote
  <2> QED
    BY <1>1, <2>1, <2>2, <2>3, <2>4 DEF CustomerNote, ProviderNote
<1>4. BothOrNone'
  BY <1>1, <1>3 DEF BothOrNone, Exists, Noted, CustomerNote, ProviderNote
<1>5. NoticeAfterConfirmation'
  BY <1>1, <1>3
  DEF NoticeAfterConfirmation, Exists, Noted, CustomerNote, PastPending
<1>6. \A n \in notifs' \cup inserted' : n.type \in Jobs => Exists(n.booking)'
  BY <1>1 DEF JobInv, Exists
<1>7. /\ task'.rows = {} /\ task'.second = None /\ task' \in Task
  BY <1>2 DEF Fresh
<1>8. \A b \in BookingIds, type \in Jobs : Exists(b)' => ProviderNote(b, type)' # None
  BY <1>1, <1>3 DEF Exists
<1> QED
  BY <1>1, <1>2, <1>4, <1>5, <1>6, <1>7, <1>8 DEF JobInv

(* The requests insert other notifications, keep the parties of a booking  *)
(* and leave no booking pending that was not.                              *)
LEMMA RequestJobs ==
  Base /\ JobInv /\ task \in Task /\ [Next]_vars /\ UNCHANGED <<task, inserted>>
    => JobInv'
<1> SUFFICES ASSUME Base, JobInv, task \in Task, [Next]_vars,
                    UNCHANGED <<task, inserted>>
             PROVE  JobInv'
  OBVIOUS
<1>1. RowsGoOn /\ \A n \in notifs' \ notifs : n.type \notin Jobs
  BY NextRows DEF Base
<1>2. \A b \in BookingIds : PastPending(b) => PastPending(b)'
  BY <1>1 DEF RowsGoOn, PastPending, SameParties, Noted
<1>3. ASSUME NEW b \in BookingIds, Exists(b), NEW type
      PROVE  /\ Exists(b)' /\ CustomerNote(b, type)' = CustomerNote(b, type)
             /\ ProviderNote(b, type)' = ProviderNote(b, type)
  BY <1>1, <1>3 DEF RowsGoOn, SameParties, CustomerNote, ProviderNote
<1>4. ASSUME NEW b \in BookingIds, NEW type \in Jobs
      PROVE  /\ CustomerNote(b, type).type \in Jobs /\ CustomerNote(b, type).booking = b
             /\ ProviderNote(b, type).type \in Jobs /\ ProviderNote(b, type).booking = b
             /\ CustomerNote(b, type)'.type \in Jobs /\ CustomerNote(b, type)'.booking = b
             /\ ProviderNote(b, type)'.type \in Jobs /\ ProviderNote(b, type)'.booking = b
  BY NoteFields DEF CustomerNote, ProviderNote
<1>5. ASSUME NEW n \in notifs' \cup inserted', n.type \in Jobs
      PROVE  /\ n \in notifs \cup inserted /\ (n \in notifs' => n \in notifs)
             /\ Exists(n.booking)
  BY <1>1, <1>5 DEF JobInv
<1>6. notifs \subseteq notifs'
  BY <1>1 DEF RowsGoOn
<1>7. \A n \in notifs' \cup inserted' : n.type \in Jobs => Exists(n.booking)'
  <2> SUFFICES ASSUME NEW n \in notifs' \cup inserted', n.type \in Jobs
               PROVE  Exists(n.booking)'
    OBVIOUS
  <2>1. n \in Note
    BY <1>5 DEF Base, Sessions, TypeOK
  <2>2. n.booking \in BookingIds
    BY <2>1 DEF Note
  <2> QED
    BY <1>3, <1>5, <2>2
<1>8. \A n \in inserted' : n.type = task'.job /\ n \notin notifs'
  <2> SUFFICES ASSUME NEW n \in inserted' PROVE n.type = task'.job /\ n \notin notifs'
    OBVIOUS
  <2>1. n.type = task.job /\ n \notin notifs /\ n \in inserted
    BY DEF JobInv
  <2>2. n.type \in Jobs
    BY <2>1, TaskTypes
  <2> QED
    BY <1>5, <2>1, <2>2
<1>9. ASSUME NEW b \in BookingIds, NEW type \in Jobs, Exists(b)'
      PROVE  /\ CustomerNote(b, type)' \in notifs' <=> ProviderNote(b, type)' \in notifs'
             /\ CustomerNote(b, type)' \in notifs' \cup inserted' => PastPending(b)'
             /\ (CustomerNote(b, type)' \in inserted'
                   <=> \/ ProviderNote(b, type)' \in inserted'
                       \/ /\ task'.second = ProviderNote(b, type)'
                          /\ CustomerNote(b, type)' \notin notifs')
  <2>1. CASE Exists(b)
    <3> DEFINE c == CustomerNote(b, type)
               p == ProviderNote(b, type)
    <3>1. CustomerNote(b, type)' = c /\ ProviderNote(b, type)' = p
      BY <1>3, <2>1
    <3>2. (c \in notifs' <=> c \in notifs) /\ (p \in notifs' <=> p \in notifs)
      BY <1>4, <1>5, <1>6
    <3>3. c \in notifs <=> p \in notifs
      BY <2>1 DEF JobInv, BothOrNone, CustomerNote, ProviderNote, Noted
    <3>4. c \in notifs \cup inserted => PastPending(b)
      BY <2>1 DEF JobInv, NoticeAfterConfirmation, PastPending, CustomerNote
    <3>5. c \in inserted <=> p \in inserted \/ (task.second = p /\ c \notin notifs)
      BY <2>1 DEF JobInv
    <3> HIDE DEF c, p
    <3> QED
      BY <1>2, <3>1, <3>2, <3>3, <3>4, <3>5
  <2>2. CASE ~Exists(b)
    <3>1. /\ CustomerNote(b, type)' \notin notifs' \cup inserted'
          /\ ProviderNote(b, type)' \notin notifs' \cup inserted'
      BY <1>4, <1>5, <2>2
    <3>2. task.second # ProviderNote(b, type)'
      <4>1. CASE task.second = None
        <5>1. ProviderNote(b, type)' # None
          <6>1. Sessions'
            BY NextSessions DEF Base
          <6>2. bookings'[b].provider \in Users
            BY <1>9, <6>1 DEF Sessions, TypeOK, Exists, Row, Users
          <6>3. type \in NotificationType
            BY DEF Jobs, NotificationType
          <6>4. NoteFor(bookings'[b].provider, b, type) \in Note
            BY <6>2, <6>3, NoteForType
          <6> QED
            BY <6>4, JobsAssumption DEF ProviderNote
        <5> QED
          BY <4>1, <5>1
      <4>2. CASE task.second # None
        <5>1. PICK d \in BookingIds : Exists(d) /\ task.second = ProviderNote(d, task.job)
          BY <4>2 DEF JobInv, HalfTold, PastPending
        <5>2. task.second.booking = d /\ d # b
          BY <2>2, <5>1, NoteFields DEF ProviderNote
        <5> QED
          BY <1>4, <5>2
      <4> QED
        BY <4>1, <4>2
    <3> QED
      BY <3>1, <3>2
  <2> QED
    BY <2>1, <2>2
<1>10. BothOrNone' /\ NoticeAfterConfirmation'
  BY <1>9 DEF BothOrNone, NoticeAfterConfirmation, PastPending, Noted,
              CustomerNote, ProviderNote
<1>11. task'.second # None => \E b \in BookingIds : HalfTold(b)'
  <2> SUFFICES ASSUME task.second # None PROVE \E b \in BookingIds : HalfTold(b)'
    OBVIOUS
  <2>1. PICK b \in BookingIds : HalfTold(b)
    BY DEF JobInv
  <2>2. Exists(b) /\ PastPending(b)'
    BY <1>2, <2>1 DEF HalfTold, PastPending
  <2>3. /\ CustomerNote(b, task.job)' = CustomerNote(b, task.job)
        /\ ProviderNote(b, task.job)' = ProviderNote(b, task.job)
    BY <2>2 , <1>1 DEF RowsGoOn, SameParties, CustomerNote, ProviderNote
  <2> QED
    BY <1>6, <2>1, <2>2, <2>3 DEF HalfTold
<1>12. \A b \in task'.rows : PastPending(b)'
  <2> SUFFICES ASSUME NEW b \in task.rows PROVE PastPending(b)'
    OBVIOUS
  <2>1. PastPending(b)
    BY DEF JobInv
  <2>2. b \in BookingIds
    BY TaskTypes
  <2> QED
    BY <1>2, <2>1, <2>2
<1>13. task'.pc # "insert" => task'.rows = {} /\ task'.second = None /\ inserted' = {}
  BY DEF JobInv
<1> QED
  BY <1>7, <1>8, <1>9, <1>10, <1>11, <1>12, <1>13 DEF JobInv

-----------------------------------------------------------------------------
(* The invariant of the process.                                           *)

Clocks ==
  /\ now \in 0..MaxTime
  /\ task \in Task
  /\ since \in [BookingIds -> 0..MaxTime]
  /\ up \in 0..MaxTime
  /\ slow \in 0..MaxTime
  /\ restarts \in 0..MaxRestarts
  /\ failing \subseteq Jobs

JobsInv == Base /\ Clocks /\ JobInv

LEMMA InitJobsInv == JInit => JobsInv
<1> SUFFICES ASSUME JInit PROVE JobsInv
  OBVIOUS
<1>1. task \in Task
  BY StartTask, JobsAssumption DEF JInit, Fresh, Jobs
<1>2. 0 \in 0..MaxTime /\ 0 \in 0..MaxRestarts
  BY JobsAssumption
<1>3. Clocks
  BY <1>1, <1>2 DEF JInit, Clocks
<1> QED
  BY <1>3, InitJobs DEF JobsInv

(* The history variables and the clock keep their types whatever happens.  *)
LEMMA ObserveClocks ==
  ASSUME Clocks, task' \in Task, Observe, UNCHANGED failing,
         now' \in 0..MaxTime, slow' \in 0..MaxTime,
         restarts' \in 0..MaxRestarts
  PROVE  Clocks'
BY DEF Clocks, Observe

LEMMA NextJobsInv == JobsInv /\ [JNext]_<<vars, jvars>> => JobsInv'
<1> SUFFICES ASSUME JobsInv, [JNext]_<<vars, jvars>>
             PROVE  JobsInv'
  OBVIOUS
<1>0. Base /\ JobInv /\ Clocks /\ task \in Task /\ now \in 0..MaxTime
      /\ slow \in 0..MaxTime /\ restarts \in 0..MaxRestarts
  BY DEF JobsInv, Clocks
<1>1. Sessions' /\ Promised' /\ CarefulRequests'
  <2>1. CASE Quiet
    BY <1>0, <2>1, QuietBase
  <2>2. CASE commit_job
    BY <1>0, <2>2, CommitBase DEF Base
  <2>3. CASE crash
    BY <1>0, <2>3, CrashBase DEF Base
  <2>4. CASE [Next]_vars
    BY <1>0, <2>4, NextSessions, NextPromised, NextCareful DEF Base
  <2> QED
    BY <2>1, <2>2, <2>3, <2>4, JNextIs
<1> DEFINE Good == /\ JobInv' /\ task' \in Task /\ inserted' \subseteq Note
                   /\ now' \in 0..MaxTime /\ slow' \in 0..MaxTime
                   /\ restarts' \in 0..MaxRestarts
<1>2. CASE UNCHANGED <<vars, jvars>>
  <2>1. [Next]_vars /\ UNCHANGED <<task, inserted>>
    BY <1>2 DEF jvars
  <2>2. JobInv'
    BY <1>0, <2>1, RequestJobs
  <2>3. Clocks' /\ inserted' \subseteq Note
    BY <1>0, <1>2 DEF Clocks, jvars, Base
  <2> QED
    BY <1>1, <2>2, <2>3 DEF JobsInv, Base
<1>3. ASSUME Resets, UNCHANGED <<now, slow>>, restarts' \in 0..MaxRestarts
      PROVE  Good
  BY <1>0, <1>3, ResetJobs DEF Resets, Fresh
<1>4. ASSUME select_bookings PROVE Good
  <2>1. JobInv' /\ task' \in Task
    BY <1>0, <1>4, SelectJobs
  <2> QED
    BY <1>0, <1>4, <2>1 DEF select_bookings, Base
<1>5. ASSUME insert_notice PROVE Good
  <2>1. JobInv' /\ task' \in Task /\ inserted' \subseteq Note
    BY <1>0, <1>5, InsertJobs
  <2> QED
    BY <1>0, <1>5, <2>1 DEF insert_notice
<1>6. ASSUME commit_job PROVE Good
  <2>1. JobInv' /\ task' \in Task
    BY <1>0, <1>6, CommitJobs
  <2> QED
    BY <1>0, <1>6, <2>1 DEF commit_job
<1>7. ASSUME fail_job PROVE Good
  <2>1. Resets
    BY <1>0, <1>7, NextJobTask DEF Resets, fail_job, vars, Sleeps
  <2> QED
    BY <1>0, <1>3, <1>7, <2>1 DEF fail_job
<1>8. ASSUME wake \/ start \/ read_clock PROVE Good
  <2>1. inserted = {} /\ (read_clock => task.rows = {} /\ task.second = None)
    BY <1>0, <1>8 DEF JobInv, wake, start, read_clock
  <2>2. CASE wake \/ start
    <3>1. task.due \in 0..MaxTime
      BY <1>0 DEF Task
    <3>2. Resets
      BY <1>0, <2>1, <2>2, <3>1, StartTask DEF Resets, wake, start, vars, Jobs
    <3> QED
      BY <1>0, <1>3, <2>2, <3>2 DEF wake, start
  <2>3. CASE read_clock
    <3>1. Fresh(task') /\ task'.pc = "select"
      BY <1>0, <2>1, <2>3 DEF read_clock, Fresh, Task
    <3>2. Resets
      BY <2>1, <2>3, <3>1 DEF Resets, read_clock, vars
    <3> QED
      BY <1>0, <1>3, <2>3, <3>2 DEF read_clock
  <2> QED
    BY <1>8, <2>2, <2>3
<1>9. ASSUME stop \/ crash PROVE Good
  <2>1. stop => inserted = {}
    BY <1>0 DEF JobInv, stop
  <2>2. Resets /\ UNCHANGED <<now, slow>>
    BY <1>9, <2>1, DownTask DEF Resets, stop, crash, Ends, vars
  <2>3. restarts' \in 0..MaxRestarts
    <3>1. restarts < MaxRestarts /\ restarts' = restarts + 1
      BY <1>9 DEF stop, crash, Ends
    <3> QED
      BY <1>0, <3>1, JobsAssumption
  <2> QED
    BY <1>3, <2>2, <2>3
<1>10. ASSUME Tick PROVE Good
  <2>1. [Next]_vars /\ UNCHANGED <<task, inserted, restarts>>
        /\ now < MaxTime /\ now' = now + 1
    BY <1>10 DEF Tick
  <2>2. now' \in 0..MaxTime
    BY <1>0, <2>1, JobsAssumption
  <2>3. JobInv'
    BY <1>0, <2>1, RequestJobs
  <2>4. slow' \in 0..MaxTime
    <3>1. task.due \in 0..MaxTime
      BY <1>0 DEF Task
    <3>2. \/ slow' = slow
          \/ now' > task.due + slow /\ slow' = now' - task.due
      BY <1>10 DEF Tick
    <3> HIDE DEF Good
    <3> QED
      BY <1>0, <2>2, <3>1, <3>2, JobsAssumption
  <2> QED
    BY <1>0, <2>1, <2>2, <2>3, <2>4 DEF Base
<1>11. ASSUME Next /\ UNCHANGED <<now, slow, task, inserted, restarts>> PROVE Good
  <2>1. JobInv'
    BY <1>0, <1>11, RequestJobs
  <2> QED
    BY <1>0, <1>11, <2>1 DEF Base
<1>12. CASE Good /\ Observe /\ UNCHANGED failing
  BY <1>0, <1>1, <1>12, ObserveClocks DEF JobsInv, Base
<1> HIDE DEF Good
<1> QED
  BY <1>2, <1>4, <1>5, <1>6, <1>7, <1>8, <1>9, <1>10, <1>11, <1>12
  DEF JNext, Job

THEOREM JobsInvariant == JSpec => []JobsInv
<1>1. JInit => JobsInv
  BY InitJobsInv
<1>2. JobsInv /\ [JNext]_<<vars, jvars>> => JobsInv'
  BY NextJobsInv
<1> QED
  BY <1>1, <1>2, PTL DEF JSpec

(* The scheduler's task, its clock and the tables of the requests beside   *)
(* it stay within their types.                                             *)
THEOREM JobsTypeCorrect == JSpec => []JTypeOK
<1>1. JobsInv => JTypeOK
  BY DEF JobsInv, Clocks, Base, Sessions, JTypeOK
<1> QED
  BY <1>1, JobsInvariant, PTL

(* Whatever of the two INSERTs, the COMMIT and the jobs fails, and whatever*)
(* the requests do meanwhile, a job tells both parties of a booking or     *)
(* neither.                                                                *)
THEOREM NobodyIsToldAlone == JSpec => []BothOrNone
<1>1. JobsInv => BothOrNone
  BY DEF JobsInv, JobInv
<1> QED
  BY <1>1, JobsInvariant, PTL

(* Nobody is reminded of a booking, or told it is overdue, that is pending *)
(* or of whose confirmation the customer was not told before.              *)
THEOREM ToldOfConfirmationFirst == JSpec => []NoticeAfterConfirmation
<1>1. JobsInv => NoticeAfterConfirmation
  BY DEF JobsInv, JobInv
<1> QED
  BY <1>1, JobsInvariant, PTL

-----------------------------------------------------------------------------
(* Reminders.                                                              *)

(* Confirmed early enough for a round before the one of task.due, as long  *)
(* as no round is over, or the next one begun, later than s after it was   *)
(* due.                                                                    *)
DueEarlier(b, s) ==
  /\ Confirmed(b)
  /\ Window >= Interval + 2 * s
  /\ up + s < bookings[b].start /\ bookings[b].start <= task.due + s
  /\ \/ since[b] < up
     \/ since[b] < bookings[b].start - (Interval + 2 * s)

(* Confirmed since before the round, and within what its reminder job      *)
(* looks ahead, whenever it reads the clock.                               *)
ToRemind(b) ==
  /\ Confirmed(b) /\ since[b] < task.due
  /\ task.due + slow < bookings[b].start
  /\ bookings[b].start <= task.due + Window

(* The transaction of the reminder job has told of b or is still to.       *)
Underway(b) ==
  \/ b \in task.rows
  \/ /\ CustomerNote(b, "booking_reminder") \in notifs \cup inserted
     /\ ProviderNote(b, "booking_reminder")
          \in notifs \cup inserted \cup {task.second}

(* What was to remind of at earlier rounds is told.                        *)
EarlierTold ==
  \A b \in BookingIds, s \in Nat :
    slow <= s /\ DueEarlier(b, s) => BothNoted(b, "booking_reminder")

(* What was to remind of at this one is told when its reminder job is over,*)
(* and selected or told while it runs.                                     *)
RoundTold ==
  task.pc \in {"clock", "select", "insert"} /\ task.job = "booking_overdue" =>
    \A b \in BookingIds : ToRemind(b) => BothNoted(b, "booking_reminder")

RoundUnderway ==
  task.pc = "insert" /\ task.job = "booking_reminder" =>
    \A b \in BookingIds : ToRemind(b) => Underway(b)

RoundsCover == task.pc # "down" => EarlierTold /\ RoundTold /\ RoundUnderway

(* A round is at most slow late, and due at most an interval from now; the *)
(* time its job has read is past that.                                     *)
Timed ==
  /\ up <= now
  /\ \A b \in BookingIds : since[b] <= now
  /\ task.pc # "down" =>
       /\ up <= task.due /\ task.due <= now + Interval
       /\ now <= task.due + slow
       /\ task.pc # "sleep" => task.due <= now
       /\ task.pc \in {"select", "insert"} =>
            task.due <= task.at /\ task.at <= now

Reliable == "booking_reminder" \notin failing

RemindersInv == Timed /\ (Reliable => RoundsCover)

LEMMA JobRows == JobsInv /\ [JNext]_<<vars, jvars>> => RowsGoOn
<1> SUFFICES ASSUME JobsInv, [JNext]_<<vars, jvars>> PROVE RowsGoOn
  OBVIOUS
<1>1. CASE Quiet \/ commit_job \/ crash
  <2>1. bookings' = bookings /\ notifs \subseteq notifs'
    BY <1>1 DEF Quiet, vars, commit_job, crash
  <2> QED
    BY <2>1 DEF RowsGoOn, Exists, SameParties
<1>2. CASE [Next]_vars
  BY <1>2, NextRows DEF JobsInv, Base
<1> QED
  BY <1>1, <1>2, JNextIs

(* What a step is to the round: it ends the process or starts one, it puts *)
(* the task to sleep, time passes, or the round goes on or begins.         *)
SameRound ==
  /\ task.pc # "down" /\ task'.pc # "down" /\ task'.due = task.due
  /\ UNCHANGED <<now, slow>>

LEMMA RoundStep ==
  ASSUME JobsInv, [JNext]_<<vars, jvars>>
  PROVE  \/ task'.pc = "down" /\ UNCHANGED now
         \/ start /\ task'.pc = "clock" /\ task'.due = now
            /\ task'.job = "booking_reminder"
         \/ /\ commit_job \/ fail_job
            /\ task.job = "booking_overdue" /\ Sleeps(task')
         \/ Tick
         \/ SameRound
<1>0. task \in Task /\ now \in 0..MaxTime /\ task.due \in 0..MaxTime
  BY DEF JobsInv, Clocks, Task
<1>1. CASE commit_job \/ fail_job
  <2>1. NextJob /\ UNCHANGED <<now, slow>> /\ task.pc # "down"
    BY <1>1 DEF commit_job, fail_job
  <2> QED
    BY <1>0, <1>1, <2>1, NextJobTask DEF SameRound
<1>2. CASE read_clock \/ select_bookings \/ insert_notice
  BY <1>0, <1>2
  DEF read_clock, select_bookings, insert_notice, SameRound, Task
<1>3. CASE wake \/ start
  BY <1>0, <1>3, StartTask DEF wake, start, SameRound, Jobs
<1>4. CASE stop \/ crash
  BY <1>4, DownTask DEF stop, crash, Ends
<1>5. CASE UNCHANGED <<now, slow, task>>
  BY <1>5 DEF SameRound
<1>6. CASE UNCHANGED <<vars, jvars>>
  BY <1>5, <1>6 DEF jvars
<1> QED
  BY <1>1, <1>2, <1>3, <1>4, <1>5, <1>6 DEF JNext, Job

(* A booking that did not become confirmed for its start in the step was   *)
(* so before it, and nobody is told less.                                  *)
LEMMA StillConfirmed ==
  ASSUME Observe, RowsGoOn, NEW b \in BookingIds, Confirmed(b)', since'[b] # now
  PROVE  /\ Confirmed(b) /\ since'[b] = since[b]
         /\ bookings'[b].start = bookings[b].start
         /\ SameParties(bookings[b], bookings'[b]) /\ notifs \subseteq notifs'
         /\ BothNoted(b, "booking_reminder") => BothNoted(b, "booking_reminder")'
<1>1. /\ Confirmed(b) /\ since'[b] = since[b]
      /\ bookings[b].start = bookings'[b].start
  BY DEF Observe
<1>2. SameParties(bookings[b], bookings'[b]) /\ notifs \subseteq notifs'
  BY <1>1 DEF RowsGoOn, Confirmed
<1> QED
  BY <1>1, <1>2 DEF BothNoted, Noted, SameParties

LEMMA ClockTypes ==
  ASSUME JobsInv
  PROVE  /\ now \in Nat /\ up \in Nat /\ slow \in Nat /\ task.due \in Nat
         /\ task.at \in Nat /\ task \in Task
         /\ \A b \in BookingIds : since[b] \in Nat
         /\ Interval \in Nat \ {0} /\ Window \in Nat
         /\ \A b \in BookingIds : Confirmed(b) => bookings[b].start \in Int
<1>1. /\ now \in 0..MaxTime /\ task \in Task /\ up \in 0..MaxTime
      /\ slow \in 0..MaxTime /\ since \in [BookingIds -> 0..MaxTime]
  BY DEF JobsInv, Clocks
<1>2. task.due \in 0..MaxTime /\ task.at \in 0..MaxTime
  BY <1>1 DEF Task
<1>3. \A b \in BookingIds : Confirmed(b) => bookings[b].start \in Int
  BY RulesAssumption
  DEF Confirmed, Exists, JobsInv, Base, Sessions, TypeOK, Row
<1> QED
  BY <1>1, <1>2, <1>3, JobsAssumption

(* The history of the clock.                                               *)
LEMMA NextTimed == JobsInv /\ Timed /\ [JNext]_<<vars, jvars>> => Timed'
<1> SUFFICES ASSUME JobsInv, Timed, JNext PROVE Timed'
  BY DEF Timed, jvars
<1>0. /\ JobsInv' /\ now \in Nat /\ up \in Nat /\ slow \in Nat
      /\ task.due \in Nat /\ task \in Task /\ Interval \in Nat
      /\ \A b \in BookingIds : since[b] \in Nat
  BY ClockTypes, NextJobsInv
<1>1. now' \in Nat /\ slow' \in Nat /\ slow' >= slow /\ now <= now'
  <2>1. JobsInv' => now' \in Nat /\ slow' \in Nat
    BY JobsAssumption DEF JobsInv, Clocks
  <2>2. \/ UNCHANGED <<now, slow>>
        \/ /\ now' = now + 1
           /\ \/ slow' = slow
              \/ now' > task.due + slow /\ slow' = now' - task.due
    BY DEF JNext, Job, read_clock, select_bookings, insert_notice, commit_job,
           fail_job, wake, stop, crash, start, Tick
  <2> QED
    BY <1>0, <2>1, <2>2
<1>2. Observe
  BY DEF JNext
<1>3. up' <= now' /\ \A b \in BookingIds : since'[b] <= now'
  <2> DEFINE n == now'
  <2>1. up' \in {up, now} /\ \A b \in BookingIds : since'[b] \in {since[b], now}
    BY <1>2 DEF Observe
  <2>2. n \in Nat /\ now <= n
    BY <1>1
  <2> HIDE DEF n
  <2>3. up' <= n
    BY <1>0, <2>1, <2>2 DEF Timed
  <2>4. ASSUME NEW b \in BookingIds PROVE since'[b] <= n
    <3>1. since[b] <= now /\ since[b] \in Nat
      BY <1>0 DEF Timed
    <3> QED
      BY <1>0, <2>1, <2>2, <3>1
  <2> QED
    BY <2>3, <2>4 DEF n
<1>4. task.pc # "down" => up' = up
  BY <1>2 DEF Observe
<1>5. CASE task'.pc = "down"
  BY <1>3, <1>5 DEF Timed
<1>6. CASE start /\ task'.pc = "clock" /\ task'.due = now
  <2>1. now' = now /\ slow' = slow /\ up' = now
    BY <1>2, <1>6 DEF start, Observe
  <2> QED
    BY <1>0, <1>3, <1>6, <2>1 DEF Timed
<1>7. CASE (commit_job \/ fail_job) /\ Sleeps(task')
  <2>1. now' = now /\ slow' = slow /\ task.pc # "down" /\ up' = up
    BY <1>4, <1>7 DEF commit_job, fail_job
  <2>2. task'.pc = "sleep" /\ now <= task'.due /\ task'.due <= now + Interval
    BY <1>7 DEF Sleeps
  <2>3. task'.due \in Nat
    BY <1>7, JobsAssumption DEF Sleeps, Fresh, Task
  <2> QED
    BY <1>0, <1>3, <2>1, <2>2, <2>3 DEF Timed
<1>8. CASE Tick
  <2>1. /\ task' = task /\ now' = now + 1
        /\ slow' = IF task.pc # "down" /\ now' > task.due + slow
                   THEN now' - task.due ELSE slow
    BY <1>8 DEF Tick
  <2>2. CASE task.pc # "down"
    <3>1. /\ up <= task.due /\ task.due <= now + Interval
          /\ task.pc # "sleep" => task.due <= now
          /\ task.pc \in {"select", "insert"} =>
               task.due <= task.at /\ task.at <= now
      BY <2>2 DEF Timed
    <3>2. now' <= task.due + slow'
      BY <1>0, <2>1, <2>2
    <3>3. task.due <= now' + Interval /\ (task.pc # "sleep" => task.due <= now')
      BY <1>0, <2>1, <3>1
    <3>4. task.pc \in {"select", "insert"} => task.at <= now'
      <4>1. task.at \in Nat
        BY ClockTypes
      <4> QED
        BY <1>0, <2>1, <3>1, <4>1
    <3> QED
      BY <1>3, <1>4, <2>1, <2>2, <3>1, <3>2, <3>3, <3>4 DEF Timed
  <2> QED
    BY <1>3, <2>1, <2>2 DEF Timed
<1>9. CASE SameRound
  <2>1. /\ task.pc # "down" /\ up' = up /\ now' = now /\ slow' = slow
        /\ task'.due = task.due
    BY <1>4, <1>9 DEF SameRound
  <2>2. task'.pc # "sleep" => task'.due <= now'
    <3>1. task.pc = "sleep" => task' = task \/ wake \/ task'.pc = "down"
      <4>1. stop \/ crash => task'.pc = "down"
        BY DownTask DEF stop, crash, Ends
      <4> QED
        BY <4>1 DEF JNext, Job, read_clock, select_bookings, insert_notice,
                    commit_job, fail_job, start, Tick
    <3>2. wake => task.due <= now
      BY <1>0 DEF wake
    <3>3. task'.pc # "down"
      BY <1>9 DEF SameRound
    <3>4. task.pc # "sleep" => task.due <= now
      BY <2>1 DEF Timed
    <3> QED
      BY <2>1, <3>1, <3>2, <3>3, <3>4
  <2>3. task'.pc \in {"select", "insert"} =>
          task'.due <= task'.at /\ task'.at <= now'
    <3> SUFFICES ASSUME task'.pc \in {"select", "insert"}
                 PROVE  task.due <= task'.at /\ task'.at <= now
      BY <2>1
    <3>1. CASE read_clock
      <4>1. task'.at = now /\ task.pc = "clock"
        BY <1>0, <3>1 DEF read_clock, Task
      <4> QED
        BY <1>0, <2>1, <4>1 DEF Timed
    <3>2. CASE task.pc \in {"select", "insert"} /\ task'.at = task.at
      BY <2>1, <3>2 DEF Timed
    <3>3. CASE select_bookings \/ insert_notice
      <4>1. task.pc \in {"select", "insert"} /\ task'.at = task.at
        BY <1>0, <3>3 DEF select_bookings, insert_notice, Task
      <4> QED
        BY <3>2, <4>1
    <3>4. CASE commit_job \/ fail_job
      <4>1. task'.pc \in {"clock", "sleep"}
        <5>1. NextJob /\ now \in 0..MaxTime
          BY <3>4 DEF commit_job, fail_job, JobsInv, Clocks
        <5> QED
          BY <1>0, <5>1, NextJobTask DEF Sleeps
      <4> QED
        BY <4>1
    <3>5. CASE wake \/ start \/ stop \/ crash
      <4>1. task'.pc \in {"clock", "down"}
        <5>1. now \in 0..MaxTime /\ task.due \in 0..MaxTime
          BY DEF JobsInv, Clocks, Task
        <5> QED
          BY <3>5, <5>1, StartTask, DownTask
          DEF wake, start, stop, crash, Ends, Jobs
      <4> QED
        BY <4>1
    <3>6. CASE UNCHANGED task
      BY <3>2, <3>6
    <3>7. Tick => UNCHANGED task
      BY DEF Tick
    <3> QED
      BY <3>1, <3>3, <3>4, <3>5, <3>6, <3>7 DEF JNext, Job
  <2> QED
    BY <1>3, <2>1, <2>2, <2>3 DEF Timed
<1> QED
  BY <1>5, <1>6, <1>7, <1>8, <1>9, RoundStep

LEMMA NextStart ==
  ASSUME JobsInv', NEW b \in BookingIds, Confirmed(b)'
  PROVE  bookings'[b].start \in Int
BY RulesAssumption
DEF Confirmed, Exists, JobsInv, Base, Sessions, TypeOK, Row

(* What was to remind of at earlier rounds stays told while the round goes *)
(* on: no booking becomes one of those.                                    *)
LEMMA StillEarlier ==
  ASSUME JobsInv, JobsInv', Timed, EarlierTold, Observe, RowsGoOn,
         task.pc # "down", task'.due = task.due, slow' \in Nat, slow <= slow'
  PROVE  EarlierTold'
<1> SUFFICES ASSUME NEW b \in BookingIds, NEW s \in Nat, slow' <= s,
                    DueEarlier(b, s)'
             PROVE  BothNoted(b, "booking_reminder")'
  BY DEF EarlierTold
<1> DEFINE t == bookings'[b].start
<1>1. /\ Confirmed(b)' /\ Window >= Interval + 2 * s
      /\ up + s < t /\ t <= task.due + s
      /\ since'[b] < up \/ since'[b] < t - (Interval + 2 * s)
  BY DEF DueEarlier, Observe
<1>2. /\ now \in Nat /\ up \in Nat /\ slow \in Nat /\ task.due \in Nat
      /\ Interval \in Nat /\ t \in Int
  BY <1>1, ClockTypes, NextStart
<1>3. up <= now /\ task.due <= now + Interval
  BY DEF Timed
<1> HIDE DEF t
<1>4. since'[b] # now
  BY <1>1, <1>2, <1>3
<1>5. /\ Confirmed(b) /\ since'[b] = since[b] /\ t = bookings[b].start
      /\ BothNoted(b, "booking_reminder") => BothNoted(b, "booking_reminder")'
  BY <1>1, <1>4, StillConfirmed DEF t
<1>6. DueEarlier(b, s)
  BY <1>1, <1>5 DEF DueEarlier
<1>7. slow <= s
  BY <1>2
<1> QED
  BY <1>5, <1>6, <1>7 DEF EarlierTold

(* So does what is to be told at this round, once it has begun.            *)
LEMMA StillToRemind ==
  ASSUME JobsInv, JobsInv', Timed, Observe, RowsGoOn, NEW b \in BookingIds,
         task.pc \notin {"down", "sleep"}, task'.due = task.due,
         slow' \in Nat, slow <= slow', ToRemind(b)'
  PROVE  /\ ToRemind(b)
         /\ SameParties(bookings[b], bookings'[b]) /\ notifs \subseteq notifs'
         /\ BothNoted(b, "booking_reminder") => BothNoted(b, "booking_reminder")'
<1> DEFINE t == bookings'[b].start
<1>1. /\ Confirmed(b)' /\ since'[b] < task.due
      /\ task.due + slow' < t /\ t <= task.due + Window
  BY DEF ToRemind
<1>2. /\ now \in Nat /\ slow \in Nat /\ task.due \in Nat /\ t \in Int
  BY <1>1, ClockTypes, NextStart
<1>3. task.due <= now
  BY DEF Timed
<1> HIDE DEF t
<1>4. since'[b] # now /\ task.due + slow < t
  BY <1>1, <1>2, <1>3
<1>5. /\ Confirmed(b) /\ since'[b] = since[b] /\ t = bookings[b].start
      /\ SameParties(bookings[b], bookings'[b]) /\ notifs \subseteq notifs'
      /\ BothNoted(b, "booking_reminder") => BothNoted(b, "booking_reminder")'
  BY <1>1, <1>4, StillConfirmed DEF t
<1> QED
  BY <1>1, <1>4, <1>5 DEF ToRemind

(* The sleep after the round ends before the first start that the round    *)
(* did not look ahead to.                                                  *)
LEMMA RoundEnds ==
  ASSUME JobsInv, JobsInv', Timed, RoundsCover, Observe, RowsGoOn,
         task.pc \in {"clock", "select", "insert"}, Sleeps(task'),
         task.job = "booking_overdue", UNCHANGED <<now, slow>>
  PROVE  EarlierTold'
<1> SUFFICES ASSUME NEW b \in BookingIds, NEW s \in Nat, slow <= s,
                    DueEarlier(b, s)'
             PROVE  BothNoted(b, "booking_reminder")'
  BY DEF EarlierTold
<1> DEFINE t == bookings'[b].start
           due == task'.due
<1>1. /\ Confirmed(b)' /\ Window >= Interval + 2 * s
      /\ up + s < t /\ t <= due + s
      /\ since'[b] < up \/ since'[b] < t - (Interval + 2 * s)
  BY DEF DueEarlier, Observe
<1>2. due \in Nat /\ due <= now + Interval
  BY JobsAssumption DEF Sleeps, Fresh, Task
<1>3. /\ now \in Nat /\ up \in Nat /\ slow \in Nat /\ task.due \in Nat
      /\ Interval \in Nat /\ Window \in Nat /\ since[b] \in Nat /\ t \in Int
  BY <1>1, ClockTypes, NextStart
<1>4. up <= now /\ up <= task.due /\ now <= task.due + slow
  BY DEF Timed
<1> HIDE DEF t, due
<1>5. since'[b] # now
  BY <1>1, <1>2, <1>3, <1>4
<1>6. /\ Confirmed(b) /\ since'[b] = since[b] /\ t = bookings[b].start
      /\ BothNoted(b, "booking_reminder") => BothNoted(b, "booking_reminder")'
  BY <1>1, <1>5, StillConfirmed DEF t
<1>7. CASE t <= task.due + s
  <2>1. DueEarlier(b, s)
    BY <1>1, <1>6, <1>7 DEF DueEarlier
  <2> QED
    BY <1>6, <2>1 DEF RoundsCover, EarlierTold
<1>8. CASE ~(t <= task.due + s)
  <2>1. since[b] < task.due /\ task.due + slow < t /\ t <= task.due + Window
    BY <1>1, <1>2, <1>3, <1>4, <1>6, <1>8
  <2>2. ToRemind(b)
    BY <1>6, <2>1 DEF ToRemind
  <2> QED
    BY <1>6, <2>2 DEF RoundsCover, RoundTold
<1> QED
  BY <1>7, <1>8

LEMMA NextEarlierTold ==
  ASSUME JobsInv, JobsInv', Timed, RoundsCover, JNext, RowsGoOn,
         task'.pc # "down"
  PROVE  EarlierTold'
<1>1. Observe
  BY DEF JNext
<1>2. now \in Nat /\ slow \in Nat /\ task.due \in Nat
  BY ClockTypes
<1>3. CASE start /\ task'.due = now
  <2>1. slow' = slow /\ up' = now
    BY <1>1, <1>3 DEF start, Observe
  <2>2. ASSUME NEW b \in BookingIds, NEW s \in Nat, DueEarlier(b, s)' PROVE FALSE
    <3>1. Confirmed(b)' /\ now + s < bookings'[b].start
          /\ bookings'[b].start <= now + s
      BY <1>3, <2>1, <2>2 DEF DueEarlier
    <3>2. bookings'[b].start \in Int
      BY <3>1, NextStart
    <3> QED
      BY <1>2, <3>1, <3>2
  <2> QED
    BY <2>2 DEF EarlierTold
<1>4. CASE /\ commit_job \/ fail_job
           /\ task.job = "booking_overdue" /\ Sleeps(task')
  <2>1. task.pc \in {"clock", "select", "insert"} /\ UNCHANGED <<now, slow>>
    BY <1>4 DEF commit_job, fail_job
  <2> QED
    BY <1>1, <1>4, <2>1, RoundEnds
<1>5. CASE Tick
  <2>1. task' = task
    BY <1>5 DEF Tick
  <2>2. slow' \in Nat /\ slow <= slow'
    <3>1. now' = now + 1 /\ \/ slow' = slow
                            \/ now' > task.due + slow /\ slow' = now' - task.due
      BY <1>5 DEF Tick
    <3> QED
      BY <1>2, <3>1
  <2> QED
    BY <1>1, <2>1, <2>2, StillEarlier DEF RoundsCover
<1>6. CASE SameRound
  <2>1. task.pc # "down" /\ task'.due = task.due /\ slow' = slow
    BY <1>6 DEF SameRound
  <2> QED
    BY <1>1, <1>2, <2>1, StillEarlier DEF RoundsCover
<1> QED
  BY <1>3, <1>4, <1>5, <1>6, RoundStep

LEMMA SlowGrows ==
  ASSUME JobsInv, JNext
  PROVE  slow' \in Nat /\ slow <= slow'
<1>1. now \in Nat /\ slow \in Nat /\ task.due \in Nat
  BY ClockTypes
<1>2. CASE Tick
  <2>1. now' = now + 1 /\ \/ slow' = slow
                          \/ now' > task.due + slow /\ slow' = now' - task.due
    BY <1>2 DEF Tick
  <2> QED
    BY <1>1, <2>1
<1>3. CASE slow' = slow
  BY <1>1, <1>3
<1> QED
  BY <1>2, <1>3
  DEF JNext, Job, read_clock, select_bookings, insert_notice, commit_job,
      fail_job, wake, stop, crash, start

(* The bookings of the round are selected or told while the job runs.      *)
LEMMA NextUnderway ==
  ASSUME JobsInv, JobsInv', Timed, RoundsCover, JNext, RowsGoOn
  PROVE  RoundUnderway'
<1> SUFFICES ASSUME task'.pc = "insert", task'.job = "booking_reminder",
                    NEW b \in BookingIds, ToRemind(b)'
             PROVE  Underway(b)'
  BY DEF RoundUnderway
<1>0. Observe /\ task \in Task /\ slow' \in Nat /\ slow <= slow'
  BY ClockTypes, SlowGrows DEF JNext
<1>1. ASSUME task.pc \in {"select", "insert"}, task'.due = task.due
      PROVE  /\ ToRemind(b)
             /\ SameParties(bookings[b], bookings'[b]) /\ notifs \subseteq notifs'
  BY <1>0, <1>1, StillToRemind
<1>2. CASE select_bookings
  <2>1. /\ ToRemind(b) /\ task.pc = "select"
        /\ task.job = "booking_reminder" /\ task'.due = task.due
    BY <1>0, <1>1, <1>2 DEF select_bookings, Task
  <2>2. InWindow(b)
    <3> DEFINE t == bookings[b].start
    <3>1. /\ now \in Nat /\ slow \in Nat /\ task.due \in Nat /\ task.at \in Nat
          /\ Window \in Nat /\ t \in Int
      BY <2>1, ClockTypes DEF ToRemind
    <3>2. /\ task.due <= task.at /\ task.at <= now /\ now <= task.due + slow
      BY <2>1 DEF Timed
    <3>3. task.due + slow < t /\ t <= task.due + Window /\ Confirmed(b)
      BY <2>1 DEF ToRemind
    <3> HIDE DEF t
    <3>4. t > task.at /\ t <= task.at + Window
      BY <3>1, <3>2, <3>3
    <3> QED
      BY <3>3, <3>4 DEF InWindow, t
  <2>3. b \in task'.rows
    BY <1>0, <1>2, <2>1, <2>2 DEF select_bookings, Task
  <2> QED
    BY <2>3 DEF Underway
<1>3. CASE insert_notice
  <2>1. /\ UNCHANGED <<bookings, notifs>> /\ task.pc = "insert"
        /\ task.job = "booking_reminder" /\ task'.due = task.due
        /\ inserted \subseteq inserted'
    BY <1>0, <1>3 DEF insert_notice, Insert, Task
  <2>2. Underway(b) /\ ToRemind(b)
    BY <1>1, <2>1 DEF RoundsCover, RoundUnderway
  <2> DEFINE c == CustomerNote(b, "booking_reminder")
             p == ProviderNote(b, "booking_reminder")
  <2>3. c' = c /\ p' = p
    BY <2>1 DEF CustomerNote, ProviderNote
  <2>4. CASE task.second # None
    <3>1. Insert(task.second) /\ task'.rows = task.rows
      BY <1>0, <1>3, <2>4 DEF insert_notice, Task
    <3>2. task.second \in notifs' \cup inserted'
      BY <2>1, <3>1 DEF Insert
    <3> QED
      BY <2>1, <2>2, <2>3, <3>1, <3>2 DEF Underway
  <2>5. CASE task.second = None
    <3>1. PICK d \in task.rows :
            /\ Insert(CustomerNote(d, task.job))
            /\ task' = [task EXCEPT !.rows = @ \ {d},
                                    !.second = ProviderNote(d, task.job)]
      BY <1>3, <2>5 DEF insert_notice, CustomerNote, ProviderNote
    <3>2. task'.rows = task.rows \ {d} /\ task'.second = ProviderNote(d, task.job)
      BY <1>0, <3>1 DEF Task
    <3>3. CASE b = d
      <4>1. c \in notifs' \cup inserted' /\ task'.second = p
        BY <2>1, <3>1, <3>2, <3>3 DEF Insert
      <4> QED
        BY <2>3, <4>1 DEF Underway
    <3>4. CASE b # d
      <4>1. CASE b \in task.rows
        BY <3>2, <3>4, <4>1 DEF Underway
      <4>2. CASE b \notin task.rows
        <5>1. c \in notifs \cup inserted /\ p \in notifs \cup inserted
          <6>1. Exists(b) /\ p # None
            BY <2>2, JobNotes DEF ToRemind, Confirmed, JobsInv, Jobs
          <6> QED
            BY <2>2, <2>5, <4>2, <6>1 DEF Underway
        <5> QED
          BY <2>1, <2>3, <5>1 DEF Underway
      <4> QED
        BY <4>1, <4>2
    <3> QED
      BY <3>3, <3>4
  <2> QED
    BY <2>4, <2>5
<1>4. CASE UNCHANGED <<task, inserted>>
  <2>1. /\ Underway(b) /\ SameParties(bookings[b], bookings'[b])
        /\ notifs \subseteq notifs'
    BY <1>1, <1>4 DEF RoundsCover, RoundUnderway
  <2> QED
    BY <1>4, <2>1
    DEF Underway, CustomerNote, ProviderNote, SameParties
<1>5. CASE commit_job \/ fail_job
  <2>1. task'.pc \in {"clock", "sleep"}
    <3>1. NextJob /\ now \in 0..MaxTime
      BY <1>5 DEF commit_job, fail_job, JobsInv, Clocks
    <3> QED
      BY <1>0, <3>1, NextJobTask DEF Sleeps
  <2> QED
    BY <2>1
<1>6. CASE read_clock
  BY <1>0, <1>6 DEF read_clock, Task
<1>7. CASE wake \/ start \/ stop \/ crash
  <2>1. now \in 0..MaxTime /\ task.due \in 0..MaxTime
    BY DEF JobsInv, Clocks, Task
  <2> QED
    BY <1>7, <2>1, StartTask, DownTask DEF wake, start, stop, crash, Ends, Jobs
<1>8. Tick => UNCHANGED <<task, inserted>>
  BY DEF Tick
<1> QED
  BY <1>2, <1>3, <1>4, <1>5, <1>6, <1>7, <1>8 DEF JNext, Job

(* When its reminder job is over, all the bookings of a round are told.    *)
LEMMA NextRoundTold ==
  ASSUME JobsInv, JobsInv', Reliable, Timed, RoundsCover, JNext, RowsGoOn
  PROVE  RoundTold'
<1> SUFFICES ASSUME task'.pc \in {"clock", "select", "insert"},
                    task'.job = "booking_overdue",
                    NEW b \in BookingIds, ToRemind(b)'
             PROVE  BothNoted(b, "booking_reminder")'
  BY DEF RoundTold
<1>0. Observe /\ task \in Task /\ slow' \in Nat /\ slow <= slow'
  BY ClockTypes, SlowGrows DEF JNext
<1>1. CASE /\ task.pc \in {"clock", "select", "insert"}
           /\ task'.due = task.due /\ task.job = "booking_overdue"
  <2>1. /\ ToRemind(b)
        /\ BothNoted(b, "booking_reminder") => BothNoted(b, "booking_reminder")'
    BY <1>0, <1>1, StillToRemind
  <2> QED
    BY <1>1, <2>1 DEF RoundsCover, RoundTold
<1>2. CASE commit_job \/ fail_job
  <2>1. /\ NextJob /\ now \in 0..MaxTime
        /\ task.job = "booking_reminder" => commit_job
    BY <1>2 DEF commit_job, fail_job, Reliable, JobsInv, Clocks
  <2>2. task.job = "booking_reminder" /\ task'.due = task.due
    BY <1>0, <2>1, NextJobTask DEF Sleeps
  <2>3. /\ task.pc = "insert" /\ task.rows = {} /\ task.second = None
        /\ notifs' = notifs \cup inserted /\ bookings' = bookings
    BY <2>1, <2>2 DEF commit_job
  <2>4. ToRemind(b)
    BY <1>0, <2>2, <2>3, StillToRemind
  <2>5. Underway(b)
    BY <2>2, <2>3, <2>4 DEF RoundsCover, RoundUnderway
  <2>6. ProviderNote(b, "booking_reminder") # None
    BY <2>4, JobNotes DEF ToRemind, Confirmed, JobsInv, Jobs
  <2>7. /\ CustomerNote(b, "booking_reminder") \in notifs'
        /\ ProviderNote(b, "booking_reminder") \in notifs'
    BY <2>3, <2>5, <2>6 DEF Underway
  <2> QED
    BY <2>3, <2>7 DEF BothNoted, Noted, CustomerNote, ProviderNote
<1>3. CASE read_clock \/ select_bookings \/ insert_notice
  <2>1. /\ task.pc \in {"clock", "select", "insert"}
        /\ task'.due = task.due /\ task'.job = task.job
    BY <1>0, <1>3 DEF read_clock, select_bookings, insert_notice, Task
  <2> QED
    BY <1>1, <2>1
<1>4. CASE wake \/ start \/ stop \/ crash
  <2>1. now \in 0..MaxTime /\ task.due \in 0..MaxTime
    BY DEF JobsInv, Clocks, Task
  <2> QED
    BY <1>4, <2>1, StartTask, DownTask DEF wake, start, stop, crash, Ends, Jobs
<1>5. CASE UNCHANGED task
  BY <1>1, <1>5
<1>6. Tick => UNCHANGED task
  BY DEF Tick
<1> QED
  BY <1>2, <1>3, <1>4, <1>5, <1>6 DEF JNext, Job

LEMMA NextReminders ==
  JobsInv /\ RemindersInv /\ [JNext]_<<vars, jvars>> => RemindersInv'
<1> SUFFICES ASSUME JobsInv, RemindersInv, [JNext]_<<vars, jvars>>
             PROVE  RemindersInv'
  OBVIOUS
<1>1. Timed' /\ JobsInv' /\ RowsGoOn /\ Timed
  BY NextTimed, NextJobsInv, JobRows DEF RemindersInv
<1>2. CASE JNext
  <2>1. Reliable' <=> Reliable
    BY <1>2 DEF JNext, Reliable
  <2>2. ASSUME Reliable, task'.pc # "down"
        PROVE  EarlierTold' /\ RoundTold' /\ RoundUnderway'
    <3>1. RoundsCover
      BY <2>2 DEF RemindersInv
    <3> QED
      BY <1>1, <1>2, <2>2, <3>1, NextEarlierTold, NextRoundTold, NextUnderway
  <2> QED
    BY <1>1, <2>1, <2>2 DEF RemindersInv, RoundsCover
<1>3. CASE UNCHANGED <<vars, jvars>>
  BY <1>1, <1>3
  DEF vars, jvars, RemindersInv, Reliable, RoundsCover, EarlierTold,
      RoundTold, RoundUnderway, DueEarlier, ToRemind, Underway, Confirmed,
      Exists, BothNoted, Noted, CustomerNote, ProviderNote
<1> QED
  BY <1>2, <1>3

LEMMA InitReminders == JInit => RemindersInv
<1> SUFFICES ASSUME JInit PROVE RemindersInv
  OBVIOUS
<1>1. /\ Init /\ now = 0 /\ task = Start("booking_reminder", 0)
      /\ since = [b \in BookingIds |-> 0] /\ up = 0 /\ slow = 0
  BY DEF JInit
<1>2. /\ task.pc = "clock" /\ task.job = "booking_reminder" /\ task.due = 0
  BY <1>1, StartTask, JobsAssumption DEF Jobs
<1>3. \A b \in BookingIds : ~Confirmed(b)
  BY <1>1 DEF Init, Confirmed, Exists
<1>4. Timed
  BY <1>1, <1>2, JobsAssumption DEF Timed
<1> QED
  BY <1>2, <1>3, <1>4
  DEF RemindersInv, RoundsCover, EarlierTold, RoundTold, RoundUnderway,
      DueEarlier

(* A start that has passed is past the round under way by at most what     *)
(* that may be late, so it was to remind of at an earlier one.             *)
LEMMA AllReminded == JobsInv /\ RemindersInv => RemindedInTime
<1> SUFFICES ASSUME JobsInv, RemindersInv, Reliable,
                    Window >= Interval + 2 * slow, NEW b \in BookingIds,
                    Confirmed(b), task.pc # "down",
                    up + slow < bookings[b].start, now >= bookings[b].start,
                    \/ since[b] < up
                    \/ since[b] < bookings[b].start - (Interval + 2 * slow)
             PROVE  BothNoted(b, "booking_reminder")
  BY DEF RemindedInTime, Reliable
<1>1. /\ now \in Nat /\ slow \in Nat /\ task.due \in Nat
      /\ bookings[b].start \in Int
  BY ClockTypes
<1>2. now <= task.due + slow /\ EarlierTold
  BY DEF RemindersInv, Timed, RoundsCover
<1>3. bookings[b].start <= task.due + slow
  BY <1>1, <1>2
<1>4. DueEarlier(b, slow) /\ slow <= slow
  BY <1>1, <1>3 DEF DueEarlier
<1> QED
  BY <1>1, <1>2, <1>4 DEF EarlierTold

(* No start falls between two runs of the reminder job, an interval and    *)
(* what the rounds took apart, or shifted by a stop or a crash: with a     *)
(* window that is longer than the interval by twice the longest delay of   *)
(* a round, and the job not failing, a booking confirmed in time has its   *)
(* reminder when it starts.                                                *)
THEOREM RemindersComeInTime == JSpec => []RemindedInTime
<1>1. JInit => RemindersInv
  BY InitReminders
<1>2. JobsInv /\ RemindersInv /\ [JNext]_<<vars, jvars>> => RemindersInv'
  BY NextReminders
<1>3. JobsInv /\ RemindersInv => RemindedInTime
  BY AllReminded
<1> QED
  BY <1>1, <1>2, <1>3, JobsInvariant, PTL DEF JSpec

-----------------------------------------------------------------------------
(* What the booking requests guarantee, with the jobs and crashes beside   *)
(* them.                                                                   *)

(* A crash takes all locks and promises with it, a job takes none.         *)
LEMMA JobsKeepLocks ==
  JobsInv /\ RowLocks /\ WaitOrder /\ [JNext]_<<vars, jvars>>
    => RowLocks' /\ WaitOrder'
<1> SUFFICES ASSUME JobsInv, RowLocks, WaitOrder, [JNext]_<<vars, jvars>>
             PROVE  RowLocks' /\ WaitOrder'
  OBVIOUS
<1>1. CASE UNCHANGED <<bookings, pc, txn>>
  <2>1. bookings' = bookings /\ pc' = pc /\ txn' = txn
    BY <1>1
  <2>2. RowLocks'
    BY <2>1 DEF RowLocks, ValidIntervals, Exists, Changing
  <2>3. WaitOrder'
    BY <2>1 DEF WaitOrder, OrderedKeys
  <2> QED
    BY <2>2, <2>3
<1>2. CASE crash
  <2>1. /\ bookings' = bookings
        /\ \A r \in Requests : pc'[r] = "idle" /\ txn'[r] = NoTxn
    BY <1>2 DEF crash
  <2>2. RowLocks'
    BY <2>1 DEF RowLocks, ValidIntervals, Exists, Changing
  <2>3. WaitOrder'
    BY <2>1 DEF WaitOrder, OrderedKeys, Loaded, NoTxn
  <2> QED
    BY <2>2, <2>3
<1>3. CASE [Next]_vars
  BY <1>3, NextRowLocks, NextWaitOrder DEF JobsInv, Base
<1>4. Quiet \/ commit_job => UNCHANGED <<bookings, pc, txn>>
  BY DEF Quiet, vars, commit_job
<1> QED
  BY <1>1, <1>2, <1>3, <1>4, JNextIs

(* Whenever the process dies, and whatever the jobs insert meanwhile: no   *)
(* committed booking is empty or reversed, none has a status its parties   *)
(* were not told of, and no requests wait in a circle.                     *)
THEOREM CrashesLeaveBookingsWhole ==
  JSpec => [](ValidIntervals /\ LifecycleNotified /\ NoWaitCycle)
<1>1. JInit => RowLocks /\ WaitOrder
  BY DEF JInit, Init, RowLocks, ValidIntervals, Exists, Changing, WaitOrder,
         OrderedKeys, Loaded, NoTxn
<1>2. JSpec => [](RowLocks /\ WaitOrder)
  BY <1>1, JobsKeepLocks, JobsInvariant, PTL DEF JSpec
<1>3. RowLocks => ValidIntervals
  BY DEF RowLocks
<1>4. JobsInv => Sessions /\ LifecycleNotified
  BY DEF JobsInv, Base, Promised, LifecycleNotified
<1> QED
  BY <1>2, <1>3, <1>4, OrderedWaits, JobsInvariant, PTL

(* What requests have established outlasts the notices of the jobs, and    *)
(* nothing is left to establish after a crash.                             *)
LEMMA JobsKeepProviders ==
  ASSUME Sessions, ValidIntervals, ProviderInv,
         [PerProviderNext \/ commit_job \/ crash]_vars
  PROVE  ProviderInv'
<1>1. CASE [PerProviderNext]_vars
  BY <1>1, ProviderStep
<1>2. CASE commit_job
  <2>1. bookings' = bookings /\ pc' = pc /\ txn' = txn /\ notifs \subseteq notifs'
    BY <1>2 DEF commit_job
  <2>2. \A q \in Requests : Working(q)'
    BY <2>1, OthersKeepWorking DEF ProviderInv
  <2> QED
    BY <2>1, <2>2 DEF ProviderInv, OneEach, NoOverlap, Contract!NoOverlap
<1>3. CASE crash
  <2>1. bookings' = bookings /\ \A r \in Requests : pc'[r] = "idle"
    BY <1>3 DEF crash
  <2>2. \A q \in Requests : Working(q)'
    BY <2>1 DEF Working, Loaded
  <2> QED
    BY <2>1, <2>2 DEF ProviderInv, OneEach, NoOverlap, Contract!NoOverlap
<1> QED
  BY <1>1, <1>2, <1>3

(* One booking request of a provider at a time keeps the provider's        *)
(* bookings apart although the process dies in the middle of requests and  *)
(* the jobs insert their notices between the statements.                   *)
THEOREM CrashesBookNobodyTwice ==
  JSpec /\ [][PerProviderNext \/ commit_job \/ crash]_vars => []NoOverlap
<1>1. JInit => ProviderInv
  BY ProviderInit DEF JInit
<1>2. JSpec => []ValidIntervals
  BY CrashesLeaveBookingsWhole, PTL
<1>3. JobsInv => Sessions
  BY DEF JobsInv, Base
<1>4. Sessions /\ ValidIntervals /\ ProviderInv
        /\ [PerProviderNext \/ commit_job \/ crash]_vars => ProviderInv'
  BY JobsKeepProviders
<1>5. JSpec /\ [][PerProviderNext \/ commit_job \/ crash]_vars => []ProviderInv
  BY <1>1, <1>2, <1>3, <1>4, JobsInvariant, PTL DEF JSpec
<1>6. ProviderInv => NoOverlap
  BY DEF ProviderInv
<1> QED
  BY <1>5, <1>6, PTL
=============================================================================
