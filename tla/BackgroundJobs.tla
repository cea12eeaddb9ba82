--------------------------- MODULE BackgroundJobs ---------------------------
(***************************************************************************)
(* The scheduler of the API process and its two jobs, against a clock and  *)
(* beside the booking requests.  A job selects bookings at its own moment  *)
(* and inserts two notifications for each in one transaction; requests     *)
(* change the bookings meanwhile.  One process runs the scheduler ("does   *)
(* NOT provide ... multi-process synchronization").                        *)
(*                                                                         *)
(* Time may pass before, between and in any of the task's statements: a    *)
(* job blocks the event loop while it waits for a connection, and the task *)
(* sleeps a full interval after a round, however long that took.  MaxTime  *)
(* stands for every later time.                                            *)
(***************************************************************************)
EXTENDS BookingService

CONSTANTS
  MaxTime,      \* bound on the clock
  Interval,     \* BACKGROUND_JOB_INTERVAL_MINUTES
  Window,       \* BOOKING_REMINDER_MINUTES
  MaxRestarts   \* bound on the restarts of the process

Jobs == {"booking_reminder", "booking_overdue"}

ASSUME JobsAssumption ==
  /\ MaxTime \in Nat /\ MaxRestarts \in Nat
  /\ Interval \in Nat \ {0} /\ Window \in Nat \ {0}
  /\ None \notin Note

VARIABLES
  now,       \* the clock
  task,      \* the scheduler's asyncio task
  inserted,  \* keys the job's transaction inserted, not committed
  since,     \* history: since when a booking is confirmed for this start
  up,        \* history: when the process was started
  slow,      \* history: the longest time past its due that a round was not over
  restarts,  \* how often the process has ended so far
  failing    \* the jobs whose statements may raise in this behaviour

jvars == <<now, task, inserted, since, up, slow, restarts, failing>>

(* The task's next statement, down while there is no process; the job it   *)
(* runs and the time that has read, the bookings selected and still to     *)
(* come to, the provider's notification to insert next, and when the round *)
(* under way, or the next one, was or is due.                              *)
Task == [pc: {"sleep", "clock", "select", "insert", "down"},
         job: Jobs, at: 0..MaxTime,
         rows: SUBSET BookingIds, second: Note \cup {None},
         due: 0..MaxTime]

(* A new session for a job of the round that was due then.                 *)
Start(job, due) == [pc |-> "clock", job |-> job, at |-> 0, rows |-> {},
                    second |-> None, due |-> due]

JInit ==
  /\ Init
  /\ now = 0
  /\ task = Start("booking_reminder", 0)
  /\ inserted = {}
  /\ since = [b \in BookingIds |-> 0]
  /\ up = 0
  /\ slow = 0
  /\ restarts = 0
  /\ failing \in SUBSET Jobs

-----------------------------------------------------------------------------
(* The jobs.                                                               *)

Confirmed(b) == Exists(b) /\ bookings[b].status = "confirmed"

(* Slip: the end of the window is left out.                                *)
InWindowOpen(b) ==
  /\ Confirmed(b)
  /\ bookings[b].start > task.at
  /\ bookings[b].start < task.at + Window

(* The WHERE clause of the reminder job.                                   *)
InWindow(b) ==
  /\ Confirmed(b)
  /\ bookings[b].start > task.at
  /\ bookings[b].start <= task.at + Window

(* Slip: a booking nobody confirmed is overdue as well.                    *)
OverdueIfActive(b) ==
  Exists(b) /\ bookings[b].status # "cancelled" /\ bookings[b].end < task.at

(* The WHERE clause of the overdue job.                                    *)
Overdue(b) == Confirmed(b) /\ bookings[b].end < task.at

(* datetime.now(), before the session has asked for a connection.          *)
read_clock ==
  /\ task.pc = "clock"
  /\ task' = [task EXCEPT !.pc = "select", !.at = now]
  /\ UNCHANGED <<now, slow, inserted, restarts>>
  /\ UNCHANGED vars

(* The SELECT, of what is committed when it runs.                          *)
select_bookings ==
  /\ task.pc = "select"
  /\ task' = [task EXCEPT
                !.pc = "insert",
                !.rows = {b \in BookingIds :
                            IF task.job = "booking_reminder"
                            THEN InWindow(b) ELSE Overdue(b)}]
  /\ UNCHANGED <<now, slow, inserted, restarts>>
  /\ UNCHANGED vars

(* Slip: every INSERT is committed by itself.                              *)
InsertAutocommit(key) == notifs' = notifs \cup {key} /\ UNCHANGED inserted

(* create_notification: the requests insert other types, so the key of a   *)
(* job is never one it must wait for.                                      *)
Insert(key) ==
  /\ inserted' = IF key \in notifs THEN inserted ELSE inserted \cup {key}
  /\ UNCHANGED notifs

(* For each selected booking the customer's notification, then the         *)
(* provider's; SELECT returns the bookings in no particular order.         *)
insert_notice ==
  /\ task.pc = "insert"
  /\ \/ /\ task.second = None
        /\ \E b \in task.rows :
             /\ Insert(NoteFor(bookings[b].customer, b, task.job))
             /\ task' = [task EXCEPT
                           !.rows = @ \ {b},
                           !.second = NoteFor(bookings[b].provider, b, task.job)]
     \/ /\ task.second # None
        /\ Insert(task.second)
        /\ task' = [task EXCEPT !.second = None]
  /\ UNCHANGED <<now, slow, restarts, bookings, pc, txn>>

(* asyncio.sleep(interval), from now on.                                   *)
Asleep ==
  LET due == IF now + Interval < MaxTime THEN now + Interval ELSE MaxTime
  IN  [Start("booking_reminder", due) EXCEPT !.pc = "sleep"]

(* Slip: an exception ends the round.                                      *)
EndRound == task' = Asleep

(* The reminder job is followed by the overdue job, that one by the sleep. *)
NextJob ==
  task' = IF task.job = "booking_reminder"
          THEN Start("booking_overdue", task.due) ELSE Asleep

commit_job ==
  /\ task.pc = "insert" /\ task.rows = {} /\ task.second = None
  /\ notifs' = notifs \cup inserted
  /\ inserted' = {}
  /\ NextJob
  /\ UNCHANGED <<now, slow, restarts, bookings, pc, txn>>

(* _run_single_job logs the exception and closes the session.              *)
fail_job ==
  /\ task.job \in failing
  /\ task.pc \in {"clock", "select", "insert"}
  /\ inserted' = {}
  /\ NextJob
  /\ UNCHANGED <<now, slow, restarts>>
  /\ UNCHANGED vars

(* asyncio.sleep returns, as soon as the event loop is free.               *)
wake ==
  /\ task.pc = "sleep"
  /\ now >= task.due
  /\ task' = Start("booking_reminder", task.due)
  /\ UNCHANGED <<now, slow, inserted, restarts>>
  /\ UNCHANGED vars

-----------------------------------------------------------------------------
(* The process and its lifespan.                                           *)

Down == [Start("booking_reminder", 0) EXCEPT !.pc = "down"]

Ends ==
  /\ restarts < MaxRestarts
  /\ restarts' = restarts + 1
  /\ task' = Down

(* Shutdown: uvicorn lets the requests finish before scheduler.stop()      *)
(* cancels the task, which can only be in its sleep then.                  *)
stop ==
  /\ task.pc = "sleep"
  /\ \A r \in Requests : pc[r] = "idle"
  /\ Ends
  /\ UNCHANGED <<now, slow, inserted>>
  /\ UNCHANGED vars

(* The process dies; PostgreSQL rolls its transactions back.               *)
crash ==
  /\ task.pc # "down"
  /\ Ends
  /\ inserted' = {}
  /\ pc' = [r \in Requests |-> "idle"]
  /\ txn' = [r \in Requests |-> NoTxn]
  /\ UNCHANGED <<bookings, notifs, now, slow>>

(* Slip: the first round waits for an interval.                            *)
StartAsleep ==
  /\ task.pc = "down"
  /\ task' = Asleep
  /\ UNCHANGED <<now, slow, inserted, restarts>>
  /\ UNCHANGED vars

(* scheduler.start() of a new process: the jobs run at once.               *)
start ==
  /\ task.pc = "down"
  /\ task' = Start("booking_reminder", now)
  /\ UNCHANGED <<now, slow, inserted, restarts>>
  /\ UNCHANGED vars

(* Time passes, whatever the task does.                                    *)
Tick ==
  /\ now < MaxTime
  /\ now' = now + 1
  /\ slow' = IF task.pc # "down" /\ now' > task.due + slow
             THEN now' - task.due ELSE slow
  /\ UNCHANGED <<task, inserted, restarts>>
  /\ UNCHANGED vars

(* The history variables.                                                  *)
Observe ==
  /\ since' = [b \in BookingIds |->
                 IF /\ Confirmed(b) /\ Confirmed(b)'
                    /\ bookings[b].start = bookings'[b].start
                 THEN since[b] ELSE now]
  /\ up' = IF task.pc = "down" THEN now ELSE up

Job == read_clock \/ select_bookings \/ insert_notice \/ commit_job

JNext ==
  /\ \/ Job
     \/ fail_job
     \/ wake
     \/ stop \/ crash \/ start
     \/ Tick
     \/ /\ task.pc # "down"
        /\ Next
        /\ UNCHANGED <<now, slow, task, inserted, restarts>>
  /\ Observe
  /\ UNCHANGED failing

JSpec == JInit /\ [][JNext]_<<vars, jvars>>

(* The event loop resumes the task, time passes, and docker restarts the   *)
(* process.  Nothing is asked of the statements of a failing job: each of  *)
(* them may raise every time.                                              *)
JFairSpec ==
  /\ JSpec
  /\ WF_<<vars, jvars>>(/\ Job \/ wake \/ Tick \/ start
                       /\ Observe
                       /\ UNCHANGED failing)

-----------------------------------------------------------------------------
JTypeOK ==
  /\ TypeOK
  /\ now \in 0..MaxTime
  /\ task \in Task
  /\ inserted \subseteq Note
  /\ since \in [BookingIds -> 0..MaxTime]
  /\ up \in 0..MaxTime
  /\ slow \in 0..MaxTime
  /\ restarts \in 0..MaxRestarts
  /\ failing \subseteq Jobs

Noted(user, b, type) == NoteFor(user, b, type) \in notifs

BothNoted(b, type) ==
  Noted(bookings[b].customer, b, type) /\ Noted(bookings[b].provider, b, type)

(* "Creates ... notifications for both customer and provider": whatever    *)
(* fails between the two, no party is ever told alone.                     *)
BothOrNone ==
  \A b \in BookingIds, type \in Jobs :
    Exists(b) =>
      (Noted(bookings[b].customer, b, type)
         <=> Noted(bookings[b].provider, b, type))

(* "PENDING bookings are NEVER processed as overdue", nor is anybody       *)
(* reminded of one: the customer had been told of a confirmation first.    *)
NoticeAfterConfirmation ==
  \A b \in BookingIds, type \in Jobs :
    Exists(b) /\ NoteFor(bookings[b].customer, b, type) \in notifs \cup inserted
      => /\ bookings[b].status # "pending"
         /\ Noted(bookings[b].customer, b, "booking_confirmed")

(* No start falls between two runs of the reminder job, be they an         *)
(* interval and what the rounds took apart, or shifted by a stop or crash. *)
(* As long as every round has ended at most slow after it was due, and the *)
(* window is longer than the interval by twice that, a booking has its     *)
(* reminder when it starts, if the process came up early enough for one    *)
(* round, the job does not fail, and the booking was confirmed for this    *)
(* start before the process came up, or early enough for any round.        *)
(* (After a move it may be the reminder of an earlier start: the key is    *)
(* taken.)                                                                 *)
RemindedInTime ==
  "booking_reminder" \notin failing /\ Window >= Interval + 2 * slow =>
    \A b \in BookingIds :
      /\ Confirmed(b)
      /\ task.pc # "down" /\ up + slow < bookings[b].start
      /\ now >= bookings[b].start
      /\ \/ since[b] < up
         \/ since[b] < bookings[b].start - (Interval + 2 * slow)
      => BothNoted(b, "booking_reminder")

(* A booking that stays overdue is noticed in the end unless the overdue   *)
(* job fails; that the reminder job fails every time changes nothing.      *)
OverdueIsNoticed ==
  \A b \in BookingIds :
    (<>[](/\ Confirmed(b) /\ bookings[b].end < now
          /\ "booking_overdue" \notin failing))
      => <>(Exists(b) /\ BothNoted(b, "booking_overdue"))
=============================================================================
