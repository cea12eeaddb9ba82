# Verification of the booking service

TLA+ models of the service-booking backend in `src/`, the TLC runs that check
them and the theorems TLAPS proves about them. Users book slots of service
providers over a FastAPI interface backed by PostgreSQL; reviews are summarised
by worker processes fed through Redis; a scheduler inside the API process sends
reminders.

```
tlc -workers 2 -config MCBooking_races.cfg MCBooking     # a run of the table below
for m in *Proofs.tla; do tlapm $m; done                  # the proofs
```

## 1. The system

### Components

| component | code | state | operations |
|---|---|---|---|
| Booking rules | `services/booking_service.py:18-158`, `services/provider_service.py:57` | none | status machine, role table, overlap query, authorisation tests |
| Booking requests | `services/booking_service.py`, `api/v1/bookings.py`, `db/session.py` | table `bookings`, one session and transaction per request | create, update (status, times or both), cancel, delete (a soft cancel); reads |
| Notifications | `services/notification_service.py`, `models/notification.py` | table `notifications`, unique per user, booking and type; `is_read`, `read_at` | insert with ON CONFLICT DO NOTHING, mark one or all as read, list, count |
| Reviews | `services/review_service.py` | table `reviews`, unique per booking | create, update, delete; reads |
| Review summaries | `services/review_summary_service.py`, `workers/review_worker.py`, `core/redis.py` | a list and a record per job in Redis; the worker's local copy, its `_running` flag | enqueue, poll a job; start, loop, graceful stop of a worker |
| Background jobs | `jobs/booking_jobs.py` | none of their own | reminders for bookings that start within a day, notices for overdue ones |
| Scheduler, lifespan | `jobs/scheduler.py`, `main.py` | an asyncio task and a flag | start, stop, the loop |
| Connection pool | `db/session.py` | pooled connections | check out, check in, wait |
| Accounts | `services/auth_service.py`, `schemas/auth.py`, `api/deps.py` | table `users`, unique by address | register, log in, current user |
| Migrations | `alembic/env.py`, `alembic/versions/`, `docker-compose.yml` | the schema, `version_num` | three revisions up and down; the upgrade at every start of the API |
| Directory, health, HTTP layer, configuration | rest of `app/` | none | reads and wiring |

### Interaction

Endpoints are plain `def` functions, so each request runs on a thread of the
server's pool with a session of its own: one READ COMMITTED transaction, without
autoflush, without `FOR UPDATE`. Requests meet in the database only: in rows
that another request changes between a SELECT and the UPDATE decided on it, in
unique keys that make an INSERT wait, and in row locks. Changes of status insert
notifications in the same transaction. Background jobs do the same from the
event loop. The review API and the workers meet in Redis, where each command is
atomic and no two are; workers read the reviews the API writes.

### What is hard, and what makes each component correct

- *Bookings.* Decisions are taken on a loaded copy and written by primary key.
  Correct means: a provider is never booked twice for one instant; a terminal
  booking stays as it is; no stored interval is empty; a stored status always
  comes with its notifications, and a rejected change leaves none; requests
  never wait for each other in a circle and each is answered.
- *Review summaries.* Two Redis commands where the code needs one, retried
  commands that had been executed, a job that exists only in a worker's memory.
  Correct means: an accepted job can be polled at once, is worked on once, goes
  forward only, is never lost, by a graceful stop neither, and ends; nobody works on
  a refused one; a result is never older than its request.
- *Reviews.* Correct means: a review is of a completed booking, there is one per
  booking though two are sent at once, a deleted one stays deleted although a
  slower request had loaded it.
- *Read state of notifications.* `read-all` waits for rows it picked earlier; it
  must neither write again what another request marked nor miss what that one
  gave up. A `read_at` once set should stay.
- *Background jobs.* Rows change between the selection and the notices; runs are
  an interval apart and what a round took, for the sleep begins when the round is over,
  and they shift with a stop, a crash and the time until the next start. Correct means:
  both parties are told or none, nobody is reminded of what was never confirmed, no
  start falls between two runs, one failing job does not stop the other.
- *Paging.* Pages are queries of their own. Correct means: whoever pages to the end
  has seen every row there was at the start.
- *Accounts.* The address is looked up and inserted by two statements, in whatever
  spelling it comes. Correct means: one account per address, a 409 only when there
  is one, and a login for everyone who was told 201.
- *Migrations.* The API container upgrades at every start, an operator may run
  alembic at the same time, and either may die. Correct means: `version_num` says
  what the schema is, revisions can be reverted and applied again over any rows,
  the API comes up.
- *Scheduler and pool.* Jobs block the event loop that must also close the
  sessions holding the connections the jobs wait for; requests keep a connection
  while they wait for a thread. Correct means: no connection is lost, every request
  ends, the loop goes on.

`PROJECT.json` lists each of these hazards at its line with the property that
would catch it.

## 2. Modules

| module | models | depends on |
|---|---|---|
| `BookingRules` | constants, row types, status machine, overlap query, authorisation, notifications of a change | |
| `BookingContract` | the abstract specification: one atomic step per accepted request | `BookingRules` |
| `BookingService` | the requests as transactions | `BookingRules`, instance of `BookingContract` |
| `MCBooking` | request bodies for TLC | `BookingService` |
| `ReviewService` | review requests, beside the booking requests | `BookingService` |
| `MCReviews` | both together for TLC | `ReviewService`, `MCBooking` |
| `BackgroundJobs` | clock, scheduler task, both jobs, restarts, beside the booking requests | `BookingService` |
| `MCJobs` | request bodies for TLC | `BackgroundJobs`, `MCBooking` |
| `NotificationReads` | read state of one user's notifications | |
| `NotificationPages` | a client that pages through them meanwhile | `NotificationReads` |
| `MCNotifications` | creation times for TLC | `NotificationPages` |
| `RequestPool` | event loop, threads, pooled connections | |
| `SummaryContract` | the abstract specification of the queue: one line, each job taken once and by one worker, statuses that go forward | |
| `SummaryQueue` | API, Redis, workers | instance of `SummaryContract` |
| `Accounts` | registrations as transactions, login | |
| `Migrations` | schema, revisions, alembic processes | |

The proofs about a component are in a module of their own, which extends it:

| module | depends on |
|---|---|
| `BookingServiceProofs` | `BookingService` |
| `ReviewServiceProofs` | `ReviewService`, `BookingServiceProofs` |
| `BackgroundJobsProofs` | `BackgroundJobs`, `BookingServiceProofs` |
| `NotificationPagesProofs`, `RequestPoolProofs` | `NotificationPages`, `RequestPool`; FiniteSetTheorems |
| `SummaryQueueProofs`, `AccountsProofs`, `MigrationsProofs` | `SummaryQueue`, `Accounts`, `Migrations` |

`ReviewService` and `BackgroundJobs` compose with `BookingService`: their steps
leave its variables alone or share its tables, and its `Next` runs interleaved
with them. `NotificationPages` adds a client to `NotificationReads`. That group,
`RequestPool`, `SummaryQueue`, `Accounts` and `Migrations` look at state the booking
rules do not depend on, and stand alone.

An operator whose comment starts with "Slip" is a plausible mistake in the
definition that follows it. No specification uses one; `PROJECT.json` pairs each
with the property it would break.

### `BookingService` and the code

`bookings` and `notifs` are the committed tables. `txn[r]` is the session of
request `r`: the row as loaded (`old`), its attributes as the code has set them
(`new`), notifications still to insert (`todo`), keys inserted and not committed
(`held`). `pc[r]` names the next statement:

```
 idle --create_booking--> insert --insert_booking--> idle
 idle --update/cancel/delete_booking--> [notify]* --> [check] --> flush --> commit --> idle
              any statement may end in Abort; check and flush may end in Rollback
```

| action | code |
|---|---|
| `create_booking`, `insert_booking` | validation and conflict query; then `add`, notification, `commit` |
| `update_booking`, `cancel_booking`, `delete_booking` | load, authorise, validate, set attributes: everything before the first write |
| `create_notification` | `INSERT ... ON CONFLICT DO NOTHING`; waits while another transaction holds the key |
| `check_provider_conflict` | the merged interval and the conflict query of a move |
| `Flush` | the UPDATE sent by `commit()`: waits for the row lock, checks `end_time > start_time` |
| `Commit` | changed columns are merged into the newest row, keys become visible |
| `Rollback`, `Abort` | `rollback()`, and `close()` in `get_db`; the latter at any point |

A request that is refused before it writes changes nothing and has no action.
`Merge` is what SQLAlchemy's UPDATE does: columns equal to the loaded value are
not named in it. The SELECTs of the conflict query and of the load run on the
committed tables of their moment, as READ COMMITTED statements do. One
`create_booking` step covers the load of the provider and the conflict query;
providers never change, so the two cannot be told apart. `insert_booking` covers
INSERTs and COMMIT: its keys are fresh, so no other request can meet it half way.
Foreign keys are not modelled: nothing deletes a row they point to.
`validate_booking_rules` and `validate_time_range` are the validators of the schemas;
a body that fails one gets 422 before the handler runs.

### `ReviewService` and the code

`reviews` is the committed table, `drawn` counts the ids drawn, `rpc[q]` and
`rtxn[q]` are a review request and its session. `create_review` ends with the
check of the booking, `existing_review` is the existence query, `insert_review` the
INSERT with its unique index, `flush_review` the UPDATE or DELETE by primary key,
`commit_review` the COMMIT. Between INSERT, UPDATE or DELETE and COMMIT a request
holds the key or row it wrote (`Pending`). An UPDATE that finds its row gone is an
error (SQLAlchemy's StaleDataError); a DELETE that does is not. `overwritten` is
history: the bookings whose completion a request has undone that had loaded them
before (`Overwrites`). `ReviewedIsCompleted` excepts these; a step of any other kind that
left a review without its completed booking would break it.

### `BackgroundJobs` and the code

`task` is the asyncio task: `read_clock` is the `datetime.now()` before the session
has a connection, `select_bookings` the SELECT of the job, `insert_notice` one
`create_notification`, `commit_job` the COMMIT, `fail_job` the `except` of
`_run_single_job`, `Asleep` the sleep of a full interval from the end of the round on,
`wake` its end, at any time after that. `inserted` are the keys of the open
transaction. The process ends by `stop` or `crash` and comes back by `start`, at any
later time: `pc = "down"` until then, and no request runs. uvicorn lets the requests
finish before the lifespan stops the scheduler, and the jobs do not await, so `stop`
finds no request and a sleeping task; a crash ends everything where it is. `since`,
`up` and `slow` are history variables: since when a booking is confirmed for its
present start, when the process came up, and the longest time past its due that a
round was not over; `failing`, constant in a behaviour, names the jobs whose
statements may raise. Time passes between any two statements (`Tick`), in a round as
between rounds: a job blocks the event loop as long as it waits for a connection, and
its statements take what they take. So rounds are due an interval after the last one
ended, and end `slow` late at most by definition of `slow`; `RemindedInTime` says how
much longer than the interval the window must be for that. At `MaxTime` the clock
stands for every later time.

### `NotificationReads` and the code

`read_at[n]` is a committed row; `is_read` is always written with it. A single mark
is load and test, UPDATE, COMMIT; `read-all` is the clock reading, a snapshot
(`begin_update`), one row after the other (`visit_row`, in any order: there is no
ORDER BY) and COMMIT. After waiting for a row the bulk UPDATE tests NOT is_read
again, as READ COMMITTED does; the UPDATE by primary key has no such test.

`create_notification(t)` commits all notifications of the transaction that began at
`t`, which is their `created_at`. In `NotificationPages`, `list_notifications` is one
page: the rows the query selects, in an order that `Before` allows. The client goes
on by `Limit` until a page is short.

### `RequestPool` and the code

`at[r]` says whether a request waits for a thread, for a connection, or for its
session to be closed; `job` is the job that has the event loop; `free` the pool. A
request has a current user, and a connection from then on, or has none (register,
login). It is refused (`reject`); or its endpoint commits and refreshes (most), commits
without a refresh (`delete_booking`, `delete_review`, `mark_all_as_read`), rolls back and
raises, or returns or raises with its transaction open (`run_endpoint`); a refresh that
raises is rolled back (`end_refresh`). What reaches `close` is "answered" with its
connection or "released" without. `time_out` is the pool's own timeout. The
thread pool, the pool of connections and its timeout are library code, modelled
from how `deps.py`, `session.py` and `scheduler.py` use them: sync dependencies and
endpoints on a bounded pool, one connection per session from its first statement to
`commit()` or `close()`, the jobs on the loop itself.

### `SummaryQueue` and the code

`record[j]` is the Redis key of a job, `queue` the list, `caller[j]` the progress
of the enqueuing request, `worker[w]` a worker's statement and its local
`current_data`. One action per Redis command or SQL query. `faults`, one of the
sets in `FaultSets` and constant in a behaviour, says which failures it may meet:

| fault | code |
|---|---|
| `api_down`, `api_lost` | a command of the API fails; or is executed and its reply lost (`retry_on_timeout` then sends it again, which doubles an RPUSH) |
| `worker_redis`, `pop_lost` | the same for a worker's commands; for the reply of BLPOP |
| `database` | a query raises: the `except` branch stores `failed` |
| `crash` | the worker process dies |
| `sigterm` | a signal sets `_running` to false: `handle_signal`; the job at hand is finished, `stop_worker` ends the loop |
| `expiry` | a key is older than its TTL |

Reviews are written and deleted at any time, between the two queries of a job as well
(`ReviewChange`). `seen[j]` is history: the numbers of reviews there were since job `j` was
asked for.

Whatever ended a worker, `start_worker` starts one: docker-compose says `restart:
unless-stopped`. `SummaryContract` sees of all this a line, the jobs taken, the jobs
that are over and the status a poll would answer; `KeepsQueueContract` maps the
state to these and asks that every step be one of the contract or none of its
variables' business.

### `Accounts` and the code

`pc[r]` is the next statement of a registration or its answer, `inserted[r]` the row it
inserted and has not committed. `register_user` is the query, `insert_user` the INSERT
that `commit()` flushes: it waits while another transaction has its key (`Pending`) and
is an IntegrityError, hence a 409, when the key is committed (`Taken`). `abort` is a
failure at any statement, the one of `refresh()` after the COMMIT included. An address
is an address proper and one of several `Forms`; `normalize_email` leaves one form, the
index tells forms apart, `get_user_by_email` does not. A login is the operator
`authenticate_user`: it reads only.

### `Migrations` and the code

A revision is the sequence of its statements; indexes of one table are one object. A
process (`run`) reads `version_num` (`from`) and goes one revision up or down until it
is at `to`, all in the one transaction of `env.py`: `stamp` is the version it has set,
`next` the statement of the revision at hand, `new` and `gone` what it created and
dropped, `held` the objects its statements locked. `Refused` is what PostgreSQL and
alembic answer with an error: an object is there already, is missing, or is referred
to; a NULL under a new NOT NULL; a stamp that finds another `version_num`. Errors and
deaths roll everything back. `upgrade_head` is the command of the API container, which
serves after it (`pc = "done"`) and starts again after an error; `command` is any
upgrade or downgrade by hand. `raced` is history: did another process run beside this
one. Enum types are objects of their own: dropping a table leaves them.

## 3. Runs

| run | question | result |
|---|---|---|
| `booking_races` | two requests of any user, any body, on one booking: `ValidIntervals`, `LifecycleNotified`, `NoWaitCycle`, `RequestsEnd` | hold under `FairSpec` |
| `booking_provider` | two requests, never both about one provider, those about two providers interleaved: `KeepsContract`, the refinement of `BookingContract`, whose steps neither overlap nor touch a terminal booking | holds |
| `booking_overlap` | `NoOverlap` with two creations at once | violated |
| `booking_final` | `TerminalIsFinal` with a cancellation and a confirmation at once | violated |
| `reviews` | two review requests that wait for each other's rows and keys, beside two booking requests of which one may undo what the other completed: `OneReviewPerBooking`, `ReviewedIsCompleted`, `DeletedStaysDeleted`, `ReviewRequestsEnd` | hold under `RFairSpec` |
| `jobs_notices` | rounds of any duration, none, one or both jobs failing at will, a stop or crash and any time down, moves: `BothOrNone`, `NoticeAfterConfirmation`, `RemindedInTime`, `OverdueIsNoticed` | hold under `JFairSpec` |
| `reads_waits` | three notifications, two readers that wait and deadlock, a client that pages: `BulkNeverOverwrites`, `AllMarked`, `PagingMissesNothing`, `ReadersEnd` | hold under `PFairSpec` |
| `reads_final` | `ReadAtIsFinal` | violated |
| `pool_closed` | three requests, refused or ended in any of the ways above, and the jobs, two threads, one connection: `NoLeak`, `RequestsAreClosed`, `LoopResumes` | hold under `FairSpec` |
| `summary_jobs` | three sets of faults, two jobs, two workers: `QueuedIsVisible`, `NothingLost`, `RefusedIsInert`, `SummaryIsFresh`, `KeepsQueueContract` (the steps of `SummaryContract`), `AcceptedIsAnswered` (for good) | hold under `FairSpec` |
| `accounts` | three registrations, two addresses in two forms: `OneAccountPerAddress`, `AnswersAreTrue`, `RegistrationsEnd` | hold under `FairSpec` |
| `migrations` | the API's upgrades, three commands of an operator, two deaths, two users: `VersionTellsDatabase`, `FailsOnlyByRace`, `ApiServes` | hold under `FairSpec` |

Passing runs also check the type invariant of their module. The three sets of
`summary_jobs` are those its properties tell apart: doubled pushes and failed queries,
with which two workers write to one record (`AcceptedIsAnswered`: what they leave in it
in the end is an answer); graceful stops and failed queries, which no job may
be lost to (`NothingLost`) nor keep from its place in the line (`KeepsQueueContract`);
every fault but doubled pushes and signals, expiry included (`RefusedIsInert`,
`KeepsQueueContract`). The first two sets are asked for `QueuedIsVisible`, all three for
`SummaryIsFresh`. Doubled pushes beside crashes or lost replies of the workers are not
run: the states are too many. The theorems of section 4 hold for any sets.

**Bounds.** Two requests suffice for a lost update, a stale decision and a wait for
each other. One booking is enough where the property is about one row; two bookings
for overlap. Three instants give adjacent, nested and equal slots. In
`booking_provider` a second provider is there to be a stranger to a booking, to book
the first as a customer, and to have a request about it run between the statements of
one about the first; bodies change a status or the end of a slot, or both. One user
per role otherwise: what the rules ask is only whether the caller is a party. Two jobs
and two workers give every order of two deliveries; a doubled push makes a third entry
of the list. Two review requests are one that holds a row or a key and one that waits
for it; two ids are an old and a new review of one booking; two booking requests are
one that completes the booking and one that had loaded it before and overwrites that,
before or after it is reviewed. The jobs' slots are from 2 to 3, overdue when the
clock ends at 4, and from 4 to 5, which starts then, or at 3 when it is put forward.
An interval of 1 and a window of 3 are the tightest case the premise of
`RemindedInTime` allows with a round one unit late. One restart shifts the runs. Two
notifications are of one transaction, the third is older or newer than what is
committed before it, and a page holds one row: every row is at the edge of a page.
Three registrations are one that holds a key, one that waits for it and one that asks
later. Three commands take the schema down, up and down again in any steps, with the
API's own upgrades between them, and two users are one from before the column and one
from after it. One connection and two threads are the smallest pool in which waiters
can fill the threads. `BookingIds` bounds the table, `MaxReviews` of `ReviewService`
the reviews ever written, `MaxClock` the readings of a clock, `MaxRestarts` the ends
of the process, `MaxCommands` and `MaxCrashes` what an operator does and how often an
alembic process or the API dies, `Jobs` the calls of `/reviews/summarize`,
`MaxReviews` of `SummaryQueue` the reviews at one time. Only `booking_provider` uses
symmetry, of the two requests: it checks steps, which a permutation of requests keeps;
nearly all the others check liveness.

`CHECK_DEADLOCK FALSE` everywhere: when every id is drawn and every booking is
terminal, or every job has ended, the bounded system does stop. Requests that
wait for each other are a deadlock of the database, not of the specification,
and are what `NoWaitCycle` and `RequestsEnd` exclude.

**Fairness.** Weak fairness on statements that wait for nothing: the thread pool runs
every thread. Strong fairness on `create_notification` and `Flush`, which wait for a
key or a row: PostgreSQL queues the waiters of a lock and wakes them, so a statement
that is enabled again and again does run; other requests may take and release the lock
meanwhile. Nothing is assumed of arrivals, aborts or faults. The same holds for review
requests and readers; there, PostgreSQL's deadlock detection is fair as well
(`deadlock_victim`), for two bulk updates can deadlock. In `BackgroundJobs` the event
loop resumes the task and time passes; nothing is asked of a job that may fail; docker
starts the process again. In `RequestPool` the timeouts are fair: they are real time,
and are what ends a starvation; the loop and both queues serve their waiters in order.
In `SummaryQueue` docker starts a worker that has ended and a worker goes on with its
job (weak fairness); a worker that polls again and again, however often it is stopped
in between, is served (strong fairness of `blpop`); failures, signals and the API are
not fair: an accepted job is one whose request has already gone through. Registrations
are strongly fair: PostgreSQL wakes who waits for a key. Alembic processes run, the
container is started again after an error, and PostgreSQL ends one of two processes
that wait for each other (weak fairness); commands and deaths are not fair, and
bounded.

### Divergences the runs show

1. `booking_overlap`: `create_booking` queries and inserts with no lock between;
   two creations are both stored. `DESIGN_NOTE.md:28` promises `SELECT ... FOR
   UPDATE`.
2. `booking_final`: a status is validated on the loaded row and written by
   primary key; a booking one request cancels, another that had loaded it
   pending stores as confirmed. `booking_service.py:320` says "Prevent modifications to
   terminal bookings".
3. `reads_final`: two requests that loaded a notification unread both set `read_at`
   (`notification_service.py:80`, "idempotent if already read").

Others follow from the definitions without a run of their own. Through 2 a
review may be of a booking that is cancelled or confirmed again (`README.md:47`: "One
review per completed booking"): the exception of `ReviewedIsCompleted`, which fails
without it in `reviews`. And `create_booking` accepts any user as the customer
while `Authorized` wants the role `customer` of them, so a provider that booked
another provider may not read the booking (`api/v1/bookings.py:87`). `review_count` and
`rating_distribution` come from two snapshots, so the "Total number of reviews" may not
be the sum of the "Count of reviews per rating bucket"
(`schemas/review_summary.py:24,29`); `SummaryIsFresh` says what is left: each was true
at some moment after the request. There is no
PgBouncer, and requests keep a connection while they wait for a thread, so threads and
connections can starve each other (`DESIGN_NOTE.md:28` says that is prevented);
`pool_closed` shows that the pool's timeouts end it, at the price of errors. Revision 2
adds its column and makes it NOT NULL in one transaction, where `DESIGN_NOTE.md:22`
wants new columns nullable while instances run. An `unread_only` client that marks what
it reads skips rows by its offset, which `PagingMissesNothing` excepts.

`booking_provider` is the other side of 1 and 2: while no two requests are about one
provider the contract is kept, so concurrency about one provider is all that breaks it,
and requests about different providers never have to wait for each other.

## 4. Proofs

Every safety property a passing run checks, state or step, is a theorem here: TLC
shows it on the instance of the run, the theorem for every value of the constants. Both
refinements are theorems too. `PROJECT.json` lists them with what each establishes.

| of | theorems |
|---|---|
| `BookingService` | `TypeCorrect`, `SessionsInvariant`, `IntervalsStayValid` (`ValidIntervals`), `EveryStatusIsTold` (`LifecycleNotified`), `NobodyWaitsInACircle` (`NoWaitCycle`) |
| the same, one request of a provider at a time | `ProviderInvariant`, `RequestsKeepContract` (`PerProviderSpec => KeepsContract`), `NobodyIsBookedTwice` (`PerProviderSpec => []NoOverlap`), `FinishedStaysFinished` (`PerProviderSpec => TerminalIsFinal`) |
| `ReviewService` | `ReviewsInvariant`, `ReviewsTypeCorrect`, `BookingsAreReviewedOnce` (`OneReviewPerBooking`), `DeletionsLast` (`DeletedStaysDeleted`), `ReviewsLeaveBookings` (`RSpec => Spec`), `ReviewsAreOfCompletedBookings` (`ReviewedIsCompleted`), `ReviewsFollowCompletion`, `ReviewsAreSafePerProvider` (both: every review is of a completed booking) |
| `BackgroundJobs` | `JobsInvariant`, `JobsTypeCorrect`, `NobodyIsToldAlone` (`BothOrNone`), `ToldOfConfirmationFirst` (`NoticeAfterConfirmation`), `RemindersComeInTime` (`RemindedInTime`), `CrashesLeaveBookingsWhole` (`ValidIntervals`, `LifecycleNotified` and `NoWaitCycle` under `JSpec`), `CrashesBookNobodyTwice` (`NoOverlap`) |
| `NotificationPages` | `PagesTypeCorrect`, `BulkSparesReadAt` (`BulkNeverOverwrites`), `BulkMarksAll` (`AllMarked`), `PagingReachesEverything` (`PagingMissesNothing`) |
| `RequestPool` | `PoolTypeCorrect`, `ConnectionsAreKept` (`NoLeak`) |
| `SummaryQueue` | `QueueInvariant`, `QueueTypeCorrect`, `ListedHasRecord` (`QueuedIsVisible`), `AcceptedIsKept` (`NothingLost`), `RefusedIsLeftAlone` (`RefusedIsInert`), `SummariesAreFresh` (`SummaryIsFresh`), `QueueKeepsContract` (`KeepsQueueContract`) |
| `Accounts` | `AccountsInvariant`, `AccountsTypeCorrect`, `AddressesAreUnique` (`OneAccountPerAddress`), `AnswersStayTrue` (`AnswersAreTrue`) |
| `Migrations` | `MigrationsInvariant`, `MigrationsTypeCorrect`, `VersionIsTrue` (`VersionTellsDatabase`), `FailuresAreRaces` (`FailsOnlyByRace`) |

Some have a premise besides the specification, because the code breaks the property
without it (divergences 1 and 2): at most one booking request of a provider is under
way at a time. It is `PerProviderNext`: a request begins only while no other about its
provider is open. The theorems under `PerProviderSpec` have it, and as
`[][PerProviderNext]_vars` `ReviewsAreSafePerProvider`, where review requests
interleave freely, and with the steps of the jobs and of a crash
`CrashesBookNobodyTwice`. It is what a lock on the provider would give that a request
takes before it reads, the `FOR UPDATE` of `DESIGN_NOTE.md:28` done per provider: the
theorems say that this lock suffices, the two violations that the code, which has
none, needs it. `ReviewsFollowCompletion` has the premise that no booking request
undoes a completion (`DoneStays`) and nothing else, which is all of what the review
handlers rely on. `ReviewsAreOfCompletedBookings` has no premise, and the exception
instead.

**Assumptions on the constants**, each in the module that declares them:
`RulesAssumption` (roles are disjoint, times are integers, `None` is no column value),
`InputsAssumption` (bodies passed the schemas), `ReviewAssumption` (ratings are 1 to 5),
`JobsAssumption` (interval and window are positive), `ReadsAssumption` and
`PagesAssumption` (a creation time per row, finitely many rows, a positive page length),
`PoolAssumption` (finitely many requests, at least one thread and one connection),
`SummaryAssumption`, `AccountsAssumption` (the normal form is a form) and
`MigrationsAssumption` (the bounds are numbers). Most also say that `None` is not a
value of the kind it stands in for.

**The invariants**, and why the properties are not inductive without them:

- *Bookings* have layers, each inductive given the ones before.
  `Sessions`: an idle request has no transaction; an open session is about a
  stored booking with the parties it loaded; a booking being inserted is legal,
  its id is free and at that request only. `Commit` writes a row that was loaded
  earlier: without this the merge may be of a missing row or of someone else's.
  `RowLocks`: a session past its flush that changes its row has the only lock
  on it, and the row it will store passed the CHECK. Two moves of different ends are
  each valid on the row loaded, and the merge of both need not be. What saves
  `ValidIntervals` is that the CHECK is evaluated on the row as merged and that the
  lock keeps that row until the commit.
  `Promised`: whatever a session still has to insert, holds or finds committed
  tells the parties of the status it is about to store. An `ON CONFLICT` that skips a
  key is right only because it waits until the key is committed or gone.
  `WaitOrder`: a session holds and asks for the customer's key before the
  provider's, and both before the row; so who waits for whom climbs in rank, and a
  circle cannot.
- *Bookings, one request of a provider at a time.* `ProviderInv`: open requests are of
  different providers (`OneEach`), the loaded row is the committed one, a slot the
  query found free is still free, the notifications are those of the change. Then the
  INSERT and the COMMIT are steps of the contract and every other statement stutters.
  A commit changes only the booking of its request and no request changes the provider
  of a booking, so what the others established, each of its own provider's bookings,
  stands (`OthersKeepWorking`).
- *Reviews.* `ReviewSession` says what a session holds (its id, its key, its row),
  `Apart` what two cannot both hold. Reviews write no booking
  (`ReviewsLeaveBookings`), so the theorems about booking requests hold beside them.
  The existence query of `create_review` is no part of it: it says nothing of the
  moment of the INSERT. `SoundInv` adds that the booking of a review under way, as of
  a stored one, is completed or overwritten. That only a stale request can overwrite
  one rests on `LoadedLive`: no session has loaded a terminal booking, so a commit
  that takes a completed status away is one whose row was completed after it was
  loaded. Under `DoneStays` nothing is overwritten.
- *Jobs.* `JobsInv` joins the invariants of the requests, which insert no notes of
  the jobs, with what `task` says at each statement: the second note of a pair is of
  the booking whose first is in the same transaction. A crash empties every session and
  commits nothing; a job's COMMIT adds keys no request inserts: each keeps the invariants
  of the requests as well. `RemindedInTime` needs
  `Timed` (a round is at most `slow` late, and due at most an interval from now) and
  `RoundsCover`: what was to remind of at earlier rounds is told, what is to remind of at
  this one is told, selected or, before the SELECT, certain to be in its window however
  late the job reads the clock. The first part is for every delay from `slow` up, for
  `slow` grows, and a booking the formula asks for later must have been covered already.
- *Read state and paging.* `ReadsInv`: of the rows a bulk update picked, each is still
  to visit, or locked and unread, or read; no row has two locks. `PagerInv` counts: the
  offset is never more than the rows before the first unseen one, and rows only
  come to the front.
- *Pool.* `PoolInv`: the bound on `free` and `NoLeak` need each other.
- *Queue.* `QueueInv` is a conjunction of what each component may do: `AtWork` (a
  worker's copy fits its statement), `Known`, `SetFirst` (record before push), `Withheld`
  (what was not answered was not pushed), `Single` (a job is in the list once or at one
  worker), `Lags` (a record is behind its worker), `Recent` (what a worker
  counted, or a record holds, was true since the job was asked for). Each but the last says
  which faults break it.
- *Accounts.* `UniqueKeys`: a key is in one row, open or committed; `Progress`: what a
  registration has inserted. The query of `register_user` is again no part of it.
- *Migrations.* `ChangesSoFar`: what a process created and dropped is what the
  revisions say of that statement, found from the lemmas `Upgrade` and `Downgrade`, which
  go through the statements one by one; `Runs`: from its first stamp on a process holds
  the row of `alembic_version`, so the version it read is still the committed one, and a
  process nobody raced with finds what it read. `filled` has to be in it: rows without
  a hash may appear until the revision has locked the table.

TLC checked each of these on the instance of a run before it was proved.

**Model-checked only.** Liveness under fairness is out of the prover's reach:
`RequestsEnd`, `ReviewRequestsEnd`, `OverdueIsNoticed`, `ReadersEnd`, `RequestsAreClosed`,
`LoopResumes`, `AcceptedIsAnswered`, `RegistrationsEnd` and `ApiServes`.

## 5. Not modelled

- Provider not found, or not a provider, in the worker: `enqueue_summary_job` has
  excluded both and nothing deletes a user or changes a role.
- A worker whose start-up ping fails: its process ends and docker starts another.
- A SET that arrives late over a connection the client has given up.
- Reading: lists (but for the pages of notifications), search, health, and the
  availability answer, which the overlap query of `BookingRules` gives. They change nothing.
- `updated_at`, `cancelled_by` and similar columns no rule reads.
- Password hashing, tokens, HTTP and configuration: library code and wiring.
- Locks of API transactions that a migration waits for, and a worker or an API that
  works on an old schema meanwhile; `alembic --sql`, which only prints.
- `updated_count` of `read-all` and other numbers in answers.
- A second `start()` in one process and a `stop()` of a scheduler that was not started:
  the lifespan calls each once.
- Two API processes with a scheduler each: `scheduler.py` excludes it.
- What becomes of a booking between a job's SELECT and its COMMIT: notices of one that
  is cancelled, completed or moved meanwhile are sent all the same, and nothing
  promises otherwise.
- That count and buckets of a summary agree: see section 3.
- A reminder of a new start after a move: the key of the first is taken, and nothing
  promises a second.

## 6. Plan

1. Composition: summaries with the reviews of `ReviewService` instead of a number, so
   that `SummaryIsFresh` is about the reviews themselves, updates included; notices of
   `BackgroundJobs` with the read state, so that paging meets the notices of a crash.
2. An abstract specification of the read state (a notification is read once), which the
   single mark does not keep and the bulk update does.

Order of the modules so far: rules, contract, service (the concurrency of
bookings is what the system is for), proofs, the queue, then what surrounds
bookings: reviews, jobs, read state, threads and connections; then the queue's
contract, the life cycles of worker and scheduler, paging, accounts, migrations; then
the proofs about each.
