--------------------------- MODULE SummaryQueue ---------------------------
(***************************************************************************)
(* Review summaries: the API stores a job record in Redis and pushes the   *)
(* job on a list, workers pop jobs, query the reviews of the provider in   *)
(* PostgreSQL and write status and result back to the record.  Redis       *)
(* commands are atomic; what lies between two of them is not.  A behaviour *)
(* meets the failures of one set only, so that each property can say what  *)
(* it needs.                                                               *)
(***************************************************************************)
EXTENDS Naturals, Sequences, Functions

CONSTANTS
  Jobs,        \* the ids uuid4() draws, one per POST /reviews/summarize
  Workers,     \* processes running app.workers.review_worker
  MaxReviews,  \* bound on the reviews of the provider
  FaultSets,   \* the sets of failures considered
  None         \* Python None, a missing Redis key

(* api_down, api_lost: a command of the API is not executed, or executed   *)
(* but its reply lost.  worker_redis: the same for the commands a worker   *)
(* sends; pop_lost: the reply lost is the one of BLPOP.  database: a query *)
(* raises.  crash: a worker process dies; sigterm: it is told to stop.     *)
(* expiry: a key outlives its TTL.                                         *)
FaultKinds == {"api_down", "api_lost", "worker_redis", "pop_lost",
               "database", "crash", "sigterm", "expiry"}

Summary == [review_count: 0..MaxReviews, rating_total: 0..MaxReviews]

Record == [status: {"queued", "processing", "completed", "failed"},
           result: Summary \cup {None}]

ASSUME SummaryAssumption ==
  /\ FaultSets \subseteq SUBSET FaultKinds
  /\ MaxReviews \in Nat
  /\ None \notin Jobs /\ None \notin Record /\ None \notin Summary

VARIABLES
  record,    \* the value of key job:review_summary:{job}
  queue,     \* the list queue:review_summary
  caller,    \* the enqueuing request of each job
  worker,    \* each worker: next statement, _running, its job, its copy
             \* current_data, the count of the first query
  reviews,   \* the number of committed reviews of the provider
  faults,    \* the failures this behaviour may meet
  seen       \* history: the numbers of reviews since the job was requested

vars == <<record, queue, caller, worker, reviews, faults, seen>>

(* Slip: the first record has no result field.                             *)
QueuedBare == [status |-> "queued"]

Queued == [status |-> "queued", result |-> None]

Idle == [pc |-> "poll", running |-> TRUE, job |-> None, data |-> None,
         total |-> 0]
Off == [Idle EXCEPT !.pc = "off", !.running = FALSE]

(* The head of the loop, without a job: while _running.                    *)
Loop(w) == IF worker[w].running THEN Idle ELSE Off

Init ==
  /\ record = [j \in Jobs |-> None]
  /\ queue = <<>>
  /\ caller = [j \in Jobs |-> "new"]
  /\ worker = [w \in Workers |-> Off]
  /\ reviews = 0
  /\ faults \in FaultSets
  /\ seen = [j \in Jobs |-> {0}]

-----------------------------------------------------------------------------
(* POST /reviews/summarize.                                                *)

(* SET of the record, the reply of which may be lost: the request answers  *)
(* 503 then.  redis-py's own retry of a SET changes nothing.               *)
enqueue_summary_job(j) ==
  /\ caller[j] = "new"
  /\ record' = [record EXCEPT ![j] = Queued]
  /\ \/ caller' = [caller EXCEPT ![j] = "push"]
     \/ "api_lost" \in faults /\ caller' = [caller EXCEPT ![j] = "refused"]
  /\ UNCHANGED <<queue, worker, reviews>>

(* RPUSH.  A command whose reply timed out is sent once more               *)
(* (retry_on_timeout), and pushes once more.                               *)
AfterTimeout(j) == IF caller[j] = "push" THEN "retry" ELSE "refused"

rpush(j) ==
  /\ caller[j] \in {"push", "retry"}
  /\ queue' = Append(queue, j)
  /\ \/ caller' = [caller EXCEPT ![j] = "accepted"]
     \/ /\ "api_lost" \in faults
        /\ caller' = [caller EXCEPT ![j] = AfterTimeout(j)]
  /\ UNCHANGED <<record, worker, reviews>>

(* Slip: a failed SET is logged and the job pushed all the same.           *)
ApiDownIgnored(j) ==
  /\ "api_down" \in faults
  /\ caller[j] \in {"new", "push", "retry"}
  /\ caller' = [caller EXCEPT ![j] = IF caller[j] = "new" THEN "push"
                                     ELSE "refused"]
  /\ UNCHANGED <<record, queue, worker, reviews>>

(* Slip: what could not be pushed is left to a background task.            *)
ApiDownDeferred(j) ==
  /\ "api_down" \in faults
  /\ caller[j] \in {"new", "push", "retry"}
  /\ caller' = [caller EXCEPT ![j] = "refused"]
  /\ queue' = IF caller[j] = "new" THEN queue ELSE Append(queue, j)
  /\ UNCHANGED <<record, worker, reviews>>

(* Redis is away: a timeout is retried, a refused connection is not.       *)
ApiDown(j) ==
  /\ "api_down" \in faults
  /\ \/ /\ caller[j] = "new"
        /\ caller' = [caller EXCEPT ![j] = "refused"]
     \/ /\ caller[j] \in {"push", "retry"}
        /\ \E next \in {AfterTimeout(j), "refused"} :
             caller' = [caller EXCEPT ![j] = next]
  /\ UNCHANGED <<record, queue, worker, reviews>>

-----------------------------------------------------------------------------
(* The worker loop.                                                        *)

(* BLPOP removes the job from the list; if the reply is lost nobody has it.*)
blpop(w) ==
  /\ worker[w].pc = "poll"
  /\ queue # <<>>
  /\ queue' = Tail(queue)
  /\ \/ worker' = [worker EXCEPT ![w].pc = "load", ![w].job = Head(queue)]
     \/ "pop_lost" \in faults /\ UNCHANGED worker
  /\ UNCHANGED <<record, caller, reviews>>

(* Slip: a summary of the provider that is there is served again.          *)
LoadJobReusing(w) ==
  LET done == {r \in Range(record) : r # None /\ r.status = "completed"}
  IN  /\ worker[w].pc = "load"
      /\ \/ /\ done = {}
            /\ worker' = [worker EXCEPT
                 ![w].pc = "mark",
                 ![w].data = [status |-> "processing", result |-> None]]
         \/ \E r \in done :
              worker' = [worker EXCEPT ![w].pc = "store", ![w].data = r]
      /\ UNCHANGED <<record, queue, caller, reviews>>

(* GET of the record, or a new one if the key is gone; marked in the copy. *)
load_job(w) ==
  LET found == record[worker[w].job]
  IN  /\ worker[w].pc = "load"
      /\ worker' = [worker EXCEPT
                      ![w].pc = "mark",
                      ![w].data = [status |-> "processing",
                                   result |-> IF found = None THEN None
                                              ELSE found.result]]
      /\ UNCHANGED <<record, queue, caller, reviews>>

mark_processing(w) ==
  /\ worker[w].pc = "mark"
  /\ record' = [record EXCEPT ![worker[w].job] = worker[w].data]
  /\ worker' = [worker EXCEPT ![w].pc = "stats"]
  /\ UNCHANGED <<queue, caller, reviews>>

(* The first query: number and average.                                    *)
query_stats(w) ==
  /\ worker[w].pc = "stats"
  /\ worker' = [worker EXCEPT ![w].pc = "distribution", ![w].total = reviews]
  /\ UNCHANGED <<record, queue, caller, reviews>>

(* The second query: reviews per rating, as they are at its own moment.    *)
query_distribution(w) ==
  /\ worker[w].pc = "distribution"
  /\ worker' = [worker EXCEPT
                  ![w].pc = "store",
                  ![w].data = [status |-> "completed",
                               result |-> [review_count |-> worker[w].total,
                                           rating_total |-> reviews]]]
  /\ UNCHANGED <<record, queue, caller, reviews>>

(* The last SET, of a completed or a failed job.                           *)
store_outcome(w) ==
  /\ worker[w].pc = "store"
  /\ record' = [record EXCEPT ![worker[w].job] = worker[w].data]
  /\ worker' = [worker EXCEPT ![w] = Loop(w)]
  /\ UNCHANGED <<queue, caller, reviews>>

(* The except branch: the copy, with whatever result it holds, fails.      *)
Fail(w) ==
  worker' = [worker EXCEPT ![w].pc = "store", ![w].data.status = "failed"]

(* Slip: the exception is logged and the job forgotten.                    *)
DatabaseErrorLogged(w) ==
  /\ "database" \in faults
  /\ worker[w].pc \in {"stats", "distribution"}
  /\ worker' = [worker EXCEPT ![w] = Loop(w)]
  /\ UNCHANGED <<record, queue, caller, reviews>>

(* A query raises.                                                         *)
database_error(w) ==
  /\ "database" \in faults
  /\ worker[w].pc \in {"stats", "distribution"}
  /\ Fail(w)
  /\ UNCHANGED <<record, queue, caller, reviews>>

(* Slip: a job whose command failed is put back on the list.               *)
RequeueOnError(w) ==
  /\ "worker_redis" \in faults
  /\ worker[w].pc \in {"load", "mark", "store"}
  /\ queue' = Append(queue, worker[w].job)
  /\ worker' = [worker EXCEPT ![w] = Loop(w)]
  /\ \/ UNCHANGED record
     \/ /\ worker[w].pc \in {"mark", "store"}
        /\ record' = [record EXCEPT ![worker[w].job] = worker[w].data]
  /\ UNCHANGED <<caller, reviews>>

(* A Redis command of the worker raises, executed or not.  Outside the try *)
(* block, and in its except branch, the loop drops the job; a SET of the   *)
(* completed job is followed by one of the failed job.                     *)
redis_error(w) ==
  LET job == worker[w].job
      completing == worker[w].pc = "store"
                      /\ worker[w].data.status = "completed"
  IN  /\ "worker_redis" \in faults
      /\ worker[w].pc \in {"load", "mark", "store"}
      /\ IF completing THEN Fail(w)
         ELSE worker' = [worker EXCEPT ![w] = Loop(w)]
      /\ \/ UNCHANGED record
         \/ /\ worker[w].pc \in {"mark", "store"}
            /\ record' = [record EXCEPT ![job] = worker[w].data]
      /\ UNCHANGED <<queue, caller, reviews>>

(* The process dies; what it held in memory is gone.                       *)
crash(w) ==
  /\ "crash" \in faults
  /\ worker[w].pc # "off"
  /\ worker' = [worker EXCEPT ![w] = Off]
  /\ UNCHANGED <<record, queue, caller, reviews>>

(* run_worker, whose first pings are answered.  If they are not the        *)
(* process ends, and docker starts another.                                *)
start_worker(w) ==
  /\ worker[w].pc = "off"
  /\ worker' = [worker EXCEPT ![w] = Idle]
  /\ UNCHANGED <<record, queue, caller, reviews>>

(* Slip: the handler raises SystemExit, which ends the loop.               *)
SignalExits(w) ==
  /\ "sigterm" \in faults
  /\ worker[w].pc # "off"
  /\ worker' = [worker EXCEPT ![w] = Off]
  /\ UNCHANGED <<record, queue, caller, reviews>>

(* SIGTERM or SIGINT; the statement it interrupts goes on.                 *)
handle_signal(w) ==
  /\ "sigterm" \in faults
  /\ worker[w].running
  /\ worker' = [worker EXCEPT ![w].running = FALSE]
  /\ UNCHANGED <<record, queue, caller, reviews>>

(* The BLPOP the signal came in has ended without a job.                   *)
stop_worker(w) ==
  /\ worker[w].pc = "poll" /\ ~worker[w].running
  /\ worker' = [worker EXCEPT ![w] = Off]
  /\ UNCHANGED <<record, queue, caller, reviews>>

-----------------------------------------------------------------------------
(* The key of a job is gone 24 hours after its last SET.                   *)
expire(j) ==
  /\ "expiry" \in faults
  /\ record[j] # None
  /\ record' = [record EXCEPT ![j] = None]
  /\ UNCHANGED <<queue, caller, worker, reviews>>

(* Customers write and delete reviews, between the two queries of a job as *)
(* at any other time.                                                      *)
ReviewChange ==
  /\ \E n \in 0..MaxReviews :
       /\ n = reviews + 1 \/ reviews = n + 1
       /\ reviews' = n
       /\ seen' = [j \in Jobs |-> IF caller[j] = "new" THEN {n}
                                  ELSE seen[j] \cup {n}]
  /\ UNCHANGED <<record, queue, caller, worker>>

Api(j) == enqueue_summary_job(j) \/ rpush(j) \/ ApiDown(j)

Work(w) ==
  \/ load_job(w)
  \/ mark_processing(w)
  \/ query_stats(w)
  \/ query_distribution(w)
  \/ store_outcome(w)

Next ==
  /\ \/ /\ \/ \E j \in Jobs : Api(j) \/ expire(j)
           \/ \E w \in Workers :
                \/ start_worker(w) \/ blpop(w) \/ Work(w)
                \/ handle_signal(w) \/ stop_worker(w)
                \/ database_error(w) \/ redis_error(w) \/ crash(w)
        /\ UNCHANGED seen
     \/ ReviewChange
  /\ UNCHANGED faults

Spec == Init /\ [][Next]_vars

(* docker starts a worker that has ended; a worker that polls again and    *)
(* again, however often it is stopped, is served; it goes on with the job  *)
(* it has.                                                                 *)
FairSpec ==
  /\ Spec
  /\ \A w \in Workers :
       /\ WF_vars(start_worker(w) /\ UNCHANGED <<faults, seen>>)
       /\ SF_vars(blpop(w) /\ UNCHANGED <<faults, seen>>)
       /\ WF_vars(Work(w) /\ UNCHANGED <<faults, seen>>)

-----------------------------------------------------------------------------
Terminal == {"completed", "failed"}

TypeOK ==
  /\ record \in [Jobs -> Record \cup {None}]
  /\ queue \in Seq(Jobs)
  /\ caller \in [Jobs -> {"new", "push", "retry", "accepted", "refused"}]
  /\ worker \in [Workers ->
       [pc: {"off", "poll", "load", "mark", "stats", "distribution", "store"},
        running: BOOLEAN, job: Jobs \cup {None}, data: Record \cup {None},
        total: 0..MaxReviews]]
  /\ reviews \in 0..MaxReviews
  /\ faults \in FaultSets
  /\ seen \in [Jobs -> SUBSET (0..MaxReviews)]

InQueue(j) == j \in Range(queue)
AtWorker(w, j) == worker[w].job = j

(* SET comes before RPUSH: while keys do not expire, a job that is         *)
(* accepted, listed or at work has a record, so polling it never answers   *)
(* 404 and a worker never has to make the record up.                       *)
QueuedIsVisible ==
  "expiry" \notin faults =>
    \A j \in Jobs :
      \/ caller[j] = "accepted"
      \/ InQueue(j)
      \/ \E w \in Workers : AtWorker(w, j)
      => record[j] # None

(* Unless a worker dies, loses touch with Redis or is away for a day, an   *)
(* accepted job is on the list or at a worker until its record says how it *)
(* ended.                                                                  *)
Losses == {"crash", "pop_lost", "worker_redis", "expiry"}

NothingLost ==
  faults \cap Losses = {} =>
    \A j \in Jobs :
      caller[j] = "accepted" =>
        \/ InQueue(j)
        \/ \E w \in Workers : AtWorker(w, j)
        \/ record[j].status \in Terminal

(* The caller of a refused request got 503 and no id: unless it is one     *)
(* whose reply was lost, nobody works on the job, and the record that may  *)
(* have been stored first says queued until it expires.                    *)
RefusedIsInert ==
  "api_lost" \notin faults =>
    \A j \in Jobs :
      caller[j] = "refused" =>
        /\ ~InQueue(j)
        /\ \A w \in Workers : ~AtWorker(w, j)
        /\ record[j] \in {None, Queued}

Contract ==
  INSTANCE SummaryContract
    WITH line <- queue,
         taken <- [w \in Workers |-> worker[w].job],
         past <- {j \in Jobs : /\ caller[j] = "accepted"
                               /\ ~InQueue(j)
                               /\ \A w \in Workers : ~AtWorker(w, j)},
         status <- [j \in Jobs |-> IF record[j] = None THEN None
                                   ELSE record[j].status]

(* While no push is retried, every step is one of the contract, or none of *)
(* its business: jobs are taken in their order, each once, and a client    *)
(* that polls sees a job go forward only, whatever fails at the workers.   *)
KeepsQueueContract ==
  /\ Contract!CInit
  /\ [][\/ "api_lost" \in faults
        \/ Contract!CNext
        \/ UNCHANGED Contract!cvars]_vars

(* Unless Losses strike, every accepted job is answered for good: however  *)
(* often its push was doubled, whichever of its two workers stores last,   *)
(* whatever query fails, a client that polls from some time on finds how   *)
(* the job ended and no worker takes that back.                            *)
AcceptedIsAnswered ==
  \A j \in Jobs :
    caller[j] = "accepted" /\ faults \cap Losses = {}
      ~> [](record[j] # None /\ record[j].status \in Terminal)

(* "Total number of reviews" and "Count of reviews per rating bucket" of a *)
(* result may be of two moments, the two queries have no snapshot in       *)
(* common.  But each was true after the job was asked for: a result is     *)
(* never older than its request, although jobs are doubled and retried,    *)
(* workers fail a job with the result of its last run in their copy, and   *)
(* reviews are written and deleted at any time.                            *)
SummaryIsFresh ==
  \A j \in Jobs :
    record[j] # None /\ record[j].result # None
      => /\ record[j].result.review_count \in seen[j]
         /\ record[j].result.rating_total \in seen[j]
=============================================================================
