---------------------------- MODULE RequestPool ----------------------------
(***************************************************************************)
(* What requests and background jobs compete for in the API process: the   *)
(* event loop, the threads endpoints run on and the pooled connections.    *)
(* A session takes a connection with its first statement, in the           *)
(* dependency get_current_user, and keeps it while the request waits for a *)
(* thread for its endpoint; an endpoint without that dependency takes it   *)
(* there.  commit() and rollback() give it back, refresh() takes one       *)
(* again, close() gives back what is left in the end.  The scheduler's     *)
(* jobs run on the event loop itself and wait for a connection there.      *)
(***************************************************************************)
EXTENDS Naturals, FiniteSets

CONSTANTS
  Requests,     \* the requests that ever arrive
  Threads,      \* size of the thread pool of endpoints and dependencies
  Connections   \* pool_size + max_overflow of the engine

ASSUME PoolAssumption ==
  /\ IsFiniteSet(Requests)
  /\ Threads \in Nat \ {0} /\ Connections \in Nat \ {0}

VARIABLES
  at,    \* where each request is
  job,   \* the job that has the event loop
  free   \* connections in the pool

vars == <<at, job, free>>

(* auth, public, refresh: on a thread, waiting for a connection, in        *)
(* get_current_user, in an endpoint without it, in refresh(); authed:      *)
(* waiting for a thread; endpoint, refreshed: on a thread; answered: to be *)
(* closed by the event loop; released: the same without a connection.      *)
Places == {"new", "auth", "public", "authed", "endpoint", "refresh",
           "refreshed", "answered", "released", "done"}

OnThread == {"auth", "public", "endpoint", "refresh", "refreshed"}
Holding == {"authed", "endpoint", "refreshed", "answered"}

(* A job waits for a connection, then runs; the two jobs follow each other *)
(* without a break of the loop.                                            *)
Waits(name) == [name |-> name, pc |-> "waits"]

NoJob == [name |-> "none", pc |-> "waits"]

Job == [name: {"reminder", "overdue"}, pc: {"waits", "runs"}] \cup {NoJob}

In(places) == {r \in Requests : at[r] \in places}

Init ==
  /\ at = [r \in Requests |-> "new"]
  /\ job = NoJob
  /\ free = Connections

-----------------------------------------------------------------------------
Move(r, place) == at' = [at EXCEPT ![r] = place]

Take == free > 0 /\ free' = free - 1
GiveBack == free' = free + 1

(* The event loop hands a request to a free thread: first for              *)
(* get_current_user, then for the endpoint; register and login have no     *)
(* current user.                                                           *)
dispatch(r) ==
  /\ job = NoJob
  /\ Cardinality(In(OnThread)) < Threads
  /\ \/ at[r] = "new" /\ (Move(r, "auth") \/ Move(r, "public"))
     \/ at[r] = "authed" /\ Move(r, "endpoint")
  /\ UNCHANGED <<job, free>>

(* The session's first statement, or db.refresh() after a commit().        *)
get_connection(r) ==
  /\ \/ at[r] = "auth" /\ Move(r, "authed")
     \/ at[r] = "public" /\ Move(r, "endpoint")
     \/ at[r] = "refresh" /\ Move(r, "refreshed")
  /\ Take
  /\ UNCHANGED job

(* A request that is refused before its endpoint: without a statement for  *)
(* its token, with a connection for its user, its role or its body.        *)
reject(r) ==
  /\ \/ at[r] = "auth" /\ Move(r, "released")
     \/ at[r] = "authed" /\ Move(r, "answered")
  /\ UNCHANGED <<job, free>>

(* The endpoint commits and refreshes; commits and has nothing to refresh, *)
(* or rolls back and raises; or returns or raises and leaves it to close().*)
run_endpoint(r) ==
  /\ at[r] = "endpoint"
  /\ \/ (Move(r, "refresh") \/ Move(r, "released")) /\ GiveBack
     \/ Move(r, "answered") /\ UNCHANGED free
  /\ UNCHANGED job

(* refresh() returns, or raises, which the endpoint rolls back.            *)
end_refresh(r) ==
  /\ at[r] = "refreshed"
  /\ \/ Move(r, "answered") /\ UNCHANGED free
     \/ Move(r, "released") /\ GiveBack
  /\ UNCHANGED job

(* The pool raises after pool_timeout; the request is a 500.               *)
time_out(r) ==
  /\ at[r] \in {"auth", "public", "refresh"}
  /\ free = 0
  /\ Move(r, "released")
  /\ UNCHANGED <<job, free>>

(* Slip: no try, so an endpoint that raises skips db.close().              *)
CloseAnswered(r) ==
  /\ job = NoJob
  /\ at[r] \in {"answered", "released"}
  /\ Move(r, "done")
  /\ \/ at[r] = "answered" /\ GiveBack
     \/ UNCHANGED free
  /\ UNCHANGED job

(* Slip: a connection is returned that the session never got.              *)
CloseAlways(r) ==
  /\ job = NoJob
  /\ at[r] \in {"answered", "released"}
  /\ Move(r, "done")
  /\ GiveBack
  /\ UNCHANGED job

(* Slip: yield outside of try, and a request without answer is left open.  *)
CloseOnSuccess(r) ==
  /\ job = NoJob
  /\ at[r] = "answered"
  /\ Move(r, "done")
  /\ GiveBack
  /\ UNCHANGED job

(* get_db's finally, started by the event loop on a thread of its own.     *)
close(r) ==
  /\ job = NoJob
  /\ at[r] \in {"answered", "released"}
  /\ Move(r, "done")
  /\ IF at[r] = "answered" THEN GiveBack ELSE UNCHANGED free
  /\ UNCHANGED job

-----------------------------------------------------------------------------
(* _run_loop wakes and runs both jobs, each with a session of its own.     *)
wake ==
  /\ job = NoJob
  /\ job' = Waits("reminder")
  /\ UNCHANGED <<at, free>>

NextJob == job' = IF job.name = "reminder" THEN Waits("overdue") ELSE NoJob

job_starts ==
  /\ job # NoJob /\ job.pc = "waits"
  /\ job' = [job EXCEPT !.pc = "runs"]
  /\ Take
  /\ UNCHANGED at

job_ends ==
  /\ job # NoJob /\ job.pc = "runs"
  /\ NextJob
  /\ GiveBack
  /\ UNCHANGED at

(* Slip: the job asks the pool again instead of giving up.                 *)
JobRetries ==
  /\ job # NoJob /\ job.pc = "waits"
  /\ free = 0
  /\ UNCHANGED vars

(* The pool raises, _run_single_job logs it.                               *)
job_times_out ==
  /\ job # NoJob /\ job.pc = "waits"
  /\ free = 0
  /\ NextJob
  /\ UNCHANGED <<at, free>>

-----------------------------------------------------------------------------
JobStep == job_starts \/ job_ends \/ job_times_out

Next ==
  \/ \E r \in Requests :
       \/ dispatch(r) \/ get_connection(r) \/ time_out(r)
       \/ reject(r) \/ run_endpoint(r) \/ end_refresh(r) \/ close(r)
  \/ wake
  \/ JobStep

Spec == Init /\ [][Next]_vars

(* Threads run, the event loop and the queues of threads and connections   *)
(* serve their waiters in order, and the pool's timeout is real time: a    *)
(* request that waits long enough gets a connection or an error.           *)
FairSpec ==
  /\ Spec
  /\ WF_vars(JobStep)
  /\ \A r \in Requests :
       /\ WF_vars(run_endpoint(r) \/ end_refresh(r))
       /\ SF_vars(dispatch(r))
       /\ SF_vars(get_connection(r) \/ time_out(r))
       /\ SF_vars(close(r))

-----------------------------------------------------------------------------
TypeOK ==
  /\ at \in [Requests -> Places]
  /\ job \in Job
  /\ free \in 0..Connections

JobHolds == IF job # NoJob /\ job.pc = "runs" THEN 1 ELSE 0

(* No path through commits with or without a refresh, rollbacks, refusals  *)
(* and timeouts loses or duplicates a connection: what is not in the pool  *)
(* is with a session that will give it back.                               *)
NoLeak == free + Cardinality(In(Holding)) + JobHolds = Connections

(* Every request that got a thread is answered and closed, starvation and  *)
(* jobs on the event loop notwithstanding: the timeouts resolve both.      *)
RequestsAreClosed ==
  \A r \in Requests : at[r] \in OnThread ~> at[r] = "done"

(* The jobs never stop the event loop for good, though the sessions whose  *)
(* connections they wait for need the loop to be closed.                   *)
LoopResumes == job # NoJob ~> job = NoJob
=============================================================================
