------------------------ MODULE SummaryQueueProofs ------------------------
(***************************************************************************)
(* The safety of SummaryQueue for any number of jobs, workers and reviews  *)
(* and any set of failures: that a listed job has a record, that nothing   *)
(* accepted is lost, that nothing refused is worked on, that no result is  *)
(* older than its request, and that every step keeps SummaryContract.      *)
(***************************************************************************)
EXTENDS SummaryQueue, TLAPS

(* What a worker's variables say at each statement: it has a job inside    *)
(* the try block only, and its copy of the record is of the state it is    *)
(* about to store.                                                         *)
Coherent(s) ==
  /\ s.job = None <=> s.pc \in {"off", "poll"}
  /\ s.pc \in {"mark", "stats", "distribution"} =>
       s.data # None /\ s.data.status = "processing"
  /\ s.pc = "store" => s.data # None /\ s.data.status \in Terminal

AtWork == TypeOK /\ \A w \in Workers : Coherent(worker[w])

(* Nobody has seen a job that is not submitted yet.                        *)
Known ==
  \A j \in Jobs :
    caller[j] = "new" =>
      record[j] = None /\ ~InQueue(j) /\ \A w \in Workers : ~AtWorker(w, j)

(* Between SET and RPUSH the record is there already.                      *)
SetFirst ==
  "expiry" \notin faults =>
    \A j \in Jobs : caller[j] \in {"push", "retry"} => record[j] # None

(* A job whose push was not answered was not pushed, unless the answer is  *)
(* what was lost.                                                          *)
Withheld ==
  "api_lost" \notin faults =>
    \A j \in Jobs :
      caller[j] # "accepted" =>
        /\ ~InQueue(j)
        /\ \A w \in Workers : ~AtWorker(w, j)
        /\ record[j] \in {None, Queued}

(* Then a job is once in the list or at one worker.                        *)
Single ==
  "api_lost" \notin faults =>
    /\ IsInjective(queue)
    /\ \A j \in Jobs, w \in Workers :
         AtWorker(w, j) =>
           ~InQueue(j) /\ \A v \in Workers : AtWorker(v, j) => v = w

(* And its record lags behind what its worker does.                        *)
Before(s, r) ==
  \/ r = None
  \/ s.pc \in {"load", "mark"} /\ r.status = "queued"
  \/ s.pc \in {"stats", "distribution", "store"} /\ r.status = "processing"
  \/ s.pc = "store" /\ s.data.status = "failed" /\ r.status = "completed"

Lags ==
  "api_lost" \notin faults =>
    /\ \A j \in Jobs : InQueue(j) => record[j] \in {None, Queued}
    /\ \A w \in Workers :
         worker[w].job # None => Before(worker[w], record[worker[w].job])

(* Every number in a record, in a worker's copy and in the answer of the   *)
(* first query was the number of reviews since the job was asked for, and  *)
(* so is the one the next query will find.                                 *)
Since(r, j) ==
  r # None /\ r.result # None =>
    r.result.review_count \in seen[j] /\ r.result.rating_total \in seen[j]

SinceAt(s) ==
  /\ s.pc \in {"mark", "stats", "distribution", "store"} => Since(s.data, s.job)
  /\ s.pc = "distribution" => s.total \in seen[s.job]

Recent ==
  /\ \A j \in Jobs : reviews \in seen[j] /\ Since(record[j], j)
  /\ \A w \in Workers : SinceAt(worker[w])

QueueInv ==
  /\ AtWork /\ Known /\ SetFirst /\ QueuedIsVisible
  /\ Withheld /\ Single /\ Lags /\ NothingLost /\ Recent

-----------------------------------------------------------------------------
(* Facts about the list.                                                   *)

LEMMA RangeOfAppend ==
  ASSUME NEW S, NEW s \in Seq(S), NEW x \in S
  PROVE  /\ Append(s, x) \in Seq(S)
         /\ Range(Append(s, x)) = Range(s) \cup {x}
         /\ x \notin Range(s) /\ IsInjective(s) => IsInjective(Append(s, x))
<1>1. /\ DOMAIN s = 1..Len(s) /\ Len(s) \in Nat
      /\ DOMAIN Append(s, x) = 1..(Len(s) + 1)
      /\ \A i \in 1..Len(s) : Append(s, x)[i] = s[i]
      /\ Append(s, x)[Len(s) + 1] = x
  OBVIOUS
<1>2. Range(Append(s, x)) = Range(s) \cup {x}
  <2>1. ASSUME NEW i \in DOMAIN Append(s, x)
        PROVE  Append(s, x)[i] = x \/ \E k \in DOMAIN s : s[k] = Append(s, x)[i]
    BY <1>1
  <2>2. ASSUME NEW i \in DOMAIN s
        PROVE  i \in DOMAIN Append(s, x) /\ Append(s, x)[i] = s[i]
    BY <1>1
  <2>3. Len(s) + 1 \in DOMAIN Append(s, x)
    BY <1>1
  <2> QED
    BY <1>1, <2>1, <2>2, <2>3 DEF Range
<1>3. ASSUME x \notin Range(s), IsInjective(s)
      PROVE  IsInjective(Append(s, x))
  BY <1>1, <1>3 DEF IsInjective, Range
<1> QED
  BY <1>2, <1>3

LEMMA RangeOfPop ==
  ASSUME NEW S, NEW s \in Seq(S), s # <<>>
  PROVE  /\ Head(s) \in S /\ Tail(s) \in Seq(S)
         /\ Range(s) = {Head(s)} \cup Range(Tail(s))
         /\ IsInjective(s) => IsInjective(Tail(s)) /\ Head(s) \notin Range(Tail(s))
<1>1. /\ DOMAIN s = 1..Len(s) /\ Len(s) \in Nat \ {0}
      /\ DOMAIN Tail(s) = 1..(Len(s) - 1)
      /\ \A i \in 1..(Len(s) - 1) : Tail(s)[i] = s[i + 1]
      /\ Head(s) = s[1]
  OBVIOUS
<1>2. Range(s) = {Head(s)} \cup Range(Tail(s))
  <2>1. ASSUME NEW i \in DOMAIN s
        PROVE  s[i] = Head(s) \/ \E k \in DOMAIN Tail(s) : Tail(s)[k] = s[i]
    <3>1. CASE i = 1
      BY <1>1, <3>1
    <3>2. CASE i # 1
      <4>1. i - 1 \in DOMAIN Tail(s) /\ Tail(s)[i - 1] = s[i]
        BY <1>1, <3>2
      <4> QED
        BY <4>1
    <3> QED
      BY <3>1, <3>2
  <2>2. ASSUME NEW i \in DOMAIN Tail(s)
        PROVE  i + 1 \in DOMAIN s /\ Tail(s)[i] = s[i + 1]
    BY <1>1
  <2>3. 1 \in DOMAIN s
    BY <1>1
  <2> QED
    BY <1>1, <2>1, <2>2, <2>3 DEF Range
<1>3. ASSUME IsInjective(s)
      PROVE  IsInjective(Tail(s)) /\ Head(s) \notin Range(Tail(s))
  <2>1. ASSUME NEW i \in DOMAIN Tail(s)
        PROVE  i + 1 \in DOMAIN s /\ i + 1 # 1 /\ Tail(s)[i] = s[i + 1]
    BY <1>1
  <2>2. Head(s) \notin Range(Tail(s))
    BY <1>1, <1>3, <2>1 DEF IsInjective, Range
  <2>3. IsInjective(Tail(s))
    <3> SUFFICES ASSUME NEW i \in DOMAIN Tail(s), NEW k \in DOMAIN Tail(s),
                        Tail(s)[i] = Tail(s)[k]
                 PROVE  i = k
      BY DEF IsInjective
    <3>1. i + 1 = k + 1
      BY <1>3, <2>1 DEF IsInjective
    <3> QED
      BY <1>1, <3>1
  <2> QED
    BY <2>2, <2>3
<1> QED
  BY <1>1, <1>2, <1>3

-----------------------------------------------------------------------------
(* The statements of the workers and of the API.                           *)

WorkerState ==
  [pc: {"off", "poll", "load", "mark", "stats", "distribution", "store"},
   running: BOOLEAN, job: Jobs \cup {None}, data: Record \cup {None},
   total: 0..MaxReviews]

(* A step of a worker that has nothing to do with the list: it keeps its   *)
(* job or puts it down, and may have stored its copy.                      *)
OwnStep(w) ==
  /\ \A v \in Workers \ {w} : worker'[v] = worker[v]
  /\ worker'[w].job \in {worker[w].job, None}
  /\ \/ UNCHANGED record
     \/ /\ worker[w].pc \in {"mark", "store"}
        /\ record' = [record EXCEPT ![worker[w].job] = worker[w].data]
  /\ UNCHANGED <<queue, caller, reviews>>

Own(w) ==
  \/ start_worker(w) \/ Work(w) \/ handle_signal(w) \/ stop_worker(w)
  \/ database_error(w) \/ redis_error(w) \/ crash(w)

LEMMA IdleStates ==
  ASSUME AtWork, NEW w \in Workers
  PROVE  /\ Idle \in WorkerState /\ Coherent(Idle)
         /\ Off \in WorkerState /\ Coherent(Off)
         /\ Loop(w) \in {Idle, Off}
         /\ Idle.job = None /\ Off.job = None
         /\ Idle.data = None /\ Off.data = None
         /\ Idle.pc = "poll" /\ Off.pc = "off"
<1>1. /\ Idle \in WorkerState /\ Coherent(Idle)
      /\ Idle.job = None /\ Idle.data = None /\ Idle.pc = "poll"
  BY SummaryAssumption DEF Idle, WorkerState, Coherent
<1>2. /\ Off \in WorkerState
      /\ Off.job = None /\ Off.data = None /\ Off.pc = "off"
  BY <1>1 DEF Off, WorkerState
<1>3. Coherent(Off)
  BY <1>2 DEF Coherent
<1> QED
  BY <1>1, <1>2, <1>3 DEF Loop

(* A worker that fails a job has a copy to store.                          *)
LEMMA FailState ==
  ASSUME AtWork, NEW w \in Workers, Fail(w),
         worker[w].pc \in {"stats", "distribution", "store"}
  PROVE  /\ worker' = [worker EXCEPT ![w] = worker'[w]]
         /\ worker'[w] \in WorkerState /\ Coherent(worker'[w])
         /\ worker'[w].job = worker[w].job /\ worker'[w].pc = "store"
         /\ worker'[w].data.status = "failed"
         /\ worker'[w].data.result = worker[w].data.result
<1> DEFINE s == worker[w]
           t == [s EXCEPT !.pc = "store", !.data.status = "failed"]
<1>1. s \in WorkerState /\ s.data \in Record /\ s.job # None
  BY DEF AtWork, TypeOK, Coherent, WorkerState
<1>2. worker' = [worker EXCEPT ![w] = t] /\ worker'[w] = t
  BY DEF Fail, AtWork, TypeOK
<1>3. t.data = [status |-> "failed", result |-> s.data.result]
  BY <1>1 DEF WorkerState, Record
<1>4. t.data \in Record
  BY <1>1, <1>3 DEF Record
<1>5. t \in WorkerState /\ t.pc = "store" /\ t.job = s.job
  BY <1>1, <1>4 DEF WorkerState
<1>6. Coherent(t)
  BY <1>1, <1>3, <1>4, <1>5, SummaryAssumption DEF Coherent, Terminal
<1>7. t.data.status = "failed" /\ t.data.result = s.data.result
  BY <1>3
<1> HIDE DEF t
<1> QED
  BY <1>2, <1>5, <1>6, <1>7

LEMMA OwnSteps ==
  ASSUME AtWork, NEW w \in Workers, Own(w)
  PROVE  /\ OwnStep(w) /\ worker' = [worker EXCEPT ![w] = worker'[w]]
         /\ worker'[w] \in WorkerState /\ Coherent(worker'[w])
<1> DEFINE s == worker[w]
<1>0. s \in WorkerState /\ Coherent(s) /\ worker \in [Workers -> WorkerState]
      /\ record \in [Jobs -> Record \cup {None}] /\ reviews \in 0..MaxReviews
  BY DEF AtWork, TypeOK, WorkerState
<1>1. ASSUME NEW t \in {Idle, Off}, worker' = [worker EXCEPT ![w] = t],
             UNCHANGED <<queue, caller, reviews>>,
             UNCHANGED record \/ /\ worker[w].pc \in {"mark", "store"}
                                 /\ record' = [record EXCEPT ![worker[w].job] = worker[w].data]
      PROVE  /\ OwnStep(w) /\ worker' = [worker EXCEPT ![w] = worker'[w]]
             /\ worker'[w] \in WorkerState /\ Coherent(worker'[w])
  <2>1. worker'[w] = t /\ t.job = None
    BY <1>0, <1>1, IdleStates
  <2> QED
    BY <1>0, <1>1, <2>1, IdleStates DEF OwnStep
<1>2. CASE start_worker(w) \/ stop_worker(w) \/ crash(w) \/ store_outcome(w)
  BY <1>1, <1>2, IdleStates DEF start_worker, stop_worker, crash, store_outcome
<1>3. CASE load_job(w)
  <2> DEFINE found == record[s.job]
             d == [status |-> "processing",
                   result |-> IF found = None THEN None ELSE found.result]
             t == [s EXCEPT !.pc = "mark", !.data = d]
  <2>1. s.job \in Jobs
    BY <1>0, <1>3 DEF load_job, Coherent, WorkerState
  <2>2. d \in Record /\ d # None
    BY <1>0, <2>1, SummaryAssumption DEF Record
  <2>3. worker' = [worker EXCEPT ![w] = t] /\ worker'[w] = t
    BY <1>0, <1>3 DEF load_job
  <2>4. d.status = "processing"
    OBVIOUS
  <2> HIDE DEF d
  <2>5. t \in WorkerState /\ t.pc = "mark" /\ t.job = s.job /\ t.data = d
    BY <1>0, <2>2 DEF WorkerState
  <2> HIDE DEF t
  <2>6. Coherent(t)
    BY <2>1, <2>2, <2>4, <2>5, SummaryAssumption DEF Coherent
  <2>7. UNCHANGED <<record, queue, caller, reviews>>
    BY <1>3 DEF load_job
  <2> QED
    BY <1>0, <2>3, <2>5, <2>6, <2>7 DEF OwnStep
<1>4. CASE mark_processing(w)
  <2> DEFINE t == [s EXCEPT !.pc = "stats"]
  <2>1. worker' = [worker EXCEPT ![w] = t] /\ worker'[w] = t
    BY <1>0, <1>4 DEF mark_processing
  <2>2. t \in WorkerState /\ t.job = s.job /\ Coherent(t)
    BY <1>0, <1>4 DEF WorkerState, Coherent, mark_processing
  <2> QED
    BY <1>0, <1>4, <2>1, <2>2 DEF OwnStep, mark_processing
<1>5. CASE query_stats(w)
  <2> DEFINE t == [s EXCEPT !.pc = "distribution", !.total = reviews]
  <2>1. worker' = [worker EXCEPT ![w] = t] /\ worker'[w] = t
    BY <1>0, <1>5 DEF query_stats
  <2>2. t \in WorkerState /\ t.job = s.job /\ Coherent(t)
    BY <1>0, <1>5 DEF WorkerState, Coherent, query_stats
  <2> QED
    BY <1>0, <1>5, <2>1, <2>2 DEF OwnStep, query_stats
<1>6. CASE query_distribution(w)
  <2> DEFINE d == [status |-> "completed",
                   result |-> [review_count |-> s.total, rating_total |-> reviews]]
             t == [s EXCEPT !.pc = "store", !.data = d]
  <2>1. d \in Record /\ d # None
    BY <1>0, SummaryAssumption DEF WorkerState, Record, Summary
  <2>2. d.status = "completed"
    OBVIOUS
  <2>3. worker' = [worker EXCEPT ![w] = t] /\ worker'[w] = t
    BY <1>0, <1>6 DEF query_distribution
  <2> HIDE DEF d
  <2>4. t \in WorkerState /\ t.job = s.job /\ t.pc = "store" /\ t.data = d
    BY <1>0, <2>1 DEF WorkerState
  <2> HIDE DEF t
  <2>5. Coherent(t)
    BY <1>0, <1>6, <2>1, <2>2, <2>4 DEF Coherent, Terminal, query_distribution
  <2> QED
    BY <1>0, <1>6, <2>3, <2>4, <2>5 DEF OwnStep, query_distribution
<1>7. CASE handle_signal(w)
  <2> DEFINE t == [s EXCEPT !.running = FALSE]
  <2>1. worker' = [worker EXCEPT ![w] = t] /\ worker'[w] = t
    BY <1>0, <1>7 DEF handle_signal
  <2>2. t \in WorkerState /\ t.job = s.job /\ Coherent(t)
    BY <1>0 DEF WorkerState, Coherent
  <2> QED
    BY <1>0, <1>7, <2>1, <2>2 DEF OwnStep, handle_signal
<1>8. CASE database_error(w)
  <2>1. /\ worker[w].pc \in {"stats", "distribution", "store"} /\ Fail(w)
        /\ UNCHANGED <<record, queue, caller, reviews>>
    BY <1>8 DEF database_error
  <2> QED
    BY <1>0, <2>1, FailState DEF OwnStep
<1>9. CASE redis_error(w)
  <2>1. CASE s.pc = "store" /\ s.data.status = "completed"
    <3>1. Fail(w) /\ UNCHANGED <<queue, caller, reviews>>
      BY <1>9, <2>1 DEF redis_error
    <3>2. UNCHANGED record \/ record' = [record EXCEPT ![worker[w].job] = worker[w].data]
      BY <1>9 DEF redis_error
    <3> QED
      BY <1>0, <2>1, <3>1, <3>2, FailState DEF OwnStep
  <2>2. CASE ~(s.pc = "store" /\ s.data.status = "completed")
    <3>1. worker' = [worker EXCEPT ![w] = Loop(w)] /\ UNCHANGED <<queue, caller, reviews>>
      BY <1>9, <2>2 DEF redis_error
    <3>2. UNCHANGED record \/ /\ worker[w].pc \in {"mark", "store"}
                              /\ record' = [record EXCEPT ![worker[w].job] = worker[w].data]
      BY <1>9 DEF redis_error
    <3> QED
      BY <1>1, <3>1, <3>2, IdleStates
  <2> QED
    BY <2>1, <2>2
<1> QED
  BY <1>2, <1>3, <1>4, <1>5, <1>6, <1>7, <1>8, <1>9 DEF Own, Work

(* A step is one of the API, of the list, of a worker or of the world.     *)
LEMMA NextIs ==
  ASSUME [Next]_vars
  PROVE  /\ UNCHANGED faults
         /\ \/ \E j \in Jobs : \/ enqueue_summary_job(j) \/ rpush(j)
                               \/ ApiDown(j) \/ expire(j)
            \/ \E w \in Workers : blpop(w) \/ Own(w)
            \/ ReviewChange
            \/ UNCHANGED vars
         /\ ReviewChange \/ UNCHANGED seen
BY DEF Next, Api, Own, vars

LEMMA QueuedIsRecord == Queued \in Record /\ Queued # None
BY SummaryAssumption DEF Queued, Record

(* The job a worker takes, and where that leaves the others.               *)
LEMMA PopStep ==
  ASSUME AtWork, NEW w \in Workers, blpop(w)
  PROVE  /\ Head(queue) \in Jobs /\ queue' \in Seq(Jobs)
         /\ Range(queue) = {Head(queue)} \cup Range(queue')
         /\ IsInjective(queue) =>
              IsInjective(queue') /\ Head(queue) \notin Range(queue')
         /\ \A v \in Workers \ {w} : worker'[v] = worker[v]
         /\ worker[w].job = None
         /\ \/ /\ worker' = [worker EXCEPT ![w] = worker'[w]]
               /\ worker'[w] \in WorkerState /\ Coherent(worker'[w])
               /\ worker'[w].job = Head(queue) /\ worker'[w].pc = "load"
               /\ worker'[w].data = worker[w].data
            \/ "pop_lost" \in faults /\ UNCHANGED worker
         /\ UNCHANGED <<record, caller, reviews>>
<1> DEFINE s == worker[w]
           t == [s EXCEPT !.pc = "load", !.job = Head(queue)]
<1>1. /\ s \in WorkerState /\ s.job = None /\ worker \in [Workers -> WorkerState]
      /\ queue \in Seq(Jobs) /\ queue # <<>> /\ queue' = Tail(queue)
  BY DEF AtWork, TypeOK, WorkerState, Coherent, blpop
<1>2. /\ Head(queue) \in Jobs /\ queue' \in Seq(Jobs)
      /\ Range(queue) = {Head(queue)} \cup Range(queue')
      /\ IsInjective(queue) =>
           IsInjective(queue') /\ Head(queue) \notin Range(queue')
  BY <1>1, RangeOfPop
<1>3. \/ worker' = [worker EXCEPT ![w] = t] /\ worker'[w] = t
      \/ "pop_lost" \in faults /\ UNCHANGED worker
  <2>1. \/ worker' = [worker EXCEPT ![w].pc = "load", ![w].job = Head(queue)]
        \/ "pop_lost" \in faults /\ UNCHANGED worker
    BY DEF blpop
  <2> QED
    BY <1>1, <2>1
<1>4. t \in WorkerState /\ t.job = Head(queue) /\ t.pc = "load" /\ t.data = s.data
  BY <1>1, <1>2 DEF WorkerState
<1>5. Coherent(t)
  BY <1>2, <1>4, SummaryAssumption DEF Coherent
<1>6. UNCHANGED <<record, caller, reviews>>
  BY DEF blpop
<1> HIDE DEF t
<1> QED
  BY <1>1, <1>2, <1>3, <1>4, <1>5, <1>6

LEMMA NextAtWork == AtWork /\ [Next]_vars => AtWork'
<1> SUFFICES ASSUME AtWork, [Next]_vars PROVE AtWork'
  OBVIOUS
<1>0. UNCHANGED faults /\ seen' \in [Jobs -> SUBSET (0..MaxReviews)]
  <2>1. ReviewChange \/ UNCHANGED seen
    BY NextIs
  <2>2. CASE ReviewChange
    <3>1. PICK n \in 0..MaxReviews :
            seen' = [j \in Jobs |-> IF caller[j] = "new" THEN {n}
                                   ELSE seen[j] \cup {n}]
      BY <2>2 DEF ReviewChange
    <3> QED
      BY <3>1, NextIs DEF AtWork, TypeOK
  <2> QED
    BY <2>1, <2>2, NextIs DEF AtWork, TypeOK
<1>1. ASSUME NEW j \in Jobs, enqueue_summary_job(j)
      PROVE  AtWork'
  BY <1>0, <1>1, QueuedIsRecord DEF AtWork, TypeOK, enqueue_summary_job
<1>2. ASSUME NEW j \in Jobs, rpush(j)
      PROVE  AtWork'
  <2>1. queue' \in Seq(Jobs)
    BY <1>2, RangeOfAppend DEF AtWork, TypeOK, rpush
  <2> QED
    BY <1>0, <1>2, <2>1 DEF AtWork, TypeOK, rpush, AfterTimeout
<1>3. ASSUME NEW j \in Jobs, ApiDown(j)
      PROVE  AtWork'
  BY <1>0, <1>3 DEF AtWork, TypeOK, ApiDown, AfterTimeout
<1>4. ASSUME NEW j \in Jobs, expire(j)
      PROVE  AtWork'
  BY <1>0, <1>4 DEF AtWork, TypeOK, expire
<1>5. ASSUME NEW w \in Workers, blpop(w)
      PROVE  AtWork'
  <2>1. \A v \in Workers : worker'[v] \in WorkerState /\ Coherent(worker'[v])
    BY <1>5, PopStep DEF AtWork, TypeOK, WorkerState
  <2>2. worker' \in [Workers -> WorkerState]
    BY <1>5, <2>1, PopStep DEF AtWork, TypeOK, WorkerState
  <2>3. /\ record' \in [Jobs -> Record \cup {None}] /\ queue' \in Seq(Jobs)
        /\ caller' = caller /\ reviews' = reviews
    BY <1>5, PopStep DEF AtWork, TypeOK
  <2> QED
    BY <1>0, <2>1, <2>2, <2>3 DEF AtWork, TypeOK, WorkerState
<1>6. ASSUME NEW w \in Workers, Own(w)
      PROVE  AtWork'
  <2>1. /\ OwnStep(w) /\ worker' = [worker EXCEPT ![w] = worker'[w]]
        /\ worker'[w] \in WorkerState /\ Coherent(worker'[w])
    BY <1>6, OwnSteps
  <2>2. \A v \in Workers : worker'[v] \in WorkerState /\ Coherent(worker'[v])
    BY <2>1 DEF AtWork, TypeOK, WorkerState, OwnStep
  <2>3. worker' \in [Workers -> WorkerState]
    BY <2>1, <2>2 DEF AtWork, TypeOK, WorkerState
  <2>4. record' \in [Jobs -> Record \cup {None}]
    BY <2>1 DEF AtWork, TypeOK, OwnStep
  <2> QED
    BY <1>0, <2>1, <2>2, <2>3, <2>4 DEF AtWork, TypeOK, WorkerState, OwnStep
<1>7. CASE ReviewChange
  BY <1>0, <1>7 DEF AtWork, TypeOK, ReviewChange
<1>8. CASE UNCHANGED vars
  BY <1>8 DEF AtWork, TypeOK, vars
<1> QED
  BY <1>1, <1>2, <1>3, <1>4, <1>5, <1>6, <1>7, <1>8, NextIs

(* What a worker stores is a record, of a job.                             *)
LEMMA Stored ==
  ASSUME AtWork, NEW w \in Workers, worker[w].pc \in {"mark", "store"}
  PROVE  /\ worker[w].job \in Jobs /\ worker[w].job # None
         /\ worker[w].data \in Record /\ worker[w].data # None
BY SummaryAssumption DEF AtWork, TypeOK, Coherent

-----------------------------------------------------------------------------
(* What is in the list or at work is known.                                *)

LEMMA NextKnown == AtWork /\ Known /\ [Next]_vars => Known'
<1> SUFFICES ASSUME AtWork, Known, [Next]_vars,
                    NEW j \in Jobs, caller'[j] = "new"
             PROVE  /\ record'[j] = None /\ j \notin Range(queue')
                    /\ \A w \in Workers : worker'[w].job # j
  BY DEF Known, InQueue, AtWorker
<1>0. /\ caller \in [Jobs -> {"new", "push", "retry", "accepted", "refused"}]
      /\ record \in [Jobs -> Record \cup {None}] /\ queue \in Seq(Jobs)
      /\ j # None
  BY SummaryAssumption DEF AtWork, TypeOK
<1>1. ASSUME caller[j] = "new"
      PROVE  /\ record[j] = None /\ j \notin Range(queue)
             /\ \A w \in Workers : worker[w].job # j
  BY <1>1 DEF Known, InQueue, AtWorker
<1>2. ASSUME NEW k \in Jobs, enqueue_summary_job(k) \/ rpush(k) \/ ApiDown(k)
      PROVE  /\ record'[j] = None /\ j \notin Range(queue')
             /\ \A w \in Workers : worker'[w].job # j
  <2>1. caller'[k] # "new" /\ caller[j] = "new" /\ k # j
    BY <1>0, <1>2
    DEF enqueue_summary_job, rpush, ApiDown, AfterTimeout
  <2>2. CASE enqueue_summary_job(k) \/ ApiDown(k)
    BY <1>0, <1>1, <2>1, <2>2 DEF enqueue_summary_job, ApiDown
  <2>3. CASE rpush(k)
    <3>1. Range(queue') = Range(queue) \cup {k} /\ UNCHANGED <<record, worker>>
      BY <1>0, <2>3, RangeOfAppend DEF rpush
    <3> QED
      BY <1>1, <2>1, <3>1
  <2> QED
    BY <1>2, <2>2, <2>3
<1>3. ASSUME NEW k \in Jobs, expire(k)
      PROVE  /\ record'[j] = None /\ j \notin Range(queue')
             /\ \A w \in Workers : worker'[w].job # j
  BY <1>0, <1>1, <1>3 DEF expire
<1>4. ASSUME NEW w \in Workers, blpop(w)
      PROVE  /\ record'[j] = None /\ j \notin Range(queue')
             /\ \A v \in Workers : worker'[v].job # j
  <2>1. caller[j] = "new"
    BY <1>4, PopStep
  <2> QED
    BY <1>1, <1>4, <2>1, PopStep
<1>5. ASSUME NEW w \in Workers, Own(w)
      PROVE  /\ record'[j] = None /\ j \notin Range(queue')
             /\ \A v \in Workers : worker'[v].job # j
  <2>1. OwnStep(w) /\ caller[j] = "new"
    BY <1>5, OwnSteps DEF OwnStep
  <2> QED
    BY <1>0, <1>1, <2>1 DEF OwnStep
<1>6. CASE ReviewChange \/ UNCHANGED vars
  BY <1>1, <1>6 DEF ReviewChange, vars
<1> QED
  BY <1>2, <1>3, <1>4, <1>5, <1>6, NextIs

-----------------------------------------------------------------------------
(* Only time removes a record, and a job is listed after its record is.    *)

Visible == SetFirst /\ QueuedIsVisible

LEMMA NextVisible == AtWork /\ Visible /\ [Next]_vars => Visible'
<1> SUFFICES ASSUME AtWork, Visible, [Next]_vars, "expiry" \notin faults',
                    NEW j \in Jobs,
                    \/ caller'[j] \in {"push", "retry", "accepted"}
                    \/ j \in Range(queue')
                    \/ \E w \in Workers : worker'[w].job = j
             PROVE  record'[j] # None
  BY DEF Visible, SetFirst, QueuedIsVisible, InQueue, AtWorker
<1>0. /\ caller \in [Jobs -> {"new", "push", "retry", "accepted", "refused"}]
      /\ record \in [Jobs -> Record \cup {None}] /\ queue \in Seq(Jobs)
      /\ worker \in [Workers -> WorkerState]
      /\ j # None /\ "expiry" \notin faults
  BY SummaryAssumption, NextIs DEF AtWork, TypeOK, WorkerState
<1>1. ASSUME \/ caller[j] \in {"push", "retry", "accepted"}
             \/ j \in Range(queue)
             \/ \E w \in Workers : worker[w].job = j
      PROVE  record[j] # None
  BY <1>0, <1>1 DEF Visible, SetFirst, QueuedIsVisible, InQueue, AtWorker
<1>2. ASSUME NEW k \in Jobs, enqueue_summary_job(k)
      PROVE  record'[j] # None
  BY <1>0, <1>1, <1>2, QueuedIsRecord DEF enqueue_summary_job
<1>3. ASSUME NEW k \in Jobs, rpush(k)
      PROVE  record'[j] # None
  <2>1. Range(queue') = Range(queue) \cup {k} /\ UNCHANGED <<record, worker>>
    BY <1>0, <1>3, RangeOfAppend DEF rpush
  <2>2. caller[k] \in {"push", "retry"} /\ \A i \in Jobs \ {k} : caller'[i] = caller[i]
    BY <1>0, <1>3 DEF rpush
  <2> QED
    BY <1>1, <2>1, <2>2
<1>4. ASSUME NEW k \in Jobs, ApiDown(k)
      PROVE  record'[j] # None
  <2>1. /\ UNCHANGED <<record, queue, worker>>
        /\ \A i \in Jobs \ {k} : caller'[i] = caller[i]
        /\ caller'[k] \in {"push", "retry", "accepted"} => caller[k] \in {"push", "retry"}
    BY <1>0, <1>4 DEF ApiDown, AfterTimeout
  <2> QED
    BY <1>1, <2>1
<1>5. ASSUME NEW k \in Jobs, expire(k)
      PROVE  record'[j] # None
  BY <1>0, <1>5 DEF expire
<1>6. ASSUME NEW w \in Workers, blpop(w)
      PROVE  record'[j] # None
  BY <1>0, <1>1, <1>6, PopStep
<1>7. ASSUME NEW w \in Workers, Own(w)
      PROVE  record'[j] # None
  <2>1. OwnStep(w)
    BY <1>7, OwnSteps
  <2>2. record[j] # None
    BY <1>0, <1>1, <2>1 DEF OwnStep
  <2> QED
    BY <1>0, <2>1, <2>2, Stored DEF OwnStep
<1>8. CASE ReviewChange \/ UNCHANGED vars
  BY <1>1, <1>8 DEF ReviewChange, vars
<1> QED
  BY <1>2, <1>3, <1>4, <1>5, <1>6, <1>7, <1>8, NextIs

-----------------------------------------------------------------------------
(* While no reply to the API is lost.                                      *)

Orderly == Known /\ Withheld /\ Single /\ Lags

LEMMA NextWithheld == AtWork /\ Known /\ Withheld /\ [Next]_vars => Withheld'
<1> SUFFICES ASSUME AtWork, Known, Withheld, [Next]_vars, "api_lost" \notin faults',
                    NEW j \in Jobs, caller'[j] # "accepted"
             PROVE  /\ j \notin Range(queue')
                    /\ \A w \in Workers : worker'[w].job # j
                    /\ record'[j] \in {None, Queued}
  BY DEF Withheld, InQueue, AtWorker
<1> DEFINE Inert == /\ j \notin Range(queue)
                    /\ \A w \in Workers : worker[w].job # j
                    /\ record[j] \in {None, Queued}
<1>0. /\ caller \in [Jobs -> {"new", "push", "retry", "accepted", "refused"}]
      /\ record \in [Jobs -> Record \cup {None}] /\ queue \in Seq(Jobs)
      /\ j # None /\ "api_lost" \notin faults
  BY SummaryAssumption, NextIs DEF AtWork, TypeOK
<1>1. caller[j] # "accepted" => Inert
  BY <1>0 DEF Withheld, InQueue, AtWorker
<1>2. ASSUME NEW k \in Jobs, enqueue_summary_job(k)
      PROVE  Inert'
  BY <1>0, <1>1, <1>2 DEF enqueue_summary_job
<1>3. ASSUME NEW k \in Jobs, rpush(k)
      PROVE  Inert'
  <2>1. Range(queue') = Range(queue) \cup {k} /\ UNCHANGED <<record, worker>>
    BY <1>0, <1>3, RangeOfAppend DEF rpush
  <2>2. caller' = [caller EXCEPT ![k] = "accepted"]
    BY <1>0, <1>3 DEF rpush
  <2>3. j # k /\ caller[j] # "accepted"
    BY <1>0, <2>2
  <2> QED
    BY <1>1, <2>1, <2>3
<1>4. ASSUME NEW k \in Jobs, ApiDown(k)
      PROVE  Inert'
  <2>1. UNCHANGED <<record, queue, worker>> /\ caller[j] # "accepted"
    BY <1>0, <1>4 DEF ApiDown, AfterTimeout
  <2> QED
    BY <1>1, <2>1
<1>5. ASSUME NEW k \in Jobs, expire(k)
      PROVE  Inert'
  BY <1>0, <1>1, <1>5 DEF expire
<1>6. ASSUME NEW w \in Workers, blpop(w)
      PROVE  Inert'
  <2>1. Inert
    BY <1>1, <1>6, PopStep
  <2>2. j \notin Range(queue') /\ record'[j] \in {None, Queued}
    BY <1>6, <2>1, PopStep
  <2>3. ASSUME NEW v \in Workers PROVE worker'[v].job # j
    BY <1>6, <2>1, PopStep
  <2> QED
    BY <2>2, <2>3
<1>7. ASSUME NEW w \in Workers, Own(w)
      PROVE  Inert'
  <2>1. OwnStep(w)
    BY <1>7, OwnSteps
  <2>2. Inert
    BY <1>1, <2>1 DEF OwnStep
  <2>3. record' = record \/ record' = [record EXCEPT ![worker[w].job] = worker[w].data]
    BY <2>1 DEF OwnStep
  <2>4. ASSUME NEW v \in Workers PROVE worker'[v].job # j
    BY <1>0, <2>1, <2>2 DEF OwnStep
  <2> QED
    BY <1>0, <2>1, <2>2, <2>3, <2>4 DEF OwnStep
<1>8. CASE ReviewChange \/ UNCHANGED vars
  BY <1>1, <1>8 DEF ReviewChange, vars
<1> QED
  BY <1>2, <1>3, <1>4, <1>5, <1>6, <1>7, <1>8, NextIs

(* A job changes places as a whole, and a new one starts in the list.      *)
LEMMA NextSingle ==
  AtWork /\ Known /\ Withheld /\ Single /\ [Next]_vars => Single'
<1> SUFFICES ASSUME AtWork, Withheld, Single, [Next]_vars, "api_lost" \notin faults'
             PROVE  /\ IsInjective(queue')
                    /\ \A j \in Jobs, w \in Workers :
                         worker'[w].job = j =>
                           /\ j \notin Range(queue')
                           /\ \A v \in Workers : worker'[v].job = j => v = w
  BY DEF Single, InQueue, AtWorker
<1> DEFINE Once(line, at) ==
             /\ IsInjective(line)
             /\ \A j \in Jobs, w \in Workers :
                  at[w].job = j =>
                    /\ j \notin Range(line)
                    /\ \A v \in Workers : at[v].job = j => v = w
<1>0. /\ caller \in [Jobs -> {"new", "push", "retry", "accepted", "refused"}]
      /\ queue \in Seq(Jobs) /\ None \notin Jobs /\ "api_lost" \notin faults
  BY SummaryAssumption, NextIs DEF AtWork, TypeOK
<1>1. Once(queue, worker)
  BY <1>0 DEF Single, InQueue, AtWorker
<1>2. ASSUME UNCHANGED <<queue, worker>>
      PROVE  Once(queue', worker')
  BY <1>1, <1>2
<1>3. ASSUME NEW k \in Jobs, rpush(k)
      PROVE  Once(queue', worker')
  <2>1. k \notin Range(queue) /\ \A w \in Workers : worker[w].job # k
    BY <1>0, <1>3 DEF Withheld, InQueue, AtWorker, rpush
  <2>2. /\ Range(queue') = Range(queue) \cup {k} /\ IsInjective(queue')
        /\ UNCHANGED worker
    BY <1>0, <1>1, <1>3, <2>1, RangeOfAppend DEF rpush
  <2> QED
    BY <1>1, <2>1, <2>2
<1>4. ASSUME NEW w \in Workers, blpop(w)
      PROVE  Once(queue', worker')
  <2>1. /\ Range(queue) = {Head(queue)} \cup Range(queue')
        /\ IsInjective(queue') /\ Head(queue) \notin Range(queue')
        /\ \A v \in Workers \ {w} : worker'[v] = worker[v]
        /\ worker'[w].job \in {Head(queue), None}
        /\ Head(queue) \in Jobs
    BY <1>1, <1>4, PopStep
  <2> QED
    BY <1>0, <1>1, <2>1
<1>5. ASSUME NEW w \in Workers, Own(w)
      PROVE  Once(queue', worker')
  <2>1. OwnStep(w)
    BY <1>5, OwnSteps
  <2> QED
    BY <1>0, <1>1, <2>1 DEF OwnStep
<1> HIDE DEF Once
<1>6. Once(queue', worker')
  <2>1. ASSUME NEW k \in Jobs, enqueue_summary_job(k) \/ ApiDown(k) \/ expire(k)
        PROVE  UNCHANGED <<queue, worker>>
    BY <2>1 DEF enqueue_summary_job, ApiDown, expire
  <2>2. ReviewChange \/ UNCHANGED vars => UNCHANGED <<queue, worker>>
    BY DEF ReviewChange, vars
  <2> QED
    BY <1>2, <1>3, <1>4, <1>5, <2>1, <2>2, NextIs
<1> QED
  BY <1>6 DEF Once

-----------------------------------------------------------------------------
(* What a worker's step does to its job, its copy and the record.          *)

Keeps(w) == worker'[w].job = worker[w].job

Stores(w) ==
  /\ worker[w].pc \in {"mark", "store"}
  /\ record' = [record EXCEPT ![worker[w].job] = worker[w].data]

PutsDown(w) ==
  /\ worker'[w].pc \in {"off", "poll"} /\ worker'[w].data = None
  /\ UNCHANGED record \/ Stores(w)

Loads(w) ==
  /\ worker[w].pc = "load" /\ worker'[w].pc = "mark" /\ Keeps(w)
  /\ worker'[w].data.result = IF record[worker[w].job] = None THEN None
                              ELSE record[worker[w].job].result
  /\ UNCHANGED record

Marks(w) ==
  /\ worker[w].pc = "mark" /\ worker'[w].pc = "stats" /\ Keeps(w)
  /\ worker'[w].data = worker[w].data
  /\ Stores(w)

Counts(w) ==
  /\ worker[w].pc = "stats" /\ worker'[w].pc = "distribution" /\ Keeps(w)
  /\ worker'[w].data = worker[w].data /\ worker'[w].total = reviews
  /\ UNCHANGED record

Completes(w) ==
  /\ worker[w].pc = "distribution" /\ worker'[w].pc = "store" /\ Keeps(w)
  /\ worker'[w].data.status = "completed"
  /\ worker'[w].data.result = [review_count |-> worker[w].total,
                               rating_total |-> reviews]
  /\ UNCHANGED record

Fails(w) ==
  /\ worker'[w].pc = "store" /\ Keeps(w)
  /\ worker'[w].data.status = "failed"
  /\ worker'[w].data.result = worker[w].data.result
  /\ \/ worker[w].pc \in {"stats", "distribution"} /\ UNCHANGED record
     \/ /\ worker[w].pc = "store" /\ worker[w].data.status = "completed"
        /\ UNCHANGED record \/ Stores(w)

Hears(w) ==
  /\ worker'[w].pc = worker[w].pc /\ Keeps(w)
  /\ worker'[w].data = worker[w].data /\ worker'[w].total = worker[w].total
  /\ UNCHANGED record

LEMMA OwnMoves ==
  ASSUME AtWork, NEW w \in Workers, Own(w)
  PROVE  \/ PutsDown(w) \/ Loads(w) \/ Marks(w) \/ Counts(w)
         \/ Completes(w) \/ Fails(w) \/ Hears(w)
<1>0. worker \in [Workers -> WorkerState] /\ worker[w] \in WorkerState
  BY DEF AtWork, TypeOK, WorkerState
<1>1. ASSUME worker' = [worker EXCEPT ![w] = Loop(w)] \/ worker' = [worker EXCEPT ![w] = Idle]
             \/ worker' = [worker EXCEPT ![w] = Off],
             UNCHANGED record \/ Stores(w)
      PROVE  PutsDown(w)
  <2>1. worker'[w] \in {Idle, Off}
    BY <1>0, <1>1, IdleStates
  <2> QED
    BY <1>1, <2>1, IdleStates DEF PutsDown
<1>2. CASE start_worker(w) \/ stop_worker(w) \/ crash(w) \/ store_outcome(w)
  BY <1>1, <1>2 DEF start_worker, stop_worker, crash, store_outcome, Stores
<1>3. CASE load_job(w)
  BY <1>0, <1>3 DEF load_job, Loads, Keeps, WorkerState
<1>4. CASE mark_processing(w)
  BY <1>0, <1>4 DEF mark_processing, Marks, Keeps, Stores, WorkerState
<1>5. CASE query_stats(w)
  BY <1>0, <1>5 DEF query_stats, Counts, Keeps, WorkerState
<1>6. CASE query_distribution(w)
  BY <1>0, <1>6 DEF query_distribution, Completes, Keeps, WorkerState
<1>7. CASE handle_signal(w)
  BY <1>0, <1>7 DEF handle_signal, Hears, Keeps, WorkerState
<1>8. CASE database_error(w)
  <2>1. /\ worker[w].pc \in {"stats", "distribution"} /\ Fail(w)
        /\ UNCHANGED record
    BY <1>8 DEF database_error
  <2> QED
    BY <2>1, FailState DEF Fails, Keeps
<1>9. CASE redis_error(w)
  <2>1. UNCHANGED record \/ Stores(w)
    BY <1>9 DEF redis_error, Stores
  <2>2. CASE worker[w].pc = "store" /\ worker[w].data.status = "completed"
    <3>1. Fail(w)
      BY <1>9, <2>2 DEF redis_error
    <3> QED
      BY <2>1, <2>2, <3>1, FailState DEF Fails, Keeps
  <2>3. CASE ~(worker[w].pc = "store" /\ worker[w].data.status = "completed")
    BY <1>1, <1>9, <2>1, <2>3 DEF redis_error
  <2> QED
    BY <2>2, <2>3
<1> QED
  BY <1>2, <1>3, <1>4, <1>5, <1>6, <1>7, <1>8, <1>9 DEF Own, Work

-----------------------------------------------------------------------------
(* The record lags: it never says more than its one worker has done.       *)

LEMMA OwnLags ==
  ASSUME AtWork, NEW w \in Workers, Own(w), worker'[w].job # None,
         Before(worker[w], record[worker[w].job])
  PROVE  worker'[w].job = worker[w].job
         /\ Before(worker'[w], record'[worker'[w].job])
<1>0. /\ record \in [Jobs -> Record \cup {None}]
      /\ Coherent(worker[w]) /\ worker[w].job \in Jobs \cup {None}
      /\ worker'[w].pc \notin {"off", "poll"} /\ worker'[w].job = worker[w].job
  <2>1. Coherent(worker'[w]) /\ OwnStep(w)
    BY OwnSteps
  <2> QED
    BY <2>1 DEF AtWork, TypeOK, Coherent, OwnStep
<1>1. ASSUME Stores(w)
      PROVE  record'[worker[w].job] = worker[w].data
  BY <1>0, <1>1, Stored DEF Stores
<1>2. CASE Loads(w) \/ Counts(w) \/ Completes(w) \/ Hears(w)
  BY <1>0, <1>2 DEF Loads, Counts, Completes, Hears, Before
<1>3. CASE Marks(w)
  BY <1>0, <1>1, <1>3 DEF Marks, Before, Coherent
<1>4. CASE Fails(w)
  BY <1>0, <1>1, <1>4 DEF Fails, Before, Coherent
<1> QED
  BY <1>0, <1>2, <1>3, <1>4, OwnMoves DEF PutsDown

LEMMA NextLags == AtWork /\ Orderly /\ [Next]_vars => Lags'
<1> SUFFICES ASSUME AtWork, Orderly, [Next]_vars, "api_lost" \notin faults'
             PROVE  /\ \A j \in Jobs :
                         j \in Range(queue') => record'[j] \in {None, Queued}
                    /\ \A v \in Workers :
                         worker'[v].job # None =>
                           Before(worker'[v], record'[worker'[v].job])
  BY DEF Lags, InQueue
<1> DEFINE Waiting(line, rec) ==
             \A j \in Jobs : j \in Range(line) => rec[j] \in {None, Queued}
           Working(at, rec) ==
             \A v \in Workers :
               at[v].job # None => Before(at[v], rec[at[v].job])
<1>0. /\ caller \in [Jobs -> {"new", "push", "retry", "accepted", "refused"}]
      /\ record \in [Jobs -> Record \cup {None}] /\ queue \in Seq(Jobs)
      /\ \A w \in Workers : worker[w].job \in Jobs \cup {None}
      /\ None \notin Jobs /\ "api_lost" \notin faults
  BY SummaryAssumption, NextIs DEF AtWork, TypeOK
<1>1. Waiting(queue, record) /\ Working(worker, record)
  BY <1>0 DEF Orderly, Lags, InQueue
<1>2. /\ \A j \in Jobs : caller[j] # "accepted" => record[j] \in {None, Queued}
      /\ \A j \in Jobs : caller[j] = "new" =>
           j \notin Range(queue) /\ \A w \in Workers : worker[w].job # j
      /\ \A j \in Jobs, w \in Workers :
           worker[w].job = j =>
             /\ j \notin Range(queue)
             /\ \A v \in Workers : worker[v].job = j => v = w
  BY <1>0 DEF Orderly, Known, Withheld, Single, InQueue, AtWorker
<1>3. ASSUME NEW k \in Jobs, enqueue_summary_job(k)
      PROVE  Waiting(queue', record') /\ Working(worker', record')
  <2>1. /\ \A j \in Jobs \ {k} : record'[j] = record[j]
        /\ UNCHANGED <<queue, worker>> /\ caller[k] = "new"
    BY <1>0, <1>3 DEF enqueue_summary_job
  <2>2. \A v \in Workers : worker[v].job # None =>
          record'[worker[v].job] = record[worker[v].job]
    BY <1>0, <1>2, <2>1
  <2> QED
    BY <1>1, <1>2, <2>1, <2>2
<1>4. ASSUME NEW k \in Jobs, rpush(k)
      PROVE  Waiting(queue', record') /\ Working(worker', record')
  <2>1. /\ Range(queue') = Range(queue) \cup {k}
        /\ UNCHANGED <<record, worker>> /\ caller[k] # "accepted"
    BY <1>0, <1>4, RangeOfAppend DEF rpush
  <2> QED
    BY <1>1, <1>2, <2>1
<1>5. ASSUME UNCHANGED <<record, queue, worker>>
      PROVE  Waiting(queue', record') /\ Working(worker', record')
  BY <1>1, <1>5
<1>6. ASSUME NEW k \in Jobs, expire(k)
      PROVE  Waiting(queue', record') /\ Working(worker', record')
  <2>1. /\ \A j \in Jobs : record'[j] \in {record[j], None}
        /\ UNCHANGED <<queue, worker>>
    BY <1>0, <1>6 DEF expire
  <2>2. ASSUME NEW v \in Workers, worker[v].job # None
        PROVE  Before(worker[v], record'[worker[v].job])
    BY <1>0, <1>1, <2>1, <2>2 DEF Before
  <2> QED
    BY <1>1, <2>1, <2>2
<1>7. ASSUME NEW w \in Workers, blpop(w)
      PROVE  Waiting(queue', record') /\ Working(worker', record')
  <2>1. UNCHANGED record /\ Range(queue') \subseteq Range(queue)
        /\ Head(queue) \in Range(queue) /\ Head(queue) \in Jobs
    BY <1>7, PopStep
  <2>2. Before(worker'[w], record[Head(queue)]) \/ worker'[w] = worker[w]
    <3>1. record[Head(queue)] \in {None, Queued}
      BY <1>1, <2>1
    <3>2. worker'[w].pc = "load" \/ worker'[w] = worker[w]
      BY <1>7, PopStep
    <3> QED
      BY <3>1, <3>2 DEF Before, Queued
  <2>3. ASSUME NEW v \in Workers, worker'[v].job # None
        PROVE  Before(worker'[v], record'[worker'[v].job])
    BY <1>1, <1>7, <2>1, <2>2, <2>3, PopStep
  <2> QED
    BY <1>1, <2>1, <2>3
<1>8. ASSUME NEW w \in Workers, Own(w)
      PROVE  Waiting(queue', record') /\ Working(worker', record')
  <2>1. OwnStep(w)
    BY <1>8, OwnSteps
  <2>2. \A j \in Jobs : j # worker[w].job => record'[j] = record[j]
    BY <1>0, <2>1 DEF OwnStep
  <2>3. Waiting(queue', record')
    BY <1>0, <1>1, <1>2, <2>1, <2>2 DEF OwnStep
  <2>4. ASSUME NEW v \in Workers, worker'[v].job # None
        PROVE  Before(worker'[v], record'[worker'[v].job])
    <3>1. CASE v = w
      <4>1. worker[w].job # None
        BY <2>1, <2>4, <3>1 DEF OwnStep
      <4>2. Before(worker[w], record[worker[w].job])
        BY <1>1, <4>1
      <4> QED
        BY <1>8, <2>4, <3>1, <4>2, OwnLags
    <3>2. CASE v # w
      <4>1. worker'[v] = worker[v]
        BY <2>1, <3>2 DEF OwnStep
      <4>2. worker[v].job \in Jobs /\ worker[v].job # worker[w].job
        BY <1>0, <1>2, <2>4, <3>2, <4>1
      <4> QED
        BY <1>1, <2>2, <2>4, <4>1, <4>2
    <3> QED
      BY <3>1, <3>2
  <2> QED
    BY <2>3, <2>4
<1> HIDE DEF Waiting, Working
<1>9. Waiting(queue', record') /\ Working(worker', record')
  <2>1. ASSUME NEW k \in Jobs, ApiDown(k)
        PROVE  UNCHANGED <<record, queue, worker>>
    BY <2>1 DEF ApiDown
  <2>2. ReviewChange \/ UNCHANGED vars => UNCHANGED <<record, queue, worker>>
    BY DEF ReviewChange, vars
  <2> QED
    BY <1>3, <1>4, <1>5, <1>6, <1>7, <1>8, <2>1, <2>2, NextIs
<1> QED
  BY <1>9 DEF Waiting, Working

-----------------------------------------------------------------------------
(* A worker that neither dies nor loses touch with Redis puts its job down *)
(* with its outcome stored.                                                *)
LEMMA OwnLosesNothing ==
  ASSUME AtWork, NEW w \in Workers, Own(w), ~crash(w), ~redis_error(w)
  PROVE  \/ Keeps(w)
         \/ /\ record' = [record EXCEPT ![worker[w].job] = worker[w].data]
            /\ worker[w].data.status \in Terminal /\ worker[w].job \in Jobs
<1>1. CASE start_worker(w) \/ stop_worker(w)
  <2>1. worker[w].job = None
    BY <1>1 DEF start_worker, stop_worker, AtWork, Coherent
  <2> QED
    BY <2>1, OwnSteps DEF OwnStep, Keeps
<1>2. CASE store_outcome(w)
  BY <1>2, Stored DEF store_outcome, AtWork, Coherent
<1>3. CASE Own(w) /\ ~start_worker(w) /\ ~stop_worker(w) /\ ~store_outcome(w)
  <2>1. worker[w] \in WorkerState /\ worker \in [Workers -> WorkerState]
    BY DEF AtWork, TypeOK, WorkerState
  <2>2. CASE load_job(w)
    BY <2>1, <2>2 DEF load_job, Keeps, WorkerState
  <2>3. CASE mark_processing(w)
    BY <2>1, <2>3 DEF mark_processing, Keeps, WorkerState
  <2>4. CASE query_stats(w)
    BY <2>1, <2>4 DEF query_stats, Keeps, WorkerState
  <2>5. CASE query_distribution(w)
    BY <2>1, <2>5 DEF query_distribution, Keeps, WorkerState
  <2>6. CASE handle_signal(w)
    BY <2>1, <2>6 DEF handle_signal, Keeps, WorkerState
  <2>7. CASE database_error(w)
    BY <2>7, FailState DEF database_error, Keeps
  <2> QED
    BY <1>3, <2>2, <2>3, <2>4, <2>5, <2>6, <2>7 DEF Own, Work
<1> QED
  BY <1>1, <1>2, <1>3

LEMMA NextNothingLost == AtWork /\ NothingLost /\ [Next]_vars => NothingLost'
<1> SUFFICES ASSUME AtWork, NothingLost, [Next]_vars,
                    faults' \cap Losses = {}, NEW j \in Jobs,
                    caller'[j] = "accepted"
             PROVE  \/ j \in Range(queue')
                    \/ \E w \in Workers : worker'[w].job = j
                    \/ record'[j].status \in Terminal
  BY DEF NothingLost, InQueue, AtWorker
<1>0. /\ caller \in [Jobs -> {"new", "push", "retry", "accepted", "refused"}]
      /\ record \in [Jobs -> Record \cup {None}] /\ queue \in Seq(Jobs)
      /\ j # None /\ faults \cap Losses = {}
  BY SummaryAssumption, NextIs DEF AtWork, TypeOK
<1>1. ASSUME caller[j] = "accepted"
      PROVE  \/ j \in Range(queue)
             \/ \E w \in Workers : worker[w].job = j
             \/ record[j].status \in Terminal
  BY <1>0, <1>1 DEF NothingLost, InQueue, AtWorker
<1>2. ASSUME NEW k \in Jobs, enqueue_summary_job(k) \/ ApiDown(k)
      PROVE  \/ j \in Range(queue')
             \/ \E w \in Workers : worker'[w].job = j
             \/ record'[j].status \in Terminal
  <2>1. /\ UNCHANGED <<queue, worker>> /\ caller[j] = "accepted"
        /\ record'[j] = record[j]
    BY <1>0, <1>2 DEF enqueue_summary_job, ApiDown, AfterTimeout
  <2> QED
    BY <1>1, <2>1
<1>3. ASSUME NEW k \in Jobs, rpush(k)
      PROVE  \/ j \in Range(queue')
             \/ \E w \in Workers : worker'[w].job = j
             \/ record'[j].status \in Terminal
  <2>1. Range(queue') = Range(queue) \cup {k} /\ UNCHANGED <<record, worker>>
    BY <1>0, <1>3, RangeOfAppend DEF rpush
  <2>2. k = j \/ caller[j] = "accepted"
    BY <1>0, <1>3 DEF rpush
  <2> QED
    BY <1>1, <2>1, <2>2
<1>4. ASSUME NEW k \in Jobs
      PROVE  ~expire(k)
  BY <1>0 DEF expire, Losses
<1>5. ASSUME NEW w \in Workers, blpop(w)
      PROVE  \/ j \in Range(queue')
             \/ \E v \in Workers : worker'[v].job = j
             \/ record'[j].status \in Terminal
  <2>1. /\ Range(queue) = {Head(queue)} \cup Range(queue')
        /\ \A v \in Workers \ {w} : worker'[v] = worker[v]
        /\ worker[w].job = None /\ worker'[w].job = Head(queue)
        /\ UNCHANGED <<record, caller>>
    BY <1>0, <1>5, PopStep DEF Losses
  <2> QED
    BY <1>0, <1>1, <2>1
<1>6. ASSUME NEW w \in Workers, Own(w)
      PROVE  \/ j \in Range(queue')
             \/ \E v \in Workers : worker'[v].job = j
             \/ record'[j].status \in Terminal
  <2>1. OwnStep(w)
    BY <1>6, OwnSteps
  <2>2. ~crash(w) /\ ~redis_error(w)
    BY <1>0 DEF crash, redis_error, Losses
  <2>3. \/ Keeps(w)
        \/ /\ record' = [record EXCEPT ![worker[w].job] = worker[w].data]
           /\ worker[w].data.status \in Terminal /\ worker[w].job \in Jobs
    BY <1>6, <2>2, OwnLosesNothing
  <2>4. CASE worker[w].job = j
    <3>1. CASE Keeps(w)
      BY <2>4, <3>1 DEF Keeps
    <3>2. CASE ~Keeps(w)
      BY <1>0, <2>3, <2>4, <3>2
    <3> QED
      BY <3>1, <3>2
  <2>5. CASE worker[w].job # j
    <3>1. record'[j] = record[j]
      BY <1>0, <2>1, <2>5 DEF OwnStep
    <3> QED
      BY <1>1, <2>1, <2>5, <3>1 DEF OwnStep
  <2> QED
    BY <2>4, <2>5
<1>7. CASE ReviewChange \/ UNCHANGED vars
  BY <1>1, <1>7 DEF ReviewChange, vars
<1> QED
  BY <1>2, <1>3, <1>4, <1>5, <1>6, <1>7, NextIs

-----------------------------------------------------------------------------
(* Nothing a worker reads or keeps is older than the request of its job.   *)

LEMMA NextRecent == AtWork /\ Known /\ Recent /\ [Next]_vars => Recent'
<1> SUFFICES ASSUME AtWork, Known, Recent, [Next]_vars PROVE Recent'
  OBVIOUS
<1>0. /\ record \in [Jobs -> Record \cup {None}]
      /\ \A w \in Workers : worker[w].job \in Jobs \cup {None}
      /\ reviews \in 0..MaxReviews /\ seen \in [Jobs -> SUBSET (0..MaxReviews)]
  BY DEF AtWork, TypeOK
<1>1. /\ \A j \in Jobs : reviews \in seen[j] /\ Since(record[j], j)
      /\ \A v \in Workers : SinceAt(worker[v])
  BY DEF Recent
<1>2. \A j \in Jobs : Since(None, j) /\ Since(Queued, j)
  BY DEF Since, Queued
<1>3. ASSUME UNCHANGED <<reviews, seen>>,
             \A j \in Jobs : Since(record'[j], j),
             \A v \in Workers : SinceAt(worker'[v])
      PROVE  Recent'
  BY <1>1, <1>3 DEF Recent, Since, SinceAt
<1>4. ASSUME NEW k \in Jobs,
             enqueue_summary_job(k) \/ rpush(k) \/ ApiDown(k) \/ expire(k),
             UNCHANGED seen
      PROVE  Recent'
  <2>1. \A j \in Jobs : record'[j] \in {record[j], None, Queued}
    BY <1>0, <1>4 DEF enqueue_summary_job, rpush, ApiDown, expire
  <2>2. UNCHANGED <<worker, reviews>>
    BY <1>4 DEF enqueue_summary_job, rpush, ApiDown, expire
  <2>3. \A j \in Jobs : Since(record'[j], j)
    BY <1>1, <1>2, <2>1
  <2>4. \A v \in Workers : SinceAt(worker'[v])
    BY <1>1, <2>2
  <2> QED
    BY <1>3, <1>4, <2>2, <2>3, <2>4
<1>5. ASSUME NEW w \in Workers, blpop(w), UNCHANGED seen
      PROVE  Recent'
  <2>1. UNCHANGED <<record, reviews>>
    BY <1>5, PopStep
  <2>2. ASSUME NEW v \in Workers
        PROVE  SinceAt(worker'[v])
    <3>1. CASE worker'[v] = worker[v]
      BY <1>1, <3>1
    <3>2. CASE worker'[v].pc = "load"
      BY <3>2 DEF SinceAt
    <3> QED
      BY <1>5, <3>1, <3>2, PopStep
  <2> QED
    BY <1>1, <1>3, <1>5, <2>1, <2>2
<1>6. ASSUME NEW w \in Workers, Own(w), UNCHANGED seen
      PROVE  Recent'
  <2>1. OwnStep(w) /\ reviews' = reviews
    BY <1>6, OwnSteps DEF OwnStep
  <2>2. SinceAt(worker[w]) /\ Coherent(worker[w])
    BY <1>1 DEF AtWork
  <2>3. ASSUME NEW j \in Jobs
        PROVE  Since(record'[j], j)
    BY <1>0, <1>1, <2>1, <2>2 DEF OwnStep, SinceAt
  <2>4. SinceAt(worker'[w])
    <3>1. CASE PutsDown(w)
      BY <3>1 DEF PutsDown, SinceAt
    <3>2. CASE Loads(w)
      <4>1. worker[w].job \in Jobs
        BY <1>0, <2>2, <3>2 DEF Loads, Coherent
      <4>2. Since(record[worker[w].job], worker[w].job)
        BY <1>1, <4>1
      <4> QED
        BY <3>2, <4>2 DEF Loads, Keeps, SinceAt, Since
    <3>3. CASE Marks(w) \/ Hears(w)
      BY <2>2, <3>3 DEF Marks, Hears, Keeps, SinceAt
    <3>4. CASE Counts(w)
      <4>1. worker[w].job \in Jobs
        BY <1>0, <2>2, <3>4 DEF Counts, Coherent
      <4> QED
        BY <1>1, <2>2, <3>4, <4>1 DEF Counts, Keeps, SinceAt
    <3>5. CASE Completes(w)
      <4>1. worker[w].job \in Jobs
        BY <1>0, <2>2, <3>5 DEF Completes, Coherent
      <4> QED
        BY <1>1, <2>2, <3>5, <4>1 DEF Completes, Keeps, SinceAt, Since
    <3>6. CASE Fails(w)
      <4>1. worker[w].data # None /\ Since(worker[w].data, worker[w].job)
        BY <2>2, <3>6 DEF Fails, Coherent, SinceAt
      <4> QED
        BY <3>6, <4>1 DEF Fails, Keeps, SinceAt, Since
    <3> QED
      BY <1>6, <3>1, <3>2, <3>3, <3>4, <3>5, <3>6, OwnMoves
  <2>5. \A v \in Workers : SinceAt(worker'[v])
    BY <1>1, <2>1, <2>4 DEF OwnStep
  <2> QED
    BY <1>3, <1>6, <2>1, <2>3, <2>5
<1>7. CASE ReviewChange
  <2>1. PICK n \in 0..MaxReviews :
          /\ reviews' = n
          /\ seen' = [j \in Jobs |-> IF caller[j] = "new" THEN {n}
                                    ELSE seen[j] \cup {n}]
    BY <1>7 DEF ReviewChange
  <2>2. UNCHANGED <<record, worker>>
    BY <1>7 DEF ReviewChange
  <2>3. ASSUME NEW j \in Jobs
        PROVE  reviews' \in seen'[j] /\ (caller[j] # "new" => seen[j] \subseteq seen'[j])
    BY <2>1
  <2>4. ASSUME NEW j \in Jobs
        PROVE  reviews' \in seen'[j] /\ Since(record[j], j)'
    <3>1. CASE caller[j] = "new"
      BY <2>2, <2>3, <3>1 DEF Known, Since
    <3>2. CASE caller[j] # "new"
      BY <1>1, <2>2, <2>3, <3>2 DEF Since
    <3> QED
      BY <3>1, <3>2
  <2>5. ASSUME NEW w \in Workers
        PROVE  SinceAt(worker[w])'
    <3> DEFINE j == worker[w].job
    <3>1. CASE j = None
      BY <2>2, <3>1 DEF AtWork, Coherent, SinceAt
    <3>2. CASE j # None
      <4>1. j \in Jobs /\ caller[j] # "new"
        BY <1>0, <3>2 DEF Known, AtWorker
      <4>2. seen[j] \subseteq seen'[j] /\ SinceAt(worker[w])
        BY <1>1, <2>3, <4>1
      <4> QED
        BY <2>2, <4>2 DEF SinceAt, Since
    <3> QED
      BY <3>1, <3>2
  <2> QED
    BY <2>4, <2>5 DEF Recent
<1>8. CASE UNCHANGED vars
  <2>1. UNCHANGED <<record, worker, reviews, seen>>
    BY <1>8 DEF vars
  <2> QED
    BY <1>1, <1>3, <2>1
<1> QED
  BY <1>4, <1>5, <1>6, <1>7, <1>8, NextIs

-----------------------------------------------------------------------------
LEMMA InitQueue == Init => QueueInv
<1> SUFFICES ASSUME Init PROVE QueueInv
  OBVIOUS
<1>1. Range(queue) = {} /\ IsInjective(queue)
  BY DEF Init, Range, IsInjective
<1>2. \A w \in Workers : /\ worker[w] = Off /\ Off \in WorkerState
                         /\ Off.job = None /\ Off.data = None /\ Off.pc = "off"
  <2>1. Idle \in WorkerState
    BY SummaryAssumption DEF Idle, WorkerState
  <2>2. Idle.job = None /\ Idle.data = None
    BY DEF Idle
  <2>3. /\ Off \in WorkerState /\ Off.job = None /\ Off.data = None
        /\ Off.pc = "off"
    BY <2>1, <2>2 DEF Off, WorkerState
  <2> QED
    BY <2>3 DEF Init
<1>3. AtWork
  <2>1. TypeOK
    BY <1>2, SummaryAssumption DEF Init, TypeOK, WorkerState
  <2> QED
    BY <1>2, <2>1 DEF AtWork, Coherent
<1>4. Known /\ Withheld
  BY <1>1, <1>2, SummaryAssumption
  DEF Init, Known, Withheld, InQueue, AtWorker
<1>5. SetFirst /\ QueuedIsVisible /\ Single /\ NothingLost
  BY <1>1, <1>2, SummaryAssumption
  DEF Init, SetFirst, QueuedIsVisible, Single, NothingLost, InQueue, AtWorker
<1>6. Lags
  BY <1>1, <1>2 DEF Init, Lags, InQueue
<1>7. Recent
  BY <1>2 DEF Init, Recent, Since, SinceAt
<1> QED
  BY <1>3, <1>4, <1>5, <1>6, <1>7 DEF QueueInv

LEMMA NextQueue == QueueInv /\ [Next]_vars => QueueInv'
<1> SUFFICES ASSUME QueueInv, [Next]_vars PROVE QueueInv'
  OBVIOUS
<1>1. AtWork /\ Visible /\ Orderly /\ NothingLost /\ Recent
  BY DEF QueueInv, Visible, Orderly
<1>2. AtWork' /\ Known' /\ Visible' /\ Lags'
  BY <1>1, NextAtWork, NextKnown, NextVisible, NextLags DEF Orderly
<1>3. Withheld' /\ Single'
  BY <1>1, NextWithheld, NextSingle DEF Orderly
<1>4. NothingLost' /\ Recent'
  BY <1>1, NextNothingLost, NextRecent DEF Orderly
<1> QED
  BY <1>2, <1>3, <1>4 DEF QueueInv, Visible

(* The list, the workers, the records and the callers always agree.        *)
THEOREM QueueInvariant == Spec => []QueueInv
BY InitQueue, NextQueue, PTL DEF Spec

(* Jobs, records and workers are what the program says they are, and the   *)
(* list holds jobs only.                                                   *)
THEOREM QueueTypeCorrect == Spec => []TypeOK
<1>1. QueueInv => TypeOK
  BY DEF QueueInv, AtWork
<1> QED
  BY <1>1, QueueInvariant, PTL

(* enqueue_summary_job's order, SET before RPUSH, does what it is for, with *)
(* any number of workers and whatever fails but the keys' day.             *)
THEOREM ListedHasRecord == Spec => []QueuedIsVisible
<1>1. QueueInv => QueuedIsVisible
  BY DEF QueueInv
<1> QED
  BY <1>1, QueueInvariant, PTL

(* An accepted job is in the list, at a worker or answered, through any    *)
(* number of doubled pushes, failed queries and stops.                     *)
THEOREM AcceptedIsKept == Spec => []NothingLost
<1>1. QueueInv => NothingLost
  BY DEF QueueInv
<1> QED
  BY <1>1, QueueInvariant, PTL

(* A 503 that no lost reply lies behind means that nothing is done.        *)
THEOREM RefusedIsLeftAlone == Spec => []RefusedIsInert
<1>1. QueueInv => RefusedIsInert
  BY DEF QueueInv, Withheld, RefusedIsInert
<1> QED
  BY <1>1, QueueInvariant, PTL

(* Every number of a result was true after the job was asked for, whatever *)
(* reviews are written between the two queries, also where the result is   *)
(* one an earlier run of the job left in the copy that fails.              *)
THEOREM SummariesAreFresh == Spec => []SummaryIsFresh
<1>1. QueueInv => SummaryIsFresh
  BY DEF QueueInv, Recent, Since, SummaryIsFresh
<1> QED
  BY <1>1, QueueInvariant, PTL

-----------------------------------------------------------------------------
(* The contract.  Its variables, as the queue's determine them:            *)

Taken == [w \in Workers |-> worker[w].job]

Past == {j \in Jobs : /\ caller[j] = "accepted"
                      /\ ~InQueue(j)
                      /\ \A w \in Workers : ~AtWorker(w, j)}

StatusIn(rec) == [j \in Jobs |-> IF rec[j] = None THEN None ELSE rec[j].status]

Status == StatusIn(record)

LEMMA ContractFresh ==
  ASSUME NEW j \in Jobs, j \notin Range(queue),
         \A w \in Workers : worker[w].job # j, caller[j] # "accepted"
  PROVE  Contract!Fresh(j)
<1>1. j \notin Range(Taken)
  BY DEF Range, Taken
<1>2. j \notin Past
  BY DEF Past
<1> QED
  BY <1>1, <1>2
  DEF Contract!Fresh, Contract!Range, Range, Taken, Past

(* Storing a record changes one status.                                    *)
LEMMA StatusStored ==
  ASSUME record \in [Jobs -> Record \cup {None}], NEW j \in Jobs,
         NEW r \in Record, record' = [record EXCEPT ![j] = r]
  PROVE  Status' = [Status EXCEPT ![j] = r.status]
<1>1. r # None
  BY SummaryAssumption
<1> QED
  BY <1>1 DEF Status, StatusIn

(* What is over depends on where the jobs are and whom they were promised. *)
LEMMA PastKept ==
  ASSUME \A j \in Jobs : (caller[j] = "accepted") <=> (caller'[j] = "accepted"),
         \A j \in Jobs : caller[j] = "accepted" =>
           ((j \in Range(queue) \/ \E w \in Workers : worker[w].job = j)
             <=> (j \in Range(queue') \/ \E w \in Workers : worker'[w].job = j))
  PROVE  Past' = Past
BY DEF Past, InQueue, AtWorker

LEMMA ContractStep ==
  QueueInv /\ "api_lost" \notin faults /\ [Next]_vars
    => Contract!CNext \/ UNCHANGED Contract!cvars
<1> SUFFICES ASSUME QueueInv, "api_lost" \notin faults, [Next]_vars
             PROVE  Contract!CNext \/ UNCHANGED Contract!cvars
  OBVIOUS
<1>0. /\ caller \in [Jobs -> {"new", "push", "retry", "accepted", "refused"}]
      /\ record \in [Jobs -> Record \cup {None}] /\ queue \in Seq(Jobs)
      /\ \A w \in Workers : worker[w].job \in Jobs \cup {None}
      /\ None \notin Jobs /\ AtWork
  BY SummaryAssumption DEF QueueInv, AtWork, TypeOK
<1>1. /\ \A j \in Jobs : caller[j] # "accepted" =>
           j \notin Range(queue) /\ \A w \in Workers : worker[w].job # j
      /\ \A j \in Jobs, w \in Workers :
           worker[w].job = j =>
             /\ j \notin Range(queue)
             /\ \A v \in Workers : worker[v].job = j => v = w
      /\ IsInjective(queue)
  BY DEF QueueInv, Withheld, Single, InQueue, AtWorker
<1>2. ASSUME UNCHANGED <<queue, record>>, Taken' = Taken, Past' = Past
      PROVE  UNCHANGED Contract!cvars
  BY <1>2 DEF Contract!cvars, Taken, Past
<1>3. ASSUME NEW j \in Jobs, enqueue_summary_job(j)
      PROVE  Contract!Submit(j)
  <2>1. /\ caller[j] = "new" /\ caller' = [caller EXCEPT ![j] = "push"]
        /\ record' = [record EXCEPT ![j] = Queued]
        /\ UNCHANGED <<queue, worker>>
    BY <1>3 DEF enqueue_summary_job
  <2>2. record[j] = None
    BY <2>1 DEF QueueInv, Known
  <2>3. Contract!Fresh(j)
    BY <1>1, <2>1, ContractFresh
  <2>4. Status' = [Status EXCEPT ![j] = "queued"] /\ Status[j] = None
    <3>1. Status' = [Status EXCEPT ![j] = Queued.status]
      BY <1>0, <2>1, QueuedIsRecord, StatusStored
    <3> QED
      BY <2>2, <3>1 DEF Queued, Status, StatusIn
  <2>5. Past' = Past
    BY <1>0, <2>1, PastKept
  <2>6. Taken' = Taken
    BY <2>1 DEF Taken
  <2> QED
    BY <2>1, <2>3, <2>4, <2>5, <2>6
    DEF Contract!Submit, Status, StatusIn, Past, Taken
<1>4. ASSUME NEW j \in Jobs, rpush(j)
      PROVE  Contract!Push(j)
  <2>1. /\ caller[j] # "accepted" /\ caller' = [caller EXCEPT ![j] = "accepted"]
        /\ queue' = Append(queue, j) /\ UNCHANGED <<record, worker>>
    BY <1>4 DEF rpush
  <2>2. Contract!Fresh(j)
    BY <1>1, <2>1, ContractFresh
  <2>3. Range(queue') = Range(queue) \cup {j}
    BY <1>0, <2>1, RangeOfAppend
  <2>4. Past' = Past
    BY <1>0, <2>1, <2>3 DEF Past, InQueue, AtWorker
  <2> QED
    BY <2>1, <2>2, <2>4 DEF Contract!Push, Past
<1>5. ASSUME NEW j \in Jobs, ApiDown(j)
      PROVE  UNCHANGED Contract!cvars
  <2>1. /\ UNCHANGED <<record, queue, worker>>
        /\ \A k \in Jobs : caller[k] = "accepted" <=> caller'[k] = "accepted"
    BY <1>0, <1>5 DEF ApiDown, AfterTimeout
  <2>2. Past' = Past /\ Taken' = Taken
    BY <2>1, PastKept DEF Taken
  <2> QED
    BY <1>2, <2>1, <2>2
<1>6. ASSUME NEW j \in Jobs, expire(j)
      PROVE  Contract!Expire(j)
  <2>1. record' = [record EXCEPT ![j] = None] /\ UNCHANGED <<queue, caller, worker>>
    BY <1>6 DEF expire
  <2>2. Status' = [Status EXCEPT ![j] = None]
    BY <1>0, <2>1 DEF Status, StatusIn
  <2>3. Past' = Past /\ Taken' = Taken
    BY <2>1, PastKept DEF Taken
  <2> QED
    BY <2>1, <2>2, <2>3 DEF Contract!Expire, Status, StatusIn, Past, Taken
<1>7. ASSUME NEW w \in Workers, blpop(w)
      PROVE  Contract!Take(w)
  <2> DEFINE h == Head(queue)
  <2>1. /\ queue # <<>> /\ queue' = Tail(queue)
        /\ Taken[w] = None /\ UNCHANGED <<record, caller>>
    BY <1>0, <1>7, PopStep DEF blpop, Taken
  <2>2. /\ h \in Jobs /\ Range(queue) = {h} \cup Range(queue')
        /\ h \notin Range(queue')
        /\ \A v \in Workers \ {w} : worker'[v] = worker[v]
        /\ worker[w].job = None
        /\ worker'[w].job = h \/ UNCHANGED worker
    BY <1>0, <1>1, <1>7, PopStep
  <2>3. caller[h] = "accepted" /\ \A v \in Workers : worker[v].job # h
    BY <1>1, <2>2
  <2> HIDE DEF h
  <2>4. CASE worker'[w].job = h
    <3>1. Taken' = [Taken EXCEPT ![w] = h]
      BY <2>2, <2>4 DEF Taken
    <3>2. Past' = Past
      BY <1>0, <2>1, <2>2, <2>4, PastKept
    <3> QED
      BY <2>1, <3>1, <3>2 DEF Contract!Take, Taken, Past, h
  <2>5. CASE UNCHANGED worker
    <3>1. Taken' = Taken
      BY <2>5 DEF Taken
    <3>2. Past' = Past \cup {h}
      BY <2>1, <2>2, <2>3, <2>5 DEF Past, InQueue, AtWorker
    <3> QED
      BY <2>1, <3>1, <3>2 DEF Contract!Take, Taken, Past, h
  <2> QED
    BY <2>2, <2>4, <2>5
<1>8. ASSUME NEW w \in Workers, Own(w)
      PROVE  Contract!Work(w) \/ UNCHANGED Contract!cvars
  <2> DEFINE j == worker[w].job
  <2>1. OwnStep(w)
    BY <1>0, <1>8, OwnSteps
  <2>2. CASE j = None
    <3>1. UNCHANGED record
      BY <1>0, <2>1, <2>2, Stored DEF OwnStep
    <3>2. \A v \in Workers : worker'[v].job = worker[v].job
      BY <2>1, <2>2 DEF OwnStep
    <3>3. Taken' = Taken
      BY <3>2 DEF Taken
    <3>4. Past' = Past
      BY <2>1, <3>2, PastKept DEF OwnStep
    <3> QED
      BY <1>2, <2>1, <3>1, <3>3, <3>4 DEF OwnStep
  <2>3. CASE j # None
    <3>1. j \in Jobs /\ Taken[w] = j /\ caller[j] = "accepted"
      BY <1>0, <1>1, <2>3 DEF Taken
    <3>2. PICK s \in {"processing", "completed", "failed", Status[j]} :
            Contract!Forward(Status[j], s) /\ Status' = [Status EXCEPT ![j] = s]
      <4>1. CASE UNCHANGED record
        BY <4>1 DEF Contract!Forward, Status, StatusIn
      <4>2. CASE UNCHANGED record \/ Stores(w)
        <5>1. CASE Stores(w)
          <6>1. Status' = [Status EXCEPT ![j] = worker[w].data.status]
            BY <1>0, <5>1, Stored, StatusStored DEF Stores
          <6>2. /\ worker[w].pc = "mark" => worker[w].data.status = "processing"
                /\ worker[w].pc = "store" => worker[w].data.status \in Terminal
                /\ worker[w].pc \in {"mark", "store"}
            BY <1>0, <5>1 DEF AtWork, Coherent, Stores
          <6>3. Before(worker[w], record[j])
            BY <2>3 DEF QueueInv, Lags
          <6>4. Contract!Forward(Status[j], worker[w].data.status)
            BY <3>1, <6>2, <6>3
            DEF Contract!Forward, Before, Status, StatusIn, Terminal
          <6>5. worker[w].data.status \in {"processing", "completed", "failed"}
            BY <6>2 DEF Terminal
          <6> QED
            BY <6>1, <6>4, <6>5
        <5> QED
          BY <4>1, <4>2, <5>1
      <4> QED
        BY <2>1, <4>2 DEF OwnStep, Stores
    <3>3. CASE worker'[w].job = j
      <4>1. \A v \in Workers : worker'[v].job = worker[v].job
        BY <2>1, <3>3 DEF OwnStep
      <4>2. Taken' = Taken
        BY <4>1 DEF Taken
      <4>3. Past' = Past
        BY <2>1, <4>1, PastKept DEF OwnStep
      <4> QED
        BY <2>1, <2>3, <3>1, <3>2, <4>2, <4>3
        DEF Contract!Work, OwnStep, Status, StatusIn, Taken, Past
    <3>4. CASE worker'[w].job = None
      <4>1. Taken' = [Taken EXCEPT ![w] = None]
        BY <2>1, <3>4 DEF OwnStep, Taken
      <4>2. Past' = Past \cup {j}
        BY <1>0, <1>1, <2>1, <3>1, <3>4 DEF OwnStep, Past, InQueue, AtWorker
      <4> QED
        BY <2>1, <2>3, <3>1, <3>2, <4>1, <4>2
        DEF Contract!Work, OwnStep, Status, StatusIn, Taken, Past
    <3> QED
      BY <2>1, <3>3, <3>4 DEF OwnStep
  <2> QED
    BY <2>2, <2>3
<1>9. CASE ReviewChange \/ UNCHANGED vars
  <2>1. UNCHANGED <<record, queue, caller, worker>>
    BY <1>9 DEF ReviewChange, vars
  <2>2. Past' = Past /\ Taken' = Taken
    BY <2>1, PastKept DEF Taken
  <2> QED
    BY <1>2, <2>1, <2>2
<1> QED
  BY <1>3, <1>4, <1>5, <1>6, <1>7, <1>8, <1>9, NextIs DEF Contract!CNext

LEMMA ContractInit == Init => Contract!CInit
<1> SUFFICES ASSUME Init PROVE Contract!CInit
  OBVIOUS
<1>1. \A w \in Workers : worker[w].job = None
  BY InitQueue, SummaryAssumption DEF Init, QueueInv, AtWork, Coherent, Off, Idle
<1>2. Past = {} /\ Taken = [w \in Workers |-> None] /\ Status = [j \in Jobs |-> None]
  BY <1>1 DEF Init, Past, Taken, Status, StatusIn
<1> QED
  BY <1>2 DEF Init, Contract!CInit, Past, Taken, Status, StatusIn

(* Jobs are taken in their order, each once, and a polled status goes      *)
(* forward only: every step of the queue, whatever fails but a reply to    *)
(* the API, is a step of the contract or none of its business.             *)
THEOREM QueueKeepsContract == Spec => KeepsQueueContract
<1>1. QueueInv /\ [Next]_vars
        => [\/ "api_lost" \in faults
            \/ Contract!CNext
            \/ UNCHANGED Contract!cvars]_vars
  BY ContractStep
<1> QED
  BY <1>1, ContractInit, QueueInvariant, PTL DEF Spec, KeepsQueueContract
=============================================================================
