------------------------- MODULE RequestPoolProofs -------------------------
(***************************************************************************)
(* Conservation of connections in RequestPool, for any number of requests, *)
(* threads and connections.  What every step needs is how the number of    *)
(* requests that hold a connection changes when one request moves.         *)
(***************************************************************************)
EXTENDS RequestPool, FiniteSetTheorems, TLAPS

One(condition) == IF condition THEN 1 ELSE 0

(* The requests at given places are finitely many.                         *)
LEMMA InIsFinite ==
  ASSUME NEW places
  PROVE  IsFiniteSet(In(places)) /\ Cardinality(In(places)) \in Nat
<1>1. IsFiniteSet(Requests) /\ In(places) \subseteq Requests
  BY PoolAssumption DEF In
<1> QED
  BY <1>1, FS_Subset, FS_CardinalityType

(* A move counts where it ends and no more where it began.                 *)
LEMMA MoveCounts ==
  ASSUME TypeOK, NEW r \in Requests, NEW place, Move(r, place), NEW places
  PROVE  Cardinality(In(places))' + One(at[r] \in places)
           = Cardinality(In(places)) + One(place \in places)
<1>1. IsFiniteSet(In(places)) /\ Cardinality(In(places)) \in Nat
  BY InIsFinite
<1>2. In(places)' = IF place \in places THEN In(places) \cup {r}
                    ELSE In(places) \ {r}
  BY DEF In, Move, TypeOK
<1>3. r \in In(places) <=> at[r] \in places
  BY DEF In
<1>4. /\ Cardinality(In(places) \cup {r})
           = IF r \in In(places) THEN Cardinality(In(places))
             ELSE Cardinality(In(places)) + 1
      /\ Cardinality(In(places) \ {r})
           = IF r \in In(places) THEN Cardinality(In(places)) - 1
             ELSE Cardinality(In(places))
  BY <1>1, FS_AddElement, FS_RemoveElement
<1> QED
  BY <1>1, <1>2, <1>3, <1>4 DEF One

(* The pool's counter stays in its bounds because nothing leaks: the bound *)
(* on free is not inductive without NoLeak.                                *)
PoolInv == TypeOK /\ NoLeak

LEMMA InitPool == Init => PoolInv
<1> SUFFICES ASSUME Init PROVE PoolInv
  OBVIOUS
<1>1. In(Holding) = {}
  BY DEF Init, In, Holding
<1>2. Cardinality(In(Holding)) = 0
  BY <1>1, FS_EmptySet
<1> QED
  BY <1>2, PoolAssumption
  DEF Init, PoolInv, TypeOK, NoLeak, Places, Job, NoJob, JobHolds

(* A request that moves takes a connection exactly when it starts to hold  *)
(* one, and gives it back when it ceases to.                               *)
LEMMA MovePool ==
  ASSUME PoolInv, NEW r \in Requests, NEW place \in Places, Move(r, place),
         UNCHANGED job, free' \in Nat,
         free' + One(place \in Holding) = free + One(at[r] \in Holding)
  PROVE  PoolInv'
<1> DEFINE held == Cardinality(In(Holding))
<1>1. held' + One(at[r] \in Holding) = held + One(place \in Holding)
  BY MoveCounts DEF PoolInv
<1>2. held \in Nat /\ held' \in Nat
  <2>1. Cardinality(In(Holding))' \in Nat
    <3>1. IsFiniteSet(Requests) /\ In(Holding)' \subseteq Requests
      BY PoolAssumption DEF In
    <3> QED
      BY <3>1, FS_Subset, FS_CardinalityType
  <2> QED
    BY <2>1, InIsFinite
<1>3. JobHolds' = JobHolds /\ JobHolds \in {0, 1}
  BY DEF JobHolds
<1>4. One(at[r] \in Holding) \in {0, 1} /\ One(place \in Holding) \in {0, 1}
  BY DEF One
<1>5. free \in 0..Connections /\ Connections \in Nat
  BY PoolAssumption DEF PoolInv, TypeOK
<1> HIDE DEF held
<1>6. free' + held' + JobHolds' = Connections
  BY <1>1, <1>2, <1>3, <1>4, <1>5 DEF PoolInv, NoLeak, held
<1>7. NoLeak'
  BY <1>6 DEF NoLeak, held
<1>8. TypeOK'
  <2>1. free' \in 0..Connections
    BY <1>2, <1>3, <1>5, <1>6 DEF held
  <2> QED
    BY <2>1 DEF PoolInv, TypeOK, Move
<1> QED
  BY <1>7, <1>8 DEF PoolInv

(* A job that starts or ends does the same.                                *)
LEMMA JobPool ==
  ASSUME PoolInv, UNCHANGED at, job' \in Job, free' \in 0..Connections,
         NEW before \in 0..1, NEW after \in 0..1,
         JobHolds = before, JobHolds' = after, free' = free + before - after
  PROVE  PoolInv'
<1> DEFINE held == Cardinality(In(Holding))
<1>1. held' = held /\ held \in Nat
  BY InIsFinite DEF In
<1>2. free \in 0..Connections /\ Connections \in Nat
  BY PoolAssumption DEF PoolInv, TypeOK
<1>3. free + held + JobHolds = Connections
  BY DEF PoolInv, NoLeak
<1>4. free' + held' + JobHolds' = Connections
  BY <1>1, <1>2, <1>3
<1>5. NoLeak'
  BY <1>4 DEF NoLeak
<1>6. TypeOK'
  BY DEF PoolInv, TypeOK
<1> QED
  BY <1>5, <1>6 DEF PoolInv

LEMMA NextPool == PoolInv /\ [Next]_vars => PoolInv'
<1> SUFFICES ASSUME PoolInv, [Next]_vars PROVE PoolInv'
  OBVIOUS
<1>0. free \in 0..Connections /\ Connections \in Nat
  BY PoolAssumption DEF PoolInv, TypeOK
<1>1. ASSUME NEW r \in Requests, dispatch(r)
      PROVE  PoolInv'
  BY <1>0, <1>1, MovePool DEF dispatch, Places, Holding, One
<1>2. ASSUME NEW r \in Requests, get_connection(r)
      PROVE  PoolInv'
  BY <1>0, <1>2, MovePool DEF get_connection, Take, Places, Holding, One
<1>3. ASSUME NEW r \in Requests, run_endpoint(r)
      PROVE  PoolInv'
  BY <1>0, <1>3, MovePool DEF run_endpoint, GiveBack, Places, Holding, One
<1>4. ASSUME NEW r \in Requests, time_out(r)
      PROVE  PoolInv'
  BY <1>0, <1>4, MovePool DEF time_out, Places, Holding, One
<1>5. ASSUME NEW r \in Requests, close(r)
      PROVE  PoolInv'
  BY <1>0, <1>5, MovePool DEF close, GiveBack, Places, Holding, One
<1>11. ASSUME NEW r \in Requests, reject(r)
       PROVE  PoolInv'
  BY <1>0, <1>11, MovePool DEF reject, Places, Holding, One
<1>12. ASSUME NEW r \in Requests, end_refresh(r)
       PROVE  PoolInv'
  BY <1>0, <1>12, MovePool DEF end_refresh, GiveBack, Places, Holding, One
<1>6. CASE wake
  <2>1. job' \in Job /\ JobHolds = 0 /\ JobHolds' = 0
    BY <1>6 DEF wake, Waits, Job, NoJob, JobHolds
  <2> QED
    BY <1>0, <1>6, <2>1, JobPool DEF wake
<1>7. CASE job_starts
  <2>1. job' \in Job /\ JobHolds = 0 /\ JobHolds' = 1
    BY <1>7 DEF job_starts, PoolInv, TypeOK, Job, NoJob, JobHolds
  <2> QED
    BY <1>0, <1>7, <2>1, JobPool DEF job_starts, Take
<1>8. CASE job_ends
  <2>1. job' \in Job /\ (job' = NoJob \/ job'.pc = "waits")
    BY <1>8 DEF job_ends, NextJob, Waits, Job, NoJob
  <2>2. JobHolds = 1 /\ JobHolds' = 0
    BY <1>8, <2>1 DEF job_ends, JobHolds
  <2>3. free + 1 \in 0..Connections
    BY <1>0, <2>2, InIsFinite DEF PoolInv, NoLeak
  <2> QED
    BY <1>0, <1>8, <2>1, <2>2, <2>3, JobPool DEF job_ends, GiveBack
<1>9. CASE job_times_out
  <2>1. job' \in Job /\ (job' = NoJob \/ job'.pc = "waits")
    BY <1>9 DEF job_times_out, NextJob, Waits, Job, NoJob
  <2>2. JobHolds = 0 /\ JobHolds' = 0
    BY <1>9, <2>1 DEF job_times_out, JobHolds
  <2> QED
    BY <1>0, <1>9, <2>1, <2>2, JobPool DEF job_times_out
<1>10. CASE UNCHANGED vars
  BY <1>10 DEF vars, PoolInv, TypeOK, NoLeak, In, JobHolds
<1> QED
  BY <1>1, <1>2, <1>3, <1>4, <1>5, <1>6, <1>7, <1>8, <1>9, <1>10, <1>11, <1>12
  DEF Next, JobStep

-----------------------------------------------------------------------------
(* Requests are somewhere and the pool's counter is in its bounds: no      *)
(* close() gives back a connection the session never had.                  *)
THEOREM PoolTypeCorrect == Spec => []TypeOK
<1>1. Spec => []PoolInv
  BY InitPool, NextPool, PTL DEF Spec
<1>2. PoolInv => TypeOK
  BY DEF PoolInv
<1> QED
  BY <1>1, <1>2, PTL

(* Through commits with and without a refresh, rollbacks, refusals,        *)
(* timeouts and jobs, a connection is in the pool or with one session that *)
(* will give it back.                                                      *)
THEOREM ConnectionsAreKept == Spec => []NoLeak
<1>1. Spec => []PoolInv
  BY InitPool, NextPool, PTL DEF Spec
<1>2. PoolInv => NoLeak
  BY DEF PoolInv
<1> QED
  BY <1>1, <1>2, PTL
=============================================================================
