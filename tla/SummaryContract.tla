-------------------------- MODULE SummaryContract --------------------------
(***************************************************************************)
(* What the summary queue promises: a job waits in one line, leaves it at  *)
(* the head and once, is reported on by whoever took it and by nobody      *)
(* afterwards, and its status goes forward only.  Between its record and   *)
(* its answer a job may be lost; it is never doubled.  SummaryQueue keeps  *)
(* this promise unless the API pushes a job twice.                         *)
(***************************************************************************)
EXTENDS Naturals, Sequences, Functions

CONSTANTS Jobs, Workers, None

VARIABLES
  line,     \* jobs that wait, the oldest first
  taken,    \* the job of each worker
  past,     \* jobs that were taken, or lost, and are over
  status    \* what a poll answers; None: 404

cvars == <<line, taken, past, status>>

CInit ==
  /\ line = <<>>
  /\ taken = [w \in Workers |-> None] /\ past = {}
  /\ status = [j \in Jobs |-> None]

Fresh(j) == j \notin Range(line) \cup Range(taken) \cup past

(* May a poll answer t where it last answered s?                           *)
Forward(s, t) ==
  \/ s = t
  \/ s = None /\ t \in {"processing", "completed", "failed"}
  \/ s = "queued" /\ t = "processing"
  \/ s = "processing" /\ t \in {"completed", "failed"}
  \/ s = "completed" /\ t = "failed"

Submit(j) ==
  /\ Fresh(j)
  /\ status[j] = None
  /\ status' = [status EXCEPT ![j] = "queued"]
  /\ UNCHANGED <<line, taken, past>>

Push(j) ==
  /\ Fresh(j)
  /\ line' = Append(line, j)
  /\ UNCHANGED <<taken, past, status>>

(* The oldest job is taken, or lost on its way.                            *)
Take(w) ==
  /\ line # <<>> /\ taken[w] = None
  /\ line' = Tail(line)
  /\ \/ taken' = [taken EXCEPT ![w] = Head(line)] /\ UNCHANGED past
     \/ past' = past \cup {Head(line)} /\ UNCHANGED taken
  /\ UNCHANGED status

(* Whoever has a job reports on it, gives it up, or both.                  *)
Work(w) ==
  LET j == taken[w]
  IN  /\ j # None
      /\ \E s \in {"processing", "completed", "failed", status[j]} :
           /\ Forward(status[j], s)
           /\ status' = [status EXCEPT ![j] = s]
      /\ \/ UNCHANGED <<taken, past>>
         \/ taken' = [taken EXCEPT ![w] = None] /\ past' = past \cup {j}
      /\ UNCHANGED line

(* A record is gone a day after it was written.                            *)
Expire(j) ==
  /\ status' = [status EXCEPT ![j] = None]
  /\ UNCHANGED <<line, taken, past>>

CNext ==
  \/ \E j \in Jobs : Submit(j) \/ Push(j) \/ Expire(j)
  \/ \E w \in Workers : Take(w) \/ Work(w)
=============================================================================
