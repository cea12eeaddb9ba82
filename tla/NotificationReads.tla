------------------------- MODULE NotificationReads -------------------------
(***************************************************************************)
(* The read state of one user's notifications, changed by concurrent       *)
(* requests of that user: one that loads a row, tests it and updates it by *)
(* primary key, and one UPDATE ... WHERE NOT is_read over all of them,     *)
(* while notifications keep arriving.  Only the owner gets this far: a     *)
(* user_id never changes, other users get 403 or are not matched.          *)
(***************************************************************************)
EXTENDS Naturals, SequencesExt

CONSTANTS
  Notes,     \* ids of the user's notifications
  CreatedAt, \* created_at of each: now(), the start of its transaction
  Readers,   \* request threads of the user
  MaxClock,  \* bound on the readings of datetime.now()
  None,      \* SQL NULL
  Absent     \* no row yet

ASSUME ReadsAssumption ==
  /\ MaxClock \in Nat
  /\ CreatedAt \in [Notes -> Nat]
  /\ None \notin Nat /\ Absent \notin Nat /\ None # Absent

VARIABLES
  read_at,  \* committed rows: Absent, None while unread, or a time;
            \* is_read is always written with it
  clock,    \* datetime.now(), and the number of its readings
  pc,       \* the next statement of each reader
  txn       \* its transaction

vars == <<read_at, clock, pc, txn>>

(* at: the time to store; todo: rows still to update, in the order of the  *)
(* scan; saw: rows a bulk UPDATE found unread when it began; locked: rows  *)
(* updated, not committed.                                                 *)
Txn == [at: 0..MaxClock, todo: Seq(Notes), saw: SUBSET Notes,
        locked: SUBSET Notes]

NoTxn == [at |-> 0, todo |-> <<>>, saw |-> {}, locked |-> {}]

Init ==
  /\ read_at = [n \in Notes |-> Absent]
  /\ clock = 0
  /\ pc = [r \in Readers |-> "idle"]
  /\ txn = [r \in Readers |-> NoTxn]

Unread(n) == read_at[n] = None
Read(n) == read_at[n] \in Nat

-----------------------------------------------------------------------------
(* COMMIT of the transaction that began at t, and of all it created.       *)
create_notification(t) ==
  /\ \E n \in Notes : CreatedAt[n] = t /\ read_at[n] = Absent
  /\ read_at' = [n \in Notes |-> IF CreatedAt[n] = t THEN None ELSE read_at[n]]
  /\ UNCHANGED <<clock, pc, txn>>

ReadClock == clock < MaxClock /\ clock' = clock + 1

(* PATCH /notifications/{id}/read up to the commit(): of a row that is     *)
(* read already the request returns at once and has no action.             *)
mark_notification_as_read(r, n) ==
  /\ pc[r] = "idle"
  /\ Unread(n)
  /\ ReadClock
  /\ pc' = [pc EXCEPT ![r] = "one"]
  /\ txn' = [txn EXCEPT ![r] = [NoTxn EXCEPT !.at = clock', !.todo = <<n>>]]
  /\ UNCHANGED read_at

(* Slip: read_at is left out of the values.                                *)
MarkAllNoTime(r) ==
  /\ pc[r] = "idle"
  /\ pc' = [pc EXCEPT ![r] = "begin"]
  /\ UNCHANGED <<read_at, clock, txn>>

(* PATCH /notifications/read-all up to its statement.                      *)
mark_all_as_read(r) ==
  /\ pc[r] = "idle"
  /\ ReadClock
  /\ pc' = [pc EXCEPT ![r] = "begin"]
  /\ txn' = [txn EXCEPT ![r].at = clock']
  /\ UNCHANGED read_at

(* The UPDATE finds its rows in the snapshot of its start; their order is  *)
(* the one of the scan, which no ORDER BY fixes.                           *)
begin_update(r) ==
  LET unread == {n \in Notes : Unread(n)}
  IN  /\ pc[r] = "begin"
      /\ pc' = [pc EXCEPT ![r] = "all"]
      /\ \E order \in SetToSeqs(unread) :
           txn' = [txn EXCEPT ![r].todo = order, ![r].saw = unread]
      /\ UNCHANGED <<read_at, clock>>

Locked(r, n) == \E q \in Readers \ {r} : n \in txn[q].locked

(* An UPDATE is done with the first of its rows: it locks it, or not.      *)
Visit(r, locks) ==
  /\ pc[r] \in {"one", "all"}
  /\ txn[r].todo # <<>>
  /\ txn' = [txn EXCEPT
               ![r].todo = Tail(@),
               ![r].locked = IF locks THEN @ \cup {Head(txn[r].todo)} ELSE @]
  /\ UNCHANGED <<read_at, clock, pc>>

(* Slip: rows another transaction has locked are skipped.                  *)
VisitSkipLocked(r) ==
  Visit(r, /\ ~Locked(r, Head(txn[r].todo))
           /\ pc[r] = "all" => ~Read(Head(txn[r].todo)))

(* Slip: the row is written as the snapshot had it.                        *)
VisitUnchecked(r) ==
  /\ txn[r].todo # <<>>
  /\ ~Locked(r, Head(txn[r].todo))
  /\ Visit(r, TRUE)

(* Whoever comes to a locked row waits.  After the wait the bulk UPDATE    *)
(* tests NOT is_read once more; the UPDATE by primary key has no such test.*)
visit_row(r) ==
  /\ txn[r].todo # <<>>
  /\ ~Locked(r, Head(txn[r].todo))
  /\ Visit(r, pc[r] = "all" => ~Read(Head(txn[r].todo)))

commit(r) ==
  /\ pc[r] \in {"one", "all"}
  /\ txn[r].todo = <<>>
  /\ read_at' = [n \in Notes |-> IF n \in txn[r].locked THEN txn[r].at
                                 ELSE read_at[n]]
  /\ pc' = [pc EXCEPT ![r] = "idle"]
  /\ txn' = [txn EXCEPT ![r] = NoTxn]
  /\ UNCHANGED clock

(* Slip: only the statement is undone, the session keeps its locks.        *)
RollbackToSavepoint(r) ==
  /\ pc' = [pc EXCEPT ![r] = "idle"]
  /\ txn' = [txn EXCEPT ![r].todo = <<>>]
  /\ UNCHANGED <<read_at, clock>>

Rollback(r) ==
  /\ pc' = [pc EXCEPT ![r] = "idle"]
  /\ txn' = [txn EXCEPT ![r] = NoTxn]
  /\ UNCHANGED <<read_at, clock>>

(* A statement fails or the process dies.                                  *)
abort(r) == pc[r] # "idle" /\ Rollback(r)

WaitsFor(r, q) ==
  txn[r].todo # <<>> /\ Head(txn[r].todo) \in txn[q].locked

(* PostgreSQL finds the requests that wait for each other and rolls one    *)
(* back.  A wait is for one row, so following it leads back or ends.       *)
Deadlocked(r) ==
  \E S \in SUBSET Readers :
    /\ r \in S
    /\ \A q \in S : \E o \in S \ {q} : WaitsFor(q, o)

deadlock_victim(r) == Deadlocked(r) /\ Rollback(r)

-----------------------------------------------------------------------------
Proceed(r) == begin_update(r) \/ visit_row(r) \/ commit(r)

Next ==
  \/ \E t \in Range(CreatedAt) : create_notification(t)
  \/ \E r \in Readers :
       \/ \E n \in Notes : mark_notification_as_read(r, n)
       \/ mark_all_as_read(r)
       \/ Proceed(r)
       \/ abort(r)
       \/ deadlock_victim(r)

Spec == Init /\ [][Next]_vars

(* Threads run, PostgreSQL wakes the waiters of a row in turn and looks    *)
(* for deadlocks.                                                          *)
FairSpec ==
  /\ Spec
  /\ \A r \in Readers :
       /\ WF_vars(begin_update(r) \/ commit(r))
       /\ SF_vars(visit_row(r))
       /\ WF_vars(deadlock_victim(r))

-----------------------------------------------------------------------------
TypeOK ==
  /\ read_at \in [Notes -> {Absent, None} \cup 1..MaxClock]
  /\ clock \in 0..MaxClock
  /\ pc \in [Readers -> {"idle", "one", "begin", "all"}]
  /\ txn \in [Readers -> Txn]

(* A notification that was read keeps its read_at: "idempotent if already  *)
(* read".                                                                  *)
ReadAtIsFinal ==
  [][\A n \in Notes : Read(n) => read_at'[n] = read_at[n]]_vars

(* It is never the bulk request that overwrites a read_at, although it     *)
(* picked its rows before it waited for them.                              *)
BulkNeverOverwrites ==
  [][\A n \in Notes :
       Read(n) /\ read_at'[n] # read_at[n]
         => \E r \in Readers : pc[r] = "one" /\ pc'[r] = "idle"]_vars

(* "Mark all unread notifications for user_id as read": when the bulk      *)
(* request commits, whatever it found unread is read, be it by another     *)
(* request that held the row meanwhile.                                    *)
AllMarked ==
  [][\A r \in Readers :
       commit(r) => \A n \in txn[r].saw : read_at'[n] \in Nat]_vars

(* Every request ends, deadlocks of two bulk requests included.            *)
ReadersEnd == \A r \in Readers : pc[r] # "idle" ~> pc[r] = "idle"
=============================================================================
