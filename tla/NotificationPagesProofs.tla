------------------------ MODULE NotificationPagesProofs ------------------------
(***************************************************************************)
(* What the read state of notifications and paging through them promise,   *)
(* for any notifications, readers and page length: the bulk request never  *)
(* overwrites a read_at and leaves nothing unread that it found unread,    *)
(* and a client that pages to the end misses nothing.                      *)
(***************************************************************************)
EXTENDS NotificationPages, FiniteSetTheorems, TLAPS

(* The rows the transaction of r is concerned with.                        *)
Concerns(r) == Range(txn[r].todo) \cup txn[r].saw \cup txn[r].locked

ReaderOK(r) ==
  /\ \A n \in Concerns(r) : read_at[n] # Absent
  /\ pc[r] \in {"idle", "begin"} =>
       txn[r].todo = <<>> /\ txn[r].saw = {} /\ txn[r].locked = {}
  /\ pc[r] # "idle" => txn[r].at >= 1
  /\ pc[r] = "one" => txn[r].saw = {}
  /\ pc[r] = "all" =>
       /\ \A n \in txn[r].saw :
            n \in Range(txn[r].todo) \/ n \in txn[r].locked \/ Read(n)
       /\ \A n \in txn[r].locked : ~Read(n)

(* Rows of one transaction appear together; a row is locked by one reader, *)
(* and one the bulk UPDATE has locked is unread till it commits.           *)
ReadsInv ==
  /\ TypeOK
  /\ \A m, n \in Notes :
       CreatedAt[m] = CreatedAt[n] /\ read_at[m] = Absent => read_at[n] = Absent
  /\ \A r \in Readers : ReaderOK(r)
  /\ \A r, q \in Readers : r # q => txn[r].locked \cap txn[q].locked = {}

-----------------------------------------------------------------------------
(* The readers.                                                            *)

LEMMA NoTxnType == /\ NoTxn \in Txn /\ NoTxn.todo = <<>> /\ NoTxn.saw = {}
                   /\ NoTxn.locked = {}
<1>1. NoTxn = [at |-> 0, todo |-> <<>>, saw |-> {}, locked |-> {}]
  BY DEF NoTxn
<1>2. 0 \in 0..MaxClock /\ <<>> \in Seq(Notes)
  BY ReadsAssumption
<1> QED
  BY <1>1, <1>2 DEF Txn

LEMMA RangeIsHeadAndTail ==
  ASSUME NEW S, NEW s \in Seq(S), s # <<>>
  PROVE  /\ Head(s) \in S /\ Tail(s) \in Seq(S)
         /\ Range(s) = {Head(s)} \cup Range(Tail(s))
<1>1. Len(s) \in Nat \ {0} /\ Head(s) = s[1] /\ DOMAIN s = 1..Len(s)
      /\ DOMAIN Tail(s) = 1..(Len(s) - 1)
      /\ \A i \in 1..(Len(s) - 1) : Tail(s)[i] = s[i + 1]
  OBVIOUS
<1>2. \A i \in 2..Len(s) : i - 1 \in 1..(Len(s) - 1) /\ s[i] = Tail(s)[i - 1]
  BY <1>1
<1>3. Range(s) \subseteq {Head(s)} \cup Range(Tail(s))
  <2> SUFFICES ASSUME NEW i \in 1..Len(s), i # 1
               PROVE  s[i] \in Range(Tail(s))
    BY <1>1 DEF Range
  <2>1. i \in 2..Len(s)
    BY <1>1
  <2> QED
    BY <1>1, <1>2, <2>1 DEF Range
<1>4. {Head(s)} \cup Range(Tail(s)) \subseteq Range(s)
  BY <1>1 DEF Range
<1>5. Head(s) \in S /\ Tail(s) \in Seq(S)
  OBVIOUS
<1> QED
  BY <1>3, <1>4, <1>5

LEMMA InitReads == Init => ReadsInv
<1> SUFFICES ASSUME Init PROVE ReadsInv
  OBVIOUS
<1>1. TypeOK
  BY NoTxnType, ReadsAssumption DEF Init, TypeOK
<1>2. \A r \in Readers : ReaderOK(r)
  BY NoTxnType DEF Init, ReaderOK, Concerns, Range
<1> QED
  BY <1>1, <1>2, NoTxnType DEF Init, ReadsInv

(* A step of r that changes no row keeps the others as they are.           *)
LEMMA OneReader ==
  ASSUME ReadsInv, NEW r \in Readers, NEW next \in {"idle", "one", "begin", "all"},
         NEW t \in Txn,
         pc' = [pc EXCEPT ![r] = next], txn' = [txn EXCEPT ![r] = t],
         UNCHANGED read_at, clock' \in 0..MaxClock,
         ReaderOK(r)',
         \A q \in Readers \ {r} : t.locked \cap txn[q].locked = {}
  PROVE  ReadsInv'
<1>1. TypeOK'
  BY DEF ReadsInv, TypeOK
<1>2. /\ pc'[r] = next /\ txn'[r] = t
      /\ \A q \in Readers \ {r} : pc'[q] = pc[q] /\ txn'[q] = txn[q]
  BY DEF ReadsInv, TypeOK
<1>3. \A q \in Readers : ReaderOK(q)'
  BY <1>2 DEF ReadsInv, ReaderOK, Concerns, Read
<1>4. \A p, q \in Readers : p # q => txn'[p].locked \cap txn'[q].locked = {}
  BY <1>2 DEF ReadsInv
<1> QED
  BY <1>1, <1>3, <1>4 DEF ReadsInv

(* A request that ends leaves nothing behind.                              *)
LEMMA ReaderEnds ==
  ASSUME ReadsInv, NEW r \in Readers, pc' = [pc EXCEPT ![r] = "idle"],
         txn' = [txn EXCEPT ![r] = NoTxn]
  PROVE  ReaderOK(r)' /\ \A q \in Readers \ {r} : NoTxn.locked \cap txn[q].locked = {}
<1>1. pc'[r] = "idle" /\ txn'[r] = NoTxn
  BY DEF ReadsInv, TypeOK
<1> QED
  BY <1>1, NoTxnType DEF ReaderOK, Concerns, Range

LEMMA RollbackReads ==
  ASSUME ReadsInv, NEW r \in Readers, Rollback(r)
  PROVE  ReadsInv'
<1>1. clock' \in 0..MaxClock
  BY DEF Rollback, ReadsInv, TypeOK
<1> QED
  BY <1>1, NoTxnType, OneReader, ReaderEnds DEF Rollback

LEMMA CreateReads ==
  ASSUME ReadsInv, NEW t, create_notification(t)
  PROVE  ReadsInv'
<1>1. \E m \in Notes : CreatedAt[m] = t /\ read_at[m] = Absent
  BY DEF create_notification
<1>2. /\ read_at' = [n \in Notes |-> IF CreatedAt[n] = t THEN None ELSE read_at[n]]
      /\ UNCHANGED <<clock, pc, txn>>
  BY DEF create_notification
<1>3. \A n \in Notes : /\ CreatedAt[n] = t => read_at[n] = Absent /\ read_at'[n] = None
                       /\ CreatedAt[n] # t => read_at'[n] = read_at[n]
  BY <1>1, <1>2 DEF ReadsInv
<1>4. TypeOK'
  BY <1>2 DEF ReadsInv, TypeOK
<1>5. ASSUME NEW r \in Readers PROVE ReaderOK(r)'
  <2>1. ReaderOK(r) /\ txn[r] \in Txn
    BY DEF ReadsInv, TypeOK
  <2>2. Concerns(r) \subseteq Notes
    BY <2>1 DEF Concerns, Txn, Range
  <2>3. \A n \in Concerns(r) : read_at'[n] = read_at[n]
    BY <1>3, <2>1, <2>2 DEF ReaderOK
  <2>4. Concerns(r)' = Concerns(r)
    BY <1>2 DEF Concerns
  <2> QED
    BY <1>2, <2>1, <2>3, <2>4 DEF ReaderOK, Concerns, Read
<1>6. None # Absent
  BY ReadsAssumption
<1>7. ASSUME NEW m \in Notes, NEW n \in Notes, CreatedAt[m] = CreatedAt[n],
             read_at'[m] = Absent
      PROVE  read_at'[n] = Absent
  <2>1. CreatedAt[m] # t /\ read_at[m] = Absent
    BY <1>3, <1>6, <1>7
  <2>2. read_at[n] = Absent
    BY <1>7, <2>1 DEF ReadsInv
  <2> QED
    BY <1>3, <1>7, <2>1, <2>2
<1>8. \A p, q \in Readers : p # q => txn'[p].locked \cap txn'[q].locked = {}
  BY <1>2 DEF ReadsInv
<1> QED
  BY <1>4, <1>5, <1>7, <1>8 DEF ReadsInv

LEMMA MarkOneReads ==
  ASSUME ReadsInv, NEW r \in Readers, NEW n \in Notes,
         mark_notification_as_read(r, n)
  PROVE  ReadsInv'
<1> DEFINE u == NoTxn
           t == [u EXCEPT !.at = clock', !.todo = <<n>>]
<1>1. /\ clock' \in 0..MaxClock /\ clock' >= 1
      /\ pc' = [pc EXCEPT ![r] = "one"] /\ txn' = [txn EXCEPT ![r] = t]
      /\ read_at[n] = None /\ UNCHANGED read_at
  BY ReadsAssumption
  DEF mark_notification_as_read, ReadClock, Unread, ReadsInv, TypeOK
<1>2. u \in Txn /\ u.saw = {} /\ u.locked = {}
  BY NoTxnType
<1> HIDE DEF u
<1>3. t \in Txn /\ t.at = clock' /\ t.todo = <<n>> /\ t.saw = {} /\ t.locked = {}
  <2>1. <<n>> \in Seq(Notes)
    OBVIOUS
  <2>2. \A c \in 0..MaxClock, s \in Seq(Notes) :
          LET v == [u EXCEPT !.at = c, !.todo = s]
          IN  v \in Txn /\ v.at = c /\ v.todo = s /\ v.saw = {} /\ v.locked = {}
    BY <1>2 DEF Txn
  <2> QED
    BY <1>1, <2>1, <2>2
<1> HIDE DEF t
<1>4. pc'[r] = "one" /\ txn'[r] = t
  BY <1>1 DEF ReadsInv, TypeOK
<1>5. Range(<<n>>) = {n} /\ None # Absent
  BY ReadsAssumption DEF Range
<1>6. ReaderOK(r)'
  BY <1>1, <1>3, <1>4, <1>5 DEF ReaderOK, Concerns
<1> QED
  BY <1>1, <1>3, <1>6, OneReader

LEMMA MarkAllReads ==
  ASSUME ReadsInv, NEW r \in Readers, mark_all_as_read(r)
  PROVE  ReadsInv'
<1> DEFINE t == [txn[r] EXCEPT !.at = clock']
<1>1. /\ clock' \in 0..MaxClock /\ clock' >= 1 /\ pc[r] = "idle"
      /\ pc' = [pc EXCEPT ![r] = "begin"] /\ txn' = [txn EXCEPT ![r] = t]
      /\ UNCHANGED read_at
  BY ReadsAssumption DEF mark_all_as_read, ReadClock, ReadsInv, TypeOK
<1>2. txn[r] \in Txn /\ txn[r].todo = <<>> /\ txn[r].saw = {} /\ txn[r].locked = {}
  BY <1>1 DEF ReadsInv, TypeOK, ReaderOK
<1>3. t \in Txn /\ t.at = clock' /\ t.todo = <<>> /\ t.saw = {} /\ t.locked = {}
  BY <1>1, <1>2 DEF Txn
<1> HIDE DEF t
<1>4. pc'[r] = "begin" /\ txn'[r] = t
  BY <1>1 DEF ReadsInv, TypeOK
<1>5. ReaderOK(r)'
  BY <1>1, <1>3, <1>4 DEF ReaderOK, Concerns, Range
<1> QED
  BY <1>1, <1>3, <1>5, OneReader

(* The order of a scan lists what it scans.                                *)
LEMMA Orders ==
  ASSUME NEW S, IsFiniteSet(S), NEW order \in SetToSeqs(S)
  PROVE  /\ order \in Seq(S) /\ Range(order) = S
         /\ Len(order) = Cardinality(S) /\ Cardinality(S) \in Nat
         /\ \A i, k \in 1..Cardinality(S) : order[i] = order[k] => i = k
<1> DEFINE c == Cardinality(S)
<1>1. c \in Nat
  BY FS_CardinalityType
<1>2. order \in [1..c -> S] /\ \A i, k \in 1..c : i # k => order[i] # order[k]
  BY DEF SetToSeqs
<1>3. IsFiniteSet(1..c) /\ Cardinality(1..c) = c
  BY <1>1, FS_Interval
<1>4. order \in Injection(1..c, S)
  BY <1>2 DEF Injection, IsInjective
<1>5. order \in Surjection(1..c, S)
  BY <1>3, <1>4, FS_Injection
<1>6. Range(order) = S
  BY <1>2, <1>5 DEF Surjection, Range
<1> HIDE DEF c
<1>7. order \in Seq(S) /\ Len(order) = c
  BY <1>1, <1>2
<1> QED
  BY <1>1, <1>2, <1>6, <1>7 DEF c

LEMMA BeginReads ==
  ASSUME ReadsInv, NEW r \in Readers, begin_update(r)
  PROVE  ReadsInv'
<1> DEFINE unread == {n \in Notes : Unread(n)}
<1>1. PICK order \in SetToSeqs(unread) :
        txn' = [txn EXCEPT ![r].todo = order, ![r].saw = unread]
  BY DEF begin_update
<1>2. /\ pc[r] = "begin" /\ pc' = [pc EXCEPT ![r] = "all"]
      /\ UNCHANGED <<read_at, clock>>
  BY DEF begin_update
<1>3. IsFiniteSet(unread)
  BY PagesAssumption, FS_Subset
<1>4. order \in Seq(unread) /\ Range(order) = unread
  BY <1>3, Orders
<1>5. order \in Seq(Notes)
  BY <1>4
<1>6. \A n \in unread : n \in Notes /\ read_at[n] = None
  BY DEF Unread
<1> HIDE DEF unread
<1> DEFINE t == [txn[r] EXCEPT !.todo = order, !.saw = unread]
<1>7. txn[r] \in Txn /\ txn[r].locked = {} /\ txn[r].at >= 1
  BY <1>2 DEF ReadsInv, TypeOK, ReaderOK
<1>8. txn' = [txn EXCEPT ![r] = t]
  BY <1>1, <1>7 DEF ReadsInv, TypeOK
<1>9. t \in Txn /\ t.at = txn[r].at /\ t.todo = order /\ t.saw = unread /\ t.locked = {}
  BY <1>5, <1>6, <1>7 DEF Txn
<1> HIDE DEF t
<1>10. pc'[r] = "all" /\ txn'[r] = t
  BY <1>2, <1>8 DEF ReadsInv, TypeOK
<1>11. ReaderOK(r)'
  <2>1. None # Absent
    BY ReadsAssumption
  <2> QED
    BY <1>2, <1>4, <1>6, <1>7, <1>9, <1>10, <2>1 DEF ReaderOK, Concerns
<1>12. clock' \in 0..MaxClock
  BY <1>2 DEF ReadsInv, TypeOK
<1> QED
  BY <1>2, <1>8, <1>9, <1>11, <1>12, OneReader

LEMMA VisitReads ==
  ASSUME ReadsInv, NEW r \in Readers, visit_row(r)
  PROVE  ReadsInv'
<1> DEFINE h == Head(txn[r].todo)
           locks == pc[r] = "all" => ~Read(h)
           t == [txn[r] EXCEPT !.todo = Tail(@),
                               !.locked = IF locks THEN @ \cup {h} ELSE @]
<1>1. /\ pc[r] \in {"one", "all"} /\ txn[r].todo # <<>> /\ ~Locked(r, h)
      /\ txn' = [txn EXCEPT ![r] = t] /\ UNCHANGED <<read_at, clock, pc>>
  <2>1. Visit(r, locks) /\ txn[r].todo # <<>> /\ ~Locked(r, h)
    BY DEF visit_row
  <2> HIDE DEF locks, h
  <2>2. txn' = [txn EXCEPT ![r].todo = Tail(@),
                           ![r].locked = IF locks THEN @ \cup {h} ELSE @]
    BY <2>1 DEF Visit, h
  <2>3. txn \in [Readers -> Txn]
    BY DEF ReadsInv, TypeOK
  <2> QED
    BY <2>1, <2>2, <2>3 DEF Visit
<1>2. /\ txn[r] \in Txn /\ ReaderOK(r) /\ pc' = [pc EXCEPT ![r] = pc[r]]
      /\ pc'[r] = pc[r] /\ txn'[r] = t /\ clock' \in 0..MaxClock
  BY <1>1 DEF ReadsInv, TypeOK
<1>3. /\ h \in Notes /\ Tail(txn[r].todo) \in Seq(Notes)
      /\ Range(txn[r].todo) = {h} \cup Range(Tail(txn[r].todo))
  <2>1. txn[r].todo \in Seq(Notes)
    BY <1>2 DEF Txn
  <2> QED
    BY <1>1, <2>1, RangeIsHeadAndTail
<1> HIDE DEF h, locks
<1>4. /\ t \in Txn /\ t.at = txn[r].at /\ t.todo = Tail(txn[r].todo)
      /\ t.saw = txn[r].saw
      /\ t.locked = IF locks THEN txn[r].locked \cup {h} ELSE txn[r].locked
  BY <1>2, <1>3 DEF Txn
<1> HIDE DEF t
<1>5. locks \in BOOLEAN /\ (locks <=> (pc[r] = "all" => ~Read(h)))
  BY DEF locks
<1>6. Concerns(r)' \subseteq Concerns(r)
  BY <1>2, <1>3, <1>4 DEF Concerns
<1>7. \A n : Read(n)' <=> Read(n)
  BY <1>1 DEF Read
<1>8. ReaderOK(r)'
  <2>1. \A n \in Concerns(r)' : read_at'[n] # Absent
    BY <1>1, <1>2, <1>6 DEF ReaderOK
  <2>2. pc'[r] \notin {"idle", "begin"} /\ txn'[r].at >= 1
        /\ (pc'[r] = "one" => txn'[r].saw = {})
    BY <1>1, <1>2, <1>4 DEF ReaderOK
  <2>3. ASSUME pc[r] = "all"
        PROVE  /\ \A n \in t.saw : n \in Range(t.todo) \/ n \in t.locked \/ Read(n)
               /\ \A n \in t.locked : ~Read(n)
    BY <1>2, <1>3, <1>4, <1>5, <2>3 DEF ReaderOK
  <2> QED
    BY <1>2, <1>7, <2>1, <2>2, <2>3 DEF ReaderOK
<1>9. \A q \in Readers \ {r} : t.locked \cap txn[q].locked = {}
  BY <1>1, <1>4 DEF Locked, ReadsInv
<1>10. pc[r] \in {"idle", "one", "begin", "all"} /\ read_at' = read_at
  BY <1>1
<1> QED
  BY <1>1, <1>2, <1>4, <1>8, <1>9, <1>10, OneReader

(* What a commit does to a row, and what it cannot do to the rows of the   *)
(* other readers.                                                          *)
LEMMA CommitReads ==
  ASSUME ReadsInv, NEW r \in Readers, commit(r)
  PROVE  ReadsInv'
<1> DEFINE mine == txn[r].locked
<1>1. /\ pc[r] \in {"one", "all"} /\ txn[r] \in Txn /\ mine \subseteq Notes
      /\ txn[r].at \in 1..MaxClock /\ ReaderOK(r)
      /\ pc' = [pc EXCEPT ![r] = "idle"] /\ txn' = [txn EXCEPT ![r] = NoTxn]
      /\ clock' = clock
  BY ReadsAssumption DEF commit, ReadsInv, TypeOK, ReaderOK, Txn
<1>2. \A n \in Notes : read_at'[n] = IF n \in mine THEN txn[r].at ELSE read_at[n]
  BY DEF commit
<1>3. TypeOK'
  BY <1>1, NoTxnType DEF commit, ReadsInv, TypeOK
<1>4. /\ pc'[r] = "idle" /\ txn'[r] = NoTxn
      /\ \A q \in Readers \ {r} : pc'[q] = pc[q] /\ txn'[q] = txn[q]
  BY <1>1 DEF ReadsInv, TypeOK
<1>5. \A n \in Notes : read_at'[n] = Absent <=> read_at[n] = Absent
  <2>1. \A n \in mine : read_at[n] # Absent /\ txn[r].at # Absent
    BY <1>1, ReadsAssumption DEF ReaderOK, Concerns
  <2> QED
    BY <1>2, <2>1
<1>6. \A n \in Notes : Read(n) => Read(n)'
  BY <1>1, <1>2 DEF Read
<1>7. ASSUME NEW q \in Readers \ {r} PROVE ReaderOK(q)'
  <2>1. ReaderOK(q) /\ Concerns(q) \subseteq Notes /\ txn[q] \in Txn
    BY DEF ReadsInv, TypeOK, Concerns, Txn, Range
  <2>2. \A n \in Concerns(q) : read_at'[n] # Absent
    BY <1>5, <2>1 DEF ReaderOK
  <2>3. \A n \in txn[q].locked : read_at'[n] = read_at[n]
    BY <1>2, <2>1 DEF ReadsInv, Concerns
  <2>4. Concerns(q)' = Concerns(q)
    BY <1>4 DEF Concerns
  <2>5. \A n \in txn[q].locked : Read(n)' => Read(n)
    BY <2>3 DEF Read
  <2>6. \A n \in txn[q].saw : Read(n) => Read(n)'
    BY <1>6, <2>1 DEF Concerns
  <2> QED
    BY <1>4, <2>1, <2>2, <2>4, <2>5, <2>6 DEF ReaderOK
<1>8. ReaderOK(r)'
  BY <1>1, ReaderEnds
<1>9. \A p, q \in Readers : p # q => txn'[p].locked \cap txn'[q].locked = {}
  BY <1>4, NoTxnType DEF ReadsInv
<1>10. \A m, n \in Notes :
         CreatedAt[m] = CreatedAt[n] /\ read_at'[m] = Absent => read_at'[n] = Absent
  BY <1>5 DEF ReadsInv
<1> QED
  BY <1>3, <1>7, <1>8, <1>9, <1>10 DEF ReadsInv

LEMMA NextReads == ReadsInv /\ [Next]_vars => ReadsInv'
<1> SUFFICES ASSUME ReadsInv, [Next]_vars PROVE ReadsInv'
  OBVIOUS
<1>1. CASE UNCHANGED vars
  BY <1>1 DEF vars, ReadsInv, TypeOK, ReaderOK, Concerns, Read
<1>2. ASSUME NEW r \in Readers, abort(r) \/ deadlock_victim(r)
      PROVE  ReadsInv'
  BY <1>2, RollbackReads DEF abort, deadlock_victim
<1> QED
  BY <1>1, <1>2, CreateReads, MarkOneReads, MarkAllReads, BeginReads,
     VisitReads, CommitReads DEF Next, Proceed

-----------------------------------------------------------------------------
(* The rows listed before n.                                               *)
Above(n) == {m \in Notes : Listed(m, pager.unread_only) /\ Before(m, n)}

(* A row that was there at the start and was not received yet is listed    *)
(* behind the offset.                                                      *)
Ahead(n) ==
  Listed(n, pager.unread_only) /\ Cardinality(Above(n)) >= pager.skip

PagerInv ==
  /\ pager \in [on: BOOLEAN, unread_only: BOOLEAN, skip: Nat,
                seen: SUBSET Notes, known: SUBSET Notes, marked: BOOLEAN]
  /\ pager.skip <= Cardinality(Notes) + Limit
  /\ pager.on =>
       /\ pager.skip <= Cardinality(Notes)
       /\ ~(pager.unread_only /\ pager.marked) =>
            \A n \in pager.known \ pager.seen : Ahead(n)

LEMMA PagesAreReads ==
  PSpec => []ReadsInv /\ [][Next]_vars
<1>1. PInit => ReadsInv
  BY InitReads DEF PInit
<1>2. [PNext]_<<vars, pager>> => [Next]_vars
  BY DEF PNext, start_paging, list_notifications, vars
<1>3. ReadsInv /\ [Next]_vars => ReadsInv'
  BY NextReads
<1> QED
  BY <1>1, <1>2, <1>3, PTL DEF PSpec

(* The bulk UPDATE, although it picked its rows before it waited for them, *)
(* never overwrites a read_at: only a request for one notification does.   *)
THEOREM BulkSparesReadAt == PSpec => BulkNeverOverwrites
<1>1. ASSUME ReadsInv, [Next]_vars, NEW n \in Notes, Read(n), read_at'[n] # read_at[n]
      PROVE  \E r \in Readers : pc[r] = "one" /\ pc'[r] = "idle"
  <2>1. ASSUME NEW t, create_notification(t) PROVE FALSE
    <3>1. PICK m \in Notes : CreatedAt[m] = t /\ read_at[m] = Absent
      BY <2>1 DEF create_notification
    <3>2. CreatedAt[n] = t
      BY <1>1, <2>1 DEF create_notification
    <3>3. read_at[n] = Absent
      BY <1>1, <3>1, <3>2 DEF ReadsInv
    <3> QED
      BY <1>1, <3>3, ReadsAssumption DEF Read
  <2>2. PICK r \in Readers : commit(r)
    <3>1. read_at' # read_at
      BY <1>1
    <3> QED
      BY <1>1, <2>1, <3>1
      DEF Next, Proceed, vars, mark_notification_as_read, mark_all_as_read,
          begin_update, visit_row, Visit, abort, deadlock_victim, Rollback
  <2>3. n \in txn[r].locked /\ pc[r] \in {"one", "all"} /\ pc'[r] = "idle"
    BY <1>1, <2>2 DEF commit, ReadsInv, TypeOK
  <2>4. pc[r] # "all"
    BY <1>1, <2>3 DEF ReadsInv, ReaderOK
  <2> QED
    BY <2>3, <2>4
<1>2. ReadsInv /\ [Next]_vars =>
        [\A n \in Notes :
           Read(n) /\ read_at'[n] # read_at[n]
             => \E r \in Readers : pc[r] = "one" /\ pc'[r] = "idle"]_vars
  BY <1>1
<1> QED
  BY <1>2, PagesAreReads, PTL DEF BulkNeverOverwrites

(* When the bulk request commits, whatever it found unread is read: it     *)
(* wrote it, or another request that held the row meanwhile did.           *)
THEOREM BulkMarksAll == PSpec => AllMarked
<1>1. ASSUME ReadsInv, NEW r \in Readers, commit(r), NEW n \in txn[r].saw
      PROVE  read_at'[n] \in Nat
  <2>1. /\ txn[r] \in Txn /\ ReaderOK(r) /\ n \in Notes /\ txn[r].at \in Nat
        /\ txn[r].todo = <<>> /\ pc[r] \in {"one", "all"}
    BY <1>1, ReadsAssumption DEF ReadsInv, TypeOK, Txn, commit
  <2>2. n \in txn[r].locked \/ Read(n)
    BY <2>1 DEF ReaderOK, Range
  <2>3. read_at'[n] = IF n \in txn[r].locked THEN txn[r].at ELSE read_at[n]
    BY <1>1, <2>1 DEF commit
  <2> QED
    BY <2>1, <2>2, <2>3 DEF Read
<1>2. ReadsInv =>
        [\A r \in Readers :
           commit(r) => \A n \in txn[r].saw : read_at'[n] \in Nat]_vars
  BY <1>1
<1> QED
  BY <1>2, PagesAreReads, PTL DEF AllMarked

-----------------------------------------------------------------------------
(* Paging.                                                                 *)

LEMMA BeforeIsTotalOrder ==
  ASSUME NEW m \in Notes, NEW n \in Notes
  PROVE  /\ ~Before(n, n)
         /\ Before(m, n) => ~Before(n, m)
         /\ m # n => Before(m, n) \/ Before(n, m)
<1>1. m \in Nat /\ n \in Nat /\ CreatedAt[m] \in Nat /\ CreatedAt[n] \in Nat
  BY PagesAssumption, ReadsAssumption
<1> QED
  BY <1>1 DEF Before

(* A row's position in a listing counts the rows before it.                *)
LEMMA Position ==
  ASSUME NEW R \in SUBSET Notes, NEW list \in Listings(R), NEW n \in R
  PROVE  \E i \in 1..Cardinality(R) :
           list[i] = n /\ Cardinality({m \in R : Before(m, n)}) = i - 1
<1>1. IsFiniteSet(R)
  BY PagesAssumption, FS_Subset
<1>2. list \in SetToSeqs(R)
      /\ \A i, k \in DOMAIN list : i < k => ~Before(list[k], list[i])
  BY DEF Listings
<1> DEFINE c == Cardinality(R)
<1>3. /\ list \in Seq(R) /\ Range(list) = R /\ Len(list) = c /\ c \in Nat
      /\ \A i, k \in 1..c : list[i] = list[k] => i = k
  BY <1>1, <1>2, Orders
<1> HIDE DEF c
<1>4. DOMAIN list = 1..c
  BY <1>3
<1>5. PICK i \in 1..c : list[i] = n
  BY <1>3, <1>4 DEF Range
<1>6. \A k \in 1..c : list[k] \in Notes /\ list[k] \in R
  BY <1>3
<1> DEFINE above == {m \in R : Before(m, n)}
           f == [k \in 1..(i - 1) |-> list[k]]
<1>7. \A k \in 1..c : k < i <=> Before(list[k], n)
  <2> SUFFICES ASSUME NEW k \in 1..c PROVE k < i <=> Before(list[k], n)
    OBVIOUS
  <2>1. k < i => Before(list[k], n)
    <3>1. ASSUME k < i PROVE Before(list[k], n)
      <4>1. ~Before(n, list[k])
        BY <1>2, <1>4, <1>5, <3>1
      <4>2. list[k] # n
        BY <1>3, <1>5, <3>1
      <4> QED
        BY <1>6, <4>1, <4>2, BeforeIsTotalOrder
    <3> QED
      BY <3>1
  <2>2. k > i => ~Before(list[k], n)
    BY <1>2, <1>4, <1>5
  <2>3. k = i => ~Before(list[k], n)
    BY <1>5, <1>6, BeforeIsTotalOrder
  <2> QED
    BY <1>3, <2>1, <2>2, <2>3
<1>8. /\ i - 1 \in Nat /\ 1..(i - 1) \subseteq 1..c
      /\ \A k \in 1..(i - 1) : k < i
      /\ \A k \in 1..c : k < i => k \in 1..(i - 1)
  BY <1>3
<1>9. f \in [1..(i - 1) -> above]
  BY <1>6, <1>7, <1>8
<1>10. IsInjective(f)
  BY <1>3, <1>8 DEF IsInjective
<1>11. \A m \in above : \E k \in 1..(i - 1) : f[k] = m
  <2> SUFFICES ASSUME NEW m \in R, Before(m, n)
               PROVE  \E k \in 1..(i - 1) : f[k] = m
    OBVIOUS
  <2>1. PICK k \in 1..c : list[k] = m
    BY <1>3, <1>4 DEF Range
  <2>2. k \in 1..(i - 1)
    BY <1>7, <1>8, <2>1
  <2> QED
    BY <2>1, <2>2
<1>12. f \in Bijection(1..(i - 1), above)
  BY <1>9, <1>10, <1>11 DEF Bijection, Injection, Surjection
<1>13. Cardinality(above) = i - 1
  BY <1>8, <1>12, FS_CountingElements DEF ExistsBijection
<1> QED
  BY <1>5, <1>13 DEF c

PageOf(list, skip) ==
  {list[i] : i \in {k \in DOMAIN list : skip < k /\ k <= skip + Limit}}

(* A page is full as long as there are rows to fill it.                    *)
LEMMA FullPage ==
  ASSUME NEW R \in SUBSET Notes, NEW list \in Listings(R), NEW skip \in Nat
  PROVE  /\ PageOf(list, skip) \subseteq R
         /\ Cardinality(PageOf(list, skip)) = Limit <=> skip + Limit <= Cardinality(R)
<1>1. IsFiniteSet(R) /\ list \in SetToSeqs(R) /\ Limit \in Nat \ {0}
  BY PagesAssumption, FS_Subset DEF Listings
<1> DEFINE c == Cardinality(R)
           page == PageOf(list, skip)
<1>2. /\ list \in Seq(R) /\ Len(list) = c /\ c \in Nat
      /\ \A i, k \in 1..c : list[i] = list[k] => i = k
  BY <1>1, Orders
<1> HIDE DEF c
<1>3. DOMAIN list = 1..c
  BY <1>2
<1>4. PICK top \in Int :
        /\ skip + Limit <= c => top = skip + Limit
        /\ skip + Limit > c => top = c
  <2>1. CASE skip + Limit <= c
    BY <1>1, <1>2, <2>1
  <2>2. CASE ~(skip + Limit <= c)
    BY <1>1, <1>2, <2>2
  <2> QED
    BY <2>1, <2>2
<1>5. {k \in DOMAIN list : skip < k /\ k <= skip + Limit} = (skip + 1)..top
  BY <1>1, <1>2, <1>3, <1>4
<1> DEFINE slice == (skip + 1)..top
           f == [k \in slice |-> list[k]]
<1>6. slice \subseteq 1..c
  BY <1>1, <1>2, <1>4
<1>7. page = {list[k] : k \in slice}
  BY <1>5 DEF PageOf
<1>8. page \subseteq R
  BY <1>2, <1>6, <1>7
<1>9. f \in Bijection(slice, page)
  <2> HIDE DEF slice
  <2> QED
    BY <1>2, <1>6, <1>7 DEF Bijection, Injection, Surjection, IsInjective
<1>10. /\ IsFiniteSet(slice)
       /\ Cardinality(slice) = IF skip + 1 > top THEN 0 ELSE top - (skip + 1) + 1
  <2>1. skip + 1 \in Int
    OBVIOUS
  <2> QED
    BY <1>4, <2>1, FS_Interval
<1>11. Cardinality(page) = Cardinality(slice)
  BY <1>9, <1>10, FS_Bijection DEF ExistsBijection
<1>12. Cardinality(slice) = Limit <=> skip + Limit <= c
  BY <1>1, <1>2, <1>4, <1>10
<1> QED
  BY <1>8, <1>11, <1>12 DEF c

(* The pager, whatever the other requests do.                              *)
PagerType ==
  [on: BOOLEAN, unread_only: BOOLEAN, skip: Nat,
   seen: SUBSET Notes, known: SUBSET Notes, marked: BOOLEAN]

LEMMA NoPagerType ==
  /\ NoPager \in PagerType /\ NoPager.on = FALSE /\ NoPager.skip = 0
  /\ NoPager.seen = {} /\ NoPager.marked = FALSE
BY DEF NoPager, PagerType

LEMMA InitPager == PInit => PagerInv
<1> SUFFICES ASSUME PInit PROVE PagerInv
  OBVIOUS
<1>1. Cardinality(Notes) \in Nat /\ Limit \in Nat
  BY PagesAssumption, FS_CardinalityType
<1>2. 0 <= Cardinality(Notes) + Limit
  BY <1>1
<1>3. pager = NoPager
  BY DEF PInit
<1> QED
  BY <1>2, <1>3, NoPagerType DEF PagerInv, PagerType

(* The record a client starts paging with: k are the rows listed then.     *)
AtStart(u, k) == [NoPager EXCEPT !.on = TRUE, !.unread_only = u, !.known = k]

(* Everything listed is at or behind offset 0.                             *)
LEMMA StartPager ==
  ASSUME ReadsInv, PagerInv, NEW unread_only \in BOOLEAN,
         start_paging(unread_only)
  PROVE  PagerInv'
<1> DEFINE known == {n \in Notes : Listed(n, unread_only)}
<1>1. pager' = AtStart(unread_only, known) /\ read_at' = read_at
  BY DEF start_paging, vars, AtStart
<1>2. \A k \in SUBSET Notes, u \in BOOLEAN :
        LET p == AtStart(u, k)
        IN  p \in PagerType /\ p.on /\ p.unread_only = u /\ p.known = k
            /\ p.skip = 0 /\ p.seen = {} /\ p.marked = FALSE
  BY NoPagerType DEF PagerType, AtStart
<1>3. known \in SUBSET Notes
  OBVIOUS
<1>4. \A n \in known : Listed(n, unread_only)
  OBVIOUS
<1> HIDE DEF known
<1>5. /\ pager' \in PagerType /\ pager'.on /\ pager'.unread_only = unread_only
      /\ pager'.known = known /\ pager'.skip = 0
  BY <1>1, <1>2, <1>3
<1>6. Cardinality(Notes) \in Nat /\ Limit \in Nat
  BY PagesAssumption, FS_CardinalityType
<1>7. ASSUME NEW n \in known PROVE Ahead(n)'
  <2>1. Listed(n, pager.unread_only)'
    BY <1>1, <1>4, <1>5 DEF Listed, Unread, Read
  <2>2. IsFiniteSet(Above(n)')
    BY PagesAssumption, FS_Subset DEF Above
  <2>3. Cardinality(Above(n)') \in Nat
    BY <2>2, FS_CardinalityType
  <2>4. Cardinality(Above(n)') >= pager'.skip
    BY <1>5, <2>3
  <2> QED
    BY <2>1, <2>4 DEF Ahead
<1>8. pager'.skip <= Cardinality(Notes) /\ pager'.skip <= Cardinality(Notes) + Limit
  BY <1>5, <1>6
<1> QED
  BY <1>5, <1>7, <1>8 DEF PagerInv, PagerType

(* A row of a listing that was not received is behind the next page.       *)
LEMMA StillAhead ==
  ASSUME PagerInv, pager.on, ~(pager.unread_only /\ pager.marked),
         NEW list \in Listings({n \in Notes : Listed(n, pager.unread_only)}),
         NEW n \in pager.known \ pager.seen,
         n \notin PageOf(list, pager.skip)
  PROVE  /\ Listed(n, pager.unread_only)
         /\ Cardinality(Above(n)) >= pager.skip + Limit
         /\ Cardinality({m \in Notes : Listed(m, pager.unread_only)})
              >= pager.skip + Limit
<1> DEFINE R == {m \in Notes : Listed(m, pager.unread_only)}
<1>1. Ahead(n) /\ n \in Notes /\ pager.skip \in Nat
  BY DEF PagerInv
<1>2. R \in SUBSET Notes /\ n \in R /\ list \in Listings(R)
      /\ {m \in R : Before(m, n)} = Above(n)
  BY <1>1 DEF Ahead, Above
<1> HIDE DEF R
<1>3. PICK i \in 1..Cardinality(R) :
        list[i] = n /\ Cardinality(Above(n)) = i - 1
  BY <1>2, Position
<1>4. IsFiniteSet(R)
  BY <1>2, PagesAssumption, FS_Subset
<1>5. Cardinality(R) \in Nat /\ DOMAIN list = 1..Cardinality(R)
  <2>1. list \in SetToSeqs(R)
    BY <1>2 DEF Listings
  <2> QED
    BY <1>4, <2>1, Orders
<1>6. pager.skip <= i - 1
  BY <1>1, <1>3 DEF Ahead
<1>7. ~(i <= pager.skip + Limit)
  <2>1. pager.skip < i
    BY <1>1, <1>5, <1>6
  <2> QED
    BY <1>3, <1>5, <2>1 DEF PageOf
<1>8. Limit \in Nat
  BY PagesAssumption
<1>9. i - 1 >= pager.skip + Limit /\ Cardinality(R) >= pager.skip + Limit
  BY <1>1, <1>5, <1>7, <1>8
<1> QED
  BY <1>1, <1>3, <1>9 DEF Ahead, R

(* The pager after a page, and whether there are more.                     *)
Turned(p, page, more) ==
  [p EXCEPT !.on = more, !.skip = @ + Limit, !.seen = @ \cup page]

LEMMA TurnedPager ==
  ASSUME NEW p \in PagerType, NEW page \in SUBSET Notes, NEW more \in BOOLEAN
  PROVE  LET q == Turned(p, page, more)
         IN  /\ q \in PagerType /\ q.on = more /\ q.skip = p.skip + Limit
             /\ q.seen = p.seen \cup page /\ q.known = p.known
             /\ q.unread_only = p.unread_only /\ q.marked = p.marked
<1>1. p.skip + Limit \in Nat
  BY PagesAssumption DEF PagerType
<1> QED
  BY <1>1 DEF Turned, PagerType

LEMMA ListPager ==
  ASSUME ReadsInv, PagerInv, list_notifications
  PROVE  /\ PagerInv'
         /\ ~pager'.on => \/ pager.known \subseteq pager'.seen
                          \/ pager.unread_only /\ pager.marked
<1> DEFINE R == {n \in Notes : Listed(n, pager.unread_only)}
<1>1. PICK list \in Listings(R) :
        pager' = Turned(pager, PageOf(list, pager.skip),
                        Cardinality(PageOf(list, pager.skip)) = Limit)
  BY DEF list_notifications, PageOf, Turned
<1>2. pager.on /\ read_at' = read_at /\ R \in SUBSET Notes
      /\ pager \in PagerType
  BY DEF list_notifications, vars, PagerInv, PagerType
<1> DEFINE page == PageOf(list, pager.skip)
           full == Cardinality(page) = Limit
<1>3. pager.skip \in Nat /\ Limit \in Nat /\ pager.skip <= Cardinality(Notes)
  BY <1>2, PagesAssumption DEF PagerType, PagerInv
<1>4. page \subseteq Notes /\ (full <=> pager.skip + Limit <= Cardinality(R))
  BY <1>2, <1>3, FullPage
<1>5. /\ IsFiniteSet(R) /\ Cardinality(R) \in Nat /\ Cardinality(Notes) \in Nat
      /\ Cardinality(R) <= Cardinality(Notes)
  BY <1>2, PagesAssumption, FS_Subset, FS_CardinalityType
<1>7. pager' = Turned(pager, page, full)
  BY <1>1
<1> HIDE DEF page
<1>12. full \in BOOLEAN
  OBVIOUS
<1> HIDE DEF full
<1>8. /\ pager' \in PagerType /\ pager'.on = full
      /\ pager'.skip = pager.skip + Limit
      /\ pager'.seen = pager.seen \cup page /\ pager'.known = pager.known
      /\ pager'.unread_only = pager.unread_only /\ pager'.marked = pager.marked
  BY <1>2, <1>4, <1>7, <1>12, TurnedPager
<1>9. pager'.skip <= Cardinality(Notes) + Limit
      /\ (full => pager'.skip <= Cardinality(Notes))
  BY <1>3, <1>4, <1>5, <1>8
<1>10. ASSUME ~(pager.unread_only /\ pager.marked),
              NEW n \in pager.known, n \notin pager'.seen
       PROVE  Ahead(n)' /\ full
  <2>1. /\ Listed(n, pager.unread_only)
        /\ Cardinality(Above(n)) >= pager.skip + Limit
        /\ Cardinality(R) >= pager.skip + Limit
    <3>1. n \in pager.known \ pager.seen /\ n \notin PageOf(list, pager.skip)
      BY <1>8, <1>10 DEF page
    <3> QED
      BY <1>1, <1>2, <1>10, <3>1, StillAhead
  <2>2. Above(n)' = Above(n)
    BY <1>2, <1>8 DEF Above, Listed, Unread, Read
  <2>3. Ahead(n)'
    BY <1>2, <1>8, <2>1, <2>2 DEF Ahead, Listed, Unread, Read
  <2>4. full
    BY <1>3, <1>4, <1>5, <2>1
  <2> QED
    BY <2>3, <2>4
<1>11. PagerInv'
  BY <1>8, <1>9, <1>10 DEF PagerInv, PagerType
<1> QED
  BY <1>8, <1>10, <1>11

(* No row disappears, and one that was read stays so.                      *)
LEMMA RowsStay ==
  ASSUME ReadsInv, [Next]_vars, NEW n \in Notes
  PROVE  /\ Read(n) => Read(n)'
         /\ Unread(n) => Unread(n)' \/ read_at'[n] \in Nat
<1>1. CASE UNCHANGED read_at
  BY <1>1 DEF Read, Unread
<1>2. ASSUME NEW t, create_notification(t)
      PROVE  /\ Read(n) => Read(n)'
             /\ Unread(n) => Unread(n)' \/ read_at'[n] \in Nat
  <2>1. PICK m \in Notes : CreatedAt[m] = t /\ read_at[m] = Absent
    BY <1>2 DEF create_notification
  <2>2. read_at'[n] = IF CreatedAt[n] = t THEN None ELSE read_at[n]
    BY <1>2 DEF create_notification
  <2>3. CreatedAt[n] = t => read_at[n] = Absent
    BY <2>1 DEF ReadsInv
  <2> QED
    BY <2>2, <2>3, ReadsAssumption DEF Read, Unread
<1>3. ASSUME NEW r \in Readers, commit(r)
      PROVE  /\ Read(n) => Read(n)'
             /\ Unread(n) => Unread(n)' \/ read_at'[n] \in Nat
  <2>1. read_at'[n] = IF n \in txn[r].locked THEN txn[r].at ELSE read_at[n]
    BY <1>3 DEF commit
  <2>2. txn[r].at \in Nat
    BY ReadsAssumption DEF ReadsInv, TypeOK, Txn
  <2> QED
    BY <2>1, <2>2 DEF Read, Unread
<1> QED
  BY <1>1, <1>2, <1>3
  DEF Next, Proceed, vars, mark_notification_as_read, mark_all_as_read,
      begin_update, visit_row, Visit, abort, deadlock_victim, Rollback

(* Insertions push rows behind the offset only further; nothing before it  *)
(* goes away but what is marked under a client of unread ones.             *)
LEMMA OthersPager ==
  ASSUME ReadsInv, PagerInv, [Next]_vars,
         Observe \/ UNCHANGED pager, vars' = vars \/ Observe
  PROVE  PagerInv'
<1> DEFINE marks == \E n \in Notes : Unread(n) /\ read_at'[n] \in Nat
<1>1. pager \in PagerType
  BY DEF PagerInv, PagerType
<1>2. /\ pager' \in PagerType /\ pager'.on = pager.on
      /\ pager'.unread_only = pager.unread_only /\ pager'.skip = pager.skip
      /\ pager'.seen = pager.seen /\ pager'.known = pager.known
      /\ \/ pager'.marked = (pager.marked \/ marks)
         \/ pager' = pager /\ read_at' = read_at
  <2>1. CASE Observe
    <3>1. pager' = [pager EXCEPT !.marked = @ \/ marks]
      BY <2>1 DEF Observe
    <3>2. pager.marked \in BOOLEAN /\ marks \in BOOLEAN
      BY <1>1 DEF PagerType
    <3> HIDE DEF marks
    <3> QED
      BY <1>1, <3>1, <3>2 DEF PagerType
  <2>2. CASE ~Observe
    BY <1>1, <2>2 DEF vars
  <2> QED
    BY <2>1, <2>2
<1>3. ASSUME ~(pager.unread_only /\ pager'.marked), NEW n \in Notes
      PROVE  Listed(n, pager.unread_only) => Listed(n, pager.unread_only)'
  <2>1. pager.unread_only \in BOOLEAN
    BY <1>1 DEF PagerType
  <2>2. CASE pager.unread_only
    <3>1. ~marks \/ read_at' = read_at
      BY <1>2, <1>3, <2>2
    <3> QED
      BY <1>2, <2>2, <3>1, RowsStay DEF Listed, Unread
  <2>3. CASE ~pager.unread_only
    BY <1>2, <2>3, RowsStay DEF Listed, Read, Unread
  <2> QED
    BY <2>1, <2>2, <2>3
<1>4. ASSUME pager.on, ~(pager.unread_only /\ pager'.marked),
             NEW n \in pager.known \ pager.seen
      PROVE  Ahead(n)'
  <2>1. ~(pager.unread_only /\ pager.marked)
    BY <1>2, <1>4
  <2>2. Ahead(n) /\ n \in Notes
    BY <1>4, <2>1 DEF PagerInv
  <2>3. Above(n) \subseteq Above(n)' /\ Above(n)' \subseteq Notes
    BY <1>2, <1>3, <1>4 DEF Above, Before
  <2>4. IsFiniteSet(Above(n)') /\ IsFiniteSet(Above(n))
    BY <2>3, PagesAssumption, FS_Subset
  <2>5. /\ Cardinality(Above(n)) <= Cardinality(Above(n)')
        /\ Cardinality(Above(n)) \in Nat /\ Cardinality(Above(n)') \in Nat
    BY <2>3, <2>4, FS_Subset, FS_CardinalityType
  <2>6. pager.skip \in Nat
    BY <1>1 DEF PagerType
  <2>7. Cardinality(Above(n)') >= pager.skip
    BY <2>2, <2>5, <2>6 DEF Ahead
  <2>8. Listed(n, pager.unread_only)'
    BY <1>3, <1>4, <2>2 DEF Ahead
  <2> QED
    BY <1>2, <2>7, <2>8 DEF Ahead
<1> QED
  BY <1>2, <1>4 DEF PagerInv, PagerType

LEMMA NextPager ==
  ReadsInv /\ PagerInv /\ [PNext]_<<vars, pager>> => PagerInv'
<1> SUFFICES ASSUME ReadsInv, PagerInv, [PNext]_<<vars, pager>> PROVE PagerInv'
  OBVIOUS
<1>1. CASE Next /\ Observe
  BY <1>1, OthersPager
<1>2. CASE UNCHANGED <<vars, pager>>
  BY <1>2, OthersPager
<1> QED
  BY <1>1, <1>2, StartPager, ListPager DEF PNext

LEMMA PagerInvariant == PSpec => []PagerInv
<1>1. PInit => PagerInv
  BY InitPager
<1>2. ReadsInv /\ PagerInv /\ [PNext]_<<vars, pager>> => PagerInv'
  BY NextPager
<1> QED
  BY <1>1, <1>2, PagesAreReads, PTL DEF PSpec

(* The readers, their transactions and the client stay within their types: *)
(* the offset stops growing when the rows end.                             *)
THEOREM PagesTypeCorrect == PSpec => []PTypeOK
<1>1. ASSUME ReadsInv, PagerInv PROVE PTypeOK
  <2> DEFINE c == Cardinality(Notes)
  <2>1. c \in Nat /\ Limit \in Nat \ {0}
    BY PagesAssumption, FS_CardinalityType
  <2>2. pager.skip \in Nat /\ pager.skip <= c + Limit
    BY <1>1 DEF PagerInv
  <2> HIDE DEF c
  <2>3. c + Limit <= Limit * (c + 1)
    <3>1. \A l \in Nat \ {0}, k \in Nat : k <= l * k
      <4> SUFFICES ASSUME NEW l \in Nat \ {0}, NEW k \in Nat PROVE k <= l * k
        OBVIOUS
      <4>1. l * k = (l - 1) * k + k
        OBVIOUS
      <4>2. (l - 1) * k >= 0
        OBVIOUS
      <4> QED
        BY <4>1, <4>2
    <3>2. Limit * (c + 1) = Limit * c + Limit
      BY <2>1
    <3>3. c <= Limit * c /\ Limit * c \in Nat
      BY <2>1, <3>1
    <3> QED
      BY <2>1, <3>2, <3>3
  <2>4. pager.skip \in 0..(Limit * (c + 1))
    BY <2>1, <2>2, <2>3
  <2> QED
    BY <1>1, <2>4 DEF PTypeOK, PagerInv, ReadsInv, c
<1> QED
  BY <1>1, PagesAreReads, PagerInvariant, PTL

(* Paging by offset misses no row there was at the start, whatever is      *)
(* committed above, below or between meanwhile, unless the client lists    *)
(* unread ones only and some are marked.                                   *)
THEOREM PagingReachesEverything == PSpec => PagingMissesNothing
<1>1. ReadsInv /\ PagerInv /\ [PNext]_<<vars, pager>> =>
        [pager.on /\ ~pager'.on =>
           \/ pager.known \subseteq pager'.seen
           \/ pager.unread_only /\ pager.marked]_<<vars, pager>>
  <2> SUFFICES ASSUME ReadsInv, PagerInv, PNext, pager.on, ~pager'.on
               PROVE  \/ pager.known \subseteq pager'.seen
                      \/ pager.unread_only /\ pager.marked
    OBVIOUS
  <2>1. ~Observe
    <3>1. pager \in PagerType
      BY DEF PagerInv, PagerType
    <3> QED
      BY <3>1 DEF Observe, PagerType
  <2>2. list_notifications
    BY <2>1 DEF PNext, start_paging
  <2> QED
    BY <2>2, ListPager
<1> QED
  BY <1>1, PagesAreReads, PagerInvariant, PTL DEF PSpec, PagingMissesNothing
=============================================================================
