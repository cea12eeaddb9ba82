--------------------------- MODULE MigrationsProofs ---------------------------
(***************************************************************************)
(* Alembic processes that race, fail and die leave a database version_num  *)
(* tells the truth about.  The argument: what a process has created and    *)
(* dropped is, at each statement, what the revisions say of that point of  *)
(* them; and from its first stamp on it holds the row of alembic_version,  *)
(* so that nobody else commits under it.                                   *)
(***************************************************************************)
EXTENDS Migrations, TLAPS

Table == "alembic_version"

(* What revision v contains, and what the first i statements of revision k *)
(* add to the one below it or take from it.                                *)
Full(v) == UNION {Created(i) : i \in 1..v}
Made(k, i) == UNION {Adds(upgrade[k][j]) : j \in 1..i}
Cut(k, i) == UNION {Takes(downgrade[k][j]) : j \in 1..i}

Reached(p) ==
  IF ~HasStep(p) \/ p.next = 0 THEN Full(p.stamp)
  ELSE IF p.stamp < p.to THEN Full(p.stamp) \cup Made(p.stamp + 1, p.next - 1)
  ELSE Full(p.stamp) \ Cut(p.stamp, p.next - 1)

-----------------------------------------------------------------------------
(* The statements of the revisions, one by one.                            *)
LEMMA PartsOf ==
  /\ Parts("users") = {"ix_users", "password_hash", "not_null"}
  /\ Parts("bookings") = {"ix_bookings"}
  /\ Parts("reviews") = {"ix_reviews"}
  /\ Parts("notifications") = {"ix_notifications"}
  /\ Parts("password_hash") = {"not_null"}
  /\ \A x \in Objects \ {"users", "bookings", "reviews", "notifications",
                         "password_hash"} : Parts(x) = {}
  BY DEF Parts

LEMMA SoFar ==
  ASSUME NEW k
  PROVE  /\ Made(k, 0) = {} /\ Cut(k, 0) = {}
         /\ \A i \in Nat \ {0} :
              /\ Made(k, i) = Made(k, i - 1) \cup Adds(upgrade[k][i])
              /\ Cut(k, i) = Cut(k, i - 1) \cup Takes(downgrade[k][i])
<1>1. 1..0 = {} /\ \A i \in Nat \ {0} : 1..i = 1..(i - 1) \cup {i}
  OBVIOUS
<1> QED
  BY <1>1 DEF Made, Cut

LEMMA Revisions ==
  /\ Len(upgrade[1]) = 9 /\ Len(upgrade[2]) = 4 /\ Len(upgrade[3]) = 4
  /\ Len(downgrade[1]) = 9 /\ Len(downgrade[2]) = 2 /\ Len(downgrade[3]) = 4
  /\ upgrade[1] = upgrade_0001 /\ upgrade[2] = upgrade_0002
  /\ upgrade[3] = upgrade_0003
  /\ downgrade[1] = downgrade_0001 /\ downgrade[2] = downgrade_0002
  /\ downgrade[3] = downgrade_0003
  BY DEF upgrade, downgrade, upgrade_0001, upgrade_0002, upgrade_0003,
         downgrade_0001, downgrade_0002, downgrade_0003

LEMMA MadeBy1 ==
  /\ Made(1, 0) = {}
  /\ Made(1, 1) = {"user_role"}
  /\ Made(1, 2) = {"user_role", "users"}
  /\ Made(1, 3) = {"user_role", "users", "ix_users"}
  /\ Made(1, 4) = {"user_role", "users", "ix_users", "booking_status"}
  /\ Made(1, 5) = {"user_role", "users", "ix_users", "booking_status",
                     "bookings"}
  /\ Made(1, 6) = {"user_role", "users", "ix_users", "booking_status",
                     "bookings", "ix_bookings"}
  /\ Made(1, 7) = {"user_role", "users", "ix_users", "booking_status",
                     "bookings", "ix_bookings", "reviews"}
  /\ Made(1, 8) = {"user_role", "users", "ix_users", "booking_status",
                     "bookings", "ix_bookings", "reviews", "ix_reviews"}
  BY SoFar, Revisions
     DEF upgrade_0001, Adds, Create, Stamp

LEMMA MadeBy2 ==
  /\ Made(2, 0) = {}
  /\ Made(2, 1) = {"password_hash"}
  /\ Made(2, 2) = {"password_hash"}
  /\ Made(2, 3) = {"password_hash", "not_null"}
  BY SoFar, Revisions
     DEF upgrade_0002, Adds, Create, Stamp, Backfill

LEMMA MadeBy3 ==
  /\ Made(3, 0) = {}
  /\ Made(3, 1) = {"notification_type"}
  /\ Made(3, 2) = {"notification_type", "notifications"}
  /\ Made(3, 3) = {"notification_type", "notifications", "ix_notifications"}
  BY SoFar, Revisions
     DEF upgrade_0003, Adds, Create, Stamp

LEMMA CutBy1 ==
  /\ Cut(1, 0) = {}
  /\ Cut(1, 1) = {"ix_reviews"}
  /\ Cut(1, 2) = {"ix_reviews", "reviews"}
  /\ Cut(1, 3) = {"ix_reviews", "reviews", "ix_bookings"}
  /\ Cut(1, 4) = {"ix_reviews", "reviews", "ix_bookings", "bookings"}
  /\ Cut(1, 5) = {"ix_reviews", "reviews", "ix_bookings", "bookings",
                     "ix_users"}
  /\ Cut(1, 6) = {"ix_reviews", "reviews", "ix_bookings", "bookings",
                     "ix_users", "users", "password_hash", "not_null"}
  /\ Cut(1, 7) = {"ix_reviews", "reviews", "ix_bookings", "bookings",
                     "ix_users", "users", "password_hash", "not_null",
                     "booking_status"}
  /\ Cut(1, 8) = {"ix_reviews", "reviews", "ix_bookings", "bookings",
                     "ix_users", "users", "password_hash", "not_null",
                     "booking_status", "user_role"}
  BY SoFar, Revisions, PartsOf
     DEF downgrade_0001, Takes, Drop, DropIfExists, Stamp, Objects, Needs

LEMMA CutBy2 ==
  /\ Cut(2, 0) = {}
  /\ Cut(2, 1) = {"password_hash", "not_null"}
  BY SoFar, Revisions, PartsOf
     DEF downgrade_0002, Takes, Drop, DropIfExists, Stamp, Objects, Needs

LEMMA CutBy3 ==
  /\ Cut(3, 0) = {}
  /\ Cut(3, 1) = {"ix_notifications"}
  /\ Cut(3, 2) = {"ix_notifications", "notifications"}
  /\ Cut(3, 3) = {"ix_notifications", "notifications", "notification_type"}
  BY SoFar, Revisions, PartsOf
     DEF downgrade_0003, Takes, Drop, DropIfExists, Stamp, Objects, Needs

LEMMA Lengths ==
  ASSUME NEW k \in 1..3
  PROVE  Len(upgrade[k]) \in Nat \ {0} /\ Len(downgrade[k]) \in Nat \ {0}
<1>1. CASE k = 1
  BY <1>1, Revisions
<1>2. CASE k = 2
  BY <1>2, Revisions
<1>3. CASE k = 3
  BY <1>3, Revisions
<1> QED
  BY <1>1, <1>2, <1>3

LEMMA Contents ==
  /\ Full(0) = {}
  /\ Full(1) = {"user_role", "users", "ix_users", "booking_status", "bookings",
                "ix_bookings", "reviews", "ix_reviews"}
  /\ Full(2) = Full(1) \cup {"password_hash", "not_null"}
  /\ Full(3) = Full(2) \cup {"notification_type", "notifications", "ix_notifications"}
<1>1. \A k \in 1..3 : Created(k) = Made(k, Len(upgrade[k]))
  <2>1. \A k \in 1..3 : DOMAIN upgrade[k] = 1..Len(upgrade[k])
    BY DEF upgrade, upgrade_0001, upgrade_0002, upgrade_0003
  <2>2. ASSUME NEW k \in 1..3 PROVE Created(k) = Made(k, Len(upgrade[k]))
    <3>1. Range(upgrade[k]) = {upgrade[k][j] : j \in 1..Len(upgrade[k])}
      BY <2>1 DEF Range
    <3>2. Created(k) = {upgrade[k][j].what :
                          j \in {n \in 1..Len(upgrade[k]) : upgrade[k][n].do = "create"}}
      BY <3>1 DEF Created
    <3> QED
      BY <3>2 DEF Made, Adds
  <2> QED
    BY <2>2
<1>2. Made(1, 9) = Made(1, 8) /\ Made(2, 4) = Made(2, 3) /\ Made(3, 4) = Made(3, 3)
  <2>1. /\ Adds(upgrade[1][9]) = {} /\ Adds(upgrade[2][4]) = {}
        /\ Adds(upgrade[3][4]) = {}
    BY Revisions DEF upgrade_0001, upgrade_0002, upgrade_0003, Adds, Stamp
  <2>2. \A S : S \cup {} = S
    OBVIOUS
  <2>3. /\ Made(1, 9) = Made(1, 8) \cup Adds(upgrade[1][9])
        /\ Made(2, 4) = Made(2, 3) \cup Adds(upgrade[2][4])
        /\ Made(3, 4) = Made(3, 3) \cup Adds(upgrade[3][4])
    BY SoFar
  <2> QED
    BY <2>1, <2>2, <2>3
<1>3. 1..0 = {} /\ 1..1 = {1} /\ 1..2 = {1, 2} /\ 1..3 = {1, 2, 3}
  OBVIOUS
<1>4. Created(1) = Made(1, 8) /\ Created(2) = Made(2, 3) /\ Created(3) = Made(3, 3)
  <2>1. /\ Created(1) = Made(1, Len(upgrade[1])) /\ Created(2) = Made(2, Len(upgrade[2]))
        /\ Created(3) = Made(3, Len(upgrade[3]))
    BY <1>1
  <2> QED
    BY <1>2, <2>1, Revisions
<1>5. /\ Full(0) = {} /\ Full(1) = Created(1)
      /\ Full(2) = Created(1) \cup Created(2)
      /\ Full(3) = Created(1) \cup Created(2) \cup Created(3)
  BY <1>3 DEF Full
<1> QED
  BY <1>4, <1>5, MadeBy1, MadeBy2, MadeBy3

(* A statement that a database with the objects H accepts.                 *)
Applies(s, H) ==
  /\ s.what \in Objects
  /\ s.do \in {"create", "drop", "drop_if_exists", "backfill", "stamp"}
  /\ s.what = Table <=> s.do = "stamp"
  /\ s.do = "create" => s.what \notin H /\ Needs[s.what] \subseteq H
  /\ s.do = "drop" => s.what \in H /\ {y \in H : s.what \in Needs[y]} \subseteq Parts(s.what)
  /\ s.do = "drop_if_exists" => \A y \in H : s.what \notin Needs[y]

(* Revision k applies to a database at revision k - 1 and makes it one at  *)
(* revision k, and the hashes are filled in before they must be there.     *)
LEMMA Upgrade ==
  ASSUME NEW k \in 1..3, NEW i \in 1..Len(upgrade[k])
  PROVE  /\ Applies(upgrade[k][i], Full(k - 1) \cup Made(k, i - 1))
         /\ upgrade[k][i].do \notin {"drop", "drop_if_exists"}
         /\ upgrade[k][i].do = "stamp" <=> i = Len(upgrade[k])
         /\ i = Len(upgrade[k]) => /\ upgrade[k][i].to = k
                                   /\ Full(k - 1) \cup Made(k, i - 1) = Full(k)
         /\ upgrade[k][i].what = "not_null" => k = 2 /\ i = 3
         /\ k = 2 /\ i = 2 => upgrade[k][i].do = "backfill"
<1>1. CASE k = 1
  BY <1>1, Revisions, Contents, MadeBy1
     DEF upgrade_0001, Create, Stamp, Applies, Objects, Needs, Table
<1>2. CASE k = 2
  BY <1>2, Revisions, Contents, MadeBy2
     DEF upgrade_0002, Create, Stamp, Backfill, Applies, Objects, Needs, Table
<1>3. CASE k = 3
  BY <1>3, Revisions, Contents, MadeBy3
     DEF upgrade_0003, Create, Stamp, Applies, Objects, Needs, Table
<1> QED
  BY <1>1, <1>2, <1>3

(* And back: revision k reverted leaves a database at revision k - 1.      *)
LEMMA Downgrade ==
  ASSUME NEW k \in 1..3, NEW i \in 1..Len(downgrade[k])
  PROVE  /\ Applies(downgrade[k][i], Full(k) \ Cut(k, i - 1))
         /\ downgrade[k][i].do \in {"drop", "drop_if_exists", "stamp"}
         /\ downgrade[k][i].do = "stamp" <=> i = Len(downgrade[k])
         /\ i = Len(downgrade[k]) => /\ downgrade[k][i].to = k - 1
                                     /\ Full(k) \ Cut(k, i - 1) = Full(k - 1)
         /\ downgrade[k][i].what # "not_null"
<1>1. CASE k = 1
  BY <1>1, Revisions, Contents, CutBy1, PartsOf
     DEF downgrade_0001, Drop, DropIfExists, Stamp, Applies, Objects, Needs, Table
<1>2. CASE k = 2
  BY <1>2, Revisions, Contents, CutBy2, PartsOf
     DEF downgrade_0002, Drop, DropIfExists, Stamp, Applies, Objects, Needs, Table
<1>3. CASE k = 3
  BY <1>3, Revisions, Contents, CutBy3, PartsOf
     DEF downgrade_0003, Drop, DropIfExists, Stamp, Applies, Objects, Needs, Table
<1> QED
  BY <1>1, <1>2, <1>3

-----------------------------------------------------------------------------
(* The invariant.                                                          *)
Process ==
  [pc : {"off", "run", "error", "done"}, from : 0..Latest, to : 0..Latest,
   stamp : 0..Latest, next : Nat, new : SUBSET Objects, gone : SUBSET Objects,
   filled : BOOLEAN, held : SUBSET Objects, raced : BOOLEAN]

(* A process is between where it started and where it goes.                *)
OnItsWay(p) ==
  /\ (p.from <= p.stamp /\ p.stamp <= p.to) \/ (p.to <= p.stamp /\ p.stamp <= p.from)
  /\ p.next = 0 => p.stamp = p.from /\ p.new = {} /\ p.gone = {}
  /\ HasStep(p) /\ p.next # 0 => p.next \in 1..Len(Revision(p))

(* Its changes so far are those of its statements so far; no hash is       *)
(* missing once the column is NOT NULL.                                    *)
ChangesSoFar(p) ==
  /\ p.to <= p.from => p.new \subseteq {Table}
  /\ p.from <= p.to => p.gone = {}
  /\ Table \notin p.gone
  /\ (Full(p.from) \ p.gone) \cup (p.new \ {Table}) = Reached(p)
  /\ p.from < 2 /\ (p.stamp >= 2 \/ (p.stamp = 1 /\ p.to >= 2 /\ p.next > 2)) => p.filled

(* Once stamped, nobody else can stamp; alone, nothing changes under it.   *)
Runs(r) ==
  LET p == run[r]
  IN  /\ p.pc # "run" => p.held = {}
      /\ p.pc = "run" =>
           /\ OnItsWay(p) /\ ChangesSoFar(p)
           /\ p.stamp # p.from => version = p.from /\ Table \in p.held
           /\ ~p.raced => /\ version = p.from
                          /\ p.next = 0 => Table \notin schema
                          /\ \A o \in Runners \ {r} : run[o].pc # "run"

Apart == \A r, o \in Runners : r # o => run[r].held \cap run[o].held = {}

Truthful == schema \subseteq Objects /\ version \in 0..Latest /\ schema \ {Table} = Full(version)

Hashes ==
  /\ password \in [Users -> {"no_row", "none", "unusable", "own"}]
  /\ version >= 2 => \A u \in Users : password[u] # "none"

MigrationsInv ==
  /\ run \in [Runners -> Process]
  /\ commands \in 0..MaxCommands /\ crashes \in 0..MaxCrashes
  /\ Truthful /\ Hashes /\ Apart /\ FailsOnlyByRace
  /\ \A r \in Runners : Runs(r)

-----------------------------------------------------------------------------
(* A statement.                                                            *)
Advanced(p) ==
  LET s == Step(p)
  IN  [p EXCEPT !.next = IF s.do = "stamp" THEN 1 ELSE @ + 1,
                !.held = @ \cup Locks(s),
                !.new = @ \cup Adds(s),
                !.gone = @ \cup Takes(s),
                !.filled = @ \/ s.do = "backfill",
                !.stamp = IF s.do = "stamp" THEN s.to ELSE @]

Going(p) == p \in Process /\ p.pc = "run" /\ OnItsWay(p) /\ ChangesSoFar(p)

(* Applying statement i of revision k, and reverting.                      *)
Up(p, k, i) ==
  /\ k \in 1..3 /\ i \in 1..Len(upgrade[k])
  /\ p.stamp = k - 1 /\ p.next = i /\ p.from < k /\ k <= p.to
  /\ Step(p) = upgrade[k][i]
  /\ Reached(p) = Full(k - 1) \cup Made(k, i - 1)

Down(p, k, i) ==
  /\ k \in 1..3 /\ i \in 1..Len(downgrade[k])
  /\ p.stamp = k /\ p.next = i /\ p.to < k /\ k <= p.from
  /\ Step(p) = downgrade[k][i]
  /\ Reached(p) = Full(k) \ Cut(k, i - 1)

LEMMA Places ==
  ASSUME NEW p, Going(p), HasStep(p), p.next # 0
  PROVE  \E k, i : Up(p, k, i) \/ Down(p, k, i)
<1>1. p.stamp \in 0..3 /\ p.to \in 0..3 /\ p.from \in 0..3 /\ p.stamp # p.to
  BY DEF Going, Process, HasStep, Latest
<1>2. ASSUME p.stamp < p.to PROVE Up(p, p.stamp + 1, p.next)
  <2>1. (p.stamp + 1) - 1 = p.stamp
    BY <1>1
  <2>2. /\ Reached(p) = Full(p.stamp) \cup Made(p.stamp + 1, p.next - 1)
        /\ Step(p) = upgrade[p.stamp + 1][p.next]
        /\ p.next \in 1..Len(upgrade[p.stamp + 1])
    BY <1>2 DEF Going, OnItsWay, Revision, Step, Reached
  <2> QED
    BY <1>1, <1>2, <2>1, <2>2 DEF Going, OnItsWay, Up
<1>3. ASSUME p.to < p.stamp PROVE Down(p, p.stamp, p.next)
  <2>1. ~(p.stamp < p.to)
    BY <1>1, <1>3
  <2> QED
    BY <1>1, <1>3, <2>1 DEF Going, OnItsWay, Revision, Step, Reached, Down
<1> QED
  BY <1>1, <1>2, <1>3

LEMMA StepApplies ==
  ASSUME NEW p, Going(p), HasStep(p), p.next # 0
  PROVE  Applies(Step(p), Reached(p))
<1>1. PICK k, i : Up(p, k, i) \/ Down(p, k, i)
  BY Places
<1>2. CASE Up(p, k, i)
  <2>1. k \in 1..3 /\ i \in 1..Len(upgrade[k])
    BY <1>2 DEF Up
  <2>2. Applies(upgrade[k][i], Full(k - 1) \cup Made(k, i - 1))
    BY <2>1, Upgrade
  <2> QED
    BY <1>2, <2>2 DEF Up
<1>3. CASE Down(p, k, i)
  <2>1. k \in 1..3 /\ i \in 1..Len(downgrade[k])
    BY <1>3 DEF Down
  <2>2. Applies(downgrade[k][i], Full(k) \ Cut(k, i - 1))
    BY <2>1, Downgrade
  <2> QED
    BY <1>3, <2>2 DEF Down
<1> QED
  BY <1>1, <1>2, <1>3

LEMMA AdvancedFields ==
  ASSUME NEW p \in Process, NEW s, s = Step(p), s.what \in Objects,
         s.do = "stamp" => s.to \in 0..Latest
  PROVE  LET q == Advanced(p)
         IN  /\ q \in Process
             /\ q.pc = p.pc /\ q.from = p.from /\ q.to = p.to /\ q.raced = p.raced
             /\ q.stamp = IF s.do = "stamp" THEN s.to ELSE p.stamp
             /\ q.next = IF s.do = "stamp" THEN 1 ELSE p.next + 1
             /\ q.new = p.new \cup Adds(s) /\ q.gone = p.gone \cup Takes(s)
             /\ q.filled = (p.filled \/ s.do = "backfill")
             /\ q.held = p.held \cup Locks(s)
<1>1. Adds(s) \subseteq Objects
  BY DEF Adds
<1>2. Parts(s.what) \subseteq Objects
  BY PartsOf DEF Objects, Needs
<1>3. Takes(s) \subseteq Objects
  BY <1>2 DEF Takes
<1>4. \A x \in Objects : Needs[x] \subseteq Objects
  BY DEF Objects, Needs
<1>5. Locks(s) \subseteq Objects
  BY <1>4 DEF Locks
<1>6. p.filled \in BOOLEAN /\ p.next + 1 \in Nat
  BY DEF Process
<1> DEFINE q == Advanced(p)
<1>7. /\ q.pc = p.pc /\ q.from = p.from /\ q.to = p.to /\ q.raced = p.raced
      /\ q.stamp = IF s.do = "stamp" THEN s.to ELSE p.stamp
      /\ q.next = IF s.do = "stamp" THEN 1 ELSE p.next + 1
      /\ q.new = p.new \cup Adds(s) /\ q.gone = p.gone \cup Takes(s)
      /\ q.filled = (p.filled \/ s.do = "backfill")
      /\ q.held = p.held \cup Locks(s)
  BY DEF Advanced, Process
<1>8. q \in Process
  BY <1>1, <1>3, <1>5, <1>6 DEF Advanced, Process, Latest
<1> QED
  BY <1>7, <1>8

(* The first statement.                                                    *)
LEMMA TableStep ==
  ASSUME NEW p, Going(p), p.next = 0
  PROVE  Going(Advanced(p)) /\ Advanced(p).stamp = p.stamp
<1> DEFINE q == Advanced(p)
<1>1. /\ Step(p).do = "create" /\ Step(p).what = Table
      /\ Adds(Step(p)) = {Table} /\ Takes(Step(p)) = {}
  BY DEF Step, Create, Table, Adds, Takes
<1>2. /\ q \in Process /\ q.pc = "run" /\ q.from = p.from /\ q.to = p.to
      /\ q.stamp = p.stamp /\ q.next = 1 /\ q.new = {Table} /\ q.gone = {}
  <2>1. Table \in Objects
    BY DEF Objects, Needs, Table
  <2>2. p \in Process /\ p.pc = "run" /\ p.new = {} /\ p.gone = {}
    BY DEF Going, OnItsWay
  <2> QED
    BY <1>1, <2>1, <2>2, AdvancedFields
<1>3. p.stamp = p.from /\ p.from \in 0..3 /\ p.to \in 0..3
  BY DEF Going, OnItsWay, Process, Latest
<1>4. Reached(p) = Full(p.from) /\ Reached(q) = Full(p.from)
  <2>1. \A k, S : S \cup Made(k, 0) = S /\ S \ Cut(k, 0) = S
    BY SoFar
  <2>2. Reached(p) = Full(p.from)
    BY <1>3 DEF Reached
  <2>3. q.next - 1 = 0
    BY <1>2
  <2>4. Reached(q) = Full(p.from)
    BY <1>2, <1>3, <2>1, <2>3 DEF Reached
  <2> QED
    BY <2>2, <2>4
<1>5. ChangesSoFar(q)
  BY <1>2, <1>3, <1>4 DEF ChangesSoFar, Going
<1>6. OnItsWay(q)
  <2>1. \A k \in 1..3 : 1 \in 1..Len(upgrade[k]) /\ 1 \in 1..Len(downgrade[k])
    BY Lengths
  <2> QED
    BY <1>2, <1>3, <2>1 DEF OnItsWay, HasStep, Revision
<1> QED
  BY <1>2, <1>5, <1>6 DEF Going

LEMMA UpStep ==
  ASSUME NEW p, Going(p), HasStep(p), p.next # 0, NEW k, NEW i, Up(p, k, i)
  PROVE  Going(Advanced(p))
<1> DEFINE q == Advanced(p)
           s == Step(p)
<1>1. /\ k \in 1..3 /\ i \in 1..Len(upgrade[k]) /\ p.stamp = k - 1 /\ p.next = i
      /\ p.from < k /\ k <= p.to /\ s = upgrade[k][i] /\ Len(upgrade[k]) \in Nat
      /\ Reached(p) = Full(k - 1) \cup Made(k, i - 1)
      /\ p \in Process /\ p.pc = "run" /\ p.from \in 0..3 /\ p.to \in 0..3
      /\ i \in Nat \ {0}
  BY Lengths DEF Up, Going, Process, Latest
<1>2. /\ Applies(s, Reached(p)) /\ s.do \notin {"drop", "drop_if_exists"}
      /\ s.do = "stamp" <=> i = Len(upgrade[k])
      /\ i = Len(upgrade[k]) => s.to = k /\ Full(k - 1) \cup Made(k, i - 1) = Full(k)
      /\ k = 2 /\ i = 2 => s.do = "backfill"
  <2>0. k \in 1..3 /\ i \in 1..Len(upgrade[k])
    BY <1>1
  <2>1. /\ Applies(upgrade[k][i], Full(k - 1) \cup Made(k, i - 1))
        /\ upgrade[k][i].do \notin {"drop", "drop_if_exists"}
        /\ upgrade[k][i].do = "stamp" <=> i = Len(upgrade[k])
        /\ i = Len(upgrade[k]) => /\ upgrade[k][i].to = k
                                  /\ Full(k - 1) \cup Made(k, i - 1) = Full(k)
        /\ k = 2 /\ i = 2 => upgrade[k][i].do = "backfill"
    BY <2>0, Upgrade
  <2> QED
    BY <1>1, <2>1
<1>3. /\ q \in Process /\ q.pc = "run" /\ q.from = p.from /\ q.to = p.to
      /\ q.stamp = IF s.do = "stamp" THEN k ELSE k - 1
      /\ q.next = IF s.do = "stamp" THEN 1 ELSE i + 1
      /\ q.new = p.new \cup Adds(s) /\ q.gone = p.gone
      /\ q.filled = (p.filled \/ s.do = "backfill")
  <2>1. Takes(s) = {}
    BY <1>2 DEF Takes
  <2>2. s.what \in Objects /\ (s.do = "stamp" => s.to \in 0..Latest)
    BY <1>1, <1>2 DEF Applies, Latest
  <2> QED
    BY <1>1, <1>2, <2>1, <2>2, AdvancedFields
<1> HIDE DEF q, s
<1>4. /\ p.gone = {} /\ (Full(p.from) \ p.gone) \cup (p.new \ {Table}) = Reached(p)
      /\ p.from < 2 /\ (k - 1 >= 2 \/ (k - 1 = 1 /\ i > 2)) => p.filled
  <2>1. p.from <= p.to /\ (k - 1 = 1 => p.to >= 2)
    BY <1>1
  <2> QED
    BY <1>1, <2>1 DEF Going, ChangesSoFar
<1>5. q.from <= q.stamp /\ q.stamp <= q.to /\ q.next # 0
  BY <1>1, <1>3
<1>6. Table \notin Adds(s)
  BY <1>2 DEF Adds, Applies
<1>7. Reached(q) = Reached(p) \cup Adds(s)
  <2>1. CASE s.do = "stamp"
    <3>1. Adds(s) = {} /\ Reached(p) = Full(k)
      BY <1>1, <1>2, <2>1 DEF Adds
    <3>2. q.stamp = k /\ q.next - 1 = 0
      BY <1>3, <2>1
    <3>3. \A n, S : S \cup Made(n, 0) = S
      BY SoFar
    <3>4. Reached(q) = Full(k)
      BY <1>1, <1>3, <3>2, <3>3 DEF Reached, HasStep
    <3> QED
      BY <3>1, <3>4
  <2>2. CASE s.do # "stamp"
    <3>1. /\ q.stamp = k - 1 /\ q.next - 1 = i /\ q.stamp + 1 = k
          /\ q.stamp < q.to /\ q.stamp # q.to
      BY <1>1, <1>3, <2>2
    <3>2. Reached(q) = Full(k - 1) \cup Made(k, i)
      BY <1>3, <1>5, <3>1 DEF Reached, HasStep
    <3>3. Made(k, i) = Made(k, i - 1) \cup Adds(s)
      BY <1>1, SoFar
    <3> QED
      BY <1>1, <3>2, <3>3
  <2> QED
    BY <2>1, <2>2
<1>8. q.from < 2 /\ (q.stamp >= 2 \/ (q.stamp = 1 /\ q.to >= 2 /\ q.next > 2)) => q.filled
  <2>1. k = 2 => Len(upgrade[k]) = 4
    BY Revisions
  <2>2. (p.filled => q.filled) /\ (s.do = "backfill" => q.filled)
    BY <1>3
  <2>3. SUFFICES ASSUME q.from < 2, q.stamp >= 2 \/ (q.stamp = 1 /\ q.next > 2)
                 PROVE  p.filled \/ s.do = "backfill"
    BY <2>2
  <2>4. CASE s.do = "stamp"
    <3>1. q.stamp = k /\ q.next = 1 /\ p.from < 2 /\ k >= 2
      BY <1>1, <1>3, <2>3, <2>4
    <3>2. i = Len(upgrade[k])
      BY <1>2, <2>4
    <3>3. k - 1 >= 2 \/ (k - 1 = 1 /\ i > 2)
      <4>1. CASE k = 2
        <5>1. i = 4 /\ k - 1 = 1
          BY <2>1, <3>2, <4>1
        <5> QED
          BY <5>1
      <4>2. CASE k # 2
        BY <1>1, <3>1, <4>2
      <4> QED
        BY <4>1, <4>2
    <3> QED
      BY <1>4, <3>1, <3>3
  <2>5. CASE s.do # "stamp"
    <3>1. q.stamp = k - 1 /\ q.next = i + 1 /\ p.from < 2
      BY <1>3, <2>3, <2>5
    <3>2. k - 1 >= 2 \/ (k - 1 = 1 /\ i > 2) \/ (k = 2 /\ i = 2)
      BY <1>1, <2>3, <3>1
    <3> QED
      BY <1>2, <1>4, <3>1, <3>2
  <2> QED
    BY <2>4, <2>5
<1>9. ChangesSoFar(q)
  <2>1. (Full(q.from) \ q.gone) \cup (q.new \ {Table}) = Reached(q)
    BY <1>3, <1>4, <1>6, <1>7
  <2>2. q.to <= q.from => FALSE
    BY <1>1, <1>3
  <2>3. Table \notin q.gone
    BY <1>3, <1>4
  <2> QED
    BY <1>3, <1>4, <1>8, <2>1, <2>2, <2>3 DEF ChangesSoFar
<1>10. OnItsWay(q)
  <2>1. CASE s.do = "stamp"
    <3>1. q.next = 1 /\ q.stamp = k
      BY <1>3, <2>1
    <3>2. HasStep(q) => q.stamp < q.to /\ q.stamp + 1 \in 1..3
      BY <1>1, <1>3, <3>1 DEF HasStep
    <3>3. HasStep(q) => q.next \in 1..Len(Revision(q))
      BY <3>1, <3>2, Lengths DEF Revision
    <3> QED
      BY <1>5, <3>3 DEF OnItsWay
  <2>2. CASE s.do # "stamp"
    <3>1. q.next \in 1..Len(upgrade[k]) /\ q.stamp < q.to /\ q.stamp + 1 = k
      BY <1>1, <1>2, <1>3, <2>2
    <3>2. q.next \in 1..Len(Revision(q))
      BY <3>1 DEF Revision
    <3> QED
      BY <1>5, <3>2 DEF OnItsWay
  <2> QED
    BY <2>1, <2>2
<1> QED
  BY <1>3, <1>9, <1>10 DEF Going, q

LEMMA DownStep ==
  ASSUME NEW p, Going(p), HasStep(p), p.next # 0, NEW k, NEW i, Down(p, k, i)
  PROVE  Going(Advanced(p))
<1> DEFINE q == Advanced(p)
           s == Step(p)
<1>1. /\ k \in 1..3 /\ i \in 1..Len(downgrade[k]) /\ p.stamp = k /\ p.next = i
      /\ p.to < k /\ k <= p.from /\ s = downgrade[k][i] /\ Len(downgrade[k]) \in Nat
      /\ Reached(p) = Full(k) \ Cut(k, i - 1)
      /\ p \in Process /\ p.pc = "run" /\ p.from \in 0..3 /\ p.to \in 0..3
      /\ i \in Nat \ {0}
  BY Lengths DEF Down, Going, Process, Latest
<1>2. /\ Applies(s, Reached(p)) /\ s.do \notin {"create", "backfill"}
      /\ s.do = "stamp" <=> i = Len(downgrade[k])
      /\ i = Len(downgrade[k]) => s.to = k - 1 /\ Full(k) \ Cut(k, i - 1) = Full(k - 1)
  <2>1. k \in 1..3 /\ i \in 1..Len(downgrade[k])
    BY <1>1
  <2>2. /\ Applies(downgrade[k][i], Full(k) \ Cut(k, i - 1))
        /\ downgrade[k][i].do \in {"drop", "drop_if_exists", "stamp"}
        /\ downgrade[k][i].do = "stamp" <=> i = Len(downgrade[k])
        /\ i = Len(downgrade[k]) => /\ downgrade[k][i].to = k - 1
                                    /\ Full(k) \ Cut(k, i - 1) = Full(k - 1)
    BY <2>1, Downgrade
  <2> QED
    BY <1>1, <2>2
<1>3. /\ q \in Process /\ q.pc = "run" /\ q.from = p.from /\ q.to = p.to
      /\ q.stamp = IF s.do = "stamp" THEN k - 1 ELSE k
      /\ q.next = IF s.do = "stamp" THEN 1 ELSE i + 1
      /\ q.new = p.new /\ q.gone = p.gone \cup Takes(s)
  <2>1. Adds(s) = {}
    BY <1>2 DEF Adds
  <2>2. s.what \in Objects /\ (s.do = "stamp" => s.to \in 0..Latest)
    BY <1>1, <1>2 DEF Applies, Latest
  <2> QED
    <3>1. /\ q \in Process /\ q.pc = p.pc /\ q.from = p.from /\ q.to = p.to
          /\ q.stamp = IF s.do = "stamp" THEN s.to ELSE p.stamp
          /\ q.next = IF s.do = "stamp" THEN 1 ELSE p.next + 1
          /\ q.new = p.new \cup Adds(s) /\ q.gone = p.gone \cup Takes(s)
      BY <1>1, <2>2, AdvancedFields
    <3>2. s.do = "stamp" => s.to = k - 1
      BY <1>2
    <3> HIDE DEF q, s
    <3> QED
      BY <1>1, <2>1, <3>1, <3>2
<1> HIDE DEF q, s
<1>4. /\ p.new \subseteq {Table} /\ Table \notin p.gone
      /\ (Full(p.from) \ p.gone) \cup (p.new \ {Table}) = Reached(p)
      /\ p.from < 2 => k = 1 /\ p.to = 0
  <2>1. p.to <= p.from /\ (p.from < 2 => k = 1 /\ p.to = 0)
    BY <1>1
  <2> QED
    BY <1>1, <2>1 DEF Going, ChangesSoFar
<1>5. q.to <= q.stamp /\ q.stamp <= q.from /\ q.next # 0 /\ ~(q.stamp < q.to)
  BY <1>1, <1>3
<1>6. Table \notin Takes(s)
  <2>1. \A x \in Objects : Table \notin Parts(x)
    BY PartsOf DEF Objects, Needs, Table
  <2> QED
    BY <1>2, <2>1 DEF Takes, Applies
<1>7. Reached(q) = Reached(p) \ Takes(s)
  <2>1. CASE s.do = "stamp"
    <3>1. Takes(s) = {} /\ Reached(p) = Full(k - 1)
      BY <1>1, <1>2, <2>1 DEF Takes
    <3>2. q.stamp = k - 1 /\ q.next - 1 = 0
      BY <1>3, <2>1
    <3>3. \A n, S : S \ Cut(n, 0) = S
      BY SoFar
    <3>4. Reached(q) = Full(k - 1)
      BY <1>5, <3>2, <3>3 DEF Reached
    <3> QED
      BY <3>1, <3>4
  <2>2. CASE s.do # "stamp"
    <3>1. q.stamp = k /\ q.next - 1 = i /\ q.stamp # q.to
      BY <1>1, <1>3, <2>2
    <3>2. Reached(q) = Full(k) \ Cut(k, i)
      BY <1>3, <1>5, <3>1 DEF Reached, HasStep
    <3>3. Cut(k, i) = Cut(k, i - 1) \cup Takes(s)
      BY <1>1, SoFar
    <3> QED
      BY <1>1, <3>2, <3>3
  <2> QED
    BY <2>1, <2>2
<1>8. ChangesSoFar(q)
  <2>1. (Full(q.from) \ q.gone) \cup (q.new \ {Table}) = Reached(q)
    BY <1>3, <1>4, <1>7
  <2>2. ~(q.from <= q.to)
    BY <1>1, <1>3
  <2>3. Table \notin q.gone /\ q.new \subseteq {Table}
    BY <1>3, <1>4, <1>6
  <2>4. q.from < 2 => ~(q.stamp >= 2) /\ ~(q.to >= 2)
    BY <1>1, <1>3, <1>4
  <2> QED
    BY <2>1, <2>2, <2>3, <2>4 DEF ChangesSoFar
<1>9. OnItsWay(q)
  <2>1. CASE s.do = "stamp"
    <3>1. q.next = 1 /\ q.stamp = k - 1
      BY <1>3, <2>1
    <3>2. HasStep(q) => q.stamp \in 1..3
      BY <1>1, <1>3, <3>1 DEF HasStep
    <3>3. HasStep(q) => q.next \in 1..Len(Revision(q))
      BY <1>5, <3>1, <3>2, Lengths DEF Revision
    <3> QED
      BY <1>5, <3>3 DEF OnItsWay
  <2>2. CASE s.do # "stamp"
    <3>1. q.next \in 1..Len(downgrade[k]) /\ q.stamp = k
      BY <1>1, <1>2, <1>3, <2>2
    <3>2. q.next \in 1..Len(Revision(q))
      BY <1>5, <3>1 DEF Revision
    <3> QED
      BY <1>5, <3>2 DEF OnItsWay
  <2> QED
    BY <2>1, <2>2
<1> QED
  BY <1>3, <1>8, <1>9 DEF Going, q

(* Every statement takes the process one on in its revisions.              *)
LEMMA StepGoesOn ==
  ASSUME NEW p, Going(p), HasStep(p)
  PROVE  Going(Advanced(p))
<1>1. CASE p.next = 0
  BY <1>1, TableStep
<1>2. CASE p.next # 0
  BY <1>2, Places, UpStep, DownStep
<1> QED
  BY <1>1, <1>2

-----------------------------------------------------------------------------
(* The steps of the specification.                                         *)

(* Only the other process can have changed what a lone one read.           *)
LEMMA AloneIsAccepted ==
  ASSUME MigrationsInv, NEW r \in Runners, HasStep(run[r]), Refused(r, Step(run[r]))
  PROVE  run[r].raced
<1> SUFFICES ASSUME ~run[r].raced PROVE FALSE
  OBVIOUS
<1> DEFINE p == run[r]
           s == Step(p)
<1>1. Going(p) /\ version = p.from /\ (p.next = 0 => Table \notin schema)
  BY DEF MigrationsInv, Runs, Going, HasStep
<1>2. schema \ {Table} = Full(p.from) /\ schema \subseteq Objects
  BY <1>1 DEF MigrationsInv, Truthful
<1>3. Needs[Table] = {}
  BY DEF Needs, Table
<1>4. CASE p.next = 0
  <2>1. p.new = {} /\ p.gone = {}
    BY <1>1, <1>4 DEF Going, OnItsWay
  <2>2. Table \notin View(r)
    BY <1>1, <1>4, <2>1 DEF View
  <2>3. s.do = "create" /\ s.what = Table
    BY <1>4 DEF Step, Create, Table
  <2> QED
    BY <1>3, <2>2, <2>3 DEF Refused, Table
<1>5. CASE p.next # 0
  <2>1. Applies(s, Reached(p))
    BY <1>1, <1>5, StepApplies
  <2>2. View(r) \ {Table} = Reached(p)
    BY <1>1, <1>2 DEF View, Going, ChangesSoFar
  <2>3. ~(s.do = "create" /\ (s.what \in View(r) \/ ~(Needs[s.what] \subseteq View(r))))
    BY <2>1, <2>2 DEF Applies
  <2>4. ~(s.do = "drop" /\ (s.what \notin View(r)
            \/ ~({y \in View(r) : s.what \in Needs[y]} \subseteq Parts(s.what))))
    BY <1>3, <2>1, <2>2 DEF Applies
  <2>5. ~(s.do = "drop_if_exists" /\ s.what \in View(r)
            /\ {y \in View(r) : s.what \in Needs[y]} # {})
    BY <1>3, <2>1, <2>2 DEF Applies
  <2>6. s.what = "not_null" => p.filled
    <3>1. PICK k, i : Up(p, k, i) \/ Down(p, k, i)
      BY <1>1, <1>5, Places
    <3>2. CASE Up(p, k, i)
      <4>1. k \in 1..3 /\ i \in 1..Len(upgrade[k])
        BY <3>2 DEF Up
      <4>2. upgrade[k][i].what = "not_null" => k = 2 /\ i = 3
        BY <4>1, Upgrade
      <4> QED
        BY <1>1, <3>2, <4>2 DEF Up, Going, ChangesSoFar
    <3>3. CASE Down(p, k, i)
      <4>1. k \in 1..3 /\ i \in 1..Len(downgrade[k]) /\ s = downgrade[k][i]
        BY <3>3 DEF Down
      <4> QED
        BY <4>1, Downgrade
    <3> QED
      BY <3>1, <3>2, <3>3
  <2> QED
    BY <1>1, <2>3, <2>4, <2>5, <2>6 DEF Refused
<1> QED
  BY <1>4, <1>5

(* What the invariant asks of a process whose record a step leaves alone.  *)
LEMMA OthersRun ==
  ASSUME MigrationsInv, NEW o \in Runners, run'[o] = run[o],
         run[o].pc = "run" /\ run[o].stamp # run[o].from => version' = version,
         run[o].pc = "run" /\ ~run[o].raced =>
           /\ schema' = schema /\ version' = version
           /\ \A r \in Runners \ {o} : run'[r].pc # "run"
  PROVE  Runs(o)'
<1>1. Runs(o)
  BY DEF MigrationsInv
<1> QED
  BY <1>1 DEF Runs

LEMMA StatementInv ==
  ASSUME MigrationsInv, NEW r \in Runners, statement(r)
  PROVE  MigrationsInv'
<1> DEFINE p == run[r]
           s == Step(p)
           q == Advanced(p)
<1>1. /\ HasStep(p) /\ p.pc = "run" /\ ~Refused(r, s) /\ p \in Process
      /\ \A o \in Runners \ {r} : Locks(s) \cap run[o].held = {}
      /\ UNCHANGED <<schema, version, password, commands, crashes>>
  BY DEF statement, Ready, Waits, HasStep, MigrationsInv
<1>2. Going(p)
  BY <1>1 DEF MigrationsInv, Runs, Going
<1>3. run' = [run EXCEPT ![r] = q]
  BY DEF statement, Advanced
<1>4. Going(q)
  BY <1>1, <1>2, StepGoesOn
<1>5. /\ q.pc = "run" /\ q.from = p.from /\ q.raced = p.raced
      /\ q.next # 0 /\ q.held = p.held \cup Locks(s)
      /\ s.do # "stamp" => q.stamp = p.stamp
  BY <1>1 DEF Advanced, Process
<1>6. s.do = "stamp" => Table \in Locks(s) /\ version = p.from
  <2>1. s.do = "stamp" => p.next # 0
    BY DEF Step, Create
  <2>2. s.do = "stamp" => s.what = Table
    BY <1>1, <1>2, <2>1, StepApplies DEF Applies
  <2> QED
    BY <1>1, <2>2 DEF Locks, Refused
<1> HIDE DEF q, s
<1>7. Runs(r)'
  <2>1. Runs(r)
    BY DEF MigrationsInv
  <2>2. run'[r] = q /\ \A o \in Runners \ {r} : run'[o] = run[o]
    BY <1>3 DEF MigrationsInv
  <2>3. q.stamp # q.from => version = q.from /\ Table \in q.held
    BY <1>1, <1>5, <1>6, <2>1 DEF Runs
  <2>4. OnItsWay(q) /\ ChangesSoFar(q)
    BY <1>4 DEF Going
  <2>5. ~q.raced => version = q.from /\ \A o \in Runners \ {r} : run[o].pc # "run"
    BY <1>1, <1>5, <2>1 DEF Runs
  <2> QED
    BY <1>1, <1>5, <2>2, <2>3, <2>4, <2>5 DEF Runs
<1>8. \A o \in Runners \ {r} : Runs(o)'
  <2> SUFFICES ASSUME NEW o \in Runners \ {r} PROVE Runs(o)'
    OBVIOUS
  <2>1. run'[o] = run[o]
    BY <1>3 DEF MigrationsInv
  <2>2. run[o].pc = "run" => run[o].raced
    BY <1>1 DEF MigrationsInv, Runs
  <2> QED
    BY <1>1, <2>1, <2>2, OthersRun
<1>9. Apart'
  <2>1. run'[r].held = run[r].held \cup Locks(s)
        /\ \A o \in Runners \ {r} : run'[o].held = run[o].held
    BY <1>3, <1>5 DEF MigrationsInv
  <2> QED
    BY <1>1, <2>1 DEF MigrationsInv, Apart
<1>10. run' \in [Runners -> Process]
  BY <1>3, <1>4 DEF MigrationsInv, Going
<1>11. FailsOnlyByRace'
  BY <1>3, <1>5 DEF MigrationsInv, FailsOnlyByRace
<1>12. /\ Truthful' /\ Hashes'
       /\ commands' \in 0..MaxCommands /\ crashes' \in 0..MaxCrashes
  BY <1>1 DEF MigrationsInv, Truthful, Hashes
<1> QED
  BY <1>7, <1>8, <1>9, <1>10, <1>11, <1>12 DEF MigrationsInv

(* A process ends, by COMMIT or without a trace.                           *)
LEMMA EndInv ==
  ASSUME MigrationsInv, NEW r \in Runners, NEW pc \in {"off", "error", "done"}, Ends(r, pc),
         pc = "error" => run[r].raced,
         Truthful', Hashes',
         commands' \in 0..MaxCommands, crashes' \in 0..MaxCrashes,
         run[r].pc = "run" \/ UNCHANGED <<schema, version>>,
         run[r].pc = "run" /\ run[r].stamp = run[r].from => version' = version,
         Table \notin run[r].held => version' = version
  PROVE  MigrationsInv'
<1>1. /\ \A o \in Runners \ {r} : run'[o] = run[o]
      /\ run'[r].pc = pc /\ run'[r].held = {} /\ run'[r].raced = run[r].raced
      /\ run'[r] \in Process
  <2>1. [NoRun EXCEPT !.pc = pc, !.raced = run[r].raced] \in Process
    <3>1. NoRun \in Process
      BY DEF NoRun, Process, Latest
    <3>2. \A p \in Process, b \in BOOLEAN :
            [p EXCEPT !.pc = pc, !.raced = b] \in Process
      BY DEF Process
    <3>3. run[r].raced \in BOOLEAN
      BY DEF MigrationsInv, Process
    <3> QED
      BY <3>1, <3>2, <3>3
  <2> QED
    BY <2>1 DEF Ends, NoRun, MigrationsInv
<1>2. \A o \in Runners \ {r} : Runs(o)'
  <2> SUFFICES ASSUME NEW o \in Runners \ {r} PROVE Runs(o)'
    OBVIOUS
  <2>1. run[o].pc = "run" /\ run[o].stamp # run[o].from => version' = version
    <3> SUFFICES ASSUME run[o].pc = "run", run[o].stamp # run[o].from
                 PROVE  version' = version
      OBVIOUS
    <3>1. Table \in run[o].held
      BY DEF MigrationsInv, Runs
    <3>2. Table \notin run[r].held
      BY <3>1 DEF MigrationsInv, Apart
    <3> QED
      BY <3>2
  <2>2. run[o].pc = "run" /\ ~run[o].raced =>
          /\ schema' = schema /\ version' = version
          /\ \A x \in Runners \ {o} : run'[x].pc # "run"
    <3> SUFFICES ASSUME run[o].pc = "run", ~run[o].raced
                 PROVE  /\ schema' = schema /\ version' = version
                        /\ \A x \in Runners \ {o} : run'[x].pc # "run"
      OBVIOUS
    <3>1. \A x \in Runners \ {o} : run[x].pc # "run"
      BY DEF MigrationsInv, Runs
    <3> QED
      BY <1>1, <3>1
  <2> QED
    BY <1>1, <2>1, <2>2, OthersRun
<1>3. Runs(r)'
  BY <1>1 DEF Runs
<1>4. Apart'
  BY <1>1 DEF MigrationsInv, Apart
<1>5. FailsOnlyByRace'
  BY <1>1 DEF MigrationsInv, FailsOnlyByRace
<1>6. run' \in [Runners -> Process]
  <2>1. run' = [o \in Runners |-> run'[o]]
    BY DEF Ends, MigrationsInv
  <2> QED
    BY <1>1, <2>1 DEF MigrationsInv
<1> QED
  BY <1>2, <1>3, <1>4, <1>5, <1>6 DEF MigrationsInv

(* What a commit leaves is revision stamp, if anything was stamped.        *)
LEMMA CommitTruth ==
  ASSUME MigrationsInv, NEW r \in Runners, commit(r)
  PROVE  Truthful' /\ Hashes'
<1> DEFINE p == run[r]
<1>1. /\ p \in Process /\ p.pc = "run" /\ p.stamp = p.to /\ ~HasStep(p)
      /\ OnItsWay(p) /\ ChangesSoFar(p)
      /\ p.stamp # p.from => version = p.from
      /\ schema \subseteq Objects /\ schema \ {Table} = Full(version) /\ version \in 0..3
      /\ p.from \in 0..3 /\ p.stamp \in 0..3
  BY DEF commit, HasStep, MigrationsInv, Runs, Truthful, Process, Latest
<1>2. Reached(p) = Full(p.stamp)
  BY <1>1 DEF Reached
<1>3. schema' = (schema \ p.gone) \cup p.new
  BY DEF commit, View
<1>4. CASE p.stamp = p.from
  <2>1. p.gone = {} /\ p.new \subseteq {Table} /\ version' = version
    BY <1>1, <1>4 DEF commit, ChangesSoFar
  <2>2. Table \in Objects
    BY DEF Objects, Needs, Table
  <2>3. Truthful'
    BY <1>1, <1>3, <2>1, <2>2 DEF Truthful, Latest
  <2>4. version >= 2 => {"users", "password_hash"} \subseteq schema'
    BY <1>1, <1>3, <2>1, Contents
  <2>5. Hashes'
    BY <2>1, <2>4, <1>3 DEF commit, View, MigrationsInv, Hashes
  <2> QED
    BY <2>3, <2>5
<1>5. CASE p.stamp # p.from
  <2>1. version' = p.stamp /\ version = p.from
    BY <1>1, <1>5 DEF commit
  <2>2. schema' \ {Table} = Full(p.stamp)
    BY <1>1, <1>2, <1>3, <2>1 DEF ChangesSoFar
  <2>3. Truthful'
    BY <1>1, <1>3, <2>1, <2>2 DEF Truthful, Process, Latest
  <2>4. p.stamp >= 2 => {"users", "password_hash"} \subseteq schema'
    <3>1. p.stamp >= 2 => p.stamp = 2 \/ p.stamp = 3
      BY <1>1
    <3> QED
      BY <3>1, <2>2, Contents
  <2>5. p.stamp >= 2 => p.filled \/ \A u \in Users : password[u] # "none"
    <3>1. CASE p.from < 2
      BY <1>1, <3>1 DEF ChangesSoFar
    <3>2. CASE p.from >= 2
      BY <2>1, <3>2 DEF MigrationsInv, Hashes
    <3> QED
      BY <1>1, <3>1, <3>2
  <2>6. Hashes'
    BY <1>3, <2>1, <2>4, <2>5 DEF commit, View, MigrationsInv, Hashes
  <2> QED
    BY <2>3, <2>6
<1> QED
  BY <1>4, <1>5

LEMMA CommitInv ==
  ASSUME MigrationsInv, NEW r \in Runners, commit(r)
  PROVE  MigrationsInv'
<1>1. Truthful' /\ Hashes'
  BY CommitTruth
<1>2. /\ Ends(r, "done") /\ run[r].pc = "run"
      /\ run[r].stamp = run[r].from => version' = version
      /\ UNCHANGED <<commands, crashes>>
  BY DEF commit
<1>3. Table \notin run[r].held => version' = version
  BY <1>2 DEF MigrationsInv, Runs
<1> QED
  BY <1>1, <1>2, <1>3, EndInv DEF MigrationsInv

(* An error or a death leaves the database as it was.                      *)
LEMMA RollbackInv ==
  ASSUME MigrationsInv, NEW r \in Runners, NEW pc \in {"off", "error"}, Ends(r, pc),
         Rollback(r), pc = "error" => run[r].raced, crashes' \in 0..MaxCrashes
  PROVE  MigrationsInv'
<1>1. Truthful' /\ Hashes' /\ UNCHANGED <<schema, version, commands>>
  BY DEF Rollback, MigrationsInv, Truthful, Hashes
<1> QED
  BY <1>1, EndInv DEF MigrationsInv

LEMMA InsertInv ==
  ASSUME MigrationsInv, NEW u \in Users, insert_user(u)
  PROVE  MigrationsInv'
<1>1. UNCHANGED <<schema, version, run, commands, crashes>>
  BY DEF insert_user
<1>2. version >= 2 => "password_hash" \in schema
  <2>1. version >= 2 => version = 2 \/ version = 3
    BY DEF MigrationsInv, Truthful, Latest
  <2> QED
    BY <2>1, Contents DEF MigrationsInv, Truthful
<1>3. Hashes'
  BY <1>1, <1>2 DEF insert_user, MigrationsInv, Hashes
<1>4. \A r \in Runners : Runs(r)'
  BY <1>1 DEF MigrationsInv, Runs
<1> QED
  BY <1>1, <1>3, <1>4 DEF MigrationsInv, Truthful, Apart, FailsOnlyByRace

Marked(p, racing) == [p EXCEPT !.raced = @ \/ racing]

LEMMA MarkedIs ==
  ASSUME NEW p \in Process, NEW racing \in BOOLEAN
  PROVE  LET w == Marked(p, racing)
         IN  /\ w \in Process /\ w.pc = p.pc /\ w.held = p.held /\ w.from = p.from
             /\ w.to = p.to /\ w.stamp = p.stamp /\ w.next = p.next
             /\ w.new = p.new /\ w.gone = p.gone
             /\ (p.filled => w.filled) /\ (p.raced => w.raced) /\ (racing => w.raced)
  BY DEF Marked, Process

(* A process begins; one that is at work finds out about it.               *)
LEMMA BeginInv ==
  ASSUME MigrationsInv, NEW r \in Runners, NEW v \in 0..Latest,
         run[r].pc # "run", run_migrations(r, v),
         UNCHANGED <<schema, version, password>>,
         commands' \in 0..MaxCommands, crashes' \in 0..MaxCrashes
  PROVE  MigrationsInv'
<1> DEFINE racing == \E o \in Runners \ {r} : run[o].pc = "run"
           begun == [NoRun EXCEPT
                       !.pc = "run", !.from = version, !.stamp = version, !.to = v,
                       !.next = IF "alembic_version" \in schema THEN 1 ELSE 0]
           q == run'[r]
<1>1. /\ run' = [o \in Runners |-> run'[o]]
      /\ run'[r] = Marked(begun, racing)
      /\ \A o \in Runners \ {r} : run'[o] = Marked(run[o], racing)
  BY DEF run_migrations, Marked
<1>2. racing \in BOOLEAN /\ (racing <=> \E o \in Runners \ {r} : run[o].pc = "run")
  OBVIOUS
<1>3. /\ begun \in Process /\ begun.pc = "run" /\ begun.from = version
      /\ begun.stamp = version /\ begun.to = v
      /\ begun.next = IF "alembic_version" \in schema THEN 1 ELSE 0
      /\ begun.new = {} /\ begun.gone = {} /\ begun.held = {}
  <2>1. NoRun \in Process /\ NoRun.new = {} /\ NoRun.gone = {} /\ NoRun.held = {}
    BY DEF NoRun, Process, Latest
  <2>2. version \in 0..Latest
    BY DEF MigrationsInv, Truthful
  <2> QED
    BY <2>1, <2>2 DEF Process
<1> HIDE DEF racing, begun, q
<1>4. /\ q \in Process /\ q.pc = "run" /\ q.from = version /\ q.stamp = version
      /\ q.to = v /\ q.next = IF "alembic_version" \in schema THEN 1 ELSE 0
      /\ q.new = {} /\ q.gone = {} /\ q.held = {} /\ (racing => q.raced)
  BY <1>1, <1>2, <1>3, MarkedIs DEF q
<1>5. \A o \in Runners \ {r} :
        LET p == run[o]
            w == run'[o]
        IN  /\ w \in Process /\ w.pc = p.pc /\ w.held = p.held /\ w.from = p.from
            /\ w.to = p.to /\ w.stamp = p.stamp /\ w.next = p.next
            /\ w.new = p.new /\ w.gone = p.gone
            /\ (p.filled => w.filled) /\ (p.raced => w.raced) /\ (racing => w.raced)
  BY <1>1, <1>2, MarkedIs DEF MigrationsInv
<1>6. run' \in [Runners -> Process]
  BY <1>1, <1>4, <1>5 DEF q
<1>7. Runs(r)'
  <2>1. HasStep(q) /\ q.next # 0 => 1 \in 1..Len(Revision(q)) /\ q.next = 1
    <3> SUFFICES ASSUME HasStep(q), q.next # 0
                 PROVE  1 \in 1..Len(Revision(q)) /\ q.next = 1
      OBVIOUS
    <3>1. q.next = 1 /\ q.stamp # q.to
      BY <1>4 DEF HasStep
    <3>2. q.stamp \in 0..3 /\ q.to \in 0..3
      BY <1>4 DEF Process, Latest
    <3>3. CASE q.stamp < q.to
      <4>1. q.stamp + 1 \in 1..3 /\ Revision(q) = upgrade[q.stamp + 1]
        BY <3>2, <3>3 DEF Revision
      <4> QED
        BY <3>1, <4>1, Lengths
    <3>4. CASE ~(q.stamp < q.to)
      <4>1. q.stamp \in 1..3 /\ Revision(q) = downgrade[q.stamp]
        BY <3>1, <3>2, <3>4 DEF Revision
      <4> QED
        BY <3>1, <4>1, Lengths
    <3> QED
      BY <3>3, <3>4
  <2>2. OnItsWay(q)
    <3>1. version \in 0..3 /\ v \in 0..3
      BY DEF MigrationsInv, Truthful, Latest
    <3> QED
      BY <1>4, <2>1, <3>1 DEF OnItsWay
  <2>3. Reached(q) = Full(version)
    <3>1. \A k, S : S \cup Made(k, 0) = S /\ S \ Cut(k, 0) = S
      BY SoFar
    <3>2. q.next # 0 => q.next - 1 = 0
      BY <1>4
    <3> QED
      BY <1>4, <3>1, <3>2 DEF Reached
  <2>4. ChangesSoFar(q)
    <3>1. (Full(q.from) \ q.gone) \cup (q.new \ {Table}) = Reached(q)
      BY <1>4, <2>3
    <3>2. ~(q.from < 2 /\ (q.stamp >= 2 \/ (q.stamp = 1 /\ q.to >= 2 /\ q.next > 2)))
      <4>1. version \in 0..3 /\ (q.next = 0 \/ q.next = 1)
        BY <1>4 DEF MigrationsInv, Truthful, Latest
      <4> QED
        BY <1>4, <4>1
    <3> QED
      BY <1>4, <3>1, <3>2 DEF ChangesSoFar
  <2>5. ~q.raced => \A o \in Runners \ {r} : run'[o].pc # "run"
    BY <1>2, <1>4, <1>5
  <2>6. q.next = 0 => Table \notin schema
    BY <1>4 DEF Table
  <2> QED
    BY <1>4, <2>2, <2>4, <2>5, <2>6 DEF Runs, q
<1>8. \A o \in Runners \ {r} : Runs(o)'
  <2> SUFFICES ASSUME NEW o \in Runners \ {r} PROVE Runs(o)'
    OBVIOUS
  <2> DEFINE p == run[o]
             w == run'[o]
  <2>1. Runs(o) /\ p \in Process
    BY DEF MigrationsInv
  <2>2. CASE p.pc # "run"
    BY <1>5, <2>1, <2>2 DEF Runs
  <2>3. CASE p.pc = "run"
    <3>1. w.raced /\ w.pc = "run" /\ w.held = p.held
      BY <1>2, <1>5, <2>3
    <3>2. /\ w.from = p.from /\ w.to = p.to /\ w.stamp = p.stamp /\ w.next = p.next
          /\ w.new = p.new /\ w.gone = p.gone /\ (p.filled => w.filled)
      BY <1>5
    <3>3. /\ OnItsWay(p) /\ ChangesSoFar(p)
          /\ (p.stamp # p.from => version = p.from /\ Table \in p.held)
      BY <2>1, <2>3 DEF Runs
    <3> HIDE DEF w
    <3>4. OnItsWay(w)
      BY <2>3, <3>1, <3>2, <3>3 DEF OnItsWay, HasStep, Revision
    <3>5. Reached(w) = Reached(p)
      BY <2>3, <3>1, <3>2 DEF Reached, HasStep
    <3>6. ChangesSoFar(w)
      BY <3>2, <3>3, <3>5 DEF ChangesSoFar
    <3> QED
      BY <3>1, <3>2, <3>3, <3>4, <3>6 DEF Runs, w
  <2> QED
    BY <2>2, <2>3
<1>9. Apart'
  BY <1>2, <1>4, <1>5 DEF MigrationsInv, Apart, q
<1>10. FailsOnlyByRace'
  BY <1>2, <1>4, <1>5 DEF MigrationsInv, FailsOnlyByRace, q
<1> QED
  BY <1>6, <1>7, <1>8, <1>9, <1>10 DEF MigrationsInv, Truthful, Hashes

LEMMA InitInv == Init => MigrationsInv
<1> SUFFICES ASSUME Init PROVE MigrationsInv
  OBVIOUS
<1>1. NoRun \in Process /\ NoRun.pc = "off" /\ NoRun.held = {}
  BY DEF NoRun, Process, Latest
<1>2. /\ run = [r \in Runners |-> NoRun] /\ schema = {} /\ version = 0
      /\ password = [u \in Users |-> "no_row"] /\ commands = 0 /\ crashes = 0
  BY DEF Init
<1>3. run \in [Runners -> Process] /\ \A r \in Runners : run[r] = NoRun
  BY <1>1, <1>2
<1>4. \A r \in Runners : Runs(r)
  BY <1>1, <1>3 DEF Runs
<1>5. Truthful /\ Hashes
  BY <1>2, Contents DEF Truthful, Hashes, Latest
<1>6. Apart /\ FailsOnlyByRace
  BY <1>1, <1>3 DEF Apart, FailsOnlyByRace
<1> QED
  BY <1>2, <1>3, <1>4, <1>5, <1>6, MigrationsAssumption DEF MigrationsInv

LEMMA NextInv == MigrationsInv /\ [Next]_vars => MigrationsInv'
<1> SUFFICES ASSUME MigrationsInv, [Next]_vars PROVE MigrationsInv'
  OBVIOUS
<1>1. CASE upgrade_head
  <2>1. "api" \in Runners /\ Latest \in 0..Latest
    BY DEF Runners, Latest
  <2> QED
    BY <1>1, <2>1, BeginInv DEF upgrade_head, MigrationsInv
<1>2. CASE command
  <2>1. PICK v \in 0..Latest : run_migrations("operator", v)
    BY <1>2 DEF command
  <2>2. "operator" \in Runners /\ commands' \in 0..MaxCommands
    BY <1>2, MigrationsAssumption DEF command, Runners, MigrationsInv
  <2> QED
    BY <1>2, <2>1, <2>2, BeginInv DEF command, MigrationsInv
<1>3. ASSUME NEW r \in Runners, fail_statement(r) PROVE MigrationsInv'
  <2>1. HasStep(run[r]) /\ Refused(r, Step(run[r]))
    BY <1>3 DEF fail_statement, Ready
  <2> QED
    BY <1>3, <2>1, AloneIsAccepted, RollbackInv DEF fail_statement, MigrationsInv
<1>4. ASSUME NEW r \in Runners, deadlock_victim(r) PROVE MigrationsInv'
  <2>1. run[r].pc = "run" /\ \E o \in Runners \ {r} : run[o].pc = "run"
    BY <1>4 DEF deadlock_victim, Waits, HasStep, Runners
  <2>2. run[r].raced
    BY <2>1 DEF MigrationsInv, Runs
  <2> QED
    BY <1>4, <2>2, RollbackInv DEF deadlock_victim, MigrationsInv
<1>5. ASSUME NEW r \in Runners, die(r) PROVE MigrationsInv'
  <2>1. crashes' \in 0..MaxCrashes
    BY <1>5, MigrationsAssumption DEF die, MigrationsInv
  <2> QED
    BY <1>5, <2>1, RollbackInv DEF die
<1>6. CASE UNCHANGED vars
  BY <1>6 DEF vars, MigrationsInv, Runs, Truthful, Hashes, Apart, FailsOnlyByRace
<1> QED
  BY <1>1, <1>2, <1>3, <1>4, <1>5, <1>6, StatementInv, CommitInv, InsertInv
     DEF Next, Proceed

-----------------------------------------------------------------------------
(* Whatever races, fails and dies: each process has done what the          *)
(* revisions say of its place in them, and once stamped it is the only one *)
(* that can commit.                                                        *)
THEOREM MigrationsInvariant == Spec => []MigrationsInv
<1>1. Init => MigrationsInv
  BY InitInv
<1>2. MigrationsInv /\ [Next]_vars => MigrationsInv'
  BY NextInv
<1> QED
  BY <1>1, <1>2, PTL DEF Spec

(* Schema, version_num, passwords and processes stay well-typed.           *)
THEOREM MigrationsTypeCorrect == Spec => []TypeOK
<1>1. MigrationsInv => TypeOK
  BY DEF MigrationsInv, Truthful, Hashes, TypeOK, Process
<1> QED
  BY <1>1, MigrationsInvariant, PTL

(* version_num says what env.py and the revisions have left in the         *)
(* database, for any users, commands, races and deaths.                    *)
THEOREM VersionIsTrue == Spec => []VersionTellsDatabase
<1>1. MigrationsInv => VersionTellsDatabase
  BY DEF MigrationsInv, Truthful, Hashes, VersionTellsDatabase, Full, Table
<1> QED
  BY <1>1, MigrationsInvariant, PTL

(* Alone, no upgrade or downgrade is refused: every revision can be        *)
(* applied, reverted and applied again over any rows.                      *)
THEOREM FailuresAreRaces == Spec => []FailsOnlyByRace
<1>1. MigrationsInv => FailsOnlyByRace
  BY DEF MigrationsInv
<1> QED
  BY <1>1, MigrationsInvariant, PTL
=============================================================================
