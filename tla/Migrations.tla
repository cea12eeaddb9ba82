----------------------------- MODULE Migrations -----------------------------
(***************************************************************************)
(* The revisions of the database schema and the alembic processes that     *)
(* apply and revert them: the one the API container runs before it serves, *)
(* and an operator's.  A process runs all its revisions in one transaction *)
(* of PostgreSQL, whose DDL takes locks and can be rolled back.            *)
(***************************************************************************)
EXTENDS Naturals, Sequences, Functions

CONSTANTS
  Users,       \* ids of users
  MaxCommands, \* bound on the commands of the operator
  MaxCrashes   \* bound on the processes that die

ASSUME MigrationsAssumption == MaxCommands \in Nat /\ MaxCrashes \in Nat

Runners == {"api", "operator"}
Latest == 3

(* What an object of the schema refers to.  ix_t are the indexes of table  *)
(* t, not_null is the constraint on users.password_hash.                   *)
Needs ==
  [user_role |-> {}, booking_status |-> {}, notification_type |-> {},
   users |-> {"user_role"}, ix_users |-> {"users"},
   bookings |-> {"users", "booking_status"}, ix_bookings |-> {"bookings"},
   reviews |-> {"users", "bookings"}, ix_reviews |-> {"reviews"},
   password_hash |-> {"users"}, not_null |-> {"password_hash"},
   notifications |-> {"users", "bookings", "notification_type"},
   ix_notifications |-> {"notifications"},
   alembic_version |-> {}]

Objects == DOMAIN Needs

(* What is dropped along with a table or a column.                         *)
Parts(x) ==
  CASE x = "users" -> {"ix_users", "password_hash", "not_null"}
    [] x = "bookings" -> {"ix_bookings"}
    [] x = "reviews" -> {"ix_reviews"}
    [] x = "notifications" -> {"ix_notifications"}
    [] x = "password_hash" -> {"not_null"}
    [] OTHER -> {}

(* The operations of alembic.op, and the UPDATE of version_num.            *)
Create(x) == [do |-> "create", what |-> x]
Drop(x) == [do |-> "drop", what |-> x]
DropIfExists(x) == [do |-> "drop_if_exists", what |-> x]
Backfill == [do |-> "backfill", what |-> "password_hash"]
Stamp(v) == [do |-> "stamp", what |-> "alembic_version", to |-> v]

(* create_table first creates the enum types of its columns.               *)
upgrade_0001 ==
  <<Create("user_role"), Create("users"), Create("ix_users"),
    Create("booking_status"), Create("bookings"), Create("ix_bookings"),
    Create("reviews"), Create("ix_reviews"), Stamp(1)>>

(* Slip: tables are dropped in the order in which they were created.       *)
DowngradeInOrder ==
  <<Drop("ix_users"), Drop("users"), Drop("ix_bookings"), Drop("bookings"),
    Drop("ix_reviews"), Drop("reviews"),
    DropIfExists("booking_status"), DropIfExists("user_role"), Stamp(0)>>

downgrade_0001 ==
  <<Drop("ix_reviews"), Drop("reviews"), Drop("ix_bookings"),
    Drop("bookings"), Drop("ix_users"), Drop("users"),
    DropIfExists("booking_status"), DropIfExists("user_role"), Stamp(0)>>

(* Slip: the column stays nullable, old rows have no hash.                 *)
UpgradeNullable == <<Create("password_hash"), Stamp(2)>>

(* Slip: the column is NOT NULL at once.                                   *)
UpgradeNoBackfill == <<Create("password_hash"), Create("not_null"), Stamp(2)>>

upgrade_0002 ==
  <<Create("password_hash"), Backfill, Create("not_null"), Stamp(2)>>

downgrade_0002 == <<Drop("password_hash"), Stamp(1)>>

upgrade_0003 ==
  <<Create("notification_type"), Create("notifications"),
    Create("ix_notifications"), Stamp(3)>>

downgrade_0003 ==
  <<Drop("ix_notifications"), Drop("notifications"),
    DropIfExists("notification_type"), Stamp(2)>>

upgrade == <<upgrade_0001, upgrade_0002, upgrade_0003>>
downgrade == <<downgrade_0001, downgrade_0002, downgrade_0003>>

-----------------------------------------------------------------------------
VARIABLES
  schema,    \* the committed objects
  version,   \* the committed version_num; 0: none
  password,  \* of each user: no row, no hash, an unusable one, or their own
  run,       \* the alembic process of each runner
  commands,  \* the commands of the operator so far
  crashes    \* the processes that died so far

vars == <<schema, version, password, run, commands, crashes>>

(* from: the version_num it found; to: the one asked for; stamp: the one   *)
(* it has set; next: its place in the revision at hand, 0 for the CREATE   *)
(* of alembic_version; new, gone: objects it created and dropped; filled:  *)
(* the rows have been given a hash; held: objects locked until it ends.    *)
(* As history, raced: the other process ran at some moment of this run.    *)
NoRun == [pc |-> "off", from |-> 0, to |-> 0, stamp |-> 0, next |-> 0,
          new |-> {}, gone |-> {}, filled |-> FALSE, held |-> {}, raced |-> FALSE]

Init ==
  /\ schema = {} /\ version = 0
  /\ password = [u \in Users |-> "no_row"]
  /\ run = [r \in Runners |-> NoRun]
  /\ commands = 0 /\ crashes = 0

(* Alembic goes one revision up or down until version_num is the target;   *)
(* before the first, it creates its table if there is none.                *)
Revision(p) == IF p.stamp < p.to THEN upgrade[p.stamp + 1] ELSE downgrade[p.stamp]

Step(p) == IF p.next = 0 THEN Create("alembic_version") ELSE Revision(p)[p.next]

HasStep(p) == p.pc = "run" /\ (p.next = 0 \/ p.stamp # p.to)

(* Connect, read version_num, plan.                                        *)
run_migrations(r, v) ==
  LET racing == \E o \in Runners \ {r} : run[o].pc = "run"
      begun == [NoRun EXCEPT
                  !.pc = "run", !.from = version, !.stamp = version, !.to = v,
                  !.next = IF "alembic_version" \in schema THEN 1 ELSE 0]
  IN  run' = [o \in Runners |->
                [(IF o = r THEN begun ELSE run[o]) EXCEPT !.raced = @ \/ racing]]

(* alembic upgrade head && uvicorn, when the container starts and, after   *)
(* an error, starts again.                                                 *)
upgrade_head ==
  /\ run["api"].pc \in {"off", "error"}
  /\ run_migrations("api", Latest)
  /\ UNCHANGED <<schema, version, password, commands, crashes>>

(* alembic upgrade or downgrade by hand.                                   *)
command ==
  /\ run["operator"].pc # "run"
  /\ commands < MaxCommands
  /\ commands' = commands + 1
  /\ \E v \in 0..Latest : run_migrations("operator", v)
  /\ UNCHANGED <<schema, version, password, crashes>>

-----------------------------------------------------------------------------
(* The schema as the transaction of r sees it.                             *)
View(r) == (schema \ run[r].gone) \cup run[r].new

(* A statement locks its object and those that one refers to.              *)
Locks(step) == {step.what} \cup Needs[step.what]

Waits(r) ==
  /\ HasStep(run[r])
  /\ \E o \in Runners \ {r} : Locks(Step(run[r])) \cap run[o].held # {}

Ready(r) == HasStep(run[r]) /\ ~Waits(r)

(* Does PostgreSQL, or alembic's count of the rows stamped, refuse it?     *)
Refused(r, step) ==
  LET x == step.what
      referring == {y \in View(r) : x \in Needs[y]}
  IN  \/ step.do = "create" /\ (x \in View(r) \/ ~(Needs[x] \subseteq View(r)))
      \/ step.do = "drop" /\ (x \notin View(r) \/ ~(referring \subseteq Parts(x)))
      \/ step.do = "drop_if_exists" /\ x \in View(r) /\ referring # {}
      \/ /\ x = "not_null" /\ ~run[r].filled
         /\ \E u \in Users : password[u] = "none"
      \/ step.do = "stamp" /\ version # run[r].from

(* What a statement adds to the schema and takes from it.                  *)
Adds(step) == IF step.do = "create" THEN {step.what} ELSE {}

Takes(step) ==
  IF step.do \in {"drop", "drop_if_exists"} THEN {step.what} \cup Parts(step.what)
  ELSE {}

statement(r) ==
  LET step == Step(run[r])
  IN  /\ Ready(r) /\ ~Refused(r, step)
      /\ run' = [run EXCEPT
           ![r].next = IF step.do = "stamp" THEN 1 ELSE @ + 1,
           ![r].held = @ \cup Locks(step),
           ![r].new = @ \cup Adds(step),
           ![r].gone = @ \cup Takes(step),
           ![r].filled = @ \/ step.do = "backfill",
           ![r].stamp = IF step.do = "stamp" THEN step.to ELSE @]
      /\ UNCHANGED <<schema, version, password, commands, crashes>>

Ends(r, pc) == run' = [run EXCEPT ![r] = [NoRun EXCEPT !.pc = pc,
                                                       !.raced = run[r].raced]]

(* COMMIT of all revisions; the rows follow their table and column.        *)
commit(r) ==
  /\ run[r].pc = "run" /\ ~HasStep(run[r])
  /\ schema' = View(r)
  /\ version' = IF run[r].stamp = run[r].from THEN version ELSE run[r].stamp
  /\ password' = [u \in Users |->
       IF password[u] = "no_row" \/ "users" \notin View(r) THEN "no_row"
       ELSE IF "password_hash" \notin View(r) THEN "none"
       ELSE IF password[u] = "none" /\ run[r].filled THEN "unusable"
       ELSE password[u]]
  /\ Ends(r, "done")
  /\ UNCHANGED <<commands, crashes>>

(* Slip: the connection is in AUTOCOMMIT mode.                             *)
KeepDDL(r) == schema' = View(r) /\ UNCHANGED <<version, password, commands>>

(* The transaction is undone, its DDL included.                            *)
Rollback(r) == UNCHANGED <<schema, version, password, commands>>

(* A statement is refused: alembic ends with an error.                     *)
fail_statement(r) ==
  /\ Ready(r) /\ Refused(r, Step(run[r]))
  /\ Rollback(r)
  /\ Ends(r, "error")
  /\ UNCHANGED crashes

(* PostgreSQL ends one of two processes that wait for each other.          *)
deadlock_victim(r) ==
  /\ \A o \in Runners : Waits(o)
  /\ Rollback(r)
  /\ Ends(r, "error")
  /\ UNCHANGED crashes

(* A process dies, be it alembic or the API after it.                      *)
die(r) ==
  /\ \/ run[r].pc = "run"
     \/ r = "api" /\ run[r].pc = "done"
  /\ crashes < MaxCrashes
  /\ crashes' = crashes + 1
  /\ Rollback(r)
  /\ Ends(r, "off")

-----------------------------------------------------------------------------
(* Slip: the API fills the column with the password itself.                *)
InsertPlain(u) ==
  /\ password[u] = "no_row"
  /\ {"users", "password_hash"} \subseteq schema
  /\ \A r \in Runners : "users" \notin run[r].held
  /\ run["api"].pc = "done"
  /\ password' = [password EXCEPT ![u] = "plain_text"]
  /\ UNCHANGED <<schema, version, run, commands, crashes>>

(* INSERT of a user: of one without a hash at version 1 (the "existing     *)
(* records" of revision 2), of one with a hash by the API.                 *)
insert_user(u) ==
  /\ password[u] = "no_row"
  /\ "users" \in schema
  /\ \A r \in Runners : "users" \notin run[r].held
  /\ \/ "password_hash" \notin schema /\ password' = [password EXCEPT ![u] = "none"]
     \/ /\ "password_hash" \in schema /\ run["api"].pc = "done"
        /\ password' = [password EXCEPT ![u] = "own"]
  /\ UNCHANGED <<schema, version, run, commands, crashes>>

Proceed(r) == statement(r) \/ commit(r) \/ fail_statement(r)

Next ==
  \/ upgrade_head
  \/ command
  \/ \E r \in Runners : Proceed(r) \/ deadlock_victim(r) \/ die(r)
  \/ \E u \in Users : insert_user(u)

Spec == Init /\ [][Next]_vars

(* The container is started ("restart: unless-stopped"), processes run,    *)
(* PostgreSQL looks for deadlocks.                                         *)
FairSpec ==
  /\ Spec
  /\ WF_vars(upgrade_head)
  /\ \A r \in Runners : WF_vars(Proceed(r)) /\ WF_vars(deadlock_victim(r))

-----------------------------------------------------------------------------
TypeOK ==
  /\ schema \subseteq Objects
  /\ version \in 0..Latest
  /\ password \in [Users -> {"no_row", "none", "unusable", "own"}]
  /\ \A r \in Runners :
       /\ run[r].pc \in {"off", "run", "error", "done"}
       /\ {run[r].from, run[r].to, run[r].stamp} \subseteq 0..Latest
       /\ run[r].new \cup run[r].gone \cup run[r].held \subseteq Objects
  /\ commands \in 0..MaxCommands /\ crashes \in 0..MaxCrashes

Created(v) ==
  {step.what : step \in {s \in Range(upgrade[v]) : s.do = "create"}}

(* Whoever races with whom and wherever a process dies: version_num says   *)
(* what is in the database, neither more nor less.  Rows included: from    *)
(* revision 2 on "existing rows satisfy NOT NULL", those whose hash was    *)
(* lost in a downgrade as well.                                            *)
VersionTellsDatabase ==
  /\ schema \ {"alembic_version"} = UNION {Created(v) : v \in 1..version}
  /\ version >= 2 => \A u \in Users : password[u] # "none"

(* Revisions can be applied, reverted and applied again over any rows: a   *)
(* process fails only if another one ran beside it.                        *)
FailsOnlyByRace ==
  \A r \in Runners : run[r].pc = "error" => run[r].raced

(* After its last competitor, error or crash the API serves.               *)
ApiServes == run["api"].pc # "done" ~> run["api"].pc = "done"
=============================================================================
