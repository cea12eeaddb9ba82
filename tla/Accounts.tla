------------------------------ MODULE Accounts ------------------------------
(***************************************************************************)
(* Registration and login.  An address can be written in several forms     *)
(* (capitals, blanks around it); registrations of one address meet in the  *)
(* unique index on users.email, which knows one form only.                 *)
(***************************************************************************)
EXTENDS FiniteSets

CONSTANTS
  Addresses,     \* e-mail addresses
  Forms,         \* ways to write one
  Normal,        \* the form without blanks and capitals
  Registrations, \* POST /auth/register requests, each with its own password
  None           \* Python None

Email == [address: Addresses, form: Forms]

(* The user row a registration creates; the hash is one of its password.   *)
User == [email: Email, password_hash: Registrations]

ASSUME AccountsAssumption == Normal \in Forms /\ None \notin User

VARIABLES
  users,   \* the committed rows
  email,   \* of each registration: the address as the client sent it
  pc,      \* of each registration: the next statement, or the answer
  inserted \* of each registration: the row it inserted and has not committed

vars == <<users, email, pc, inserted>>

Answers == {"created", "conflict", "error"}

Init ==
  /\ users = {}
  /\ email \in [Registrations -> Email]
  /\ pc = [r \in Registrations |-> "query"]
  /\ inserted = [r \in Registrations |-> None]

(* Slip: the address is checked and kept as it is.                         *)
NormalizeNot(e) == e

(* UserRegister and UserLogin strip and lowercase the address.             *)
normalize_email(e) == [e EXCEPT !.form = Normal]

(* WHERE lower(email) = strip().lower() of the address.                    *)
get_user_by_email(e) ==
  {user \in users : [user.email EXCEPT !.form = Normal]
                      = [e EXCEPT !.form = Normal]}

-----------------------------------------------------------------------------
(* POST /auth/register.                                                    *)

(* The query; then the hash is computed.                                   *)
register_user(r) ==
  /\ pc[r] = "query"
  /\ pc' = [pc EXCEPT ![r] = IF get_user_by_email(normalize_email(email[r])) = {}
                             THEN "insert" ELSE "conflict"]
  /\ UNCHANGED <<users, email, inserted>>

(* The unique index: is the key in a committed row, or in one that is not? *)
Taken(key) == \E user \in users : user.email = key
Pending(r, key) ==
  \E q \in Registrations \ {r} : inserted[q] # None /\ inserted[q].email = key

(* Slip: the index is not unique.                                          *)
InsertAny(r) ==
  /\ pc[r] = "insert"
  /\ pc' = [pc EXCEPT ![r] = "commit"]
  /\ inserted' = [inserted EXCEPT
       ![r] = [email |-> normalize_email(email[r]), password_hash |-> r]]
  /\ UNCHANGED <<users, email>>

(* Slip: a key another transaction has inserted is a conflict at once.     *)
InsertNoWait(r) ==
  LET key == normalize_email(email[r])
  IN  /\ pc[r] = "insert"
      /\ IF Taken(key) \/ Pending(r, key)
         THEN /\ pc' = [pc EXCEPT ![r] = "conflict"]
              /\ UNCHANGED inserted
         ELSE /\ pc' = [pc EXCEPT ![r] = "commit"]
              /\ inserted' = [inserted EXCEPT
                   ![r] = [email |-> key, password_hash |-> r]]
      /\ UNCHANGED <<users, email>>

(* The INSERT of commit(): it waits for a transaction that inserted its    *)
(* key; if the key is there an IntegrityError becomes a conflict.          *)
insert_user(r) ==
  LET key == normalize_email(email[r])
  IN  /\ pc[r] = "insert"
      /\ ~Pending(r, key)
      /\ IF Taken(key)
         THEN /\ pc' = [pc EXCEPT ![r] = "conflict"]
              /\ UNCHANGED inserted
         ELSE /\ pc' = [pc EXCEPT ![r] = "commit"]
              /\ inserted' = [inserted EXCEPT
                   ![r] = [email |-> key, password_hash |-> r]]
      /\ UNCHANGED <<users, email>>

(* Slip: the answer is given before the COMMIT.                            *)
CommitLater(r) ==
  /\ pc[r] = "commit"
  /\ pc' = [pc EXCEPT ![r] = "created"]
  /\ UNCHANGED <<users, email, inserted>>

commit(r) ==
  /\ pc[r] = "commit"
  /\ pc' = [pc EXCEPT ![r] = "refresh"]
  /\ users' = users \cup {inserted[r]}
  /\ inserted' = [inserted EXCEPT ![r] = None]
  /\ UNCHANGED email

(* refresh(): the row is read again for the answer.                        *)
refresh(r) ==
  /\ pc[r] = "refresh"
  /\ pc' = [pc EXCEPT ![r] = "created"]
  /\ UNCHANGED <<users, email, inserted>>

(* Slip: the session is not closed.                                        *)
AbortUnclosed(r) ==
  /\ pc[r] \notin Answers
  /\ pc' = [pc EXCEPT ![r] = "error"]
  /\ UNCHANGED <<users, email, inserted>>

(* Slip: the exception is swallowed, the session stays out of use.         *)
AbortUnanswered(r) ==
  /\ pc[r] \notin Answers
  /\ pc' = [pc EXCEPT ![r] = None]
  /\ inserted' = [inserted EXCEPT ![r] = None]
  /\ UNCHANGED <<users, email>>

(* A statement fails, or the process dies; get_db closes the session.      *)
abort(r) ==
  /\ pc[r] \notin Answers
  /\ pc' = [pc EXCEPT ![r] = "error"]
  /\ inserted' = [inserted EXCEPT ![r] = None]
  /\ UNCHANGED <<users, email>>

-----------------------------------------------------------------------------
Proceed(r) == register_user(r) \/ insert_user(r) \/ commit(r) \/ refresh(r)

Next == \E r \in Registrations : Proceed(r) \/ abort(r)

Spec == Init /\ [][Next]_vars

(* Threads run; PostgreSQL wakes who waits for a key, in turn.             *)
FairSpec == Spec /\ \A r \in Registrations : SF_vars(Proceed(r))

-----------------------------------------------------------------------------
(* POST /auth/login: the row whose hash is of this password, or None; two  *)
(* rows would be a MultipleResultsFound.                                   *)
authenticate_user(e, password) ==
  IF \E user \in users :
       /\ get_user_by_email(normalize_email(e)) = {user}
       /\ user.password_hash = password
  THEN CHOOSE user \in get_user_by_email(normalize_email(e)) : TRUE
  ELSE None

TypeOK ==
  /\ users \subseteq User
  /\ email \in [Registrations -> Email]
  /\ pc \in [Registrations ->
              {"query", "insert", "commit", "refresh"} \cup Answers]
  /\ inserted \in [Registrations -> User \cup {None}]

(* "Unique email address (normalized to lowercase)": of registrations that *)
(* all found the address free one makes an account, however it is written. *)
OneAccountPerAddress ==
  \A u, v \in users : u.email.address = v.email.address => u = v

(* Answers are true, when they are given and from then on.  "A user with   *)
(* this email address already exists": a registration that waited for one  *)
(* that failed is not refused.  201: whoever was told so can log in, with  *)
(* the address in any form.                                                *)
AnswersAreTrue ==
  \A r \in Registrations :
    /\ pc[r] = "conflict"
         => \E user \in users : user.email.address = email[r].address
    /\ pc[r] = "created" =>
         \A form \in Forms :
           LET user == authenticate_user([email[r] EXCEPT !.form = form], r)
           IN  user # None /\ user.password_hash = r

(* Every registration is answered, those that wait for a key included.     *)
RegistrationsEnd == \A r \in Registrations : <>(pc[r] \in Answers)
=============================================================================
