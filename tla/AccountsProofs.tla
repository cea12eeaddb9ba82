-------------------------- MODULE AccountsProofs --------------------------
(***************************************************************************)
(* Safety of Accounts for any number of addresses, forms and               *)
(* registrations.  The existence query of register_user proves nothing     *)
(* about the moment of the INSERT, so the inductive invariant leaves it    *)
(* out: what counts is that a key is in one open transaction or in one     *)
(* committed row, and that every key is in the normal form.                *)
(***************************************************************************)
EXTENDS Accounts, TLAPS

(* The row a registration stores, if it stores one.                        *)
RowOf(r) == [email |-> normalize_email(email[r]), password_hash |-> r]

(* The unique index: no key is in two rows, committed or not.              *)
UniqueKeys ==
  /\ \A u, v \in users : u.email = v.email => u = v
  /\ \A r \in Registrations : pc[r] = "commit" => ~Taken(RowOf(r).email)
  /\ \A r, q \in Registrations :
       r # q /\ pc[r] = "commit" /\ pc[q] = "commit"
         => RowOf(r).email # RowOf(q).email

(* What each registration has inserted, stored or found.                   *)
Progress(r) ==
  /\ inserted[r] = IF pc[r] = "commit" THEN RowOf(r) ELSE None
  /\ pc[r] \in {"refresh", "created"} => RowOf(r) \in users
  /\ pc[r] = "conflict" => Taken(RowOf(r).email)

AccountsInv ==
  /\ TypeOK
  /\ \A user \in users : user.email.form = Normal
  /\ UniqueKeys
  /\ \A r \in Registrations : Progress(r)

-----------------------------------------------------------------------------
(* A registration's row is a row of its address in the normal form.        *)
LEMMA RowOfType ==
  ASSUME TypeOK, NEW r \in Registrations
  PROVE  /\ RowOf(r) \in User /\ RowOf(r) # None
         /\ RowOf(r).email = normalize_email(email[r])
         /\ RowOf(r).email.form = Normal
         /\ RowOf(r).email.address = email[r].address
BY AccountsAssumption DEF TypeOK, RowOf, normalize_email, User, Email

(* An open transaction holds the key of its own row, and only that.        *)
LEMMA PendingKeys ==
  ASSUME AccountsInv, NEW r \in Registrations, NEW key
  PROVE  Pending(r, key) <=> \E q \in Registrations \ {r} :
                               pc[q] = "commit" /\ RowOf(q).email = key
BY RowOfType DEF AccountsInv, Progress, Pending

LEMMA InitAccounts == Init => AccountsInv
BY DEF Init, AccountsInv, TypeOK, UniqueKeys, Progress, Answers, User

(* A step that stores no row and takes no key.                             *)
LEMMA QuietAccounts ==
  ASSUME AccountsInv, NEW r \in Registrations,
         NEW next \in {"insert", "refresh", "created", "conflict", "error"},
         pc' = [pc EXCEPT ![r] = next],
         inserted' = [inserted EXCEPT ![r] = None],
         UNCHANGED <<users, email>>,
         next \in {"refresh", "created"} => RowOf(r) \in users,
         next = "conflict" => Taken(RowOf(r).email)
  PROVE  AccountsInv'
<1>1. TypeOK'
  BY DEF AccountsInv, TypeOK, Answers
<1>2. \A q \in Registrations :
        /\ RowOf(q)' = RowOf(q) /\ Taken(RowOf(q).email)' = Taken(RowOf(q).email)
        /\ pc'[q] = IF q = r THEN next ELSE pc[q]
        /\ inserted'[q] = IF q = r THEN None ELSE inserted[q]
  BY DEF AccountsInv, TypeOK, RowOf, Taken
<1>3. UniqueKeys'
  BY <1>2 DEF AccountsInv, UniqueKeys
<1>4. \A q \in Registrations : Progress(q)'
  BY <1>2 DEF AccountsInv, Progress
<1> QED
  BY <1>1, <1>3, <1>4 DEF AccountsInv

LEMMA NextAccounts == AccountsInv /\ [Next]_vars => AccountsInv'
<1> SUFFICES ASSUME AccountsInv, [Next]_vars PROVE AccountsInv'
  OBVIOUS
<1>0. /\ inserted \in [Registrations -> User \cup {None}]
      /\ pc \in [Registrations ->
                  {"query", "insert", "commit", "refresh"} \cup Answers]
      /\ \A r \in Registrations : Progress(r)
  BY DEF AccountsInv, TypeOK
<1>1. ASSUME NEW r \in Registrations, register_user(r)
      PROVE  AccountsInv'
  <2>1. inserted' = [inserted EXCEPT ![r] = None]
    BY <1>0, <1>1 DEF register_user, Progress
  <2>2. CASE get_user_by_email(normalize_email(email[r])) = {}
    BY <1>1, <2>1, <2>2, QuietAccounts DEF register_user
  <2>3. CASE get_user_by_email(normalize_email(email[r])) # {}
    <3>1. PICK user \in users :
            [user.email EXCEPT !.form = Normal]
              = [normalize_email(email[r]) EXCEPT !.form = Normal]
      BY <2>3 DEF get_user_by_email
    <3>2. user.email \in Email /\ email[r] \in Email /\ user.email.form = Normal
      BY DEF AccountsInv, TypeOK, User
    <3>3. user.email = RowOf(r).email
      BY <3>1, <3>2 DEF RowOf, normalize_email, Email
    <3>4. Taken(RowOf(r).email)
      BY <3>3 DEF Taken
    <3> QED
      BY <1>1, <2>1, <2>3, <3>4, QuietAccounts DEF register_user
  <2> QED
    BY <2>2, <2>3
<1>2. ASSUME NEW r \in Registrations, insert_user(r)
      PROVE  AccountsInv'
  <2> DEFINE key == RowOf(r).email
  <2>1. /\ pc[r] = "insert" /\ ~Pending(r, key) /\ UNCHANGED <<users, email>>
        /\ key = normalize_email(email[r])
    BY <1>2, RowOfType DEF insert_user, AccountsInv
  <2>2. CASE Taken(key)
    <3>1. inserted' = [inserted EXCEPT ![r] = None]
      BY <1>0, <1>2, <2>1, <2>2 DEF insert_user, Progress
    <3> QED
      BY <1>2, <2>1, <2>2, <3>1, QuietAccounts DEF insert_user
  <2>3. CASE ~Taken(key)
    <3>1. /\ pc' = [pc EXCEPT ![r] = "commit"]
          /\ inserted' = [inserted EXCEPT ![r] = RowOf(r)]
      BY <1>2, <2>1, <2>3 DEF insert_user, RowOf
    <3>2. TypeOK'
      BY <2>1, <3>1, RowOfType DEF AccountsInv, TypeOK
    <3>3. \A q \in Registrations :
            /\ RowOf(q)' = RowOf(q)
            /\ Taken(RowOf(q).email)' = Taken(RowOf(q).email)
            /\ pc'[q] = IF q = r THEN "commit" ELSE pc[q]
            /\ inserted'[q] = IF q = r THEN RowOf(r) ELSE inserted[q]
      BY <1>0, <2>1, <3>1 DEF RowOf, Taken
    <3>4. \A q \in Registrations \ {r} : pc[q] = "commit" => RowOf(q).email # key
      BY <2>1, PendingKeys
    <3>5. UniqueKeys'
      <4> HIDE DEF key
      <4> QED
        BY <2>1, <2>3, <3>3, <3>4 DEF AccountsInv, UniqueKeys, key
    <3>6. \A q \in Registrations : Progress(q)'
      BY <1>0, <2>1, <3>3 DEF Progress
    <3> QED
      BY <2>1, <3>2, <3>5, <3>6 DEF AccountsInv
  <2> QED
    BY <2>2, <2>3
<1>3. ASSUME NEW r \in Registrations, commit(r)
      PROVE  AccountsInv'
  <2>1. /\ pc[r] = "commit" /\ pc' = [pc EXCEPT ![r] = "refresh"]
        /\ users' = users \cup {RowOf(r)}
        /\ inserted' = [inserted EXCEPT ![r] = None]
        /\ UNCHANGED email
    BY <1>0, <1>3 DEF commit, Progress
  <2>2. TypeOK'
    BY <2>1, RowOfType DEF AccountsInv, TypeOK
  <2>3. \A user \in users' : user.email.form = Normal
    BY <2>1, RowOfType DEF AccountsInv
  <2>4. \A q \in Registrations :
          /\ RowOf(q)' = RowOf(q)
          /\ pc'[q] = IF q = r THEN "refresh" ELSE pc[q]
          /\ inserted'[q] = IF q = r THEN None ELSE inserted[q]
          /\ Taken(RowOf(q).email)'
               <=> Taken(RowOf(q).email) \/ RowOf(r).email = RowOf(q).email
    BY <1>0, <2>1 DEF RowOf, Taken
  <2>5. UniqueKeys'
    <3>1. \A user \in users : user.email # RowOf(r).email
      BY <2>1 DEF AccountsInv, UniqueKeys, Taken
    <3>2. \A u, v \in users' : u.email = v.email => u = v
      BY <2>1, <3>1 DEF AccountsInv, UniqueKeys
    <3> QED
      BY <2>1, <2>4, <3>2 DEF AccountsInv, UniqueKeys
  <2>6. \A q \in Registrations : Progress(q)'
    BY <1>0, <2>1, <2>4 DEF Progress
  <2> QED
    BY <2>2, <2>3, <2>5, <2>6 DEF AccountsInv
<1>4. ASSUME NEW r \in Registrations, refresh(r)
      PROVE  AccountsInv'
  <2>1. inserted' = [inserted EXCEPT ![r] = None] /\ RowOf(r) \in users
    BY <1>0, <1>4 DEF refresh, Progress
  <2> QED
    BY <1>4, <2>1, QuietAccounts DEF refresh
<1>5. ASSUME NEW r \in Registrations, abort(r)
      PROVE  AccountsInv'
  BY <1>5, QuietAccounts DEF abort
<1>6. CASE UNCHANGED vars
  BY <1>6 DEF vars, AccountsInv, TypeOK, UniqueKeys, Progress, RowOf, Taken
<1> QED
  BY <1>1, <1>2, <1>3, <1>4, <1>5, <1>6 DEF Next, Proceed

-----------------------------------------------------------------------------
(* Registrations keep the tables and sessions well-typed, keys unique and  *)
(* in the normal form, and every answer backed by a row.                   *)
THEOREM AccountsInvariant == Spec => []AccountsInv
<1> QED
  BY InitAccounts, NextAccounts, PTL DEF Spec

(* Type correctness of the users table and the registrations.              *)
THEOREM AccountsTypeCorrect == Spec => []TypeOK
<1>1. AccountsInv => TypeOK
  BY DEF AccountsInv
<1> QED
  BY <1>1, AccountsInvariant, PTL

(* "Unique email address (normalized to lowercase)": however many          *)
(* registrations find an address free at once and however they write it,   *)
(* one of them makes the account.                                          *)
THEOREM AddressesAreUnique == Spec => []OneAccountPerAddress
<1>1. AccountsInv => OneAccountPerAddress
  <2> SUFFICES ASSUME AccountsInv, NEW u \in users, NEW v \in users,
                      u.email.address = v.email.address
               PROVE  u = v
    BY DEF OneAccountPerAddress
  <2>1. /\ u.email \in Email /\ v.email \in Email
        /\ u.email.form = v.email.form
    BY DEF AccountsInv, TypeOK, User
  <2>2. u.email = v.email
    BY <2>1 DEF Email
  <2> QED
    BY <2>2 DEF AccountsInv, UniqueKeys
<1> QED
  BY <1>1, AccountsInvariant, PTL

(* A 409 is given only while there is such an account, and whoever was     *)
(* answered 201 can log in with the address in any form: the row is the    *)
(* only one the case-insensitive query finds.                              *)
THEOREM AnswersStayTrue == Spec => []AnswersAreTrue
<1>1. AccountsInv => AnswersAreTrue
  <2> SUFFICES ASSUME AccountsInv, NEW r \in Registrations
               PROVE  /\ pc[r] = "conflict" =>
                           \E user \in users :
                             user.email.address = email[r].address
                      /\ pc[r] = "created" =>
                           \A form \in Forms :
                             LET user == authenticate_user(
                                           [email[r] EXCEPT !.form = form], r)
                             IN  user # None /\ user.password_hash = r
    BY DEF AnswersAreTrue
  <2>0. Progress(r) /\ TypeOK
    BY DEF AccountsInv
  <2>1. ASSUME pc[r] = "conflict"
        PROVE  \E user \in users : user.email.address = email[r].address
    BY <2>0, <2>1, RowOfType DEF Progress, Taken
  <2>2. ASSUME pc[r] = "created", NEW form \in Forms
        PROVE  LET user == authenticate_user([email[r] EXCEPT !.form = form], r)
               IN  user # None /\ user.password_hash = r
    <3> DEFINE sent == [email[r] EXCEPT !.form = form]
               found == get_user_by_email(normalize_email(sent))
    <3>1. RowOf(r) \in users /\ RowOf(r).password_hash = r
      BY <2>0, <2>2 DEF Progress, RowOf
    <3>2. [normalize_email(sent) EXCEPT !.form = Normal] = RowOf(r).email
      BY <2>0 DEF TypeOK, Email, normalize_email, RowOf
    <3>3. \A user \in users : [user.email EXCEPT !.form = Normal] = user.email
      BY DEF AccountsInv, TypeOK, User, Email
    <3>4. found = {user \in users : user.email = RowOf(r).email}
      BY <3>2, <3>3 DEF get_user_by_email
    <3>5. found = {RowOf(r)}
      BY <3>1, <3>4 DEF AccountsInv, UniqueKeys
    <3> HIDE DEF found, sent
    <3>6. authenticate_user(sent, r) = RowOf(r)
      BY <3>1, <3>5 DEF authenticate_user, found
    <3> QED
      BY <2>0, <3>1, <3>6, RowOfType DEF sent
  <2> QED
    BY <2>1, <2>2
<1> QED
  BY <1>1, AccountsInvariant, PTL
=============================================================================
