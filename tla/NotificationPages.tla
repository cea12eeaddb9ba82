------------------------- MODULE NotificationPages -------------------------
(***************************************************************************)
(* A client of the user pages through the notifications by offset, while   *)
(* new ones are committed and others are marked read.  Every page is a     *)
(* query of its own.                                                       *)
(***************************************************************************)
EXTENDS NotificationReads

CONSTANT Limit  \* the length of a page

ASSUME PagesAssumption ==
  /\ Notes \subseteq Nat /\ IsFiniteSet(Notes)
  /\ Limit \in Nat \ {0}

(* unread_only and the offset of the next page; the rows received; and as  *)
(* history the rows there were at the start, and whether one was marked.   *)
VARIABLE pager

NoPager == [on |-> FALSE, unread_only |-> FALSE, skip |-> 0, seen |-> {},
            known |-> {}, marked |-> FALSE]

PInit == Init /\ pager = NoPager

Listed(n, unread_only) == IF unread_only THEN Unread(n) ELSE Unread(n) \/ Read(n)

(* Slip: rows of one transaction in any order.                             *)
BeforeByTime(m, n) == CreatedAt[m] > CreatedAt[n]

(* ORDER BY created_at DESC, id DESC; ids are compared as numbers are.     *)
Before(m, n) ==
  \/ CreatedAt[m] > CreatedAt[n]
  \/ CreatedAt[m] = CreatedAt[n] /\ m > n

(* The orders a query may return rows in.                                  *)
Listings(rows) ==
  {list \in SetToSeqs(rows) :
     \A i, k \in DOMAIN list : i < k => ~Before(list[k], list[i])}

start_paging(unread_only) ==
  /\ ~pager.on
  /\ pager' = [NoPager EXCEPT
                 !.on = TRUE,
                 !.unread_only = unread_only,
                 !.known = {n \in Notes : Listed(n, unread_only)}]
  /\ UNCHANGED vars

(* GET /notifications?skip=...: the client goes on until a page is short.  *)
list_notifications ==
  /\ pager.on
  /\ \E list \in Listings({n \in Notes : Listed(n, pager.unread_only)}) :
       LET page == {list[i] : i \in {k \in DOMAIN list :
                       pager.skip < k /\ k <= pager.skip + Limit}}
       IN  pager' = [pager EXCEPT !.on = Cardinality(page) = Limit,
                                  !.skip = @ + Limit,
                                  !.seen = @ \cup page]
  /\ UNCHANGED vars

(* Other requests; the client's history notes what they mark.              *)
Observe ==
  pager' = [pager EXCEPT
             !.marked = @ \/ \E n \in Notes : Unread(n) /\ read_at'[n] \in Nat]

PNext ==
  \/ Next /\ Observe
  \/ \E unread_only \in BOOLEAN : start_paging(unread_only)
  \/ list_notifications

PSpec == PInit /\ [][PNext]_<<vars, pager>>

(* The readers' fairness; a client may give up at any page.                *)
PFairSpec ==
  /\ PSpec
  /\ \A r \in Readers :
       /\ WF_<<vars, pager>>((begin_update(r) \/ commit(r)) /\ Observe)
       /\ SF_<<vars, pager>>(visit_row(r) /\ Observe)
       /\ WF_<<vars, pager>>(deadlock_victim(r) /\ Observe)

-----------------------------------------------------------------------------
PTypeOK ==
  /\ TypeOK
  /\ pager \in [on: BOOLEAN, unread_only: BOOLEAN,
                 skip: 0..(Limit * (Cardinality(Notes) + 1)),
                 seen: SUBSET Notes, known: SUBSET Notes, marked: BOOLEAN]

(* Whoever pages to the end has received every notification there was at   *)
(* the start, although others were inserted above, below and between; a    *)
(* client that asks for unread ones only must not mark any meanwhile,      *)
(* which takes rows away before its offset.                                *)
PagingMissesNothing ==
  [][pager.on /\ ~pager'.on =>
       \/ pager.known \subseteq pager'.seen
       \/ pager.unread_only /\ pager.marked]_<<vars, pager>>
=============================================================================
