----------------------------- MODULE ListPages ------------------------------
(***************************************************************************)
(* common/pagination.ts under the lists of participants and of exams, and  *)
(* a client that walks through the pages of one of them.                   *)
(*                                                                         *)
(* A list counts its rows and finds those of a page in two statements at   *)
(* once.  `listed' are the rows the where clause selects; rows enter and   *)
(* leave it between statements: enrolment, presence, status, removal.      *)
(* Rows are sorted by one column, and rows that are equal in it come in    *)
(* any order, each time in another.                                        *)
(***************************************************************************)
EXTENDS Integers, SequencesExt, FiniteSetsExt

CONSTANTS
  Rows,                      \* rows there may be
  nome,                      \* the column they are sorted by, as a number
  DEFAULT_LIMIT, MAX_LIMIT,
  Limits,                    \* limits clients ask for
  MaxChanges                 \* bound: rows that enter or leave during a walk

DEFAULT_PAGE == 1
NoLimit == 0
Open    == -1                \* a count that is still awaited

ASSUME PagesAssumption ==
  /\ IsFiniteSet(Rows) /\ nome \in [Rows -> Nat]
  /\ DEFAULT_LIMIT \in Nat \ {0} /\ MAX_LIMIT \in Nat \ {0}
  /\ Limits \subseteq {NoLimit} \cup 1..MAX_LIMIT
  /\ MaxChanges \in Nat

VARIABLES listed, walk
vars == <<listed, walk>>

-----------------------------------------------------------------------------
(* pagination.ts                                                           *)

take(limit) == Min({IF limit = NoLimit THEN DEFAULT_LIMIT ELSE limit, MAX_LIMIT})

\* A first page numbered 0.
skipFromZero(page, limit) == page * take(limit)

skip(page, limit) == (page - 1) * take(limit)

\* A division that drops the last, shorter page.
totalPagesDown(total, limit) == total \div take(limit)

totalPages(total, limit) == (total + take(limit) - 1) \div take(limit)

-----------------------------------------------------------------------------
(* A request of a page.                                                    *)

Sorted(order) == \A i, j \in DOMAIN order : i < j => nome[order[i]] <= nome[order[j]]
Orders == {order \in SetToSeqs(listed) : Sorted(order)}

PageOf(order, page, limit) ==
  {order[i] : i \in (skip(page, limit) + 1) ..
                    Min({skip(page, limit) + take(limit), Len(order)})}

Walking == walk.step = "walk"

\* served: how often each row came.  (history) stable: the rows listed all
\* along; entered, left: how many entered and left the list during the walk;
\* late: how many entered after the last count.
StartWalk(limit) ==
  /\ ~Walking
  /\ walk' = [step |-> "walk", page |-> DEFAULT_PAGE, limit |-> limit,
              total |-> Open, found |-> FALSE, data |-> {},
              served |-> [r \in Rows |-> 0], stable |-> listed,
              entered |-> 0, left |-> 0, late |-> 0]
  /\ UNCHANGED listed

\* The two statements of Promise.all.
Count ==
  /\ Walking /\ walk.total = Open
  /\ walk' = [walk EXCEPT !.total = Cardinality(listed)]
  /\ UNCHANGED listed

FindMany ==
  /\ Walking /\ ~walk.found
  /\ \E order \in Orders :
       walk' = [walk EXCEPT !.found = TRUE,
                            !.data = PageOf(order, walk.page, walk.limit)]
  /\ UNCHANGED listed

\* The response; the client goes on to the next page while there is one.
Respond ==
  LET more == walk.page < totalPages(walk.total, walk.limit) IN
  /\ Walking /\ walk.total # Open /\ walk.found
  /\ walk' = [walk EXCEPT
       !.step = IF more THEN "walk" ELSE "ended",
       !.page = IF more THEN @ + 1 ELSE @,
       !.total = Open, !.found = FALSE, !.data = {},
       !.late = IF more THEN 0 ELSE @,
       !.served = [r \in Rows |-> @[r] + IF r \in walk.data THEN 1 ELSE 0]]
  /\ UNCHANGED listed

-----------------------------------------------------------------------------
(* Writers.                                                                *)

Changes == walk.entered + walk.left

\* Writes between two walks only lead to another first state.
Enter(r) ==
  /\ Walking /\ Changes < MaxChanges
  /\ r \notin listed /\ listed' = listed \cup {r}
  /\ walk' = [walk EXCEPT !.entered = @ + 1,
                          !.late = IF walk.total = Open THEN @ ELSE @ + 1]

Leave(r) ==
  /\ Walking /\ Changes < MaxChanges
  /\ r \in listed /\ listed' = listed \ {r}
  /\ walk' = [walk EXCEPT !.left = @ + 1, !.stable = @ \ {r}]

Init == listed \in SUBSET Rows /\ walk = [step |-> "idle"]

Next ==
  \/ \E limit \in Limits : StartWalk(limit)
  \/ Count \/ FindMany \/ Respond
  \/ \E r \in Rows : Enter(r) \/ Leave(r)

Spec == Init /\ [][Next]_vars

-----------------------------------------------------------------------------
(* Properties.                                                             *)

Ended    == walk.step = "ended"
Alike(r) == {x \in Rows : nome[x] = nome[r]}
Lone     == {r \in walk.stable : Alike(r) = {r}}
Missed   == {r \in Lone : walk.served[r] = 0}
Times(S) == SumFunctionOnSet(walk.served, S)

\* A walk no write came across serves every row once, and rows of one name as
\* often as there are of them: who shares a name may be missed while a namesake
\* comes twice, since the lists break no ties.
QuietWalkServesAll ==
  Ended /\ Changes = 0 =>
    \A r \in Rows : Times(Alike(r)) = Cardinality(Alike(r) \cap walk.stable)

\* Of the rows listed all along under a name of their own, one is missed for
\* each row that left during the walk or entered after the last count, and one
\* comes once more for each that entered: never more than that.
WalkErrorsAreCaused ==
  Ended => /\ Cardinality(Missed) <= walk.left + walk.late
           /\ Times(Lone) - Cardinality(Lone \ Missed) <= walk.entered
=============================================================================
