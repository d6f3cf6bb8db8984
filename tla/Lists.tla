------------------------------- MODULE Lists -------------------------------
(***************************************************************************)
(* A list that is read page by page while its rows change: the buyers of   *)
(* one car and city on a buyer's screen, or a table of the admin           *)
(* dashboard.  Pages are cut by a cursor, the last row of the page before. *)
(* A screen asks again when its filter changes, when it is refreshed and   *)
(* when more is wanted, and answers may arrive in any order.               *)
(***************************************************************************)
EXTENDS Naturals, FiniteSets

CONSTANTS
    Rows,        \* ids of rows: uuids, of which only the order counts
    Values,      \* what rows are filtered by
    Limit,       \* rows in a page
    MaxTime,     \* bound: the clock of createdAt
    MaxChanges,  \* bound: changes of rows
    MaxLoads     \* bound: loads of the screen

VARIABLES
    table,    \* table[r]: when the row was created, and what a filter finds in it
    plan,     \* the viewer's
    screen,   \* what the screen holds
    flights,  \* the loads under way
    changes,  \* how often rows have changed
    steady,   \* the rows that have matched ever since the first page was asked for
    ever      \* the rows that have matched at some time since then

lists == <<table, plan, screen, flights, changes, steady, ever>>

Filters == Values \cup {"ALL"}
Plans == {"OUT", "FREE", "ELITE"}
None == 0

\* "hidden": paused, closed, of a suspended person or one who is blocked, either way.
Row == [created : 0..MaxTime, value : Values \cup {"hidden"}]

\* Of a list, which rows are in it and whether one is there twice: they are in cursorOrder.
Screen == [kind : {"buyers", "table"}, filter : Filters, items : SUBSET Rows, twice : BOOLEAN,
           cursor : Rows \cup {None}, plan : Plans, error : BOOLEAN, locked : BOOLEAN,
           loads : 1..MaxLoads, whole : BOOLEAN]

Flight == [load : 1..MaxLoads, more : BOOLEAN, filter : Filters, cursor : Rows \cup {None},
           answered : BOOLEAN, rows : SUBSET Rows, next : Rows \cup {None}, plan : Plans]

-----------------------------------------------------------------------------
(* The query *)

Matching(t, filter) ==
    {r \in Rows : /\ t[r].created # 0 /\ t[r].value # "hidden"
                  /\ filter \in {"ALL", t[r].value}}

\* cursorOrder: (createdAt DESC, id DESC)
Before(r, q) ==
    \/ table[r].created > table[q].created
    \/ table[r].created = table[q].created /\ r > q

\* Fault: the cursor's own instant is over.
AfterItsInstant(cursor) ==
    IF cursor = None THEN Rows ELSE {r \in Rows : table[r].created < table[cursor].created}

\* afterCursor()
After(cursor) == IF cursor = None THEN Rows ELSE {r \in Rows : Before(cursor, r)}

\* toPage(): the first of those found, and the last of them if there are more.
First(found) == {r \in found : Cardinality({q \in found : Before(q, r)}) < Limit}

IsNext(r, found) ==
    IF Cardinality(found) > Limit
    THEN r \in First(found) /\ \A q \in First(found) \ {r} : Before(q, r)
    ELSE r = None

-----------------------------------------------------------------------------
(* The rows and the viewer *)

Becomes(t) ==
    /\ table' = t
    /\ steady' = steady \cap Matching(t, screen.filter)
    /\ ever' = ever \cup Matching(t, screen.filter)
    /\ changes' = changes + 1
    /\ UNCHANGED <<plan, screen, flights>>

\* A post or a report is created; those of one instant differ by id alone.
Create(r, v) ==
    /\ table[r].created = 0 /\ changes < MaxChanges
    /\ \E now \in 1..MaxTime :
         /\ \A q \in Rows : table[q].created <= now
         /\ Becomes([table EXCEPT ![r] = [created |-> now, value |-> v]])

\* Its level or status changes, it is hidden, or it is shown again.
Change(r, v) ==
    /\ table[r].created # 0 /\ table[r].value # v /\ changes < MaxChanges
    /\ Becomes([table EXCEPT ![r].value = v])

\* The buyer's pass ends, or is upgraded.
PlanChanges(p) ==
    /\ screen.kind = "buyers" /\ p # plan /\ changes < MaxChanges
    /\ plan' = p
    /\ changes' = changes + 1
    /\ UNCHANGED <<table, screen, flights, steady, ever>>

-----------------------------------------------------------------------------
(* The screen *)

Sent(more, filter, cursor) ==
    [load |-> screen.loads + 1, more |-> more, filter |-> filter, cursor |-> cursor,
     answered |-> FALSE, rows |-> {}, next |-> None, plan |-> "OUT"]

\* Only the dashboard knows which of its loads is the last.
Loading == \E f \in flights : f.load = screen.loads

Alone == screen.kind = "table" \/ flights = {}

FirstPage(filter, emptied) ==
    /\ screen.loads < MaxLoads
    /\ flights' = flights \cup {Sent(FALSE, filter, None)}
    /\ screen' = [screen EXCEPT !.filter = filter, !.items = IF emptied THEN {} ELSE @,
                                !.twice = @ /\ ~emptied, !.loads = @ + 1,
                                !.error = @ /\ screen.kind = "buyers", !.whole = Alone]
    /\ steady' = Matching(table, filter) /\ ever' = Matching(table, filter)
    /\ UNCHANGED <<table, plan, changes>>

\* A chip of the buyers' filters: they are there once a page is, and locked on a Free Pass.
ChooseChip(filter) ==
    /\ screen.kind = "buyers" /\ ~screen.locked /\ screen.plan # "OUT"
    /\ filter # screen.filter
    /\ filter = "ALL" \/ screen.plan = "ELITE"
    /\ FirstPage(filter, TRUE)

\* A filter of a table: key changes, the rows stay until the answer comes.
ChooseFilter(filter) ==
    /\ screen.kind = "table"
    /\ filter # screen.filter
    /\ FirstPage(filter, FALSE)

\* Pulled down, or reload() after an admin's action.
Refresh ==
    /\ ~screen.locked
    /\ screen.kind = "buyers" => screen.plan # "OUT"
    /\ FirstPage(screen.filter, FALSE)

\* "View More Buyers", "Load more": off while more is, or anything is, loading.
More ==
    /\ ~screen.locked /\ screen.cursor # None /\ screen.loads < MaxLoads
    /\ IF screen.kind = "table" THEN ~Loading ELSE \A f \in flights : ~f.more
    /\ flights' = flights \cup {Sent(TRUE, screen.filter, screen.cursor)}
    /\ screen' = [screen EXCEPT !.loads = @ + 1, !.error = @ /\ screen.kind = "buyers",
                                !.whole = @ /\ Alone]
    /\ UNCHANGED <<table, plan, changes, steady, ever>>

\* Fault: every answer is taken.
NeverOvertaken(f) == FALSE

\* usePaged() drops what a later load has overtaken.
Overtaken(f) == screen.kind = "table" /\ f.load # screen.loads

-----------------------------------------------------------------------------
(* The load *)

\* discover() for a person who has joined, and whose plan has the filter; admin lists.
Allowed(f) ==
    \/ screen.kind = "table"
    \/ plan = "ELITE"
    \/ (plan = "FREE" /\ f.filter = "ALL")

Query(f) ==
    /\ ~f.answered /\ Allowed(f)
    /\ LET found == Matching(table, f.filter) \cap After(f.cursor) IN
       \E next \in Rows \cup {None} :
         /\ IsNext(next, found)
         /\ flights' = (flights \ {f}) \cup
                         {[f EXCEPT !.answered = TRUE, !.rows = First(found), !.next = next,
                                    !.plan = plan]}
    /\ UNCHANGED <<table, plan, screen, changes, steady, ever>>

Answer(f) ==
    /\ f.answered
    /\ flights' = flights \ {f}
    /\ IF Overtaken(f) THEN UNCHANGED screen
       ELSE screen' = [screen EXCEPT !.items = IF f.more THEN @ \cup f.rows ELSE f.rows,
                                     !.twice = f.more /\ (@ \/ screen.items \cap f.rows # {}),
                                     !.cursor = f.next, !.plan = f.plan, !.error = FALSE]
    /\ UNCHANGED <<table, plan, changes, steady, ever>>

Lose(f) ==
    /\ flights' = flights \ {f}
    /\ IF Overtaken(f) THEN UNCHANGED screen
       ELSE screen' = [screen EXCEPT !.error = TRUE, !.whole = @ /\ f.more]
    /\ UNCHANGED <<table, plan, changes, steady, ever>>

\* JOIN_COLLECTIVE_FIRST leaves a screen that only leads to the collective; ELITE_REQUIRED, an error.
Refuse(f) ==
    /\ ~f.answered /\ ~Allowed(f)
    /\ flights' = flights \ {f}
    /\ screen' = [screen EXCEPT !.locked = @ \/ plan = "OUT", !.error = @ \/ plan # "OUT",
                             !.whole = FALSE]
    /\ UNCHANGED <<table, plan, changes, steady, ever>>

-----------------------------------------------------------------------------
Init ==
    /\ table \in [Rows -> Row]
    /\ \A r \in Rows : table[r].created = 0 => table[r].value = "hidden"
    /\ changes = 0
    /\ \E kind \in {"buyers", "table"}, filter \in Filters :
         /\ kind = "buyers" => filter = "ALL"
         /\ plan \in IF kind = "buyers" THEN {"ELITE", "FREE"} ELSE {"ELITE"}
         /\ screen = [kind |-> kind, filter |-> filter, items |-> {}, twice |-> FALSE,
                      cursor |-> None, plan |-> "OUT", error |-> FALSE, locked |-> FALSE, loads |-> 1,
                      whole |-> TRUE]
         /\ flights = {[load |-> 1, more |-> FALSE, filter |-> filter, cursor |-> None,
                        answered |-> FALSE, rows |-> {}, next |-> None, plan |-> "OUT"]}
         /\ steady = Matching(table, filter) /\ ever = steady

Next ==
    \/ \E r \in Rows, v \in Values : Create(r, v)
    \/ \E r \in Rows, v \in Values \cup {"hidden"} : Change(r, v)
    \/ \E p \in Plans : PlanChanges(p)
    \/ \E filter \in Filters : ChooseChip(filter) \/ ChooseFilter(filter)
    \/ Refresh \/ More
    \/ \E f \in flights : Query(f) \/ Answer(f) \/ Lose(f) \/ Refuse(f)

-----------------------------------------------------------------------------
(* Properties *)

TypeOK ==
    /\ table \in [Rows -> Row]
    /\ plan \in Plans
    /\ screen \in Screen
    /\ flights \subseteq Flight
    /\ changes \in 0..MaxChanges
    /\ steady \subseteq ever /\ ever \subseteq Rows

\* "Cursor-paginated list ... (filters) reset the list" (usePaged), "View More Buyers": once
\* the last page is there, the list holds every row that has matched its filter all the
\* while, each once, and none that never has, whatever was created, changed or hidden between
\* the pages and in whatever order answers came.  On the buyers' screen, which takes every
\* answer, only while its loads do not overlap.
ShowsWhatWasAsked ==
    /\ screen.whole /\ ~screen.error /\ screen.cursor = None
    /\ IF screen.kind = "table" THEN ~Loading ELSE flights = {}
    => steady \subseteq screen.items /\ screen.items \subseteq ever /\ ~screen.twice
=============================================================================
