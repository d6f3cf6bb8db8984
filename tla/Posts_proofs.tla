---------------------------- MODULE Posts_proofs ----------------------------
(***************************************************************************)
(* Proofs about posts, for any people, any number of requests and any      *)
(* bounds: lists of them, one's own, what admins decide, and how two of them *)
(* match.  Each of these components has an inductive invariant, and        *)
(* Community_proofs joins them with the others.                            *)
(***************************************************************************)
EXTENDS Community, FiniteSetTheorems, SequenceTheorems, WellFoundedInduction, TLAPS

-----------------------------------------------------------------------------
(* Lists (Lists): an awaited answer fits the page it follows, and what is shown and what is left
   are all that was asked for. *)

\* What Lists counts with is what the library's theorems are about.
LEMMA ListingCardinality == \A S : Listing!Cardinality(S) = Cardinality(S)
  BY Zenon DEF Listing!Cardinality, Cardinality

\* The loads that are still answered to the screen.
ListingAwaited(f) == screen.kind = "table" => f.load = screen.loads

ListingCreated == {r \in Listed : table[r].created # 0}
ListingKnown(c) == c = Listing!None \/ c \in ListingCreated

\* What is still to come after a page, if anything is.
ListingLeft(c) == IF c = Listing!None THEN {} ELSE Listing!After(c)

\* Nothing is shown or asked after that is not a row.
ListingRowsExist ==
    /\ screen.items \subseteq ListingCreated /\ ListingKnown(screen.cursor)
    /\ \A f \in flights : f.rows \subseteq ListingCreated /\ ListingKnown(f.next) /\ ListingKnown(f.cursor)

ListingSteadyMatch == steady \subseteq Listing!Matching(table, screen.filter) /\ Listing!Matching(table, screen.filter) \subseteq ever
                      /\ ever \subseteq ListingCreated

ListingLoadsSent == \A f \in flights : f.load <= screen.loads

ListingAwaitedOne == screen.whole => \A f, g \in flights : ListingAwaited(f) /\ ListingAwaited(g) => f = g

\* What an awaited load asks for.
ListingAsks(f) ==
           /\ f.filter = screen.filter
           /\ f.more => f.cursor = screen.cursor /\ f.cursor # Listing!None
           /\ ~f.more => f.cursor = Listing!None

\* What its answer holds.
ListingAnswers(f) ==
    /\ f.rows \subseteq ever \cap Listing!After(f.cursor)
    /\ steady \cap Listing!After(f.cursor) \subseteq f.rows \cup ListingLeft(f.next)
    /\ f.rows \cap ListingLeft(f.next) = {}
    /\ f.next # Listing!None => f.next \in f.rows

ListingAwaitedFit == screen.whole => \A f \in flights : ListingAwaited(f) => ListingAsks(f) /\ (f.answered => ListingAnswers(f))

ListingCovered ==
    /\ steady \subseteq screen.items \cup ListingLeft(screen.cursor)
    /\ screen.items \subseteq ever
    /\ screen.items \cap ListingLeft(screen.cursor) = {}
    /\ ~screen.twice

ListingCoveredSoFar == screen.whole /\ (\A f \in flights : ListingAwaited(f) => f.more) => ListingCovered

ListingInv == Listing!TypeOK /\ ListingRowsExist /\ ListingSteadyMatch /\ ListingLoadsSent /\ ListingAwaitedOne /\ ListingAwaitedFit /\ ListingCoveredSoFar

-----------------------------------------------------------------------------
(* The order of rows, and the page cut from it *)

LEMMA ListingRowsAre ==
    ASSUME Listing!TypeOK
    PROVE  \A r \in Listed : r \in Nat /\ r # Listing!None /\ table[r] \in Listing!Row /\ table[r].created \in Nat
  <1>1. \A r \in Listed : r \in Nat /\ r # Listing!None
    BY ListingAssumption, BoundsAssumption DEF Listing!None
  <1>2. \A r \in Listed : table[r] \in Listing!Row
    BY DEF Listing!TypeOK
  <1>3. \A r \in Listed : table[r].created \in Nat
    BY <1>2 DEF Listing!Row
  <1> QED
    BY <1>1, <1>2, <1>3

LEMMA ListingOrderIs ==
    ASSUME Listing!TypeOK
    PROVE  /\ \A r, q \in Listed : r # q => Listing!Before(r, q) \/ Listing!Before(q, r)
           /\ \A r, q \in Listed : Listing!Before(r, q) => ~Listing!Before(q, r)
           /\ \A r \in Listed : ~Listing!Before(r, r)
           /\ \A r, q, p \in Listed : Listing!Before(r, q) /\ Listing!Before(q, p) => Listing!Before(r, p)
  <1>1. \A r \in Listed : r \in Nat /\ table[r].created \in Nat
    BY ListingRowsAre
  <1> QED
    BY <1>1 DEF Listing!Before

\* The rows of a page and those after it are all that was found.
LEMMA ListingPageIs ==
    ASSUME Listing!TypeOK, NEW found \in SUBSET Listed, NEW next, Listing!IsNext(next, found)
    PROVE  /\ Listing!First(found) \subseteq found
           /\ next # Listing!None => next \in Listing!First(found)
           /\ found \subseteq Listing!First(found) \cup ListingLeft(next)
           /\ Listing!First(found) \cap ListingLeft(next) = {}
  <1>1. Listing!First(found) \subseteq found
    BY ListingCardinality DEF Listing!First
  <1>2. \A S \in SUBSET found : IsFiniteSet(S) /\ Cardinality(S) \in Nat
    <2>1. \A S \in SUBSET found : S \in SUBSET Listed
      OBVIOUS
    <2> QED
      BY <2>1, ListingAssumption, BoundsAssumption, FS_Subset, FS_CardinalityType
  <1>3. CASE Cardinality(found) > PageSize
    <2>1. next \in Listing!First(found) /\ \A q \in Listing!First(found) \ {next} : Listing!Before(q, next)
      BY <1>3, ListingCardinality DEF Listing!IsNext
    <2>2. next \in found /\ next \in Listed /\ next # Listing!None
      BY <1>1, <2>1, ListingRowsAre
    <2>3. Cardinality({q \in found : Listing!Before(q, next)}) < PageSize
      BY <2>1, ListingCardinality DEF Listing!First
    <2>4. ASSUME NEW r \in found, Listing!Before(r, next)
          PROVE  r \in Listing!First(found)
      <3>1. PICK S \in SUBSET found, T \in SUBSET found :
               S = {q \in found : Listing!Before(q, r)} /\ T = {q \in found : Listing!Before(q, next)}
        OBVIOUS
      <3>2. S \subseteq T
        BY <2>2, <2>4, <3>1, ListingOrderIs
      <3>3. Cardinality(S) <= Cardinality(T)
        BY <1>2, <3>2, FS_Subset
      <3>4. PICK m \in Nat, n \in Nat : m = Cardinality(S) /\ n = Cardinality(T)
        BY <1>2
      <3>5. m <= n /\ n < PageSize /\ PageSize \in Nat
        BY <2>3, <3>1, <3>3, <3>4, ListingAssumption, BoundsAssumption
      <3>6. Cardinality({q \in found : Listing!Before(q, r)}) < PageSize
        BY <3>1, <3>4, <3>5
      <3> QED
        BY <3>6, ListingCardinality DEF Listing!First
    <2>5. ListingLeft(next) = {r \in Listed : Listing!Before(next, r)}
      BY <2>2 DEF ListingLeft, Listing!After
    <2>6. found \subseteq Listing!First(found) \cup ListingLeft(next)
      BY <2>1, <2>2, <2>4, <2>5, ListingOrderIs
    <2>7. Listing!First(found) \cap ListingLeft(next) = {}
      BY <1>1, <2>1, <2>2, <2>5, ListingOrderIs
    <2> QED
      BY <1>1, <2>1, <2>6, <2>7
  <1>4. CASE ~(Cardinality(found) > PageSize)
    <2>1. next = Listing!None
      BY <1>4, ListingCardinality DEF Listing!IsNext
    <2>2. ASSUME NEW r \in found
          PROVE  r \in Listing!First(found)
      <3>1. PICK S \in SUBSET found : S = {q \in found : Listing!Before(q, r)}
        OBVIOUS
      <3>2. S \subseteq found /\ r \notin S
        BY <3>1, ListingOrderIs
      <3>3. S # found
        BY <3>2
      <3>4. Cardinality(S) < Cardinality(found)
        BY <1>2, <3>2, <3>3, FS_Subset
      <3>5. PICK m \in Nat, n \in Nat : m = Cardinality(S) /\ n = Cardinality(found)
        BY <1>2
      <3>6. m < n /\ ~(n > PageSize) /\ PageSize \in Nat
        BY <1>4, <3>4, <3>5, ListingAssumption, BoundsAssumption
      <3>7. Cardinality({q \in found : Listing!Before(q, r)}) < PageSize
        BY <3>1, <3>5, <3>6
      <3> QED
        BY <3>7, ListingCardinality DEF Listing!First
    <2>3. ListingLeft(next) = {}
      BY <2>1 DEF ListingLeft
    <2> QED
      BY <1>1, <2>1, <2>2, <2>3
  <1> QED
    BY <1>3, <1>4

LEMMA ListingMatchingIs ==
    ASSUME NEW filter
    PROVE  Listing!Matching(table, filter) \subseteq ListingCreated
  BY DEF Listing!Matching, ListingCreated

\* While rows stay, so does what is after a row.
LEMMA ListingSameTable ==
    ASSUME UNCHANGED table
    PROVE  /\ ListingCreated' = ListingCreated
           /\ \A c : ListingKnown(c)' <=> ListingKnown(c)
           /\ \A c : Listing!After(c)' = Listing!After(c) /\ ListingLeft(c)' = ListingLeft(c)
           /\ \A filter : Listing!Matching(table, filter)' = Listing!Matching(table, filter)
  <1>1. ListingCreated' = ListingCreated
    BY DEF ListingCreated
  <1>2. \A c : ListingKnown(c)' <=> ListingKnown(c)
    BY <1>1 DEF ListingKnown
  <1>3. \A c : Listing!After(c)' = Listing!After(c)
    BY DEF Listing!After, Listing!Before
  <1>4. \A c : ListingLeft(c)' = ListingLeft(c)
    BY <1>3 DEF ListingLeft
  <1>5. \A filter : Listing!Matching(table, filter)' = Listing!Matching(table, filter)
    BY DEF Listing!Matching
  <1> QED
    BY <1>1, <1>2, <1>3, <1>4, <1>5

-----------------------------------------------------------------------------
(* The rows and the viewer *)

LEMMA ListingBecomesKeeps ==
    ASSUME ListingInv, NEW t \in [Listed -> Listing!Row], Listing!Becomes(t), changes < MaxChanges,
           \A r \in ListingCreated : t[r].created = table[r].created
    PROVE  ListingInv'
  <1>1. /\ table' = t /\ steady' = steady \cap Listing!Matching(t, screen.filter)
        /\ ever' = ever \cup Listing!Matching(t, screen.filter) /\ changes' = changes + 1
        /\ plan' = plan /\ screen' = screen /\ flights' = flights
    BY DEF Listing!Becomes
  <1>2. /\ Listing!TypeOK /\ ListingRowsExist /\ ListingSteadyMatch /\ ListingLoadsSent
        /\ ListingAwaitedOne /\ ListingAwaitedFit /\ ListingCoveredSoFar
    BY DEF ListingInv
  <1>3. ListingCreated \subseteq ListingCreated'
    <2>1. \A r \in ListingCreated : r \in Listed /\ table[r].created # 0 /\ table'[r].created = table[r].created
      BY <1>1 DEF ListingCreated
    <2> QED
      BY <2>1 DEF ListingCreated
  <1>4. \A c : ListingKnown(c) => ListingKnown(c)'
    BY <1>3 DEF ListingKnown
  <1>5. /\ Listing!Matching(t, screen.filter) \subseteq Listed
        /\ Listing!Matching(t, screen.filter) \subseteq ListingCreated'
    BY <1>1 DEF Listing!Matching, ListingCreated
  <1>6. Listing!TypeOK'
    <2>1. changes' \in 0..MaxChanges
      BY <1>1, <1>2, ListingAssumption, BoundsAssumption DEF Listing!TypeOK
    <2>2. steady' \subseteq ever' /\ ever' \subseteq Listed
      BY <1>1, <1>2, <1>5 DEF Listing!TypeOK
    <2> QED
      BY <1>1, <1>2, <2>1, <2>2 DEF Listing!TypeOK
  <1>7. ListingRowsExist'
    BY <1>1, <1>2, <1>3, <1>4 DEF ListingRowsExist
  <1>8. ListingSteadyMatch'
    <2>1. Listing!Matching(table, screen.filter)' = Listing!Matching(t, screen.filter)
      BY <1>1
    <2>2. ever \subseteq ListingCreated'
      BY <1>2, <1>3 DEF ListingSteadyMatch
    <2> QED
      BY <1>1, <1>5, <2>1, <2>2 DEF ListingSteadyMatch
  <1>9. ListingLoadsSent'
    BY <1>1, <1>2 DEF ListingLoadsSent
  <1>10. \A f : ListingAwaited(f)' <=> ListingAwaited(f)
    BY <1>1 DEF ListingAwaited
  <1>11. ListingAwaitedOne'
    BY <1>1, <1>2, <1>10 DEF ListingAwaitedOne
  <1>12. ASSUME NEW c, ListingKnown(c)
         PROVE  /\ Listing!After(c)' \cap ListingCreated = Listing!After(c) \cap ListingCreated
                /\ ListingLeft(c)' \cap ListingCreated = ListingLeft(c) \cap ListingCreated
    <2>1. CASE c = Listing!None
      BY <2>1 DEF Listing!After, ListingLeft
    <2>2. CASE c # Listing!None
      <3>1. c \in ListingCreated
        BY <1>12, <2>2 DEF ListingKnown
      <3>2. \A r \in ListingCreated : Listing!Before(c, r)' <=> Listing!Before(c, r)
        BY <1>1, <3>1 DEF Listing!Before
      <3>3. ListingCreated \subseteq Listed
        BY DEF ListingCreated
      <3> QED
        BY <2>2, <3>2, <3>3 DEF Listing!After, ListingLeft
    <2> QED
      BY <2>1, <2>2
  <1>13. /\ steady \subseteq ever /\ ever \subseteq ListingCreated /\ steady' \subseteq steady
         /\ ever \subseteq ever'
    BY <1>1, <1>2 DEF Listing!TypeOK, ListingSteadyMatch
  <1>14. ListingAwaitedFit'
    <2>1. ASSUME screen.whole, NEW f \in flights, ListingAwaited(f)
          PROVE  ListingAsks(f)' /\ (f.answered => ListingAnswers(f)')
      <3>1. ListingAsks(f) /\ (f.answered => ListingAnswers(f))
        BY <1>2, <2>1 DEF ListingAwaitedFit
      <3>2. ListingAsks(f)'
        BY <1>1, <3>1 DEF ListingAsks
      <3>3. f.rows \subseteq ListingCreated /\ ListingKnown(f.cursor) /\ ListingKnown(f.next)
        BY <1>2 DEF ListingRowsExist
      <3>4. /\ Listing!After(f.cursor)' \cap ListingCreated = Listing!After(f.cursor) \cap ListingCreated
            /\ ListingLeft(f.next)' \cap ListingCreated = ListingLeft(f.next) \cap ListingCreated
        BY <1>12, <3>3
      <3>5. ASSUME ListingAnswers(f) PROVE ListingAnswers(f)'
        BY <1>13, <3>3, <3>4, <3>5 DEF ListingAnswers
      <3> QED
        BY <3>1, <3>2, <3>5
    <2> QED
      BY <1>1, <1>10, <2>1 DEF ListingAwaitedFit
  <1>15. ListingCoveredSoFar'
    <2>1. ASSUME ListingCovered PROVE ListingCovered'
      <3>1. screen.items \subseteq ListingCreated /\ ListingKnown(screen.cursor)
        BY <1>2 DEF ListingRowsExist
      <3>2. ListingLeft(screen.cursor)' \cap ListingCreated = ListingLeft(screen.cursor) \cap ListingCreated
        BY <1>1, <1>12, <3>1
      <3> QED
        BY <1>1, <1>13, <2>1, <3>1, <3>2 DEF ListingCovered
    <2> QED
      BY <1>1, <1>2, <1>10, <2>1 DEF ListingCoveredSoFar
  <1> QED
    BY <1>6, <1>7, <1>8, <1>9, <1>11, <1>14, <1>15 DEF ListingInv

LEMMA ListingCreateKeeps ==
    ASSUME ListingInv, NEW r \in Listed, NEW v \in Sought, Listing!Create(r, v)
    PROVE  ListingInv'
  <1>1. PICK now \in 1..MaxTime : Listing!Becomes([table EXCEPT ![r] = [created |-> now, value |-> v]])
    BY DEF Listing!Create
  <1>2. PICK t : t = [table EXCEPT ![r] = [created |-> now, value |-> v]]
    OBVIOUS
  <1>3. table \in [Listed -> Listing!Row]
    BY DEF ListingInv, Listing!TypeOK
  <1>4. now \in 0..MaxTime
    BY ListingAssumption, BoundsAssumption
  <1>5. [created |-> now, value |-> v] \in Listing!Row
    BY <1>4 DEF Listing!Row
  <1>6. t \in [Listed -> Listing!Row] /\ \A q \in Listed \ {r} : t[q] = table[q]
    BY <1>2, <1>3, <1>5
  <1>7. \A q \in ListingCreated : t[q].created = table[q].created
    BY <1>6 DEF Listing!Create, ListingCreated
  <1> QED
    BY <1>1, <1>2, <1>6, <1>7, ListingBecomesKeeps DEF Listing!Create

LEMMA ListingChangeKeeps ==
    ASSUME ListingInv, NEW r \in Listed, NEW v \in Sought \cup {"hidden"}, Listing!Change(r, v)
    PROVE  ListingInv'
  <1>1. PICK t : t = [table EXCEPT ![r].value = v]
    OBVIOUS
  <1>2. table \in [Listed -> Listing!Row] /\ table[r] \in Listing!Row
    BY DEF ListingInv, Listing!TypeOK
  <1>3. /\ [table[r] EXCEPT !.value = v] \in Listing!Row
        /\ [table[r] EXCEPT !.value = v].created = table[r].created
    BY <1>2 DEF Listing!Row
  <1>4. t \in [Listed -> Listing!Row] /\ (\A q \in Listed \ {r} : t[q] = table[q]) /\ t[r].created = table[r].created
    BY <1>1, <1>2, <1>3
  <1>5. \A q \in ListingCreated : t[q].created = table[q].created
    BY <1>4 DEF ListingCreated
  <1> QED
    BY <1>1, <1>4, <1>5, ListingBecomesKeeps DEF Listing!Change

LEMMA ListingPlanChangesKeeps ==
    ASSUME ListingInv, NEW p \in Listing!Plans, Listing!PlanChanges(p)
    PROVE  ListingInv'
  <1>1. plan' = p /\ changes' = changes + 1 /\ changes < MaxChanges
        /\ table' = table /\ screen' = screen /\ flights' = flights /\ steady' = steady
        /\ ever' = ever
    BY DEF Listing!PlanChanges
  <1>2. Listing!TypeOK'
    <2>1. changes' \in 0..MaxChanges
      BY <1>1, ListingAssumption, BoundsAssumption DEF ListingInv, Listing!TypeOK
    <2> QED
      BY <1>1, <2>1 DEF ListingInv, Listing!TypeOK
  <1>3. \A f : ListingAwaited(f)' <=> ListingAwaited(f)
    BY <1>1 DEF ListingAwaited
  <1>4. ListingRowsExist' /\ ListingSteadyMatch' /\ ListingLoadsSent' /\ ListingAwaitedOne'
    BY <1>1, <1>3, ListingSameTable DEF ListingInv, ListingRowsExist, ListingSteadyMatch,
       ListingLoadsSent, ListingAwaitedOne
  <1>5. \A f : (ListingAsks(f)' <=> ListingAsks(f)) /\ (ListingAnswers(f)' <=> ListingAnswers(f))
    BY <1>1, ListingSameTable DEF ListingAsks, ListingAnswers
  <1>6. ListingAwaitedFit'
    BY <1>1, <1>3, <1>5 DEF ListingInv, ListingAwaitedFit
  <1>7. ListingCovered' <=> ListingCovered
    BY <1>1, ListingSameTable DEF ListingCovered
  <1>8. ListingCoveredSoFar'
    BY <1>1, <1>3, <1>7 DEF ListingInv, ListingCoveredSoFar
  <1> QED
    BY <1>2, <1>4, <1>6, <1>8 DEF ListingInv
-----------------------------------------------------------------------------
(* The screen *)

\* A load is sent, and none that was awaited still is, or nothing is known of what is shown.
LEMMA ListingSentKeeps ==
    ASSUME ListingInv, NEW more \in BOOLEAN, NEW filter \in Listing!Filters,
           NEW cursor \in Listed \cup {Listing!None},
           ListingKnown(cursor), NEW s, s = Listing!Sent(more, filter, cursor),
           screen.loads < MaxAsked, flights' = flights \cup {s}, UNCHANGED <<table, plan, changes>>,
           screen'.kind = screen.kind, screen'.loads = screen.loads + 1, screen' \in Listing!Screen,
           ListingKnown(screen'.cursor), screen'.items \subseteq screen.items,
           screen'.filter = filter,
           screen'.whole => Listing!Alone, screen'.whole /\ more => cursor = screen'.cursor /\ cursor # Listing!None,
           ~more => cursor = Listing!None, ListingSteadyMatch', steady' \subseteq ever' /\ ever' \subseteq Listed,
           screen'.whole /\ more => ListingCovered'
    PROVE  ListingInv'
  <1>1. /\ Listing!TypeOK /\ ListingRowsExist /\ ListingSteadyMatch /\ ListingLoadsSent
        /\ ListingAwaitedOne /\ ListingAwaitedFit /\ ListingCoveredSoFar
    BY DEF ListingInv
  <1>2. screen.loads \in Nat /\ screen.loads + 1 \in 1..MaxAsked
    <2>1. screen.loads \in 1..MaxAsked
      BY <1>1 DEF Listing!TypeOK, Listing!Screen
    <2> QED
      BY <2>1, ListingAssumption, BoundsAssumption
  <1>3. /\ s.load = screen.loads + 1 /\ s.more = more /\ s.filter = filter /\ s.cursor = cursor
        /\ s.answered = FALSE /\ s.rows = {} /\ s.next = Listing!None
    BY DEF Listing!Sent
  <1>4. s \in Listing!Flight
    <2>1. "OUT" \in Listing!Plans
      BY DEF Listing!Plans
    <2> QED
      BY <1>2, <2>1 DEF Listing!Sent, Listing!Flight
  <1>5. Listing!TypeOK'
    BY <1>1, <1>4 DEF Listing!TypeOK
  <1>6. ListingRowsExist'
    <2>1. ListingKnown(s.next) /\ s.rows \subseteq ListingCreated
      BY <1>3 DEF ListingKnown
    <2>2. \A f \in flights' : f.rows \subseteq ListingCreated /\ ListingKnown(f.next) /\ ListingKnown(f.cursor)
      BY <1>1, <1>3, <2>1 DEF ListingRowsExist
    <2>3. ListingKnown(screen'.cursor) /\ screen'.items \subseteq ListingCreated
      BY <1>1 DEF ListingRowsExist
    <2>4. ListingKnown(screen.cursor)'
      BY <2>3, ListingSameTable DEF ListingKnown
    <2> QED
      BY <2>2, <2>3, <2>4, ListingSameTable DEF ListingRowsExist
  <1>7. ListingLoadsSent'
    <2>1. \A f \in flights : f.load <= screen.loads /\ f.load \in Nat
      BY <1>1 DEF ListingLoadsSent, Listing!TypeOK, Listing!Flight
    <2>2. \A f \in flights' : f.load <= screen.loads + 1
      BY <1>2, <1>3, <2>1
    <2> QED
      BY <2>2 DEF ListingLoadsSent
  <1>8. ASSUME screen'.whole, NEW f \in flights', ListingAwaited(f)'
        PROVE  f = s
    <2>1. CASE screen.kind = "table"
      <3>1. f.load = screen.loads + 1
        BY <1>8, <2>1 DEF ListingAwaited
      <3>2. \A g \in flights : g.load <= screen.loads /\ g.load \in Nat
        BY <1>1 DEF ListingLoadsSent, Listing!TypeOK, Listing!Flight
      <3> QED
        BY <1>2, <3>1, <3>2
    <2>2. CASE screen.kind # "table"
      BY <1>8, <2>2 DEF Listing!Alone
    <2> QED
      BY <2>1, <2>2
  <1>9. ListingAwaitedOne'
    BY <1>8 DEF ListingAwaitedOne
  <1>10. ListingAwaitedFit'
    <2>1. screen'.whole => ListingAsks(s)'
      BY <1>3 DEF ListingAsks
    <2> QED
      BY <1>3, <1>8, <2>1 DEF ListingAwaitedFit
  <1>11. ListingCoveredSoFar'
    <2>1. ListingAwaited(s)' /\ s \in flights'
      BY <1>3 DEF ListingAwaited
    <2> QED
      BY <1>3, <2>1 DEF ListingCoveredSoFar
  <1> QED
    BY <1>5, <1>6, <1>7, <1>9, <1>10, <1>11 DEF ListingInv

LEMMA ListingFirstPageKeeps ==
    ASSUME ListingInv, NEW filter \in Listing!Filters, NEW emptied \in BOOLEAN,
           Listing!FirstPage(filter, emptied)
    PROVE  ListingInv'
  <1>0. PICK more \in BOOLEAN : ~more /\ more = FALSE
    OBVIOUS
  <1>1. PICK s : s = Listing!Sent(FALSE, filter, Listing!None) /\ s = Listing!Sent(more, filter, Listing!None)
    BY <1>0
  <1>2. /\ screen.loads < MaxAsked /\ flights' = flights \cup {s}
        /\ steady' = Listing!Matching(table, filter) /\ ever' = Listing!Matching(table, filter)
        /\ table' = table /\ plan' = plan /\ changes' = changes
        /\ screen' = [screen EXCEPT !.filter = filter, !.items = IF emptied THEN {} ELSE @,
                                    !.twice = @ /\ ~emptied, !.loads = @ + 1,
                                    !.error = @ /\ screen.kind = "buyers", !.whole = Listing!Alone]
    BY <1>1 DEF Listing!FirstPage
  <1>3. screen \in Listing!Screen /\ screen.loads \in 1..MaxAsked
    BY DEF ListingInv, Listing!TypeOK, Listing!Screen
  <1>4. screen.loads + 1 \in 1..MaxAsked
    BY <1>2, <1>3, ListingAssumption, BoundsAssumption
  <1>5. PICK items \in SUBSET Listed : items = IF emptied THEN {} ELSE screen.items
    BY <1>3 DEF Listing!Screen
  <1>12. PICK twice \in BOOLEAN, error \in BOOLEAN :
           twice = (screen.twice /\ ~emptied) /\ error = (screen.error /\ screen.kind = "buyers")
    OBVIOUS
  <1>13. PICK whole \in BOOLEAN : whole = Listing!Alone
    BY DEF Listing!Alone
  <1>6. screen' = [screen EXCEPT !.filter = filter, !.items = items, !.twice = twice,
                                 !.loads = screen.loads + 1, !.error = error, !.whole = whole]
    BY <1>2, <1>3, <1>5, <1>12, <1>13 DEF Listing!Screen
  <1>7. /\ screen' \in Listing!Screen /\ screen'.kind = screen.kind /\ screen'.filter = filter
        /\ screen'.items = items /\ screen'.loads = screen.loads + 1 /\ screen'.whole = whole
        /\ screen'.cursor = screen.cursor
    BY <1>3, <1>4, <1>6 DEF Listing!Screen
  <1>8. items \subseteq screen.items
    BY <1>5
  <1>9. ListingKnown(screen'.cursor) /\ ListingKnown(Listing!None)
    BY <1>7 DEF ListingInv, ListingRowsExist, ListingKnown
  <1>10. ListingSteadyMatch'
    <2>1. /\ Listing!Matching(table, filter) \subseteq ListingCreated
          /\ ListingCreated' = ListingCreated
      BY <1>2, ListingMatchingIs, ListingSameTable
    <2>2. Listing!Matching(table', screen'.filter) = Listing!Matching(table, filter)
      BY <1>2, <1>7
    <2> QED
      BY <1>2, <2>1, <2>2 DEF ListingSteadyMatch
  <1>11. steady' \subseteq ever' /\ ever' \subseteq Listed
    BY <1>2 DEF Listing!Matching
  <1> QED
    BY <1>0, <1>1, <1>2, <1>7, <1>8, <1>9, <1>10, <1>11, <1>13, ListingSentKeeps DEF ListingKnown

LEMMA ListingMoreKeeps == ASSUME ListingInv, Listing!More PROVE ListingInv'
  <1>1. PICK s : s = Listing!Sent(TRUE, screen.filter, screen.cursor)
    OBVIOUS
  <1>2. /\ screen.loads < MaxAsked /\ screen.cursor # Listing!None /\ flights' = flights \cup {s}
        /\ (screen.kind = "table" => ~Listing!Loading)
        /\ table' = table /\ plan' = plan /\ changes' = changes /\ steady' = steady /\ ever' = ever
        /\ screen' = [screen EXCEPT !.loads = @ + 1, !.error = @ /\ screen.kind = "buyers",
                                    !.whole = @ /\ Listing!Alone]
    BY <1>1 DEF Listing!More
  <1>3. screen \in Listing!Screen /\ screen.loads \in 1..MaxAsked
        /\ screen.filter \in Listing!Filters /\ screen.cursor \in Listed \cup {Listing!None}
    BY DEF ListingInv, Listing!TypeOK, Listing!Screen
  <1>4. screen.loads + 1 \in 1..MaxAsked
    BY <1>2, <1>3, ListingAssumption, BoundsAssumption
  <1>5. PICK error \in BOOLEAN, whole \in BOOLEAN :
          error = (screen.error /\ screen.kind = "buyers") /\ whole = (screen.whole /\ Listing!Alone)
    OBVIOUS
  <1>6. screen' = [screen EXCEPT !.loads = screen.loads + 1, !.error = error, !.whole = whole]
    BY <1>2, <1>3, <1>5 DEF Listing!Screen
  <1>7. /\ screen' \in Listing!Screen /\ screen'.kind = screen.kind
        /\ screen'.filter = screen.filter
        /\ screen'.items = screen.items /\ screen'.loads = screen.loads + 1 /\ screen'.whole = whole
        /\ screen'.cursor = screen.cursor /\ screen'.twice = screen.twice
    BY <1>3, <1>4, <1>6 DEF Listing!Screen
  <1>8. ListingKnown(screen.cursor) /\ ListingKnown(screen'.cursor)
    BY <1>7 DEF ListingInv, ListingRowsExist
  <1>9. ListingSteadyMatch'
    <2>1. ListingSteadyMatch
      BY DEF ListingInv
    <2>2. Listing!Matching(table', screen'.filter) = Listing!Matching(table, screen.filter)
      BY <1>2, <1>7
    <2> QED
      BY <1>2, <2>1, <2>2, ListingSameTable DEF ListingSteadyMatch
  <1>10. steady' \subseteq ever' /\ ever' \subseteq Listed
    BY <1>2 DEF ListingInv, Listing!TypeOK
  <1>11. ASSUME whole PROVE ListingCovered'
    <2>1. \A f \in flights : ~ListingAwaited(f)
      BY <1>2, <1>5, <1>11 DEF ListingAwaited, Listing!Alone, Listing!Loading
    <2>2. ListingCovered
      BY <1>5, <1>11, <2>1 DEF ListingInv, ListingCoveredSoFar
    <2>3. ListingLeft(screen.cursor)' = ListingLeft(screen.cursor)
      BY <1>2, <1>7, ListingSameTable
    <2> QED
      BY <1>2, <1>7, <2>2, <2>3 DEF ListingCovered
  <1> QED
    BY <1>1, <1>2, <1>3, <1>5, <1>7, <1>8, <1>9, <1>10, <1>11, ListingSentKeeps

-----------------------------------------------------------------------------
(* The load *)

LEMMA ListingQueryKeeps ==
    ASSUME ListingInv, NEW f \in flights, Listing!Query(f)
    PROVE  ListingInv'
  <1>1. /\ Listing!TypeOK /\ ListingRowsExist /\ ListingSteadyMatch /\ ListingLoadsSent
        /\ ListingAwaitedOne /\ ListingAwaitedFit /\ ListingCoveredSoFar
    BY DEF ListingInv
  <1>2. PICK found \in SUBSET Listed : found = Listing!Matching(table, f.filter) \cap Listing!After(f.cursor)
    BY DEF Listing!Matching
  <1>3. PICK next \in Listed \cup {Listing!None} :
          /\ Listing!IsNext(next, found)
          /\ flights' = (flights \ {f}) \cup
                          {[f EXCEPT !.answered = TRUE, !.rows = Listing!First(found), !.next = next, !.plan = plan]}
    BY <1>2 DEF Listing!Query
  <1>4. PICK e : e = [f EXCEPT !.answered = TRUE, !.rows = Listing!First(found), !.next = next, !.plan = plan]
    OBVIOUS
  <1>5. f \in Listing!Flight /\ plan \in Listing!Plans
    BY <1>1 DEF Listing!TypeOK
  <1>6. /\ Listing!First(found) \subseteq found
        /\ next # Listing!None => next \in Listing!First(found)
        /\ found \subseteq Listing!First(found) \cup ListingLeft(next)
        /\ Listing!First(found) \cap ListingLeft(next) = {}
    BY <1>1, <1>3, ListingPageIs
  <1>7. Listing!First(found) \in SUBSET Listed /\ TRUE \in BOOLEAN
    BY <1>6
  <1>8. /\ e \in Listing!Flight /\ e.load = f.load /\ e.more = f.more /\ e.filter = f.filter
        /\ e.cursor = f.cursor
        /\ e.rows = Listing!First(found) /\ e.next = next
    BY <1>4, <1>5, <1>7 DEF Listing!Flight
  <1>9. flights' = (flights \ {f}) \cup {e}
    BY <1>3, <1>4
  <1>10. /\ table' = table /\ plan' = plan /\ screen' = screen /\ changes' = changes
         /\ steady' = steady /\ ever' = ever
    BY DEF Listing!Query
  <1>11. \A g : ListingAwaited(g)' <=> ListingAwaited(g)
    BY <1>10 DEF ListingAwaited
  <1>12. ListingAwaited(e) <=> ListingAwaited(f)
    BY <1>8 DEF ListingAwaited
  <1>13. Listing!TypeOK'
    BY <1>1, <1>8, <1>9, <1>10 DEF Listing!TypeOK
  <1>14. ListingRowsExist'
    <2>1. found \subseteq ListingCreated
      BY <1>2, ListingMatchingIs
    <2>2. e.rows \subseteq ListingCreated /\ ListingKnown(e.next) /\ ListingKnown(e.cursor)
      BY <1>1, <1>6, <1>8, <2>1 DEF ListingKnown, ListingRowsExist
    <2> QED
      BY <1>1, <1>9, <1>10, <2>2, ListingSameTable DEF ListingRowsExist
  <1>15. ListingSteadyMatch'
    BY <1>1, <1>10, ListingSameTable DEF ListingSteadyMatch
  <1>16. ListingLoadsSent'
    BY <1>1, <1>8, <1>9, <1>10 DEF ListingLoadsSent
  <1>17. ListingAwaitedOne'
    BY <1>1, <1>9, <1>10, <1>11, <1>12 DEF ListingAwaitedOne
  <1>18. \A g : (ListingAsks(g)' <=> ListingAsks(g)) /\ (ListingAnswers(g)' <=> ListingAnswers(g))
    BY <1>10, ListingSameTable DEF ListingAsks, ListingAnswers
  <1>19. ASSUME screen.whole, ListingAwaited(f)
         PROVE  ListingAsks(e) /\ ListingAnswers(e)
    <2>1. ListingAsks(f)
      BY <1>1, <1>19 DEF ListingAwaitedFit
    <2>2. ListingAsks(e)
      BY <1>8, <2>1 DEF ListingAsks
    <2>3. found = Listing!Matching(table, screen.filter) \cap Listing!After(e.cursor)
      BY <1>2, <1>8, <2>1 DEF ListingAsks
    <2>4. /\ e.rows \subseteq ever \cap Listing!After(e.cursor)
          /\ steady \cap Listing!After(e.cursor) \subseteq e.rows \cup ListingLeft(e.next)
      BY <1>1, <1>6, <1>8, <2>3 DEF ListingSteadyMatch
    <2> QED
      BY <1>6, <1>8, <2>2, <2>4 DEF ListingAnswers
  <1>20. ListingAwaitedFit'
    BY <1>1, <1>9, <1>10, <1>11, <1>12, <1>18, <1>19 DEF ListingAwaitedFit
  <1>21. ListingCoveredSoFar'
    <2>1. ListingCovered' <=> ListingCovered
      BY <1>10, ListingSameTable DEF ListingCovered
    <2>2. e \in flights'
      BY <1>9
    <2> QED
      BY <1>1, <1>8, <1>9, <1>10, <1>11, <1>12, <2>1, <2>2 DEF ListingCoveredSoFar
  <1> QED
    BY <1>13, <1>14, <1>15, <1>16, <1>17, <1>20, <1>21 DEF ListingInv

\* A load ends: what it leaves is all there is to it.
LEMMA ListingEndKeeps ==
    ASSUME ListingInv, NEW f \in flights, flights' = flights \ {f},
           UNCHANGED <<table, plan, changes, steady, ever>>,
           screen' \in Listing!Screen, screen'.kind = screen.kind, screen'.loads = screen.loads,
           screen'.filter = screen.filter, screen'.items \subseteq ListingCreated, ListingKnown(screen'.cursor),
           screen'.whole => screen.whole,
           screen'.whole /\ screen'.cursor # screen.cursor => ListingAwaited(f),
           ListingCoveredSoFar'
    PROVE  ListingInv'
  <1>1. /\ Listing!TypeOK /\ ListingRowsExist /\ ListingSteadyMatch /\ ListingLoadsSent
        /\ ListingAwaitedOne /\ ListingAwaitedFit
    BY DEF ListingInv
  <1>2. Listing!TypeOK'
    BY <1>1 DEF Listing!TypeOK
  <1>3. ListingRowsExist'
    <2>1. ListingKnown(screen.cursor)'
      BY ListingSameTable DEF ListingKnown
    <2> QED
      BY <1>1, <2>1, ListingSameTable DEF ListingRowsExist
  <1>4. ListingSteadyMatch'
    <2>1. Listing!Matching(table', screen'.filter) = Listing!Matching(table, screen.filter)
      OBVIOUS
    <2> QED
      BY <1>1, <2>1, ListingSameTable DEF ListingSteadyMatch
  <1>5. ListingLoadsSent'
    BY <1>1 DEF ListingLoadsSent
  <1>6. \A g : ListingAwaited(g)' <=> ListingAwaited(g)
    BY DEF ListingAwaited
  <1>7. ListingAwaitedOne'
    BY <1>1, <1>6 DEF ListingAwaitedOne
  <1>8. ListingAwaitedFit'
    <2>1. ASSUME screen'.whole, NEW g \in flights', ListingAwaited(g)
          PROVE  ListingAsks(g)' /\ (g.answered => ListingAnswers(g)')
      <3>1. g \in flights /\ g # f /\ ListingAsks(g) /\ (g.answered => ListingAnswers(g))
        BY <1>1, <2>1 DEF ListingAwaitedFit
      <3>2. screen'.cursor = screen.cursor
        BY <1>1, <2>1, <3>1 DEF ListingAwaitedOne
      <3>3. ListingAsks(g)'
        BY <3>1, <3>2 DEF ListingAsks
      <3>4. ListingAnswers(g)' <=> ListingAnswers(g)
        BY ListingSameTable DEF ListingAnswers
      <3> QED
        BY <3>1, <3>3, <3>4
    <2> QED
      BY <1>6, <2>1 DEF ListingAwaitedFit
  <1> QED
    BY <1>2, <1>3, <1>4, <1>5, <1>7, <1>8 DEF ListingInv

\* One that was overtaken leaves the screen as it is.
LEMMA ListingOvertakenKeeps ==
    ASSUME ListingInv, NEW f \in flights, Listing!Overtaken(f), flights' = flights \ {f},
           screen' = screen,
           UNCHANGED <<table, plan, changes, steady, ever>>
    PROVE  ListingInv'
  <1>1. ~ListingAwaited(f) /\ \A g : ListingAwaited(g)' <=> ListingAwaited(g)
    BY DEF Listing!Overtaken, ListingAwaited
  <1>2. ListingCovered' <=> ListingCovered
    BY ListingSameTable DEF ListingCovered
  <1>3. ListingCoveredSoFar'
    BY <1>1, <1>2 DEF ListingInv, ListingCoveredSoFar
  <1>4. /\ screen' \in Listing!Screen /\ screen'.items \subseteq ListingCreated
        /\ ListingKnown(screen'.cursor)
    BY DEF ListingInv, Listing!TypeOK, ListingRowsExist
  <1> QED
    BY <1>3, <1>4, ListingEndKeeps

LEMMA ListingAnswerKeeps ==
    ASSUME ListingInv, NEW f \in flights, Listing!Answer(f)
    PROVE  ListingInv'
  <1>1. /\ Listing!TypeOK /\ ListingRowsExist /\ ListingSteadyMatch /\ ListingLoadsSent
        /\ ListingAwaitedOne /\ ListingAwaitedFit /\ ListingCoveredSoFar
    BY DEF ListingInv
  <1>2. /\ f.answered /\ flights' = flights \ {f}
        /\ table' = table /\ plan' = plan /\ changes' = changes /\ steady' = steady /\ ever' = ever
    BY DEF Listing!Answer
  <1>3. CASE Listing!Overtaken(f)
    BY <1>2, <1>3, ListingOvertakenKeeps DEF Listing!Answer
  <1>4. CASE ~Listing!Overtaken(f)
    <2>1. ListingAwaited(f)
      BY <1>4 DEF Listing!Overtaken, ListingAwaited
    <2>2. screen \in Listing!Screen /\ f \in Listing!Flight
      BY <1>1 DEF Listing!TypeOK
    <2>3. PICK items \in SUBSET Listed, twice \in BOOLEAN :
            /\ items = IF f.more THEN screen.items \cup f.rows ELSE f.rows
            /\ twice = (f.more /\ (screen.twice \/ screen.items \cap f.rows # {}))
      BY <2>2 DEF Listing!Screen, Listing!Flight
    <2>4. screen' = [screen EXCEPT !.items = items, !.twice = twice, !.cursor = f.next,
                                   !.plan = f.plan, !.error = FALSE]
      BY <1>4, <2>2, <2>3 DEF Listing!Answer, Listing!Screen
    <2>5. /\ screen' \in Listing!Screen /\ screen'.kind = screen.kind
          /\ screen'.loads = screen.loads
          /\ screen'.filter = screen.filter /\ screen'.items = items /\ screen'.twice = twice
          /\ screen'.cursor = f.next /\ screen'.whole = screen.whole
      BY <2>2, <2>4 DEF Listing!Screen, Listing!Flight
    <2>6. items \subseteq ListingCreated /\ ListingKnown(f.next)
      BY <1>1, <2>3 DEF ListingRowsExist
    <2>7. ASSUME screen.whole
          PROVE  ListingCovered'
      <3>1. ListingAsks(f) /\ ListingAnswers(f)
        BY <1>1, <1>2, <2>1, <2>7 DEF ListingAwaitedFit
      <3>2. ListingLeft(screen.cursor)' = ListingLeft(f.next)
        BY <1>2, <2>5, ListingSameTable
      <3>3. CASE ~f.more
        <4>1. items = f.rows /\ twice = FALSE
          BY <2>3, <3>3
        <4>2. Listing!After(f.cursor) = Listed /\ steady \subseteq Listed
          BY <1>1, <3>1, <3>3 DEF ListingAsks, Listing!After, Listing!TypeOK
        <4> QED
          BY <1>2, <2>5, <3>1, <3>2, <4>1, <4>2 DEF ListingAnswers, ListingCovered
      <3>4. CASE f.more
        <4>1. ListingCovered
          BY <1>1, <2>1, <2>7, <3>4 DEF ListingAwaitedOne, ListingCoveredSoFar
        <4>2. f.cursor = screen.cursor /\ f.cursor # Listing!None
          BY <3>1, <3>4 DEF ListingAsks
        <4>3. ListingLeft(screen.cursor) = Listing!After(f.cursor)
          BY <4>2 DEF ListingLeft
        <4>4. screen.items \cap f.rows = {}
          BY <3>1, <4>1, <4>3 DEF ListingAnswers, ListingCovered
        <4>5. items = screen.items \cup f.rows /\ twice = FALSE
          BY <2>3, <3>4, <4>1, <4>4 DEF ListingCovered
        <4>6. ListingLeft(f.next) \subseteq Listing!After(f.cursor)
          <5>1. CASE f.next = Listing!None
            BY <5>1 DEF ListingLeft
          <5>2. CASE f.next # Listing!None
            <6>1. f.next \in Listing!After(f.cursor)
              BY <3>1, <5>2 DEF ListingAnswers
            <6>2. f.cursor \in Listed /\ f.next \in Listed /\ Listing!Before(f.cursor, f.next)
              BY <2>2, <4>2, <5>2, <6>1 DEF Listing!After, Listing!Flight
            <6>3. \A r \in Listed : Listing!Before(f.next, r) => Listing!Before(f.cursor, r)
              BY <1>1, <6>2, ListingOrderIs
            <6> QED
              BY <4>2, <5>2, <6>3 DEF ListingLeft, Listing!After
          <5> QED
            BY <5>1, <5>2
        <4>7. items \cap ListingLeft(f.next) = {}
          BY <3>1, <4>1, <4>3, <4>5, <4>6 DEF ListingAnswers, ListingCovered
        <4>8. steady \subseteq items \cup ListingLeft(f.next) /\ items \subseteq ever
          BY <3>1, <4>1, <4>3, <4>5 DEF ListingAnswers, ListingCovered
        <4> QED
          BY <1>2, <2>5, <3>2, <4>5, <4>7, <4>8 DEF ListingCovered
      <3> QED
        BY <3>3, <3>4
    <2>8. ListingCoveredSoFar'
      BY <2>5, <2>7 DEF ListingCoveredSoFar
    <2> QED
      BY <1>2, <2>1, <2>5, <2>6, <2>8, ListingEndKeeps
  <1> QED
    BY <1>3, <1>4

LEMMA ListingLoseKeeps ==
    ASSUME ListingInv, NEW f \in flights, Listing!Lose(f)
    PROVE  ListingInv'
  <1>1. /\ Listing!TypeOK /\ ListingRowsExist /\ ListingAwaitedOne /\ ListingCoveredSoFar
    BY DEF ListingInv
  <1>2. /\ flights' = flights \ {f}
        /\ table' = table /\ plan' = plan /\ changes' = changes /\ steady' = steady /\ ever' = ever
    BY DEF Listing!Lose
  <1>3. CASE Listing!Overtaken(f)
    BY <1>2, <1>3, ListingOvertakenKeeps DEF Listing!Lose
  <1>4. CASE ~Listing!Overtaken(f)
    <2>1. ListingAwaited(f)
      BY <1>4 DEF Listing!Overtaken, ListingAwaited
    <2>2. screen \in Listing!Screen /\ f \in Listing!Flight
      BY <1>1 DEF Listing!TypeOK
    <2>3. PICK whole \in BOOLEAN : whole = (screen.whole /\ f.more)
      OBVIOUS
    <2>4. screen' = [screen EXCEPT !.error = TRUE, !.whole = whole]
      BY <1>4, <2>2, <2>3 DEF Listing!Lose, Listing!Screen
    <2>5. /\ screen' \in Listing!Screen /\ screen'.kind = screen.kind
          /\ screen'.loads = screen.loads
          /\ screen'.filter = screen.filter /\ screen'.items = screen.items
          /\ screen'.twice = screen.twice /\ screen'.cursor = screen.cursor /\ screen'.whole = whole
      BY <2>2, <2>4 DEF Listing!Screen
    <2>6. screen.items \subseteq ListingCreated /\ ListingKnown(screen.cursor)
      BY <1>1 DEF ListingRowsExist
    <2>7. ASSUME whole
          PROVE  ListingCovered'
      <3>1. ListingCovered
        BY <1>1, <2>1, <2>3, <2>7 DEF ListingAwaitedOne, ListingCoveredSoFar
      <3>2. ListingLeft(screen.cursor)' = ListingLeft(screen.cursor)
        BY <1>2, <2>5, ListingSameTable
      <3> QED
        BY <1>2, <2>5, <3>1, <3>2 DEF ListingCovered
    <2>8. ListingCoveredSoFar'
      BY <2>5, <2>7 DEF ListingCoveredSoFar
    <2> QED
      BY <1>2, <2>3, <2>5, <2>6, <2>8, ListingEndKeeps
  <1> QED
    BY <1>3, <1>4

LEMMA ListingRefuseKeeps ==
    ASSUME ListingInv, NEW f \in flights, Listing!Refuse(f)
    PROVE  ListingInv'
  <1>1. /\ flights' = flights \ {f}
        /\ table' = table /\ plan' = plan /\ changes' = changes /\ steady' = steady /\ ever' = ever
        /\ screen' = [screen EXCEPT !.locked = @ \/ plan = "OUT", !.error = @ \/ plan # "OUT",
                                    !.whole = FALSE]
    BY DEF Listing!Refuse
  <1>2. screen \in Listing!Screen
    BY DEF ListingInv, Listing!TypeOK
  <1>3. PICK locked \in BOOLEAN, error \in BOOLEAN :
          locked = (screen.locked \/ plan = "OUT") /\ error = (screen.error \/ plan # "OUT")
    OBVIOUS
  <1>4. screen' = [screen EXCEPT !.locked = locked, !.error = error, !.whole = FALSE]
    BY <1>1, <1>2, <1>3 DEF Listing!Screen
  <1>5. /\ screen' \in Listing!Screen /\ screen'.kind = screen.kind /\ screen'.loads = screen.loads
        /\ screen'.filter = screen.filter /\ screen'.items = screen.items
        /\ screen'.cursor = screen.cursor /\ screen'.whole = FALSE
    BY <1>2, <1>4 DEF Listing!Screen
  <1>6. screen.items \subseteq ListingCreated /\ ListingKnown(screen.cursor)
    BY DEF ListingInv, ListingRowsExist
  <1>7. ListingCoveredSoFar'
    BY <1>5 DEF ListingCoveredSoFar
  <1> QED
    BY <1>1, <1>5, <1>6, <1>7, ListingEndKeeps

-----------------------------------------------------------------------------
LEMMA ListingInitially == Listing!Init => ListingInv
  <1> SUFFICES ASSUME Listing!Init PROVE ListingInv
    OBVIOUS
  <1>1. PICK kind \in {"buyers", "table"}, filter \in Listing!Filters :
          /\ plan \in IF kind = "buyers" THEN {"ELITE", "FREE"} ELSE {"ELITE"}
          /\ screen = [kind |-> kind, filter |-> filter, items |-> {}, twice |-> FALSE,
                       cursor |-> Listing!None, plan |-> "OUT", error |-> FALSE, locked |-> FALSE, loads |-> 1,
                       whole |-> TRUE]
          /\ flights = {[load |-> 1, more |-> FALSE, filter |-> filter, cursor |-> Listing!None,
                         answered |-> FALSE, rows |-> {}, next |-> Listing!None, plan |-> "OUT"]}
          /\ steady = Listing!Matching(table, filter) /\ ever = steady
    BY DEF Listing!Init
  <1>2. table \in [Listed -> Listing!Row] /\ changes = 0
    BY DEF Listing!Init
  <1>3. /\ 1 \in 1..MaxAsked /\ "OUT" \in Listing!Plans /\ plan \in Listing!Plans
        /\ changes \in 0..MaxChanges
    BY <1>1, <1>2, ListingAssumption, BoundsAssumption DEF Listing!Plans
  <1>4. screen \in Listing!Screen
    BY <1>1, <1>3 DEF Listing!Screen
  <1>5. PICK s : /\ s = [load |-> 1, more |-> FALSE, filter |-> filter, cursor |-> Listing!None,
                         answered |-> FALSE, rows |-> {}, next |-> Listing!None, plan |-> "OUT"]
                 /\ flights = {s}
    BY <1>1
  <1>6. s \in Listing!Flight
    BY <1>3, <1>5 DEF Listing!Flight
  <1>7. /\ s.load = 1 /\ s.more = FALSE /\ s.filter = filter /\ s.cursor = Listing!None
        /\ s.answered = FALSE
        /\ s.rows = {} /\ s.next = Listing!None
    BY <1>5
  <1>8. /\ screen.filter = filter /\ screen.items = {} /\ screen.cursor = Listing!None
        /\ screen.loads = 1
    BY <1>1
  <1>9. steady \subseteq ever /\ ever \subseteq Listed
    BY <1>1 DEF Listing!Matching
  <1>10. Listing!TypeOK
    BY <1>2, <1>3, <1>4, <1>5, <1>6, <1>9 DEF Listing!TypeOK
  <1>11. ListingRowsExist
    BY <1>5, <1>7, <1>8 DEF ListingRowsExist, ListingKnown
  <1>12. ListingSteadyMatch
    BY <1>1, <1>8, ListingMatchingIs DEF ListingSteadyMatch
  <1>13. ListingLoadsSent /\ ListingAwaitedOne
    BY <1>5, <1>7, <1>8 DEF ListingLoadsSent, ListingAwaitedOne
  <1>14. ListingAsks(s) /\ ListingAwaited(s)
    BY <1>7, <1>8 DEF ListingAsks, ListingAwaited
  <1>15. ListingAwaitedFit /\ ListingCoveredSoFar
    BY <1>5, <1>7, <1>14 DEF ListingAwaitedFit, ListingCoveredSoFar
  <1> QED
    BY <1>10, <1>11, <1>12, <1>13, <1>15 DEF ListingInv

LEMMA ListingSteps == ASSUME ListingInv, Listing!Next PROVE ListingInv'
  <1>1. CASE \E r \in Listed, v \in Sought : Listing!Create(r, v)
    BY <1>1, ListingCreateKeeps
  <1>2. CASE \E r \in Listed, v \in Sought \cup {"hidden"} : Listing!Change(r, v)
    BY <1>2, ListingChangeKeeps
  <1>3. CASE \E p \in Listing!Plans : Listing!PlanChanges(p)
    BY <1>3, ListingPlanChangesKeeps
  <1>4. CASE \E filter \in Listing!Filters : Listing!ChooseChip(filter) \/ Listing!ChooseFilter(filter)
    <2>1. PICK filter \in Listing!Filters : Listing!FirstPage(filter, TRUE) \/ Listing!FirstPage(filter, FALSE)
      BY <1>4 DEF Listing!ChooseChip, Listing!ChooseFilter
    <2>2. \E emptied \in BOOLEAN : Listing!FirstPage(filter, emptied)
      BY <2>1
    <2> QED
      BY <2>2, ListingFirstPageKeeps
  <1>5. CASE Listing!Refresh
    <2>1. PICK filter \in Listing!Filters : Listing!FirstPage(filter, FALSE)
      BY <1>5 DEF Listing!Refresh, ListingInv, Listing!TypeOK, Listing!Screen
    <2>2. \E emptied \in BOOLEAN : Listing!FirstPage(filter, emptied)
      BY <2>1
    <2> QED
      BY <2>2, ListingFirstPageKeeps
  <1>6. CASE Listing!More
    BY <1>6, ListingMoreKeeps
  <1>7. CASE \E f \in flights : Listing!Query(f) \/ Listing!Answer(f) \/ Listing!Lose(f) \/ Listing!Refuse(f)
    BY <1>7, ListingQueryKeeps, ListingAnswerKeeps, ListingLoseKeeps, ListingRefuseKeeps
  <1> QED
    BY <1>1, <1>2, <1>3, <1>4, <1>5, <1>6, <1>7 DEF Listing!Next

LEMMA ListingShows == ASSUME ListingInv PROVE Listing!TypeOK /\ Listing!ShowsWhatWasAsked
  <1>1. ASSUME screen.whole, screen.cursor = Listing!None,
               IF screen.kind = "table" THEN ~Listing!Loading ELSE flights = {}
        PROVE  steady \subseteq screen.items /\ screen.items \subseteq ever /\ ~screen.twice
    <2>1. \A f \in flights : ~ListingAwaited(f)
      BY <1>1 DEF ListingAwaited, Listing!Loading
    <2>2. ListingCovered
      BY <1>1, <2>1 DEF ListingInv, ListingCoveredSoFar
    <2> QED
      BY <1>1, <2>2 DEF ListingCovered, ListingLeft
  <1> QED
    BY <1>1 DEF ListingInv, Listing!ShowsWhatWasAsked

-----------------------------------------------------------------------------
(* One's posts (Posts): a request is about a post there is, or has what a new one needs. *)

\* A request is about a post there is, or has what a new one needs.
PostingFits(c) ==
           /\ c.op \notin {"CREATE", "MINE"} => c.post \in Things /\ Posting!Exists(c.post)
           /\ c.op \in {"CREATE", "LEVEL"} => c.level \in Levels
           /\ c.op = "CREATE" => c.scope \in Scopes /\ c.at # "read"
           /\ c.op = "MINE" => c.at \notin {"dup", "write"}

PostingCallsFit == \A c \in postCalls : PostingFits(c)

\* So is what a device shows.
PostingStands(dev) ==
    /\ dev.screen = "post" => dev.post \in Things /\ Posting!Exists(dev.post)
    /\ dev.screen = "form" => dev.scope \in Scopes

PostingDevicesStand == \A d \in Pair : PostingStands(devices[d])

PostingInv == Posting!TypeOK /\ Posting!OneActivePost /\ Posting!HistoryTellsLevel /\ PostingCallsFit /\ PostingDevicesStand

-----------------------------------------------------------------------------
(* Rows and requests *)

LEMMA PostingRowsAre ==
    ASSUME Posting!TypeOK
    PROVE  /\ \A p \in Things : posts[p] \in Posting!Row \cup {Posting!Absent}
           /\ \A p \in Things : Posting!Exists(p) <=> posts[p] \in Posting!Row
           /\ Posting!Absent \notin Posting!Row
  <1>1. Posting!Absent \notin Posting!Row
    BY DEF Posting!Absent, Posting!Row, Posting!Statuses, Posting!None
  <1> QED
    BY <1>1 DEF Posting!TypeOK, Posting!Exists

\* A screen moves on, and rows stay.
LEMMA PostingSettled ==
    ASSUME PostingInv, UNCHANGED <<posts, history>>, postsSent' \in 0..MaxWritten,
           postCalls' \subseteq Posting!Call, \A c \in postCalls' : PostingFits(c),
           devices' \in [Pair -> Posting!Device], \A d \in Pair : PostingStands(devices'[d])
    PROVE  PostingInv'
  <1>1. Posting!TypeOK'
    BY DEF PostingInv, Posting!TypeOK
  <1>2. Posting!OneActivePost'
    BY DEF PostingInv, Posting!OneActivePost
  <1>3. \A p : Posting!Exists(p)' <=> Posting!Exists(p)
    BY DEF Posting!Exists
  <1>4. Posting!HistoryTellsLevel'
    BY <1>3 DEF PostingInv, Posting!HistoryTellsLevel
  <1>5. \A c : PostingFits(c)' <=> PostingFits(c)
    BY <1>3 DEF PostingFits
  <1>6. \A d \in Pair : PostingStands(devices[d])'
    BY <1>3 DEF PostingStands
  <1> QED
    BY <1>1, <1>2, <1>4, <1>5, <1>6 DEF PostingInv, PostingCallsFit, PostingDevicesStand

LEMMA PostingAnswered ==
    ASSUME PostingInv, NEW c \in postCalls, NEW e \in Posting!Call, PostingFits(e),
           Posting!Becomes(c, e), UNCHANGED <<posts, history>>
    PROVE  PostingInv'
  <1>1. postCalls' = (postCalls \ {c}) \cup {e} /\ devices' = devices /\ postsSent' = postsSent
    BY DEF Posting!Becomes
  <1>2. postCalls' \subseteq Posting!Call /\ \A g \in postCalls' : PostingFits(g)
    BY <1>1 DEF PostingInv, Posting!TypeOK, PostingCallsFit
  <1> QED
    BY <1>1, <1>2, PostingSettled DEF PostingInv, Posting!TypeOK, PostingDevicesStand

\* What a request becomes on its way.
LEMMA PostingOnItsWay ==
    ASSUME NEW c \in Posting!Call, PostingFits(c), NEW at \in {"dup", "write", "answer"},
           NEW row \in Posting!Row \cup {Posting!Absent},
           NEW result \in {"ok", "refused", "DUPLICATE"},
           c.op # "MINE"
    PROVE  /\ Posting!Goes(c, at) \in Posting!Call /\ PostingFits(Posting!Goes(c, at))
           /\ [Posting!Goes(c, at) EXCEPT !.seen = row] \in Posting!Call
           /\ PostingFits([Posting!Goes(c, at) EXCEPT !.seen = row])
           /\ Posting!Done(c, result, row) \in Posting!Call
           /\ PostingFits(Posting!Done(c, result, row))
  <1>1. PICK e : e = Posting!Goes(c, at)
    OBVIOUS
  <1>2. /\ e \in Posting!Call /\ e.op = c.op /\ e.post = c.post /\ e.level = c.level
        /\ e.scope = c.scope /\ e.at = at
    BY <1>1 DEF Posting!Goes, Posting!Call
  <1>3. PostingFits(e)
    BY <1>2 DEF PostingFits
  <1>4. PICK f : f = [e EXCEPT !.seen = row]
    OBVIOUS
  <1>5. /\ f \in Posting!Call /\ f.op = c.op /\ f.post = c.post /\ f.level = c.level
        /\ f.scope = c.scope /\ f.at = at
    BY <1>2, <1>4 DEF Posting!Call
  <1>6. PostingFits(f)
    BY <1>5 DEF PostingFits
  <1>7. PICK g : g = Posting!Done(c, result, row)
    OBVIOUS
  <1>8. /\ g \in Posting!Call /\ g.op = c.op /\ g.post = c.post /\ g.level = c.level
        /\ g.scope = c.scope
        /\ g.at = "answer"
    BY <1>7 DEF Posting!Done, Posting!Call
  <1>9. PostingFits(g)
    BY <1>8 DEF PostingFits
  <1> QED
    BY <1>1, <1>2, <1>3, <1>4, <1>5, <1>6, <1>7, <1>8, <1>9

LEMMA PostingReadKeeps ==
    ASSUME PostingInv, NEW c \in postCalls, Posting!Read(c)
    PROVE  PostingInv'
  <1>1. /\ c \in Posting!Call /\ PostingFits(c) /\ c.op # "MINE" /\ c.op # "CREATE"
        /\ c.post \in Things
    BY DEF PostingInv, Posting!TypeOK, PostingCallsFit, PostingFits, Posting!Read
  <1>2. PICK row \in Posting!Row \cup {Posting!Absent} : row = posts[c.post]
    BY <1>1, PostingRowsAre DEF PostingInv
  <1>3. /\ Posting!Done(c, "refused", row) \in Posting!Call
        /\ PostingFits(Posting!Done(c, "refused", row))
        /\ Posting!Done(c, "ok", row) \in Posting!Call /\ PostingFits(Posting!Done(c, "ok", row))
        /\ [Posting!Goes(c, "dup") EXCEPT !.seen = row] \in Posting!Call
        /\ PostingFits([Posting!Goes(c, "dup") EXCEPT !.seen = row])
        /\ [Posting!Goes(c, "write") EXCEPT !.seen = row] \in Posting!Call
        /\ PostingFits([Posting!Goes(c, "write") EXCEPT !.seen = row])
    BY <1>1, PostingOnItsWay
  <1>4. \E e \in Posting!Call : PostingFits(e) /\ Posting!Becomes(c, e)
    <2>1. CASE ~Posting!Allowed(c.op, row)
      BY <1>2, <1>3, <2>1 DEF Posting!Read
    <2>2. CASE Posting!Allowed(c.op, row) /\ (c.op = "GET" \/ (c.op = "LEVEL" /\ row.level = c.level))
      <3>1. Posting!Becomes(c, Posting!Done(c, "ok", row))
        BY <1>2, <2>2 DEF Posting!Read
      <3> QED
        BY <1>3, <3>1
    <2>3. CASE Posting!Allowed(c.op, row) /\ c.op = "RESUME"
      <3>1. Posting!Becomes(c, [Posting!Goes(c, "dup") EXCEPT !.seen = row])
        BY <1>2, <2>3 DEF Posting!Read
      <3> QED
        BY <1>3, <3>1
    <2>4. CASE Posting!Allowed(c.op, row) /\ c.op # "RESUME"
               /\ ~(c.op = "GET" \/ (c.op = "LEVEL" /\ row.level = c.level))
      <3>1. Posting!Becomes(c, [Posting!Goes(c, "write") EXCEPT !.seen = row])
        BY <1>2, <2>4 DEF Posting!Read
      <3> QED
        BY <1>3, <3>1
    <2> QED
      BY <2>1, <2>2, <2>3, <2>4
  <1>5. UNCHANGED <<posts, history>>
    BY DEF Posting!Read
  <1> QED
    BY <1>4, <1>5, PostingAnswered

LEMMA PostingMineKeeps ==
    ASSUME PostingInv, NEW c \in postCalls, Posting!Mine(c)
    PROVE  PostingInv'
  <1>1. c \in Posting!Call /\ PostingFits(c) /\ c.op = "MINE"
    BY DEF PostingInv, Posting!TypeOK, PostingCallsFit, Posting!Mine
  <1>2. CASE \E p \in Posting!ActiveElsewhere(Posting!None, c.scope) : Posting!Becomes(c, [Posting!Done(c, "ok", posts[p]) EXCEPT !.post = p])
    <2>1. PICK p \in Posting!ActiveElsewhere(Posting!None, c.scope) : Posting!Becomes(c, [Posting!Done(c, "ok", posts[p]) EXCEPT !.post = p])
      BY <1>2
    <2>2. p \in Things
      BY <2>1 DEF Posting!ActiveElsewhere
    <2>3. PICK row \in Posting!Row \cup {Posting!Absent} : row = posts[p]
      BY <2>2, PostingRowsAre DEF PostingInv
    <2>4. PICK e : e = [Posting!Done(c, "ok", row) EXCEPT !.post = p]
      OBVIOUS
    <2>5. e \in Posting!Call /\ e.op = "MINE" /\ e.at = "answer"
      BY <1>1, <2>2, <2>4 DEF Posting!Done, Posting!Call
    <2>6. PostingFits(e)
      BY <2>5 DEF PostingFits
    <2> QED
      BY <2>1, <2>3, <2>4, <2>5, <2>6, PostingAnswered DEF Posting!Mine
  <1>3. CASE Posting!Becomes(c, Posting!Done(c, "ok", Posting!Absent))
    <2>1. PICK e : e = Posting!Done(c, "ok", Posting!Absent)
      OBVIOUS
    <2>2. e \in Posting!Call /\ e.op = "MINE" /\ e.at = "answer"
      BY <1>1, <2>1 DEF Posting!Done, Posting!Call
    <2>3. PostingFits(e)
      BY <2>2 DEF PostingFits
    <2> QED
      BY <1>3, <2>1, <2>2, <2>3, PostingAnswered DEF Posting!Mine
  <1> QED
    BY <1>2, <1>3 DEF Posting!Mine

LEMMA PostingCheckDuplicateKeeps ==
    ASSUME PostingInv, NEW c \in postCalls, Posting!CheckDuplicate(c)
    PROVE  PostingInv'
  <1>1. c \in Posting!Call /\ PostingFits(c) /\ c.op # "MINE"
    BY DEF PostingInv, Posting!TypeOK, PostingCallsFit, PostingFits, Posting!CheckDuplicate
  <1>2. /\ Posting!Goes(c, "write") \in Posting!Call /\ PostingFits(Posting!Goes(c, "write"))
        /\ Posting!Done(c, "DUPLICATE", Posting!Absent) \in Posting!Call
        /\ PostingFits(Posting!Done(c, "DUPLICATE", Posting!Absent))
    BY <1>1, PostingOnItsWay
  <1>3. Posting!Becomes(c, Posting!Goes(c, "write")) \/ Posting!Becomes(c, Posting!Done(c, "DUPLICATE", Posting!Absent))
    <2>1. PICK scope : scope = IF c.op = "CREATE" THEN c.scope ELSE c.seen.scope
      OBVIOUS
    <2>2. CASE Posting!ActiveElsewhere(c.post, scope) = {}
      BY <2>1, <2>2 DEF Posting!CheckDuplicate
    <2>3. CASE Posting!ActiveElsewhere(c.post, scope) # {}
      BY <2>1, <2>3 DEF Posting!CheckDuplicate
    <2> QED
      BY <2>2, <2>3
  <1>4. UNCHANGED <<posts, history>>
    BY DEF Posting!CheckDuplicate
  <1> QED
    BY <1>2, <1>3, <1>4, PostingAnswered

-----------------------------------------------------------------------------
(* Rows change *)

\* One row is written, with the history of its level.
LEMMA PostingWritten ==
    ASSUME PostingInv, NEW p \in Things, NEW row \in Posting!Row, Posting!Unique(p, row),
           posts' = [posts EXCEPT ![p] = row],
           NEW h \in Seq(Posting!Change), history' = [history EXCEPT ![p] = h],
           h[Len(h)].newLevel = row.level,
           NEW c \in postCalls, NEW e \in Posting!Call, PostingFits(c) => PostingFits(e)', Posting!Becomes(c, e)
    PROVE  PostingInv'
  <1>1. /\ Posting!TypeOK /\ Posting!OneActivePost /\ Posting!HistoryTellsLevel /\ PostingCallsFit
        /\ PostingDevicesStand
    BY DEF PostingInv
  <1>2. postCalls' = (postCalls \ {c}) \cup {e} /\ devices' = devices /\ postsSent' = postsSent
    BY DEF Posting!Becomes
  <1>3. posts'[p] = row /\ \A q \in Things \ {p} : posts'[q] = posts[q]
    BY <1>1 DEF Posting!TypeOK
  <1>4. Posting!TypeOK'
    BY <1>1, <1>2 DEF Posting!TypeOK
  <1>5. Posting!OneActivePost'
    <2>1. row.status = "ACTIVE" => \A q \in Things \ {p} : ~(posts[q].scope = row.scope /\ posts[q].status = "ACTIVE")
      BY DEF Posting!Unique, Posting!ActiveElsewhere
    <2> QED
      BY <1>1, <1>3, <2>1 DEF Posting!OneActivePost
  <1>6. \A q \in Things : Posting!Exists(q) => Posting!Exists(q)'
    <2>1. row # Posting!Absent
      BY <1>1, PostingRowsAre
    <2> QED
      BY <1>3, <2>1 DEF Posting!Exists
  <1>7. Posting!HistoryTellsLevel'
    <2>1. ASSUME NEW q \in Things, Posting!Exists(q)'
          PROVE  (history[q][Len(history[q])].newLevel = posts[q].level)'
      <3>1. CASE q = p
        <4>1. history'[q] = h
          BY <1>1, <3>1 DEF Posting!TypeOK
        <4> QED
          BY <1>3, <3>1, <4>1
      <3>2. CASE q # p
        <4>1. history'[q] = history[q] /\ posts'[q] = posts[q]
          BY <1>1, <1>3, <3>2 DEF Posting!TypeOK
        <4>2. Posting!Exists(q)
          BY <2>1, <4>1 DEF Posting!Exists
        <4> QED
          BY <1>1, <4>1, <4>2 DEF Posting!HistoryTellsLevel
      <3> QED
        BY <3>1, <3>2
    <2> QED
      BY <2>1 DEF Posting!HistoryTellsLevel
  <1>8. PostingCallsFit'
    <2>1. \A g \in postCalls : PostingFits(g)'
      BY <1>1, <1>6 DEF PostingCallsFit, PostingFits
    <2> QED
      BY <1>1, <1>2, <2>1 DEF PostingCallsFit
  <1>9. PostingDevicesStand'
    BY <1>1, <1>2, <1>6 DEF PostingDevicesStand, PostingStands
  <1> QED
    BY <1>4, <1>5, <1>7, <1>8, <1>9 DEF PostingInv

LEMMA PostingInsertKeeps ==
    ASSUME PostingInv, NEW c \in postCalls, Posting!Insert(c)
    PROVE  PostingInv'
  <1>1. /\ c \in Posting!Call /\ PostingFits(c) /\ c.op = "CREATE" /\ c.scope \in Scopes
        /\ c.level \in Levels
    BY DEF PostingInv, Posting!TypeOK, PostingCallsFit, PostingFits, Posting!Insert
  <1>2. PICK row : row = [scope |-> c.scope, status |-> "ACTIVE", level |-> c.level, closedAt |-> FALSE]
    OBVIOUS
  <1>3. row \in Posting!Row /\ row.level = c.level
    BY <1>1, <1>2 DEF Posting!Row, Posting!Statuses
  <1>4. PICK p \in Things :
          \/ /\ Posting!Unique(p, row) /\ posts' = [posts EXCEPT ![p] = row]
             /\ history' = [history EXCEPT ![p] = <<[previousLevel |-> Posting!None, newLevel |-> c.level]>>]
             /\ Posting!Becomes(c, [Posting!Done(c, "ok", row) EXCEPT !.post = p])
          \/ Posting!Becomes(c, Posting!Done(c, "refused", Posting!Absent)) /\ UNCHANGED <<posts, history>>
    BY <1>2 DEF Posting!Insert
  <1>5. CASE /\ Posting!Unique(p, row) /\ posts' = [posts EXCEPT ![p] = row]
             /\ history' = [history EXCEPT ![p] = <<[previousLevel |-> Posting!None, newLevel |-> c.level]>>]
             /\ Posting!Becomes(c, [Posting!Done(c, "ok", row) EXCEPT !.post = p])
    <2>1. PICK change : change = [previousLevel |-> Posting!None, newLevel |-> c.level]
      OBVIOUS
    <2>2. change \in Posting!Change /\ change.newLevel = row.level
      BY <1>1, <1>3, <2>1 DEF Posting!Change
    <2>3. PICK h : h = <<change>>
      OBVIOUS
    <2>4. h \in Seq(Posting!Change) /\ h[Len(h)] = change
      BY <2>2, <2>3
    <2>5. PICK e : e = [Posting!Done(c, "ok", row) EXCEPT !.post = p]
      OBVIOUS
    <2>6. /\ e \in Posting!Call /\ e.op = "CREATE" /\ e.level = c.level /\ e.scope = c.scope
          /\ e.at = "answer"
      BY <1>1, <1>3, <2>5 DEF Posting!Done, Posting!Call
    <2>7. PostingFits(e)'
      BY <1>1, <2>6 DEF PostingFits
    <2> QED
      BY <1>3, <1>5, <2>1, <2>2, <2>3, <2>4, <2>5, <2>6, <2>7, PostingWritten
  <1>6. CASE Posting!Becomes(c, Posting!Done(c, "refused", Posting!Absent)) /\ UNCHANGED <<posts, history>>
    <2>1. /\ Posting!Done(c, "refused", Posting!Absent) \in Posting!Call
          /\ PostingFits(Posting!Done(c, "refused", Posting!Absent))
      BY <1>1, PostingOnItsWay
    <2> QED
      BY <1>6, <2>1, PostingAnswered
  <1> QED
    BY <1>4, <1>5, <1>6

\* What update() sets leaves a row a row, and its level but for LEVEL.
LEMMA PostingUpdatedIs ==
    ASSUME NEW row \in Posting!Row, NEW op \in Posting!Ops, NEW level,
           op = "LEVEL" => level \in Levels, NEW new,
           new = Posting!Updated(op, row, level)
    PROVE  /\ new \in Posting!Row
           /\ op = "LEVEL" => new.level = level
           /\ op # "LEVEL" => new.level = row.level
  <1>1. CASE op = "LEVEL"
    BY <1>1 DEF Posting!Updated, Posting!Row
  <1>2. CASE op = "PAUSE"
    BY <1>2 DEF Posting!Updated, Posting!Row, Posting!Statuses
  <1>3. CASE op = "RESUME"
    BY <1>3 DEF Posting!Updated, Posting!Row, Posting!Statuses
  <1>4. CASE op = "CLOSE"
    BY <1>4 DEF Posting!Updated, Posting!Row, Posting!Statuses
  <1>5. CASE op \notin {"LEVEL", "PAUSE", "RESUME", "CLOSE"}
    BY <1>5 DEF Posting!Updated, Posting!Row
  <1> QED
    BY <1>1, <1>2, <1>3, <1>4, <1>5

LEMMA PostingUpdateKeeps ==
    ASSUME PostingInv, NEW c \in postCalls, Posting!Update(c)
    PROVE  PostingInv'
  <1>1. /\ c \in Posting!Call /\ PostingFits(c) /\ c.op \notin {"CREATE", "MINE"}
        /\ c.post \in Things /\ Posting!Exists(c.post) /\ c.op \in Posting!Ops
    BY DEF PostingInv, Posting!TypeOK, PostingCallsFit, PostingFits, Posting!Update, Posting!Call
  <1>2. posts[c.post] \in Posting!Row
    BY <1>1, PostingRowsAre DEF PostingInv
  <1>3. PICK row : row = Posting!Updated(c.op, posts[c.post], c.level)
    OBVIOUS
  <1>4. /\ row \in Posting!Row
        /\ c.op = "LEVEL" => row.level = c.level
        /\ c.op # "LEVEL" => row.level = posts[c.post].level
    BY <1>1, <1>2, <1>3, PostingUpdatedIs DEF PostingFits
  <1>5. \/ /\ Posting!Unique(c.post, row) /\ posts' = [posts EXCEPT ![c.post] = row] /\ history' = Posting!Recorded(c)
           /\ Posting!Becomes(c, Posting!Done(c, "ok", row))
        \/ Posting!Becomes(c, Posting!Done(c, "refused", Posting!Absent)) /\ UNCHANGED <<posts, history>>
    BY <1>3 DEF Posting!Update
  <1>6. CASE /\ Posting!Unique(c.post, row) /\ posts' = [posts EXCEPT ![c.post] = row] /\ history' = Posting!Recorded(c)
             /\ Posting!Becomes(c, Posting!Done(c, "ok", row))
    <2>1. history \in [Things -> Seq(Posting!Change)] /\ history[c.post] \in Seq(Posting!Change)
      BY <1>1 DEF PostingInv, Posting!TypeOK
    <2>2. PICK h \in Seq(Posting!Change) : history' = [history EXCEPT ![c.post] = h] /\ h[Len(h)].newLevel = row.level
      <3>1. CASE c.op = "LEVEL"
        <4>1. PICK change : change = [previousLevel |-> c.seen.level, newLevel |-> c.level]
          OBVIOUS
        <4>2. c.seen.level \in Levels \cup {Posting!None} /\ c.level \in Levels
          BY <1>1, <3>1 DEF Posting!Call, Posting!Row, Posting!Absent, PostingFits
        <4>3. change \in Posting!Change /\ change.newLevel = c.level
          BY <4>1, <4>2 DEF Posting!Change
        <4>4. PICK h : h = Append(history[c.post], change)
          OBVIOUS
        <4>5. h \in Seq(Posting!Change) /\ h[Len(h)] = change
          BY <2>1, <4>3, <4>4
        <4>6. history' = [history EXCEPT ![c.post] = h]
          BY <1>6, <3>1, <4>1, <4>4 DEF Posting!Recorded
        <4> QED
          BY <1>4, <3>1, <4>3, <4>5, <4>6
      <3>2. CASE c.op # "LEVEL"
        <4>1. history' = history
          BY <1>6, <3>2 DEF Posting!Recorded
        <4>2. history' = [history EXCEPT ![c.post] = history[c.post]]
          BY <2>1, <4>1
        <4>3. history[c.post][Len(history[c.post])].newLevel = row.level
          BY <1>1, <1>4, <3>2 DEF PostingInv, Posting!HistoryTellsLevel
        <4> QED
          BY <2>1, <4>2, <4>3
      <3> QED
        BY <3>1, <3>2
    <2>3. PICK e : e = Posting!Done(c, "ok", row)
      OBVIOUS
    <2>4. /\ e \in Posting!Call /\ e.op = c.op /\ e.post = c.post /\ e.level = c.level
          /\ e.scope = c.scope /\ e.at = "answer"
      BY <1>1, <1>4, <2>3 DEF Posting!Done, Posting!Call
    <2>5. Posting!Exists(c.post)'
      <3>1. posts'[c.post] = row /\ row # Posting!Absent
        BY <1>1, <1>4, <1>6, PostingRowsAre DEF PostingInv, Posting!TypeOK
      <3> QED
        BY <3>1 DEF Posting!Exists
    <2>6. PostingFits(e)'
      BY <1>1, <2>4, <2>5 DEF PostingFits
    <2> QED
      BY <1>1, <1>4, <1>6, <2>2, <2>3, <2>4, <2>6, PostingWritten
  <1>7. CASE Posting!Becomes(c, Posting!Done(c, "refused", Posting!Absent)) /\ UNCHANGED <<posts, history>>
    <2>1. /\ Posting!Done(c, "refused", Posting!Absent) \in Posting!Call
          /\ PostingFits(Posting!Done(c, "refused", Posting!Absent))
      BY <1>1, PostingOnItsWay
    <2> QED
      BY <1>7, <2>1, PostingAnswered
  <1> QED
    BY <1>5, <1>6, <1>7

-----------------------------------------------------------------------------
(* Requests are sent *)

LEMMA PostingRequestIs ==
    ASSUME PostingInv, postsSent < MaxWritten, NEW d \in Pair \cup {Posting!None},
           NEW op \in Posting!Ops, NEW p \in Things \cup {Posting!None},
           NEW scope \in Scopes \cup {Posting!None}, NEW level \in Levels \cup {Posting!None},
           op \notin {"CREATE", "MINE"} => p \in Things /\ Posting!Exists(p),
           op \in {"CREATE", "LEVEL"} => level \in Levels,
           op = "CREATE" => scope \in Scopes
    PROVE  /\ Posting!Request(d, op, p, scope, level) \in Posting!Call
           /\ PostingFits(Posting!Request(d, op, p, scope, level))
           /\ postsSent + 1 \in 0..MaxWritten
  <1>1. postsSent \in Nat /\ postsSent + 1 \in 1..MaxWritten /\ postsSent + 1 \in 0..MaxWritten
    BY PostingAssumption DEF PostingInv, Posting!TypeOK
  <1>2. PICK at \in {"dup", "read"} : at = IF op = "CREATE" THEN "dup" ELSE "read"
    OBVIOUS
  <1>3. PICK r : r = Posting!Request(d, op, p, scope, level)
    OBVIOUS
  <1>4. r = [n |-> postsSent + 1, device |-> d, op |-> op, post |-> p, scope |-> scope, level |-> level,
             at |-> at, seen |-> Posting!Absent, result |-> Posting!None]
    BY <1>2, <1>3 DEF Posting!Request
  <1>5. r \in Posting!Call
    BY <1>1, <1>4 DEF Posting!Call
  <1>6. r.op = op /\ r.post = p /\ r.level = level /\ r.scope = scope /\ r.at = at
    BY <1>4
  <1>7. PostingFits(r)
    BY <1>2, <1>6 DEF PostingFits
  <1> QED
    BY <1>1, <1>3, <1>5, <1>7

LEMMA PostingCallsAre ==
    ASSUME PostingInv
    PROVE  postCalls \subseteq Posting!Call /\ \A c \in postCalls : PostingFits(c)
  BY DEF PostingInv, Posting!TypeOK, PostingCallsFit

LEMMA PostingDevicesAre ==
    ASSUME PostingInv
    PROVE  /\ devices \in [Pair -> Posting!Device] /\ \A d \in Pair : devices[d] \in Posting!Device /\ PostingStands(devices[d])
  BY DEF PostingInv, Posting!TypeOK, PostingDevicesStand

\* A device changes, and no more requests than may be are under way.
LEMMA PostingDeviceChanges ==
    ASSUME PostingInv, NEW d \in Pair, NEW dev \in Posting!Device, PostingStands(dev),
           Posting!Set(d, dev),
           UNCHANGED <<posts, history>>, postsSent' \in 0..MaxWritten,
           postCalls' \subseteq Posting!Call, \A c \in postCalls' : PostingFits(c)
    PROVE  PostingInv'
  <1>1. devices' = [devices EXCEPT ![d] = dev]
    BY DEF Posting!Set
  <1>2. devices' \in [Pair -> Posting!Device] /\ \A e \in Pair : PostingStands(devices'[e])
    BY <1>1, PostingDevicesAre
  <1> QED
    BY <1>2, PostingSettled

LEMMA PostingDroppedIs ==
    ASSUME PostingInv, NEW d
    PROVE  Posting!Dropped(d) \subseteq Posting!Call /\ \A c \in Posting!Dropped(d) : PostingFits(c)
  <1>1. ASSUME NEW c \in postCalls
        PROVE  /\ [c EXCEPT !.device = Posting!None] \in Posting!Call
               /\ PostingFits([c EXCEPT !.device = Posting!None])
    <2>1. c \in Posting!Call /\ PostingFits(c)
      BY PostingCallsAre
    <2>2. PICK e : e = [c EXCEPT !.device = Posting!None]
      OBVIOUS
    <2>3. /\ e \in Posting!Call /\ e.op = c.op /\ e.post = c.post /\ e.level = c.level
          /\ e.scope = c.scope /\ e.at = c.at
      BY <2>1, <2>2 DEF Posting!Call
    <2>4. PostingFits(e)
      BY <2>1, <2>3 DEF PostingFits
    <2> QED
      BY <2>2, <2>3, <2>4
  <1> QED
    BY <1>1, PostingCallsAre DEF Posting!Dropped

LEMMA PostingCloseIntentKeeps ==
    ASSUME PostingInv, NEW p \in Things, Posting!CloseIntent(p)
    PROVE  PostingInv'
  <1>1. Posting!Exists(p)
    <2>1. ~Posting!Editable(Posting!Absent)
      BY DEF Posting!Editable, Posting!Absent, Posting!None
    <2> QED
      BY <2>1 DEF Posting!CloseIntent, Posting!Exists
  <1>2. PICK r : r = Posting!Request(Posting!None, "CLOSE", p, Posting!None, Posting!None)
    OBVIOUS
  <1>3. postsSent < MaxWritten /\ postsSent' = postsSent + 1 /\ postCalls' = postCalls \cup {r}
        /\ UNCHANGED <<posts, history, devices>>
    BY <1>2 DEF Posting!CloseIntent, Posting!Send
  <1>4. r \in Posting!Call /\ PostingFits(r) /\ postsSent + 1 \in 0..MaxWritten
    BY <1>1, <1>2, <1>3, PostingRequestIs DEF Posting!Ops
  <1> QED
    BY <1>3, <1>4, PostingCallsAre, PostingDevicesAre, PostingSettled

-----------------------------------------------------------------------------
(* The devices *)

LEMMA PostingOpenFormKeeps ==
    ASSUME PostingInv, NEW d \in Pair, NEW scope \in Scopes, Posting!OpenForm(d, scope)
    PROVE  PostingInv'
  <1>1. PICK dev : dev = [devices[d] EXCEPT !.screen = "form", !.scope = scope]
    OBVIOUS
  <1>2. devices[d] \in Posting!Device
    BY PostingDevicesAre
  <1>3. dev \in Posting!Device /\ dev.screen = "form" /\ dev.scope = scope
    BY <1>1, <1>2 DEF Posting!Device
  <1>4. PostingStands(dev)
    BY <1>3 DEF PostingStands
  <1>5. Posting!Set(d, dev) /\ UNCHANGED <<posts, history, postCalls, postsSent>>
    BY <1>1 DEF Posting!OpenForm
  <1> QED
    BY <1>3, <1>4, <1>5, PostingCallsAre, PostingDeviceChanges DEF PostingInv, Posting!TypeOK

LEMMA PostingLeaveKeeps ==
    ASSUME PostingInv, NEW d \in Pair, Posting!Leave(d)
    PROVE  PostingInv'
  <1>1. PICK dev : dev = [devices[d] EXCEPT !.screen = "home", !.scope = Posting!None, !.post = Posting!None, !.shown = Posting!Absent,
                                            !.existing = Posting!None, !.busy = FALSE]
    OBVIOUS
  <1>2. devices[d] \in Posting!Device
    BY PostingDevicesAre
  <1>3. dev \in Posting!Device /\ dev.screen = "home"
    BY <1>1, <1>2 DEF Posting!Device
  <1>4. PostingStands(dev)
    BY <1>3 DEF PostingStands
  <1>5. /\ Posting!Set(d, dev) /\ postCalls' = Posting!Dropped(d)
        /\ UNCHANGED <<posts, history, postsSent>>
    BY <1>1 DEF Posting!Leave
  <1> QED
    BY <1>3, <1>4, <1>5, PostingDroppedIs, PostingDeviceChanges DEF PostingInv, Posting!TypeOK

LEMMA PostingKeepDraftKeeps ==
    ASSUME PostingInv, NEW d \in Pair, Posting!KeepDraft(d)
    PROVE  PostingInv'
  <1>1. PICK dev : dev = [devices[d] EXCEPT !.draft = devices[d].scope, !.screen = "signIn"]
    OBVIOUS
  <1>2. devices[d] \in Posting!Device
    BY PostingDevicesAre
  <1>3. dev \in Posting!Device /\ dev.screen = "signIn"
    BY <1>1, <1>2 DEF Posting!Device
  <1>4. PostingStands(dev)
    BY <1>3 DEF PostingStands
  <1>5. Posting!Set(d, dev) /\ UNCHANGED <<posts, history, postCalls, postsSent>>
    BY <1>1 DEF Posting!KeepDraft
  <1> QED
    BY <1>3, <1>4, <1>5, PostingCallsAre, PostingDeviceChanges DEF PostingInv, Posting!TypeOK

LEMMA PostingSignInKeeps ==
    ASSUME PostingInv, NEW d \in Pair, NEW level \in Levels, Posting!SignIn(d, level)
    PROVE  PostingInv'
  <1>1. PICK dev : dev = devices[d] /\ dev \in Posting!Device
    BY PostingDevicesAre
  <1>2. UNCHANGED <<posts, history>>
    BY DEF Posting!SignIn
  <1>3. CASE dev.draft = Posting!None
    <2>1. PICK new : new = [dev EXCEPT !.me = TRUE, !.screen = "home", !.scope = Posting!None]
      OBVIOUS
    <2>2. new \in Posting!Device /\ new.screen = "home"
      BY <1>1, <2>1 DEF Posting!Device
    <2>3. PostingStands(new)
      BY <2>2 DEF PostingStands
    <2>4. Posting!Set(d, new) /\ UNCHANGED <<postCalls, postsSent>>
      BY <1>1, <1>3, <2>1 DEF Posting!SignIn
    <2> QED
      BY <1>2, <2>2, <2>3, <2>4, PostingCallsAre, PostingDeviceChanges DEF PostingInv,
         Posting!TypeOK
  <1>4. CASE dev.draft # Posting!None
    <2>1. dev.draft \in Scopes
      BY <1>1, <1>4 DEF Posting!Device
    <2>2. PICK new : new = [dev EXCEPT !.me = TRUE, !.draft = Posting!None, !.screen = "form", !.scope = dev.draft,
                                       !.busy = TRUE]
      OBVIOUS
    <2>3. new \in Posting!Device /\ new.screen = "form" /\ new.scope = dev.draft
      BY <1>1, <2>1, <2>2 DEF Posting!Device
    <2>4. PostingStands(new)
      BY <2>1, <2>3 DEF PostingStands
    <2>5. Posting!Set(d, new) /\ Posting!Send(d, "CREATE", Posting!None, dev.draft, level)
      BY <1>1, <1>4, <2>2 DEF Posting!SignIn
    <2>6. PICK r : r = Posting!Request(d, "CREATE", Posting!None, dev.draft, level)
      OBVIOUS
    <2>7. postsSent < MaxWritten /\ postsSent' = postsSent + 1 /\ postCalls' = postCalls \cup {r}
      BY <2>5, <2>6 DEF Posting!Send
    <2>8. r \in Posting!Call /\ PostingFits(r) /\ postsSent + 1 \in 0..MaxWritten
      BY <2>1, <2>6, <2>7, PostingRequestIs DEF Posting!Ops
    <2>9. postCalls' \subseteq Posting!Call /\ \A c \in postCalls' : PostingFits(c)
      BY <2>7, <2>8, PostingCallsAre
    <2> QED
      BY <1>2, <2>3, <2>4, <2>5, <2>7, <2>8, <2>9, PostingDeviceChanges
  <1> QED
    BY <1>3, <1>4

LEMMA PostingCreateKeeps ==
    ASSUME PostingInv, NEW d \in Pair, NEW level \in Levels, Posting!Create(d, level)
    PROVE  PostingInv'
  <1>1. PICK dev : dev = devices[d] /\ dev \in Posting!Device /\ PostingStands(dev)
    BY PostingDevicesAre
  <1>2. PICK new : new = [dev EXCEPT !.busy = TRUE, !.existing = Posting!None]
    OBVIOUS
  <1>3. /\ dev.screen = "form" /\ Posting!Set(d, new)
        /\ Posting!Send(d, "CREATE", Posting!None, dev.scope, level)
        /\ UNCHANGED <<posts, history>>
    BY <1>1, <1>2 DEF Posting!Create
  <1>4. dev.scope \in Scopes
    BY <1>1, <1>3 DEF PostingStands
  <1>5. /\ new \in Posting!Device /\ new.screen = dev.screen /\ new.scope = dev.scope
        /\ new.post = dev.post
    BY <1>1, <1>2 DEF Posting!Device
  <1>6. PostingStands(new)
    BY <1>1, <1>5 DEF PostingStands
  <1>7. PICK r : r = Posting!Request(d, "CREATE", Posting!None, dev.scope, level)
    OBVIOUS
  <1>8. postsSent < MaxWritten /\ postsSent' = postsSent + 1 /\ postCalls' = postCalls \cup {r}
    BY <1>3, <1>7 DEF Posting!Send
  <1>9. r \in Posting!Call /\ PostingFits(r) /\ postsSent + 1 \in 0..MaxWritten
    BY <1>4, <1>7, <1>8, PostingRequestIs DEF Posting!Ops
  <1>10. postCalls' \subseteq Posting!Call /\ \A c \in postCalls' : PostingFits(c)
    BY <1>8, <1>9, PostingCallsAre
  <1> QED
    BY <1>3, <1>5, <1>6, <1>8, <1>9, <1>10, PostingDeviceChanges

LEMMA PostingOpenPostKeeps ==
    ASSUME PostingInv, NEW d \in Pair, NEW p \in Things, Posting!OpenPost(d, p)
    PROVE  PostingInv'
  <1>1. PICK dev : dev = devices[d] /\ dev \in Posting!Device
    BY PostingDevicesAre
  <1>2. PICK new : new = [dev EXCEPT !.screen = "post", !.post = p, !.scope = Posting!None, !.shown = Posting!Absent,
                                     !.existing = Posting!None, !.busy = FALSE]
    OBVIOUS
  <1>3. PICK r : r = Posting!Request(d, "GET", p, Posting!None, Posting!None)
    OBVIOUS
  <1>4. /\ Posting!Exists(p) /\ postsSent < MaxWritten /\ postsSent' = postsSent + 1
        /\ postCalls' = Posting!Dropped(d) \cup {r}
        /\ Posting!Set(d, new) /\ UNCHANGED <<posts, history>>
    BY <1>1, <1>2, <1>3 DEF Posting!OpenPost
  <1>5. new \in Posting!Device /\ new.screen = "post" /\ new.post = p
    BY <1>1, <1>2 DEF Posting!Device
  <1>6. PostingStands(new)
    BY <1>4, <1>5 DEF PostingStands
  <1>7. r \in Posting!Call /\ PostingFits(r) /\ postsSent + 1 \in 0..MaxWritten
    BY <1>3, <1>4, PostingRequestIs DEF Posting!Ops
  <1>8. postCalls' \subseteq Posting!Call /\ \A c \in postCalls' : PostingFits(c)
    BY <1>4, <1>7, PostingDroppedIs
  <1> QED
    BY <1>4, <1>5, <1>6, <1>7, <1>8, PostingDeviceChanges

LEMMA PostingRefreshKeeps ==
    ASSUME PostingInv, NEW d \in Pair, Posting!Refresh(d)
    PROVE  PostingInv'
  <1>1. PICK p : p = devices[d].post
    OBVIOUS
  <1>2. p \in Things /\ Posting!Exists(p)
    BY <1>1, PostingDevicesAre DEF Posting!Refresh, PostingStands
  <1>3. PICK r : r = Posting!Request(d, "GET", p, Posting!None, Posting!None)
    OBVIOUS
  <1>4. /\ postsSent < MaxWritten /\ postsSent' = postsSent + 1 /\ postCalls' = postCalls \cup {r}
        /\ UNCHANGED <<posts, history, devices>>
    BY <1>1, <1>3 DEF Posting!Refresh, Posting!Send
  <1>5. r \in Posting!Call /\ PostingFits(r) /\ postsSent + 1 \in 0..MaxWritten
    BY <1>2, <1>3, <1>4, PostingRequestIs DEF Posting!Ops
  <1> QED
    BY <1>4, <1>5, PostingCallsAre, PostingDevicesAre, PostingSettled

LEMMA PostingActKeeps ==
    ASSUME PostingInv, NEW d \in Pair, NEW op \in Posting!Ops, NEW level \in Levels,
           Posting!Act(d, op, level)
    PROVE  PostingInv'
  <1>1. PICK dev : dev = devices[d] /\ dev \in Posting!Device /\ PostingStands(dev)
    BY PostingDevicesAre
  <1>2. PICK new : new = [dev EXCEPT !.busy = TRUE]
    OBVIOUS
  <1>3. PICK written \in Levels \cup {Posting!None} : written = IF op = "LEVEL" THEN level ELSE Posting!None
    OBVIOUS
  <1>4. PICK r : r = Posting!Request(d, op, dev.post, Posting!None, written)
    OBVIOUS
  <1>5. /\ dev.screen = "post" /\ Posting!Set(d, new) /\ UNCHANGED <<posts, history>>
        /\ postsSent < MaxWritten /\ postsSent' = postsSent + 1 /\ postCalls' = postCalls \cup {r}
    BY <1>1, <1>2, <1>3, <1>4 DEF Posting!Act, Posting!Send
  <1>6. op \notin {"CREATE", "MINE"}
    BY <1>1 DEF Posting!Act
  <1>7. dev.post \in Things /\ Posting!Exists(dev.post)
    BY <1>1, <1>5 DEF PostingStands
  <1>8. /\ new \in Posting!Device /\ new.screen = dev.screen /\ new.scope = dev.scope
        /\ new.post = dev.post
    BY <1>1, <1>2 DEF Posting!Device
  <1>9. PostingStands(new)
    BY <1>1, <1>8 DEF PostingStands
  <1>10. r \in Posting!Call /\ PostingFits(r) /\ postsSent + 1 \in 0..MaxWritten
    BY <1>3, <1>4, <1>5, <1>6, <1>7, PostingRequestIs
  <1>11. postCalls' \subseteq Posting!Call /\ \A c \in postCalls' : PostingFits(c)
    BY <1>5, <1>10, PostingCallsAre
  <1> QED
    BY <1>5, <1>8, <1>9, <1>10, <1>11, PostingDeviceChanges

\* A device that stays on its screen, or is sent home.
LEMMA PostingStaysOrHome ==
    ASSUME NEW dev, PostingStands(dev), NEW new,
           \/ new.screen = dev.screen /\ new.scope = dev.scope /\ new.post = dev.post
           \/ new.screen = "home"
    PROVE  PostingStands(new)
  BY DEF PostingStands

LEMMA PostingAnswerFormKeeps ==
    ASSUME PostingInv, NEW c \in postCalls, c.device \in Pair, Posting!AnswerForm(c),
           UNCHANGED <<posts, history>>
    PROVE  PostingInv'
  <1>1. PICK d \in Pair : d = c.device
    OBVIOUS
  <1>2. PICK dev : dev = devices[d] /\ dev \in Posting!Device /\ PostingStands(dev)
    BY PostingDevicesAre
  <1>3. c \in Posting!Call /\ PostingFits(c) /\ postsSent \in 0..MaxWritten
    BY PostingCallsAre DEF PostingInv, Posting!TypeOK
  <1>4. ASSUME postCalls' = postCalls \ {c}
        PROVE  postCalls' \subseteq Posting!Call /\ \A e \in postCalls' : PostingFits(e)
    BY <1>4, PostingCallsAre
  <1>5. CASE c.op = "MINE"
    <2>1. PICK new : new = [dev EXCEPT !.existing = c.post]
      OBVIOUS
    <2>2. /\ new \in Posting!Device /\ new.screen = dev.screen /\ new.scope = dev.scope
          /\ new.post = dev.post
      BY <1>2, <1>3, <2>1 DEF Posting!Device, Posting!Call
    <2>3. Posting!Set(d, new) /\ postCalls' = postCalls \ {c} /\ UNCHANGED postsSent
      BY <1>1, <1>2, <1>5, <2>1 DEF Posting!AnswerForm
    <2> QED
      BY <1>2, <1>3, <1>4, <2>2, <2>3, PostingStaysOrHome, PostingDeviceChanges
  <1>6. CASE c.op = "CREATE" /\ c.result = "ok"
    <2>1. PICK new : new = [dev EXCEPT !.screen = "home", !.scope = Posting!None, !.existing = Posting!None, !.busy = FALSE]
      OBVIOUS
    <2>2. new \in Posting!Device /\ new.screen = "home"
      BY <1>2, <2>1 DEF Posting!Device
    <2>3. Posting!Set(d, new) /\ postCalls' = postCalls \ {c} /\ UNCHANGED postsSent
      BY <1>1, <1>2, <1>6, <2>1 DEF Posting!AnswerForm
    <2> QED
      BY <1>2, <1>3, <1>4, <2>2, <2>3, PostingStaysOrHome, PostingDeviceChanges
  <1>7. ASSUME NEW new, new = [dev EXCEPT !.busy = FALSE]
        PROVE  new \in Posting!Device /\ PostingStands(new)
    <2>1. /\ new \in Posting!Device /\ new.screen = dev.screen /\ new.scope = dev.scope
          /\ new.post = dev.post
      BY <1>2, <1>7 DEF Posting!Device
    <2> QED
      BY <1>2, <2>1, PostingStaysOrHome
  <1>8. CASE c.op = "CREATE" /\ c.result = "DUPLICATE" /\ postsSent < MaxWritten
    <2>1. PICK new : new = [dev EXCEPT !.busy = FALSE]
      OBVIOUS
    <2>2. PICK r : r = Posting!Request(d, "MINE", Posting!None, c.scope, Posting!None)
      OBVIOUS
    <2>3. /\ Posting!Set(d, new) /\ postCalls' = (postCalls \ {c}) \cup {r}
          /\ postsSent' = postsSent + 1
      BY <1>1, <1>2, <1>8, <2>1, <2>2 DEF Posting!AnswerForm
    <2>4. c.scope \in Scopes \cup {Posting!None}
      BY <1>3 DEF Posting!Call
    <2>5. r \in Posting!Call /\ PostingFits(r) /\ postsSent + 1 \in 0..MaxWritten
      BY <1>8, <2>2, <2>4, PostingRequestIs DEF Posting!Ops
    <2>6. postCalls' \subseteq Posting!Call /\ \A e \in postCalls' : PostingFits(e)
      BY <2>3, <2>5, PostingCallsAre
    <2> QED
      BY <1>7, <2>1, <2>3, <2>5, <2>6, PostingDeviceChanges
  <1>9. CASE /\ c.op # "MINE" /\ ~(c.op = "CREATE" /\ c.result = "ok")
             /\ ~(c.op = "CREATE" /\ c.result = "DUPLICATE" /\ postsSent < MaxWritten)
    <2>1. PICK new : new = [dev EXCEPT !.busy = FALSE]
      OBVIOUS
    <2>2. Posting!Set(d, new) /\ postCalls' = postCalls \ {c} /\ UNCHANGED postsSent
      BY <1>1, <1>2, <1>9, <2>1 DEF Posting!AnswerForm
    <2> QED
      BY <1>3, <1>4, <1>7, <2>1, <2>2, PostingDeviceChanges
  <1> QED
    BY <1>5, <1>6, <1>8, <1>9

LEMMA PostingAnswerKeeps ==
    ASSUME PostingInv, NEW c \in postCalls, Posting!Answer(c)
    PROVE  PostingInv'
  <1>1. /\ c \in Posting!Call /\ PostingFits(c) /\ postsSent \in 0..MaxWritten
        /\ UNCHANGED <<posts, history>>
    BY PostingCallsAre DEF PostingInv, Posting!TypeOK, Posting!Answer
  <1>2. ASSUME postCalls' = postCalls \ {c}
        PROVE  postCalls' \subseteq Posting!Call /\ \A e \in postCalls' : PostingFits(e)
    BY <1>2, PostingCallsAre
  <1>3. CASE c.device = Posting!None
    BY <1>1, <1>2, <1>3, PostingDevicesAre, PostingSettled DEF Posting!Answer
  <1>4. CASE c.device # Posting!None
    <2>1. c.device \in Pair
      BY <1>1, <1>4 DEF Posting!Call
    <2>2. CASE c.op \in {"CREATE", "MINE"}
      BY <1>1, <1>4, <2>1, <2>2, PostingAnswerFormKeeps DEF Posting!Answer
    <2>3. CASE c.op \notin {"CREATE", "MINE"}
      <3>1. PICK d \in Pair : d = c.device
        BY <2>1
      <3>2. PICK dev : dev = devices[d] /\ dev \in Posting!Device /\ PostingStands(dev)
        BY PostingDevicesAre
      <3>3. PICK shown \in Posting!Row \cup {Posting!Absent}, busy \in BOOLEAN :
              shown = (IF c.result = "ok" THEN c.seen ELSE dev.shown) /\ busy = (dev.busy /\ c.op = "GET")
        BY <1>1, <3>2 DEF Posting!Call, Posting!Device
      <3>4. PICK new : new = [dev EXCEPT !.shown = shown, !.busy = busy]
        OBVIOUS
      <3>5. /\ new \in Posting!Device /\ new.screen = dev.screen /\ new.scope = dev.scope
            /\ new.post = dev.post
        BY <3>2, <3>4 DEF Posting!Device
      <3>6. Posting!AnswerPost(c)
        BY <1>4, <2>3 DEF Posting!Answer
      <3>7. Posting!Set(d, new)
        BY <3>1, <3>2, <3>3, <3>4, <3>6 DEF Posting!AnswerPost, Posting!Device
      <3>8. postCalls' = postCalls \ {c} /\ UNCHANGED postsSent
        BY <3>6 DEF Posting!AnswerPost
      <3> QED
        BY <1>1, <1>2, <3>2, <3>5, <3>7, <3>8, PostingStaysOrHome, PostingDeviceChanges
    <2> QED
      BY <2>2, <2>3
  <1> QED
    BY <1>3, <1>4

LEMMA PostingLoseKeeps ==
    ASSUME PostingInv, NEW c \in postCalls, Posting!Lose(c)
    PROVE  PostingInv'
  <1>1. /\ c \in Posting!Call /\ PostingFits(c) /\ postsSent \in 0..MaxWritten
        /\ c.device # Posting!None
    BY PostingCallsAre DEF PostingInv, Posting!TypeOK, Posting!Lose
  <1>2. PICK d \in Pair : d = c.device
    BY <1>1 DEF Posting!Call
  <1>3. PICK dev : dev = devices[d] /\ dev \in Posting!Device /\ PostingStands(dev)
    BY PostingDevicesAre
  <1>4. PICK busy \in BOOLEAN : busy = (dev.busy /\ c.op \in {"GET", "MINE"})
    OBVIOUS
  <1>5. PICK new : new = [dev EXCEPT !.busy = busy]
    OBVIOUS
  <1>6. /\ new \in Posting!Device /\ new.screen = dev.screen /\ new.scope = dev.scope
        /\ new.post = dev.post
    BY <1>3, <1>5 DEF Posting!Device
  <1>7. Posting!Set(d, new)
    BY <1>2, <1>3, <1>4, <1>5 DEF Posting!Lose, Posting!Device
  <1>8. PICK e : e = [c EXCEPT !.device = Posting!None]
    OBVIOUS
  <1>9. postCalls' = (postCalls \ {c}) \cup {e} /\ UNCHANGED <<posts, history, postsSent>>
    BY <1>8 DEF Posting!Lose
  <1>10. /\ e \in Posting!Call /\ e.op = c.op /\ e.post = c.post /\ e.level = c.level
         /\ e.scope = c.scope /\ e.at = c.at
    BY <1>1, <1>8 DEF Posting!Call
  <1>11. PostingFits(e)
    BY <1>1, <1>10 DEF PostingFits
  <1>12. postCalls' \subseteq Posting!Call /\ \A g \in postCalls' : PostingFits(g)
    BY <1>9, <1>10, <1>11, PostingCallsAre
  <1> QED
    BY <1>1, <1>3, <1>6, <1>7, <1>9, <1>12, PostingStaysOrHome, PostingDeviceChanges

-----------------------------------------------------------------------------
LEMMA PostingInitially == Posting!Init => PostingInv
  <1> SUFFICES ASSUME Posting!Init PROVE PostingInv
    OBVIOUS
  <1>1. /\ \A p \in Things : posts[p] = Posting!Absent \/ (posts[p] \in Posting!Row /\ posts[p].level \in Levels)
        /\ posts \in [Things -> Posting!Row \cup {Posting!Absent}]
        /\ \A p, q \in Things : p # q => posts[p] = Posting!Absent \/ posts[q] = Posting!Absent
    <2>1. posts \in [Things -> {row \in Posting!Row : ~row.closedAt /\ Posting!Editable(row)} \cup {Posting!Absent}]
      BY DEF Posting!Init
    <2>2. \A p, q \in Things : Posting!Exists(p) /\ Posting!Exists(q) => p = q
      BY DEF Posting!Init
    <2> QED
      BY <2>1, <2>2 DEF Posting!Exists, Posting!Row
  <1>2. history = [p \in Things |-> IF posts[p] = Posting!Absent THEN <<>>
                                    ELSE <<[previousLevel |-> Posting!None, newLevel |-> posts[p].level]>>]
    BY DEF Posting!Init
  <1>3. ASSUME NEW p \in Things
        PROVE  /\ history[p] \in Seq(Posting!Change)
               /\ Posting!Exists(p) => history[p][Len(history[p])].newLevel = posts[p].level
    <2>1. CASE posts[p] = Posting!Absent
      BY <1>2, <2>1 DEF Posting!Exists
    <2>2. CASE posts[p] # Posting!Absent
      <3>1. PICK change : change = [previousLevel |-> Posting!None, newLevel |-> posts[p].level]
        OBVIOUS
      <3>2. change \in Posting!Change /\ change.newLevel = posts[p].level
        BY <1>1, <2>2, <3>1 DEF Posting!Change
      <3>3. history[p] = <<change>>
        BY <1>2, <2>2, <3>1
      <3>4. history[p] \in Seq(Posting!Change) /\ history[p][Len(history[p])] = change
        BY <3>2, <3>3
      <3> QED
        BY <3>2, <3>4
    <2> QED
      BY <2>1, <2>2
  <1>4. PICK loggedIn \in SUBSET Pair :
          devices = [d \in Pair |-> [me |-> d \in loggedIn, draft |-> Posting!None, screen |-> "home", scope |-> Posting!None,
                                     post |-> Posting!None, shown |-> Posting!Absent, existing |-> Posting!None, busy |-> FALSE]]
    BY Zenon DEF Posting!Init
  <1>5. ASSUME NEW d \in Pair
        PROVE  devices[d] \in Posting!Device /\ PostingStands(devices[d])
    <2>2. devices[d] = [me |-> d \in loggedIn, draft |-> Posting!None, screen |-> "home", scope |-> Posting!None,
                        post |-> Posting!None, shown |-> Posting!Absent, existing |-> Posting!None, busy |-> FALSE]
      BY <1>4
    <2>3. devices[d] \in Posting!Device /\ devices[d].screen = "home"
      BY <2>2 DEF Posting!Device
    <2> QED
      BY <2>3 DEF PostingStands
  <1>6. devices \in [Pair -> Posting!Device] /\ history \in [Things -> Seq(Posting!Change)]
    BY <1>2, <1>3, <1>4, <1>5
  <1>7. postCalls = {} /\ postsSent \in 0..MaxWritten
    <2>1. postCalls = {} /\ postsSent = 0
      BY Zenon DEF Posting!Init
    <2> QED
      BY <2>1, PostingAssumption
  <1>8. Posting!TypeOK
    BY <1>1, <1>6, <1>7 DEF Posting!TypeOK
  <1>9. Posting!OneActivePost
    <2>1. Posting!Absent.status # "ACTIVE"
      BY DEF Posting!Absent, Posting!None
    <2> QED
      BY <1>1, <2>1 DEF Posting!OneActivePost
  <1>10. Posting!HistoryTellsLevel
    BY <1>3 DEF Posting!HistoryTellsLevel
  <1> QED
    BY <1>5, <1>7, <1>8, <1>9, <1>10 DEF PostingInv, PostingCallsFit, PostingDevicesStand

LEMMA PostingSteps == ASSUME PostingInv, Posting!Next PROVE PostingInv'
  <1>1. CASE \E c \in postCalls : \/ Posting!Read(c) \/ Posting!Mine(c) \/ Posting!CheckDuplicate(c) \/ Posting!Insert(c) \/ Posting!Update(c)
                                  \/ Posting!Answer(c) \/ Posting!Lose(c)
    BY <1>1, PostingReadKeeps, PostingMineKeeps, PostingCheckDuplicateKeeps, PostingInsertKeeps,
       PostingUpdateKeeps, PostingAnswerKeeps, PostingLoseKeeps
  <1>2. CASE \E p \in Things : Posting!CloseIntent(p)
    BY <1>2, PostingCloseIntentKeeps
  <1>3. CASE \E d \in Pair :
               \/ \E scope \in Scopes : Posting!OpenForm(d, scope)
               \/ Posting!Leave(d) \/ Posting!KeepDraft(d) \/ Posting!Refresh(d)
               \/ \E level \in Levels : Posting!SignIn(d, level) \/ Posting!Create(d, level)
               \/ \E p \in Things : Posting!OpenPost(d, p)
               \/ \E op \in Posting!Ops, level \in Levels : Posting!Act(d, op, level)
    BY <1>3, PostingOpenFormKeeps, PostingLeaveKeeps, PostingKeepDraftKeeps, PostingRefreshKeeps,
       PostingSignInKeeps, PostingCreateKeeps,
       PostingOpenPostKeeps, PostingActKeeps
  <1> QED
    BY <1>1, <1>2, <1>3 DEF Posting!Next

LEMMA PostingShows ==
    ASSUME PostingInv
    PROVE  Posting!TypeOK /\ Posting!OneActivePost /\ Posting!HistoryTellsLevel
  BY DEF PostingInv

-----------------------------------------------------------------------------
(* What admins decide (Moderation): every change is logged when it is made, but for a refund on its
   way, and a report is filed once. *)

\* Those the log tells of.
ModeratingTold == Moderating!Accounts \cup Rooms \cup Reported

\* A request is about what its action is for, and knows who asked.
ModeratingRequestOK(q) ==
    /\ q.action = "CREATED" => q.subject \in Reported /\ q.admin = Moderating!NoOne /\ q.at # "read"
    /\ q.action \notin {"CREATED", "LOAD"} => q.action \in Moderating!ActionsOn(q.subject) /\ q.from \in Pair
    /\ q.at = "write" => q.action # "LOAD"
    /\ q.at = "log" => q.action \in {"REFUND", "CREATED"}
    /\ q.admin # Moderating!NoOne => pages[q.admin].subject = q.subject

\* A report is filed once, and nothing is known of it before.
ModeratingUnfiled(s) ==
    /\ s \in Reported /\ rows[s] = Moderating!Start(s)
    /\ \A i \in DOMAIN audit : audit[i].subject # s
    /\ \A a \in Pair : pages[a].subject = s => pages[a].shown = Moderating!Unknown /\ pages[a].dialog = Moderating!NoOne
    /\ \A q \in requests : q.subject = s => q.action = "CREATED" /\ q.at \in {"write", "answer"}

ModeratingFiledOnce ==
    /\ \A q \in requests : q.action = "CREATED" /\ q.at = "write" => rows[q.subject].status = "UNFILED"
    /\ \A q, r \in requests : q.action = "CREATED" /\ r.action = "CREATED" /\ q.subject = r.subject => q = r
    /\ \A s \in Moderating!Subjects : rows[s].status = "UNFILED" => ModeratingUnfiled(s)

ModeratingPagesOK == \A a \in Pair : pages[a].dialog # Moderating!NoOne => pages[a].dialog \in Moderating!ActionsOn(pages[a].subject)

\* What is logged of a subject is one of its actions.
ModeratingLogOK == \A i \in DOMAIN audit : audit[i].action \in Moderating!ActionsOn(audit[i].subject) \cup {"CREATED", "REFUND", "REFUNDED"}

ModeratingInv ==
    /\ Moderating!TypeOK
    /\ \A q \in requests : ModeratingRequestOK(q)
    /\ ModeratingFiledOnce /\ ModeratingPagesOK /\ ModeratingLogOK
    /\ Moderating!AuditTellsState

-----------------------------------------------------------------------------
(* What an action makes of a row, and what the log tells *)

ModeratingFields == {"status", "mark"}

LEMMA ModeratingActionsAre ==
    ASSUME NEW s \in Moderating!Subjects
    PROVE  /\ s \in Moderating!Accounts => Moderating!ActionsOn(s) = Moderating!UserActions
           /\ s \in Rooms => Moderating!ActionsOn(s) = Moderating!CollectiveActions
           /\ s \in Reported => Moderating!ActionsOn(s) = Moderating!ReportActions
           /\ s \in Paid => Moderating!ActionsOn(s) = {"REFUND"}
  BY ModeratingAssumption, FilesAssumption DEF Moderating!ActionsOn, Moderating!Subjects,
     Moderating!Accounts

LEMMA ModeratingBecomesAre ==
    ASSUME NEW s \in Moderating!Subjects, NEW row, NEW action, NEW actor
    PROVE  /\ s \in Moderating!Accounts => Moderating!Becomes(s, row, action, actor) = Moderating!UserBecomes(row, action)
           /\ s \in Rooms => Moderating!Becomes(s, row, action, actor) = Moderating!CollectiveBecomes(row, action)
           /\ s \in Reported => Moderating!Becomes(s, row, action, actor) = Moderating!ReportBecomes(row, action, actor)
           /\ s \in Paid => Moderating!Becomes(s, row, action, actor) = [row EXCEPT !.status = "REFUNDED"]
  BY ModeratingAssumption, FilesAssumption DEF Moderating!Becomes, Moderating!Subjects,
     Moderating!Accounts

\* An action leaves a row, and files nothing back.
LEMMA ModeratingRowStays ==
    ASSUME NEW s \in Moderating!Subjects, NEW row \in Moderating!Row,
           NEW action \in Moderating!ActionsOn(s), NEW actor \in Pair
    PROVE  /\ Moderating!Becomes(s, row, action, actor) \in Moderating!Row
           /\ row.status # "UNFILED" => Moderating!Becomes(s, row, action, actor).status # "UNFILED"
  <1>1. CASE s \in Moderating!Accounts
    <2>1. /\ action \in Moderating!UserActions
          /\ Moderating!Becomes(s, row, action, actor) = Moderating!UserBecomes(row, action)
      BY <1>1, ModeratingActionsAre, ModeratingBecomesAre
    <2> QED
      BY <2>1 DEF Moderating!UserActions, Moderating!UserBecomes, Moderating!Row
  <1>2. CASE s \in Rooms
    <2>1. /\ action \in Moderating!CollectiveActions
          /\ Moderating!Becomes(s, row, action, actor) = Moderating!CollectiveBecomes(row, action)
      BY <1>2, ModeratingActionsAre, ModeratingBecomesAre
    <2> QED
      BY <2>1 DEF Moderating!CollectiveActions, Moderating!CollectiveBecomes, Moderating!Row
  <1>3. CASE s \in Reported
    <2>1. /\ action \in Moderating!ReportActions
          /\ Moderating!Becomes(s, row, action, actor) = Moderating!ReportBecomes(row, action, actor)
      BY <1>3, ModeratingActionsAre, ModeratingBecomesAre
    <2> QED
      BY <2>1 DEF Moderating!ReportActions, Moderating!ReportBecomes, Moderating!Row
  <1>4. CASE s \in Paid
    <2>1. Moderating!Becomes(s, row, action, actor) = [row EXCEPT !.status = "REFUNDED"]
      BY <1>4, ModeratingBecomesAre
    <2> QED
      BY <2>1 DEF Moderating!Row
  <1> QED
    BY <1>1, <1>2, <1>3, <1>4 DEF Moderating!Subjects

\* What an action sets of a row does not depend on the row, and the rest it leaves alone.
LEMMA ModeratingSetsOrLeaves ==
    ASSUME NEW s \in ModeratingTold, NEW row \in Moderating!Row, NEW other \in Moderating!Row,
           NEW action \in Moderating!ActionsOn(s),
           NEW actor, NEW field \in ModeratingFields
    PROVE  /\ action \in Moderating!Sets(field) =>
                Moderating!Becomes(s, row, action, actor)[field] = Moderating!Becomes(s, other, action, actor)[field]
           /\ action \notin Moderating!Sets(field) => Moderating!Becomes(s, row, action, actor)[field] = row[field]
  <1>0. s \in Moderating!Subjects /\ (field = "status" \/ field = "mark")
    BY DEF ModeratingTold, Moderating!Subjects, ModeratingFields
  <1>1. CASE s \in Moderating!Accounts
    <2>1. /\ action \in Moderating!UserActions
          /\ Moderating!Becomes(s, row, action, actor) = Moderating!UserBecomes(row, action)
          /\ Moderating!Becomes(s, other, action, actor) = Moderating!UserBecomes(other, action)
      BY <1>0, <1>1, ModeratingActionsAre, ModeratingBecomesAre
    <2>2. CASE field = "status"
      BY <2>1, <2>2 DEF Moderating!UserActions, Moderating!CollectiveActions,
         Moderating!ReportActions, Moderating!UserBecomes, Moderating!Row, Moderating!Sets
    <2>3. CASE field = "mark"
      BY <2>1, <2>3 DEF Moderating!UserActions, Moderating!CollectiveActions,
         Moderating!ReportActions, Moderating!UserBecomes, Moderating!Row, Moderating!Sets
    <2> QED
      BY <1>0, <2>2, <2>3
  <1>2. CASE s \in Rooms
    <2>1. /\ action \in Moderating!CollectiveActions
          /\ Moderating!Becomes(s, row, action, actor) = Moderating!CollectiveBecomes(row, action)
          /\ Moderating!Becomes(s, other, action, actor) = Moderating!CollectiveBecomes(other, action)
      BY <1>0, <1>2, ModeratingActionsAre, ModeratingBecomesAre
    <2>2. action \in Moderating!Sets(field)
      BY <1>0, <2>1 DEF Moderating!Sets
    <2> QED
      BY <2>1, <2>2 DEF Moderating!CollectiveBecomes
  <1>3. CASE s \in Reported
    <2>1. /\ action \in Moderating!ReportActions
          /\ Moderating!Becomes(s, row, action, actor) = Moderating!ReportBecomes(row, action, actor)
          /\ Moderating!Becomes(s, other, action, actor) = Moderating!ReportBecomes(other, action, actor)
      BY <1>0, <1>3, ModeratingActionsAre, ModeratingBecomesAre
    <2>2. CASE field = "status"
      BY <2>1, <2>2 DEF Moderating!UserActions, Moderating!CollectiveActions,
         Moderating!ReportActions, Moderating!ReportBecomes, Moderating!Row, Moderating!Sets
    <2>3. CASE field = "mark"
      BY <2>1, <2>3 DEF Moderating!UserActions, Moderating!CollectiveActions,
         Moderating!ReportActions, Moderating!ReportBecomes, Moderating!Row, Moderating!Sets
    <2> QED
      BY <1>0, <2>2, <2>3
  <1> QED
    BY <1>1, <1>2, <1>3 DEF ModeratingTold

\* An entry is added to the log.
LEMMA ModeratingLogs ==
    ASSUME audit \in Seq(Moderating!Entry), NEW e \in Moderating!Entry, audit' = Append(audit, e)
    PROVE  /\ audit' \in Seq(Moderating!Entry)
           /\ Len(audit) \in Nat /\ DOMAIN audit = 1..Len(audit)
           /\ DOMAIN audit' = 1..(Len(audit) + 1)
           /\ audit'[Len(audit) + 1] = e
           /\ \A i \in 1..Len(audit) : audit'[i] = audit[i]
  BY AppendProperties

\* What the log tells of a row stands while the row does, whatever is logged of others.
LEMMA ModeratingTellsStill ==
    ASSUME audit \in Seq(Moderating!Entry), NEW s \in ModeratingTold,
           NEW field \in ModeratingFields, rows'[s] = rows[s],
           \/ audit' = audit
           \/ \E e \in Moderating!Entry : audit' = Append(audit, e) /\ (e.subject # s \/ e.action \notin Moderating!Sets(field)),
           Moderating!Tells(s, field)
    PROVE  Moderating!Tells(s, field)'
  <1>1. CASE audit' = audit
    BY <1>1 DEF Moderating!Tells, Moderating!About
  <1>2. CASE audit' # audit
    <2>1. PICK e \in Moderating!Entry : audit' = Append(audit, e) /\ (e.subject # s \/ e.action \notin Moderating!Sets(field))
      BY <1>2
    <2>2. PICK n \in Nat :
            /\ n = Len(audit) /\ DOMAIN audit = 1..n /\ DOMAIN audit' = 1..(n + 1)
            /\ audit'[n + 1] = e /\ \A i \in 1..n : audit'[i] = audit[i]
      BY <2>1, ModeratingLogs
    <2>3. Moderating!About(s, field)' = Moderating!About(s, field)
      BY <2>1, <2>2 DEF Moderating!About
    <2>4. \A i \in Moderating!About(s, field) : audit'[i] = audit[i]
      BY <2>2 DEF Moderating!About
    <2> QED
      BY <2>3, <2>4 DEF Moderating!Tells
  <1> QED
    BY <1>1, <1>2

\* What is done to a row and logged is what the log tells of it.
LEMMA ModeratingTellsAfter ==
    ASSUME Moderating!TypeOK, ModeratingLogOK, NEW s \in ModeratingTold,
           NEW action \in Moderating!ActionsOn(s), NEW actor \in Pair,
           NEW field \in ModeratingFields, NEW e \in Moderating!Entry,
           e.action = action, e.actor = actor, e.subject = s,
           rows'[s] = Moderating!Becomes(s, rows[s], action, actor), audit' = Append(audit, e), Moderating!Tells(s, field)
    PROVE  Moderating!Tells(s, field)'
  <1>1. s \in Moderating!Subjects /\ rows[s] \in Moderating!Row /\ audit \in Seq(Moderating!Entry)
    BY DEF Moderating!TypeOK, ModeratingTold, Moderating!Subjects
  <1>2. rows'[s] \in Moderating!Row
    BY <1>1, ModeratingRowStays
  <1>3. PICK n \in Nat :
          /\ n = Len(audit) /\ DOMAIN audit = 1..n /\ DOMAIN audit' = 1..(n + 1)
          /\ audit'[n + 1] = e /\ \A i \in 1..n : audit'[i] = audit[i]
    BY <1>1, ModeratingLogs
  <1>4. CASE action \in Moderating!Sets(field)
    <2>1. n + 1 \in Moderating!About(s, field)' /\ \A j \in Moderating!About(s, field)' : j <= n + 1
      BY <1>3, <1>4 DEF Moderating!About
    <2>2. rows'[s][field] = Moderating!Becomes(s, rows'[s], action, actor)[field]
      BY <1>1, <1>2, <1>4, ModeratingSetsOrLeaves
    <2> QED
      BY <1>3, <2>1, <2>2 DEF Moderating!Tells
  <1>5. CASE action \notin Moderating!Sets(field)
    <2>1. Moderating!About(s, field)' = Moderating!About(s, field)
      BY <1>3, <1>5 DEF Moderating!About
    <2>2. rows'[s][field] = rows[s][field]
      BY <1>1, <1>5, ModeratingSetsOrLeaves
    <2>3. ASSUME NEW i \in Moderating!About(s, field)
          PROVE  /\ audit'[i] = audit[i]
                 /\ Moderating!Becomes(s, rows'[s], audit[i].action, audit[i].actor)[field] =
                      Moderating!Becomes(s, rows[s], audit[i].action, audit[i].actor)[field]
      <3>1. i \in 1..n /\ audit[i].subject = s /\ audit[i].action \in Moderating!Sets(field)
        BY <1>3 DEF Moderating!About
      <3>2. audit[i].action \in Moderating!ActionsOn(s)
        <4>1. audit[i].action \notin {"CREATED", "REFUND", "REFUNDED"}
          BY <3>1 DEF Moderating!Sets, ModeratingFields, Moderating!UserActions,
             Moderating!CollectiveActions, Moderating!ReportActions
        <4> QED
          BY <1>3, <3>1, <4>1 DEF ModeratingLogOK
      <3> QED
        BY <1>1, <1>2, <1>3, <3>1, <3>2, ModeratingSetsOrLeaves
    <2>4. CASE Moderating!About(s, field) = {}
      <3>1. rows[s][field] = Moderating!Begun(s)[field]
        BY <2>4 DEF Moderating!Tells
      <3> QED
        BY <2>1, <2>2, <2>4, <3>1 DEF Moderating!Tells
    <2>5. CASE Moderating!About(s, field) # {}
      <3>1. PICK i \in Moderating!About(s, field) :
              /\ \A j \in Moderating!About(s, field) : j <= i
              /\ rows[s][field] = Moderating!Becomes(s, rows[s], audit[i].action, audit[i].actor)[field]
        BY <2>5 DEF Moderating!Tells
      <3>2. rows'[s][field] = Moderating!Becomes(s, rows'[s], audit'[i].action, audit'[i].actor)[field]
        BY <2>2, <2>3, <3>1
      <3>3. i \in Moderating!About(s, field)' /\ (\A j \in Moderating!About(s, field)' : j <= i) /\ Moderating!About(s, field)' # {}
        BY <2>1, <3>1
      <3> QED
        BY <3>2, <3>3 DEF Moderating!Tells
    <2> QED
      BY <2>4, <2>5
  <1> QED
    BY <1>4, <1>5

-----------------------------------------------------------------------------
(* What a step may leave alone *)

\* Nothing is done to a row, and nothing logged.
LEMMA ModeratingLogStands ==
    ASSUME ModeratingInv, rows' = rows, audit' = audit
    PROVE  ModeratingLogOK' /\ Moderating!AuditTellsState'
  BY DEF ModeratingInv, ModeratingLogOK, Moderating!AuditTellsState, Moderating!Tells,
     Moderating!About

\* The pages show nothing new, and stay on their subjects.
ModeratingPagesStand == \A a \in Pair : pages'[a].subject = pages[a].subject /\ pages'[a].shown = pages[a].shown
                                         /\ pages'[a].dialog = pages[a].dialog

\* One request goes on, and no row is changed.
LEMMA ModeratingRequestGoes ==
    ASSUME ModeratingInv, NEW q \in requests, NEW r \in Moderating!Request,
           requests' = (requests \ {q}) \cup {r},
           r.action = q.action, r.subject = q.subject, r.from = q.from, r.admin \in {q.admin, Moderating!NoOne},
           r.at = "write" => q.at \in {"read", "write"} /\ q.action # "LOAD",
           q.action = "CREATED" /\ q.at = "write" => r.at \in {"write", "answer"},
           q.at = "answer" => r.at = "answer",
           r.at # "read" \/ r.at = q.at,
           r.at = "log" => q.at = "log" \/ q.action = "REFUND",
           rows' = rows, audit' = audit, ModeratingPagesStand, asked' = asked, pages' \in [Pair -> Moderating!Page]
    PROVE  ModeratingInv'
  <1>1. Moderating!TypeOK'
    BY DEF ModeratingInv, Moderating!TypeOK
  <1>2. /\ r.action = "CREATED" => r.at # "read"
        /\ r.action = "CREATED" /\ r.at = "write" => q.at = "write"
    BY DEF ModeratingInv, ModeratingRequestOK
  <1>3. ASSUME NEW c \in requests' PROVE ModeratingRequestOK(c)'
    <2>1. CASE c = r
      <3>1. q \in Moderating!Request /\ ModeratingRequestOK(q)
        BY DEF ModeratingInv, Moderating!TypeOK
      <3>2. r.admin # Moderating!NoOne => pages'[r.admin].subject = r.subject
        BY <3>1 DEF ModeratingRequestOK, ModeratingPagesStand, Moderating!Request
      <3> QED
        BY <1>2, <2>1, <3>1, <3>2 DEF ModeratingRequestOK
    <2>2. CASE c # r
      <3>1. c \in Moderating!Request /\ ModeratingRequestOK(c)
        BY <2>2 DEF ModeratingInv, Moderating!TypeOK
      <3> QED
        BY <3>1 DEF ModeratingRequestOK, ModeratingPagesStand, Moderating!Request
    <2> QED
      BY <2>1, <2>2
  <1>4. ModeratingFiledOnce'
    <2>1. \A c \in requests' : c.action = "CREATED" /\ c.at = "write" => rows'[c.subject].status = "UNFILED"
      BY <1>2 DEF ModeratingInv, ModeratingFiledOnce
    <2>2. \A c, d \in requests' :
            c.action = "CREATED" /\ d.action = "CREATED" /\ c.subject = d.subject => c = d
      BY DEF ModeratingInv, ModeratingFiledOnce
    <2>3. ASSUME NEW s \in Moderating!Subjects, rows'[s].status = "UNFILED"
          PROVE  ModeratingUnfiled(s)'
      <3>1. ModeratingUnfiled(s)
        BY <2>3 DEF ModeratingInv, ModeratingFiledOnce
      <3>2. \A c \in requests' : c.subject = s => c.action = "CREATED" /\ c.at \in {"write", "answer"}
        BY <3>1 DEF ModeratingUnfiled
      <3>3. \A a \in Pair : pages'[a].subject = s => pages'[a].shown = Moderating!Unknown /\ pages'[a].dialog = Moderating!NoOne
        BY <3>1 DEF ModeratingUnfiled, ModeratingPagesStand
      <3> QED
        BY <3>1, <3>2, <3>3 DEF ModeratingUnfiled
    <2> QED
      BY <2>1, <2>2, <2>3 DEF ModeratingFiledOnce
  <1>5. ModeratingPagesOK'
    BY DEF ModeratingInv, ModeratingPagesOK, ModeratingPagesStand
  <1> QED
    BY <1>1, <1>3, <1>4, <1>5, ModeratingLogStands DEF ModeratingInv

LEMMA ModeratingFindKeeps ==
    ASSUME ModeratingInv, NEW q \in requests, Moderating!Find(q)
    PROVE  ModeratingInv'
  <1>1. q \in Moderating!Request /\ q.at = "read" /\ ModeratingRequestOK(q)
    BY DEF Moderating!Find, ModeratingInv, Moderating!TypeOK
  <1>2. PICK at \in {"view", "answer", "write"} :
          /\ requests' = (requests \ {q}) \cup {Moderating!To(q, at)}
          /\ at = "write" => q.action # "LOAD"
    BY DEF Moderating!Find, Moderating!On
  <1>3. Moderating!To(q, at) \in Moderating!Request
    BY <1>1, <1>2 DEF Moderating!To, Moderating!Request
  <1>4. /\ ModeratingPagesStand /\ rows' = rows /\ audit' = audit /\ asked' = asked
        /\ pages' \in [Pair -> Moderating!Page]
    BY DEF Moderating!Find, Moderating!On, ModeratingPagesStand, ModeratingInv, Moderating!TypeOK
  <1>5. PICK r \in Moderating!Request : r = Moderating!To(q, at)
    BY <1>3
  <1>6. /\ r.action = q.action /\ r.subject = q.subject /\ r.from = q.from /\ r.admin = q.admin
        /\ r.at = at
    BY <1>1, <1>5 DEF Moderating!To, Moderating!Request
  <1> QED
    BY <1>1, <1>2, <1>4, <1>5, <1>6, ModeratingRequestGoes

LEMMA ModeratingViewKeeps ==
    ASSUME ModeratingInv, NEW q \in requests, Moderating!View(q)
    PROVE  ModeratingInv'
  <1>1. /\ q \in Moderating!Request /\ q.at = "view" /\ ModeratingRequestOK(q)
        /\ rows[q.subject] \in Moderating!Row
    BY DEF Moderating!View, ModeratingInv, Moderating!TypeOK, Moderating!Request
  <1>2. PICK r : r = [Moderating!To(q, "answer") EXCEPT !.ok = TRUE, !.row = rows[q.subject]]
    OBVIOUS
  <1>3. r \in Moderating!Request
    BY <1>1, <1>2 DEF Moderating!To, Moderating!Request
  <1>4. /\ r.action = q.action /\ r.subject = q.subject /\ r.from = q.from /\ r.admin = q.admin
        /\ r.at = "answer"
    BY <1>1, <1>2 DEF Moderating!To, Moderating!Request
  <1>5. /\ requests' = (requests \ {q}) \cup {r}
        /\ ModeratingPagesStand /\ rows' = rows /\ audit' = audit /\ asked' = asked
        /\ pages' \in [Pair -> Moderating!Page]
    BY <1>2 DEF Moderating!View, Moderating!On, ModeratingPagesStand, ModeratingInv,
       Moderating!TypeOK
  <1> QED
    BY <1>1, <1>3, <1>4, <1>5, ModeratingRequestGoes

LEMMA ModeratingCrashKeeps ==
    ASSUME ModeratingInv, NEW q \in requests, Moderating!Crash(q)
    PROVE  ModeratingInv'
  <1>1. q \in Moderating!Request /\ q.at \in {"write", "log", "view"} /\ ModeratingRequestOK(q)
    BY DEF Moderating!Crash, ModeratingInv, Moderating!TypeOK
  <1>2. PICK r : r = Moderating!To(q, "answer")
    OBVIOUS
  <1>3. /\ r \in Moderating!Request
        /\ r.action = q.action /\ r.subject = q.subject /\ r.from = q.from /\ r.admin = q.admin
        /\ r.at = "answer"
    BY <1>1, <1>2 DEF Moderating!To, Moderating!Request
  <1>4. /\ requests' = (requests \ {q}) \cup {r}
        /\ ModeratingPagesStand /\ rows' = rows /\ audit' = audit /\ asked' = asked
        /\ pages' \in [Pair -> Moderating!Page]
    BY <1>2 DEF Moderating!Crash, Moderating!On, ModeratingPagesStand, ModeratingInv,
       Moderating!TypeOK
  <1> QED
    BY <1>1, <1>3, <1>4, ModeratingRequestGoes

LEMMA ModeratingLoseKeeps ==
    ASSUME ModeratingInv, NEW q \in requests, Moderating!Lose(q)
    PROVE  ModeratingInv'
  <1>1. /\ q \in Moderating!Request /\ q.admin \in Pair /\ ModeratingRequestOK(q)
        /\ pages[q.admin] \in Moderating!Page
    BY DEF Moderating!Lose, ModeratingInv, Moderating!TypeOK, Moderating!Request
  <1>2. PICK r : r = [q EXCEPT !.admin = Moderating!NoOne]
    OBVIOUS
  <1>3. /\ r \in Moderating!Request
        /\ r.action = q.action /\ r.subject = q.subject /\ r.from = q.from
        /\ r.admin = Moderating!NoOne
        /\ r.at = q.at
    BY <1>1, <1>2 DEF Moderating!Request
  <1>4. requests' = (requests \ {q}) \cup {r} /\ rows' = rows /\ audit' = audit /\ asked' = asked
    BY <1>2 DEF Moderating!Lose
  <1>5. PICK pg : pg = [pages[q.admin] EXCEPT !.busy = FALSE]
    OBVIOUS
  <1>6. /\ pg \in Moderating!Page /\ pg.subject = pages[q.admin].subject
        /\ pg.shown = pages[q.admin].shown /\ pg.dialog = pages[q.admin].dialog
    BY <1>1, <1>5 DEF Moderating!Page
  <1>7. pages' = [pages EXCEPT ![q.admin] = pg] /\ pages \in [Pair -> Moderating!Page]
    BY <1>5 DEF Moderating!Lose, Moderating!SetPage, ModeratingInv, Moderating!TypeOK
  <1>8. pages' \in [Pair -> Moderating!Page] /\ ModeratingPagesStand
    BY <1>1, <1>6, <1>7 DEF ModeratingPagesStand
  <1>9. q.at = "write" => q.action # "LOAD"
    BY <1>1 DEF ModeratingRequestOK
  <1> QED
    BY <1>1, <1>3, <1>4, <1>8, <1>9, ModeratingRequestGoes

\* Whatever is new in the log is about one subject.
ModeratingOnlyAdds(s) ==
    \A i \in DOMAIN audit' : (i \in DOMAIN audit /\ audit'[i] = audit[i]) \/ audit'[i].subject = s

\* One request goes on, and the row it is about, or what is logged of it, changes.
LEMMA ModeratingRequestWrites ==
    ASSUME ModeratingInv, NEW q \in requests, NEW r \in Moderating!Request,
           requests' = (requests \ {q}) \cup {r},
           r.action = q.action, r.subject = q.subject, r.from = q.from, r.admin = q.admin,
           r.at \in {"log", "view"}, r.at = "log" => q.action \in {"REFUND", "CREATED"},
           NEW row \in Moderating!Row, rows' = [rows EXCEPT ![q.subject] = row],
           row.status # "UNFILED",
           rows[q.subject].status = "UNFILED" => q.action = "CREATED" /\ q.at = "write",
           audit' \in Seq(Moderating!Entry), ModeratingLogOK', Moderating!AuditTellsState', pages' = pages, asked' = asked,
           ModeratingOnlyAdds(q.subject)
    PROVE  ModeratingInv'
  <1>0. /\ q \in Moderating!Request /\ q.subject \in Moderating!Subjects
        /\ rows \in [Moderating!Subjects -> Moderating!Row]
    BY DEF ModeratingInv, Moderating!TypeOK, Moderating!Request
  <1>1. Moderating!TypeOK'
    BY <1>0 DEF ModeratingInv, Moderating!TypeOK
  <1>2. ASSUME NEW c \in requests' PROVE ModeratingRequestOK(c)'
    <2>1. ModeratingRequestOK(q)
      BY DEF ModeratingInv
    <2>2. CASE c = r
      BY <2>1, <2>2 DEF ModeratingRequestOK
    <2>3. CASE c # r
      <3>1. ModeratingRequestOK(c)
        BY <2>3 DEF ModeratingInv
      <3> QED
        BY <3>1 DEF ModeratingRequestOK
    <2> QED
      BY <2>2, <2>3
  <1>3. ModeratingFiledOnce'
    <2>1. ASSUME NEW c \in requests', c.action = "CREATED", c.at = "write"
          PROVE  rows'[c.subject].status = "UNFILED"
      <3>1. c \in requests /\ c # q /\ c.subject \in Moderating!Subjects
        BY <2>1 DEF ModeratingInv, Moderating!TypeOK, Moderating!Request
      <3>2. c.subject # q.subject
        BY <2>1, <3>1 DEF ModeratingInv, ModeratingFiledOnce
      <3> QED
        BY <1>0, <2>1, <3>1, <3>2 DEF ModeratingInv, ModeratingFiledOnce
    <2>2. \A c, d \in requests' :
            c.action = "CREATED" /\ d.action = "CREATED" /\ c.subject = d.subject => c = d
      BY DEF ModeratingInv, ModeratingFiledOnce
    <2>3. ASSUME NEW s \in Moderating!Subjects, rows'[s].status = "UNFILED"
          PROVE  ModeratingUnfiled(s)'
      <3>1. s # q.subject /\ rows'[s] = rows[s]
        BY <1>0, <2>3
      <3>2. ModeratingUnfiled(s)
        BY <2>3, <3>1 DEF ModeratingInv, ModeratingFiledOnce
      <3>3. \A i \in DOMAIN audit' : audit'[i].subject # s
        BY <3>1, <3>2 DEF ModeratingUnfiled, ModeratingOnlyAdds
      <3>4. \A c \in requests' : c.subject = s => c.action = "CREATED" /\ c.at \in {"write", "answer"}
        BY <3>1, <3>2 DEF ModeratingUnfiled
      <3> QED
        BY <3>1, <3>2, <3>3, <3>4 DEF ModeratingUnfiled
    <2> QED
      BY <2>1, <2>2, <2>3 DEF ModeratingFiledOnce
  <1>4. ModeratingPagesOK'
    BY DEF ModeratingInv, ModeratingPagesOK
  <1> QED
    BY <1>1, <1>2, <1>3, <1>4 DEF ModeratingInv

\* What an entry adds to the log.
LEMMA ModeratingEntryAdds ==
    ASSUME ModeratingInv, NEW e \in Moderating!Entry, audit' = Append(audit, e),
           e.action \in Moderating!ActionsOn(e.subject) \cup {"CREATED", "REFUND", "REFUNDED"}
    PROVE  audit' \in Seq(Moderating!Entry) /\ ModeratingLogOK' /\ ModeratingOnlyAdds(e.subject)
  <1>1. PICK n \in Nat :
          /\ n = Len(audit) /\ DOMAIN audit = 1..n /\ DOMAIN audit' = 1..(n + 1)
          /\ audit'[n + 1] = e /\ \A i \in 1..n : audit'[i] = audit[i]
    BY ModeratingLogs DEF ModeratingInv, Moderating!TypeOK
  <1>2. \A i \in DOMAIN audit' : i \in 1..n \/ i = n + 1
    BY <1>1
  <1>3. audit' \in Seq(Moderating!Entry)
    BY ModeratingLogs DEF ModeratingInv, Moderating!TypeOK
  <1>4. ModeratingLogOK'
    BY <1>1, <1>2 DEF ModeratingInv, ModeratingLogOK
  <1> QED
    BY <1>1, <1>2, <1>3, <1>4 DEF ModeratingOnlyAdds

LEMMA ModeratingWriteKeeps ==
    ASSUME ModeratingInv, NEW q \in requests, Moderating!Write(q)
    PROVE  ModeratingInv'
  <1>1. /\ q \in Moderating!Request /\ q.at = "write" /\ q.action \notin {"CREATED", "LOAD"}
        /\ ModeratingRequestOK(q)
        /\ q.subject \in Moderating!Subjects /\ rows \in [Moderating!Subjects -> Moderating!Row]
        /\ rows[q.subject] \in Moderating!Row
    BY DEF Moderating!Write, ModeratingInv, Moderating!TypeOK, Moderating!Request,
       ModeratingRequestOK
  <1>2. q.action \in Moderating!ActionsOn(q.subject) /\ q.from \in Pair
    BY <1>1 DEF ModeratingRequestOK
  <1>3. rows[q.subject].status # "UNFILED"
    <2>1. ~ModeratingUnfiled(q.subject)
      BY <1>1 DEF ModeratingUnfiled
    <2> QED
      BY <1>1, <2>1 DEF ModeratingInv, ModeratingFiledOnce
  <1>4. PICK r : r = Moderating!To(q, Moderating!AfterWrite(q))
    OBVIOUS
  <1>5. /\ r \in Moderating!Request
        /\ r.action = q.action /\ r.subject = q.subject /\ r.from = q.from /\ r.admin = q.admin
        /\ r.at \in {"log", "view"} /\ (r.at = "log" => q.action = "REFUND")
    BY <1>1, <1>4 DEF Moderating!To, Moderating!AfterWrite, Moderating!Request
  <1>6. requests' = (requests \ {q}) \cup {r} /\ pages' = pages /\ asked' = asked
    BY <1>4 DEF Moderating!Write, Moderating!On
  <1>7. CASE q.action = "REFUND" /\ rows[q.subject].status = "REFUNDED"
    <2>1. rows' = rows /\ audit' = audit
      BY <1>7 DEF Moderating!Write
    <2>2. ModeratingPagesStand /\ pages' \in [Pair -> Moderating!Page]
      BY <1>6 DEF ModeratingPagesStand, ModeratingInv, Moderating!TypeOK
    <2> QED
      BY <1>1, <1>5, <1>6, <1>7, <2>1, <2>2, ModeratingRequestGoes
  <1>8. CASE ~(q.action = "REFUND" /\ rows[q.subject].status = "REFUNDED")
    <2>1. PICK row : row = Moderating!Becomes(q.subject, rows[q.subject], q.action, q.from)
      OBVIOUS
    <2>2. row \in Moderating!Row /\ row.status # "UNFILED"
      BY <1>1, <1>2, <1>3, <2>1, ModeratingRowStays
    <2>3. rows' = [rows EXCEPT ![q.subject] = row]
      BY <1>8, <2>1 DEF Moderating!Write
    <2>4. /\ rows'[q.subject] = row
          /\ \A s \in Moderating!Subjects : s # q.subject => rows'[s] = rows[s]
      BY <1>1, <2>3
    <2>5. CASE q.action = "REFUND"
      <3>1. PICK e : e = [actor |-> Moderating!NoOne, action |-> "REFUNDED", subject |-> q.subject]
        OBVIOUS
      <3>2. e \in Moderating!Entry /\ e.action = "REFUNDED" /\ e.subject = q.subject
        BY <1>1, <3>1 DEF Moderating!Entry
      <3>3. audit' = Append(audit, e)
        BY <1>8, <2>5, <3>1 DEF Moderating!Write, Moderating!Logged
      <3>4. q.subject \notin ModeratingTold
        BY <1>1, <1>2, <2>5, ModeratingActionsAre
           DEF ModeratingTold, Moderating!UserActions, Moderating!CollectiveActions, Moderating!ReportActions
      <3>5. ASSUME NEW s \in ModeratingTold, rows'[s].status # "UNFILED",
                   NEW field \in ModeratingFields
            PROVE  Moderating!Tells(s, field)'
        <4>1. s \in Moderating!Subjects /\ s # q.subject /\ rows'[s] = rows[s]
          BY <2>4, <3>4 DEF ModeratingTold, Moderating!Subjects
        <4>2. Moderating!Tells(s, field)
          BY <3>5, <4>1 DEF ModeratingInv, Moderating!AuditTellsState, ModeratingTold,
             ModeratingFields
        <4> QED
          BY <3>2, <3>3, <4>1, <4>2, ModeratingTellsStill DEF ModeratingInv, Moderating!TypeOK
      <3>6. Moderating!AuditTellsState'
        BY <3>5 DEF Moderating!AuditTellsState, ModeratingTold, ModeratingFields
      <3>7. audit' \in Seq(Moderating!Entry) /\ ModeratingLogOK' /\ ModeratingOnlyAdds(q.subject)
        BY <3>2, <3>3, ModeratingEntryAdds
      <3> QED
        BY <1>3, <1>5, <1>6, <2>2, <2>3, <2>5, <3>6, <3>7, ModeratingRequestWrites
    <2>6. CASE q.action # "REFUND"
      <3>1. PICK e : e = [actor |-> q.from, action |-> q.action, subject |-> q.subject]
        OBVIOUS
      <3>2. /\ e \in Moderating!Entry /\ e.actor = q.from /\ e.action = q.action
            /\ e.subject = q.subject
        BY <1>1, <1>2, <3>1 DEF Moderating!Entry, Moderating!Request
      <3>3. audit' = Append(audit, e)
        BY <1>1, <1>8, <2>6, <3>1 DEF Moderating!Write, Moderating!Logged, Moderating!AfterWrite
      <3>4. ASSUME NEW s \in ModeratingTold, rows'[s].status # "UNFILED",
                   NEW field \in ModeratingFields
            PROVE  Moderating!Tells(s, field)'
        <4>0. s \in Moderating!Subjects
          BY DEF ModeratingTold, Moderating!Subjects
        <4>1. CASE s = q.subject
          <5>1. Moderating!Tells(s, field)
            BY <1>3, <4>1 DEF ModeratingInv, Moderating!AuditTellsState, ModeratingTold,
               ModeratingFields
          <5>2. /\ q.action \in Moderating!ActionsOn(s)
                /\ rows'[s] = Moderating!Becomes(s, rows[s], q.action, q.from)
                /\ Moderating!TypeOK /\ ModeratingLogOK
            BY <1>2, <2>1, <2>4, <4>1 DEF ModeratingInv
          <5> QED
            BY <1>2, <3>2, <3>3, <4>1, <5>1, <5>2, ModeratingTellsAfter
        <4>2. CASE s # q.subject
          <5>1. rows'[s] = rows[s]
            BY <2>4, <4>0, <4>2
          <5>2. Moderating!Tells(s, field)
            BY <3>4, <5>1 DEF ModeratingInv, Moderating!AuditTellsState, ModeratingTold,
               ModeratingFields
          <5> QED
            BY <3>2, <3>3, <4>2, <5>1, <5>2, ModeratingTellsStill DEF ModeratingInv,
               Moderating!TypeOK
        <4> QED
          BY <4>1, <4>2
      <3>5. Moderating!AuditTellsState'
        BY <3>4 DEF Moderating!AuditTellsState, ModeratingTold, ModeratingFields
      <3>6. audit' \in Seq(Moderating!Entry) /\ ModeratingLogOK' /\ ModeratingOnlyAdds(q.subject)
        BY <1>2, <3>2, <3>3, ModeratingEntryAdds
      <3> QED
        BY <1>3, <1>5, <1>6, <2>2, <2>3, <2>6, <3>5, <3>6, ModeratingRequestWrites
    <2> QED
      BY <2>5, <2>6
  <1> QED
    BY <1>7, <1>8

LEMMA ModeratingFileKeeps ==
    ASSUME ModeratingInv, NEW q \in requests, Moderating!File(q)
    PROVE  ModeratingInv'
  <1>1. /\ q \in Moderating!Request /\ q.at = "write" /\ q.action = "CREATED"
        /\ ModeratingRequestOK(q)
        /\ q.subject \in Moderating!Subjects /\ rows \in [Moderating!Subjects -> Moderating!Row]
    BY DEF Moderating!File, ModeratingInv, Moderating!TypeOK, Moderating!Request
  <1>2. q.subject \in Reported /\ rows[q.subject].status = "UNFILED"
    BY <1>1 DEF ModeratingRequestOK, ModeratingInv, ModeratingFiledOnce
  <1>3. ModeratingUnfiled(q.subject)
    BY <1>1, <1>2 DEF ModeratingInv, ModeratingFiledOnce
  <1>4. PICK r : r = Moderating!To(q, "log")
    OBVIOUS
  <1>5. /\ r \in Moderating!Request
        /\ r.action = q.action /\ r.subject = q.subject /\ r.from = q.from /\ r.admin = q.admin
        /\ r.at = "log"
    BY <1>1, <1>4 DEF Moderating!To, Moderating!Request
  <1>6. requests' = (requests \ {q}) \cup {r} /\ pages' = pages /\ asked' = asked /\ audit' = audit
    BY <1>4 DEF Moderating!File, Moderating!On
  <1>7. PICK row : row = [rows[q.subject] EXCEPT !.status = "OPEN"]
    OBVIOUS
  <1>8. rows' = [rows EXCEPT ![q.subject] = row]
    BY <1>1, <1>7 DEF Moderating!File
  <1>9. row \in Moderating!Row /\ row.status = "OPEN" /\ row.mark = rows[q.subject].mark
    BY <1>1, <1>7 DEF Moderating!Row
  <1>10. \A s \in Moderating!Subjects : s # q.subject => rows'[s] = rows[s]
    BY <1>1, <1>8
  <1>11. ASSUME NEW s \in ModeratingTold, rows'[s].status # "UNFILED",
                NEW field \in ModeratingFields
         PROVE  Moderating!Tells(s, field)'
    <2>0. s \in Moderating!Subjects
      BY DEF ModeratingTold, Moderating!Subjects
    <2>1. CASE s = q.subject
      <3>1. Moderating!About(s, field)' = {}
        BY <1>3, <1>6, <2>1 DEF ModeratingUnfiled, Moderating!About
      <3>2. rows'[s] = row /\ rows[s] = Moderating!Start(s)
        BY <1>1, <1>3, <1>8, <2>1 DEF ModeratingUnfiled
      <3>3. Moderating!Start(s) = [status |-> "UNFILED", mark |-> Moderating!NoOne]
        BY <1>2, <2>0, <2>1, ModeratingAssumption, FilesAssumption DEF Moderating!Start,
           Moderating!Subjects, Moderating!Accounts
      <3>4. Moderating!Begun(s) = [status |-> "OPEN", mark |-> Moderating!NoOne]
        BY <1>2, <2>1, <3>3 DEF Moderating!Begun
      <3>5. rows'[s][field] = Moderating!Begun(s)[field]
        BY <1>9, <2>1, <3>2, <3>3, <3>4 DEF ModeratingFields
      <3> QED
        BY <3>1, <3>5 DEF Moderating!Tells, Moderating!Begun, Moderating!Start
    <2>2. CASE s # q.subject
      <3>1. rows'[s] = rows[s]
        BY <1>10, <2>0, <2>2
      <3>2. Moderating!Tells(s, field)
        BY <1>11, <3>1 DEF ModeratingInv, Moderating!AuditTellsState, ModeratingTold,
           ModeratingFields
      <3> QED
        BY <1>6, <3>1, <3>2, ModeratingTellsStill DEF ModeratingInv, Moderating!TypeOK
    <2> QED
      BY <2>1, <2>2
  <1>12. Moderating!AuditTellsState'
    BY <1>11 DEF Moderating!AuditTellsState, ModeratingTold, ModeratingFields
  <1>13. audit' \in Seq(Moderating!Entry) /\ ModeratingLogOK' /\ ModeratingOnlyAdds(q.subject)
    BY <1>6 DEF ModeratingInv, Moderating!TypeOK, ModeratingLogOK, ModeratingOnlyAdds
  <1> QED
    BY <1>1, <1>5, <1>6, <1>8, <1>9, <1>12, <1>13, ModeratingRequestWrites

LEMMA ModeratingLogKeeps ==
    ASSUME ModeratingInv, NEW q \in requests, Moderating!Log(q)
    PROVE  ModeratingInv'
  <1>1. /\ q \in Moderating!Request /\ q.at = "log" /\ q.action \in {"REFUND", "CREATED"}
        /\ ModeratingRequestOK(q)
        /\ q.subject \in Moderating!Subjects /\ rows \in [Moderating!Subjects -> Moderating!Row]
        /\ rows[q.subject] \in Moderating!Row
    BY DEF Moderating!Log, ModeratingInv, Moderating!TypeOK, Moderating!Request, ModeratingRequestOK
  <1>2. rows[q.subject].status # "UNFILED"
    <2>1. ~ModeratingUnfiled(q.subject)
      BY <1>1 DEF ModeratingUnfiled
    <2> QED
      BY <1>1, <2>1 DEF ModeratingInv, ModeratingFiledOnce
  <1>3. PICK r : r = Moderating!To(q, "view")
    OBVIOUS
  <1>4. /\ r \in Moderating!Request
        /\ r.action = q.action /\ r.subject = q.subject /\ r.from = q.from /\ r.admin = q.admin
        /\ r.at = "view"
    BY <1>1, <1>3 DEF Moderating!To, Moderating!Request
  <1>5. requests' = (requests \ {q}) \cup {r} /\ pages' = pages /\ asked' = asked /\ rows' = rows
    BY <1>3 DEF Moderating!Log, Moderating!On
  <1>6. PICK row \in Moderating!Row : row = rows[q.subject] /\ rows' = [rows EXCEPT ![q.subject] = row]
    BY <1>1, <1>5
  <1>7. PICK e : e = [actor |-> q.from, action |-> q.action, subject |-> q.subject]
    OBVIOUS
  <1>8. e \in Moderating!Entry /\ e.action = q.action /\ e.subject = q.subject
    BY <1>1, <1>7 DEF Moderating!Entry, Moderating!Request
  <1>9. audit' = Append(audit, e)
    BY <1>7 DEF Moderating!Log, Moderating!Logged
  <1>10. ASSUME NEW s \in ModeratingTold, rows'[s].status # "UNFILED",
                NEW field \in ModeratingFields
         PROVE  Moderating!Tells(s, field)'
    <2>1. Moderating!Tells(s, field)
      BY <1>5, <1>10 DEF ModeratingInv, Moderating!AuditTellsState, ModeratingTold, ModeratingFields
    <2>2. e.action \notin Moderating!Sets(field)
      BY <1>1, <1>8 DEF Moderating!Sets, ModeratingFields, Moderating!UserActions,
         Moderating!CollectiveActions, Moderating!ReportActions
    <2> QED
      BY <1>5, <1>8, <1>9, <2>1, <2>2, ModeratingTellsStill DEF ModeratingInv, Moderating!TypeOK
  <1>11. Moderating!AuditTellsState'
    BY <1>10 DEF Moderating!AuditTellsState, ModeratingTold, ModeratingFields
  <1>12. audit' \in Seq(Moderating!Entry) /\ ModeratingLogOK' /\ ModeratingOnlyAdds(q.subject)
    BY <1>1, <1>8, <1>9, ModeratingEntryAdds
  <1> QED
    BY <1>1, <1>2, <1>4, <1>5, <1>6, <1>11, <1>12, ModeratingRequestWrites

-----------------------------------------------------------------------------
(* What is done from the pages *)

\* A page changes, and is about something filed or stays empty.
ModeratingPageMay(b) ==
    /\ pages'[b].subject = pages[b].subject
    /\ pages'[b].dialog # Moderating!NoOne => pages'[b].dialog \in Moderating!ActionsOn(pages[b].subject)
    /\ rows[pages[b].subject].status = "UNFILED" => pages'[b].shown = Moderating!Unknown /\ pages'[b].dialog = Moderating!NoOne

\* Nothing is written: what is asked is about something filed.
LEMMA ModeratingPagesGo ==
    ASSUME ModeratingInv, rows' = rows, audit' = audit, asked' \in 0..MaxCalls,
           pages' \in [Pair -> Moderating!Page], \A b \in Pair : ModeratingPageMay(b), requests' \subseteq Moderating!Request,
           \A c \in requests' : c \notin requests =>
              ModeratingRequestOK(c)' /\ c.action # "CREATED" /\ rows[c.subject].status # "UNFILED"
    PROVE  ModeratingInv'
  <1>1. Moderating!TypeOK'
    BY DEF ModeratingInv, Moderating!TypeOK
  <1>2. ASSUME NEW c \in requests' PROVE ModeratingRequestOK(c)'
    <2>1. CASE c \in requests
      <3>1. c \in Moderating!Request /\ ModeratingRequestOK(c)
        BY <2>1 DEF ModeratingInv, Moderating!TypeOK
      <3> QED
        BY <3>1 DEF ModeratingRequestOK, ModeratingPageMay, Moderating!Request
    <2> QED
      BY <2>1
  <1>3. ModeratingFiledOnce'
    <2>1. \A c \in requests' : c.action = "CREATED" /\ c.at = "write" => rows'[c.subject].status = "UNFILED"
      BY DEF ModeratingInv, ModeratingFiledOnce
    <2>2. \A c, d \in requests' :
            c.action = "CREATED" /\ d.action = "CREATED" /\ c.subject = d.subject => c = d
      BY DEF ModeratingInv, ModeratingFiledOnce
    <2>3. ASSUME NEW s \in Moderating!Subjects, rows'[s].status = "UNFILED"
          PROVE  ModeratingUnfiled(s)'
      <3>1. ModeratingUnfiled(s)
        BY <2>3 DEF ModeratingInv, ModeratingFiledOnce
      <3>2. \A c \in requests' : c.subject = s => c.action = "CREATED" /\ c.at \in {"write", "answer"}
        BY <2>3, <3>1 DEF ModeratingUnfiled
      <3>3. \A a \in Pair : pages'[a].subject = s => pages'[a].shown = Moderating!Unknown /\ pages'[a].dialog = Moderating!NoOne
        BY <2>3 DEF ModeratingPageMay
      <3> QED
        BY <3>1, <3>2, <3>3 DEF ModeratingUnfiled
    <2> QED
      BY <2>1, <2>2, <2>3 DEF ModeratingFiledOnce
  <1>4. ModeratingPagesOK'
    BY DEF ModeratingPageMay, ModeratingPagesOK
  <1> QED
    BY <1>1, <1>2, <1>3, <1>4, ModeratingLogStands DEF ModeratingInv

\* One page changes.
LEMMA ModeratingPageGoes ==
    ASSUME ModeratingInv, NEW a \in Pair, NEW pg \in Moderating!Page,
           pages' = [pages EXCEPT ![a] = pg],
           pg.subject = pages[a].subject,
           pg.dialog # Moderating!NoOne => pg.dialog \in Moderating!ActionsOn(pg.subject),
           rows[pg.subject].status = "UNFILED" => pg.shown = Moderating!Unknown /\ pg.dialog = Moderating!NoOne
    PROVE  pages' \in [Pair -> Moderating!Page] /\ \A b \in Pair : ModeratingPageMay(b)
  <1>1. pages \in [Pair -> Moderating!Page]
    BY DEF ModeratingInv, Moderating!TypeOK
  <1>2. ASSUME NEW b \in Pair PROVE ModeratingPageMay(b)
    <2>1. CASE b = a
      BY <1>1, <2>1 DEF ModeratingPageMay
    <2>2. CASE b # a
      <3>1. pages'[b] = pages[b] /\ pages[b].subject \in Moderating!Subjects
        BY <1>1, <2>2 DEF Moderating!Page
      <3>2. rows[pages[b].subject].status = "UNFILED" => ModeratingUnfiled(pages[b].subject)
        BY <3>1 DEF ModeratingInv, ModeratingFiledOnce
      <3> QED
        BY <3>1, <3>2 DEF ModeratingPageMay, ModeratingUnfiled, ModeratingInv, ModeratingPagesOK
    <2> QED
      BY <2>1, <2>2
  <1> QED
    BY <1>1, <1>2

\* What is shown or asked about was filed.
LEMMA ModeratingShownIsFiled ==
    ASSUME ModeratingInv, NEW a \in Pair
    PROVE  /\ pages[a] \in Moderating!Page /\ pages[a].subject \in Moderating!Subjects
           /\ pages[a].shown # Moderating!Unknown => rows[pages[a].subject].status # "UNFILED"
           /\ pages[a].dialog # Moderating!NoOne => rows[pages[a].subject].status # "UNFILED"
  <1>1. pages[a] \in Moderating!Page /\ pages[a].subject \in Moderating!Subjects
    BY DEF ModeratingInv, Moderating!TypeOK, Moderating!Page
  <1> QED
    BY <1>1 DEF ModeratingInv, ModeratingFiledOnce, ModeratingUnfiled

LEMMA ModeratingActKeeps ==
    ASSUME ModeratingInv, NEW a \in Pair, NEW action \in Moderating!Actions,
           Moderating!Act(a, action)
    PROVE  ModeratingInv'
  <1>1. PICK pg : pg = [pages[a] EXCEPT !.dialog = action]
    OBVIOUS
  <1>2. /\ pg \in Moderating!Page /\ pg.subject = pages[a].subject /\ pg.shown = pages[a].shown
        /\ pg.dialog = action
    BY <1>1, ModeratingShownIsFiled DEF Moderating!Page
  <1>3. /\ pages' = [pages EXCEPT ![a] = pg] /\ pages[a].shown # Moderating!Unknown
        /\ action \in Moderating!ActionsOn(pages[a].subject)
        /\ rows' = rows /\ audit' = audit /\ requests' = requests /\ asked' = asked
    BY <1>1 DEF Moderating!Act, Moderating!SetPage
  <1>4. rows[pg.subject].status # "UNFILED"
    BY <1>2, <1>3, ModeratingShownIsFiled
  <1>5. pages' \in [Pair -> Moderating!Page] /\ \A b \in Pair : ModeratingPageMay(b)
    BY <1>2, <1>3, <1>4, ModeratingPageGoes
  <1>6. asked' \in 0..MaxCalls /\ requests' \subseteq Moderating!Request
    BY <1>3 DEF ModeratingInv, Moderating!TypeOK
  <1> QED
    BY <1>3, <1>5, <1>6, ModeratingPagesGo

LEMMA ModeratingCancelKeeps ==
    ASSUME ModeratingInv, NEW a \in Pair, Moderating!Cancel(a)
    PROVE  ModeratingInv'
  <1>1. PICK pg : pg = [pages[a] EXCEPT !.dialog = Moderating!NoOne]
    OBVIOUS
  <1>2. /\ pg \in Moderating!Page /\ pg.subject = pages[a].subject /\ pg.shown = pages[a].shown
        /\ pg.dialog = Moderating!NoOne
    BY <1>1, ModeratingShownIsFiled DEF Moderating!Page
  <1>3. /\ pages' = [pages EXCEPT ![a] = pg]
        /\ rows' = rows /\ audit' = audit /\ requests' = requests /\ asked' = asked
    BY <1>1 DEF Moderating!Cancel, Moderating!SetPage
  <1>4. rows[pg.subject].status = "UNFILED" => pg.shown = Moderating!Unknown
    BY <1>2, ModeratingShownIsFiled
  <1>5. pages' \in [Pair -> Moderating!Page] /\ \A b \in Pair : ModeratingPageMay(b)
    BY <1>2, <1>3, <1>4, ModeratingPageGoes
  <1>6. asked' \in 0..MaxCalls /\ requests' \subseteq Moderating!Request
    BY <1>3 DEF ModeratingInv, Moderating!TypeOK
  <1> QED
    BY <1>3, <1>5, <1>6, ModeratingPagesGo

\* A request is counted.
LEMMA ModeratingCounts ==
    ASSUME ModeratingInv, asked < MaxCalls
    PROVE  asked + 1 \in 1..MaxCalls /\ asked + 1 \in 0..MaxCalls
  BY ModeratingAssumption, FilesAssumption DEF ModeratingInv, Moderating!TypeOK

LEMMA ModeratingConfirmKeeps ==
    ASSUME ModeratingInv, NEW a \in Pair, Moderating!Confirm(a)
    PROVE  ModeratingInv'
  <1>1. PICK pg : pg = [pages[a] EXCEPT !.busy = TRUE]
    OBVIOUS
  <1>2. /\ pg \in Moderating!Page /\ pg.subject = pages[a].subject /\ pg.shown = pages[a].shown
        /\ pg.dialog = pages[a].dialog
    BY <1>1, ModeratingShownIsFiled DEF Moderating!Page
  <1>3. /\ pages' = [pages EXCEPT ![a] = pg] /\ pages[a].dialog # Moderating!NoOne
        /\ rows' = rows /\ audit' = audit
    BY <1>1 DEF Moderating!Confirm, Moderating!SetPage
  <1>4. PICK n : n = asked + 1
    OBVIOUS
  <1>5. n \in 1..MaxCalls /\ n \in 0..MaxCalls /\ asked' = n
    BY <1>4, ModeratingCounts DEF Moderating!Confirm, Moderating!Ask
  <1>6. PICK r : r = [n |-> n, admin |-> a, from |-> a, action |-> pages[a].dialog,
                      subject |-> pages[a].subject, at |-> "read", ok |-> FALSE, row |-> Moderating!Unknown]
    OBVIOUS
  <1>7. requests' = requests \cup {r}
    BY <1>4, <1>6 DEF Moderating!Confirm, Moderating!Ask
  <1>8. /\ pages[a].dialog \in Moderating!ActionsOn(pages[a].subject)
        /\ pages[a].subject \in Moderating!Subjects
        /\ rows[pages[a].subject].status # "UNFILED"
    BY <1>3, ModeratingShownIsFiled DEF ModeratingInv, ModeratingPagesOK
  <1>9. pages[a].dialog \in Moderating!Actions /\ pages[a].dialog # "CREATED"
    BY <1>8, ModeratingActionsAre DEF Moderating!Subjects, Moderating!Actions,
       Moderating!UserActions, Moderating!CollectiveActions, Moderating!ReportActions
  <1>10. r \in Moderating!Request
    BY <1>5, <1>6, <1>8, <1>9 DEF Moderating!Request
  <1>11. pages' \in [Pair -> Moderating!Page] /\ \A b \in Pair : ModeratingPageMay(b)
    BY <1>2, <1>3, <1>8, ModeratingPageGoes
  <1>12. ModeratingRequestOK(r)'
    BY <1>6, <1>8, <1>9, <1>11 DEF ModeratingRequestOK, ModeratingPageMay
  <1>13. requests' \subseteq Moderating!Request
    BY <1>7, <1>10 DEF ModeratingInv, Moderating!TypeOK
  <1>14. r.action # "CREATED" /\ rows[r.subject].status # "UNFILED"
    BY <1>6, <1>8, <1>9
  <1> QED
    BY <1>3, <1>5, <1>7, <1>11, <1>12, <1>13, <1>14, ModeratingPagesGo

LEMMA ModeratingOpenKeeps ==
    ASSUME ModeratingInv, NEW a \in Pair, Moderating!Open(a)
    PROVE  ModeratingInv'
  <1>0. PICK s : s = pages[a].subject
    OBVIOUS
  <1>1. PICK pg : pg = [subject |-> s, shown |-> Moderating!Unknown, dialog |-> Moderating!NoOne, busy |-> FALSE]
    OBVIOUS
  <1>2. /\ pg \in Moderating!Page /\ pg.subject = pages[a].subject /\ pg.shown = Moderating!Unknown
        /\ pg.dialog = Moderating!NoOne /\ s \in Moderating!Subjects
    BY <1>0, <1>1, ModeratingShownIsFiled DEF Moderating!Page
  <1>3. /\ pages' = [pages EXCEPT ![a] = pg] /\ rows[s].status # "UNFILED"
        /\ rows' = rows /\ audit' = audit /\ asked < MaxCalls /\ asked' = asked + 1
    BY <1>0, <1>1 DEF Moderating!Open, Moderating!SetPage
  <1>4. PICK n : n = asked + 1
    OBVIOUS
  <1>5. n \in 1..MaxCalls /\ n \in 0..MaxCalls /\ asked' = n
    BY <1>3, <1>4, ModeratingCounts
  <1>6. PICK r : r = [n |-> n, admin |-> a, from |-> a, action |-> "LOAD",
                      subject |-> s, at |-> "read", ok |-> FALSE, row |-> Moderating!Unknown]
    OBVIOUS
  <1>7. requests' = Moderating!Unseen(a) \cup {r}
    BY <1>0, <1>4, <1>6 DEF Moderating!Open
  <1>8. r \in Moderating!Request
    BY <1>2, <1>5, <1>6 DEF Moderating!Request, Moderating!Actions
  <1>9. pages' \in [Pair -> Moderating!Page] /\ \A b \in Pair : ModeratingPageMay(b)
    BY <1>2, <1>3, ModeratingPageGoes
  <1>10. ModeratingRequestOK(r)' /\ r.action # "CREATED" /\ rows[r.subject].status # "UNFILED"
    BY <1>0, <1>3, <1>6, <1>9 DEF ModeratingRequestOK, ModeratingPageMay
  <1>11. ASSUME NEW c \in Moderating!Unseen(a)
         PROVE  /\ c \in Moderating!Request
                /\ c \notin requests => ModeratingRequestOK(c)' /\ c.action # "CREATED" /\ rows[c.subject].status # "UNFILED"
    <2>1. PICK q \in requests : c = IF q.admin = a THEN [q EXCEPT !.admin = Moderating!NoOne] ELSE q
      BY DEF Moderating!Unseen
    <2>2. q \in Moderating!Request /\ ModeratingRequestOK(q) /\ q.subject \in Moderating!Subjects
      BY DEF ModeratingInv, Moderating!TypeOK, Moderating!Request
    <2>3. CASE q.admin # a
      BY <2>1, <2>2, <2>3
    <2>4. CASE q.admin = a /\ a = Moderating!NoOne
      <3>1. c = q
        BY <2>1, <2>2, <2>4 DEF Moderating!Request
      <3> QED
        BY <2>2, <3>1
    <2>5. CASE q.admin = a /\ a # Moderating!NoOne
      <3>1. /\ c \in Moderating!Request
            /\ c.action = q.action /\ c.subject = q.subject /\ c.from = q.from /\ c.at = q.at
            /\ c.admin = Moderating!NoOne
        BY <2>1, <2>2, <2>5 DEF Moderating!Request
      <3>2. q.action # "CREATED"
        BY <2>2, <2>5 DEF ModeratingRequestOK
      <3>3. rows[q.subject].status # "UNFILED"
        BY <2>2, <3>2 DEF ModeratingInv, ModeratingFiledOnce, ModeratingUnfiled
      <3>4. ModeratingRequestOK(c)'
        BY <2>2, <3>1, <3>2 DEF ModeratingRequestOK
      <3> QED
        BY <3>1, <3>2, <3>3, <3>4
    <2> QED
      BY <2>3, <2>4, <2>5
  <1>12. requests' \subseteq Moderating!Request
    BY <1>7, <1>8, <1>11
  <1> QED
    BY <1>3, <1>5, <1>7, <1>9, <1>10, <1>11, <1>12, ModeratingPagesGo

LEMMA ModeratingAnswerKeeps ==
    ASSUME ModeratingInv, NEW q \in requests, Moderating!Answer(q)
    PROVE  ModeratingInv'
  <1>1. q \in Moderating!Request /\ ModeratingRequestOK(q) /\ q.subject \in Moderating!Subjects
    BY DEF ModeratingInv, Moderating!TypeOK, Moderating!Request
  <1>2. /\ rows' = rows /\ audit' = audit /\ asked' = asked /\ requests' \subseteq requests
        /\ asked' \in 0..MaxCalls /\ requests' \subseteq Moderating!Request
    BY DEF Moderating!Answer, ModeratingInv, Moderating!TypeOK
  <1>3. CASE q.admin = Moderating!NoOne
    <2>1. pages' = pages /\ pages' \in [Pair -> Moderating!Page]
      BY <1>3 DEF Moderating!Answer, ModeratingInv, Moderating!TypeOK
    <2>2. ASSUME NEW b \in Pair PROVE ModeratingPageMay(b)
      BY <2>1, ModeratingShownIsFiled DEF ModeratingPageMay, ModeratingInv, ModeratingPagesOK
    <2> QED
      BY <1>2, <2>1, <2>2, ModeratingPagesGo
  <1>4. CASE q.admin # Moderating!NoOne
    <2>1. q.admin \in Pair /\ q.action # "CREATED" /\ pages[q.admin].subject = q.subject
      BY <1>1, <1>4 DEF Moderating!Request, ModeratingRequestOK
    <2>2. rows[q.subject].status # "UNFILED"
      BY <1>1, <2>1 DEF ModeratingInv, ModeratingFiledOnce, ModeratingUnfiled
    <2>3. PICK a \in Pair : a = q.admin
      BY <2>1
    <2>4. PICK pg : pg = [pages[a] EXCEPT !.shown = IF q.ok THEN q.row ELSE @,
                                          !.dialog = IF q.ok THEN Moderating!NoOne ELSE @,
                                          !.busy = FALSE]
      OBVIOUS
    <2>5. pages' = [pages EXCEPT ![a] = pg]
      BY <1>4, <2>3, <2>4 DEF Moderating!Answer, Moderating!SetPage
    <2>6. pages[a] \in Moderating!Page /\ q.row \in Moderating!Row \cup {Moderating!Unknown}
      BY <1>1, ModeratingShownIsFiled DEF Moderating!Request
    <2>7. /\ pg \in Moderating!Page /\ pg.subject = pages[a].subject
          /\ pg.dialog = Moderating!NoOne \/ pg.dialog = pages[a].dialog
      BY <2>4, <2>6 DEF Moderating!Page
    <2>8. pg.dialog # Moderating!NoOne => pg.dialog \in Moderating!ActionsOn(pg.subject)
      BY <2>7 DEF ModeratingInv, ModeratingPagesOK
    <2>9. rows[pg.subject].status # "UNFILED"
      BY <2>1, <2>2, <2>3, <2>7
    <2>10. pages' \in [Pair -> Moderating!Page] /\ \A b \in Pair : ModeratingPageMay(b)
      BY <2>5, <2>7, <2>8, <2>9, ModeratingPageGoes
    <2> QED
      BY <1>2, <2>10, ModeratingPagesGo
  <1> QED
    BY <1>3, <1>4

LEMMA ModeratingReportKeeps ==
    ASSUME ModeratingInv, NEW s \in Reported, Moderating!Report(s)
    PROVE  ModeratingInv'
  <1>1. /\ s \in Moderating!Subjects /\ rows[s].status = "UNFILED" /\ \A c \in requests : c.subject # s
        /\ rows' = rows /\ audit' = audit /\ pages' = pages /\ asked < MaxCalls
        /\ asked' = asked + 1
    BY DEF Moderating!Report, Moderating!Ask, Moderating!Subjects
  <1>2. PICK n : n = asked + 1
    OBVIOUS
  <1>3. n \in 1..MaxCalls /\ asked' \in 0..MaxCalls
    BY <1>1, <1>2, ModeratingCounts
  <1>4. PICK r : r = [n |-> n, admin |-> Moderating!NoOne, from |-> Moderating!NoOne, action |-> "CREATED",
                      subject |-> s, at |-> "write", ok |-> FALSE, row |-> Moderating!Unknown]
    OBVIOUS
  <1>5. requests' = requests \cup {r}
    BY <1>2, <1>4 DEF Moderating!Report, Moderating!Ask
  <1>6. /\ r \in Moderating!Request /\ r.action = "CREATED" /\ r.subject = s /\ r.at = "write"
        /\ r.admin = Moderating!NoOne
    BY <1>1, <1>3, <1>4 DEF Moderating!Request, Moderating!Actions
  <1>7. Moderating!TypeOK'
    BY <1>1, <1>3, <1>5, <1>6 DEF ModeratingInv, Moderating!TypeOK
  <1>8. ASSUME NEW c \in requests' PROVE ModeratingRequestOK(c)'
    <2>1. CASE c = r
      BY <1>6, <2>1 DEF ModeratingRequestOK
    <2>2. CASE c # r
      <3>1. ModeratingRequestOK(c)
        BY <1>5, <2>2 DEF ModeratingInv
      <3> QED
        BY <1>1, <3>1 DEF ModeratingRequestOK
    <2> QED
      BY <2>1, <2>2
  <1>9. ModeratingFiledOnce'
    <2>1. \A c \in requests' : c.action = "CREATED" /\ c.at = "write" => rows'[c.subject].status = "UNFILED"
      BY <1>1, <1>5, <1>6 DEF ModeratingInv, ModeratingFiledOnce
    <2>2. \A c, d \in requests' :
            c.action = "CREATED" /\ d.action = "CREATED" /\ c.subject = d.subject => c = d
      BY <1>1, <1>5, <1>6 DEF ModeratingInv, ModeratingFiledOnce
    <2>3. ASSUME NEW t \in Moderating!Subjects, rows'[t].status = "UNFILED"
          PROVE  ModeratingUnfiled(t)'
      <3>1. ModeratingUnfiled(t)
        BY <1>1, <2>3 DEF ModeratingInv, ModeratingFiledOnce
      <3>2. \A c \in requests' : c.subject = t => c.action = "CREATED" /\ c.at \in {"write", "answer"}
        BY <1>5, <1>6, <3>1 DEF ModeratingUnfiled
      <3> QED
        BY <1>1, <3>1, <3>2 DEF ModeratingUnfiled
    <2> QED
      BY <2>1, <2>2, <2>3 DEF ModeratingFiledOnce
  <1>10. ModeratingPagesOK'
    BY <1>1 DEF ModeratingInv, ModeratingPagesOK
  <1> QED
    BY <1>1, <1>7, <1>8, <1>9, <1>10, ModeratingLogStands DEF ModeratingInv

-----------------------------------------------------------------------------
LEMMA ModeratingInitially == Moderating!Init => ModeratingInv
  <1> SUFFICES ASSUME Moderating!Init PROVE ModeratingInv
    OBVIOUS
  <1>1. PICK s \in Moderating!Subjects :
          pages = [a \in Pair |-> [subject |-> s, shown |-> Moderating!Unknown, dialog |-> Moderating!NoOne, busy |-> FALSE]]
    BY DEF Moderating!Init
  <1>2. ASSUME NEW t \in Moderating!Subjects
        PROVE  /\ Moderating!Start(t) \in Moderating!Row
               /\ Moderating!Start(t).status = "UNFILED" <=> t \in Reported
    <2>1. Moderating!Start(t) = IF t \in Reported THEN [status |-> "UNFILED", mark |-> Moderating!NoOne]
                                ELSE IF t \in Paid THEN [status |-> "SUCCESS", mark |-> Moderating!NoOne]
                                ELSE [status |-> "ACTIVE", mark |-> Moderating!NoOne]
      BY ModeratingAssumption, FilesAssumption DEF Moderating!Start, Moderating!Subjects,
         Moderating!Accounts
    <2> QED
      BY <2>1 DEF Moderating!Row
  <1>3. /\ rows = [t \in Moderating!Subjects |-> Moderating!Start(t)] /\ audit = <<>>
        /\ requests = {} /\ asked = 0
    BY DEF Moderating!Init
  <1>4. Moderating!TypeOK
    <2>1. \A a \in Pair : pages[a] \in Moderating!Page
      BY <1>1 DEF Moderating!Page
    <2>2. pages \in [Pair -> Moderating!Page]
      BY <1>1, <2>1
    <2>3. 0 \in 0..MaxCalls /\ audit \in Seq(Moderating!Entry)
      BY <1>3, ModeratingAssumption, FilesAssumption
    <2> QED
      BY <1>2, <1>3, <2>2, <2>3 DEF Moderating!TypeOK
  <1>5. ModeratingFiledOnce
    BY <1>1, <1>2, <1>3 DEF ModeratingFiledOnce, ModeratingUnfiled
  <1>6. ModeratingPagesOK /\ ModeratingLogOK
    BY <1>1, <1>3 DEF ModeratingPagesOK, ModeratingLogOK
  <1>7. Moderating!AuditTellsState
    <2>1. ASSUME NEW t \in ModeratingTold, rows[t].status # "UNFILED",
                 NEW field \in ModeratingFields
          PROVE  Moderating!Tells(t, field)
      <3>1. t \in Moderating!Subjects /\ t \notin Reported
        BY <1>2, <1>3, <2>1 DEF ModeratingTold, Moderating!Subjects
      <3>2. Moderating!About(t, field) = {} /\ Moderating!Begun(t) = Moderating!Start(t)
        BY <1>3, <3>1 DEF Moderating!About, Moderating!Begun
      <3> QED
        BY <1>3, <3>1, <3>2 DEF Moderating!Tells
    <2> QED
      BY <2>1 DEF Moderating!AuditTellsState, ModeratingTold, ModeratingFields
  <1> QED
    BY <1>3, <1>4, <1>5, <1>6, <1>7 DEF ModeratingInv

LEMMA ModeratingSteps == ASSUME ModeratingInv, Moderating!Next PROVE ModeratingInv'
  <1>1. CASE \E q \in requests : \/ Moderating!Find(q) \/ Moderating!Write(q) \/ Moderating!File(q) \/ Moderating!Log(q) \/ Moderating!View(q) \/ Moderating!Crash(q)
                                 \/ Moderating!Answer(q) \/ Moderating!Lose(q)
    BY <1>1, ModeratingFindKeeps, ModeratingWriteKeeps, ModeratingFileKeeps, ModeratingLogKeeps,
       ModeratingViewKeeps, ModeratingCrashKeeps, ModeratingAnswerKeeps, ModeratingLoseKeeps
  <1>2. CASE \E s \in Reported : Moderating!Report(s)
    BY <1>2, ModeratingReportKeeps
  <1>3. CASE \E a \in Pair : Moderating!Open(a) \/ Moderating!Cancel(a) \/ Moderating!Confirm(a) \/ \E action \in Moderating!Actions : Moderating!Act(a, action)
    BY <1>3, ModeratingOpenKeeps, ModeratingCancelKeeps, ModeratingConfirmKeeps, ModeratingActKeeps
  <1> QED
    BY <1>1, <1>2, <1>3 DEF Moderating!Next

LEMMA ModeratingShows == ASSUME ModeratingInv PROVE Moderating!TypeOK /\ Moderating!AuditTellsState
  BY DEF ModeratingInv

-----------------------------------------------------------------------------
(* Matches (Matching): each part is within its weight, and says what is so. *)

ScoringInv == Scoring!TypeOK

\* What Matching counts with is what the library's theorems are about.
LEMMA ScoringCardinality == \A S : Scoring!Cardinality(S) = Cardinality(S)
  BY Zenon DEF Scoring!Cardinality, Cardinality

-----------------------------------------------------------------------------
(* Posts and distances *)

LEMMA ScoringPostsAre ==
    ASSUME NEW a \in Scoring!Post
    PROVE  /\ a.timeline \in 1..4 /\ a.level \in Scoring!INTENT_LEVELS
           /\ a.trip.month \in Nat /\ a.trip.week \in Nat /\ a.trip.nights \in Nat
           /\ a.trip # Scoring!NoTrip => a.trip.hotel \in 1..4
           /\ a.trip \in Scoring!Trip \cup {Scoring!NoTrip}
  <1>1. DOMAIN Scoring!PURCHASE_TIMELINES = 1..4 /\ DOMAIN Scoring!HOTEL_CATEGORIES = 1..4
    BY DEF Scoring!PURCHASE_TIMELINES, Scoring!HOTEL_CATEGORIES
  <1>2. /\ a.timeline \in 1..4 /\ a.level \in Scoring!INTENT_LEVELS
        /\ a.trip \in Scoring!Trip \cup {Scoring!NoTrip}
    BY <1>1 DEF Scoring!Post
  <1>3. CASE a.trip \in Scoring!Trip
    BY <1>1, <1>2, <1>3, ScoringAssumption DEF Scoring!Trip
  <1>4. CASE a.trip = Scoring!NoTrip
    BY <1>2, <1>4 DEF Scoring!NoTrip
  <1> QED
    BY <1>2, <1>3, <1>4

\* The band is the smallest that reaches.
LEMMA ScoringBandIs ==
    ASSUME NEW km \in Nat
    PROVE  Scoring!BandFor(km) = IF km <= 5 THEN 5 ELSE IF km <= 10 THEN 10 ELSE IF km <= 25 THEN 25 ELSE 0
  <1> DEFINE wide == {b \in Scoring!NEARBY_BANDS_KM : km <= b}
  <1>1. CASE km <= 5
    <2>1. wide # {} /\ \A b \in wide : (\A c \in wide : b <= c) <=> b = 5
      BY <1>1 DEF Scoring!NEARBY_BANDS_KM
    <2>2. 5 \in wide
      BY <1>1 DEF Scoring!NEARBY_BANDS_KM
    <2> QED
      BY <1>1, <2>1, <2>2 DEF Scoring!BandFor
  <1>2. CASE km > 5 /\ km <= 10
    <2>1. 10 \in wide /\ \A b \in wide : (\A c \in wide : b <= c) <=> b = 10
      BY <1>2 DEF Scoring!NEARBY_BANDS_KM
    <2> QED
      BY <1>2, <2>1 DEF Scoring!BandFor
  <1>3. CASE km > 10 /\ km <= 25
    <2>1. 25 \in wide /\ \A b \in wide : (\A c \in wide : b <= c) <=> b = 25
      BY <1>3 DEF Scoring!NEARBY_BANDS_KM
    <2> QED
      BY <1>3, <2>1 DEF Scoring!BandFor
  <1>4. CASE km > 25
    <2>1. wide = {}
      BY <1>4 DEF Scoring!NEARBY_BANDS_KM
    <2> QED
      BY <1>4, <2>1 DEF Scoring!BandFor
  <1> QED
    BY <1>1, <1>2, <1>3, <1>4

-----------------------------------------------------------------------------
(* What each part is worth and says *)

LEMMA ScoringTimelineIs ==
    ASSUME NEW a \in Scoring!Post, NEW b \in Scoring!Post, NEW w \in Nat, NEW f,
           f = Scoring!Timeline(a, b, w)
    PROVE  /\ f.weight = w /\ f.value \in 0..100
           /\ a.timeline = b.timeline => f.value = 100
           /\ Scoring!LinesUpWell(f) => \/ f.reason = "SameTimeline" /\ a.timeline = b.timeline
                                        \/ f.reason = "SimilarTimeline" /\ Scoring!Gap(a.timeline, b.timeline) = 1
  <1>1. PICK gap : gap = Scoring!Gap(a.timeline, b.timeline)
    OBVIOUS
  <1>2. gap \in 0..3 /\ (gap = 0 <=> a.timeline = b.timeline)
    BY <1>1, ScoringPostsAre DEF Scoring!Gap
  <1>3. f = Scoring!Factor(w, <<100, 67, 33, 0>>[gap + 1], IF gap = 0 THEN "SameTimeline" ELSE "SimilarTimeline")
    BY <1>1 DEF Scoring!Timeline
  <1>4. CASE gap = 0
    BY <1>2, <1>3, <1>4 DEF Scoring!Factor, Scoring!LinesUpWell, Scoring!NoReason
  <1>5. CASE gap = 1
    BY <1>1, <1>2, <1>3, <1>5 DEF Scoring!Factor, Scoring!LinesUpWell, Scoring!NoReason
  <1>6. CASE gap = 2
    BY <1>2, <1>3, <1>6 DEF Scoring!Factor, Scoring!LinesUpWell, Scoring!NoReason
  <1>7. CASE gap = 3
    BY <1>2, <1>3, <1>7 DEF Scoring!Factor, Scoring!LinesUpWell, Scoring!NoReason
  <1> QED
    BY <1>2, <1>4, <1>5, <1>6, <1>7

LEMMA ScoringIntentIs ==
    ASSUME NEW b \in Scoring!Post, NEW w \in Nat, NEW holiday, NEW f,
           f = Scoring!Intent(b, w, holiday)
    PROVE  /\ f.weight = w /\ f.value \in 0..100
           /\ b.level = "READY" => f.value = 100
           /\ Scoring!LinesUpWell(f) => \/ f.reason \in {"ReadyToBuy", "ReadyToBook"} /\ b.level = "READY"
                                        \/ f.reason = "Committed" /\ b.level = "COMMITTED"
  <1>1. b.level \in {"INTERESTED", "COMMITTED", "READY"}
    BY ScoringPostsAre DEF Scoring!INTENT_LEVELS
  <1>2. CASE b.level = "READY"
    BY <1>2 DEF Scoring!Intent, Scoring!Factor, Scoring!LinesUpWell, Scoring!NoReason
  <1>3. CASE b.level = "COMMITTED"
    BY <1>3 DEF Scoring!Intent, Scoring!Factor, Scoring!LinesUpWell, Scoring!NoReason
  <1>4. CASE b.level = "INTERESTED"
    BY <1>4 DEF Scoring!Intent, Scoring!Factor, Scoring!LinesUpWell, Scoring!NoReason
  <1> QED
    BY <1>1, <1>2, <1>3, <1>4

LEMMA ScoringDistanceIs ==
    ASSUME NEW km \in Nat, NEW w \in Nat, NEW f, f = Scoring!Distance(km, w)
    PROVE  /\ km = 0 => f.weight = 0
           /\ km # 0 => f.weight = w
           /\ f.value \in 0..100
           /\ km \in 1..5 => f.value = 100
           /\ Scoring!LinesUpWell(f) => \/ f.reason = "Within5km" /\ km \in 1..5
                                        \/ f.reason = "Within10km" /\ km \in 1..10
  <1>1. CASE km = 0
    BY <1>1 DEF Scoring!Distance, Scoring!NoFactor, Scoring!Factor, Scoring!LinesUpWell,
       Scoring!NoReason
  <1>2. CASE km # 0
    <2>1. PICK band : band = Scoring!BandFor(km)
      OBVIOUS
    <2>2. /\ band \in {0, 5, 10, 25}
          /\ km \in 1..5 <=> band = 5
          /\ band = 10 => km \in 1..10
      BY <1>2, <2>1, ScoringBandIs
    <2>3. f = IF band = 5 THEN Scoring!Factor(w, 100, "Within5km")
              ELSE IF band = 10 THEN Scoring!Factor(w, 80, "Within10km")
              ELSE IF band = 25 THEN Scoring!Factor(w, 50, "Within25km")
              ELSE Scoring!Factor(w, 20, Scoring!NoReason)
      BY <1>2, <2>1, <2>2 DEF Scoring!Distance
    <2> QED
      BY <1>2, <2>2, <2>3 DEF Scoring!Factor, Scoring!LinesUpWell, Scoring!NoReason
  <1> QED
    BY <1>1, <1>2

LEMMA ScoringDistanceWorth ==
    ASSUME NEW km \in Nat, NEW w \in Nat, NEW f, f = Scoring!Distance(km, w)
    PROVE  f.value \in 0..100
  BY ScoringDistanceIs

LEMMA ScoringDatesIs ==
    ASSUME NEW a \in Scoring!Post, NEW b \in Scoring!Post, NEW w \in Nat, NEW f,
           f = Scoring!Dates(a, b, w)
    PROVE  /\ f.weight = w /\ f.value \in 0..100
           /\ a.trip = b.trip => f.value = 100
           /\ Scoring!LinesUpWell(f) => \/ /\ f.reason = "SameTravelWeek"
                                           /\ a.trip.month = b.trip.month
                                           /\ a.trip.week = b.trip.week
                                        \/ f.reason = "SameTravelMonth" /\ a.trip.month = b.trip.month
  <1>1. PICK gap : gap = Scoring!Gap(a.trip.week, b.trip.week)
    OBVIOUS
  <1>2. gap \in Nat /\ (gap = 0 <=> a.trip.week = b.trip.week)
    BY <1>1, ScoringPostsAre DEF Scoring!Gap
  <1>3. f = IF a.trip.month # b.trip.month THEN Scoring!Factor(w, 0, Scoring!NoReason)
            ELSE IF gap = 0 THEN Scoring!Factor(w, 100, "SameTravelWeek")
            ELSE IF gap = 1 THEN Scoring!Factor(w, 60, "SameTravelMonth")
            ELSE Scoring!Factor(w, 40, "SameTravelMonth")
    BY <1>1, <1>2 DEF Scoring!Dates
  <1> QED
    BY <1>2, <1>3 DEF Scoring!Factor, Scoring!LinesUpWell, Scoring!NoReason

LEMMA ScoringHotelIs ==
    ASSUME NEW a \in Scoring!Post, NEW b \in Scoring!Post, NEW w \in Nat, a.trip # Scoring!NoTrip,
           b.trip # Scoring!NoTrip, NEW f, f = Scoring!Hotel(a, b, w)
    PROVE  /\ f.weight = w /\ f.value \in 0..100
           /\ a.trip = b.trip => f.value = 100
           /\ Scoring!LinesUpWell(f) => f.reason = "SameHotelCategory" /\ a.trip.hotel = b.trip.hotel
  <1>1. PICK gap : gap = Scoring!Gap(a.trip.hotel, b.trip.hotel)
    OBVIOUS
  <1>2. gap \in 0..3 /\ (gap = 0 <=> a.trip.hotel = b.trip.hotel)
    BY <1>1, ScoringPostsAre DEF Scoring!Gap
  <1>3. f = Scoring!Factor(w, <<100, 50, 0, 0>>[gap + 1], "SameHotelCategory")
    BY <1>1 DEF Scoring!Hotel
  <1>4. CASE gap = 0
    BY <1>2, <1>3, <1>4 DEF Scoring!Factor, Scoring!LinesUpWell, Scoring!NoReason
  <1>5. CASE gap = 1
    BY <1>2, <1>3, <1>5 DEF Scoring!Factor, Scoring!LinesUpWell, Scoring!NoReason
  <1>6. CASE gap = 2
    BY <1>2, <1>3, <1>6 DEF Scoring!Factor, Scoring!LinesUpWell, Scoring!NoReason
  <1>7. CASE gap = 3
    BY <1>2, <1>3, <1>7 DEF Scoring!Factor, Scoring!LinesUpWell, Scoring!NoReason
  <1> QED
    BY <1>2, <1>4, <1>5, <1>6, <1>7

LEMMA ScoringStayLengthIs ==
    ASSUME NEW a \in Scoring!Post, NEW b \in Scoring!Post, NEW w \in Nat, NEW f,
           f = Scoring!StayLength(a, b, w)
    PROVE  /\ f.weight = w /\ f.value \in 0..100
           /\ a.trip = b.trip => f.value = 100
           /\ Scoring!LinesUpWell(f) =>
                \/ f.reason = "SameNumberOfNights" /\ a.trip.nights = b.trip.nights
                \/ f.reason = "SimilarTripLength" /\ Scoring!Gap(a.trip.nights, b.trip.nights) \in 1..2
  <1>1. PICK gap : gap = Scoring!Gap(a.trip.nights, b.trip.nights)
    OBVIOUS
  <1>2. gap \in Nat /\ (gap = 0 <=> a.trip.nights = b.trip.nights)
    BY <1>1, ScoringPostsAre DEF Scoring!Gap
  <1>3. f = Scoring!Factor(w, IF gap = 0 THEN 100 ELSE IF gap <= 2 THEN 60 ELSE IF gap <= 4 THEN 30 ELSE 0,
                           IF gap = 0 THEN "SameNumberOfNights" ELSE "SimilarTripLength")
    BY <1>1, <1>2 DEF Scoring!StayLength
  <1> QED
    BY <1>1, <1>2, <1>3 DEF Scoring!Factor, Scoring!LinesUpWell, Scoring!NoReason

-----------------------------------------------------------------------------
(* The six parts together *)

LEMMA ScoringHolidayFactors ==
    ASSUME NEW a, NEW b, NEW km, Scoring!IsHoliday(a, b)
    PROVE  /\ Scoring!Factors(a, b, km)[1] = Scoring!Timeline(a, b, 20) /\ \E h : Scoring!Factors(a, b, km)[2] = Scoring!Intent(b, 20, h)
           /\ Scoring!Factors(a, b, km)[3] = Scoring!Distance(km, 10)
           /\ Scoring!Factors(a, b, km)[4] = Scoring!Dates(a, b, 25)
           /\ Scoring!Factors(a, b, km)[5] = Scoring!Hotel(a, b, 15)
           /\ Scoring!Factors(a, b, km)[6] = Scoring!StayLength(a, b, 10)
  BY DEF Scoring!Factors

LEMMA ScoringOtherFactors ==
    ASSUME NEW a, NEW b, NEW km, ~Scoring!IsHoliday(a, b)
    PROVE  /\ Scoring!Factors(a, b, km)[1] = Scoring!Timeline(a, b, 40) /\ \E h : Scoring!Factors(a, b, km)[2] = Scoring!Intent(b, 30, h)
           /\ Scoring!Factors(a, b, km)[3] = Scoring!Distance(km, 30)
           /\ Scoring!Factors(a, b, km)[4] = Scoring!NoFactor
           /\ Scoring!Factors(a, b, km)[5] = Scoring!NoFactor
           /\ Scoring!Factors(a, b, km)[6] = Scoring!NoFactor
  BY DEF Scoring!Factors

LEMMA ScoringNothingIs ==
    /\ Scoring!NoFactor.weight = 0 /\ Scoring!NoFactor.value \in 0..100
    /\ Scoring!NoFactor.value = 0 /\ ~Scoring!LinesUpWell(Scoring!NoFactor)
  <1>1. /\ Scoring!NoFactor.weight = 0 /\ Scoring!NoFactor.value = 0
        /\ Scoring!NoFactor.reason = Scoring!NoReason
    BY DEF Scoring!NoFactor, Scoring!Factor
  <1> QED
    BY <1>1 DEF Scoring!LinesUpWell

\* What a part weighs, and that it is worth no more than all of it.
ScoringPart(f, weight) == f.weight = weight /\ f.value \in 0..100

LEMMA ScoringHolidayParts ==
    ASSUME NEW a \in Scoring!Post, NEW b \in Scoring!Post, NEW km \in Nat, NEW fs,
           fs = Scoring!Factors(a, b, km), Scoring!IsHoliday(a, b)
    PROVE  /\ ScoringPart(fs[1], 20) /\ ScoringPart(fs[2], 20) /\ ScoringPart(fs[3], IF km = 0 THEN 0 ELSE 10)
           /\ ScoringPart(fs[4], 25) /\ ScoringPart(fs[5], 15) /\ ScoringPart(fs[6], 10)
           /\ a.timeline = b.timeline => fs[1].value = 100
           /\ b.level = "READY" => fs[2].value = 100
           /\ km \in 1..5 => fs[3].value = 100
           /\ a.trip = b.trip => fs[4].value = 100 /\ fs[5].value = 100 /\ fs[6].value = 100
  <1>1. PICK f1, f2, f3 : f1 = fs[1] /\ f2 = fs[2] /\ f3 = fs[3]
    OBVIOUS
  <1>2. PICK f4, f5, f6 : f4 = fs[4] /\ f5 = fs[5] /\ f6 = fs[6]
    OBVIOUS
  <1>3. f1 = Scoring!Timeline(a, b, 20) /\ (\E h : f2 = Scoring!Intent(b, 20, h)) /\ f3 = Scoring!Distance(km, 10)
    BY <1>1, ScoringHolidayFactors
  <1>4. /\ f4 = Scoring!Dates(a, b, 25) /\ f5 = Scoring!Hotel(a, b, 15)
        /\ f6 = Scoring!StayLength(a, b, 10)
    BY <1>2, ScoringHolidayFactors
  <1>5. ScoringPart(f1, 20) /\ (a.timeline = b.timeline => f1.value = 100)
    BY <1>3, ScoringTimelineIs DEF ScoringPart
  <1>6. ScoringPart(f2, 20) /\ (b.level = "READY" => f2.value = 100)
    <2>1. PICK h : f2 = Scoring!Intent(b, 20, h)
      BY <1>3
    <2>2. f2.weight = 20 /\ f2.value \in 0..100 /\ (b.level = "READY" => f2.value = 100)
      BY <2>1, ScoringIntentIs
    <2> QED
      BY <2>2 DEF ScoringPart
  <1>7. ScoringPart(f3, IF km = 0 THEN 0 ELSE 10) /\ (km \in 1..5 => f3.value = 100)
    <2>1. f3 = Scoring!Distance(km, 10)
      BY <1>3
    <2>2. km = 0 => f3.weight = 0
      BY <2>1, ScoringDistanceIs
    <2>3. km # 0 => f3.weight = 10
      BY <2>1, ScoringDistanceIs
    <2>4. f3.value \in 0..100
      BY <2>1, ScoringDistanceWorth
    <2>5. km \in 1..5 => f3.value = 100
      BY <2>1, ScoringDistanceIs
    <2>6. ScoringPart(f3, IF km = 0 THEN 0 ELSE 10)
      BY <2>2, <2>3, <2>4 DEF ScoringPart
    <2> QED
      BY <2>5, <2>6
  <1>8. ScoringPart(f4, 25) /\ (a.trip = b.trip => f4.value = 100)
    BY <1>4, ScoringDatesIs DEF ScoringPart
  <1>9. ScoringPart(f5, 15) /\ (a.trip = b.trip => f5.value = 100)
    BY <1>4, ScoringHotelIs DEF ScoringPart, Scoring!IsHoliday
  <1>10. ScoringPart(f6, 10) /\ (a.trip = b.trip => f6.value = 100)
    BY <1>4, ScoringStayLengthIs DEF ScoringPart
  <1> QED
    BY <1>1, <1>2, <1>5, <1>6, <1>7, <1>8, <1>9, <1>10

LEMMA ScoringOtherParts ==
    ASSUME NEW a \in Scoring!Post, NEW b \in Scoring!Post, NEW km \in Nat, NEW fs,
           fs = Scoring!Factors(a, b, km), ~Scoring!IsHoliday(a, b)
    PROVE  /\ ScoringPart(fs[1], 40) /\ ScoringPart(fs[2], 30) /\ ScoringPart(fs[3], IF km = 0 THEN 0 ELSE 30)
           /\ ScoringPart(fs[4], 0) /\ ScoringPart(fs[5], 0) /\ ScoringPart(fs[6], 0)
           /\ a.timeline = b.timeline => fs[1].value = 100
           /\ b.level = "READY" => fs[2].value = 100
           /\ km \in 1..5 => fs[3].value = 100
  <1>1. PICK f1, f2, f3 : f1 = fs[1] /\ f2 = fs[2] /\ f3 = fs[3]
    OBVIOUS
  <1>2. f1 = Scoring!Timeline(a, b, 40) /\ (\E h : f2 = Scoring!Intent(b, 30, h)) /\ f3 = Scoring!Distance(km, 30)
    BY <1>1, ScoringOtherFactors
  <1>3. ScoringPart(f1, 40) /\ (a.timeline = b.timeline => f1.value = 100)
    BY <1>2, ScoringTimelineIs DEF ScoringPart
  <1>4. ScoringPart(f2, 30) /\ (b.level = "READY" => f2.value = 100)
    <2>1. PICK h : f2 = Scoring!Intent(b, 30, h)
      BY <1>2
    <2>2. f2.weight = 30 /\ f2.value \in 0..100 /\ (b.level = "READY" => f2.value = 100)
      BY <2>1, ScoringIntentIs
    <2> QED
      BY <2>2 DEF ScoringPart
  <1>5. ScoringPart(f3, IF km = 0 THEN 0 ELSE 30) /\ (km \in 1..5 => f3.value = 100)
    <2>1. f3 = Scoring!Distance(km, 30)
      BY <1>2
    <2>2. km = 0 => f3.weight = 0
      BY <2>1, ScoringDistanceIs
    <2>3. km # 0 => f3.weight = 30
      BY <2>1, ScoringDistanceIs
    <2>4. f3.value \in 0..100
      BY <2>1, ScoringDistanceWorth
    <2>5. km \in 1..5 => f3.value = 100
      BY <2>1, ScoringDistanceIs
    <2>6. ScoringPart(f3, IF km = 0 THEN 0 ELSE 30)
      BY <2>2, <2>3, <2>4 DEF ScoringPart
    <2> QED
      BY <2>5, <2>6
  <1>6. ScoringPart(Scoring!NoFactor, 0)
    BY ScoringNothingIs DEF ScoringPart
  <1>7. fs[4] = Scoring!NoFactor /\ fs[5] = Scoring!NoFactor /\ fs[6] = Scoring!NoFactor
    BY ScoringOtherFactors
  <1> QED
    BY <1>1, <1>3, <1>4, <1>5, <1>6, <1>7

-----------------------------------------------------------------------------
(* The score *)

ScoringWeights == {0, 10, 15, 20, 25, 30, 40}

LEMMA ScoringTimes ==
    ASSUME NEW w \in ScoringWeights, NEW v \in 0..100
    PROVE  w * v \in 0..100 * w /\ w * 100 = 100 * w
  <1>1. CASE w = 0
    BY <1>1
  <1>2. CASE w = 10
    BY <1>2
  <1>3. CASE w = 15
    BY <1>3
  <1>4. CASE w = 20
    BY <1>4
  <1>5. CASE w = 25
    BY <1>5
  <1>6. CASE w = 30
    BY <1>6
  <1>7. CASE w = 40
    BY <1>7
  <1> QED
    BY <1>1, <1>2, <1>3, <1>4, <1>5, <1>6, <1>7 DEF ScoringWeights

\* A part that weighs this counts for no more, and fills it when it is worth all.
ScoringFits(f, w) == f.weight = w /\ Scoring!Counted(f) \in 0..100 * w
ScoringFull(f, w) == Scoring!Counted(f) = 100 * w

LEMMA ScoringPartFits ==
    ASSUME NEW f, NEW w \in ScoringWeights, ScoringPart(f, w)
    PROVE  ScoringFits(f, w) /\ (f.value = 100 \/ w = 0 => ScoringFull(f, w))
  <1>0. w \in Int
    BY DEF ScoringWeights
  <1>1. PICK v \in 0..100 : v = f.value /\ f.weight = w
    BY DEF ScoringPart
  <1>2. Scoring!Counted(f) = w * v
    BY <1>0, <1>1 DEF Scoring!Counted
  <1>3. w * v \in 0..100 * w /\ w * 100 = 100 * w
    BY ScoringTimes
  <1>4. ScoringFits(f, w)
    BY <1>1, <1>2, <1>3 DEF ScoringFits
  <1>5. ASSUME f.value = 100 PROVE ScoringFull(f, w)
    <2>1. v = 100
      BY <1>1, <1>5
    <2>2. Scoring!Counted(f) = 100 * w
      BY <1>2, <1>3, <2>1
    <2> QED
      BY <2>2 DEF ScoringFull
  <1>6. ASSUME w = 0 PROVE ScoringFull(f, w)
    <2>1. w * v = 100 * w
      BY <1>3, <1>6
    <2> QED
      BY <1>2, <2>1 DEF ScoringFull
  <1> QED
    BY <1>4, <1>5, <1>6

\* What the six parts weigh.
ScoringIsWeighing(w, a, b, km) ==
    /\ w \in [1..6 -> ScoringWeights]
    /\ Scoring!IsHoliday(a, b) => /\ w[1] = 20 /\ w[2] = 20 /\ (km # 0 => w[3] = 10)
                                  /\ w[4] = 25 /\ w[5] = 15 /\ w[6] = 10
    /\ ~Scoring!IsHoliday(a, b) => /\ w[1] = 40 /\ w[2] = 30 /\ (km # 0 => w[3] = 30)
                                   /\ w[4] = 0 /\ w[5] = 0 /\ w[6] = 0
    /\ km = 0 => w[3] = 0

LEMMA ScoringSomeWeighing ==
    ASSUME NEW a, NEW b, NEW km \in Nat
    PROVE  \E w : ScoringIsWeighing(w, a, b, km)
  <1>1. CASE Scoring!IsHoliday(a, b)
    <2>1. PICK n \in {0, 10} : (km = 0 => n = 0) /\ (km # 0 => n = 10)
      OBVIOUS
    <2>2. PICK w : w = [i \in 1..6 |-> IF i = 1 THEN 20 ELSE IF i = 2 THEN 20 ELSE IF i = 3 THEN n
                                       ELSE IF i = 4 THEN 25 ELSE IF i = 5 THEN 15 ELSE 10]
      OBVIOUS
    <2>3. w \in [1..6 -> ScoringWeights]
      BY <2>2 DEF ScoringWeights
    <2>4. w[1] = 20 /\ w[2] = 20 /\ w[3] = n /\ w[4] = 25 /\ w[5] = 15 /\ w[6] = 10
      BY <2>2
    <2>5. ScoringIsWeighing(w, a, b, km)
      BY <1>1, <2>1, <2>3, <2>4 DEF ScoringIsWeighing
    <2> QED
      BY <2>5
  <1>2. CASE ~Scoring!IsHoliday(a, b)
    <2>1. PICK n \in {0, 30} : (km = 0 => n = 0) /\ (km # 0 => n = 30)
      OBVIOUS
    <2>2. PICK w : w = [i \in 1..6 |-> IF i = 1 THEN 40 ELSE IF i = 2 THEN 30 ELSE IF i = 3 THEN n ELSE 0]
      OBVIOUS
    <2>3. w \in [1..6 -> ScoringWeights]
      BY <2>2 DEF ScoringWeights
    <2>4. w[1] = 40 /\ w[2] = 30 /\ w[3] = n /\ w[4] = 0 /\ w[5] = 0 /\ w[6] = 0
      BY <2>2
    <2>5. ScoringIsWeighing(w, a, b, km)
      BY <1>2, <2>1, <2>3, <2>4 DEF ScoringIsWeighing
    <2> QED
      BY <2>5
  <1> QED
    BY <1>1, <1>2

\* The parts fit what they weigh, and fill it when the two agree.
LEMMA ScoringPartsFit ==
    ASSUME NEW a \in Scoring!Post, NEW b \in Scoring!Post, NEW km \in Nat, NEW fs,
           fs = Scoring!Factors(a, b, km),
           NEW w, ScoringIsWeighing(w, a, b, km)
    PROVE  /\ \A i \in 1..6 : ScoringFits(fs[i], w[i])
           /\ a.timeline = b.timeline => ScoringFull(fs[1], w[1])
           /\ b.level = "READY" => ScoringFull(fs[2], w[2])
           /\ km <= 5 => ScoringFull(fs[3], w[3])
           /\ a.trip = b.trip => ScoringFull(fs[4], w[4]) /\ ScoringFull(fs[5], w[5]) /\ ScoringFull(fs[6], w[6])
  <1>1. \A i \in 1..6 : i = 1 \/ i = 2 \/ i = 3 \/ i = 4 \/ i = 5 \/ i = 6
    OBVIOUS
  <1>2. \A i \in 1..6 : w[i] \in ScoringWeights
    BY DEF ScoringIsWeighing
  <1>3. \A i \in 1..6 : ScoringPart(fs[i], w[i])
    <2>1. CASE Scoring!IsHoliday(a, b)
      <3>1. /\ w[1] = 20 /\ w[2] = 20 /\ w[3] = (IF km = 0 THEN 0 ELSE 10)
            /\ w[4] = 25 /\ w[5] = 15 /\ w[6] = 10
        BY <2>1 DEF ScoringIsWeighing
      <3>2. /\ ScoringPart(fs[1], w[1]) /\ ScoringPart(fs[2], w[2]) /\ ScoringPart(fs[3], w[3])
            /\ ScoringPart(fs[4], w[4]) /\ ScoringPart(fs[5], w[5]) /\ ScoringPart(fs[6], w[6])
        BY <2>1, <3>1, ScoringHolidayParts
      <3> QED
        BY <1>1, <3>2
    <2>2. CASE ~Scoring!IsHoliday(a, b)
      <3>1. /\ w[1] = 40 /\ w[2] = 30 /\ w[3] = (IF km = 0 THEN 0 ELSE 30)
            /\ w[4] = 0 /\ w[5] = 0 /\ w[6] = 0
        BY <2>2 DEF ScoringIsWeighing
      <3>2. /\ ScoringPart(fs[1], w[1]) /\ ScoringPart(fs[2], w[2]) /\ ScoringPart(fs[3], w[3])
            /\ ScoringPart(fs[4], w[4]) /\ ScoringPart(fs[5], w[5]) /\ ScoringPart(fs[6], w[6])
        BY <2>2, <3>1, ScoringOtherParts
      <3> QED
        BY <1>1, <3>2
    <2> QED
      BY <2>1, <2>2
  <1>4. /\ a.timeline = b.timeline => fs[1].value = 100
        /\ b.level = "READY" => fs[2].value = 100
        /\ km \in 1..5 => fs[3].value = 100
    BY ScoringHolidayParts, ScoringOtherParts
  <1>5. \A i \in 1..6 : ScoringFits(fs[i], w[i]) /\ (fs[i].value = 100 \/ w[i] = 0 => ScoringFull(fs[i], w[i]))
    BY <1>2, <1>3, ScoringPartFits
  <1>6. km <= 5 => ScoringFull(fs[3], w[3])
    BY <1>4, <1>5 DEF ScoringIsWeighing
  <1>7. ASSUME a.trip = b.trip
        PROVE  ScoringFull(fs[4], w[4]) /\ ScoringFull(fs[5], w[5]) /\ ScoringFull(fs[6], w[6])
    <2>1. CASE Scoring!IsHoliday(a, b)
      BY <1>5, <1>7, <2>1, ScoringHolidayParts
    <2>2. CASE ~Scoring!IsHoliday(a, b)
      <3>1. w[4] = 0 /\ w[5] = 0 /\ w[6] = 0
        BY <2>2 DEF ScoringIsWeighing
      <3> QED
        BY <1>5, <3>1
    <2> QED
      BY <2>1, <2>2
  <1> QED
    BY <1>4, <1>5, <1>6, <1>7

\* What the parts weigh together, and what they add up to.
ScoringWhole(w) == w[1] + w[2] + w[3] + w[4] + w[5] + w[6]
ScoringPoints(fs) == Scoring!Counted(fs[1]) + Scoring!Counted(fs[2]) + Scoring!Counted(fs[3])
                     + Scoring!Counted(fs[4]) + Scoring!Counted(fs[5]) + Scoring!Counted(fs[6])

ScoringRounded(p, w) == (2 * p + w) \div (2 * w)

\* So many points of so many.
ScoringOf(p, w) == w \in {70, 90, 100} /\ p \in 0..100 * w

LEMMA ScoringRounds ==
    ASSUME NEW w, NEW p, ScoringOf(p, w)
    PROVE  /\ ScoringRounded(p, w) \in 0..100
           /\ p = 100 * w => ScoringRounded(p, w) = 100
  <1>1. CASE w = 70
    BY <1>1 DEF ScoringRounded, ScoringOf
  <1>2. CASE w = 90
    BY <1>2 DEF ScoringRounded, ScoringOf
  <1>3. CASE w = 100
    BY <1>3 DEF ScoringRounded, ScoringOf
  <1> QED
    BY <1>1, <1>2, <1>3 DEF ScoringOf

LEMMA ScoringRoundsInOrder ==
    ASSUME NEW w, NEW p, NEW q, ScoringOf(p, w), ScoringOf(q, w), p <= q
    PROVE  ScoringRounded(p, w) <= ScoringRounded(q, w)
  <1>1. CASE w = 70
    BY <1>1 DEF ScoringRounded, ScoringOf
  <1>2. CASE w = 90
    BY <1>2 DEF ScoringRounded, ScoringOf
  <1>3. CASE w = 100
    BY <1>3 DEF ScoringRounded, ScoringOf
  <1> QED
    BY <1>1, <1>2, <1>3 DEF ScoringOf

\* How sure the other is counts in one part, and how far the two are in another.
LEMMA ScoringReadierSame ==
    ASSUME NEW a, NEW b, NEW c, NEW km, b.timeline = c.timeline, b.trip = c.trip
    PROVE  /\ Scoring!Factors(a, b, km)[1] = Scoring!Factors(a, c, km)[1]
           /\ Scoring!Factors(a, b, km)[3] = Scoring!Factors(a, c, km)[3]
           /\ Scoring!Factors(a, b, km)[4] = Scoring!Factors(a, c, km)[4]
           /\ Scoring!Factors(a, b, km)[5] = Scoring!Factors(a, c, km)[5]
           /\ Scoring!Factors(a, b, km)[6] = Scoring!Factors(a, c, km)[6]
  <1>1. /\ Scoring!Timeline(a, b, 20) = Scoring!Timeline(a, c, 20)
        /\ Scoring!Timeline(a, b, 40) = Scoring!Timeline(a, c, 40)
    BY DEF Scoring!Timeline
  <1>2. Scoring!Dates(a, b, 25) = Scoring!Dates(a, c, 25)
    BY DEF Scoring!Dates
  <1>3. Scoring!Hotel(a, b, 15) = Scoring!Hotel(a, c, 15)
    BY DEF Scoring!Hotel
  <1>4. Scoring!StayLength(a, b, 10) = Scoring!StayLength(a, c, 10)
    BY DEF Scoring!StayLength
  <1>5. CASE Scoring!IsHoliday(a, b)
    <2>1. Scoring!IsHoliday(a, c)
      BY <1>5 DEF Scoring!IsHoliday
    <2> QED
      BY <1>1, <1>2, <1>3, <1>4, <1>5, <2>1 DEF Scoring!Factors
  <1>6. CASE ~Scoring!IsHoliday(a, b)
    <2>1. ~Scoring!IsHoliday(a, c)
      BY <1>6 DEF Scoring!IsHoliday
    <2> QED
      BY <1>1, <1>6, <2>1 DEF Scoring!Factors
  <1> QED
    BY <1>5, <1>6

LEMMA ScoringNearerSame ==
    ASSUME NEW a, NEW b, NEW km, NEW lm
    PROVE  /\ Scoring!Factors(a, b, km)[1] = Scoring!Factors(a, b, lm)[1]
           /\ Scoring!Factors(a, b, km)[2] = Scoring!Factors(a, b, lm)[2]
           /\ Scoring!Factors(a, b, km)[4] = Scoring!Factors(a, b, lm)[4]
           /\ Scoring!Factors(a, b, km)[5] = Scoring!Factors(a, b, lm)[5]
           /\ Scoring!Factors(a, b, km)[6] = Scoring!Factors(a, b, lm)[6]
  <1>1. CASE Scoring!IsHoliday(a, b)
    BY <1>1 DEF Scoring!Factors
  <1>2. CASE ~Scoring!IsHoliday(a, b)
    BY <1>2 DEF Scoring!Factors
  <1> QED
    BY <1>1, <1>2

LEMMA ScoringWholeIs ==
    ASSUME NEW a, NEW b, NEW km \in Nat, NEW w, ScoringIsWeighing(w, a, b, km)
    PROVE  ScoringWhole(w) \in {70, 90, 100} /\ \A i \in 1..6 : w[i] \in Nat
  <1>1. \A i \in 1..6 : w[i] \in Nat
    BY DEF ScoringIsWeighing, ScoringWeights
  <1>2. CASE km = 0
    BY <1>2 DEF ScoringIsWeighing, ScoringWhole
  <1>3. CASE km # 0
    BY <1>3 DEF ScoringIsWeighing, ScoringWhole
  <1> QED
    BY <1>1, <1>2, <1>3

LEMMA ScoringScoreIs ==
    ASSUME NEW a \in Scoring!Post, NEW b \in Scoring!Post, NEW km \in Nat, NEW fs,
           fs = Scoring!Factors(a, b, km),
           NEW w, ScoringIsWeighing(w, a, b, km)
    PROVE  /\ ScoringPoints(fs) \in 0..100 * ScoringWhole(w)
           /\ Scoring!Score(fs) = ScoringRounded(ScoringPoints(fs), ScoringWhole(w))
           /\ \A i \in 1..6 : Scoring!Counted(fs[i]) \in Nat
  <1>1. \A i \in 1..6 : fs[i].weight = w[i] /\ Scoring!Counted(fs[i]) \in 0..100 * w[i] /\ w[i] \in Nat
    BY ScoringPartsFit, ScoringWholeIs DEF ScoringFits
  <1>2. /\ fs[1].weight = w[1] /\ fs[2].weight = w[2] /\ fs[3].weight = w[3]
        /\ fs[4].weight = w[4] /\ fs[5].weight = w[5] /\ fs[6].weight = w[6]
    BY <1>1
  <1>3. /\ w[1] \in Nat /\ w[2] \in Nat /\ w[3] \in Nat /\ w[4] \in Nat /\ w[5] \in Nat
        /\ w[6] \in Nat
        /\ Scoring!Counted(fs[1]) \in 0..100 * w[1] /\ Scoring!Counted(fs[2]) \in 0..100 * w[2]
        /\ Scoring!Counted(fs[3]) \in 0..100 * w[3] /\ Scoring!Counted(fs[4]) \in 0..100 * w[4]
        /\ Scoring!Counted(fs[5]) \in 0..100 * w[5] /\ Scoring!Counted(fs[6]) \in 0..100 * w[6]
    BY <1>1
  <1>4. ScoringPoints(fs) \in 0..100 * ScoringWhole(w)
    BY <1>3 DEF ScoringPoints, ScoringWhole
  <1>5. Scoring!Weighed(fs) = ScoringWhole(w)
    BY <1>2 DEF Scoring!Weighed, Scoring!Total, Scoring!Sum, ScoringWhole
  <1>6. Scoring!Sum([i \in 1..6 |-> Scoring!Counted(fs[i])]) = ScoringPoints(fs)
    BY DEF Scoring!Sum, ScoringPoints
  <1>7. Scoring!Score(fs) = ScoringRounded(ScoringPoints(fs), ScoringWhole(w))
    BY <1>5, <1>6, Zenon DEF Scoring!Score, ScoringRounded
  <1>8. \A i \in 1..6 : Scoring!Counted(fs[i]) \in Nat
    BY <1>1
  <1> QED
    BY <1>4, <1>7, <1>8

LEMMA ScoringFairScore == ASSUME Scoring!TypeOK PROVE Scoring!ScoreIsFair
  <1>1. mine \in Scoring!Post /\ theirs \in Scoring!Post /\ apart \in Nat
    BY ScoringAssumption DEF Scoring!TypeOK
  <1>2. PICK fs : fs = Scoring!Now /\ fs = Scoring!Factors(mine, theirs, apart)
    BY DEF Scoring!Now
  <1>3. PICK w : ScoringIsWeighing(w, mine, theirs, apart)
    BY <1>1, ScoringSomeWeighing
  <1>4. PICK n \in {70, 90, 100} : n = ScoringWhole(w)
    BY <1>1, <1>3, ScoringWholeIs
  <1>5. PICK p \in 0..100 * n : p = ScoringPoints(fs) /\ Scoring!Score(fs) = ScoringRounded(p, n)
    BY <1>1, <1>2, <1>3, <1>4, ScoringScoreIs
  <1>6. \A i \in 1..6 : w[i] \in Nat /\ Scoring!Counted(fs[i]) \in 0..100 * w[i]
    BY <1>1, <1>2, <1>3, ScoringPartsFit, ScoringWholeIs DEF ScoringFits
  <1>7. Scoring!Score(fs) \in 0..100
    <2>1. ScoringOf(p, n)
      BY DEF ScoringOf
    <2>2. ScoringRounded(p, n) \in 0..100
      BY <2>1, ScoringRounds
    <2> QED
      BY <1>5, <2>2
  <1>8. ASSUME theirs.level = "READY", mine.timeline = theirs.timeline, mine.trip = theirs.trip,
               apart <= 5
        PROVE  Scoring!Score(fs) = 100
    <2>1. /\ ScoringFull(fs[1], w[1]) /\ ScoringFull(fs[2], w[2]) /\ ScoringFull(fs[3], w[3])
          /\ ScoringFull(fs[4], w[4]) /\ ScoringFull(fs[5], w[5]) /\ ScoringFull(fs[6], w[6])
      BY <1>1, <1>2, <1>3, <1>8, ScoringPartsFit
    <2>2. /\ w[1] \in Nat /\ w[2] \in Nat /\ w[3] \in Nat /\ w[4] \in Nat /\ w[5] \in Nat
          /\ w[6] \in Nat
      BY <1>6
    <2>3. p = 100 * n
      BY <1>4, <1>5, <2>1, <2>2 DEF ScoringFull, ScoringPoints, ScoringWhole
    <2>4. ScoringOf(p, n)
      BY DEF ScoringOf
    <2>5. ScoringRounded(p, n) = 100
      BY <2>3, <2>4, ScoringRounds
    <2> QED
      BY <1>5, <2>5
  <1>9. Scoring!Score(fs) <= Scoring!Score(Scoring!Factors(mine, [theirs EXCEPT !.level = "READY"], apart))
    <2>1. PICK b : b = [theirs EXCEPT !.level = "READY"]
      OBVIOUS
    <2>2. /\ b \in Scoring!Post /\ b.level = "READY" /\ b.timeline = theirs.timeline
          /\ b.trip = theirs.trip
      BY <1>1, <2>1 DEF Scoring!Post, Scoring!INTENT_LEVELS
    <2>3. PICK gs : gs = Scoring!Factors(mine, b, apart)
      OBVIOUS
    <2>4. ScoringIsWeighing(w, mine, b, apart) /\ (Scoring!IsHoliday(mine, b) <=> Scoring!IsHoliday(mine, theirs))
      BY <1>3, <2>2 DEF ScoringIsWeighing, Scoring!IsHoliday
    <2>5. PICK q \in 0..100 * n : q = ScoringPoints(gs) /\ Scoring!Score(gs) = ScoringRounded(q, n)
      BY <1>1, <1>4, <2>2, <2>3, <2>4, ScoringScoreIs
    <2>6. Scoring!Counted(gs[2]) = 100 * w[2]
      BY <1>1, <2>2, <2>3, <2>4, ScoringPartsFit DEF ScoringFull
    <2>7. gs[1] = fs[1] /\ gs[3] = fs[3] /\ gs[4] = fs[4] /\ gs[5] = fs[5] /\ gs[6] = fs[6]
      BY <1>2, <2>2, <2>3, ScoringReadierSame
    <2>8. /\ Scoring!Counted(fs[1]) \in Int /\ Scoring!Counted(fs[2]) \in Int
          /\ Scoring!Counted(fs[3]) \in Int
          /\ Scoring!Counted(fs[4]) \in Int /\ Scoring!Counted(fs[5]) \in Int
          /\ Scoring!Counted(fs[6]) \in Int
          /\ Scoring!Counted(fs[2]) <= 100 * w[2] /\ 100 * w[2] \in Int
      BY <1>6
    <2>9. p <= q
      BY <1>5, <2>5, <2>6, <2>7, <2>8 DEF ScoringPoints
    <2>10. Scoring!Score(fs) <= Scoring!Score(gs)
      <3>1. ScoringOf(p, n) /\ ScoringOf(q, n)
        BY DEF ScoringOf
      <3>2. ScoringRounded(p, n) <= ScoringRounded(q, n)
        BY <2>9, <3>1, ScoringRoundsInOrder
      <3> QED
        BY <1>5, <2>5, <3>2
    <2> QED
      BY <2>1, <2>3, <2>10
  <1>10. ASSUME apart # 0 PROVE Scoring!Score(fs) <= Scoring!Score(Scoring!Factors(mine, theirs, 1))
    <2>1. PICK gs : gs = Scoring!Factors(mine, theirs, 1)
      OBVIOUS
    <2>2. ScoringIsWeighing(w, mine, theirs, 1)
      BY <1>3, <1>10 DEF ScoringIsWeighing
    <2>3. PICK q \in 0..100 * n : q = ScoringPoints(gs) /\ Scoring!Score(gs) = ScoringRounded(q, n)
      BY <1>1, <1>4, <2>1, <2>2, ScoringScoreIs
    <2>4. Scoring!Counted(gs[3]) = 100 * w[3]
      BY <1>1, <2>1, <2>2, ScoringPartsFit DEF ScoringFull
    <2>5. gs[1] = fs[1] /\ gs[2] = fs[2] /\ gs[4] = fs[4] /\ gs[5] = fs[5] /\ gs[6] = fs[6]
      BY <1>2, <2>1, ScoringNearerSame
    <2>6. /\ Scoring!Counted(fs[1]) \in Int /\ Scoring!Counted(fs[2]) \in Int
          /\ Scoring!Counted(fs[3]) \in Int
          /\ Scoring!Counted(fs[4]) \in Int /\ Scoring!Counted(fs[5]) \in Int
          /\ Scoring!Counted(fs[6]) \in Int
          /\ Scoring!Counted(fs[3]) <= 100 * w[3] /\ 100 * w[3] \in Int
      BY <1>6
    <2>7. p <= q
      BY <1>5, <2>3, <2>4, <2>5, <2>6 DEF ScoringPoints
    <2>8. Scoring!Score(fs) <= Scoring!Score(gs)
      <3>1. ScoringOf(p, n) /\ ScoringOf(q, n)
        BY DEF ScoringOf
      <3>2. ScoringRounded(p, n) <= ScoringRounded(q, n)
        BY <2>7, <3>1, ScoringRoundsInOrder
      <3> QED
        BY <1>5, <2>3, <3>2
    <2> QED
      BY <2>1, <2>8
  <1> QED
    BY <1>2, <1>7, <1>8, <1>9, <1>10 DEF Scoring!ScoreIsFair

-----------------------------------------------------------------------------
(* The reasons *)

\* What each part may say, and that it is so.
LEMMA ScoringSaysIs ==
    /\ Scoring!Says("SameTimeline") <=> mine.timeline = theirs.timeline
    /\ Scoring!Says("SimilarTimeline") <=> Scoring!Gap(mine.timeline, theirs.timeline) = 1
    /\ Scoring!Says("ReadyToBuy") <=> theirs.level = "READY"
    /\ Scoring!Says("ReadyToBook") <=> theirs.level = "READY"
    /\ Scoring!Says("Committed") <=> theirs.level = "COMMITTED"
    /\ Scoring!Says("Within5km") <=> apart \in 1..5
    /\ Scoring!Says("Within10km") <=> apart \in 1..10
    /\ Scoring!Says("SameTravelWeek") <=> mine.trip.month = theirs.trip.month /\ mine.trip.week = theirs.trip.week
    /\ Scoring!Says("SameTravelMonth") <=> mine.trip.month = theirs.trip.month
    /\ Scoring!Says("SameHotelCategory") <=> mine.trip.hotel = theirs.trip.hotel
    /\ Scoring!Says("SameNumberOfNights") <=> mine.trip.nights = theirs.trip.nights
    /\ Scoring!Says("SimilarTripLength") <=> Scoring!Gap(mine.trip.nights, theirs.trip.nights) \in 1..2
  BY DEF Scoring!Says

\* Each part has words of its own.
ScoringWords(i) ==
    CASE i = 1 -> {"SameTimeline", "SimilarTimeline"}
      [] i = 2 -> {"ReadyToBuy", "ReadyToBook", "Committed"}
      [] i = 3 -> {"Within5km", "Within10km"}
      [] i = 4 -> {"SameTravelWeek", "SameTravelMonth"}
      [] i = 5 -> {"SameHotelCategory"}
      [] i = 6 -> {"SameNumberOfNights", "SimilarTripLength"}

LEMMA ScoringOwnWords ==
    ASSUME NEW i \in 1..6, NEW j \in 1..6, i # j
    PROVE  ScoringWords(i) \cap ScoringWords(j) = {}
  <1>1. /\ ScoringWords(1) = {"SameTimeline", "SimilarTimeline"}
        /\ ScoringWords(2) = {"ReadyToBuy", "ReadyToBook", "Committed"}
        /\ ScoringWords(3) = {"Within5km", "Within10km"}
        /\ ScoringWords(4) = {"SameTravelWeek", "SameTravelMonth"}
        /\ ScoringWords(5) = {"SameHotelCategory"}
        /\ ScoringWords(6) = {"SameNumberOfNights", "SimilarTripLength"}
    BY DEF ScoringWords
  <1>2. i = 1 \/ i = 2 \/ i = 3 \/ i = 4 \/ i = 5 \/ i = 6
    OBVIOUS
  <1>3. j = 1 \/ j = 2 \/ j = 3 \/ j = 4 \/ j = 5 \/ j = 6
    OBVIOUS
  <1> QED
    BY <1>1, <1>2, <1>3

LEMMA ScoringPartsSay ==
    ASSUME Scoring!TypeOK, NEW i \in 1..6, Scoring!LinesUpWell(Scoring!Now[i])
    PROVE  Scoring!Now[i].reason \in ScoringWords(i) /\ Scoring!Says(Scoring!Now[i].reason)
  <1>1. mine \in Scoring!Post /\ theirs \in Scoring!Post /\ apart \in Nat
    BY ScoringAssumption DEF Scoring!TypeOK
  <1>2. PICK f : f = Scoring!Now[i] /\ Scoring!LinesUpWell(f)
    OBVIOUS
  <1>3. i = 1 \/ i = 2 \/ i = 3 \/ i = 4 \/ i = 5 \/ i = 6
    OBVIOUS
  <1>4. \/ i = 1 /\ \E w \in Nat : f = Scoring!Timeline(mine, theirs, w)
        \/ i = 2 /\ \E w \in Nat : \E h : f = Scoring!Intent(theirs, w, h)
        \/ i = 3 /\ \E w \in Nat : f = Scoring!Distance(apart, w)
        \/ i = 4 /\ \E w \in Nat : f = Scoring!Dates(mine, theirs, w)
        \/ i = 5 /\ Scoring!IsHoliday(mine, theirs) /\ \E w \in Nat : f = Scoring!Hotel(mine, theirs, w)
        \/ i = 6 /\ \E w \in Nat : f = Scoring!StayLength(mine, theirs, w)
    <2>1. CASE Scoring!IsHoliday(mine, theirs)
      BY <1>2, <1>3, <2>1, ScoringHolidayFactors DEF Scoring!Now
    <2>2. CASE ~Scoring!IsHoliday(mine, theirs)
      <3>1. f # Scoring!NoFactor
        BY <1>2, ScoringNothingIs
      <3> QED
        BY <1>2, <1>3, <2>2, <3>1, ScoringOtherFactors DEF Scoring!Now
    <2> QED
      BY <2>1, <2>2
  <1>5. CASE i = 1
    <2>1. PICK w \in Nat : f = Scoring!Timeline(mine, theirs, w)
      BY <1>4, <1>5
    <2>2. \/ f.reason = "SameTimeline" /\ mine.timeline = theirs.timeline
          \/ f.reason = "SimilarTimeline" /\ Scoring!Gap(mine.timeline, theirs.timeline) = 1
      BY <1>1, <1>2, <2>1, ScoringTimelineIs
    <2>3. f.reason \in ScoringWords(1) /\ Scoring!Says(f.reason)
      BY <2>2, ScoringSaysIs DEF ScoringWords
    <2> QED
      BY <1>2, <1>5, <2>3
  <1>6. CASE i = 2
    <2>0. PICK w \in Nat : \E h : f = Scoring!Intent(theirs, w, h)
      BY <1>4, <1>6
    <2>1. PICK h : f = Scoring!Intent(theirs, w, h)
      BY <2>0
    <2>2. \/ f.reason \in {"ReadyToBuy", "ReadyToBook"} /\ theirs.level = "READY"
          \/ f.reason = "Committed" /\ theirs.level = "COMMITTED"
      BY <1>1, <1>2, <2>1, ScoringIntentIs
    <2>3. f.reason \in ScoringWords(2) /\ Scoring!Says(f.reason)
      BY <2>2, ScoringSaysIs DEF ScoringWords
    <2> QED
      BY <1>2, <1>6, <2>3
  <1>7. CASE i = 3
    <2>1. PICK w \in Nat : f = Scoring!Distance(apart, w)
      BY <1>4, <1>7
    <2>2. \/ f.reason = "Within5km" /\ apart \in 1..5
          \/ f.reason = "Within10km" /\ apart \in 1..10
      BY <1>1, <1>2, <2>1, ScoringDistanceIs
    <2>3. f.reason \in ScoringWords(3) /\ Scoring!Says(f.reason)
      BY <2>2, ScoringSaysIs DEF ScoringWords
    <2> QED
      BY <1>2, <1>7, <2>3
  <1>8. CASE i = 4
    <2>1. PICK w \in Nat : f = Scoring!Dates(mine, theirs, w)
      BY <1>4, <1>8
    <2>2. \/ /\ f.reason = "SameTravelWeek"
             /\ mine.trip.month = theirs.trip.month /\ mine.trip.week = theirs.trip.week
          \/ f.reason = "SameTravelMonth" /\ mine.trip.month = theirs.trip.month
      BY <1>1, <1>2, <2>1, ScoringDatesIs
    <2>3. f.reason \in ScoringWords(4) /\ Scoring!Says(f.reason)
      BY <2>2, ScoringSaysIs DEF ScoringWords
    <2> QED
      BY <1>2, <1>8, <2>3
  <1>9. CASE i = 5
    <2>1. PICK w \in Nat : f = Scoring!Hotel(mine, theirs, w)
      BY <1>4, <1>9
    <2>2. f.reason = "SameHotelCategory" /\ mine.trip.hotel = theirs.trip.hotel
      BY <1>1, <1>2, <1>4, <1>9, <2>1, ScoringHotelIs DEF Scoring!IsHoliday
    <2>3. f.reason \in ScoringWords(5) /\ Scoring!Says(f.reason)
      BY <2>2, ScoringSaysIs DEF ScoringWords
    <2> QED
      BY <1>2, <1>9, <2>3
  <1>10. CASE i = 6
    <2>1. PICK w \in Nat : f = Scoring!StayLength(mine, theirs, w)
      BY <1>4, <1>10
    <2>2. \/ f.reason = "SameNumberOfNights" /\ mine.trip.nights = theirs.trip.nights
          \/ f.reason = "SimilarTripLength" /\ Scoring!Gap(mine.trip.nights, theirs.trip.nights) \in 1..2
      BY <1>1, <1>2, <2>1, ScoringStayLengthIs
    <2>3. f.reason \in ScoringWords(6) /\ Scoring!Says(f.reason)
      BY <2>2, ScoringSaysIs DEF ScoringWords
    <2> QED
      BY <1>2, <1>10, <2>3
  <1> QED
    BY <1>3, <1>5, <1>6, <1>7, <1>8, <1>9, <1>10

\* There is a last of those that line up, by what they count for and their place.
ScoringComes(fs, j, i) ==
    \/ Scoring!Counted(fs[j]) > Scoring!Counted(fs[i])
    \/ Scoring!Counted(fs[j]) = Scoring!Counted(fs[i]) /\ j < i
ScoringHasLast(fs, S) == S = {} \/ \E i \in S : \A j \in S \ {i} : ScoringComes(fs, j, i)

LEMMA ScoringLastGrows ==
    ASSUME NEW fs, NEW S \in SUBSET (1..6), NEW k \in 1..6,
           \A i \in 1..6 : Scoring!Counted(fs[i]) \in Nat,
           ScoringHasLast(fs, S)
    PROVE  ScoringHasLast(fs, S \cup {k})
  <1>1. CASE S = {} \/ k \in S
    <2>1. CASE S = {}
      BY <2>1 DEF ScoringHasLast
    <2>2. CASE k \in S
      <3>1. S \cup {k} = S
        BY <2>2
      <3> QED
        BY <3>1
    <2> QED
      BY <1>1, <2>1, <2>2
  <1>2. CASE S # {} /\ k \notin S
    <2>1. PICK i \in S : \A j \in S \ {i} : ScoringComes(fs, j, i)
      BY <1>2 DEF ScoringHasLast
    <2>2. i \in 1..6 /\ i # k /\ Scoring!Counted(fs[i]) \in Nat /\ Scoring!Counted(fs[k]) \in Nat
      BY <1>2, <2>1
    <2>3. CASE ScoringComes(fs, k, i)
      BY <2>1, <2>3 DEF ScoringHasLast
    <2>4. CASE ScoringComes(fs, i, k)
      <3>1. \A j \in S : ScoringComes(fs, j, k)
        BY <2>1, <2>2, <2>4 DEF ScoringComes
      <3> QED
        BY <1>2, <3>1 DEF ScoringHasLast
    <2>5. ScoringComes(fs, k, i) \/ ScoringComes(fs, i, k)
      BY <2>2 DEF ScoringComes
    <2> QED
      BY <2>3, <2>4, <2>5
  <1> QED
    BY <1>1, <1>2

LEMMA ScoringLastOf ==
    ASSUME NEW fs, NEW S \in SUBSET (1..6), \A i \in 1..6 : Scoring!Counted(fs[i]) \in Nat
    PROVE  ScoringHasLast(fs, S)
  <1>1. ScoringHasLast(fs, {})
    BY DEF ScoringHasLast
  <1>2. ASSUME NEW T \in SUBSET (1..6), NEW k \in 1..6, ScoringHasLast(fs, T)
        PROVE  ScoringHasLast(fs, T \cup (S \cap {k}))
    <2>1. CASE k \in S
      <3>1. T \cup (S \cap {k}) = T \cup {k}
        BY <2>1
      <3> QED
        BY <1>2, <3>1, ScoringLastGrows
    <2>2. CASE k \notin S
      <3>1. T \cup (S \cap {k}) = T
        BY <2>2
      <3> QED
        BY <1>2, <3>1
    <2> QED
      BY <2>1, <2>2
  <1>3. PICK T1 \in SUBSET (1..6) : T1 = {} \cup (S \cap {1})
    OBVIOUS
  <1>4. PICK T2 \in SUBSET (1..6) : T2 = T1 \cup (S \cap {2})
    OBVIOUS
  <1>5. PICK T3 \in SUBSET (1..6) : T3 = T2 \cup (S \cap {3})
    OBVIOUS
  <1>6. PICK T4 \in SUBSET (1..6) : T4 = T3 \cup (S \cap {4})
    OBVIOUS
  <1>7. PICK T5 \in SUBSET (1..6) : T5 = T4 \cup (S \cap {5})
    OBVIOUS
  <1>8. PICK T6 \in SUBSET (1..6) : T6 = T5 \cup (S \cap {6})
    OBVIOUS
  <1>9. ScoringHasLast(fs, T1)
    BY <1>1, <1>2, <1>3
  <1>10. ScoringHasLast(fs, T2)
    BY <1>2, <1>4, <1>9
  <1>11. ScoringHasLast(fs, T3)
    BY <1>2, <1>5, <1>10
  <1>12. ScoringHasLast(fs, T4)
    BY <1>2, <1>6, <1>11
  <1>13. ScoringHasLast(fs, T5)
    BY <1>2, <1>7, <1>12
  <1>14. ScoringHasLast(fs, T6)
    BY <1>2, <1>8, <1>13
  <1>15. T6 = S
    <2>1. \A i \in 1..6 : i \in {1, 2, 3, 4, 5, 6}
      OBVIOUS
    <2> QED
      BY <1>3, <1>4, <1>5, <1>6, <1>7, <1>8, <2>1
  <1> QED
    BY <1>14, <1>15

\* Of those that line up, three at most are given, and none that counts less than one held back.
LEMMA ScoringGivenAreBest ==
    ASSUME NEW fs, \A i \in 1..6 : Scoring!Counted(fs[i]) \in Nat
    PROVE  /\ Cardinality(Scoring!Given(fs)) <= 3
           /\ \A i \in Scoring!Given(fs), j \in (1..6) \ Scoring!Given(fs) :
                Scoring!LinesUpWell(fs[j]) => Scoring!Counted(fs[j]) <= Scoring!Counted(fs[i])
  <1>0. \A S \in SUBSET (1..6) : IsFiniteSet(S) /\ Cardinality(S) \in Nat
    <2>1. IsFiniteSet(1..6)
      <3>1. 1 \in Int /\ 6 \in Int
        OBVIOUS
      <3> QED
        BY <3>1, FS_Interval, Zenon
    <2> QED
      BY <2>1, FS_Subset, FS_CardinalityType
  <1>1. Scoring!Given(fs) \in SUBSET (1..6) /\ \A i \in 1..6 : Scoring!Ahead(fs, i) \in SUBSET (1..6)
    BY ScoringCardinality DEF Scoring!Given, Scoring!Ahead
  <1>2. Cardinality(Scoring!Given(fs)) <= 3
    <2>1. CASE Scoring!Given(fs) = {}
      BY <2>1, FS_EmptySet
    <2>2. CASE Scoring!Given(fs) # {}
      <3>1. PICK i \in Scoring!Given(fs) : \A j \in Scoring!Given(fs) \ {i} : ScoringComes(fs, j, i)
        BY <1>1, <2>2, ScoringLastOf DEF ScoringHasLast
      <3>2. Scoring!Given(fs) \ {i} \subseteq Scoring!Ahead(fs, i)
        BY <3>1, ScoringCardinality DEF ScoringComes, Scoring!Ahead, Scoring!Given
      <3>3. Cardinality(Scoring!Ahead(fs, i)) < 3 /\ i \in 1..6
        BY <3>1, ScoringCardinality DEF Scoring!Given
      <3>4. Cardinality(Scoring!Given(fs) \ {i}) <= Cardinality(Scoring!Ahead(fs, i))
        BY <1>0, <1>1, <3>2, <3>3, FS_Subset
      <3>5. Cardinality(Scoring!Given(fs) \ {i}) = Cardinality(Scoring!Given(fs)) - 1
        BY <1>0, <1>1, <3>1, FS_RemoveElement
      <3>6. PICK x \in Nat, y \in Nat : x = Cardinality(Scoring!Given(fs)) /\ y = Cardinality(Scoring!Ahead(fs, i))
        BY <1>0, <1>1, <3>3
      <3> QED
        BY <3>3, <3>4, <3>5, <3>6
    <2> QED
      BY <2>1, <2>2
  <1>3. ASSUME NEW i \in Scoring!Given(fs), NEW j \in (1..6) \ Scoring!Given(fs),
               Scoring!LinesUpWell(fs[j]),
               ~(Scoring!Counted(fs[j]) <= Scoring!Counted(fs[i]))
        PROVE  FALSE
    <2>1. /\ i \in 1..6 /\ Cardinality(Scoring!Ahead(fs, i)) < 3
          /\ ~(Cardinality(Scoring!Ahead(fs, j)) < 3)
      BY <1>3, ScoringCardinality DEF Scoring!Given
    <2>2. Scoring!Counted(fs[j]) > Scoring!Counted(fs[i])
      BY <1>3, <2>1
    <2>3. Scoring!Ahead(fs, j) \subseteq Scoring!Ahead(fs, i)
      BY <2>1, <2>2, ScoringCardinality DEF Scoring!Ahead
    <2>4. Cardinality(Scoring!Ahead(fs, j)) <= Cardinality(Scoring!Ahead(fs, i))
      BY <1>0, <1>1, <2>1, <2>3, FS_Subset
    <2>5. PICK x \in Nat, y \in Nat : x = Cardinality(Scoring!Ahead(fs, j)) /\ y = Cardinality(Scoring!Ahead(fs, i))
      BY <1>0, <1>1, <2>1
    <2> QED
      BY <2>1, <2>4, <2>5
  <1> QED
    BY <1>2, <1>3

LEMMA ScoringTrueReasons == ASSUME Scoring!TypeOK PROVE Scoring!ReasonsAreTrue
  <1>1. \A i \in Scoring!Given(Scoring!Now) : i \in 1..6 /\ Scoring!LinesUpWell(Scoring!Now[i])
    BY ScoringCardinality DEF Scoring!Given
  <1>2. \A i \in 1..6 : Scoring!Counted(Scoring!Now[i]) \in Nat
    <2>1. mine \in Scoring!Post /\ theirs \in Scoring!Post /\ apart \in Nat
      BY ScoringAssumption DEF Scoring!TypeOK
    <2>2. PICK fs : fs = Scoring!Now /\ fs = Scoring!Factors(mine, theirs, apart)
      BY DEF Scoring!Now
    <2>3. \E w : ScoringIsWeighing(w, mine, theirs, apart)
      BY <2>1, ScoringSomeWeighing
    <2> QED
      BY <2>1, <2>2, <2>3, ScoringScoreIs
  <1>3. \A i \in Scoring!Given(Scoring!Now) : Scoring!Now[i].reason \in ScoringWords(i) /\ Scoring!Says(Scoring!Now[i].reason)
    BY <1>1, ScoringPartsSay
  <1>4. \A i, j \in Scoring!Given(Scoring!Now) : i # j => Scoring!Now[i].reason # Scoring!Now[j].reason
    BY <1>1, <1>3, ScoringOwnWords
  <1>5. PICK fs : fs = Scoring!Now
    OBVIOUS
  <1>6. /\ Cardinality(Scoring!Given(fs)) <= 3
        /\ \A i \in Scoring!Given(fs), j \in (1..6) \ Scoring!Given(fs) :
             Scoring!LinesUpWell(fs[j]) => Scoring!Counted(fs[j]) <= Scoring!Counted(fs[i])
    BY <1>2, <1>5, ScoringGivenAreBest
  <1> QED
    BY <1>3, <1>4, <1>5, <1>6, ScoringCardinality DEF Scoring!ReasonsAreTrue

-----------------------------------------------------------------------------
LEMMA ScoringInitially == Scoring!Init => ScoringInv
  <1> SUFFICES ASSUME Scoring!Init PROVE ScoringInv
    OBVIOUS
  <1>1. 1 \in DOMAIN Scoring!PURCHASE_TIMELINES /\ "READY" \in Scoring!INTENT_LEVELS
    BY DEF Scoring!PURCHASE_TIMELINES, Scoring!INTENT_LEVELS
  <1>2. PICK trip \in Scoring!Trip \cup {Scoring!NoTrip}, t \in Scoring!Trip \cup {Scoring!NoTrip} :
          mine = [timeline |-> 1, level |-> "READY", trip |-> trip] /\ theirs = [mine EXCEPT !.trip = t]
    BY DEF Scoring!Init
  <1>3. mine \in Scoring!Post
    BY <1>1, <1>2 DEF Scoring!Post
  <1>4. theirs \in Scoring!Post
    BY <1>2, <1>3 DEF Scoring!Post
  <1> QED
    BY <1>3, <1>4 DEF Scoring!Init, ScoringInv, Scoring!TypeOK

LEMMA ScoringSteps == ASSUME ScoringInv, Scoring!Next PROVE ScoringInv'
  <1>1. mine \in Scoring!Post /\ theirs \in Scoring!Post /\ apart \in Distances
    BY DEF ScoringInv, Scoring!TypeOK
  <1>2. CASE Scoring!ChangeLevel
    <2>1. PICK level \in Scoring!INTENT_LEVELS : theirs' = [theirs EXCEPT !.level = level]
      BY <1>2 DEF Scoring!ChangeLevel
    <2>2. theirs' \in Scoring!Post
      BY <1>1, <2>1 DEF Scoring!Post
    <2> QED
      BY <1>1, <1>2, <2>2 DEF Scoring!ChangeLevel, ScoringInv, Scoring!TypeOK
  <1>3. CASE Scoring!ChangeTimeline
    <2>1. PICK t \in DOMAIN Scoring!PURCHASE_TIMELINES :
            \/ mine' = [mine EXCEPT !.timeline = t] /\ UNCHANGED theirs
            \/ theirs' = [theirs EXCEPT !.timeline = t] /\ UNCHANGED mine
      BY <1>3 DEF Scoring!ChangeTimeline
    <2>2. mine' \in Scoring!Post /\ theirs' \in Scoring!Post
      BY <1>1, <2>1 DEF Scoring!Post
    <2> QED
      BY <1>1, <1>3, <2>2 DEF Scoring!ChangeTimeline, ScoringInv, Scoring!TypeOK
  <1> QED
    BY <1>2, <1>3 DEF Scoring!Next

LEMMA ScoringShows == ASSUME ScoringInv PROVE Scoring!TypeOK /\ Scoring!MatchIsExplained
  BY ScoringTrueReasons, ScoringFairScore DEF ScoringInv, Scoring!MatchIsExplained
=============================================================================
