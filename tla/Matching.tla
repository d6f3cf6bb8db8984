------------------------------ MODULE Matching ------------------------------
(***************************************************************************)
(* How well another buyer's post lines up with the viewer's: a weighted    *)
(* average of plain facts, and the best reasons for it.  Values are in     *)
(* hundredths.  Both buyers may change how soon and how sure they are.     *)
(***************************************************************************)
EXTENDS Integers, FiniteSets

CONSTANTS
    Places,   \* how far apart the two may be, in km; 0 when a post has no location
    Months, Weeks, Nights   \* of those a trip may have

VARIABLES
    mine, theirs,  \* the two posts
    apart          \* the distance between them

matching == <<mine, theirs, apart>>

PURCHASE_TIMELINES == <<"WITHIN_7_DAYS", "WITHIN_15_DAYS", "WITHIN_30_DAYS", "WITHIN_60_DAYS">>
INTENT_LEVELS == {"INTERESTED", "COMMITTED", "READY"}
HOTEL_CATEGORIES == <<"BUDGET", "THREE_STAR", "FOUR_STAR", "FIVE_STAR">>
NEARBY_BANDS_KM == {5, 10, 25}

NoTrip == [month |-> 0, week |-> 0, nights |-> 0, hotel |-> 0]
Trip == [month : Months, week : Weeks, nights : Nights, hotel : DOMAIN HOTEL_CATEGORIES]
Post == [timeline : DOMAIN PURCHASE_TIMELINES, level : INTENT_LEVELS, trip : Trip \cup {NoTrip}]

Gap(a, b) == IF a < b THEN b - a ELSE a - b

\* The smallest band a distance falls in, or 0 beyond the largest.
BandFor(km) ==
    LET wide == {b \in NEARBY_BANDS_KM : km <= b} IN
    IF wide = {} THEN 0 ELSE CHOOSE b \in wide : \A c \in wide : b <= c

-----------------------------------------------------------------------------
(* The factors of a match, each with what is said of it, or nothing *)

NoReason == "none"
Factor(weight, value, reason) == [weight |-> weight, value |-> value, reason |-> reason]

\* What is not asked about weighs nothing.
NoFactor == Factor(0, 0, NoReason)

Timeline(a, b, weight) ==
    LET gap == Gap(a.timeline, b.timeline) IN
    Factor(weight, <<100, 67, 33, 0>>[gap + 1], IF gap = 0 THEN "SameTimeline" ELSE "SimilarTimeline")

\* "A buyer who is sure is the more useful match."
Intent(b, weight, holiday) ==
    CASE b.level = "READY" -> Factor(weight, 100, IF holiday THEN "ReadyToBook" ELSE "ReadyToBuy")
      [] b.level = "COMMITTED" -> Factor(weight, 70, "Committed")
      [] b.level = "INTERESTED" -> Factor(weight, 40, NoReason)

\* Counts only when both posts have a location.
Distance(km, weight) ==
    IF km = 0 THEN NoFactor
    ELSE CASE BandFor(km) = 5 -> Factor(weight, 100, "Within5km")
           [] BandFor(km) = 10 -> Factor(weight, 80, "Within10km")
           [] BandFor(km) = 25 -> Factor(weight, 50, "Within25km")
           [] OTHER -> Factor(weight, 20, NoReason)

Dates(a, b, weight) ==
    LET gap == Gap(a.trip.week, b.trip.week) IN
    IF a.trip.month # b.trip.month THEN Factor(weight, 0, NoReason)
    ELSE CASE gap = 0 -> Factor(weight, 100, "SameTravelWeek")
           [] gap = 1 -> Factor(weight, 60, "SameTravelMonth")
           [] OTHER -> Factor(weight, 40, "SameTravelMonth")

Hotel(a, b, weight) ==
    Factor(weight, <<100, 50, 0, 0>>[Gap(a.trip.hotel, b.trip.hotel) + 1], "SameHotelCategory")

StayLength(a, b, weight) ==
    LET gap == Gap(a.trip.nights, b.trip.nights) IN
    Factor(weight, CASE gap = 0 -> 100 [] gap \in 1..2 -> 60 [] gap \in 3..4 -> 30 [] OTHER -> 0,
           IF gap = 0 THEN "SameNumberOfNights" ELSE "SimilarTripLength")

IsHoliday(a, b) == a.trip # NoTrip /\ b.trip # NoTrip

Factors(a, b, km) ==
    IF IsHoliday(a, b)
    THEN <<Timeline(a, b, 20), Intent(b, 20, TRUE), Distance(km, 10),
           Dates(a, b, 25), Hotel(a, b, 15), StayLength(a, b, 10)>>
    ELSE <<Timeline(a, b, 40), Intent(b, 30, FALSE), Distance(km, 30), NoFactor, NoFactor, NoFactor>>

Sum(n) == n[1] + n[2] + n[3] + n[4] + n[5] + n[6]
Counted(f) == f.weight * f.value
Total(fs) == Sum([i \in 1..6 |-> fs[i].weight])

\* Fault: a factor that is not there weighs as if it were.
OfHundred(fs) == 100

Weighed(fs) == Total(fs)

\* Math.round() of the weighted average.
Score(fs) == (2 * Sum([i \in 1..6 |-> Counted(fs[i])]) + Weighed(fs)) \div (2 * Weighed(fs))

\* Fault: what lines up half is a reason.
HalfWell(f) == f.reason # NoReason /\ f.value >= 50

\* "Said when the part lines up well (value >= 0.6)."
LinesUpWell(f) == f.reason # NoReason /\ f.value >= 60

\* The three that count most, those of one weight in the order they were listed.
Ahead(fs, i) ==
    {j \in 1..6 : /\ LinesUpWell(fs[j])
                  /\ \/ Counted(fs[j]) > Counted(fs[i])
                     \/ Counted(fs[j]) = Counted(fs[i]) /\ j < i}
Given(fs) == {i \in 1..6 : LinesUpWell(fs[i]) /\ Cardinality(Ahead(fs, i)) < 3}

-----------------------------------------------------------------------------
(* Posts change *)

\* How sure the viewer is does not count.
ChangeLevel ==
    /\ \E level \in INTENT_LEVELS : theirs' = [theirs EXCEPT !.level = level]
    /\ UNCHANGED <<mine, apart>>

ChangeTimeline ==
    /\ \E t \in DOMAIN PURCHASE_TIMELINES :
         \/ mine' = [mine EXCEPT !.timeline = t] /\ UNCHANGED theirs
         \/ theirs' = [theirs EXCEPT !.timeline = t] /\ UNCHANGED mine
    /\ UNCHANGED apart

\* Both posts are of one thing: they have trips, or neither has.  All that counts of two trips is
\* how far they are from each other, so the viewer's has the least of everything.
IsLeast(trip) ==
    \A t \in Trip : /\ trip.month <= t.month /\ trip.week <= t.week
                   /\ trip.nights <= t.nights /\ trip.hotel <= t.hotel

Init ==
    /\ \E trip \in Trip \cup {NoTrip} :
         /\ trip = NoTrip \/ IsLeast(trip)
         /\ mine = [timeline |-> 1, level |-> "READY", trip |-> trip]
         /\ \E t \in Trip \cup {NoTrip} :
              /\ t = NoTrip <=> trip = NoTrip
              /\ theirs = [mine EXCEPT !.trip = t]
    /\ apart \in Places

Next == ChangeLevel \/ ChangeTimeline

Spec == Init /\ [][Next]_matching

-----------------------------------------------------------------------------
(* Properties *)

Now == Factors(mine, theirs, apart)

TypeOK == mine \in Post /\ theirs \in Post /\ apart \in Places

\* What a reason says of the two posts.
Says(reason) ==
    CASE reason = "SameTimeline" -> mine.timeline = theirs.timeline
      [] reason = "SimilarTimeline" -> Gap(mine.timeline, theirs.timeline) = 1
      [] reason \in {"ReadyToBuy", "ReadyToBook"} -> theirs.level = "READY"
      [] reason = "Committed" -> theirs.level = "COMMITTED"
      [] reason = "Within5km" -> apart \in 1..5
      [] reason = "Within10km" -> apart \in 1..10
      [] reason = "SameTravelWeek" -> mine.trip.month = theirs.trip.month
                                        /\ mine.trip.week = theirs.trip.week
      [] reason = "SameTravelMonth" -> mine.trip.month = theirs.trip.month
      [] reason = "SameHotelCategory" -> mine.trip.hotel = theirs.trip.hotel
      [] reason = "SameNumberOfNights" -> mine.trip.nights = theirs.trip.nights
      [] reason = "SimilarTripLength" -> Gap(mine.trip.nights, theirs.trip.nights) \in 1..2
      [] OTHER -> FALSE

\* At most three reasons, none twice, each true of the two posts, and none of a part that lines
\* up as well and counts more is held back.
ReasonsAreTrue ==
    /\ Cardinality(Given(Now)) <= 3
    /\ \A i \in Given(Now) : Says(Now[i].reason)
    /\ \A i, j \in Given(Now) : i # j => Now[i].reason # Now[j].reason
    /\ \A i \in Given(Now), j \in (1..6) \ Given(Now) :
         LinesUpWell(Now[j]) => Counted(Now[j]) <= Counted(Now[i])

\* "0-100": one who agrees in everything and is ready scores 100, whether or not both places are
\* known, and nobody loses by being readier or nearer.
ScoreIsFair ==
    /\ Score(Now) \in 0..100
    /\ theirs.level = "READY" /\ mine.timeline = theirs.timeline /\ mine.trip = theirs.trip
       /\ apart <= 5 => Score(Now) = 100
    /\ Score(Now) <= Score(Factors(mine, [theirs EXCEPT !.level = "READY"], apart))
    /\ apart # 0 => Score(Now) <= Score(Factors(mine, theirs, 1))

\* "Explainable by design: a weighted average of a few plain facts, each with its reason; nothing
\* hidden" (matchScore()): the score and its reasons tell the truth, although how a part counts
\* and what it says are decided apart, and a part that is unknown does not count.
MatchIsExplained == ReasonsAreTrue /\ ScoreIsFair
=============================================================================
