------------------------------- MODULE Trips -------------------------------
(***************************************************************************)
(* The trip on a holiday Buying Post.  Months and weeks turn over on Indian*)
(* time (UTC+5:30): the form shows what was open when it was drawn, a guest*)
(* signs in before the post is created, and the server asks the clock once *)
(* for the month and once for the week.                                    *)
(***************************************************************************)
EXTENDS Integers, Sequences

CONSTANTS
    Length,       \* Length[m]: days of month m, 28..31; months are numbered on through the years,
                  \* as far as may be on offer in the last one
    LastMonth,    \* bound: the month the clock stops in
    MonthsAhead,  \* HOLIDAY_LIMITS.monthsAhead
    MaxChildren,  \* HOLIDAY_LIMITS.maxChildren
    Ages,         \* of those 0..HOLIDAY_LIMITS.maxChildAge
    MaxPresses,   \* bound: times "Create" is pressed
    Marks         \* the days in 1..28 the clock stops at, besides the last of a month

Months == DOMAIN Length

VARIABLES
    clock,    \* now, to half a day of UTC: before and after 18:30
    me,       \* signed in
    form,     \* the screen, with the trip as chosen so far
    options,  \* the months on offer when the form was opened
    drawn,    \* when the form was drawn last
    draft,    \* what a guest filled in
    presses,  \* how often "Create" was pressed
    request,  \* the post being created
    posts     \* the post, with its trip and the moment its week was checked

tripping == <<clock, me, form, options, drawn, draft, presses, request, posts>>

Moment == {t \in [month : 1..LastMonth, day : 1..31, late : BOOLEAN] :
             t.day \in Marks \cup {Length[t.month]}}
Before(s, t) ==
    \/ s.month < t.month
    \/ s.month = t.month /\ s.day < t.day
    \/ s.month = t.month /\ s.day = t.day /\ ~s.late /\ t.late

First == CHOOSE t \in Moment : \A s \in Moment \ {t} : Before(t, s)

\* Fault: the day it is in London.
Utc(t) == [month |-> t.month, day |-> t.day]

\* The month and the day in India.
Indian(t) ==
    IF ~t.late THEN [month |-> t.month, day |-> t.day]
    ELSE IF t.day < Length[t.month] THEN [month |-> t.month, day |-> t.day + 1]
    ELSE [month |-> t.month + 1, day |-> 1]

TravelMonthOptions(t) == {Indian(t).month + i : i \in 0..MonthsAhead}

Weeks == 1..4
LastDayOf(month, week) == IF week = 4 THEN Length[month] ELSE week * 7

\* "False for a week of the current month that is already over (Indian time)."
IsTravelWeekOpen(month, week, t) ==
    IF month # Indian(t).month THEN month > Indian(t).month
    ELSE LastDayOf(month, week) >= Indian(t).day

-----------------------------------------------------------------------------
(* The form.  Adults, nights and the hotel category are chosen as the number of children is, *)
(* and have nothing to do with the clock: they are left out.                                 *)

Unset == -1
NoTrip == [month |-> 0, week |-> 0, counted |-> FALSE, childAges |-> <<>>]
Lists(S) == UNION {[1..n -> S] : n \in 0..MaxChildren}
Draft == [month : Months \cup {0}, week : Weeks \cup {0}, counted : BOOLEAN,
          childAges : Lists(Ages \cup {Unset})]

\* tripProblem(): nothing is missing.
Complete(trip) ==
    /\ trip.month # 0 /\ trip.week # 0 /\ trip.counted
    /\ \A i \in DOMAIN trip.childAges : trip.childAges[i] # Unset

OnForm == form.screen = "form"
Change(trip) ==
    /\ OnForm
    /\ form' = [form EXCEPT !.trip = trip]
    /\ drawn' = clock
    /\ UNCHANGED <<clock, me, options, draft, presses, request, posts>>

\* "A new month means choosing the week again."
ChooseMonth(m) ==
    /\ m \in options /\ m # form.trip.month
    /\ Change([form.trip EXCEPT !.month = m, !.week = 0])

\* Weeks that had passed when the form was drawn are disabled.
ChooseWeek(w) ==
    /\ form.trip.month # 0
    /\ IsTravelWeekOpen(form.trip.month, w, drawn)
    /\ Change([form.trip EXCEPT !.week = w])

\* Ages chosen so far are kept; those of more children are still to be chosen.
ChooseChildren(n) ==
    LET ages == form.trip.childAges IN
    Change([form.trip EXCEPT !.counted = TRUE,
                             !.childAges = [i \in 1..n |-> IF i <= Len(ages) THEN ages[i] ELSE Unset]])

ChooseAge(i, a) == Change([form.trip EXCEPT !.childAges[i] = a])

\* Once the answer is on its way nothing more is pressed: the button is busy.
NoRequest == [step |-> "none", heard |-> FALSE, trip |-> NoTrip, ok |-> FALSE, at |-> First]
Asking(trip) == [step |-> "month", heard |-> TRUE, trip |-> trip, ok |-> FALSE, at |-> First]
Idle == request.step = "none"

\* create(): a guest is asked to sign in first.
Create ==
    /\ OnForm /\ Idle /\ Complete(form.trip)
    /\ presses < MaxPresses /\ presses' = presses + 1
    /\ IF me
       THEN request' = Asking(form.trip) /\ drawn' = clock /\ UNCHANGED <<form, draft>>
       ELSE /\ draft' = form.trip /\ form' = [form EXCEPT !.screen = "register"]
            /\ UNCHANGED <<request, drawn>>
    /\ UNCHANGED <<clock, me, options, posts>>

\* "Back from signing in or up: create the post they already filled in."
SignIn ==
    /\ form.screen = "register"
    /\ me' = TRUE
    /\ form' = [screen |-> "form", trip |-> draft]
    /\ draft' = NoTrip
    /\ options' = TravelMonthOptions(clock) /\ drawn' = clock
    /\ request' = Asking(draft)
    /\ UNCHANGED <<clock, presses, posts>>

OpenForm ==
    /\ form.screen = "home"
    /\ form' = [screen |-> "form", trip |-> NoTrip]
    /\ options' = TravelMonthOptions(clock) /\ drawn' = clock
    /\ UNCHANGED <<clock, me, draft, presses, request, posts>>

\* Created, the post is shown; refused or unheard of, the form stays.
Answer ==
    /\ request.step = "answer"
    /\ request' = NoRequest
    /\ IF ~request.heard THEN UNCHANGED <<form, drawn>>
       ELSE /\ drawn' = clock
            /\ form' = IF request.ok THEN [screen |-> "home", trip |-> NoTrip] ELSE form
    /\ UNCHANGED <<clock, me, options, draft, presses, posts>>

Lose ==
    /\ ~Idle /\ request.heard
    /\ request' = [request EXCEPT !.heard = FALSE]
    /\ drawn' = clock
    /\ UNCHANGED <<clock, me, form, options, draft, presses, posts>>

-----------------------------------------------------------------------------
(* The server *)

Goes(step, at) == request' = [request EXCEPT !.step = step, !.at = at]
Unmoved == UNCHANGED <<clock, me, form, options, drawn, draft, presses>>

CheckMonth ==
    /\ request.step = "month"
    /\ Goes(IF request.trip.month \in TravelMonthOptions(clock) THEN "week" ELSE "answer", First)
    /\ Unmoved /\ UNCHANGED posts

CheckWeek ==
    /\ request.step = "week"
    /\ IF IsTravelWeekOpen(request.trip.month, request.trip.week, clock)
       THEN Goes("insert", clock) ELSE Goes("answer", First)
    /\ Unmoved /\ UNCHANGED posts

\* One ACTIVE post of a package and city.
Insert ==
    /\ request.step = "insert"
    /\ posts' = IF posts = {} THEN {[trip |-> request.trip, at |-> request.at]} ELSE posts
    /\ request' = [request EXCEPT !.step = "answer", !.ok = posts = {}, !.at = First]
    /\ Unmoved

\* Time passes: the phone sleeps, the server waits.
Pass ==
    /\ \E t \in Moment : Before(clock, t) /\ clock' = t
    /\ UNCHANGED <<me, form, options, drawn, draft, presses, request, posts>>

-----------------------------------------------------------------------------
Init ==
    /\ clock = First /\ drawn = First
    /\ me \in BOOLEAN
    /\ form = [screen |-> "home", trip |-> NoTrip]
    /\ options = {} /\ draft = NoTrip /\ presses = 0
    /\ request = NoRequest
    /\ posts = {}

Next ==
    \/ OpenForm \/ Create \/ SignIn \/ Answer \/ Lose
    \/ \E m \in Months : ChooseMonth(m)
    \/ \E w \in Weeks : ChooseWeek(w)
    \/ \E n \in 0..MaxChildren : ChooseChildren(n)
    \/ \E i \in DOMAIN form.trip.childAges, a \in Ages : ChooseAge(i, a)
    \/ CheckMonth \/ CheckWeek \/ Insert
    \/ Pass

Spec == Init /\ [][Next]_tripping

-----------------------------------------------------------------------------
(* Properties *)

\* A post has a whole trip, whatever was chosen and changed before.
TypeOK ==
    /\ clock \in Moment /\ drawn \in Moment
    /\ me \in BOOLEAN
    /\ form.screen \in {"home", "form", "register"} /\ form.trip \in Draft
    /\ options \subseteq Months /\ draft \in Draft
    /\ presses \in 0..MaxPresses
    /\ request \in [step : {"none", "month", "week", "insert", "answer"}, heard : BOOLEAN,
                    trip : Draft, ok : BOOLEAN, at : Moment]
    /\ \A p \in posts : Complete(p.trip) /\ p.trip \in Draft /\ p.at \in Moment

\* A trip lies in the days it was offered for (create(), isTravelWeekOpen()): when its week was
\* checked some day of it was still to come in India, where a day ends at 18:30 UTC, and its
\* month was this one or one of the next ones, however long the form had been open, the
\* sign-in had taken and the server had waited between its checks.
TripCanBeTaken ==
    \A p \in posts :
        LET month == p.trip.month
            last == [month |-> month, day |-> LastDayOf(month, p.trip.week), late |-> FALSE]
            opens == month - MonthsAhead - 1 IN
        /\ ~Before(last, p.at)
        /\ opens \in Months => ~Before(p.at, [month |-> opens, day |-> Length[opens], late |-> TRUE])
=============================================================================
