------------------------------- MODULE Search -------------------------------
(***************************************************************************)
(* Choosing what to buy, and a city: typing asks the catalogue, a moment   *)
(* after the last keystroke; a category, a brand, a trip type or a country *)
(* narrows it.  Requests are never taken back, and answers may arrive in   *)
(* any order.                                                              *)
(***************************************************************************)
EXTENDS Naturals, FiniteSets

CONSTANTS
    Items,        \* ids of products, and of cities
    Brands,       \* brands of cars
    Countries,
    MaxChanges,   \* bound: what the person and the guess of the country change
    MaxRequests   \* bound: requests

VARIABLES
    catalog,   \* the rows
    chooser,   \* the screen, or the picker
    timer,     \* a request is due
    flights,   \* the requests under way
    changes,   \* how much has been changed
    requested  \* how many requests there have been

choosing == <<catalog, chooser, timer, flights, changes, requested>>

None == "none"
Categories == {"CAR", "SOLAR", "HOLIDAY"}
TripTypes == {"Domestic", "International"}

\* A city's country is its category here.
Row == [active : BOOLEAN, category : Categories \cup Countries, brand : Brands \cup TripTypes \cup {None},
        segment : {"SUV", "Sedan", None}]

Chooser == [kind : {"product", "city"}, open : BOOLEAN, category : Categories \cup Countries,
            brand : Brands \cup TripTypes \cup {None}, q : Items \cup {""}, segment : {"SUV", "Sedan", None},
            loaded : BOOLEAN, results : SUBSET Items, picked : Items \cup {None}, alone : BOOLEAN]

Asked == [category : Categories \cup Countries, brand : Brands \cup TripTypes \cup {None}, q : Items \cup {""}]
Flight == [n : 1..MaxRequests, query : Asked]

-----------------------------------------------------------------------------
(* The catalogue *)

\* searchCars(), listCities(): ACTIVE rows, every word of the text somewhere in the name.
Found(query) ==
    {i \in Items : /\ catalog[i].active /\ catalog[i].category = query.category
                   /\ query.brand \in {None, catalog[i].brand}
                   /\ query.q \in {"", i}}

\* listBrands(), of cars; the trip types are two.
BrandsOf(category) ==
    IF category = "HOLIDAY" THEN TripTypes
    ELSE {catalog[i].brand : i \in {j \in Items : catalog[j].active /\ catalog[j].category = category}}

\* listCountries(): with an active city.
CountriesListed == {c \in Countries : \E i \in Items : catalog[i].active /\ catalog[i].category = c}

-----------------------------------------------------------------------------
(* The effect that asks *)

\* Brands, or trip types, are shown in place of products.
ShowsBrands(s) == s.kind = "product" /\ s.brand = None
                  /\ (s.category = "HOLIDAY" \/ (s.category = "CAR" /\ s.q = ""))

Searches(s) == s.open /\ ~ShowsBrands(s)

\* Typing searches every brand, but a holiday stays within its trip type.
Query(s) ==
    [category |-> s.category, q |-> s.q,
     brand |-> IF s.kind = "city" \/ (s.q # "" /\ s.category # "HOLIDAY") THEN None ELSE s.brand]

\* Fault: only typing asks again.
TypingAsks(s, t) == t.q # s.q

\* The effect's dependencies
AsksAgain(s, t) == <<t.q, t.category, t.brand, t.open>> # <<s.q, s.category, s.brand, s.open>>

Becomes(s) ==
    /\ changes < MaxChanges /\ changes' = changes + 1
    /\ chooser' = s
    /\ timer' = IF AsksAgain(chooser, s) THEN Searches(s) ELSE timer
    /\ UNCHANGED <<catalog, flights, requested>>

Emptied(s) == [s EXCEPT !.loaded = FALSE, !.results = {}]

-----------------------------------------------------------------------------
(* The person *)

Type(text) == chooser.open /\ text # chooser.q /\ Becomes([chooser EXCEPT !.q = text])

\* The chips of the categories, the one that is on too.
SwitchCategory(category) ==
    /\ chooser.kind = "product"
    /\ Becomes(Emptied([chooser EXCEPT !.category = category, !.brand = None, !.segment = None,
                                       !.picked = None]))

OpenBrand(brand) ==
    /\ ShowsBrands(chooser) /\ brand \in BrandsOf(chooser.category)
    /\ Becomes(Emptied([chooser EXCEPT !.brand = brand, !.segment = None, !.picked = None]))

\* "All brands", "Trip type": the results stay, unseen.
Back ==
    /\ chooser.kind = "product" /\ chooser.brand # None
    /\ chooser.q = "" \/ chooser.category = "HOLIDAY"
    /\ Becomes([chooser EXCEPT !.brand = None, !.segment = None, !.picked = None, !.q = ""])

Segments == {catalog[i].segment : i \in chooser.results} \ {None}
Shown == {i \in chooser.results : chooser.segment \in {None, catalog[i].segment}}

PickSegment(segment) ==
    /\ chooser.kind = "product" /\ Searches(chooser) /\ Cardinality(Segments) > 1
    /\ segment \in Segments \cup {None}
    /\ Becomes([chooser EXCEPT !.segment = IF @ = segment THEN None ELSE segment])

\* A city that is picked is the answer, and closes the picker.
Pick(item) ==
    /\ Searches(chooser) /\ item \in Shown
    /\ Becomes([chooser EXCEPT !.picked = item, !.open = chooser.kind = "product"])

ChooseCountry(country) ==
    /\ chooser.kind = "city" /\ chooser.open /\ country \in CountriesListed
    /\ Becomes(Emptied([chooser EXCEPT !.category = country, !.q = ""]))

OpenOrClose == chooser.kind = "city" /\ Becomes([chooser EXCEPT !.open = ~@])

\* The guess from the address, asked for while no city was picked, arrives, whatever has been
\* chosen since.
GuessArrives(country) ==
    /\ chooser.kind = "city"
    /\ Becomes([chooser EXCEPT !.category = country])

-----------------------------------------------------------------------------
(* Requests *)

\* 150 ms after the last change.
Fire ==
    /\ timer /\ requested < MaxRequests
    /\ timer' = FALSE
    /\ requested' = requested + 1
    /\ flights' = flights \cup {[n |-> requested + 1, query |-> Query(chooser)]}
    /\ chooser' = [chooser EXCEPT !.alone = flights = {}]
    /\ UNCHANGED <<catalog, changes>>

Answer(f) ==
    /\ flights' = flights \ {f}
    /\ chooser' = [chooser EXCEPT !.loaded = TRUE, !.results = Found(f.query)]
    /\ UNCHANGED <<catalog, timer, changes, requested>>

\* An error looks like "Nothing found".
Fail(f) ==
    /\ flights' = flights \ {f}
    /\ chooser' = [chooser EXCEPT !.loaded = TRUE, !.results = {}, !.alone = FALSE]
    /\ UNCHANGED <<catalog, timer, changes, requested>>

-----------------------------------------------------------------------------
Rows == {r \in Row : IF r.category \in Countries THEN r.brand = None /\ r.segment = None
                     ELSE CASE r.category = "CAR" -> r.brand \in Brands /\ r.segment # None
                            [] r.category = "HOLIDAY" -> r.brand \in TripTypes /\ r.segment = None
                            [] r.category = "SOLAR" -> r.brand \in Brands /\ r.segment = None}

Init ==
    /\ catalog \in [Items -> Rows]
    /\ \E kind \in {"product", "city"} :
         \E category \in IF kind = "city" THEN Countries ELSE Categories :
           /\ \A i \in Items : catalog[i].category \in IF kind = "city" THEN Countries ELSE Categories
           /\ chooser = [kind |-> kind, open |-> kind = "product", category |-> category, brand |-> None,
                         q |-> "", segment |-> None, loaded |-> FALSE, results |-> {}, picked |-> None,
                         alone |-> TRUE]
    /\ timer = Searches(chooser)
    /\ flights = {} /\ changes = 0 /\ requested = 0

Next ==
    \/ \E text \in Items \cup {""} : Type(text)
    \/ \E category \in Categories : SwitchCategory(category)
    \/ \E brand \in Brands \cup TripTypes : OpenBrand(brand)
    \/ Back \/ OpenOrClose
    \/ \E segment \in {"SUV", "Sedan", None} : PickSegment(segment)
    \/ \E item \in Items : Pick(item)
    \/ \E country \in Countries : ChooseCountry(country) \/ GuessArrives(country)
    \/ Fire
    \/ \E f \in flights : Answer(f) \/ Fail(f)

-----------------------------------------------------------------------------
(* Properties *)

TypeOK ==
    /\ catalog \in [Items -> Row]
    /\ chooser \in Chooser
    /\ timer \in BOOLEAN
    /\ flights \subseteq Flight
    /\ changes \in 0..MaxChanges /\ requested \in 0..MaxRequests

Quiet == ~timer /\ flights = {} /\ Searches(chooser)

\* Once it is quiet, a list that is there is what the catalogue has of the category, the brand
\* or trip type, the country and the text now on the screen, however they were reached, and
\* whatever the guess of the country changed meanwhile; if no two requests overlapped.
ShowsFound ==
    Quiet /\ chooser.loaded /\ chooser.alone => chooser.results = Found(Query(chooser))

\* "Only an empty list (first load, new brand or category) shows the preloader" (search.tsx):
\* the preloader is followed by an answer.
PreloaderEnds == Quiet => chooser.loaded

\* "Typing searches all models directly" (search.tsx): what is typed in full is shown.
TypedIsShown ==
    Quiet /\ chooser.loaded /\ chooser.alone /\ chooser.q # "" /\ chooser.category = "CAR"
    /\ chooser.q \in Found(Query(chooser)) => chooser.q \in Shown
=============================================================================
