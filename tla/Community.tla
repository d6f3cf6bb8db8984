----------------------------- MODULE Community -----------------------------
(***************************************************************************)
(* What goes on around the rooms: files, plans of a collective, the search *)
(* of products and cities, direct conversations, joining, holiday trips,   *)
(* insights, lists, one's posts, what admins decide, and matches.  None    *)
(* writes what another keeps, so each is explored on its own: one is done, *)
(* and the others rest.                                                    *)
(***************************************************************************)
EXTENDS Files, Integers, Sequences

CONSTANTS
    Things,        \* ids of activities, of products and of cities
    Planners,      \* those who plan activities
    Brands,
    Countries,
    Buyer,         \* one of Users, who starts direct conversations
    CreditLimit,   \* PLAN_LIMITS.ELITE.directMessages
    MaxPasses,     \* bound: passes of the Buyer
    Joiners,       \* those with a post, who join
    Matches,       \* those with a post for the viewer's car and city
    AtOnce,        \* bound: requests under way at once
    MaxRooms,      \* bound: collectives ever made
    MaxPresses,    \* bound: times a joiner presses a button
    MaxTyped,      \* bound: what is typed and chosen in a search
    MaxLoads,      \* bound: times a list is asked for
    MaxChanges,    \* bound: things that happen away from a screen
    Length,        \* Length[m]: days of month m
    LastMonth,     \* bound: the month the clock stops in
    MonthsAhead,   \* HOLIDAY_LIMITS.monthsAhead
    MaxChildren,   \* HOLIDAY_LIMITS.maxChildren
    Ages,          \* of children
    Marks,         \* the days the clock stops at, besides the last of a month
    MaxCreated,    \* bound: times "Create" is pressed
    Listed,        \* ids of the rows of a list
    Sought,        \* what a list is filtered by
    PageSize,      \* of a list
    MaxTime,       \* bound: the instants rows are created at
    MaxAsked,      \* bound: loads of a list
    Scopes,        \* a car in a city
    Levels,        \* how sure a person is
    MaxWritten,    \* bound: requests about one's posts
    Staff,         \* users with the role ADMIN
    Rooms, Reported, Paid,    \* the collectives, reports and payments admins decide on
    Distances, TripMonths, TripWeeks, TripNights   \* between two posts, and of their trips

\* Requests are counted, and so is what is done meanwhile.
ASSUME BoundsAssumption ==
    MaxLoads \in Nat /\ MaxTyped \in Nat /\ MaxChanges \in Nat /\ MaxRooms \in Nat /\ MaxPresses \in Nat

\* Someone starts the direct conversations, and has a pass.
ASSUME MeetingAssumption ==
    Buyer \in Users /\ CreditLimit \in Nat /\ AtOnce \in Nat \ {0} /\ MaxPasses \in Nat \ {0}

\* The calendar reaches as far as may be on offer in the last month (TravelMonthOptions).
ASSUME CalendarAssumption ==
    /\ Length \in Seq(28..31)
    /\ LastMonth \in Nat \ {0} /\ MonthsAhead \in Nat
    /\ LastMonth + 1 + MonthsAhead <= Len(Length)
    /\ Marks \subseteq 1..28
    /\ MaxChildren \in Nat /\ MaxCreated \in Nat

\* Ids have an order, None is not one of them, and a page has a row.
ASSUME ListingAssumption ==
    /\ Listed \subseteq Nat \ {0} /\ IsFiniteSet(Listed)
    /\ PageSize \in Nat \ {0}
    /\ MaxTime \in Nat /\ MaxAsked \in Nat \ {0}

ASSUME PostingAssumption == MaxWritten \in Nat

\* A uuid is of one table.
ASSUME ModeratingAssumption ==
    /\ ({Buyer} \cup Staff) \cap (Rooms \cup Reported \cup Paid) = {}
    /\ Rooms \cap (Reported \cup Paid) = {}
    /\ Reported \cap Paid = {}

ASSUME ScoringAssumption ==
    /\ Distances \subseteq Nat
    /\ TripMonths \subseteq Nat /\ TripWeeks \subseteq Nat /\ TripNights \subseteq Nat

VARIABLES
    doing,
    activities, answers, told, members, plans, planCalls, plansSent,
    catalog, chooser, timer, searches, typed, searched,
    relation, pass, credits, conversations, met, overlapped, page, directCalls, directsSent,
    rooms, member, free, elite, post, phone, joins, presses, elsewhere, beenIn,
    clock, signedIn, form, options, drawn, draft, created, creating, holidays,
    held, isIn, others, pairs, panel, looking, loads, meanwhile,
    table, plan, screen, flights, changes, steady, ever,
    posts, history, devices, postCalls, postsSent,
    rows, audit, pages, requests, asked,
    mine, theirs, apart

Planning == INSTANCE Activities WITH
    Users <- Planners, Ids <- Things, screens <- plans, calls <- planCalls, sent <- plansSent
Choosing == INSTANCE Search WITH
    Items <- Things, MaxChanges <- MaxTyped, MaxRequests <- MaxLoads,
    flights <- searches, changes <- typed, requested <- searched
Meeting == INSTANCE Directs WITH
    Limit <- CreditLimit, calls <- directCalls, sent <- directsSent
Getting == INSTANCE Joining WITH
    Buyers <- Joiners, MaxCalls <- AtOnce, calls <- joins, changes <- elsewhere
Travelling == INSTANCE Trips WITH
    MaxPresses <- MaxCreated,
    me <- signedIn, presses <- created, request <- creating, posts <- holidays
Looking == INSTANCE Insights WITH
    Buyers <- Matches, MaxCalls <- AtOnce,
    plan <- held, in <- isIn, posts <- others, relation <- pairs, calls <- looking,
    changes <- meanwhile
Listing == INSTANCE Lists WITH
    Rows <- Listed, Values <- Sought, Limit <- PageSize, MaxLoads <- MaxAsked
Posting == INSTANCE Posts WITH
    Ids <- Things, Devices <- Pair, MaxCalls <- MaxWritten,
    calls <- postCalls, sent <- postsSent
Moderating == INSTANCE Moderation WITH
    Admins <- Pair, People <- {Buyer}, Collectives <- Rooms, Reports <- Reported, Payments <- Paid
Scoring == INSTANCE Matching WITH
    Places <- Distances, Months <- TripMonths, Weeks <- TripWeeks, Nights <- TripNights

-----------------------------------------------------------------------------
(* What rests has this value. *)
Idle == "idle"
FilesRest == owner = [f \in Ids |-> None] /\ photo = [u \in Users |-> None] /\ puts = {}
             /\ inside = {} /\ open = TRUE /\ calls = {} /\ sent = 0
             /\ got = [f \in Ids |-> {}] /\ reach = [f \in Ids |-> {}]
ActivitiesRest == activities = Idle /\ answers = Idle /\ told = Idle /\ members = Idle /\ plans = Idle
                  /\ planCalls = Idle /\ plansSent = Idle
SearchRests == catalog = Idle /\ chooser = Idle /\ timer = Idle /\ searches = Idle /\ typed = Idle
               /\ searched = Idle
DirectsRest == relation = Idle /\ pass = Idle /\ credits = Idle /\ conversations = Idle /\ met = Idle
               /\ overlapped = Idle /\ page = Idle /\ directCalls = Idle /\ directsSent = Idle
JoiningRests == rooms = Idle /\ member = Idle /\ free = Idle /\ elite = Idle /\ post = Idle
                /\ phone = Idle /\ joins = Idle /\ presses = Idle /\ elsewhere = Idle /\ beenIn = Idle
TripsRest == clock = Idle /\ signedIn = Idle /\ form = Idle /\ options = Idle /\ drawn = Idle
             /\ draft = Idle /\ created = Idle /\ creating = Idle /\ holidays = Idle
InsightsRest == held = Idle /\ isIn = Idle /\ others = Idle /\ pairs = Idle /\ panel = Idle
                /\ looking = Idle /\ loads = Idle /\ meanwhile = Idle
ListsRest == table = Idle /\ plan = Idle /\ screen = Idle /\ flights = Idle /\ changes = Idle
             /\ steady = Idle /\ ever = Idle
PostsRest == posts = Idle /\ history = Idle /\ devices = Idle /\ postCalls = Idle /\ postsSent = Idle
ModerationRests == rows = Idle /\ audit = Idle /\ pages = Idle /\ requests = Idle /\ asked = Idle
MatchingRests == mine = Idle /\ theirs = Idle /\ apart = Idle

CommunityInit ==
    /\ doing \in {"files", "activities", "search", "directs", "joining", "trips", "insights",
                 "lists", "posts", "moderation", "matching"}
    /\ IF doing = "files" THEN Init ELSE FilesRest
    /\ IF doing = "activities" THEN Planning!Init ELSE ActivitiesRest
    /\ IF doing = "search" THEN Choosing!Init ELSE SearchRests
    /\ IF doing = "directs" THEN Meeting!Init ELSE DirectsRest
    /\ IF doing = "joining" THEN Getting!Init ELSE JoiningRests
    /\ IF doing = "trips" THEN Travelling!Init ELSE TripsRest
    /\ IF doing = "insights" THEN Looking!Init ELSE InsightsRest
    /\ IF doing = "lists" THEN Listing!Init ELSE ListsRest
    /\ IF doing = "posts" THEN Posting!Init ELSE PostsRest
    /\ IF doing = "moderation" THEN Moderating!Init ELSE ModerationRests
    /\ IF doing = "matching" THEN Scoring!Init ELSE MatchingRests

-----------------------------------------------------------------------------
planning == <<activities, answers, told, members, plans, planCalls, plansSent>>
choosing == <<catalog, chooser, timer, searches, typed, searched>>
meeting == <<relation, pass, credits, conversations, met, overlapped, page, directCalls, directsSent>>
getting == <<rooms, member, free, elite, post, phone, joins, presses, elsewhere, beenIn>>
travelling == <<clock, signedIn, form, options, drawn, draft, created, creating, holidays>>
insights == <<held, isIn, others, pairs, panel, looking, loads, meanwhile>>
listing == <<table, plan, screen, flights, changes, steady, ever>>
posting == <<posts, history, devices, postCalls, postsSent>>
moderating == <<rows, audit, pages, requests, asked>>
scoring == <<mine, theirs, apart>>
community == <<doing, filing, planning, choosing, meeting, getting, travelling, insights,
               listing, posting, moderating, scoring>>

CommunityNext ==
    /\ UNCHANGED doing
    /\ \/ /\ doing = "files" /\ Next
          /\ UNCHANGED <<planning, choosing, meeting, getting, travelling,
                       insights, listing, posting, moderating, scoring>>
       \/ /\ doing = "activities" /\ Planning!Next
          /\ UNCHANGED <<filing, choosing, meeting, getting, travelling,
                       insights, listing, posting, moderating, scoring>>
       \/ /\ doing = "search" /\ Choosing!Next
          /\ UNCHANGED <<filing, planning, meeting, getting, travelling,
                       insights, listing, posting, moderating, scoring>>
       \/ /\ doing = "directs" /\ Meeting!Next
          /\ UNCHANGED <<filing, planning, choosing, getting, travelling,
                       insights, listing, posting, moderating, scoring>>
       \/ /\ doing = "joining" /\ Getting!Next
          /\ UNCHANGED <<filing, planning, choosing, meeting, travelling,
                       insights, listing, posting, moderating, scoring>>
       \/ /\ doing = "trips" /\ Travelling!Next
          /\ UNCHANGED <<filing, planning, choosing, meeting, getting,
                       insights, listing, posting, moderating, scoring>>
       \/ /\ doing = "insights" /\ Looking!Next
          /\ UNCHANGED <<filing, planning, choosing, meeting, getting,
                       travelling, listing, posting, moderating, scoring>>
       \/ /\ doing = "lists" /\ Listing!Next
          /\ UNCHANGED <<filing, planning, choosing, meeting, getting,
                       travelling, insights, posting, moderating, scoring>>
       \/ /\ doing = "posts" /\ Posting!Next
          /\ UNCHANGED <<filing, planning, choosing, meeting, getting,
                       travelling, insights, listing, moderating, scoring>>
       \/ /\ doing = "moderation" /\ Moderating!Next
          /\ UNCHANGED <<filing, planning, choosing, meeting, getting,
                       travelling, insights, listing, posting, scoring>>
       \/ /\ doing = "matching" /\ Scoring!Next
          /\ UNCHANGED <<filing, planning, choosing, meeting, getting,
                       travelling, insights, listing, posting, moderating>>

CommunitySpec == CommunityInit /\ [][CommunityNext]_community

-----------------------------------------------------------------------------
(* Properties, each of the component it is about; OnlyItsAudience is that of Files. *)

\* Rows, requests and screens of whatever goes on are well formed.
CommunityOK ==
    /\ doing = "files" => TypeOK
    /\ doing = "activities" => Planning!TypeOK
    /\ doing = "search" => Choosing!TypeOK
    /\ doing = "directs" => Meeting!TypeOK
    /\ doing = "joining" => Getting!TypeOK
    /\ doing = "trips" => Travelling!TypeOK
    /\ doing = "insights" => Looking!TypeOK
    /\ doing = "lists" => Listing!TypeOK
    /\ doing = "posts" => Posting!TypeOK
    /\ doing = "moderation" => Moderating!TypeOK
    /\ doing = "matching" => Scoring!TypeOK

\* A member alone on an activity sees the answer given last (Activities).
ShowsOwnAnswers == doing = "activities" => Planning!ShowsOwnAnswers

\* A quiet screen shows what there is for what was typed and chosen (Search).
ShowsFound == doing = "search" => Choosing!ShowsFound

\* A direct conversation was paid for, or is between people who were connected; and a pass pays
\* for no more of them than its plan has (Directs).
DirectsArePaidFor ==
    doing = "directs" => Meeting!ConversationIsPaidFor /\ Meeting!CreditsWithinLimit

\* "You're in!" is shown to those who have been in since they pressed "Join" (Joining).
ConfirmedMeansIn == doing = "joining" => Getting!ConfirmedMeansIn

\* A trip was still to come in India when it was checked (Trips).
TripCanBeTaken == doing = "trips" => Travelling!TripCanBeTaken

\* What insights show was for the viewer to see at some time since it was asked for (Insights).
SeesWhatMayBeSeen == doing = "insights" => Looking!SeesWhatMayBeSeen

\* The last page of a list completes what was asked for, each row once (Lists).
ListIsWhole == doing = "lists" => Listing!ShowsWhatWasAsked

\* One ACTIVE post of a car and city, whatever requests about posts overlap (Posts).
OneActivePost == doing = "posts" => Posting!OneActivePost

\* The last entry of a post's history is the level it has (Posts).
HistoryTellsLevel == doing = "posts" => Posting!HistoryTellsLevel

\* What the audit log says was done to a subject is what it is (Moderation).
AuditTellsState == doing = "moderation" => Moderating!AuditTellsState

\* A match's score and reasons tell the truth of the two posts (Matching).
MatchIsExplained == doing = "matching" => Scoring!MatchIsExplained
=============================================================================
