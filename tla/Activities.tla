----------------------------- MODULE Activities -----------------------------
(***************************************************************************)
(* The activities of one collective: planned, answered for and cancelled   *)
(* by its members, statement by statement, and each member's screen, which *)
(* puts an answer into the list it had when the button was pressed.        *)
(***************************************************************************)
EXTENDS Naturals, FiniteSets

CONSTANTS
    Users,
    Ids,       \* ids of activities
    MaxCalls   \* bound: requests

VARIABLES
    activities,  \* the rows
    answers,     \* answers[a][u]: activity_participants
    told,        \* told[a]: who has been notified of it
    members,     \* who has an ACTIVE membership
    screens,     \* what each member's screen shows
    calls,       \* the requests under way
    sent         \* how many there have been

planning == <<activities, answers, told, members, screens, calls, sent>>

None == "none"
Answers == {"GOING", "NOT_GOING"}
Activity == [by : Users, status : {"SCHEDULED", "CANCELLED"}]
Absent == [by |-> None, status |-> None]

\* ActivityDto, for one viewer
View == [by : Users, status : {"SCHEDULED", "CANCELLED"}, mine : Answers \cup {None}, going : SUBSET Users]
Unlisted == [by |-> None, status |-> None, mine |-> None, going |-> {}]
List == [Ids -> View \cup {Unlisted}]
NotLoaded == [a \in Ids |-> Unlisted]

\* "alone": ever since its list was asked for, one request at a time was under way, and none was lost.
Screen == [list : List, alone : BOOLEAN]

Call == [n : 1..MaxCalls, by : Users, op : {"CREATE", "LIST", "RSVP", "CANCEL"}, activity : Ids \cup {None},
         answer : Answers \cup {None}, base : List, result : List, ok : BOOLEAN, seen : BOOLEAN,
         at : {"find", "member", "write", "notify", "view", "answer"}]

Exists(a) == activities[a] # Absent

\* toDto()
ViewOf(a, u) ==
    [by |-> activities[a].by, status |-> activities[a].status, mine |-> answers[a][u],
     going |-> {v \in Users : answers[a][v] = "GOING"}]

-----------------------------------------------------------------------------
(* The server *)

On(c, d) == calls' = (calls \ {c}) \cup {d} /\ UNCHANGED <<members, screens, sent>>
To(c, at) == [c EXCEPT !.at = at]

\* rsvp(), cancel(): the activity is looked up before membership is.
Find(c) ==
    /\ c.at = "find"
    /\ On(c, To(c, "member"))
    /\ UNCHANGED <<activities, answers, told>>

\* requireActiveMember(), and NOT_CREATOR
Member(c) ==
    /\ c.at = "member"
    /\ LET may == c.by \in members /\ (c.op = "CANCEL" => activities[c.activity].by = c.by) IN
       On(c, To(c, IF ~may THEN "answer" ELSE IF c.op = "LIST" THEN "view" ELSE "write"))
    /\ UNCHANGED <<activities, answers, told>>

\* Its creator is going.
Create(c) ==
    /\ c.at = "write" /\ c.op = "CREATE"
    /\ \E a \in {b \in Ids : ~Exists(b)} :
         /\ activities' = [activities EXCEPT ![a] = [by |-> c.by, status |-> "SCHEDULED"]]
         /\ answers' = [answers EXCEPT ![a][c.by] = "GOING"]
         /\ On(c, [To(c, "notify") EXCEPT !.activity = a])
    /\ UNCHANGED told

Notify(c) ==
    /\ c.at = "notify"
    /\ told' = [told EXCEPT ![c.activity] = members \ {c.by}]
    /\ On(c, [To(c, "answer") EXCEPT !.ok = TRUE])
    /\ UNCHANGED <<activities, answers>>

\* Fault: the activity as it was found, with the old answer in it.
AsFound(c) == [c.base EXCEPT ![c.activity] = IF @ = Unlisted THEN ViewOf(c.activity, c.by) ELSE @]

\* The row is read again, with its participants.
ReadAgain(c) == [NotLoaded EXCEPT ![c.activity] = ViewOf(c.activity, c.by)]

\* The upsert of one's answer, whatever the status, which is not asked; the answer is read after it.
Rsvp(c) ==
    /\ c.at = "write" /\ c.op = "RSVP"
    /\ answers' = [answers EXCEPT ![c.activity][c.by] = c.answer]
    /\ On(c, To(c, "view"))
    /\ UNCHANGED <<activities, told>>

Cancel(c) ==
    /\ c.at = "write" /\ c.op = "CANCEL"
    /\ activities' = [activities EXCEPT ![c.activity].status = "CANCELLED"]
    /\ On(c, To(c, "view"))
    /\ UNCHANGED <<answers, told>>

See(c) ==
    /\ c.at = "view"
    /\ LET result == IF c.op = "LIST" THEN [a \in Ids |-> IF Exists(a) THEN ViewOf(a, c.by) ELSE Unlisted]
                     ELSE ReadAgain(c) IN
       On(c, [To(c, "answer") EXCEPT !.ok = TRUE, !.result = result])
    /\ UNCHANGED <<activities, answers, told>>

-----------------------------------------------------------------------------
(* The screens *)

Own(u) == {c \in calls : c.by = u}

Request(u, op, a, answer) ==
    [n |-> sent + 1, by |-> u, op |-> op, activity |-> a, answer |-> answer, base |-> screens[u].list,
     result |-> NotLoaded, ok |-> FALSE, seen |-> TRUE, at |-> IF a = None THEN "member" ELSE "find"]

\* Focus, pull to refresh: the list shown stays until the answer comes.
Load(u) ==
    /\ sent < MaxCalls /\ sent' = sent + 1
    /\ calls' = calls \cup {Request(u, "LIST", None, None)}
    /\ screens' = [screens EXCEPT ![u].alone = Own(u) = {}]
    /\ UNCHANGED <<activities, answers, told, members>>

Act(u, op, a, answer) ==
    /\ sent < MaxCalls /\ sent' = sent + 1
    /\ calls' = calls \cup {Request(u, op, a, answer)}
    /\ screens' = [screens EXCEPT ![u].alone = @ /\ Own(u) = {}]
    /\ UNCHANGED <<activities, answers, told, members>>

\* "Plan an activity": the sheet's button waits for its answer.
Plan(u) == (\A c \in Own(u) : c.op # "CREATE" \/ ~c.seen) /\ Act(u, "CREATE", None, None)

\* "Going", "Can't go": of an activity shown as planned.
Press(u, a, answer) == screens[u].list[a].status = "SCHEDULED" /\ Act(u, "RSVP", a, answer)

PressCancel(u, a) ==
    /\ screens[u].list[a].status = "SCHEDULED" /\ screens[u].list[a].by = u
    /\ Act(u, "CANCEL", a, None)

\* replace() maps over the list of when the button was pressed, not of now.
Replaced(c) == [a \in Ids |-> IF a = c.activity /\ c.base[a] # Unlisted THEN c.result[a] ELSE c.base[a]]

Answer(c) ==
    /\ c.at = "answer"
    /\ LET reload == c.op = "CREATE" /\ c.ok /\ c.seen /\ sent < MaxCalls
           list == IF ~c.ok \/ ~c.seen \/ c.op = "CREATE" THEN screens[c.by].list
                   ELSE IF c.op = "LIST" THEN c.result ELSE Replaced(c) IN
       /\ calls' = (calls \ {c}) \cup IF reload THEN {Request(c.by, "LIST", None, None)} ELSE {}
       /\ sent' = IF reload THEN sent + 1 ELSE sent
       /\ screens' = [screens EXCEPT ![c.by].list = list,
                        ![c.by].alone = IF reload THEN Own(c.by) = {c} ELSE @ /\ (c.ok \/ c.op # "LIST")]
    /\ UNCHANGED <<activities, answers, told, members>>

\* The connection breaks, and the server goes on.
Lose(c) ==
    /\ c.seen
    /\ calls' = (calls \ {c}) \cup {[c EXCEPT !.seen = FALSE]}
    /\ screens' = [screens EXCEPT ![c.by].alone = FALSE]
    /\ UNCHANGED <<activities, answers, told, members, sent>>

\* A pass ends, or begins again.
JoinOrLeave(u) ==
    /\ sent < MaxCalls /\ sent' = sent + 1
    /\ members' = IF u \in members THEN members \ {u} ELSE members \cup {u}
    /\ UNCHANGED <<activities, answers, told, screens, calls>>

-----------------------------------------------------------------------------
Init ==
    /\ \E by \in Users, a \in Ids :
         /\ activities = [[b \in Ids |-> Absent] EXCEPT ![a] = [by |-> by, status |-> "SCHEDULED"]]
         /\ answers = [b \in Ids |-> [u \in Users |-> IF b = a /\ u = by THEN "GOING" ELSE None]]
    /\ told = [a \in Ids |-> {}]
    /\ members = Users
    /\ screens = [u \in Users |-> [list |-> NotLoaded, alone |-> FALSE]]
    /\ calls = {} /\ sent = 0

Next ==
    \/ \E c \in calls : \/ Find(c) \/ Member(c) \/ Create(c) \/ Notify(c) \/ Rsvp(c) \/ Cancel(c)
                        \/ See(c) \/ Answer(c) \/ Lose(c)
    \/ \E u \in Users :
         \/ Load(u) \/ Plan(u) \/ JoinOrLeave(u)
         \/ \E a \in Ids : PressCancel(u, a) \/ \E answer \in Answers : Press(u, a, answer)

-----------------------------------------------------------------------------
(* Properties *)

TypeOK ==
    /\ activities \in [Ids -> Activity \cup {Absent}]
    /\ answers \in [Ids -> [Users -> Answers \cup {None}]]
    /\ told \in [Ids -> SUBSET Users]
    /\ members \subseteq Users
    /\ screens \in [Users -> Screen]
    /\ calls \subseteq Call
    /\ sent \in 0..MaxCalls

\* Whoever has done one thing after the other on the screen sees there what the server has of
\* it: the answers given, and which of the activities planned are cancelled, whatever the other
\* members do meanwhile.  (Two at once, and the later answer undoes the earlier on the screen.)
ShowsOwnAnswers ==
    \A u \in Users :
        screens[u].alone /\ Own(u) = {} =>
            \A a \in Ids : LET shown == screens[u].list[a] IN
                shown # Unlisted => /\ shown.mine = answers[a][u]
                                    /\ shown.by = u => shown.status = activities[a].status
=============================================================================
