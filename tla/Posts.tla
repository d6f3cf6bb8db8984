------------------------------- MODULE Posts -------------------------------
(***************************************************************************)
(* One person's Buying Posts, statement by statement: created, changed,    *)
(* paused, resumed and closed from several devices and by an admin.  A     *)
(* device shows a form, which a guest may fill in before signing in, or a  *)
(* post as it was when last answered for.                                  *)
(***************************************************************************)
EXTENDS Naturals, Sequences

CONSTANTS
    Ids,       \* ids of rows
    Scopes,    \* a car (or package, or solar size) in a city
    Levels,    \* how sure the person is
    Devices,
    MaxCalls   \* bound: requests

VARIABLES
    posts,     \* the rows
    history,   \* history[p]: the changes of p's level, in the order they were committed
    devices,   \* what each device shows and keeps
    calls,     \* the requests under way
    sent       \* how many have been sent

posting == <<posts, history, devices, calls, sent>>

None == "none"
Statuses == {"ACTIVE", "PAUSED", "CLOSED"}
Row == [scope : Scopes, status : Statuses, level : Levels, closedAt : BOOLEAN]
Absent == [scope |-> None, status |-> None, level |-> None, closedAt |-> FALSE]
Change == [previousLevel : Levels \cup {None}, newLevel : Levels]

Ops == {"CREATE", "MINE", "GET", "LEVEL", "TIMELINE", "PAUSE", "RESUME", "CLOSE"}
Call == [n : 1..MaxCalls, device : Devices \cup {None}, op : Ops, post : Ids \cup {None},
         scope : Scopes \cup {None}, level : Levels \cup {None},
         at : {"read", "dup", "write", "answer"}, seen : Row \cup {Absent},
         result : {"ok", "refused", "DUPLICATE", None}]

Device == [me : BOOLEAN, draft : Scopes \cup {None}, screen : {"home", "form", "signIn", "post"},
           scope : Scopes \cup {None}, post : Ids \cup {None}, shown : Row \cup {Absent},
           existing : Ids \cup {None}, busy : BOOLEAN]

Exists(p) == posts[p] # Absent
Editable(row) == row.status \in {"ACTIVE", "PAUSED"}

\* findFirst: another ACTIVE post of the same car and city.
ActiveElsewhere(p, scope) == {q \in Ids \ {p} : posts[q].scope = scope /\ posts[q].status = "ACTIVE"}

\* Fault: nothing but the check before.
NoIndex(p, row) == TRUE

\* buying_intents_one_active_per_user_car_city
Unique(p, row) == row.status = "ACTIVE" => ActiveElsewhere(p, row.scope) = {}

-----------------------------------------------------------------------------
(* Requests *)

Request(d, op, p, scope, level) ==
    [n |-> sent + 1, device |-> d, op |-> op, post |-> p, scope |-> scope, level |-> level,
     at |-> IF op = "CREATE" THEN "dup" ELSE "read", seen |-> Absent, result |-> None]

Send(d, op, p, scope, level) ==
    /\ sent < MaxCalls
    /\ sent' = sent + 1
    /\ calls' = calls \cup {Request(d, op, p, scope, level)}

Becomes(c, e) == calls' = (calls \ {c}) \cup {e} /\ UNCHANGED <<devices, sent>>
Goes(c, at) == [c EXCEPT !.at = at]
Done(c, result, row) == [c EXCEPT !.at = "answer", !.result = result, !.seen = row]

-----------------------------------------------------------------------------
(* The server *)

\* requireOwned(), and what each operation asks of the status it finds.
Allowed(op, row) ==
    CASE op \in {"LEVEL", "TIMELINE", "CLOSE"} -> Editable(row)
      [] op = "PAUSE" -> row.status = "ACTIVE"
      [] op = "RESUME" -> row.status = "PAUSED"
      [] OTHER -> TRUE

Read(c) ==
    /\ c.at = "read" /\ c.op # "MINE"
    /\ LET row == posts[c.post] IN
       Becomes(c, IF ~Allowed(c.op, row) THEN Done(c, "refused", row)
                  ELSE CASE c.op = "GET" \/ (c.op = "LEVEL" /\ row.level = c.level) -> Done(c, "ok", row)
                         [] c.op = "RESUME" -> [Goes(c, "dup") EXCEPT !.seen = row]
                         [] OTHER -> [Goes(c, "write") EXCEPT !.seen = row])
    /\ UNCHANGED <<posts, history>>

\* listMine(): the form looks for the ACTIVE post it collided with.
Mine(c) ==
    /\ c.at = "read" /\ c.op = "MINE"
    /\ \/ \E p \in ActiveElsewhere(None, c.scope) : Becomes(c, [Done(c, "ok", posts[p]) EXCEPT !.post = p])
       \/ ActiveElsewhere(None, c.scope) = {} /\ Becomes(c, Done(c, "ok", Absent))
    /\ UNCHANGED <<posts, history>>

\* create() and RESUME look for a duplicate before they write.
CheckDuplicate(c) ==
    /\ c.at = "dup"
    /\ LET scope == IF c.op = "CREATE" THEN c.scope ELSE c.seen.scope IN
       Becomes(c, IF ActiveElsewhere(c.post, scope) = {} THEN Goes(c, "write") ELSE Done(c, "DUPLICATE", Absent))
    /\ UNCHANGED <<posts, history>>

\* create(): the row and the first entry of its history, in one statement.
Insert(c) ==
    /\ c.op = "CREATE" /\ c.at = "write"
    /\ \E p \in {q \in Ids : ~Exists(q)} :
         LET row == [scope |-> c.scope, status |-> "ACTIVE", level |-> c.level, closedAt |-> FALSE] IN
         IF Unique(p, row)
         THEN /\ posts' = [posts EXCEPT ![p] = row]
              /\ history' = [history EXCEPT ![p] = <<[previousLevel |-> None, newLevel |-> c.level]>>]
              /\ Becomes(c, [Done(c, "ok", row) EXCEPT !.post = p])
         ELSE Becomes(c, Done(c, "refused", Absent)) /\ UNCHANGED <<posts, history>>

\* Fault: the level is written whatever the request is about.
WholeBody(op, row, level) ==
    [row EXCEPT !.level = level,
                !.status = CASE op = "PAUSE" -> "PAUSED" [] op = "CLOSE" -> "CLOSED" [] OTHER -> "ACTIVE"]

\* What update() sets, on whatever the row has become.
Updated(op, row, level) ==
    CASE op = "LEVEL" -> [row EXCEPT !.level = level]
      [] op = "PAUSE" -> [row EXCEPT !.status = "PAUSED"]
      [] op = "RESUME" -> [row EXCEPT !.status = "ACTIVE"]
      [] op = "CLOSE" -> [row EXCEPT !.status = "CLOSED", !.closedAt = TRUE]
      [] OTHER -> row

\* changeLevel() writes the level and its history in one update.
Recorded(c) ==
    IF c.op = "LEVEL"
    THEN [history EXCEPT ![c.post] =
              Append(@, [previousLevel |-> c.seen.level, newLevel |-> c.level])]
    ELSE history

Update(c) ==
    /\ c.op # "CREATE" /\ c.at = "write"
    /\ LET row == Updated(c.op, posts[c.post], c.level) IN
       IF Unique(c.post, row)
       THEN /\ posts' = [posts EXCEPT ![c.post] = row]
            /\ history' = Recorded(c)
            /\ Becomes(c, Done(c, "ok", row))
       ELSE Becomes(c, Done(c, "refused", Absent)) /\ UNCHANGED <<posts, history>>

\* An admin closes it, as the owner would.
CloseIntent(p) ==
    /\ Editable(posts[p])
    /\ Send(None, "CLOSE", p, None, None)
    /\ UNCHANGED <<posts, history, devices>>

-----------------------------------------------------------------------------
(* The devices *)

Set(d, record) == devices' = [devices EXCEPT ![d] = record]

\* What a screen that is left has asked for is answered to nobody.
Dropped(d) == {IF c.device = d THEN [c EXCEPT !.device = None] ELSE c : c \in calls}

\* A product is picked: the form, for guests too.
OpenForm(d, scope) ==
    /\ devices[d].screen = "home"
    /\ Set(d, [devices[d] EXCEPT !.screen = "form", !.scope = scope])
    /\ UNCHANGED <<posts, history, calls, sent>>

Leave(d) ==
    /\ devices[d].screen # "home"
    /\ Set(d, [devices[d] EXCEPT !.screen = "home", !.scope = None, !.post = None, !.shown = Absent,
                                 !.existing = None, !.busy = FALSE])
    /\ calls' = Dropped(d)
    /\ UNCHANGED <<posts, history, sent>>

\* create() as a guest: the form is kept, and signing in asked for.
KeepDraft(d) ==
    /\ devices[d].screen = "form" /\ ~devices[d].me
    /\ Set(d, [devices[d] EXCEPT !.draft = devices[d].scope, !.screen = "signIn"])
    /\ UNCHANGED <<posts, history, calls, sent>>

\* Signed in, wherever from: a form that was kept is taken out, shown and created, once.
SignIn(d, level) ==
    LET dev == devices[d] IN
    /\ ~dev.me
    /\ IF dev.draft = None
       THEN Set(d, [dev EXCEPT !.me = TRUE, !.screen = "home", !.scope = None]) /\ UNCHANGED <<calls, sent>>
       ELSE /\ Set(d, [dev EXCEPT !.me = TRUE, !.draft = None, !.screen = "form", !.scope = dev.draft,
                                  !.busy = TRUE])
            /\ Send(d, "CREATE", None, dev.draft, level)
    /\ UNCHANGED <<posts, history>>

Create(d, level) ==
    LET dev == devices[d] IN
    /\ dev.screen = "form" /\ dev.me /\ ~dev.busy
    /\ Send(d, "CREATE", None, dev.scope, level)
    /\ Set(d, [dev EXCEPT !.busy = TRUE, !.existing = None])
    /\ UNCHANGED <<posts, history>>

\* "Open it", or a row of My posts.
OpenPost(d, p) ==
    LET dev == devices[d] IN
    /\ dev.me /\ Exists(p)
    /\ dev.screen = "home" \/ p = dev.existing
    /\ sent < MaxCalls /\ sent' = sent + 1
    /\ calls' = Dropped(d) \cup {Request(d, "GET", p, None, None)}
    /\ Set(d, [dev EXCEPT !.screen = "post", !.post = p, !.scope = None, !.shown = Absent,
                          !.existing = None, !.busy = FALSE])
    /\ UNCHANGED <<posts, history>>

Refresh(d) ==
    /\ devices[d].screen = "post"
    /\ Send(d, "GET", devices[d].post, None, None)
    /\ UNCHANGED <<posts, history, devices>>

\* act(): of the buttons only Pause and Resume wait for what is under way.
Act(d, op, level) ==
    LET dev == devices[d] IN
    /\ dev.screen = "post" /\ Editable(dev.shown)
    /\ CASE op = "PAUSE" -> dev.shown.status = "ACTIVE" /\ ~dev.busy
         [] op = "RESUME" -> dev.shown.status = "PAUSED" /\ ~dev.busy
         [] op = "LEVEL" -> level # dev.shown.level
         [] OTHER -> op \in {"CLOSE", "TIMELINE"}
    /\ Send(d, op, dev.post, None, IF op = "LEVEL" THEN level ELSE None)
    /\ Set(d, [dev EXCEPT !.busy = TRUE])
    /\ UNCHANGED <<posts, history>>

\* The form gives way to the new post's collective, or asks for the post it collided with.
AnswerForm(c) ==
    LET dev == devices[c.device] IN
    CASE c.op = "MINE" ->
           /\ Set(c.device, [dev EXCEPT !.existing = c.post])
           /\ calls' = calls \ {c} /\ UNCHANGED sent
      [] c.op = "CREATE" /\ c.result = "ok" ->
           /\ Set(c.device, [dev EXCEPT !.screen = "home", !.scope = None, !.existing = None,
                                        !.busy = FALSE])
           /\ calls' = calls \ {c} /\ UNCHANGED sent
      [] c.op = "CREATE" /\ c.result = "DUPLICATE" /\ sent < MaxCalls ->
           /\ Set(c.device, [dev EXCEPT !.busy = FALSE])
           /\ calls' = (calls \ {c}) \cup {Request(c.device, "MINE", None, c.scope, None)}
           /\ sent' = sent + 1
      [] OTHER ->
           /\ Set(c.device, [dev EXCEPT !.busy = FALSE])
           /\ calls' = calls \ {c} /\ UNCHANGED sent

\* A post's screen shows the row of whichever answer came last.
AnswerPost(c) ==
    LET dev == devices[c.device] IN
    /\ Set(c.device, [dev EXCEPT !.shown = IF c.result = "ok" THEN c.seen ELSE @,
                                 !.busy = @ /\ c.op = "GET"])
    /\ calls' = calls \ {c} /\ UNCHANGED sent

Answer(c) ==
    /\ c.at = "answer"
    /\ IF c.device = None THEN calls' = calls \ {c} /\ UNCHANGED <<devices, sent>>
       ELSE IF c.op \in {"CREATE", "MINE"} THEN AnswerForm(c) ELSE AnswerPost(c)
    /\ UNCHANGED <<posts, history>>

\* The connection breaks: an error is shown, what the server is doing goes on.
Lose(c) ==
    /\ c.device # None
    /\ Set(c.device, [devices[c.device] EXCEPT !.busy = @ /\ c.op \in {"GET", "MINE"}])
    /\ calls' = (calls \ {c}) \cup {[c EXCEPT !.device = None]}
    /\ UNCHANGED <<posts, history, sent>>

-----------------------------------------------------------------------------
Init ==
    /\ posts \in [Ids -> {row \in Row : ~row.closedAt /\ Editable(row)} \cup {Absent}]
    /\ \A p, q \in Ids : Exists(p) /\ Exists(q) => p = q
    /\ history = [p \in Ids |-> IF posts[p] = Absent THEN <<>>
                                ELSE <<[previousLevel |-> None, newLevel |-> posts[p].level]>>]
    /\ \E signedIn \in SUBSET Devices :
         devices = [d \in Devices |-> [me |-> d \in signedIn, draft |-> None, screen |-> "home", scope |-> None,
                                       post |-> None, shown |-> Absent, existing |-> None, busy |-> FALSE]]
    /\ calls = {} /\ sent = 0

Next ==
    \/ \E c \in calls : \/ Read(c) \/ Mine(c) \/ CheckDuplicate(c) \/ Insert(c) \/ Update(c)
                        \/ Answer(c) \/ Lose(c)
    \/ \E p \in Ids : CloseIntent(p)
    \/ \E d \in Devices :
         \/ \E scope \in Scopes : OpenForm(d, scope)
         \/ Leave(d) \/ KeepDraft(d) \/ Refresh(d)
         \/ \E level \in Levels : SignIn(d, level) \/ Create(d, level)
         \/ \E p \in Ids : OpenPost(d, p)
         \/ \E op \in Ops, level \in Levels : Act(d, op, level)

-----------------------------------------------------------------------------
(* Properties *)

TypeOK ==
    /\ posts \in [Ids -> Row \cup {Absent}]
    /\ history \in [Ids -> Seq(Change)]
    /\ devices \in [Devices -> Device]
    /\ calls \subseteq Call
    /\ sent \in 0..MaxCalls

\* "One ACTIVE post per (user, car, city)" (create()), however creating, resuming and closing
\* interleave after their checks for a duplicate have passed.
OneActivePost ==
    \A p, q \in Ids : p # q /\ posts[p].status = "ACTIVE" /\ posts[q].status = "ACTIVE"
                        => posts[p].scope # posts[q].scope

\* "Every change is recorded in the history" (changeLevel()): the last entry of a post's
\* history is the level it has, although changes overlap.
HistoryTellsLevel == \A p \in Ids : Exists(p) => history[p][Len(history[p])].newLevel = posts[p].level

\* "Closing is final" (transition()): a post that was closed stays closed.
ClosedIsFinal == \A p \in Ids : posts[p].closedAt => posts[p].status = "CLOSED"
=============================================================================
