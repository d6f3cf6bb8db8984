------------------------------ MODULE Insights ------------------------------
(***************************************************************************)
(* The insights of a collective, for one viewer: a pulse and plans of its  *)
(* members, and the viewer's best matches.  They are asked for at once and *)
(* read in several statements each, while the pass ends, people join, leave*)
(* and block each other, and the viewer connects with who is shown.        *)
(***************************************************************************)
EXTENDS Naturals, FiniteSets

CONSTANTS
    Buyers,     \* others with a post for the car and city
    MaxCalls,   \* bound: requests under way
    MaxLoads,   \* bound: times the insights are asked for
    MaxChanges  \* bound: things that happen meanwhile

VARIABLES
    plan,      \* the viewer's
    in,        \* the viewer is an ACTIVE member
    posts,     \* those whose posts and accounts are ACTIVE
    relation,  \* relation[b]: the row of the pair of the viewer and b
    panel,     \* what the viewer sees
    calls,     \* the requests under way
    loads,     \* how often the insights were asked for
    changes    \* how much has happened

insights == <<plan, in, posts, relation, panel, calls, loads, changes>>

Plans == {"none", "FREE", "ELITE"}
Relations == {"none", "PENDING", "ACCEPTED", "BLOCKED"}
Unblocked == {b \in Buyers : relation[b] # "BLOCKED"}

\* What a load has brought.  Of the pulse and the members' plans only that they are there; each
\* match with its details and the connection there is.  Then what held at some time since it
\* was asked for: the viewer was Elite, was in, and who was not blocked.
Row == [of : Buyers, connection : Relations]
Data == [nearby : BOOLEAN, members : BOOLEAN, matches : BOOLEAN, rows : SUBSET Row,
         wasElite : BOOLEAN, wasIn : BOOLEAN, clear : SUBSET Buyers]
Nothing == [nearby |-> FALSE, members |-> FALSE, matches |-> FALSE, rows |-> {},
            wasElite |-> FALSE, wasIn |-> FALSE, clear |-> {}]
Asked == [Nothing EXCEPT !.wasElite = plan = "ELITE", !.wasIn = in, !.clear = Unblocked]

\* The count is asked for, and the matches if the screen has it that the viewer is in.
CountSteps == {"plan", "nearby", "members", "done", "failed"}
MatchSteps == {"joined", "elite", "blocked", "rows", "connections", "done", "failed"}
Load == [kind : {"load"}, count : CountSteps, match : MatchSteps, to : {"none"},
         blocked : SUBSET Buyers, found : SUBSET Buyers, result : {"none"}, heard : {TRUE}, data : Data]
Connect == [kind : {"connect"}, count : {"done"}, match : {"done"}, to : Buyers,
            blocked : {{}}, found : {{}}, result : {"none", "failed"} \cup Relations, heard : BOOLEAN,
            data : Data]

Becomes(c, d) == calls' = (calls \ {c}) \cup {d}
Reads == UNCHANGED <<plan, in, posts, relation, panel, loads, changes>>

-----------------------------------------------------------------------------
(* GET buyers/count *)

\* pulse() reads the plan first; its counts are of no more than how many there are.
Plan(c) ==
    /\ c.kind = "load" /\ c.count = "plan"
    /\ Becomes(c, [c EXCEPT !.count = IF plan = "ELITE" THEN "nearby" ELSE "done"])
    /\ Reads

\* nearby(): buyers in three bands around the viewer's post, if it has a place, those blocked
\* left out.
Nearby(c) ==
    /\ c.count = "nearby"
    /\ \E here \in BOOLEAN : Becomes(c, [c EXCEPT !.count = "members", !.data.nearby = here])
    /\ Reads

MemberBreakdown(c) ==
    /\ c.count = "members"
    /\ Becomes(c, [c EXCEPT !.count = "done", !.data.members = TRUE])
    /\ Reads

-----------------------------------------------------------------------------
(* GET buyers/matches *)

\* An active membership is asked for before the pass is.
RequireJoined(c) ==
    /\ c.match = "joined"
    /\ Becomes(c, [c EXCEPT !.match = IF in THEN "elite" ELSE "failed"])
    /\ Reads

\* Those without an Elite Pass get no matches, which is no error.
RequireElite(c) ==
    /\ c.match = "elite"
    /\ Becomes(c, [c EXCEPT !.match = IF plan = "ELITE" THEN "blocked" ELSE "done"])
    /\ Reads

BlockedUserIds(c) ==
    /\ c.match = "blocked"
    /\ Becomes(c, [c EXCEPT !.match = "rows", !.blocked = Buyers \ Unblocked])
    /\ Reads

\* Fault: whom the viewer has blocked is not asked for.
FoundAnyone(c) == posts

Found(c) == posts \ c.blocked

FindPosts(c) ==
    /\ c.match = "rows"
    /\ Becomes(c, [c EXCEPT !.match = "connections", !.found = Found(c), !.blocked = {}])
    /\ Reads

\* buyerMapper(): the connections of those found, and their details; the best of them are shown,
\* and none if the viewer has no ACTIVE post there.
Connections(c) ==
    /\ c.match = "connections"
    /\ \E best \in SUBSET c.found :
         Becomes(c, [c EXCEPT !.match = "done", !.found = {}, !.data.matches = TRUE,
                              !.data.rows = {[of |-> b, connection |-> relation[b]] : b \in best}])
    /\ Reads

\* The database fails a statement.
Fail(c) ==
    /\ c.kind = "load"
    /\ \/ c.count \notin {"done", "failed"} /\ Becomes(c, [c EXCEPT !.count = "failed"])
       \/ c.match \notin {"done", "failed"}
          /\ Becomes(c, [c EXCEPT !.match = "failed", !.blocked = {}, !.found = {}])
    /\ Reads

-----------------------------------------------------------------------------
(* The screen *)

CanAsk == Cardinality(calls) < MaxCalls /\ loads < MaxLoads
Ask(joined) ==
    /\ CanAsk
    /\ loads' = loads + 1
    /\ calls' = calls \cup {[kind |-> "load", count |-> "plan",
                             match |-> IF joined THEN "joined" ELSE "done", to |-> "none",
                             blocked |-> {}, found |-> {}, result |-> "none", heard |-> TRUE,
                             data |-> Asked]}
    /\ UNCHANGED <<plan, in, posts, relation, changes>>

\* Opened, the screen knows whether the viewer is in.
Open ==
    /\ ~panel.open
    /\ Ask(in)
    /\ panel' = [open |-> TRUE, joined |-> in, loaded |-> FALSE, data |-> Nothing]

\* In focus again, from a profile or another app: what was there stays until there is more.
Focus ==
    /\ panel.open
    /\ Ask(panel.joined)
    /\ UNCHANGED panel

\* The screen around it has loaded anew, and finds that the viewer has come or gone.
Around ==
    /\ panel.open /\ panel.joined # in
    /\ Ask(in)
    /\ panel' = [panel EXCEPT !.joined = in]

\* Another tab or screen; what was asked for goes on, and is not shown.
Close ==
    /\ panel.open
    /\ panel' = [open |-> FALSE, joined |-> FALSE, loaded |-> FALSE, data |-> Nothing]
    /\ calls' = {[c EXCEPT !.heard = FALSE] : c \in {d \in calls : d.kind = "connect" /\ d.result = "none"}}
    /\ UNCHANGED <<plan, in, posts, relation, loads, changes>>

\* reload(): whichever answer comes last is shown; an error leaves what there was.
Loaded(c) ==
    /\ c.kind = "load"
    /\ c.count \in {"done", "failed"} /\ c.match \in {"done", "failed"}
    /\ panel' = IF "failed" \in {c.count, c.match} THEN panel
                ELSE [panel EXCEPT !.loaded = TRUE, !.data = c.data]
    /\ calls' = calls \ {c}
    /\ UNCHANGED <<plan, in, posts, relation, loads, changes>>

\* The button of a match keeps what was on the screen when it was drawn.
PressConnect(b) ==
    /\ panel.open /\ panel.loaded
    /\ [of |-> b, connection |-> "none"] \in panel.data.rows
    /\ Cardinality(calls) < MaxCalls
    /\ \A c \in calls : c.to = b => ~c.heard
    /\ calls' = calls \cup {[kind |-> "connect", count |-> "done", match |-> "done", to |-> b,
                             blocked |-> {}, found |-> {}, result |-> "none", heard |-> TRUE,
                             data |-> panel.data]}
    /\ Reads

\* request(): refused when there is a connection, a request or a block, or at a limit.
Request(c) ==
    /\ c.kind = "connect" /\ c.result = "none"
    /\ \/ /\ relation[c.to] = "none"
          /\ relation' = [relation EXCEPT ![c.to] = "PENDING"]
          /\ Becomes(c, [c EXCEPT !.result = "PENDING"])
       \/ Becomes(c, [c EXCEPT !.result = "failed"]) /\ UNCHANGED relation
    /\ UNCHANGED <<plan, in, posts, panel, loads, changes>>

\* onChange(): the list as it was, with this connection.
WithConnection(data, b, connection) ==
    [data EXCEPT !.rows = {IF r.of = b THEN [r EXCEPT !.connection = connection] ELSE r : r \in @}]

Connected(c) ==
    /\ c.kind = "connect" /\ c.result # "none"
    /\ panel' = IF c.result = "failed" \/ ~c.heard THEN panel
                ELSE [panel EXCEPT !.data = WithConnection(c.data, c.to, c.result)]
    /\ calls' = calls \ {c}
    /\ UNCHANGED <<plan, in, posts, relation, loads, changes>>

-----------------------------------------------------------------------------
(* What happens meanwhile *)

\* The loads under way remember what holds now.
Remember(elite, joined, clear) ==
    /\ changes < MaxChanges /\ changes' = changes + 1
    /\ calls' = {IF c.kind = "connect" THEN c
                 ELSE [c EXCEPT !.data.wasElite = @ \/ elite, !.data.wasIn = @ \/ joined,
                                !.data.clear = @ \cup clear] : c \in calls}
    /\ UNCHANGED <<panel, loads>>

PassChanges ==
    /\ plan' \in Plans \ {plan}
    /\ Remember(plan' = "ELITE", in, {})
    /\ UNCHANGED <<in, posts, relation>>

JoinOrLeave ==
    /\ in' = ~in
    /\ Remember(FALSE, in', {})
    /\ UNCHANGED <<plan, posts, relation>>

PostChanges ==
    /\ \E b \in Buyers : posts' = IF b \in posts THEN posts \ {b} ELSE posts \cup {b}
    /\ Remember(FALSE, FALSE, {})
    /\ UNCHANGED <<plan, in, relation>>

\* Either of the two blocks, unblocks, accepts, declines or removes the other.
Relate(b) ==
    /\ \/ relation[b] # "BLOCKED" /\ relation' = [relation EXCEPT ![b] = "BLOCKED"]
       \/ relation[b] = "PENDING" /\ relation' = [relation EXCEPT ![b] = "ACCEPTED"]
       \/ relation[b] # "none" /\ relation' = [relation EXCEPT ![b] = "none"]
    /\ Remember(FALSE, FALSE, IF relation'[b] = "BLOCKED" THEN {} ELSE {b})
    /\ UNCHANGED <<plan, in, posts>>

-----------------------------------------------------------------------------
Init ==
    /\ plan \in {"FREE", "ELITE"} /\ in = TRUE
    /\ posts = Buyers
    /\ relation \in [Buyers -> {"none", "BLOCKED"}]
    /\ panel = [open |-> FALSE, joined |-> FALSE, loaded |-> FALSE, data |-> Nothing]
    /\ calls = {} /\ loads = 0 /\ changes = 0

Next ==
    \/ \E c \in calls :
         \/ Plan(c) \/ Nearby(c) \/ MemberBreakdown(c)
         \/ RequireJoined(c) \/ RequireElite(c) \/ BlockedUserIds(c) \/ FindPosts(c) \/ Connections(c)
         \/ Fail(c) \/ Loaded(c) \/ Request(c) \/ Connected(c)
    \/ Open \/ Focus \/ Around \/ Close
    \/ \E b \in Buyers : PressConnect(b) \/ Relate(b)
    \/ PassChanges \/ JoinOrLeave \/ PostChanges

Spec == Init /\ [][Next]_insights

-----------------------------------------------------------------------------
(* Properties *)

TypeOK ==
    /\ plan \in Plans /\ in \in BOOLEAN /\ posts \subseteq Buyers
    /\ relation \in [Buyers -> Relations]
    /\ panel.open \in BOOLEAN /\ panel.joined \in BOOLEAN /\ panel.loaded \in BOOLEAN
    /\ panel.data \in Data
    /\ calls \subseteq Load \cup Connect
    /\ loads \in 0..MaxLoads /\ changes \in 0..MaxChanges

\* Matches, nearby buyers and the members' plans are for Elite members (matches(), count()), and
\* whoever is blocked is in no list: what is on the screen was for the viewer to see at some
\* time since it was asked for, although each part is asked, and each check made, apart.
SeesWhatMayBeSeen ==
    /\ panel.data.nearby \/ panel.data.members \/ panel.data.matches => panel.data.wasElite
    /\ panel.data.matches => panel.data.wasIn
    /\ \A r \in panel.data.rows : r.of \in panel.data.clear

\* A connection just asked for stays on the screen: the answer of a load that is older, or the
\* list kept by another button, takes it away again.
ShowsRequests ==
    \A r \in panel.data.rows : r.connection = "none" => relation[r.of] # "PENDING" \/ calls # {}
=============================================================================
