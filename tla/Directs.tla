------------------------------- MODULE Directs -------------------------------
(***************************************************************************)
(* Starting a direct conversation, statement by statement: with somebody   *)
(* one is connected with, or, with an Elite Pass, for a credit.  People    *)
(* connect, block each other and lose their passes meanwhile (the overlap  *)
(* of those handlers is Connections); a page shows the relationship as it  *)
(* was when last answered for.                                             *)
(***************************************************************************)
EXTENDS Naturals, FiniteSets

CONSTANTS
    Users,
    Buyer,      \* one of them, who starts conversations
    Limit,      \* PLAN_LIMITS.ELITE.directMessages
    AtOnce,     \* the requests of one person that may be under way at once
    MaxCalls,   \* bound: requests, and changes of the pass
    MaxPasses   \* bound: passes

VARIABLES
    relation,      \* relation[v]: the row of the pair of Buyer and v
    pass,          \* the Buyer's pass: its plan, or none, and which it is
    credits,       \* direct_message_credits, by pass and recipient
    conversations, \* with whom there is a direct conversation
    met,           \* with whom the Buyer has ever been connected
    overlapped,    \* the passes of which two credits have been spent at once
    page,          \* the Buyer's page of a person
    calls,         \* the requests under way
    sent           \* how many there have been

meeting == <<relation, pass, credits, conversations, met, overlapped, page, calls, sent>>

None == "none"
Others == Users \ {Buyer}
Plans == {"FREE", "ELITE", None}
Relation == [status : {"NONE", "PENDING", "ACCEPTED", "REJECTED", "CANCELLED", "BLOCKED"}, mine : BOOLEAN]
Stranger == [status |-> "NONE", mine |-> FALSE]

Call == [n : 1..MaxCalls, by : Users, to : Users, op : {"LOAD", "OPEN", "REQUEST", "ACCEPT", "CANCEL", "BLOCK"},
         at : {"joined", "connected", "blocked", "existing", "elite", "already", "count", "spend",
               "upsert", "write", "answer"},
         pass : 0..MaxPasses, ok : BOOLEAN, row : Relation]

Page == [of : Others, loaded : BOOLEAN, shown : Relation, elite : BOOLEAN, busy : BOOLEAN]

Other(c) == IF c.by = Buyer THEN c.to ELSE c.by

-----------------------------------------------------------------------------
(* The server *)

On(c, d) == calls' = (calls \ {c}) \cup {d} /\ UNCHANGED <<page, sent>>
To(c, at) == [c EXCEPT !.at = at]
Fails(c) == To(c, "answer")
Works(c) == [To(c, "answer") EXCEPT !.ok = TRUE]

\* The others have joined for free: the credits of each Elite person are a matter of its own.
PlanOf(u) == IF u = Buyer THEN pass.plan ELSE "FREE"

\* areConnected()
AreConnected(row) == row.status = "ACCEPTED"

\* openDirect() until it spends a credit: joined? connected? blocked? is there a conversation?
Check(c) ==
    /\ c.op = "OPEN"
    /\ CASE c.at = "joined" -> On(c, IF PlanOf(c.by) = None THEN Fails(c) ELSE To(c, "connected"))
         [] c.at = "connected" ->
              On(c, To(c, IF AreConnected(relation[Other(c)]) THEN "upsert" ELSE "blocked"))
         [] c.at = "blocked" ->
              On(c, IF relation[Other(c)].status = "BLOCKED" THEN Fails(c) ELSE To(c, "existing"))
         [] c.at = "existing" ->
              On(c, To(c, IF Other(c) \in conversations THEN "upsert" ELSE "elite"))
         [] OTHER -> FALSE
    /\ UNCHANGED <<relation, pass, credits, conversations, met, overlapped>>

OfPass(n) == {r \in credits : r.pass = n}

\* Has this pass paid for this person?
Already(c) == [pass |-> c.pass, to |-> c.to] \in credits

\* Fault: one more than there are.
OneMore(c) == Cardinality(OfPass(c.pass)) <= Limit

MayCount(c) == Cardinality(OfPass(c.pass)) < Limit

Paying(c) == c.at \in {"already", "count", "spend"}

\* spendDirectMessageCredit(): an Elite Pass; already paid? how many are spent? pay.
Spend(c) ==
    /\ c.op = "OPEN"
    /\ CASE c.at = "elite" ->
              /\ On(c, IF PlanOf(c.by) # "ELITE" THEN Fails(c) ELSE [To(c, "already") EXCEPT !.pass = pass.n])
              /\ UNCHANGED credits
         [] c.at = "already" ->
              /\ On(c, To(c, IF Already(c) THEN "upsert" ELSE "count")) /\ UNCHANGED credits
         [] c.at = "count" ->
              /\ On(c, IF MayCount(c) THEN To(c, "spend") ELSE Fails(c)) /\ UNCHANGED credits
         [] c.at = "spend" ->
              /\ credits' = credits \cup {[pass |-> c.pass, to |-> c.to]}
              /\ On(c, To(c, "upsert"))
         [] OTHER -> FALSE
    /\ overlapped' = IF Cardinality({d \in calls' : d.pass = pass.n /\ Paying(d)}) > 1
                     THEN overlapped \cup {pass.n} ELSE overlapped
    /\ UNCHANGED <<relation, pass, conversations, met>>

\* The upsert finds the one there is, or creates it.
Upsert(c) ==
    /\ c.at = "upsert"
    /\ conversations' = conversations \cup {Other(c)}
    /\ On(c, Works(c))
    /\ UNCHANGED <<relation, pass, credits, met, overlapped>>

\* What request(), accept(), cancel() and block() make of the pair.
Relates(c, row) ==
    LET mine == c.by = Buyer IN
    CASE c.op = "BLOCK" -> [status |-> "BLOCKED", mine |-> mine]
      [] c.op = "REQUEST" /\ row.status = "PENDING" /\ row.mine # mine -> [row EXCEPT !.status = "ACCEPTED"]
      [] c.op = "REQUEST" /\ row.status \in {"NONE", "REJECTED", "CANCELLED"} -> [status |-> "PENDING", mine |-> mine]
      [] c.op = "ACCEPT" /\ row.status = "PENDING" /\ row.mine # mine -> [row EXCEPT !.status = "ACCEPTED"]
      [] c.op = "CANCEL" /\ (row.status = "ACCEPTED" \/ (row.status = "PENDING" /\ row.mine = mine)) ->
           [row EXCEPT !.status = "CANCELLED"]
      [] OTHER -> row

\* To request and to accept, and to see a profile, one has joined.
NeedsPass(op) == op \in {"LOAD", "REQUEST", "ACCEPT"}

Relate(c) ==
    /\ c.at = "write"
    /\ LET old == relation[Other(c)]
           row == IF NeedsPass(c.op) /\ PlanOf(c.by) = None THEN old ELSE Relates(c, old)
           works == c.op = "BLOCK" \/ row # old \/ (c.op = "LOAD" /\ PlanOf(c.by) # None) IN
       /\ relation' = [relation EXCEPT ![Other(c)] = row]
       /\ met' = IF row.status = "ACCEPTED" THEN met \cup {Other(c)} ELSE met
       /\ On(c, IF works THEN [Works(c) EXCEPT !.row = row] ELSE Fails(c))
    /\ UNCHANGED <<pass, credits, conversations, overlapped>>

\* The server restarts.
Crash(c) ==
    /\ c.at \notin {"answer", "joined", "write"}
    /\ On(c, Fails(c))
    /\ UNCHANGED <<relation, pass, credits, conversations, met, overlapped>>

-----------------------------------------------------------------------------
(* The people *)

UnderWay(u) == Cardinality({c \in calls : c.by = u /\ c.at # "answer"})

Request(u, v, op) ==
    [n |-> sent + 1, by |-> u, to |-> v, op |-> op, at |-> IF op = "OPEN" THEN "joined" ELSE "write",
     pass |-> 0, ok |-> FALSE, row |-> Stranger]

Send(u, v, op) ==
    /\ sent < MaxCalls /\ UnderWay(u) < AtOnce
    /\ sent' = sent + 1
    /\ calls' = calls \cup {Request(u, v, op)}
    /\ UNCHANGED <<relation, pass, credits, conversations, met, overlapped>>

Visit(v) ==
    /\ Send(Buyer, v, "LOAD")
    /\ page' = [of |-> v, loaded |-> FALSE, shown |-> Stranger, elite |-> page.elite, busy |-> FALSE]

\* ConnectButton: what it says depends on the relationship shown.
Button ==
    CASE page.shown.status = "ACCEPTED" -> "OPEN"
      [] page.shown.status = "PENDING" -> IF page.shown.mine THEN "CANCEL" ELSE "ACCEPT"
      [] page.shown.status = "BLOCKED" -> None
      [] OTHER -> "REQUEST"

Press ==
    /\ page.loaded /\ ~page.busy /\ Button # None
    /\ Send(Buyer, page.of, Button)
    /\ page' = [page EXCEPT !.busy = TRUE]

\* The second button, "Message", of those who know themselves Elite: it does not wait.
PressMessage ==
    /\ page.loaded /\ page.elite /\ Button = "REQUEST"
    /\ Send(Buyer, page.of, "OPEN")
    /\ page' = [page EXCEPT !.busy = TRUE]

PressBlock ==
    /\ page.loaded
    /\ Send(Buyer, page.of, "BLOCK")
    /\ UNCHANGED page

\* The others do the same, from pages of their own.
OtherDoes(v, op) ==
    /\ op # "LOAD" /\ UnderWay(v) = 0
    /\ Send(v, Buyer, op)
    /\ UNCHANGED page

\* Who was blocked is left; a failure is shown, and changes nothing.
Answer(c) ==
    /\ c.at = "answer"
    /\ calls' = calls \ {c}
    /\ page' = IF c.by # Buyer \/ c.to # page.of THEN page
               ELSE CASE c.op = "LOAD" /\ c.ok -> [page EXCEPT !.loaded = TRUE, !.shown = c.row, !.elite = pass.plan = "ELITE"]
                      [] c.op = "LOAD" /\ ~c.ok -> page
                      [] c.op = "BLOCK" -> [page EXCEPT !.loaded = @ /\ ~c.ok]
                      [] c.op = "OPEN" \/ ~c.ok -> [page EXCEPT !.busy = FALSE]
                      [] OTHER -> [page EXCEPT !.busy = FALSE, !.shown = c.row]
    /\ UNCHANGED <<relation, pass, credits, conversations, met, overlapped, sent>>

\* The pass ends, is upgraded, or another one starts.
PassChanges(plan) ==
    /\ sent < MaxCalls /\ sent' = sent + 1
    /\ plan # pass.plan
    /\ plan # None => pass.n < MaxPasses
    /\ pass' = [plan |-> plan, n |-> IF plan = None THEN pass.n ELSE pass.n + 1]
    /\ UNCHANGED <<relation, credits, conversations, met, overlapped, page, calls>>

-----------------------------------------------------------------------------
Init ==
    /\ relation \in [Others -> {Stranger, [status |-> "ACCEPTED", mine |-> TRUE]}]
    /\ pass = [plan |-> "ELITE", n |-> 1]
    /\ credits = {} /\ conversations = {} /\ overlapped = {}
    /\ met = {v \in Others : relation[v].status = "ACCEPTED"}
    /\ \E v \in Others :
         page = [of |-> v, loaded |-> TRUE, shown |-> relation[v], elite |-> TRUE, busy |-> FALSE]
    /\ calls = {} /\ sent = 0

Next ==
    \/ \E c \in calls : Check(c) \/ Spend(c) \/ Upsert(c) \/ Relate(c) \/ Crash(c) \/ Answer(c)
    \/ \E v \in Others : Visit(v) \/ \E op \in {"OPEN", "REQUEST", "ACCEPT", "CANCEL", "BLOCK"} : OtherDoes(v, op)
    \/ Press \/ PressMessage \/ PressBlock
    \/ \E plan \in Plans : PassChanges(plan)

-----------------------------------------------------------------------------
(* Properties *)

TypeOK ==
    /\ relation \in [Others -> Relation]
    /\ pass \in [plan : Plans, n : 1..MaxPasses]
    /\ credits \subseteq [pass : 1..MaxPasses, to : Others]
    /\ conversations \subseteq Others /\ met \subseteq Others /\ overlapped \subseteq 1..MaxPasses
    /\ page \in Page
    /\ calls \subseteq Call
    /\ sent \in 0..MaxCalls

\* "One credit per person per pass", within PLAN_LIMITS.ELITE.directMessages
\* (spendDirectMessageCredit()): a pass pays for no more people than its limit, and if first
\* messages have overlapped for no more than the others under way besides.
CreditsWithinLimit ==
    \A n \in 1..MaxPasses :
        Cardinality(OfPass(n)) < Limit + (IF n \in overlapped THEN AtOnce ELSE 1)

\* "Starting a direct conversation needs an ACCEPTED connection, or an Elite Pass credit"
\* (ConversationsService): with whomever there is a conversation, the Buyer has been connected
\* or has paid, although connecting, blocking and passes change between the checks and the
\* upsert, and the server may die between the two.
ConversationIsPaidFor ==
    \A v \in conversations : v \in met \/ \E r \in credits : r.to = v
=============================================================================
