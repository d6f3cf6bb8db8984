---------------------------- MODULE Connections ----------------------------
(***************************************************************************)
(* Who is connected with whom: requests, acceptance, removal, blocks, and  *)
(* the limits of the plan each person holds.  There is one row per pair.   *)
(* A handler reads the row and counts what the person has open; a later    *)
(* statement writes the row by id, without looking again, so the handlers  *)
(* of several workers overlap between the two.                             *)
(***************************************************************************)
EXTENDS Integers, FiniteSets

CONSTANTS
    Users,
    Nobody,          \* no person
    Pairs,           \* the pairs of people who may meet
    Workers,         \* the handlers that may be under way at once
    OpenLimit,       \* PLAN_LIMITS[plan].activeConnections
    AcceptedLimit,   \* PLAN_LIMITS[plan].acceptedConnections
    Held,            \* the plan each person holds from the start
    Changing,        \* those whose passes and memberships come and go
    MaxPasses        \* bound: the passes they start

Plans == {"FREE", "ELITE"}

ASSUME PeopleAssumption ==
    /\ Nobody \notin Users
    /\ IsFiniteSet(Pairs)
    /\ \A pair \in Pairs : \E u, v \in Users : u # v /\ pair = {u, v}

ASSUME WorkersAssumption == IsFiniteSet(Workers)

ASSUME LimitsAssumption ==
    /\ OpenLimit \in [Plans -> Nat \ {0}]
    /\ AcceptedLimit \in [Plans -> Nat \ {0}]
    /\ OpenLimit["FREE"] <= OpenLimit["ELITE"]

ASSUME PassesAssumption ==
    /\ Held \in [Users -> Plans \cup {"NONE"}]
    /\ Changing \subseteq Users
    /\ MaxPasses \in Nat

VARIABLES
    connection,  \* connection[pair]: status, and who asked (PENDING) or blocked (BLOCKED)
    plan,        \* plan[u]: the plan of u's running pass, or NONE
    joined,      \* joined[u]: u has an ACTIVE membership
    accepted,    \* accepted[u]: acceptances of u since that pass started
    passes,      \* passes[u]: how many passes u has started
    req          \* req[w]: where worker w's handler stands

people == <<plan, joined, passes>>
vars == <<connection, plan, joined, accepted, passes, req>>

Asked == {"PENDING", "BLOCKED"}
Settled == {"NONE", "ACCEPTED", "REJECTED", "CANCELLED"}
Row == [status : Asked, by : Users] \cup [status : Settled, by : {Nobody}]

Steps == {"createRequest", "renewRequest", "checkRequester", "writeAccepted",
          "writeRejected", "writeCancelled", "writeUnblocked"}

Idle == [step |-> "idle", user |-> Nobody, pair |-> {}]

Status(pair) == connection[pair].status
By(pair) == connection[pair].by
Other(u, pair) == CHOOSE v \in pair : v # u

Begin(w, step, u, pair) ==
    /\ req[w] = Idle
    /\ u \in pair
    /\ req' = [req EXCEPT ![w] = [step |-> step, user |-> u, pair |-> pair]]
    /\ UNCHANGED <<connection, accepted, people>>

At(w, step) == req[w].step = step
End(w) == req' = [req EXCEPT ![w] = Idle]

Write(pair, status, by) ==
    connection' = [connection EXCEPT ![pair] = [status |-> status, by |-> by]]

-----------------------------------------------------------------------------
(* The limits. *)

\* Accepted connections, and requests of the person's own that wait.
Open(u) ==
    {pair \in Pairs : /\ u \in pair
                      /\ \/ Status(pair) = "ACCEPTED"
                         \/ Status(pair) = "PENDING" /\ By(pair) = u}

\* Fault: one too many.
MayOpenOneMore(u) ==
    Cardinality(Open(u)) <= OpenLimit[IF plan[u] = "NONE" THEN "FREE" ELSE plan[u]]

MayOpen(u) ==
    Cardinality(Open(u)) < OpenLimit[IF plan[u] = "NONE" THEN "FREE" ELSE plan[u]]

\* Without a running pass there is nothing to count from.
MayAccept(u) == plan[u] # "NONE" => accepted[u] < AcceptedLimit[plan[u]]

-----------------------------------------------------------------------------
(* request() *)

BeginRequest(w, u, pair) ==
    /\ joined[u]
    /\ Status(pair) \in {"NONE", "REJECTED", "CANCELLED"}
    /\ MayOpen(u)
    /\ Begin(w, IF Status(pair) = "NONE" THEN "createRequest" ELSE "renewRequest", u, pair)

\* The pair is unique: creating a row that is there by now fails.
CreateRequest(w) ==
    LET pair == req[w].pair IN
    /\ At(w, "createRequest")
    /\ IF Status(pair) = "NONE" THEN Write(pair, "PENDING", req[w].user)
       ELSE UNCHANGED connection
    /\ End(w)
    /\ UNCHANGED <<accepted, people>>

RenewRequest(w) ==
    /\ At(w, "renewRequest")
    /\ Write(req[w].pair, "PENDING", req[w].user)
    /\ End(w)
    /\ UNCHANGED <<accepted, people>>

-----------------------------------------------------------------------------
(* accept(), also reached by requesting somebody who has already asked. *)

BeginAccept(w, u, pair) ==
    /\ Status(pair) = "PENDING"
    /\ By(pair) # u
    /\ joined[u]
    /\ MayOpen(u)
    /\ MayAccept(u)
    /\ Begin(w, "checkRequester", u, pair)

\* Fault: the limit of the one who asked is not looked at.
CheckNobody(w) ==
    /\ At(w, "checkRequester")
    /\ req' = [req EXCEPT ![w].step = "writeAccepted"]
    /\ UNCHANGED <<connection, accepted, people>>

\* For the one who asked, the pending request becomes the connection.
CheckRequester(w) ==
    /\ At(w, "checkRequester")
    /\ IF MayAccept(Other(req[w].user, req[w].pair))
       THEN req' = [req EXCEPT ![w].step = "writeAccepted"] ELSE End(w)
    /\ UNCHANGED <<connection, accepted, people>>

\* One transaction: the row, and a row of history for each of the two.
WriteAccepted(w) ==
    LET pair == req[w].pair IN
    /\ At(w, "writeAccepted")
    /\ Write(pair, "ACCEPTED", Nobody)
    /\ accepted' = [u \in Users |-> IF u \in pair /\ plan[u] # "NONE"
                                    THEN accepted[u] + 1 ELSE accepted[u]]
    /\ End(w)
    /\ UNCHANGED people

-----------------------------------------------------------------------------
(* reject(), cancel(), block(), unblock() *)

BeginReject(w, u, pair) ==
    /\ Status(pair) = "PENDING"
    /\ By(pair) # u
    /\ Begin(w, "writeRejected", u, pair)

WriteRejected(w) ==
    /\ At(w, "writeRejected")
    /\ Write(req[w].pair, "REJECTED", Nobody)
    /\ End(w)
    /\ UNCHANGED <<accepted, people>>

\* A request of one's own that waits, or a connection, from either side.
BeginCancel(w, u, pair) ==
    /\ pair \in Open(u)
    /\ Begin(w, "writeCancelled", u, pair)

WriteCancelled(w) ==
    /\ At(w, "writeCancelled")
    /\ Write(req[w].pair, "CANCELLED", Nobody)
    /\ End(w)
    /\ UNCHANGED <<accepted, people>>

\* One upsert, whatever the row is.
Block(u, pair) ==
    /\ u \in pair
    /\ Write(pair, "BLOCKED", u)
    /\ UNCHANGED <<accepted, people, req>>

BeginUnblock(w, u, pair) ==
    /\ Status(pair) = "BLOCKED"
    /\ By(pair) = u
    /\ Begin(w, "writeUnblocked", u, pair)

WriteUnblocked(w) ==
    /\ At(w, "writeUnblocked")
    /\ Write(req[w].pair, "CANCELLED", Nobody)
    /\ End(w)
    /\ UNCHANGED <<accepted, people>>

-----------------------------------------------------------------------------
(* The person's passes and memberships, as the limits see them (Passes.tla *)
(* has them in full).                                                      *)

\* A Free Pass for another car+city, or Elite: it runs longest, so what was
\* accepted is counted from its start.
StartPass(u, p) ==
    /\ u \in Changing
    /\ plan[u] # "ELITE"
    /\ passes[u] < MaxPasses
    /\ plan' = [plan EXCEPT ![u] = p]
    /\ joined' = [joined EXCEPT ![u] = TRUE]
    /\ accepted' = [accepted EXCEPT ![u] = 0]
    /\ passes' = [passes EXCEPT ![u] = @ + 1]
    /\ UNCHANGED <<connection, req>>

\* expiresAt passes, before the job has ended the memberships.
PassRunsOut(u) ==
    /\ u \in Changing
    /\ plan[u] # "NONE"
    /\ plan' = [plan EXCEPT ![u] = "NONE"]
    /\ accepted' = [accepted EXCEPT ![u] = 0]
    /\ UNCHANGED <<connection, joined, passes, req>>

\* By the job, a refund, or leaving the last collective.
LeaveAll(u) ==
    /\ u \in Changing
    /\ joined[u]
    /\ joined' = [joined EXCEPT ![u] = FALSE]
    /\ UNCHANGED <<connection, plan, accepted, passes, req>>

RejoinOnElite(u) ==
    /\ plan[u] = "ELITE"
    /\ ~joined[u]
    /\ joined' = [joined EXCEPT ![u] = TRUE]
    /\ UNCHANGED <<connection, plan, accepted, passes, req>>

-----------------------------------------------------------------------------
\* The process dies or the database refuses: nothing is written.
Crash(w) ==
    /\ req[w] # Idle
    /\ End(w)
    /\ UNCHANGED <<connection, accepted, people>>

BeginHandler(w) ==
    \E pair \in Pairs, u \in Users :
        \/ BeginRequest(w, u, pair) \/ BeginAccept(w, u, pair) \/ BeginReject(w, u, pair)
        \/ BeginCancel(w, u, pair) \/ BeginUnblock(w, u, pair)

Proceed(w) ==
    \/ CreateRequest(w) \/ RenewRequest(w) \/ CheckRequester(w) \/ WriteAccepted(w)
    \/ WriteRejected(w) \/ WriteCancelled(w) \/ WriteUnblocked(w)

Next ==
    \/ \E w \in Workers : BeginHandler(w) \/ Proceed(w) \/ Crash(w)
    \/ \E pair \in Pairs, u \in Users : Block(u, pair)
    \/ \E u \in Users : \/ \E p \in Plans : StartPass(u, p)
                        \/ PassRunsOut(u) \/ LeaveAll(u) \/ RejoinOnElite(u)

Init ==
    /\ connection = [pair \in Pairs |-> [status |-> "NONE", by |-> Nobody]]
    /\ plan = Held
    /\ joined = [u \in Users |-> TRUE]
    /\ accepted = [u \in Users |-> 0]
    /\ passes = [u \in Users |-> 0]
    /\ req = [w \in Workers |-> Idle]

Spec == Init /\ [][Next]_vars

-----------------------------------------------------------------------------
(* Properties. *)

TypeOK ==
    /\ connection \in [Pairs -> Row]
    /\ plan \in [Users -> Plans \cup {"NONE"}]
    /\ joined \in [Users -> BOOLEAN]
    /\ accepted \in [Users -> Nat]
    /\ passes \in [Users -> Nat]
    /\ req \in [Workers -> {Idle} \cup [step : Steps, user : Users, pair : Pairs]]

\* "Accepted = connections accepted since the pass started": nobody, asking or
\* accepting, gets past the limit of the plan by more than the other handlers that
\* were under way; one handler at a time never gets past it.
AcceptedWithinLimit ==
    \A u \in Users : plan[u] # "NONE" =>
        accepted[u] <= AcceptedLimit[plan[u]] + Cardinality(Workers) - 1

\* "Active connections = accepted now + your own pending requests": neither asking,
\* accepting, being accepted, removing, blocking nor unblocking gets anybody past the
\* highest plan's limit by more than the other handlers that were under way.
OpenWithinLimit ==
    \A u \in Users :
        Cardinality(Open(u)) <= OpenLimit["ELITE"] + Cardinality(Workers) - 1

\* Blocking "overrides any state" (connections.service.ts:180), and every action
\* "decides from its current state": a blocked pair does not become connected, nor
\* does a request wait in it, before the block is lifted.
BlockHolds ==
    [][\A pair \in Pairs :
         Status(pair) = "BLOCKED" => connection'[pair].status \notin {"PENDING", "ACCEPTED"}]_vars
=============================================================================
