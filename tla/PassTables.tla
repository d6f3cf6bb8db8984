----------------------------- MODULE PassTables -----------------------------
(***************************************************************************)
(* The rows behind paid access: buying posts, buying passes, payments,     *)
(* collective memberships and the members of each collective's discussion, *)
(* with the queries the services make on them.                             *)
(*                                                                         *)
(* A table is a function from row ids to rows; a row that was not created  *)
(* yet has status "NONE", and ids are handed out in creation order.  0 is  *)
(* the null of an optional reference.  A row's userId is always the owner  *)
(* of its buying post, so it is not stored.  Timestamps are counted in     *)
(* abstract days; only comparisons with the clock matter.                  *)
(*                                                                         *)
(* Passes.tla runs each request, webhook and job to its end before the     *)
(* next one; PassRaces.tla splits them at their database statements.       *)
(*                                                                         *)
(* An operator whose comment begins with "Fault:" is what the definition   *)
(* after it would be with a mistake in the code; no specification uses it. *)
(***************************************************************************)
EXTENDS Integers, FiniteSets

CONSTANTS
    Users,           \* people
    Posts,           \* buying posts (BuyingIntent rows)
    Collectives,     \* one discussion each
    Scopes,          \* car+city pairs
    Owner,           \* Owner[i]: who wrote post i
    Scope,           \* Scope[x]: the car+city of post or collective x
    EliteDays,       \* ELITE_PASS_DAYS
    FreeDays,        \* FREE_PASS_DAYS
    MaxPasses,       \* bound: buying_passes rows
    MaxPayments,     \* bound: payments rows
    MaxMemberships,  \* bound: collective_memberships rows
    MaxNow           \* bound: the clock

ASSUME PostsAssumption ==
    /\ Posts # {}
    /\ Collectives # {}
    /\ Owner \in [Posts -> Users]
    /\ Scope \in [Posts \cup Collectives -> Scopes]

ASSUME DaysAssumption == EliteDays \in Nat \ {0} /\ FreeDays \in Nat \ {0}

ASSUME BoundsAssumption ==
    /\ MaxPasses \in Nat
    /\ MaxPayments \in Nat
    /\ MaxMemberships \in Nat
    /\ MaxNow \in Nat

PassIds == 1..MaxPasses
PaymentIds == 1..MaxPayments
MembershipIds == 1..MaxMemberships

VARIABLES
    now,           \* the database's and the servers' clock
    post,          \* status of each buying post
    collective,    \* status of each collective
    pass,          \* buying_passes
    payment,       \* payments
    membership,    \* collective_memberships
    inDiscussion,  \* conversation_members with leftAt null: <<collective, user>>
    order          \* the provider's side of each payment's order

tables == <<now, post, collective, pass, payment, membership, inDiscussion, order>>

-----------------------------------------------------------------------------
PostStatus == {"NONE", "ACTIVE", "PAUSED", "CLOSED"}
PassStatus == {"NONE", "PENDING", "ACTIVE", "EXPIRED", "REFUNDED"}
PaymentStatus == {"NONE", "INITIATED", "PENDING", "SUCCESS", "FAILED", "REFUNDED"}
MembershipStatus ==
    {"NONE", "PENDING_PAYMENT", "ACTIVE", "LEFT", "EXPIRED", "REFUNDED"}

\* payment: the Payment that made the pass ACTIVE (paymentId); 0 for a Free Pass.
PassRow ==
    [status: PassStatus, plan: {"FREE", "ELITE"}, post: Posts,
     expiresAt: Nat, payment: {0} \cup PaymentIds]

\* providerOrderId is set exactly when the status has left INITIATED.
PaymentRow == [status: PaymentStatus, post: Posts, pass: {0} \cup PassIds]

MembershipRow ==
    [status: MembershipStatus, collective: Collectives, post: Posts,
     pass: {0} \cup PassIds]

\* order: "RETURNED" once the provider has sent the money back.
TypeOK ==
    /\ now \in Nat
    /\ post \in [Posts -> PostStatus]
    /\ collective \in [Collectives -> {"ACTIVE", "CLOSED"}]
    /\ pass \in [PassIds -> PassRow]
    /\ payment \in [PaymentIds -> PaymentRow]
    /\ membership \in [MembershipIds -> MembershipRow]
    /\ inDiscussion \in SUBSET (Collectives \X Users)
    /\ order \in [PaymentIds -> {"UNPAID", "CAPTURED", "RETURNED"}]

\* Empty tables but for the posts already written, and every collective open.
TablesInit(written) ==
    LET somePost == CHOOSE i \in Posts : TRUE
        someCollective == CHOOSE c \in Collectives : TRUE IN
    /\ now = 0
    /\ post = [i \in Posts |-> IF i \in written THEN "ACTIVE" ELSE "NONE"]
    /\ collective = [c \in Collectives |-> "ACTIVE"]
    /\ pass = [p \in PassIds |->
                 [status |-> "NONE", plan |-> "ELITE", post |-> somePost,
                  expiresAt |-> 0, payment |-> 0]]
    /\ payment = [k \in PaymentIds |->
                    [status |-> "NONE", post |-> somePost, pass |-> 0]]
    /\ membership = [m \in MembershipIds |->
                       [status |-> "NONE", collective |-> someCollective,
                        post |-> somePost, pass |-> 0]]
    /\ inDiscussion = {}
    /\ order = [k \in PaymentIds |-> "UNPAID"]

-----------------------------------------------------------------------------
(* Queries. *)

\* The next row to be created in a table (none once the bound is reached).
NewIds(table) ==
    {i \in DOMAIN table : /\ table[i].status = "NONE"
                          /\ \A j \in DOMAIN table : j < i => table[j].status # "NONE"}

Live == {"PENDING_PAYMENT", "ACTIVE"}
Open == {"INITIATED", "PENDING"}

HolderOf(p) == Owner[pass[p].post]
MemberOf(m) == Owner[membership[m].post]
PayerOf(k) == Owner[payment[k].post]

\* The person's live memberships, in any collective.
LiveMemberships(u) == {m \in MembershipIds : membership[m].status \in Live /\ MemberOf(m) = u}

\* The ACTIVE memberships riding on pass p.
Riders(p) == {m \in MembershipIds : membership[m].status = "ACTIVE" /\ membership[m].pass = p}

\* Elite Passes that still run: ACTIVE and not past expiresAt.
UsableElites(u) ==
    {p \in PassIds : /\ pass[p].plan = "ELITE" /\ pass[p].status = "ACTIVE"
                     /\ HolderOf(p) = u /\ pass[p].expiresAt > now}

\* findFirst ordered by expiresAt, latest first (ties are the database's choice).
LongestElite(u) ==
    {p \in UsableElites(u) : \A q \in UsableElites(u) : pass[q].expiresAt <= pass[p].expiresAt}

\* One Free Pass per person and car+city, on any of their posts, ever.
FreePassUsed(u, s) ==
    \E p \in PassIds : /\ pass[p].plan = "FREE" /\ pass[p].status \notin {"NONE", "PENDING"}
                       /\ HolderOf(p) = u /\ Scope[pass[p].post] = s

OpenPayments(i) == {k \in PaymentIds : payment[k].post = i /\ payment[k].status \in Open}

-----------------------------------------------------------------------------
(* Arithmetic on expiresAt. *)

Later(a, b) == IF a >= b THEN a ELSE b

\* Extension: EliteDays after the present end, or after today if that is past.
ExtendedExpiry(expiresAt) == Later(expiresAt, now) + EliteDays

\* Refund of an extension: its days come off, but never into the past.
ReducedExpiry(expiresAt) == Later(now, expiresAt - EliteDays)
=============================================================================
