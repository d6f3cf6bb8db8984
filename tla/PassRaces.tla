----------------------------- MODULE PassRaces -----------------------------
(***************************************************************************)
(* The handlers of Passes.tla while they overlap.  Two server processes    *)
(* and their event loops run requests, webhooks and the expiry job at the  *)
(* same time; the database runs transactions at READ COMMITTED: a read     *)
(* sees what is committed at that moment, a written row stays locked until *)
(* the writer commits, and a rollback leaves nothing behind.               *)
(*                                                                         *)
(* A worker carries one handler from one database statement that matters   *)
(* to the next.  What it read before is in its request record; its writes  *)
(* reach the tables when its transaction commits, in the handler's last    *)
(* step.  Handlers in Background run in one step, as in Passes.tla, and    *)
(* respect the workers' locks.                                             *)
(***************************************************************************)
EXTENDS Passes

CONSTANTS
    Workers,      \* handlers that may overlap
    Overlapping,  \* the kinds of handler the workers run
    Background,   \* the kinds of handler that run in one step
    Written       \* the posts that are there, ACTIVE, from the start

Kinds == {"Posts", "Join", "CreatePayment", "Activate", "PaymentFailed", "Refund",
          "Leave", "ExpirePasses"}

ASSUME KindsAssumption == Overlapping \subseteq Kinds \ {"Posts"} /\ Background \subseteq Kinds

ASSUME WrittenAssumption ==
    /\ Written \subseteq Posts
    /\ \A i, j \in Written : i # j => Owner[i] # Owner[j] \/ Scope[i] # Scope[j]

VARIABLE req   \* req[w]: where worker w's handler stands and what it has read

vars == <<tables, req>>

\* post, collective: the request's arguments; id: the payment or membership the
\* handler is about; pass: the pass it found (0: none); mode, until: what it decided
\* from what it read; rows: the memberships it found; due: the passes its job run
\* still has to do; locks: the rows its open transaction has locked.
Idle == [step |-> "idle", post |-> CHOOSE i \in Posts : TRUE,
         collective |-> CHOOSE c \in Collectives : TRUE,
         id |-> 0, pass |-> 0, mode |-> "none", until |-> 0,
         rows |-> {}, due |-> {}, locks |-> {}]

PaymentLock(k) == <<"payment", k>>
PassLock(p) == <<"pass", p>>
MemberLock(m) == <<"membership", m>>
UserLock(u) == <<"user", u>>
PostKey(i) == <<"post", i>>     \* the post's entry in one_active_per_intent

LockedBy(w) == req[w].locks

Unlocked(w, rows) == \A v \in Workers \ {w} : LockedBy(v) \cap rows = {}

At(w, step) == req[w].step = step
Go(w, r) == req' = [req EXCEPT ![w] = r]
Begin(w, kind, r) == kind \in Overlapping /\ At(w, "idle") /\ Go(w, r)
End(w) == Go(w, Idle)
Rollback(w) == End(w) /\ UNCHANGED tables

\* collective_memberships_one_live_per_user.
OneLivePerCollective(table) ==
    \A m, n \in MembershipIds :
        m # n /\ table[m].status \in Live /\ table[n].status \in Live
              /\ Owner[table[m].post] = Owner[table[n].post]
            => table[m].collective # table[n].collective

SetMembers(rows, status, p) ==
    [m \in MembershipIds |->
        IF m \in rows THEN [membership[m] EXCEPT !.status = status, !.pass = p]
        ELSE membership[m]]

Discussion(rows) == {<<membership[m].collective, MemberOf(m)>> : m \in rows}

-----------------------------------------------------------------------------
(* activate(). *)

\* Fault: the payment row is read without FOR UPDATE.
NoActivationLock(k) == {}

\* SELECT ... FOR UPDATE on the payment, so that of the checkout's verification and
\* the webhook only one goes on.
ActivationLocks(k) == {PaymentLock(k)}

BeginActivate(w, k) ==
    /\ order[k] # "UNPAID"
    /\ Unlocked(w, ActivationLocks(k))
    /\ ~AlreadyDone(k)
    /\ Begin(w, "Activate", [Idle EXCEPT !.step = "readPass", !.id = k,
                                         !.locks = ActivationLocks(k)])
    /\ UNCHANGED tables

\* The payment is written; its pass is read without a lock, and what to do with it
\* is decided from that.
ReadPass(w) ==
    LET k == req[w].id
        p == payment[k].pass
        mode == IF Extending(k) THEN "extend"
                ELSE IF pass[p].status = "ACTIVE" THEN "keep" ELSE "start"
    IN  /\ At(w, "readPass")
        /\ Unlocked(w, {PaymentLock(k)})
        /\ Go(w, [req[w] EXCEPT !.step = "writePass", !.pass = p, !.mode = mode,
                    !.until = IF mode = "extend" THEN ExtendedExpiry(pass[p].expiresAt)
                              ELSE now + EliteDays,
                    !.locks = {PaymentLock(k)}])
        /\ UNCHANGED tables

\* Write what was decided, and read the memberships to move.
WritePass(w) ==
    LET r == req[w]
        ended == IF r.mode = "start" THEN EndedFreePasses(r.id) ELSE {}
        taken == CASE r.mode = "start" -> {PostKey(pass[r.pass].post), PassLock(r.pass)}
                   [] r.mode = "extend" -> {PassLock(r.pass)}
                   [] r.mode = "keep" -> {}
        locks == taken \cup {PassLock(q) : q \in ended}
        clash == /\ r.mode = "start"
                 /\ \E q \in PassIds \ (ended \cup {r.pass}) :
                      pass[q].status = "ACTIVE" /\ pass[q].post = pass[r.pass].post
    IN  /\ At(w, "writePass")
        /\ Unlocked(w, locks)
        /\ IF clash THEN End(w)
           ELSE Go(w, [r EXCEPT !.step = "grant", !.rows = MovedMemberships(r.id),
                                !.locks = @ \cup locks])
        /\ UNCHANGED tables

\* Move the memberships, by id, and commit.
Grant(w) ==
    LET r == req[w]
        ended == {q \in PassIds \ {r.pass} : PassLock(q) \in r.locks}
        moved == SetMembers(r.rows, "ACTIVE", r.pass)
    IN  /\ At(w, "grant")
        /\ Unlocked(w, {MemberLock(m) : m \in r.rows})
        /\ IF OneLivePerCollective(moved)
           THEN /\ payment' = [payment EXCEPT ![r.id].status = "SUCCESS"]
                /\ pass' = [q \in PassIds |->
                     CASE q \in ended -> [pass[q] EXCEPT !.status = "EXPIRED", !.expiresAt = now]
                       [] q = r.pass /\ r.mode = "extend" -> [pass[q] EXCEPT !.expiresAt = r.until]
                       [] q = r.pass /\ r.mode = "start" ->
                            [pass[q] EXCEPT !.plan = "ELITE", !.status = "ACTIVE",
                                            !.expiresAt = r.until, !.payment = r.id]
                       [] OTHER -> pass[q]]
                /\ membership' = moved
                /\ inDiscussion' = inDiscussion \cup Discussion(r.rows)
                /\ UNCHANGED <<now, post, collective, order>>
           ELSE UNCHANGED tables
        /\ End(w)

-----------------------------------------------------------------------------
(* payment.failed: the status is read first and written afterwards. *)

BeginPaymentFailed(w, k) ==
    /\ payment[k].status \notin {"NONE", "INITIATED", "SUCCESS"}
    /\ Begin(w, "PaymentFailed", [Idle EXCEPT !.step = "writeFailed", !.id = k])
    /\ UNCHANGED tables

WriteFailed(w) ==
    /\ At(w, "writeFailed")
    /\ Unlocked(w, {PaymentLock(req[w].id)})
    /\ payment' = [payment EXCEPT ![req[w].id].status = "FAILED"]
    /\ End(w)
    /\ UNCHANGED <<now, post, collective, pass, membership, inDiscussion, order>>

-----------------------------------------------------------------------------
(* refund() and markRefunded(). *)

\* refund(): the provider returns the money once, then the bookkeeping starts.
BeginRefund(w, k) ==
    /\ payment[k].status = "SUCCESS"
    /\ order[k] = "CAPTURED"
    /\ order' = [order EXCEPT ![k] = "RETURNED"]
    /\ Begin(w, "Refund", [Idle EXCEPT !.step = "readRefund", !.id = k])
    /\ UNCHANGED <<now, post, collective, pass, payment, membership, inDiscussion>>

\* refund.processed: the same bookkeeping, for a payment known to have gone through.
BeginRefundWebhook(w, k) ==
    /\ payment[k].status = "SUCCESS"
    /\ order[k] = "RETURNED"
    /\ Begin(w, "Refund", [Idle EXCEPT !.step = "lockRefund", !.id = k])
    /\ UNCHANGED tables

ReadRefund(w) ==
    /\ At(w, "readRefund")
    /\ IF payment[req[w].id].status = "REFUNDED" THEN End(w)
       ELSE Go(w, [req[w] EXCEPT !.step = "lockRefund"])
    /\ UNCHANGED tables

\* The payment row is written (so locked), then its pass is read.
LockRefund(w) ==
    LET k == req[w].id
        p == payment[k].pass IN
    /\ At(w, "lockRefund")
    /\ Unlocked(w, {PaymentLock(k)})
    /\ Go(w, [req[w] EXCEPT !.step = "refundPass", !.pass = p, !.locks = {PaymentLock(k)},
                !.mode = IF ~IsExtension(k) THEN "end"
                         ELSE IF pass[p].status = "ACTIVE" THEN "reduce" ELSE "keep",
                !.until = ReducedExpiry(pass[p].expiresAt)])
    /\ UNCHANGED tables

\* The pass is written, then the memberships riding on it are read.
RefundPass(w) ==
    LET r == req[w]
        ends == r.mode = "end" /\ pass[r.pass].status \in {"ACTIVE", "PENDING"}
        locks == IF ends \/ r.mode = "reduce" THEN {PassLock(r.pass)} ELSE {}
    IN  /\ At(w, "refundPass")
        /\ Unlocked(w, locks)
        /\ Go(w, [r EXCEPT !.step = "refundMembers", !.locks = @ \cup locks,
                           !.mode = IF r.mode = "end" /\ ~ends THEN "keep" ELSE r.mode,
                           !.rows = IF r.mode = "end" THEN Riders(r.pass) ELSE {}])
        /\ UNCHANGED tables

RefundMembers(w) ==
    LET r == req[w] IN
    /\ At(w, "refundMembers")
    /\ Unlocked(w, {MemberLock(m) : m \in r.rows})
    /\ payment' = [payment EXCEPT ![r.id].status = "REFUNDED"]
    /\ pass' = CASE r.mode = "reduce" -> [pass EXCEPT ![r.pass].expiresAt = r.until]
                 [] r.mode = "end" -> [pass EXCEPT ![r.pass].status = "REFUNDED"]
                 [] r.mode = "keep" -> pass
    /\ EndRiders(r.rows, "REFUNDED")
    /\ End(w)
    /\ UNCHANGED <<now, post, collective, order>>

-----------------------------------------------------------------------------
(* expirePasses(). *)

\* Fault: the job looks at Free Passes only.
DueFreePasses == {p \in PassIds : Due(p) /\ pass[p].plan = "FREE"}

DuePasses == {p \in PassIds : Due(p)}

\* The due passes are selected once, outside any transaction.
BeginExpirePasses(w) ==
    LET due == DuePasses IN
    /\ due # {}
    /\ Begin(w, "ExpirePasses", [Idle EXCEPT !.step = "expirePass", !.due = due])
    /\ UNCHANGED tables

\* Fault: a pass that ended meanwhile is tried again instead of being skipped.
WriteExpiredOrRetry(w) ==
    \E p \in req[w].due :
        /\ At(w, "expirePass")
        /\ Unlocked(w, {PassLock(p)})
        /\ pass[p].status = "ACTIVE"
        /\ Go(w, [req[w] EXCEPT !.step = "expireMembers", !.pass = p, !.due = @ \ {p},
                                !.rows = Riders(p), !.locks = {PassLock(p)}])
        /\ UNCHANGED tables

\* A transaction per pass: EXPIRED if it is still ACTIVE; then its members are read.
WriteExpired(w) ==
    \E p \in req[w].due :
        LET rest == req[w].due \ {p} IN
        /\ At(w, "expirePass")
        /\ Unlocked(w, {PassLock(p)})
        /\ Go(w, IF pass[p].status = "ACTIVE"
                 THEN [req[w] EXCEPT !.step = "expireMembers", !.pass = p, !.due = rest,
                                     !.rows = Riders(p), !.locks = {PassLock(p)}]
                 ELSE IF rest = {} THEN Idle ELSE [req[w] EXCEPT !.due = rest])
        /\ UNCHANGED tables

ExpireMembers(w) ==
    LET r == req[w] IN
    /\ At(w, "expireMembers")
    /\ Unlocked(w, {MemberLock(m) : m \in r.rows})
    /\ pass' = [pass EXCEPT ![r.pass].status = "EXPIRED"]
    /\ EndRiders(r.rows, "EXPIRED")
    /\ Go(w, IF r.due = {} THEN Idle ELSE [Idle EXCEPT !.step = "expirePass", !.due = r.due])
    /\ UNCHANGED <<now, post, collective, payment, order>>

-----------------------------------------------------------------------------
(* join(): openMembership, then joinWithElite, then startFreePass. *)

\* openMembership's reads: a live row is used as it is; otherwise one is created.
BeginJoin(w, i, c) ==
    \E m \in MembershipFor(i, c) :
        /\ collective[c] = "ACTIVE"
        /\ post[i] = "ACTIVE"
        /\ Scope[i] = Scope[c]
        /\ membership[m].status # "ACTIVE"
        /\ Begin(w, "Join",
             IF membership[m].status = "NONE"
             THEN [Idle EXCEPT !.step = "openMembership", !.post = i, !.collective = c]
             ELSE [Idle EXCEPT !.step = "readElite", !.id = m])
        /\ UNCHANGED tables

OpenMembership(w) ==
    \E m \in NewIds(membership) :
        LET opened == [membership EXCEPT ![m] =
                         [status |-> "PENDING_PAYMENT", collective |-> req[w].collective,
                          post |-> req[w].post, pass |-> 0]]
        IN  /\ At(w, "openMembership")
            /\ IF OneLivePerCollective(opened)
               THEN /\ membership' = opened
                    /\ Go(w, [Idle EXCEPT !.step = "readElite", !.id = m])
               ELSE UNCHANGED membership /\ End(w)
            /\ UNCHANGED <<now, post, collective, pass, payment, inDiscussion, order>>

\* joinWithElite: both reads, without a lock.
ReadElite(w) ==
    LET m == req[w].id
        elites == LongestElite(MemberOf(m)) IN
    /\ At(w, "readElite")
    /\ IF membership[m].status = "PENDING_PAYMENT" /\ elites # {}
       THEN \E e \in elites : Go(w, [req[w] EXCEPT !.step = "rideOnElite", !.pass = e])
       ELSE Go(w, [req[w] EXCEPT !.step = "readFree"])
    /\ UNCHANGED tables

\* The membership is written by id, whatever it and the pass have become.
RideOnElite(w) ==
    LET m == req[w].id
        joined == SetMembers({m}, "ACTIVE", req[w].pass) IN
    /\ At(w, "rideOnElite")
    /\ Unlocked(w, {MemberLock(m)})
    /\ IF OneLivePerCollective(joined)
       THEN /\ membership' = joined
            /\ inDiscussion' = inDiscussion \cup Discussion({m})
            /\ UNCHANGED <<now, post, collective, pass, payment, order>>
       ELSE UNCHANGED tables
    /\ End(w)

\* startFreePass: the membership and the post, before the person's row is locked.
ReadFree(w) ==
    LET m == req[w].id IN
    /\ At(w, "readFree")
    /\ IF membership[m].status = "PENDING_PAYMENT" /\ post[membership[m].post] = "ACTIVE"
       THEN Go(w, [req[w] EXCEPT !.step = "lockUser"]) ELSE End(w)
    /\ UNCHANGED tables

\* Fault: the person's row is not locked.
NoFreePassLock(u) == {}

\* SELECT ... FOR UPDATE on the person: two joins cannot both start a Free Pass.
FreePassLocks(u) == {UserLock(u)}

LockUser(w) ==
    LET i == membership[req[w].id].post IN
    /\ At(w, "lockUser")
    /\ Unlocked(w, FreePassLocks(Owner[i]))
    /\ IF FreePlace(i)
       THEN Go(w, [req[w] EXCEPT !.step = "writeFree", !.locks = FreePassLocks(Owner[i])])
       ELSE End(w)
    /\ UNCHANGED tables

WriteFree(w) ==
    LET m == req[w].id
        i == membership[m].post IN
    /\ At(w, "writeFree")
    /\ Unlocked(w, {MemberLock(m), PostKey(i)})
    /\ \E p \in NewIds(pass) :
        LET freePass == [status |-> "ACTIVE", plan |-> "FREE", post |-> i,
                         expiresAt |-> now + FreeDays, payment |-> 0]
            joined == SetMembers({m}, "ACTIVE", p)
        IN  IF /\ OneActivePassPerPost([pass EXCEPT ![p] = freePass])
               /\ OneLivePerCollective(joined)
            THEN /\ pass' = [pass EXCEPT ![p] = freePass]
                 /\ membership' = joined
                 /\ inDiscussion' = inDiscussion \cup Discussion({m})
                 /\ UNCHANGED <<now, post, collective, payment, order>>
            ELSE UNCHANGED tables
    /\ End(w)

-----------------------------------------------------------------------------
(* leave(): the live row is found first and written, by id, afterwards. *)

BeginLeave(w, m) ==
    /\ membership[m].status \in Live
    /\ Begin(w, "Leave", [Idle EXCEPT !.step = "writeLeft", !.id = m])
    /\ UNCHANGED tables

WriteLeft(w) ==
    LET m == req[w].id IN
    /\ At(w, "writeLeft")
    /\ Unlocked(w, {MemberLock(m)})
    /\ EndRiders({m}, "LEFT")
    /\ End(w)
    /\ UNCHANGED <<now, post, collective, pass, payment, order>>

-----------------------------------------------------------------------------
(* create(): reads, then the rows, then the provider's order. *)

BeginCreatePayment(w, i, c) ==
    /\ post[i] = "ACTIVE"
    /\ MayPay(i, c)
    /\ OpenPayments(i) = {}
    /\ \E p \in PassToPay(i) :
         Begin(w, "CreatePayment",
           [Idle EXCEPT !.step = "insertPayment", !.post = i,
                        !.pass = IF pass[p].status = "NONE" THEN 0 ELSE p])
    /\ UNCHANGED tables

InsertPayment(w) ==
    \E k \in NewIds(payment), p \in IF req[w].pass = 0 THEN NewIds(pass) ELSE {req[w].pass} :
        /\ At(w, "insertPayment")
        /\ pass' = IF req[w].pass # 0 THEN pass
                   ELSE [pass EXCEPT ![p] = [status |-> "PENDING", plan |-> "ELITE", post |-> req[w].post,
                                             expiresAt |-> 0, payment |-> 0]]
        /\ payment' = [payment EXCEPT ![k] = [status |-> "INITIATED", post |-> req[w].post, pass |-> p]]
        /\ Go(w, [Idle EXCEPT !.step = "attachOrder", !.id = k])
        /\ UNCHANGED <<now, post, collective, membership, inDiscussion, order>>

AttachOrder(w) ==
    /\ At(w, "attachOrder")
    /\ Unlocked(w, {PaymentLock(req[w].id)})
    /\ payment' = [payment EXCEPT ![req[w].id].status = "PENDING"]
    /\ End(w)
    /\ UNCHANGED <<now, post, collective, pass, membership, inDiscussion, order>>

-----------------------------------------------------------------------------
BeginRequest(w) ==
    \/ \E k \in PaymentIds : \/ BeginActivate(w, k) \/ BeginPaymentFailed(w, k)
                             \/ BeginRefund(w, k) \/ BeginRefundWebhook(w, k)
    \/ \E i \in Posts, c \in Collectives : BeginJoin(w, i, c) \/ BeginCreatePayment(w, i, c)
    \/ \E m \in MembershipIds : BeginLeave(w, m)
    \/ BeginExpirePasses(w)

\* The next statement of a handler that is under way.
Proceed(w) ==
    \/ ReadPass(w) \/ WritePass(w) \/ Grant(w)
    \/ WriteFailed(w)
    \/ ReadRefund(w) \/ LockRefund(w) \/ RefundPass(w) \/ RefundMembers(w)
    \/ WriteExpired(w) \/ ExpireMembers(w)
    \/ OpenMembership(w) \/ ReadElite(w) \/ RideOnElite(w)
    \/ ReadFree(w) \/ LockUser(w) \/ WriteFree(w)
    \/ WriteLeft(w)
    \/ InsertPayment(w) \/ AttachOrder(w)

\* The process dies, or the transaction times out: the open transaction is rolled
\* back, and what earlier transactions committed stays.
Crash(w) == ~At(w, "idle") /\ Rollback(w)

\* A handler that runs between two steps of the others waits for their row locks.
Locked == UNION {LockedBy(w) : w \in Workers}
RespectsLocks ==
    /\ \A k \in PaymentIds : payment'[k] # payment[k] => PaymentLock(k) \notin Locked
    /\ \A m \in MembershipIds : membership'[m] # membership[m] => MemberLock(m) \notin Locked
    /\ \A p \in PassIds : pass'[p] # pass[p] =>
        /\ PassLock(p) \notin Locked
        /\ pass[p].status # "ACTIVE" /\ pass'[p].status = "ACTIVE"
             => PostKey(pass'[p].post) \notin Locked
        /\ pass[p].status = "NONE" /\ pass'[p].plan = "FREE"
             => UserLock(Owner[pass'[p].post]) \notin Locked

BackgroundStep ==
    /\ \/ /\ "Posts" \in Background
          /\ \E i \in Posts : CreatePost(i) \/ PausePost(i) \/ ResumePost(i) \/ ClosePost(i)
       \/ \E i \in Posts, c \in Collectives :
            \/ "Join" \in Background /\ Join(i, c)
            \/ "CreatePayment" \in Background /\ CreatePayment(i, c)
       \/ \E k \in PaymentIds :
            \/ CheckoutFor(k)
            \/ CustomerPays(k)
            \/ "Activate" \in Background /\ Activate(k)
            \/ "PaymentFailed" \in Background /\ PaymentFailed(k)
            \/ "Refund" \in Background /\ Refund(k)
       \/ "Leave" \in Background /\ \E m \in MembershipIds : Leave(m)
       \/ "ExpirePasses" \in Background /\ \E p \in PassIds : ExpirePass(p)
       \/ Tick
    /\ RespectsLocks
    /\ UNCHANGED req

RacesInit ==
    /\ TablesInit(Written)
    /\ req = [w \in Workers |-> Idle]

RacesNext == BackgroundStep \/ \E w \in Workers : BeginRequest(w) \/ Proceed(w) \/ Crash(w)

\* The event loop resumes a handler when the database has answered; the database
\* queues the waiters of a row lock, so a statement whose rows become free again
\* and again gets its turn.
HandlersProceed == \A w \in Workers : SF_vars(Proceed(w))

\* The cron job runs every five minutes on two instances, whatever else they do.
JobRuns == \A w \in Workers : SF_vars(BeginExpirePasses(w))

\* What must happen is promised once the processes stop dying.
CrashesEnd == <>[][\A w \in Workers : ~Crash(w)]_vars

RacesSpec == RacesInit /\ [][RacesNext]_vars /\ HandlersProceed /\ JobRuns /\ CrashesEnd

-----------------------------------------------------------------------------
(* Properties. *)

\* Private collective content (docs/PHASE1.md:58): whatever overlaps, only an ACTIVE
\* member is in a discussion.
PrivateDiscussion ==
    inDiscussion \subseteq Discussion({m \in MembershipIds : membership[m].status = "ACTIVE"})

\* "Only one of them may do the activation" (payments.service.ts:306): an active Elite
\* Pass runs no longer than EliteDays for each payment that ever went through, however
\* verifications, webhooks, refunds and the job overlap. (That a refund takes its days
\* back holds for calls that do not overlap: NoUnpaidDays.)
GrantedPayments(p) ==
    {k \in PaymentIds : payment[k].pass = p /\ payment[k].status \in {"SUCCESS", "REFUNDED"}}
GrantedOnce ==
    \A p \in PassIds : pass[p].plan = "ELITE" /\ pass[p].status = "ACTIVE" =>
        pass[p].expiresAt <= now + EliteDays * Cardinality(GrantedPayments(p))

\* Every handler ends: the row locks of activate(), refunds and the job are taken in
\* an order in which no two wait for each other.
EveryRequestEnds == \A w \in Workers : ~At(w, "idle") ~> At(w, "idle")

\* "Pass never ACTIVE past expiresAt" (docs/PHASE1.md:53), as the job can keep it: a due
\* pass does not stay due.
DuePassEnds == \A p \in PassIds : Due(p) ~> ~Due(p)

-----------------------------------------------------------------------------
(* What the code or its documents say and overlapping handlers break: the  *)
(* README names the handlers, and the runs found_* show two of them.       *)

\* "An intent with a live payment gets that payment back" (payments.service.ts:68).
OneOpenPaymentPerPost == \A i \in Posts : Cardinality(OpenPayments(i)) <= 1

\* activate() "does nothing if the work is already done" (payments.service.ts:40): a
\* payment that went through never looks unpaid again.
SettledPaymentsStay ==
    [][\A k \in PaymentIds :
         payment[k].status \in {"SUCCESS", "REFUNDED"}
           => payment'[k].status \in {"SUCCESS", "REFUNDED"}]_vars

\* "Payment SUCCESS -> BuyingPass ELITE ACTIVE" (docs/PHASE1.md:41).
PaymentBuysActivePass ==
    [][\A k \in PaymentIds :
         payment[k].status # "SUCCESS" /\ payment'[k].status = "SUCCESS"
           => pass'[payment[k].pass].status = "ACTIVE"]_vars

\* "While one is active, paying (from any post) extends it by ELITE_PASS_DAYS".
PaymentAddsItsDays ==
    [][\A k \in PaymentIds :
         LET p == payment[k].pass IN
         /\ payment[k].status # "SUCCESS" /\ payment'[k].status = "SUCCESS"
         /\ p \in UsableElites(PayerOf(k))
         => pass'[p].expiresAt >= pass[p].expiresAt + EliteDays]_vars

\* "ACTIVE -> EXPIRED once expiresAt passes" (jobs.service.ts:23).
NeverExpiredEarly ==
    [][\A p \in PassIds :
         pass[p].plan = "ELITE" /\ pass[p].status = "ACTIVE" /\ pass'[p].status = "EXPIRED"
           => pass[p].expiresAt <= now]_vars

\* An extension's refund takes "its days back off the pass": days go only in the step
\* that books a refund.
DaysGoOnlyOnce ==
    [][\A p \in PassIds :
         pass[p].plan = "ELITE" /\ pass'[p].expiresAt < pass[p].expiresAt
           => \E k \in PaymentIds : /\ payment[k].pass = p
                                    /\ payment[k].status # "REFUNDED"
                                    /\ payment'[k].status = "REFUNDED"]_vars
=============================================================================
