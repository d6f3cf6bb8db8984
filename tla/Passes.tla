------------------------------- MODULE Passes -------------------------------
(***************************************************************************)
(* Paid access, one request at a time: joining and leaving collectives,    *)
(* Free and Elite passes, payments, refunds and the expiry job, each as    *)
(* one step that runs to its end before the next begins.                   *)
(*                                                                         *)
(* What this module shows is what the business rules add up to over any    *)
(* sequence of calls.  What overlapping calls do to it is PassRaces.tla's  *)
(* question.                                                               *)
(***************************************************************************)
EXTENDS PassTables

CONSTANT RefundOnLeave   \* REFUND_ON_LEAVE = FULL

ASSUME RefundOnLeaveAssumption == RefundOnLeave \in BOOLEAN

-----------------------------------------------------------------------------
(* Buying posts and collectives. *)

NoOtherActivePost(i) ==
    \A j \in Posts \ {i} :
        Owner[j] = Owner[i] /\ Scope[j] = Scope[i] => post[j] # "ACTIVE"

SetPost(i, from, to) ==
    /\ post[i] \in from
    /\ post' = [post EXCEPT ![i] = to]
    /\ UNCHANGED <<now, collective, pass, payment, membership, inDiscussion, order>>

CreatePost(i) == NoOtherActivePost(i) /\ SetPost(i, {"NONE"}, "ACTIVE")
PausePost(i) == SetPost(i, {"ACTIVE"}, "PAUSED")
ResumePost(i) == NoOtherActivePost(i) /\ SetPost(i, {"PAUSED"}, "ACTIVE")
ClosePost(i) == SetPost(i, {"ACTIVE", "PAUSED"}, "CLOSED")

\* An admin closes (or archives) a collective, or reopens it.
CollectiveAction(c, status) ==
    /\ collective' = [collective EXCEPT ![c] = status]
    /\ UNCHANGED <<now, post, pass, payment, membership, inDiscussion, order>>

-----------------------------------------------------------------------------
(* Joining. *)

\* Fault: a post that is in another collective is let in.
MembershipWithoutCheck(i, c) ==
    LET here == {m \in LiveMemberships(Owner[i]) : membership[m].collective = c}
    IN  IF here # {} THEN here ELSE NewIds(membership)

\* openMembership: the live row of this post in the collective, or a new one;
\* refused when the person is in it through another post, or the post is
\* already in another collective.
MembershipFor(i, c) ==
    LET here == {m \in LiveMemberships(Owner[i]) : membership[m].collective = c}
        ofPost == {m \in LiveMemberships(Owner[i]) : membership[m].post = i}
    IN  IF here # {} THEN here \cap ofPost
        ELSE IF ofPost # {} THEN {} ELSE NewIds(membership)

Admit(m, i, c, p) ==
    /\ membership' = [membership EXCEPT ![m] =
                        [status |-> "ACTIVE", collective |-> c, post |-> i, pass |-> p]]
    /\ inDiscussion' = inDiscussion \cup {<<c, Owner[i]>>}

JoinWithElite(m, i, c) ==
    /\ \E e \in LongestElite(Owner[i]) : Admit(m, i, c, e)
    /\ UNCHANGED pass

\* startFreePass starts one unless it was used, or the post has a pass or an
\* open payment.
FreePlace(i) ==
    /\ ~FreePassUsed(Owner[i], Scope[i])
    /\ \A p \in PassIds : pass[p].post = i => pass[p].status # "ACTIVE"
    /\ OpenPayments(i) = {}

StartFreePass(m, i, c) ==
    /\ LongestElite(Owner[i]) = {}
    /\ FreePlace(i)
    /\ \E p \in NewIds(pass) :
        /\ pass' = [pass EXCEPT ![p] = [status |-> "ACTIVE", plan |-> "FREE", post |-> i,
                                        expiresAt |-> now + FreeDays, payment |-> 0]]
        /\ Admit(m, i, c, p)

WaitForElite(m, i, c) ==
    /\ LongestElite(Owner[i]) = {}
    /\ ~FreePlace(i)
    /\ membership' = [membership EXCEPT ![m] =
                        [status |-> "PENDING_PAYMENT", collective |-> c, post |-> i, pass |-> 0]]
    /\ UNCHANGED <<pass, inDiscussion>>

Join(i, c) ==
    /\ collective[c] = "ACTIVE"
    /\ post[i] = "ACTIVE"
    /\ Scope[i] = Scope[c]
    /\ \E m \in MembershipFor(i, c) :
        /\ membership[m].status # "ACTIVE"
        /\ JoinWithElite(m, i, c) \/ StartFreePass(m, i, c) \/ WaitForElite(m, i, c)
    /\ UNCHANGED <<now, post, collective, payment, order>>

-----------------------------------------------------------------------------
(* Payments. *)

\* The pass a new payment of post i pays for: the person's Elite Pass, or the
\* post's PENDING one, or a new one.
PassToPay(i) ==
    LET elite == LongestElite(Owner[i])
        pending == {p \in PassIds : pass[p].post = i /\ pass[p].status = "PENDING"}
    IN  IF elite # {} THEN elite ELSE IF pending # {} THEN pending ELSE NewIds(pass)

\* A person without Elite pays from a post that waits in, or is in, the collective.
MayPay(i, c) ==
    \/ LongestElite(Owner[i]) # {}
    \/ \E m \in LiveMemberships(Owner[i]) : membership[m].collective = c /\ membership[m].post = i

\* The order is created after the row: if the provider refuses, the payment
\* stays INITIATED.
CreatePayment(i, c) ==
    /\ post[i] = "ACTIVE"
    /\ MayPay(i, c)
    /\ OpenPayments(i) = {}
    /\ \E p \in PassToPay(i), k \in NewIds(payment), status \in Open :
        /\ pass' = IF pass[p].status # "NONE" THEN pass
                   ELSE [pass EXCEPT ![p] = [status |-> "PENDING", plan |-> "ELITE", post |-> i,
                                             expiresAt |-> 0, payment |-> 0]]
        /\ payment' = [payment EXCEPT ![k] = [status |-> status, post |-> i, pass |-> p]]
    /\ UNCHANGED <<now, post, collective, membership, inDiscussion, order>>

\* checkoutFor: a later call hands the open payment back with a new order.
CheckoutFor(k) ==
    /\ payment[k].status = "INITIATED"
    /\ payment' = [payment EXCEPT ![k].status = "PENDING"]
    /\ UNCHANGED <<now, post, collective, pass, membership, inDiscussion, order>>

\* At the provider: the customer pays the order, also after a failed attempt.
CustomerPays(k) ==
    /\ payment[k].status \notin {"NONE", "INITIATED"}
    /\ order[k] = "UNPAID"
    /\ order' = [order EXCEPT ![k] = "CAPTURED"]
    /\ UNCHANGED <<now, post, collective, pass, payment, membership, inDiscussion>>

Extending(k) ==
    LET p == payment[k].pass IN
    pass[p].status = "ACTIVE" /\ pass[p].plan = "ELITE" /\ pass[p].payment # k

\* A payment that does not extend ends the person's other Free Passes.
EndedFreePasses(k) ==
    {q \in PassIds \ {payment[k].pass} :
        pass[q].plan = "FREE" /\ pass[q].status = "ACTIVE" /\ HolderOf(q) = PayerOf(k)}

PassesAfterPayment(k) ==
    LET p == payment[k].pass IN
    IF Extending(k)
    THEN [pass EXCEPT ![p].expiresAt = ExtendedExpiry(@)]
    ELSE IF pass[p].status = "ACTIVE" THEN pass
    ELSE [q \in PassIds |->
            IF q = p THEN [pass[p] EXCEPT !.status = "ACTIVE", !.plan = "ELITE",
                                          !.expiresAt = now + EliteDays, !.payment = k]
            ELSE IF q \in EndedFreePasses(k)
            THEN [pass[q] EXCEPT !.status = "EXPIRED", !.expiresAt = now]
            ELSE pass[q]]

\* buying_passes_one_active_per_intent: a transaction that would break it is
\* rolled back.
OneActivePassPerPost(table) ==
    \A p, q \in PassIds :
        p # q /\ table[p].status = "ACTIVE" /\ table[q].status = "ACTIVE"
            => table[p].post # table[q].post

\* Fault: only the memberships of the post that was paid from.
MovedOfPost(k) ==
    {m \in LiveMemberships(PayerOf(k)) \ Riders(payment[k].pass) : membership[m].post = payment[k].post}

\* Fault: a membership that waits to join elsewhere is forgotten.
MovedActive(k) ==
    {m \in LiveMemberships(PayerOf(k)) \ Riders(payment[k].pass) :
        membership[m].status = "ACTIVE" \/ membership[m].post = payment[k].post}

\* Every collective the person is in, or waits to join, now rides on the pass.
MovedMemberships(k) == LiveMemberships(PayerOf(k)) \ Riders(payment[k].pass)

\* Fault: the second of verification and webhook does the work again.
AlreadyRefunded(k) == payment[k].status = "REFUNDED"

\* "Safe to call twice: every step checks current state first."
AlreadyDone(k) == payment[k].status \in {"SUCCESS", "REFUNDED"}

\* activate(), reached from the client's verify and from payment.captured.
\* The signature of a captured order stays valid when its money is returned.
Activate(k) ==
    LET moved == MovedMemberships(k) IN
    /\ order[k] # "UNPAID"
    /\ ~AlreadyDone(k)
    /\ OneActivePassPerPost(PassesAfterPayment(k))
    /\ payment' = [payment EXCEPT ![k].status = "SUCCESS"]
    /\ pass' = PassesAfterPayment(k)
    /\ membership' = [m \in MembershipIds |->
                        IF m \in moved
                        THEN [membership[m] EXCEPT !.status = "ACTIVE", !.pass = payment[k].pass]
                        ELSE membership[m]]
    /\ inDiscussion' = inDiscussion \cup {<<membership[m].collective, PayerOf(k)>> : m \in moved}
    /\ UNCHANGED <<now, post, collective, order>>

\* payment.failed reports one failed attempt; it may arrive long after.
PaymentFailed(k) ==
    /\ payment[k].status \notin {"NONE", "INITIATED", "SUCCESS"}
    /\ payment' = [payment EXCEPT ![k].status = "FAILED"]
    /\ UNCHANGED <<now, post, collective, pass, membership, inDiscussion, order>>

-----------------------------------------------------------------------------
(* The ends of a pass: refund, leaving, expiry. *)

\* Fault: the payment that started the pass is taken for an extension.
IsAnyPayment(k) == pass[payment[k].pass].payment # 0

\* Fault: an extension is taken for the payment that started the pass.
IsNoExtension(k) == FALSE

\* The passes after payment k is refunded: an extension gives its days back,
\* the payment that started the pass takes the pass with it.
IsExtension(k) == pass[payment[k].pass].payment \notin {0, k}

PassesAfterRefund(k) ==
    LET p == payment[k].pass IN
    IF IsExtension(k)
    THEN IF pass[p].status = "ACTIVE"
         THEN [pass EXCEPT ![p].expiresAt = ReducedExpiry(@)] ELSE pass
    ELSE IF pass[p].status \in {"ACTIVE", "PENDING"}
         THEN [pass EXCEPT ![p].status = "REFUNDED"] ELSE pass

\* Fault: the memberships end, the seats in the discussion stay.
EndRidersSilently(riders, status) ==
    /\ membership' = [m \in MembershipIds |->
                        IF m \in riders THEN [membership[m] EXCEPT !.status = status]
                        ELSE membership[m]]
    /\ UNCHANGED inDiscussion

\* The members riding on a pass that ends leave their discussions.
EndRiders(riders, status) ==
    /\ membership' = [m \in MembershipIds |->
                        IF m \in riders THEN [membership[m] EXCEPT !.status = status]
                        ELSE membership[m]]
    /\ inDiscussion' =
         inDiscussion \ {<<membership[m].collective, MemberOf(m)>> : m \in riders}

RefundMoney(k) ==
    /\ payment[k].status = "SUCCESS"
    /\ payment' = [payment EXCEPT ![k].status = "REFUNDED"]
    /\ order' = [order EXCEPT ![k] = "RETURNED"]
    /\ pass' = PassesAfterRefund(k)

\* An admin refunds a successful payment (or the provider's refund.processed
\* reports one made there).
Refund(k) ==
    /\ RefundMoney(k)
    /\ EndRiders(IF IsExtension(k) THEN {} ELSE Riders(payment[k].pass), "REFUNDED")
    /\ UNCHANGED <<now, post, collective>>

\* What leaving refunds under REFUND_ON_LEAVE=FULL: one successful payment of the
\* pass, if nobody else rides on it.
RefundedByLeaving(m) ==
    {k \in PaymentIds : /\ RefundOnLeave
                        /\ payment[k].status = "SUCCESS"
                        /\ payment[k].pass = membership[m].pass
                        /\ Riders(membership[m].pass) \subseteq {m}}

Leave(m) ==
    /\ membership[m].status \in Live
    /\ EndRiders({m}, "LEFT")
    /\ \/ \E k \in RefundedByLeaving(m) : RefundMoney(k)
       \/ RefundedByLeaving(m) = {} /\ UNCHANGED <<pass, payment, order>>
    /\ UNCHANGED <<now, post, collective>>

Due(p) == pass[p].status = "ACTIVE" /\ pass[p].expiresAt <= now

\* expirePasses, for one due pass.
ExpirePass(p) ==
    /\ Due(p)
    /\ pass' = [pass EXCEPT ![p].status = "EXPIRED"]
    /\ EndRiders(Riders(p), "EXPIRED")
    /\ UNCHANGED <<now, post, collective, payment, order>>

Tick ==
    /\ now < MaxNow
    /\ now' = now + 1
    /\ UNCHANGED <<post, collective, pass, payment, membership, inDiscussion, order>>

-----------------------------------------------------------------------------
Next ==
    \/ \E i \in Posts : CreatePost(i) \/ PausePost(i) \/ ResumePost(i) \/ ClosePost(i)
    \/ \E c \in Collectives, status \in {"ACTIVE", "CLOSED"} : CollectiveAction(c, status)
    \/ \E i \in Posts, c \in Collectives : Join(i, c) \/ CreatePayment(i, c)
    \/ \E k \in PaymentIds : \/ CheckoutFor(k) \/ CustomerPays(k) \/ Activate(k)
                             \/ PaymentFailed(k) \/ Refund(k)
    \/ \E m \in MembershipIds : Leave(m)
    \/ \E p \in PassIds : ExpirePass(p)
    \/ Tick

Init == TablesInit({})

\* Nothing obliges a person, an admin, the provider or the clock to act.
Spec == Init /\ [][Next]_tables

-----------------------------------------------------------------------------
(* Properties. *)

\* "When it ends, every membership riding on it ends" (docs/PHASE1.md:20): an
\* active member rides on an ACTIVE pass of their own, whichever of refund,
\* expiry, upgrade, extension or leaving came before.
RidesOnActivePass ==
    \A m \in MembershipIds : membership[m].status = "ACTIVE" =>
        LET p == membership[m].pass IN
        p # 0 /\ pass[p].status = "ACTIVE" /\ HolderOf(p) = MemberOf(m)

\* The discussion of a collective has exactly its active members: activate(),
\* joinWithElite(), startFreePass(), leave(), refunds and the job keep the two
\* tables in step.
DiscussionMatchesMembership ==
    inDiscussion = {<<membership[m].collective, MemberOf(m)>> :
                       m \in {n \in MembershipIds : membership[n].status = "ACTIVE"}}

\* openMembership: one live membership per person and collective, and "an intent
\* joins at most one collective at a time".
OnePlaceAtATime ==
    \A m, n \in MembershipIds :
        m # n /\ membership[m].status \in Live /\ membership[n].status \in Live
              /\ MemberOf(m) = MemberOf(n)
            => /\ membership[m].collective # membership[n].collective
               /\ membership[m].post # membership[n].post

\* "Each user gets one [Free Pass] per car+city, ever", also after closing the
\* post and writing it again, leaving, upgrading or being refunded.
OneFreePassPerScope ==
    \A p, q \in PassIds :
        /\ p # q
        /\ pass[p].plan = "FREE" /\ pass[p].status # "NONE"
        /\ pass[q].plan = "FREE" /\ pass[q].status # "NONE"
        /\ HolderOf(p) = HolderOf(q)
        => Scope[pass[p].post] # Scope[pass[q].post]

\* "Elite ACTIVE only after verified payment" (docs/PHASE1.md:52): the payment that
\* started an active Elite Pass is a payment for that pass which stands.
PaidElite ==
    \A p \in PassIds : pass[p].plan = "ELITE" /\ pass[p].status = "ACTIVE" =>
        LET k == pass[p].payment IN
        k # 0 /\ payment[k].status = "SUCCESS" /\ payment[k].pass = p

\* Nobody holds more Elite days than their standing payments bought: no
\* sequence of payments, failures, refunds and renewals grants a payment twice.
StandingPayments(p) ==
    {k \in PaymentIds : payment[k].pass = p /\ payment[k].status = "SUCCESS"}
NoUnpaidDays ==
    \A p \in PassIds : pass[p].plan = "ELITE" /\ pass[p].status = "ACTIVE" =>
        pass[p].expiresAt <= now + EliteDays * Cardinality(StandingPayments(p))

\* "It covers all their Buying Posts and collectives": while a person's Elite Pass
\* runs, none of their live memberships waits for payment or rides on a Free Pass.
EliteCoversEverything ==
    \A u \in Users : UsableElites(u) # {} =>
        \A m \in LiveMemberships(u) :
            membership[m].status = "ACTIVE" /\ pass[membership[m].pass].plan = "ELITE"

\* An Elite Pass that still runs ends only with the refund of the payment that
\* started it: leaving, closing the post, failed or refunded further payments and
\* other people's calls do not end it.
EliteEndsOnlyByRefund ==
    [][\A p \in PassIds :
         pass[p].plan = "ELITE" /\ pass[p].status = "ACTIVE" /\ pass[p].expiresAt > now
             /\ pass'[p].status # "ACTIVE"
           => payment'[pass[p].payment].status = "REFUNDED"]_tables

\* "Elite outlasts them": a Free Pass that still runs ends only when an Elite Pass
\* of the same person takes over, and that one ends no earlier.
UpgradeNeverShortens ==
    [][\A p \in PassIds :
         pass[p].plan = "FREE" /\ pass[p].status = "ACTIVE" /\ pass[p].expiresAt > now
             /\ pass'[p].status # "ACTIVE"
           => \E q \in PassIds : /\ pass'[q].plan = "ELITE" /\ pass'[q].status = "ACTIVE"
                                 /\ Owner[pass'[q].post] = HolderOf(p)
                                 /\ pass'[q].expiresAt >= pass[p].expiresAt]_tables

\* A membership that ended is history: coming back opens a new row.
EndedMembershipsStay ==
    [][\A m \in MembershipIds :
         membership[m].status \in {"LEFT", "EXPIRED", "REFUNDED"}
           => membership'[m] = membership[m]]_tables

\* "Elite is one pass per person" (payments.service.ts:65).
OneElitePerPerson == \A u \in Users : Cardinality(UsableElites(u)) <= 1

\* "Payment SUCCESS -> BuyingPass ELITE ACTIVE" for a payment that was made
\* (docs/PHASE1.md:38-42): its activation is not refused.
CapturedPaymentActivates ==
    \A k \in PaymentIds :
        order[k] = "CAPTURED" /\ payment[k].status \in {"PENDING", "FAILED"}
            => OneActivePassPerPost(PassesAfterPayment(k))

\* A pass is not active again on a payment whose money was returned: activate()
\* "does nothing if the work is already done" (payments.service.ts:40).
MoneyHeldForElite ==
    \A p \in PassIds : pass[p].plan = "ELITE" /\ pass[p].status = "ACTIVE" =>
        order[pass[p].payment] = "CAPTURED"
=============================================================================
