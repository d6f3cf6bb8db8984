------------------------------ MODULE Checkout ------------------------------
(***************************************************************************)
(* Paying for the Elite Pass from one Buying Post: the pay screen of each  *)
(* device, the payment rows, and the provider with its orders, attempts    *)
(* and webhook events.  A handler awaits the database and the provider, so *)
(* those of several workers overlap between two awaits, and any of them    *)
(* may die.  What activating a payment does to passes and memberships is   *)
(* in Passes: here a payment has been granted, or not.                     *)
(***************************************************************************)
EXTENDS Integers

CONSTANTS
    Devices,       \* the person's devices, each with a pay screen
    Workers,       \* the handlers that may be under way at once
    Nobody,        \* no device, no worker
    Amount,        \* what a payment costs
    MaxPayments,   \* bound: payment rows
    MaxOrders,     \* bound: orders at the provider
    MaxAttempts,   \* bound: attempts to pay
    MaxKeys,       \* bound: idempotency keys the devices make up
    Patience,      \* whether nobody opens the pay screen again while it waits for an answer
    MaxFaults      \* bound: handlers that die, answers that are lost, apps that are killed

ASSUME CheckoutAssumption ==
    /\ Nobody \notin Devices \cup Workers
    /\ Amount \in Nat \ {0}
    /\ MaxPayments \in Nat /\ MaxOrders \in Nat /\ MaxAttempts \in Nat
    /\ MaxKeys \in Nat /\ MaxFaults \in Nat
    /\ Patience \subseteq BOOLEAN

VARIABLES
    payments,  \* the rows: status, idempotency key, order, attempt, refund booked
    orders,    \* orders[o]: the payment it is for
    attempts,  \* attempts[a]: its order, whether captured, and the money given back
    inbox,     \* webhook events the provider has had no 2xx for
    received,  \* payment_webhook_events
    work,      \* work[w]: where worker w's handler stands
    phone,     \* phone[d]: the pay screen of device d
    faults,    \* how many faults there have been
    patient,   \* whether the person waits
    granted,   \* history: the payments activate() has granted
    reversed   \* history: the payments markRefunded() has written off

provider == <<orders, attempts>>
history == <<granted, reversed>>
vars == <<payments, orders, attempts, inbox, received, work, phone, faults, patient,
          granted, reversed>>

-----------------------------------------------------------------------------
(* Records.  Rows, orders and attempts are numbered as they come; 0 is none. *)

PaymentIds == 1..MaxPayments
OrderIds == 1..MaxOrders
AttemptIds == 1..MaxAttempts

Status == {"NONE", "INITIATED", "PENDING", "SUCCESS", "FAILED", "REFUNDED"}

Row == [status : Status, key : 0..MaxKeys, order : 0..MaxOrders,
        attempt : 0..MaxAttempts, refunded : 0..Amount]

Attempt == [order : 0..MaxOrders, captured : BOOLEAN, back : 0..Amount]

\* Two refunds of one attempt are told apart by what has gone back with each.
Event == [kind : {"captured", "failed", "refund"}, attempt : AttemptIds, amount : 0..Amount,
          back : 0..Amount]

NoEvent == [kind |-> "none", attempt |-> 0, amount |-> 0, back |-> 0]

Steps == {"idle", "insert", "createOrder", "attach", "activate", "answer", "apply",
          "fail", "giveBack", "checkRefund", "book"}

\* A handler: its next step, whose request it answers, and what it has read so far.
Task == [step : Steps, key : 0..MaxKeys, payment : 0..MaxPayments, order : 0..MaxOrders,
         attempt : 0..MaxAttempts, amount : 0..Amount, event : Event \cup {NoEvent}]

Idle == [step |-> "idle", key |-> 0, payment |-> 0, order |-> 0, attempt |-> 0,
         amount |-> 0, event |-> NoEvent]

Screens == {"pay", "opening", "sheet", "paid", "verifying", "confirming", "success",
            "failed", "gaveUp", "collective"}

\* The screen, the checkout it holds, the worker it waits for, and the stored key.
Screen == [at : Screens, payment : 0..MaxPayments, order : 0..MaxOrders,
           attempt : 0..MaxAttempts, waits : Workers \cup {Nobody}, key : 0..MaxKeys]

At(w, step) == work[w].step = step
Go(w, step) == work' = [work EXCEPT ![w].step = step]
Begin(w, task) == work[w] = Idle /\ work' = [work EXCEPT ![w] = task]

\* The handler returns; a webhook's 2xx is the last the provider says of the event.
Return(w) ==
    /\ work' = [work EXCEPT ![w] = Idle]
    /\ inbox' = inbox \ {work[w].event}

Waiting(w) == {d \in Devices : phone[d].waits = w}

\* What the screens that wait for worker w's answer do on hearing it.
Tell(w, Screen2(_)) ==
    phone' = [d \in Devices |->
                IF d \in Waiting(w) THEN [Screen2(phone[d]) EXCEPT !.waits = Nobody]
                ELSE phone[d]]

\* No answer, or an error: the pay screen shows it; once the money is paid, the success
\* screen asks the server what became of it.
OnError(s) == [s EXCEPT !.at = IF s.at = "opening" THEN "pay" ELSE "confirming"]

-----------------------------------------------------------------------------
(* The pay screen: create(), checkoutFor() *)

Open == {p \in PaymentIds : payments[p].status \in {"INITIATED", "PENDING"}}
WithKey(k) == {p \in PaymentIds : payments[p].key = k}

\* The key a device stores for the post until it forgets it: a new one if it has none.
KeyOf(d) ==
    IF phone[d].key # 0 THEN {phone[d].key}
    ELSE {k \in 1..MaxKeys : /\ \A e \in Devices : phone[e].key < k
                             /\ \A p \in PaymentIds : payments[p].key < k
                             /\ \A w \in Workers : work[w].key < k
                             /\ \/ k = 1
                                \/ \E e \in Devices : phone[e].key = k - 1
                                \/ \E p \in PaymentIds : payments[p].key = k - 1
                                \/ \E w \in Workers : work[w].key = k - 1}

\* The payment already made with this key, or else the newest open one of the post.
Existing(k) ==
    IF WithKey(k) # {} THEN WithKey(k)
    ELSE {p \in Open : \A q \in Open : q <= p}

\* The checkout the screen already holds opens the sheet again.
PayAgain(d) ==
    /\ phone[d].at = "pay"
    /\ phone[d].payment # 0
    /\ phone' = [phone EXCEPT ![d].at = "sheet"]
    /\ UNCHANGED <<payments, provider, inbox, received, work, faults, patient, history>>

Press(d, w, k) ==
    /\ phone[d].at = "pay"
    /\ phone[d].payment = 0
    /\ k \in KeyOf(d)

\* A key whose payment has succeeded leads to the collective.
PressPaid(d, w, k) ==
    /\ Press(d, w, k)
    /\ work[w] = Idle
    /\ \E p \in WithKey(k) : payments[p].status = "SUCCESS"
    /\ phone' = [phone EXCEPT ![d].at = "collective", ![d].key = k]
    /\ UNCHANGED <<payments, provider, inbox, received, work, faults, patient, history>>

\* Its order is handed back.
PressReady(d, w, k) ==
    /\ Press(d, w, k)
    /\ work[w] = Idle
    /\ \A p \in WithKey(k) : payments[p].status # "SUCCESS"
    /\ \E p \in Existing(k) :
         /\ payments[p].order # 0
         /\ phone' = [phone EXCEPT ![d].at = "sheet", ![d].key = k, ![d].payment = p,
                                   ![d].order = payments[p].order]
    /\ UNCHANGED <<payments, provider, inbox, received, work, faults, patient, history>>

\* There is a payment without an order.
PressUnfinished(d, w, k) ==
    /\ Press(d, w, k)
    /\ \A p \in WithKey(k) : payments[p].status # "SUCCESS"
    /\ \E p \in Existing(k) :
         /\ payments[p].order = 0
         /\ Begin(w, [Idle EXCEPT !.step = "createOrder", !.payment = p])
    /\ phone' = [phone EXCEPT ![d].at = "opening", ![d].key = k, ![d].waits = w]
    /\ UNCHANGED <<payments, provider, inbox, received, faults, patient, history>>

PressNew(d, w, k) ==
    /\ Press(d, w, k)
    /\ Existing(k) = {}
    /\ Begin(w, [Idle EXCEPT !.step = "insert", !.key = k])
    /\ phone' = [phone EXCEPT ![d].at = "opening", ![d].key = k, ![d].waits = w]
    /\ UNCHANGED <<payments, provider, inbox, received, faults, patient, history>>

\* The key is unique: a second insert fails.
Insert(w) ==
    /\ At(w, "insert")
    /\ \/ /\ WithKey(work[w].key) = {}
          /\ \E p \in PaymentIds :
               /\ payments[p].status = "NONE"
               /\ \A q \in 1..(p - 1) : payments[q].status # "NONE"
               /\ payments' = [payments EXCEPT ![p].status = "INITIATED",
                                               ![p].key = work[w].key]
               /\ work' = [work EXCEPT ![w] = [Idle EXCEPT !.step = "createOrder",
                                                           !.payment = p]]
          /\ UNCHANGED <<inbox, phone>>
       \/ /\ WithKey(work[w].key) # {}
          /\ Tell(w, OnError)
          /\ Return(w)
          /\ UNCHANGED payments
    /\ UNCHANGED <<provider, received, faults, patient, history>>

CreateOrder(w) ==
    /\ At(w, "createOrder")
    /\ \E o \in OrderIds :
         /\ orders[o] = 0
         /\ \A x \in 1..(o - 1) : orders[x] # 0
         /\ orders' = [orders EXCEPT ![o] = work[w].payment]
         /\ work' = [work EXCEPT ![w].step = "attach", ![w].order = o]
    /\ UNCHANGED <<payments, attempts, inbox, received, phone, faults, patient, history>>

\* Whatever the row has become meanwhile.
Attach(w) ==
    LET t == work[w]
        Ready(s) == [s EXCEPT !.at = "sheet", !.payment = t.payment, !.order = t.order] IN
    /\ At(w, "attach")
    /\ payments' = [payments EXCEPT ![t.payment].order = t.order,
                                    ![t.payment].status = "PENDING"]
    /\ Tell(w, Ready)
    /\ Return(w)
    /\ UNCHANGED <<provider, received, faults, patient, history>>

-----------------------------------------------------------------------------
(* The provider's sheet.  An order is captured at most once; a failed attempt may be   *)
(* followed by another. *)

TryToPay(d, ok) ==
    /\ phone[d].at = "sheet"
    /\ \A a \in AttemptIds : attempts[a].captured => attempts[a].order # phone[d].order
    /\ \E a \in AttemptIds :
         /\ attempts[a].order = 0
         /\ \A b \in 1..(a - 1) : attempts[b].order # 0
         /\ attempts' = [attempts EXCEPT ![a].order = phone[d].order, ![a].captured = ok]
         /\ inbox' = inbox \cup {[kind |-> IF ok THEN "captured" ELSE "failed",
                                  attempt |-> a, amount |-> 0, back |-> 0]}
         /\ phone' = IF ok THEN [phone EXCEPT ![d].at = "paid", ![d].attempt = a] ELSE phone
    /\ UNCHANGED <<payments, orders, received, work, faults, patient, history>>

Dismiss(d) ==
    /\ phone[d].at = "sheet"
    /\ phone' = [phone EXCEPT ![d].at = "pay"]
    /\ UNCHANGED <<payments, provider, inbox, received, work, faults, patient, history>>

-----------------------------------------------------------------------------
(* verify(): the device relays the provider's ids *)

Verify(d, w) ==
    LET p == phone[d].payment IN
    /\ phone[d].at = "paid"
    /\ work[w] = Idle
    /\ IF payments[p].order = phone[d].order
       THEN /\ Begin(w, [Idle EXCEPT !.step = "activate", !.payment = p,
                                     !.attempt = phone[d].attempt])
            /\ phone' = [phone EXCEPT ![d].at = "verifying", ![d].waits = w]
       ELSE /\ phone' = [phone EXCEPT ![d].at = "confirming"]
            /\ UNCHANGED work
    /\ UNCHANGED <<payments, provider, inbox, received, faults, patient, history>>

\* Fault: a payment that failed once stays failed.
SettledOrFailed == {"SUCCESS", "REFUNDED", "FAILED"}

\* Nothing is left to activate.
Settled == {"SUCCESS", "REFUNDED"}

\* One transaction under the row lock; the second call finds it done.
Activate(w) ==
    LET t == work[w] IN
    /\ At(w, "activate")
    /\ IF payments[t.payment].status \in Settled
       THEN UNCHANGED <<payments, granted>>
       ELSE /\ payments' = [payments EXCEPT ![t.payment].status = "SUCCESS",
                                            ![t.payment].attempt = t.attempt]
            /\ granted' = granted \cup {t.payment}
    /\ IF t.event = NoEvent THEN Go(w, "answer") /\ UNCHANGED inbox ELSE Return(w)
    /\ UNCHANGED <<provider, received, phone, faults, patient, reversed>>

\* The status read after the transaction decides the screen; the key is forgotten here.
Answer(w) ==
    LET OnStatus(s) ==
            IF payments[work[w].payment].status = "SUCCESS"
            THEN [s EXCEPT !.at = "success", !.key = 0] ELSE [s EXCEPT !.at = "failed"] IN
    /\ At(w, "answer")
    /\ Tell(w, OnStatus)
    /\ Return(w)
    /\ UNCHANGED <<payments, provider, received, faults, patient, history>>

-----------------------------------------------------------------------------
(* The success screen asks for the payment again and again, and gives up *)

\* Fault: what has not failed is taken for a success.
PaidUnlessFailed == {"INITIATED", "PENDING", "SUCCESS", "REFUNDED"}

\* The statuses that show the success screen.
Paid == {"SUCCESS"}

Poll(d) ==
    LET status == payments[phone[d].payment].status IN
    /\ phone[d].at = "confirming"
    /\ phone' = [phone EXCEPT ![d].at = IF status \in Paid THEN "success"
                                        ELSE IF status = "FAILED" THEN "failed"
                                        ELSE "gaveUp"]
    /\ UNCHANGED <<payments, provider, inbox, received, work, faults, patient, history>>

\* The pay screen, opened again: from where it led, or instead of waiting for it.
Reopen(d) ==
    /\ phone[d].at # "pay"
    /\ patient => phone[d].at \notin {"opening", "paid", "verifying", "confirming"}
    /\ phone' = [phone EXCEPT ![d] = [at |-> "pay", payment |-> 0, order |-> 0, attempt |-> 0,
                                      waits |-> Nobody, key |-> phone[d].key]]
    /\ UNCHANGED <<payments, provider, inbox, received, work, faults, patient, history>>

-----------------------------------------------------------------------------
(* handleWebhook(): recorded once, then applied *)

Deliver(w, e) ==
    /\ e \in inbox
    /\ work[w] = Idle
    /\ IF e \in received
       THEN inbox' = inbox \ {e} /\ UNCHANGED <<received, work>>
       ELSE /\ received' = received \cup {e}
            /\ Begin(w, [Idle EXCEPT !.step = "apply", !.attempt = e.attempt,
                                     !.amount = e.amount, !.event = e])
            /\ UNCHANGED inbox
    /\ UNCHANGED <<payments, provider, phone, faults, patient, history>>

\* The payment an event is about: by its order, or for a refund by the attempt.
Named(e) ==
    {p \in PaymentIds :
       IF e.kind = "refund" THEN payments[p].attempt = e.attempt
       ELSE payments[p].order = attempts[e.attempt].order}

\* applyOutcome()
NextStep(e) ==
    CASE e.kind = "captured" -> "activate" [] e.kind = "failed" -> "fail"
      [] e.kind = "refund" -> "checkRefund"

\* Fault: nothing is heard of a payment that has succeeded, its refund included.
IgnoredOnceSuccess(e, p) == e.kind # "captured" /\ payments[p].status = "SUCCESS"

\* A failed attempt says nothing of a payment that has succeeded.
Ignored(e, p) == e.kind = "failed" /\ payments[p].status = "SUCCESS"

Apply(w) ==
    LET e == work[w].event IN
    /\ At(w, "apply")
    /\ \/ \E p \in Named(e) :
            /\ ~Ignored(e, p)
            /\ work' = [work EXCEPT ![w].step = NextStep(e), ![w].payment = p]
            /\ UNCHANGED inbox
       \/ /\ \A p \in Named(e) : Ignored(e, p)
          /\ Return(w)
    /\ UNCHANGED <<payments, provider, received, phone, faults, patient, history>>

\* The row is not looked at again.
Fail(w) ==
    LET t == work[w] IN
    /\ At(w, "fail")
    /\ payments' = [payments EXCEPT ![t.payment].status = "FAILED",
                                    ![t.payment].attempt = t.attempt]
    /\ Return(w)
    /\ UNCHANGED <<provider, received, phone, faults, patient, history>>

-----------------------------------------------------------------------------
(* refund() by an admin or the leave policy, and markRefunded() *)

\* Fault: the books first, the money after.
BeginWithBooks(w, p, amount) ==
    /\ payments[p].status = "SUCCESS"
    /\ Begin(w, [Idle EXCEPT !.step = "checkRefund", !.payment = p, !.amount = amount,
                             !.attempt = payments[p].attempt])
    /\ UNCHANGED <<payments, provider, inbox, received, phone, faults, patient, history>>

BeginRefund(w, p, amount) ==
    /\ payments[p].status = "SUCCESS"
    /\ Begin(w, [Idle EXCEPT !.step = "giveBack", !.payment = p, !.amount = amount,
                             !.attempt = payments[p].attempt])
    /\ UNCHANGED <<payments, provider, inbox, received, phone, faults, patient, history>>

\* The provider gives back no more than it took.
GiveBack(w) ==
    LET t == work[w] IN
    /\ At(w, "giveBack")
    /\ IF attempts[t.attempt].back + t.amount <= Amount
       THEN /\ attempts' = [attempts EXCEPT ![t.attempt].back = @ + t.amount]
            /\ inbox' = inbox \cup {[kind |-> "refund", attempt |-> t.attempt, amount |-> t.amount,
                                     back |-> attempts[t.attempt].back + t.amount]}
            /\ Go(w, "checkRefund")
       ELSE Return(w) /\ UNCHANGED attempts
    /\ UNCHANGED <<payments, orders, received, phone, faults, patient, history>>

CheckRefund(w) ==
    /\ At(w, "checkRefund")
    /\ IF payments[work[w].payment].status = "REFUNDED" THEN Return(w)
       ELSE Go(w, "book") /\ UNCHANGED inbox
    /\ UNCHANGED <<payments, provider, received, phone, faults, patient, history>>

Book(w) ==
    LET t == work[w] IN
    /\ At(w, "book")
    /\ payments' = [payments EXCEPT ![t.payment].status = "REFUNDED",
                                    ![t.payment].refunded = t.amount]
    /\ reversed' = reversed \cup {t.payment}
    /\ Return(w)
    /\ UNCHANGED <<provider, received, phone, faults, patient, granted>>

-----------------------------------------------------------------------------
(* Faults: a handler dies or throws, an answer is lost, the app is killed *)

Fault == faults < MaxFaults /\ faults' = faults + 1

Die(w) ==
    /\ Fault
    /\ work[w] # Idle
    /\ work' = [work EXCEPT ![w] = Idle]
    /\ Tell(w, OnError)
    /\ UNCHANGED <<payments, provider, inbox, received, patient, history>>

LoseAnswer(d) ==
    /\ Fault
    /\ phone[d].waits # Nobody
    /\ phone' = [phone EXCEPT ![d] = [OnError(@) EXCEPT !.waits = Nobody]]
    /\ UNCHANGED <<payments, provider, inbox, received, work, patient, history>>

Kill(d) ==
    /\ Fault
    /\ phone[d].at # "pay"
    /\ phone' = [phone EXCEPT ![d] = [at |-> "pay", payment |-> 0, order |-> 0, attempt |-> 0,
                                      waits |-> Nobody, key |-> phone[d].key]]
    /\ UNCHANGED <<payments, provider, inbox, received, work, patient, history>>

-----------------------------------------------------------------------------
Init ==
    /\ payments = [p \in PaymentIds |->
                     [status |-> "NONE", key |-> 0, order |-> 0, attempt |-> 0, refunded |-> 0]]
    /\ orders = [o \in OrderIds |-> 0]
    /\ attempts = [a \in AttemptIds |-> [order |-> 0, captured |-> FALSE, back |-> 0]]
    /\ inbox = {}
    /\ received = {}
    /\ work = [w \in Workers |-> Idle]
    /\ phone = [d \in Devices |-> [at |-> "pay", payment |-> 0, order |-> 0, attempt |-> 0,
                                   waits |-> Nobody, key |-> 0]]
    /\ faults = 0
    /\ patient \in Patience
    /\ granted = {}
    /\ reversed = {}

Step(w) ==
    \/ Insert(w) \/ CreateOrder(w) \/ Attach(w)
    \/ Activate(w) \/ Answer(w)
    \/ Apply(w) \/ Fail(w)
    \/ GiveBack(w) \/ CheckRefund(w) \/ Book(w)

Person(d) ==
    \/ PayAgain(d)
    \/ \E w \in Workers, k \in 1..MaxKeys :
         PressPaid(d, w, k) \/ PressReady(d, w, k) \/ PressUnfinished(d, w, k) \/ PressNew(d, w, k)
    \/ \E ok \in BOOLEAN : TryToPay(d, ok)
    \/ Dismiss(d)
    \/ Reopen(d)

Relay(d) == \E w \in Workers : Verify(d, w)

Next ==
    \/ \E w \in Workers : Step(w) \/ Die(w)
    \/ \E w \in Workers, e \in inbox : Deliver(w, e)
    \/ \E w \in Workers, p \in PaymentIds, amount \in 1..Amount : BeginRefund(w, p, amount)
    \/ \E d \in Devices : Person(d) \/ Relay(d) \/ Poll(d) \/ LoseAnswer(d) \/ Kill(d)

Fairness ==
    /\ \A w \in Workers : WF_vars(Step(w))
    /\ SF_vars(\E w \in Workers, e \in inbox : Deliver(w, e))
    /\ \A d \in Devices : SF_vars(Relay(d)) /\ WF_vars(Poll(d))

Spec == Init /\ [][Next]_vars /\ Fairness

-----------------------------------------------------------------------------
TypeOK ==
    /\ payments \in [PaymentIds -> Row]
    /\ orders \in [OrderIds -> 0..MaxPayments]
    /\ attempts \in [AttemptIds -> Attempt]
    /\ inbox \subseteq Event
    /\ received \subseteq Event
    /\ work \in [Workers -> Task]
    /\ phone \in [Devices -> Screen]
    /\ faults \in 0..MaxFaults
    /\ patient \in BOOLEAN
    /\ granted \subseteq PaymentIds
    /\ reversed \subseteq PaymentIds

\* Attempt a is at an order of payment p.
IsFor(a, p) == attempts[a].order # 0 /\ orders[attempts[a].order] = p

Charged == {p \in PaymentIds : \E a \in AttemptIds : attempts[a].captured /\ IsFor(a, p)}
GivenBack == {p \in PaymentIds : \E a \in AttemptIds : attempts[a].back > 0 /\ IsFor(a, p)}

-----------------------------------------------------------------------------
(* Properties *)

Books == INSTANCE Ledger WITH
    Payments <- PaymentIds, charged <- Charged, returned <- GivenBack

\* Whatever overlaps, dies or arrives late, activate() grants Elite only for a payment the
\* provider has charged, and markRefunded() writes off only one whose money went back.
LedgerHolds == Books!LedgerSpec

\* The success screen is "shown only once the server reports SUCCESS" (success.tsx): the
\* payment it speaks of has been granted.
SuccessIsGranted ==
    \A d \in Devices : phone[d].at = "success" => phone[d].payment \in granted

\* Money that was taken gets its Elite days, by verify() or by the webhook, though one
\* handler dies, one answer is lost or the app is killed; unless checkoutFor() or create()
\* has attached another order to the payment.
ChargedIsGranted ==
    \A a \in AttemptIds :
        (patient /\ attempts[a].captured) ~>
            \/ \E p \in granted : IsFor(a, p)
            \/ \E p \in PaymentIds : IsFor(a, p) /\ payments[p].order # attempts[a].order

\* No attempt at this attempt's payment has failed.
TriedOnce(a) ==
    \E p \in PaymentIds : /\ IsFor(a, p)
                          /\ \A b \in AttemptIds : IsFor(b, p) => attempts[b].captured

\* Money that went back is in the books in the end: if refund() dies after the provider has
\* paid, the refund.processed event does what was left undone; unless a failed attempt has
\* taken the captured one's place in the row.
ReturnedIsBooked ==
    \A a \in AttemptIds :
        (patient /\ attempts[a].back > 0 /\ TriedOnce(a)) ~>
            (~TriedOnce(a) \/ \E p \in reversed : IsFor(a, p))

\* "If money left your account, your Elite Pass will activate automatically" (success.tsx).
PaidActivates ==
    \A a \in AttemptIds : attempts[a].captured ~> (\E p \in granted : IsFor(a, p))

\* "One idempotency key per buying post until its payment succeeds" (lib/payments.ts): the
\* device that shows the success has forgotten the key.
KeyEndsWithPayment ==
    \A d \in Devices : phone[d].at = "success" => phone[d].key = 0
=============================================================================
