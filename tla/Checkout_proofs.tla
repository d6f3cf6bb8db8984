-------------------------- MODULE Checkout_proofs --------------------------
(***************************************************************************)
(* Proofs about Checkout, for any devices and workers, any number of rows, *)
(* orders, attempts and keys, and any number of faults: that it implements *)
(* the Ledger, whatever overlaps, dies or arrives late, and that no screen *)
(* shows a success that the payment has not had.                           *)
(***************************************************************************)
EXTENDS Checkout, TLAPS

-----------------------------------------------------------------------------
(* The inductive invariant: what rows, events, handlers and screens know of *)
(* one another.                                                             *)

\* Attempt a captured money for payment p.
Took(a, p) == a # 0 /\ attempts[a].captured /\ IsFor(a, p)

\* An order is attached to the payment it is for, and an attempt that took money to the
\* payment it was for, which has been granted.
RowOK(p, r) ==
    /\ r.order # 0 => orders[r.order] = p
    /\ r.attempt # 0 => /\ attempts[r.attempt].order # 0
                        /\ attempts[r.attempt].captured => IsFor(r.attempt, p) /\ p \in granted
    /\ r.status = "SUCCESS" => p \in granted /\ Took(r.attempt, p)

AttemptOK(a) ==
    /\ attempts[a].order # 0 => orders[attempts[a].order] # 0
    /\ attempts[a].order = 0 => attempts[a].back = 0

EventOK(e) ==
    /\ attempts[e.attempt].order # 0
    /\ e.kind = "failed" <=> ~attempts[e.attempt].captured
    /\ e.kind = "refund" => attempts[e.attempt].back > 0

\* What a handler relies on at its next step.
TaskOK(t) ==
    /\ t.step \in {"createOrder", "attach", "activate", "answer", "fail"} => t.payment # 0
    /\ t.step = "attach" => t.order # 0 /\ orders[t.order] = t.payment
    /\ t.step \in {"activate", "giveBack"} => Took(t.attempt, t.payment)
    /\ t.step = "apply" => t.event \in Event /\ EventOK(t.event) /\ t.attempt = t.event.attempt
    /\ t.step = "fail" => /\ t.attempt # 0
                          /\ attempts[t.attempt].order # 0
                          /\ ~attempts[t.attempt].captured
    /\ t.step = "giveBack" => t.payment \in granted /\ t.amount > 0
    /\ t.step \in {"checkRefund", "book"} => t.payment \in granted \cap GivenBack

\* What a screen shows is there.
ScreenOK(s) ==
    /\ s.payment # 0 => s.order # 0 /\ orders[s.order] = s.payment
    /\ s.at \in {"sheet", "paid", "verifying", "confirming"} => s.payment # 0
    /\ s.at = "paid" => /\ s.attempt # 0
                        /\ attempts[s.attempt].captured
                        /\ attempts[s.attempt].order = s.order
    /\ s.at = "success" => s.payment \in granted

\* A screen waits for a handler that will answer it, about its payment.
WaitOK(s, t) ==
    \/ s.at = "opening" /\ t.step \in {"insert", "createOrder", "attach"}
    \/ /\ s.at = "verifying"
       /\ t.step \in {"activate", "answer"}
       /\ t.event = NoEvent
       /\ t.payment = s.payment

RowsOK == \A p \in PaymentIds : RowOK(p, payments[p])
AttemptsOK == \A a \in AttemptIds : AttemptOK(a)
EventsOK == \A e \in inbox : EventOK(e)
TasksOK == \A w \in Workers : TaskOK(work[w])
ScreensOK == \A d \in Devices : ScreenOK(phone[d])
WaitsOK == \A d \in Devices : phone[d].waits # Nobody => WaitOK(phone[d], work[phone[d].waits])

Linked == RowsOK /\ AttemptsOK /\ EventsOK /\ TasksOK /\ ScreensOK /\ WaitsOK

IInv == TypeOK /\ Linked

-----------------------------------------------------------------------------
(* What everybody relies on only grows. *)

Grows ==
    /\ \A o \in OrderIds : orders[o] # 0 => orders'[o] = orders[o]
    /\ \A a \in AttemptIds : attempts[a].order # 0 =>
         /\ attempts'[a].order = attempts[a].order
         /\ attempts'[a].captured = attempts[a].captured
         /\ attempts'[a].back >= attempts[a].back
    /\ granted \subseteq granted'

LEMMA GrowsIsFor ==
    ASSUME TypeOK, AttemptsOK, Grows, NEW a \in AttemptIds, NEW p \in PaymentIds, IsFor(a, p)
    PROVE  IsFor(a, p)'
  <1>1. attempts[a].order \in OrderIds /\ orders[attempts[a].order] # 0
    BY CheckoutAssumption DEF IsFor, TypeOK, Attempt, OrderIds, AttemptsOK, AttemptOK, AttemptIds, PaymentIds
  <1> QED
    BY <1>1 DEF Grows, IsFor

LEMMA GrowsBack ==
    ASSUME TypeOK, AttemptsOK, Grows, TypeOK'
    PROVE  GivenBack \subseteq GivenBack'
  <1> SUFFICES ASSUME NEW p \in PaymentIds, NEW a \in AttemptIds, attempts[a].back > 0, IsFor(a, p)
               PROVE  attempts'[a].back > 0 /\ IsFor(a, p)'
    BY DEF GivenBack
  <1>1. attempts'[a].back >= attempts[a].back
    BY DEF Grows, IsFor
  <1>2. attempts[a].back \in Nat /\ attempts'[a].back \in Nat
    BY CheckoutAssumption DEF TypeOK, Attempt
  <1> QED
    BY <1>1, <1>2, GrowsIsFor

LEMMA GrowsRow ==
    ASSUME TypeOK, AttemptsOK, Grows, NEW p \in PaymentIds, NEW r \in Row, RowOK(p, r)
    PROVE  RowOK(p, r)'
  <1>1. /\ r.order # 0 => r.order \in OrderIds
        /\ r.attempt # 0 => r.attempt \in AttemptIds
        /\ p # 0
    BY CheckoutAssumption DEF Row, OrderIds, AttemptIds, PaymentIds
  <1>2. r.order # 0 => orders'[r.order] = p
    BY <1>1 DEF RowOK, Grows
  <1>3. r.attempt # 0 => /\ attempts'[r.attempt].order # 0
                         /\ attempts'[r.attempt].captured = attempts[r.attempt].captured
    BY <1>1 DEF RowOK, Grows
  <1>4. p \in granted => p \in granted'
    BY DEF Grows
  <1> QED
    BY <1>1, <1>2, <1>3, <1>4, GrowsIsFor DEF RowOK, Took

LEMMA GrowsEvent ==
    ASSUME TypeOK, Grows, TypeOK', NEW e \in Event, EventOK(e)
    PROVE  EventOK(e)'
  <1>1. e.attempt \in AttemptIds
    BY DEF Event
  <1>2. /\ attempts'[e.attempt].order = attempts[e.attempt].order
        /\ attempts'[e.attempt].captured = attempts[e.attempt].captured
        /\ attempts'[e.attempt].back >= attempts[e.attempt].back
    BY <1>1 DEF EventOK, Grows
  <1>3. attempts[e.attempt].back \in Nat /\ attempts'[e.attempt].back \in Nat
    BY <1>1, CheckoutAssumption DEF TypeOK, Attempt
  <1> QED
    BY <1>2, <1>3 DEF EventOK

LEMMA GrowsTask ==
    ASSUME TypeOK, AttemptsOK, Grows, TypeOK', NEW t \in Task, TaskOK(t)
    PROVE  TaskOK(t)'
  <1>1. /\ t.order # 0 => t.order \in OrderIds
        /\ t.attempt # 0 => t.attempt \in AttemptIds
        /\ t.payment # 0 => t.payment \in PaymentIds
    BY CheckoutAssumption DEF Task, OrderIds, AttemptIds, PaymentIds
  <1>2. ASSUME t.step = "attach"
        PROVE  orders'[t.order] = t.payment
    BY <1>1, <1>2 DEF TaskOK, Grows
  <1>3. ASSUME Took(t.attempt, t.payment)
        PROVE  Took(t.attempt, t.payment)'
    <2>1. orders[attempts[t.attempt].order] # 0
      BY <1>1, <1>3 DEF Took, IsFor, AttemptsOK, AttemptOK
    <2>2. attempts[t.attempt].order \in OrderIds
      BY <1>1, <1>3, CheckoutAssumption DEF Took, IsFor, TypeOK, Attempt, OrderIds
    <2> QED
      BY <1>1, <1>3, <2>1, <2>2 DEF Took, IsFor, Grows
  <1>4. ASSUME t.step = "apply"
        PROVE  EventOK(t.event)'
    BY <1>4, GrowsEvent DEF TaskOK
  <1>5. ASSUME t.step = "fail"
        PROVE  attempts'[t.attempt].order # 0 /\ ~attempts'[t.attempt].captured
    BY <1>1, <1>5 DEF TaskOK, Grows
  <1>6. granted \subseteq granted' /\ GivenBack \subseteq GivenBack'
    BY GrowsBack DEF Grows
  <1> QED
    BY <1>2, <1>3, <1>4, <1>5, <1>6 DEF TaskOK

LEMMA GrowsScreen ==
    ASSUME TypeOK, AttemptsOK, Grows, NEW s \in Screen, ScreenOK(s)
    PROVE  ScreenOK(s)'
  <1>1. /\ s.order # 0 => s.order \in OrderIds
        /\ s.attempt # 0 => s.attempt \in AttemptIds
    BY CheckoutAssumption DEF Screen, OrderIds, AttemptIds
  <1>2. s.payment # 0 => orders'[s.order] = s.payment
    BY <1>1 DEF ScreenOK, Grows
  <1>3. s.at = "paid" => attempts'[s.attempt].captured /\ attempts'[s.attempt].order = s.order
    BY <1>1 DEF ScreenOK, Grows
  <1>4. s.at = "success" => s.payment \in granted'
    BY DEF ScreenOK, Grows
  <1> QED
    BY <1>2, <1>3, <1>4 DEF ScreenOK

-----------------------------------------------------------------------------
(* A step keeps the invariant if all that it changes is right and nothing shrinks. *)

LEMMA Spread ==
    ASSUME IInv, TypeOK', Grows, AttemptsOK', WaitsOK',
           \A p \in PaymentIds : payments'[p] = payments[p] \/ RowOK(p, payments[p])',
           \A e \in inbox' : e \in inbox \/ EventOK(e)',
           \A w \in Workers : work'[w] = work[w] \/ TaskOK(work[w])',
           \A d \in Devices : phone'[d] = phone[d] \/ ScreenOK(phone[d])'
    PROVE  IInv'
  <1>1. RowsOK'
    <2> SUFFICES ASSUME NEW p \in PaymentIds, payments'[p] = payments[p]
                 PROVE  RowOK(p, payments[p])'
      BY DEF RowsOK
    <2>1. payments[p] \in Row /\ RowOK(p, payments[p])
      BY DEF IInv, Linked, RowsOK, TypeOK
    <2>2. RowOK(p, payments[p]) => \A r \in Row : r = payments[p] => RowOK(p, r)'
      BY <2>1, GrowsRow DEF IInv, Linked
    <2> QED
      BY <2>1, <2>2 DEF RowOK, Took, IsFor
  <1>2. EventsOK'
    <2> SUFFICES ASSUME NEW e \in inbox', e \in inbox
                 PROVE  EventOK(e)'
      BY DEF EventsOK
    <2> QED
      BY GrowsEvent DEF IInv, Linked, EventsOK, TypeOK
  <1>3. TasksOK'
    <2> SUFFICES ASSUME NEW w \in Workers, work'[w] = work[w]
                 PROVE  TaskOK(work[w])'
      BY DEF TasksOK
    <2>1. PICK t \in Task : t = work[w] /\ TaskOK(t)
      BY DEF IInv, Linked, TasksOK, TypeOK
    <2>2. TaskOK(t)'
      BY <2>1, GrowsTask DEF IInv, Linked
    <2> QED
      BY <2>1, <2>2 DEF TaskOK, Took, IsFor, EventOK, GivenBack
  <1>4. ScreensOK'
    <2> SUFFICES ASSUME NEW d \in Devices, phone'[d] = phone[d]
                 PROVE  ScreenOK(phone[d])'
      BY DEF ScreensOK
    <2>1. PICK s \in Screen : s = phone[d] /\ ScreenOK(s)
      BY DEF IInv, Linked, ScreensOK, TypeOK
    <2>2. ScreenOK(s)'
      BY <2>1, GrowsScreen DEF IInv, Linked
    <2> QED
      BY <2>1, <2>2 DEF ScreenOK
  <1> QED
    BY <1>1, <1>2, <1>3, <1>4 DEF IInv, Linked

LEMMA SameProvider ==
    ASSUME IInv, UNCHANGED provider, granted \subseteq granted'
    PROVE  Grows /\ AttemptsOK'
  <1>1. \A a \in AttemptIds : attempts[a].back \in Nat
    BY CheckoutAssumption DEF IInv, TypeOK, Attempt
  <1> QED
    BY <1>1 DEF provider, Grows, IInv, Linked, AttemptsOK, AttemptOK

\* The screens wait as before if they and those they wait for have not changed.
LEMMA SameWaits ==
    ASSUME IInv, NEW changed \in SUBSET Workers,
           \A w \in Workers \ changed : work'[w] = work[w],
           \A d \in Devices : \/ phone'[d].waits = Nobody
                              \/ phone'[d] = phone[d] /\ phone[d].waits \notin changed
                              \/ WaitOK(phone[d], work[phone[d].waits])'
    PROVE  WaitsOK'
  <1>1. \A d \in Devices : phone[d].waits \in Workers \cup {Nobody}
    BY DEF IInv, TypeOK, Screen
  <1>2. \A d \in Devices : phone[d].waits # Nobody => WaitOK(phone[d], work[phone[d].waits])
    BY DEF IInv, Linked, WaitsOK
  <1> QED
    BY <1>1, <1>2 DEF WaitsOK, WaitOK

\* Nobody waits for a handler but in the middle of a request of the pay screen.
LEMMA WaitedFor ==
    ASSUME IInv, NEW d \in Devices, NEW w \in Workers, phone[d].waits = w
    PROVE  WaitOK(phone[d], work[w])
  BY CheckoutAssumption DEF IInv, Linked, WaitsOK

LEMMA NobodyWaits ==
    ASSUME IInv, NEW w \in Workers,
           work[w].step \notin {"insert", "createOrder", "attach", "activate", "answer"}
    PROVE  \A d \in Devices : phone[d].waits # w
  BY WaitedFor DEF WaitOK

-----------------------------------------------------------------------------
(* The person *)

\* A step of one screen that waits for nobody.
LEMMA OneScreen ==
    ASSUME IInv, NEW d \in Devices, NEW s \in Screen, ScreenOK(s), s.waits = Nobody,
           phone' = [phone EXCEPT ![d] = s],
           UNCHANGED <<payments, provider, inbox, received, work, patient, history>>,
           faults' \in 0..MaxFaults
    PROVE  IInv'
  <1>1. TypeOK'
    BY DEF IInv, TypeOK, provider, history
  <1>2. phone' = [e \in Devices |-> IF e = d THEN s ELSE phone[e]]
    BY DEF IInv, TypeOK
  <1>3. Grows /\ AttemptsOK'
    BY SameProvider DEF history
  <1>4. ScreenOK(s)'
    BY <1>3, GrowsScreen DEF IInv, Linked
  <1>5. \A e \in Devices : phone'[e] = phone[e] \/ ScreenOK(phone[e])'
    BY <1>2, <1>4 DEF ScreenOK
  <1>6. WaitsOK'
    <2>1. {} \in SUBSET Workers /\ \A w \in Workers \ {} : work'[w] = work[w]
      OBVIOUS
    <2>2. \A e \in Devices : phone'[e].waits = Nobody \/ (phone'[e] = phone[e] /\ phone[e].waits \notin {})
      BY <1>2
    <2> QED
      BY <2>1, <2>2, SameWaits
  <1> QED
    BY <1>1, <1>3, <1>5, <1>6, Spread

LEMMA PayAgainKeeps ==
    ASSUME IInv, NEW d \in Devices, PayAgain(d)
    PROVE  IInv'
  <1> DEFINE s == [phone[d] EXCEPT !.at = "sheet"]
  <1>1. phone[d] \in Screen /\ ScreenOK(phone[d]) /\ phone[d].waits = Nobody
    <2>1. phone[d].waits \in Workers \cup {Nobody}
      BY DEF IInv, TypeOK, Screen
    <2> QED
      BY <2>1, WaitedFor DEF IInv, TypeOK, Linked, ScreensOK, PayAgain, WaitOK
  <1>2. s \in Screen /\ ScreenOK(s) /\ s.waits = Nobody
    BY <1>1 DEF PayAgain, Screen, Screens, ScreenOK
  <1>3. phone' = [phone EXCEPT ![d] = s]
    BY <1>1 DEF PayAgain, IInv, TypeOK
  <1> QED
    BY <1>2, <1>3, OneScreen DEF PayAgain, IInv, TypeOK

\* A screen that is not waiting, by where it is.
LEMMA WaitsForNobody ==
    ASSUME IInv, NEW d \in Devices, phone[d].at \notin {"opening", "verifying"}
    PROVE  phone[d] \in Screen /\ ScreenOK(phone[d]) /\ phone[d].waits = Nobody
  <1>1. phone[d] \in Screen /\ phone[d].waits \in Workers \cup {Nobody}
    BY DEF IInv, TypeOK, Screen
  <1> QED
    BY <1>1, WaitedFor DEF IInv, Linked, ScreensOK, WaitOK

LEMMA PressPaidKeeps ==
    ASSUME IInv, NEW d \in Devices, NEW w \in Workers, NEW k \in 1..MaxKeys, PressPaid(d, w, k)
    PROVE  IInv'
  <1> DEFINE s == [phone[d] EXCEPT !.at = "collective", !.key = k]
  <1>1. phone[d] \in Screen /\ ScreenOK(phone[d]) /\ phone[d].waits = Nobody
    BY WaitsForNobody DEF PressPaid, Press
  <1>2. s \in Screen /\ ScreenOK(s) /\ s.waits = Nobody
    <2>1. k \in 0..MaxKeys
      BY CheckoutAssumption
    <2> QED
      BY <1>1, <2>1 DEF Screen, Screens, ScreenOK
  <1>3. phone' = [phone EXCEPT ![d] = s]
    BY <1>1 DEF PressPaid, IInv, TypeOK
  <1> QED
    BY <1>2, <1>3, OneScreen DEF PressPaid, IInv, TypeOK

LEMMA PressReadyKeeps ==
    ASSUME IInv, NEW d \in Devices, NEW w \in Workers, NEW k \in 1..MaxKeys, PressReady(d, w, k)
    PROVE  IInv'
  <1>1. phone[d] \in Screen /\ ScreenOK(phone[d]) /\ phone[d].waits = Nobody
    BY WaitsForNobody DEF PressReady, Press
  <1>2. PICK p \in Existing(k) :
          /\ payments[p].order # 0
          /\ phone' = [phone EXCEPT ![d].at = "sheet", ![d].key = k, ![d].payment = p,
                                    ![d].order = payments[p].order]
    BY DEF PressReady
  <1> DEFINE s == [phone[d] EXCEPT !.at = "sheet", !.key = k, !.payment = p,
                                   !.order = payments[p].order]
  <1>3. p \in PaymentIds /\ p # 0
    BY DEF Existing, WithKey, Open, PaymentIds
  <1>4. payments[p].order \in 0..MaxOrders /\ orders[payments[p].order] = p
    BY <1>2, <1>3 DEF IInv, TypeOK, Row, Linked, RowsOK, RowOK
  <1>5. s \in Screen /\ ScreenOK(s) /\ s.waits = Nobody
    <2>1. k \in 0..MaxKeys /\ p \in 0..MaxPayments
      BY <1>3, CheckoutAssumption DEF PaymentIds
    <2> QED
      BY <1>1, <1>2, <1>3, <1>4, <2>1 DEF Screen, Screens, ScreenOK
  <1>6. phone' = [phone EXCEPT ![d] = s]
    BY <1>1, <1>2 DEF IInv, TypeOK
  <1> QED
    BY <1>5, <1>6, OneScreen DEF PressReady, IInv, TypeOK

\* A request that the pay screen makes.
LEMMA OneRequest ==
    ASSUME IInv, NEW d \in Devices, NEW w \in Workers, NEW s \in Screen, NEW t \in Task,
           ScreenOK(s), TaskOK(t), s.waits = w, WaitOK(s, t),
           Begin(w, t), phone' = [phone EXCEPT ![d] = s],
           UNCHANGED <<payments, provider, inbox, received, faults, patient, history>>
    PROVE  IInv'
  <1>1. TypeOK'
    BY DEF IInv, TypeOK, provider, history, Begin
  <1>2. /\ phone' = [e \in Devices |-> IF e = d THEN s ELSE phone[e]]
        /\ work' = [x \in Workers |-> IF x = w THEN t ELSE work[x]]
    BY DEF IInv, TypeOK, Begin
  <1>3. Grows /\ AttemptsOK'
    BY SameProvider DEF history
  <1>4. ScreenOK(s)' /\ TaskOK(t)'
    BY <1>1, <1>3, GrowsScreen, GrowsTask DEF IInv, Linked
  <1>5. \A e \in Devices : phone'[e] = phone[e] \/ ScreenOK(phone[e])'
    BY <1>2, <1>4 DEF ScreenOK
  <1>6. \A x \in Workers : work'[x] = work[x] \/ TaskOK(work[x])'
    BY <1>2, <1>4 DEF TaskOK, Took, IsFor, EventOK, GivenBack
  <1>7. \A e \in Devices : phone[e].waits # w
    BY NobodyWaits DEF Begin, Idle
  <1>8. WaitsOK'
    <2>1. \A e \in Devices : \/ phone'[e] = phone[e] /\ phone[e].waits \notin {w}
                             \/ WaitOK(phone[e], work[phone[e].waits])'
      BY <1>2, <1>7 DEF WaitOK
    <2>2. \A x \in Workers \ {w} : work'[x] = work[x]
      BY <1>2
    <2>3. {w} \in SUBSET Workers
      OBVIOUS
    <2> QED
      BY <2>1, <2>2, <2>3, SameWaits
  <1> QED
    BY <1>1, <1>3, <1>5, <1>6, <1>8, Spread

LEMMA IdleIsTask ==
    /\ Idle \in Task /\ TaskOK(Idle)
    /\ 0 \in 0..MaxKeys /\ 0 \in 0..MaxPayments /\ 0 \in 0..MaxOrders
    /\ 0 \in 0..MaxAttempts /\ 0 \in 0..Amount
  BY CheckoutAssumption DEF Idle, Task, Steps, TaskOK

LEMMA PressUnfinishedKeeps ==
    ASSUME IInv, NEW d \in Devices, NEW w \in Workers, NEW k \in 1..MaxKeys,
           PressUnfinished(d, w, k)
    PROVE  IInv'
  <1> DEFINE s == [phone[d] EXCEPT !.at = "opening", !.key = k, !.waits = w]
  <1>1. phone[d] \in Screen /\ ScreenOK(phone[d])
    BY WaitsForNobody DEF PressUnfinished, Press
  <1>2. PICK p \in Existing(k) : Begin(w, [Idle EXCEPT !.step = "createOrder", !.payment = p])
    BY DEF PressUnfinished
  <1> DEFINE t == [Idle EXCEPT !.step = "createOrder", !.payment = p]
  <1>3. p \in PaymentIds
    BY DEF Existing, WithKey, Open
  <1>4. s \in Screen /\ ScreenOK(s) /\ s.waits = w
    <2>1. k \in 0..MaxKeys
      BY CheckoutAssumption
    <2> QED
      BY <1>1, <2>1 DEF Screen, Screens, ScreenOK
  <1>5. t \in Task /\ TaskOK(t) /\ WaitOK(s, t)
    <2>1. p \in 0..MaxPayments /\ p # 0
      BY <1>3, CheckoutAssumption DEF PaymentIds
    <2>2. t.step = "createOrder" /\ t.payment = p
      BY IdleIsTask DEF Task, Idle
    <2>3. s.at = "opening"
      BY <1>1 DEF Screen
    <2>4. t \in Task
      BY <2>1, IdleIsTask DEF Task, Steps
    <2>5. TaskOK(t)
      BY <2>1, <2>2 DEF TaskOK
    <2> QED
      BY <2>2, <2>3, <2>4, <2>5 DEF WaitOK
  <1>6. phone' = [phone EXCEPT ![d] = s]
    BY <1>1 DEF PressUnfinished, IInv, TypeOK
  <1> QED
    BY <1>2, <1>4, <1>5, <1>6, OneRequest DEF PressUnfinished

LEMMA PressNewKeeps ==
    ASSUME IInv, NEW d \in Devices, NEW w \in Workers, NEW k \in 1..MaxKeys, PressNew(d, w, k)
    PROVE  IInv'
  <1> DEFINE s == [phone[d] EXCEPT !.at = "opening", !.key = k, !.waits = w]
             t == [Idle EXCEPT !.step = "insert", !.key = k]
  <1>1. phone[d] \in Screen /\ ScreenOK(phone[d])
    BY WaitsForNobody DEF PressNew, Press
  <1>2. s \in Screen /\ ScreenOK(s) /\ s.waits = w
    <2>1. k \in 0..MaxKeys
      BY CheckoutAssumption
    <2> QED
      BY <1>1, <2>1 DEF Screen, Screens, ScreenOK
  <1>3. t \in Task /\ TaskOK(t) /\ WaitOK(s, t)
    <2>1. k \in 0..MaxKeys
      BY CheckoutAssumption
    <2>2. t.step = "insert" /\ t.payment = 0
      BY IdleIsTask DEF Task, Idle
    <2>3. s.at = "opening"
      BY <1>1 DEF Screen
    <2>4. t \in Task
      BY <2>1, IdleIsTask DEF Task, Steps
    <2>5. TaskOK(t)
      BY <2>1, <2>2 DEF TaskOK
    <2> QED
      BY <2>2, <2>3, <2>4, <2>5 DEF WaitOK
  <1>4. phone' = [phone EXCEPT ![d] = s]
    BY <1>1 DEF PressNew, IInv, TypeOK
  <1>5. Begin(w, t)
    BY DEF PressNew
  <1> QED
    BY <1>2, <1>3, <1>4, <1>5, OneRequest DEF PressNew

LEMMA DismissKeeps ==
    ASSUME IInv, NEW d \in Devices, Dismiss(d)
    PROVE  IInv'
  <1> DEFINE s == [phone[d] EXCEPT !.at = "pay"]
  <1>1. phone[d] \in Screen /\ ScreenOK(phone[d]) /\ phone[d].waits = Nobody
    BY WaitsForNobody DEF Dismiss
  <1>2. s \in Screen /\ ScreenOK(s) /\ s.waits = Nobody
    BY <1>1 DEF Screen, Screens, ScreenOK
  <1>3. phone' = [phone EXCEPT ![d] = s]
    BY <1>1 DEF Dismiss, IInv, TypeOK
  <1> QED
    BY <1>2, <1>3, OneScreen DEF Dismiss, IInv, TypeOK

\* The pay screen, opened afresh.
LEMMA FreshScreen ==
    ASSUME IInv, NEW d \in Devices,
           phone' = [phone EXCEPT ![d] = [at |-> "pay", payment |-> 0, order |-> 0, attempt |-> 0,
                                          waits |-> Nobody, key |-> phone[d].key]],
           UNCHANGED <<payments, provider, inbox, received, work, patient, history>>,
           faults' \in 0..MaxFaults
    PROVE  IInv'
  <1> DEFINE s == [at |-> "pay", payment |-> 0, order |-> 0, attempt |-> 0,
                   waits |-> Nobody, key |-> phone[d].key]
  <1>1. s \in Screen /\ ScreenOK(s) /\ s.waits = Nobody
    <2>1. phone[d].key \in 0..MaxKeys
      BY DEF IInv, TypeOK, Screen
    <2> QED
      BY <2>1, IdleIsTask DEF Screen, Screens, ScreenOK
  <1> QED
    BY <1>1, OneScreen

LEMMA FaultIsCounted ==
    ASSUME IInv, Fault
    PROVE  faults' \in 0..MaxFaults
  BY CheckoutAssumption DEF IInv, TypeOK, Fault

LEMMA ReopenKeeps ==
    ASSUME IInv, NEW d \in Devices, Reopen(d)
    PROVE  IInv'
  BY FreshScreen DEF Reopen, IInv, TypeOK

LEMMA KillKeeps ==
    ASSUME IInv, NEW d \in Devices, Kill(d)
    PROVE  IInv'
  BY FreshScreen, FaultIsCounted DEF Kill

\* What a waiting screen shows on an error.
LEMMA ErrorScreen ==
    ASSUME IInv, NEW d \in Devices, phone[d].waits # Nobody,
           NEW s, s = [OnError(phone[d]) EXCEPT !.waits = Nobody]
    PROVE  s \in Screen /\ ScreenOK(s) /\ s.waits = Nobody
  <1>1. phone[d] \in Screen /\ ScreenOK(phone[d]) /\ phone[d].at \in {"opening", "verifying"}
    BY DEF IInv, TypeOK, Linked, ScreensOK, WaitsOK, WaitOK
  <1>2. CASE phone[d].at = "opening"
    BY <1>1, <1>2 DEF OnError, Screen, Screens, ScreenOK
  <1>3. CASE phone[d].at = "verifying"
    BY <1>1, <1>3 DEF OnError, Screen, Screens, ScreenOK
  <1> QED
    BY <1>1, <1>2, <1>3

LEMMA LoseAnswerKeeps ==
    ASSUME IInv, NEW d \in Devices, LoseAnswer(d)
    PROVE  IInv'
  <1> DEFINE s == [OnError(phone[d]) EXCEPT !.waits = Nobody]
  <1>1. s \in Screen /\ ScreenOK(s) /\ s.waits = Nobody
    BY ErrorScreen DEF LoseAnswer
  <1>2. phone' = [phone EXCEPT ![d] = s]
    BY DEF LoseAnswer, IInv, TypeOK
  <1> QED
    BY <1>1, <1>2, OneScreen, FaultIsCounted DEF LoseAnswer

LEMMA PollKeeps ==
    ASSUME IInv, NEW d \in Devices, Poll(d)
    PROVE  IInv'
  <1>1. phone[d] \in Screen /\ ScreenOK(phone[d]) /\ phone[d].waits = Nobody
    BY WaitsForNobody DEF Poll
  <1>2. phone[d].payment \in PaymentIds
    BY <1>1, CheckoutAssumption DEF Poll, ScreenOK, Screen, PaymentIds
  <1>3. payments[phone[d].payment].status = "SUCCESS" => phone[d].payment \in granted
    BY <1>2 DEF IInv, Linked, RowsOK, RowOK
  <1>4. PICK at \in {"success", "failed", "gaveUp"} :
          /\ phone' = [phone EXCEPT ![d].at = at]
          /\ at = "success" => payments[phone[d].payment].status = "SUCCESS"
    BY DEF Poll, Paid
  <1> DEFINE s == [phone[d] EXCEPT !.at = at]
  <1>5. s \in Screen /\ ScreenOK(s) /\ s.waits = Nobody
    BY <1>1, <1>3, <1>4 DEF Screen, Screens, ScreenOK
  <1>6. phone' = [phone EXCEPT ![d] = s]
    BY <1>1, <1>4 DEF IInv, TypeOK
  <1> QED
    BY <1>5, <1>6, OneScreen DEF Poll, IInv, TypeOK

LEMMA TryToPayKeeps ==
    ASSUME IInv, NEW d \in Devices, NEW ok \in BOOLEAN, TryToPay(d, ok)
    PROVE  IInv'
  <1> DEFINE e(a) == [kind |-> IF ok THEN "captured" ELSE "failed", attempt |-> a,
                      amount |-> 0, back |-> 0]
  <1>1. PICK a \in AttemptIds :
          /\ attempts[a].order = 0
          /\ attempts' = [attempts EXCEPT ![a].order = phone[d].order, ![a].captured = ok]
          /\ inbox' = inbox \cup {e(a)}
          /\ phone' = IF ok THEN [phone EXCEPT ![d].at = "paid", ![d].attempt = a] ELSE phone
    BY DEF TryToPay
  <1>2. phone[d] \in Screen /\ ScreenOK(phone[d]) /\ phone[d].waits = Nobody /\ phone[d].at = "sheet"
    BY WaitsForNobody DEF TryToPay
  <1>3. phone[d].order \in OrderIds /\ orders[phone[d].order] # 0
    BY <1>2, CheckoutAssumption DEF ScreenOK, Screen, OrderIds
  <1>4. \A b \in AttemptIds :
          /\ attempts[b] \in Attempt
          /\ attempts'[b].order = IF b = a THEN phone[d].order ELSE attempts[b].order
          /\ attempts'[b].captured = IF b = a THEN ok ELSE attempts[b].captured
          /\ attempts'[b].back = attempts[b].back
    BY <1>1 DEF IInv, TypeOK, Attempt
  <1>5. attempts' \in [AttemptIds -> Attempt]
    <2>1. phone[d].order \in 0..MaxOrders
      BY <1>2 DEF Screen
    <2> QED
      BY <1>1, <2>1 DEF IInv, TypeOK, Attempt
  <1>6. e(a) \in Event
    BY <1>1, IdleIsTask DEF Event
  <1>7. phone' \in [Devices -> Screen] /\ \A x \in Devices :
          \/ phone'[x] = phone[x]
          \/ x = d /\ phone'[x] = [phone[d] EXCEPT !.at = "paid", !.attempt = a] /\ ok
    <2>1. a \in 0..MaxAttempts
      BY CheckoutAssumption DEF AttemptIds
    <2> QED
      BY <1>1, <1>2, <2>1 DEF IInv, TypeOK, Screen, Screens
  <1>8. TypeOK'
    BY <1>1, <1>5, <1>6, <1>7 DEF TryToPay, IInv, TypeOK, history
  <1>9. Grows /\ AttemptsOK'
    <2>1. \A b \in AttemptIds : attempts[b].back \in Nat
      BY <1>4, CheckoutAssumption DEF Attempt
    <2>2. orders' = orders /\ granted' = granted
      BY DEF TryToPay, history
    <2>3. \A b \in AttemptIds : attempts[b].order # 0 => b # a
      BY <1>1
    <2>4. Grows
      BY <1>4, <2>1, <2>2, <2>3 DEF Grows
    <2>5. \A b \in AttemptIds : AttemptOK(b)
      BY DEF IInv, Linked, AttemptsOK
    <2>6. phone[d].order # 0
      BY <1>3, CheckoutAssumption DEF OrderIds
    <2>7. AttemptsOK'
      BY <1>3, <1>4, <2>2, <2>5, <2>6 DEF AttemptsOK, AttemptOK
    <2> QED
      BY <2>4, <2>7
  <1>10. EventOK(e(a))'
    <2>1. attempts'[a].order # 0 /\ attempts'[a].captured = ok
      BY <1>3, <1>4, CheckoutAssumption DEF OrderIds
    <2>2. e(a).attempt = a /\ e(a).kind = IF ok THEN "captured" ELSE "failed"
      OBVIOUS
    <2> QED
      BY <2>1, <2>2 DEF EventOK
  <1>11. \A x \in Devices : phone'[x] = phone[x] \/ ScreenOK(phone[x])'
    <2> SUFFICES ASSUME phone'[d] = [phone[d] EXCEPT !.at = "paid", !.attempt = a], ok
                 PROVE  ScreenOK(phone[d])'
      BY <1>7
    <2>1. /\ phone'[d].at = "paid" /\ phone'[d].attempt = a
          /\ phone'[d].payment = phone[d].payment /\ phone'[d].order = phone[d].order
      BY <1>2 DEF Screen
    <2> QED
      <3>1. a # 0 /\ attempts'[a].captured = ok /\ attempts'[a].order = phone[d].order
        <4>1. a # 0
          BY CheckoutAssumption DEF AttemptIds
        <4> QED
          BY <1>4, <4>1
      <3>2. orders' = orders
        BY DEF TryToPay
      <3> QED
        BY <1>2, <2>1, <3>1, <3>2 DEF ScreenOK
  <1>12. WaitsOK'
    <2>1. {} \in SUBSET Workers /\ \A w \in Workers \ {} : work'[w] = work[w]
      BY DEF TryToPay
    <2>2. \A x \in Devices : phone'[x].waits = Nobody \/ (phone'[x] = phone[x] /\ phone[x].waits \notin {})
      BY <1>2, <1>7 DEF Screen
    <2> QED
      BY <2>1, <2>2, SameWaits
  <1>13. \A x \in inbox' : x \in inbox \/ EventOK(x)'
    BY <1>1, <1>10 DEF EventOK
  <1> QED
    BY <1>8, <1>9, <1>11, <1>12, <1>13, Spread DEF TryToPay

-----------------------------------------------------------------------------
(* The handlers *)

\* What one step of a handler has to show.
LEMMA Handled ==
    ASSUME IInv, TypeOK', Grows, AttemptsOK', NEW w \in Workers, NEW t \in Task,
           work' = [work EXCEPT ![w] = t], TaskOK(t)',
           \A p \in PaymentIds : payments'[p] = payments[p] \/ RowOK(p, payments[p])',
           \A e \in inbox' : e \in inbox \/ EventOK(e)',
           \A d \in Devices : \/ phone'[d] = phone[d] /\ (phone[d].waits = w => WaitOK(phone[d], t))
                              \/ phone'[d].waits = Nobody /\ ScreenOK(phone[d])'
    PROVE  IInv'
  <1>1. work' = [x \in Workers |-> IF x = w THEN t ELSE work[x]]
    BY DEF IInv, TypeOK
  <1>2. \A x \in Workers : work'[x] = work[x] \/ TaskOK(work[x])'
    BY <1>1 DEF TaskOK, Took, IsFor, EventOK, GivenBack
  <1>3. WaitsOK'
    <2>1. {w} \in SUBSET Workers /\ \A x \in Workers \ {w} : work'[x] = work[x]
      BY <1>1
    <2>2. \A d \in Devices : \/ phone'[d].waits = Nobody
                             \/ phone'[d] = phone[d] /\ phone[d].waits \notin {w}
                             \/ WaitOK(phone[d], work[phone[d].waits])'
      BY <1>1 DEF WaitOK
    <2> QED
      BY <2>1, <2>2, SameWaits
  <1> QED
    BY <1>2, <1>3, Spread

\* The handler's record: what it holds is of the right kind.
LEMMA TaskFields ==
    ASSUME IInv, NEW w \in Workers
    PROVE  /\ work[w] \in Task /\ TaskOK(work[w])
           /\ work[w].payment # 0 => work[w].payment \in PaymentIds
           /\ work[w].order # 0 => work[w].order \in OrderIds
           /\ work[w].attempt # 0 => work[w].attempt \in AttemptIds
  BY CheckoutAssumption DEF IInv, TypeOK, Task, Linked, TasksOK, PaymentIds, OrderIds, AttemptIds

\* Its request is new, and nobody waits for the answer.
LEMMA BeginKeeps ==
    ASSUME IInv, NEW w \in Workers, NEW t \in Task, TaskOK(t), Begin(w, t),
           received' \subseteq Event,
           UNCHANGED <<payments, provider, inbox, phone, faults, patient, history>>
    PROVE  IInv'
  <1>1. TypeOK'
    BY DEF IInv, TypeOK, provider, history, Begin
  <1>2. Grows /\ AttemptsOK'
    BY SameProvider DEF history
  <1>3. TaskOK(t)'
    BY <1>1, <1>2, GrowsTask DEF IInv, Linked
  <1>4. \A d \in Devices : phone[d].waits # w
    BY NobodyWaits DEF Begin, Idle
  <1>5. work' = [work EXCEPT ![w] = t]
    BY DEF Begin
  <1> QED
    BY <1>1, <1>2, <1>3, <1>4, <1>5, Handled

LEMMA BeginRefundKeeps ==
    ASSUME IInv, NEW w \in Workers, NEW p \in PaymentIds, NEW amount \in 1..Amount,
           BeginRefund(w, p, amount)
    PROVE  IInv'
  <1> DEFINE t == [Idle EXCEPT !.step = "giveBack", !.payment = p, !.amount = amount,
                               !.attempt = payments[p].attempt]
  <1>1. payments[p] \in Row /\ RowOK(p, payments[p]) /\ payments[p].status = "SUCCESS"
    BY DEF BeginRefund, IInv, TypeOK, Linked, RowsOK
  <1>2. p \in 0..MaxPayments /\ amount \in 0..Amount /\ amount > 0
    BY CheckoutAssumption DEF PaymentIds
  <1>3. payments[p].attempt \in 0..MaxAttempts
    BY <1>1 DEF Row
  <1>4. t \in Task
    BY <1>2, <1>3, IdleIsTask DEF Task, Steps
  <1>5. t.step = "giveBack" /\ t.payment = p /\ t.amount = amount /\ t.attempt = payments[p].attempt
    BY IdleIsTask DEF Task
  <1>6. TaskOK(t)
    BY <1>1, <1>2, <1>5 DEF TaskOK, RowOK
  <1> QED
    BY <1>4, <1>6, BeginKeeps DEF BeginRefund, IInv, TypeOK

LEMMA InboxShrinks ==
    ASSUME IInv, inbox' \subseteq inbox,
           UNCHANGED <<payments, provider, received, work, phone, faults, patient, history>>
    PROVE  IInv'
  <1>1. TypeOK'
    BY DEF IInv, TypeOK, provider, history
  <1>2. Grows /\ AttemptsOK'
    BY SameProvider DEF history
  <1>3. WaitsOK'
    BY DEF IInv, Linked, WaitsOK, WaitOK
  <1> QED
    BY <1>1, <1>2, <1>3, Spread

LEMMA DeliverKeeps ==
    ASSUME IInv, NEW w \in Workers, NEW e \in inbox, Deliver(w, e)
    PROVE  IInv'
  <1> DEFINE t == [Idle EXCEPT !.step = "apply", !.attempt = e.attempt, !.amount = e.amount,
                               !.event = e]
  <1>1. CASE e \in received
    BY <1>1, InboxShrinks DEF Deliver
  <1>2. CASE e \notin received
    <2>1. e \in Event /\ EventOK(e)
      BY DEF IInv, TypeOK, Linked, EventsOK
    <2>2. e.attempt \in 0..MaxAttempts /\ e.amount \in 0..Amount
      BY <2>1, CheckoutAssumption DEF Event, AttemptIds
    <2>3. t \in Task
      BY <2>1, <2>2, IdleIsTask DEF Task, Steps
    <2>4. t.step = "apply" /\ t.attempt = e.attempt /\ t.event = e
      BY IdleIsTask DEF Task
    <2>5. TaskOK(t)
      BY <2>1, <2>4 DEF TaskOK
    <2>6. Begin(w, t) /\ received' \subseteq Event
      BY <1>2, <2>1 DEF Deliver, IInv, TypeOK
    <2> QED
      BY <1>2, <2>3, <2>5, <2>6, BeginKeeps DEF Deliver
  <1> QED
    BY <1>1, <1>2

LEMMA VerifyKeeps ==
    ASSUME IInv, NEW d \in Devices, NEW w \in Workers, Verify(d, w)
    PROVE  IInv'
  <1>1. phone[d] \in Screen /\ ScreenOK(phone[d]) /\ phone[d].waits = Nobody /\ phone[d].at = "paid"
    BY WaitsForNobody DEF Verify
  <1>2. CASE payments[phone[d].payment].order = phone[d].order
    <2> DEFINE s == [phone[d] EXCEPT !.at = "verifying", !.waits = w]
               t == [Idle EXCEPT !.step = "activate", !.payment = phone[d].payment,
                                 !.attempt = phone[d].attempt]
    <2>1. s \in Screen /\ ScreenOK(s) /\ s.waits = w
      BY <1>1 DEF Screen, Screens, ScreenOK
    <2>2. t \in Task
      BY <1>1, IdleIsTask DEF Task, Steps, Screen
    <2>3. /\ t.step = "activate" /\ t.payment = phone[d].payment
          /\ t.attempt = phone[d].attempt /\ t.event = NoEvent
      BY IdleIsTask DEF Task, Idle
    <2>4. Took(phone[d].attempt, phone[d].payment)
      BY <1>1 DEF ScreenOK, Took, IsFor
    <2>5. TaskOK(t)
      BY <1>1, <2>3, <2>4 DEF TaskOK, ScreenOK
    <2>6. WaitOK(s, t)
      BY <1>1, <2>3 DEF WaitOK, Screen
    <2>7. phone' = [phone EXCEPT ![d] = s] /\ Begin(w, t)
      BY <1>1, <1>2 DEF Verify, IInv, TypeOK
    <2> QED
      BY <2>1, <2>2, <2>5, <2>6, <2>7, OneRequest DEF Verify
  <1>3. CASE payments[phone[d].payment].order # phone[d].order
    <2> DEFINE s == [phone[d] EXCEPT !.at = "confirming"]
    <2>1. s \in Screen /\ ScreenOK(s) /\ s.waits = Nobody
      BY <1>1 DEF Screen, Screens, ScreenOK
    <2>2. phone' = [phone EXCEPT ![d] = s]
      BY <1>1, <1>3 DEF Verify, IInv, TypeOK
    <2> QED
      BY <1>3, <2>1, <2>2, OneScreen DEF Verify, IInv, TypeOK
  <1> QED
    BY <1>2, <1>3

\* A handler returns, or dies, with an error for the screens that wait for it.
LEMMA ReturnsError ==
    ASSUME IInv, NEW w \in Workers, Tell(w, OnError), work' = [work EXCEPT ![w] = Idle],
           inbox' \subseteq inbox, faults' \in 0..MaxFaults,
           UNCHANGED <<payments, provider, received, patient, history>>
    PROVE  IInv'
  <1>1. \A d \in Devices :
          \/ phone'[d] = phone[d] /\ phone[d].waits # w
          \/ /\ phone[d].waits = w
             /\ phone'[d] \in Screen /\ ScreenOK(phone'[d]) /\ phone'[d].waits = Nobody
    <2> SUFFICES ASSUME NEW d \in Devices, phone[d].waits = w
                 PROVE  phone'[d] \in Screen /\ ScreenOK(phone'[d]) /\ phone'[d].waits = Nobody
      BY DEF Tell, Waiting
    <2>1. phone'[d] = [OnError(phone[d]) EXCEPT !.waits = Nobody]
      BY DEF Tell, Waiting
    <2>2. phone[d].waits # Nobody
      BY CheckoutAssumption
    <2> QED
      BY <2>1, <2>2, ErrorScreen
  <1>2. TypeOK'
    <2>1. phone' \in [Devices -> Screen]
      BY <1>1 DEF Tell, IInv, TypeOK
    <2> QED
      BY <2>1, IdleIsTask DEF IInv, TypeOK, provider, history
  <1>3. Grows /\ AttemptsOK'
    BY SameProvider DEF history
  <1>4. \A d \in Devices : \/ phone'[d] = phone[d] /\ (phone[d].waits = w => WaitOK(phone[d], Idle))
                           \/ phone'[d].waits = Nobody /\ ScreenOK(phone[d])'
    BY <1>1, <1>3, GrowsScreen DEF IInv, Linked, ScreenOK, provider, history
  <1>5. TaskOK(Idle)'
    BY <1>2, <1>3, IdleIsTask, GrowsTask DEF IInv, Linked
  <1> QED
    BY <1>2, <1>3, <1>4, <1>5, IdleIsTask, Handled

LEMMA InsertKeeps ==
    ASSUME IInv, NEW w \in Workers, Insert(w)
    PROVE  IInv'
  <1>1. CASE WithKey(work[w].key) # {}
    <2>1. Tell(w, OnError) /\ work' = [work EXCEPT ![w] = Idle] /\ inbox' \subseteq inbox
      BY <1>1 DEF Insert, Return
    <2> QED
      BY <1>1, <2>1, ReturnsError DEF Insert, IInv, TypeOK
  <1>2. CASE WithKey(work[w].key) = {}
    <2> DEFINE t(p) == [Idle EXCEPT !.step = "createOrder", !.payment = p]
    <2>1. PICK p \in PaymentIds :
            /\ payments[p].status = "NONE"
            /\ payments' = [payments EXCEPT ![p].status = "INITIATED", ![p].key = work[w].key]
            /\ work' = [work EXCEPT ![w] = t(p)]
      BY <1>2 DEF Insert
    <2>2. UNCHANGED <<provider, inbox, received, phone, faults, patient, history>>
      BY <1>2 DEF Insert
    <2>3. \A q \in PaymentIds :
            /\ payments'[q] \in Row
            /\ payments'[q] = payments[q] \/ /\ payments'[q].order = payments[q].order
                                             /\ payments'[q].attempt = payments[q].attempt
                                             /\ payments'[q].status # "SUCCESS"
      <3>1. work[w].key \in 0..MaxKeys
        BY TaskFields DEF Task
      <3>2. "INITIATED" \in Status
        BY DEF Status
      <3> QED
        BY <2>1, <3>1, <3>2 DEF IInv, TypeOK, Row
    <2>4. t(p) \in Task /\ t(p).step = "createOrder" /\ t(p).payment = p /\ p # 0
      <3>1. p \in 0..MaxPayments /\ p # 0
        BY CheckoutAssumption DEF PaymentIds
      <3>2. t(p) \in Task
        BY <3>1, IdleIsTask DEF Task, Steps
      <3>3. t(p).step = "createOrder" /\ t(p).payment = p
        BY IdleIsTask DEF Task
      <3> QED
        BY <3>1, <3>2, <3>3
    <2>5. TypeOK'
      BY <2>1, <2>2, <2>3, <2>4 DEF IInv, TypeOK, provider, history
    <2>6. Grows /\ AttemptsOK'
      BY <2>2, SameProvider DEF history
    <2>7. \A q \in PaymentIds : payments'[q] = payments[q] \/ RowOK(q, payments[q])'
      <3> SUFFICES ASSUME NEW q \in PaymentIds, payments'[q] # payments[q]
                   PROVE  RowOK(q, payments[q])'
        OBVIOUS
      <3>1. RowOK(q, payments[q])
        BY DEF IInv, Linked, RowsOK
      <3> QED
        BY <2>2, <2>3, <3>1 DEF RowOK, IsFor, provider, history
    <2>8. TaskOK(t(p))'
      BY <2>4 DEF TaskOK
    <2>9. \A d \in Devices : phone[d].waits = w => WaitOK(phone[d], t(p))
      BY <1>2, <2>4, WaitedFor DEF WaitOK, Insert, At
    <2> QED
      BY <2>1, <2>2, <2>4, <2>5, <2>6, <2>7, <2>8, <2>9, Handled
  <1> QED
    BY <1>1, <1>2

\* The handler goes on, with what it has read.
LEMMA GoesOn ==
    ASSUME IInv, NEW w \in Workers, NEW step \in Steps, Go(w, step)
    PROVE  \E t \in Task : /\ work' = [work EXCEPT ![w] = t]
                           /\ t.step = step
                           /\ t.payment = work[w].payment
                           /\ t.order = work[w].order
                           /\ t.attempt = work[w].attempt
                           /\ t.amount = work[w].amount
                           /\ t.event = work[w].event
  <1> DEFINE u == [work[w] EXCEPT !.step = step]
  <1>1. u \in Task
    BY TaskFields DEF Task
  <1>2. /\ u.step = step
        /\ u.payment = work[w].payment
        /\ u.order = work[w].order
        /\ u.attempt = work[w].attempt
        /\ u.amount = work[w].amount
        /\ u.event = work[w].event
    BY TaskFields DEF Task
  <1>3. work' = [work EXCEPT ![w] = u]
    BY TaskFields DEF Go, IInv, TypeOK
  <1> QED
    BY <1>1, <1>2, <1>3

\* The handler returns without an answer that anybody waits for.
LEMMA ReturnsQuietly ==
    ASSUME IInv, NEW w \in Workers, Return(w), TypeOK', Grows, AttemptsOK',
           \/ work[w].step \in {"apply", "fail", "giveBack", "checkRefund", "book"}
           \/ work[w].step = "activate" /\ work[w].event # NoEvent,
           \A p \in PaymentIds : payments'[p] = payments[p] \/ RowOK(p, payments[p])',
           UNCHANGED phone
    PROVE  IInv'
  <1>1. \A d \in Devices : phone[d].waits # w
    BY WaitedFor DEF WaitOK
  <1>2. TaskOK(Idle)'
    BY IdleIsTask, GrowsTask DEF IInv, Linked
  <1>3. inbox' \subseteq inbox /\ work' = [work EXCEPT ![w] = Idle]
    BY DEF Return
  <1> QED
    BY <1>1, <1>2, <1>3, IdleIsTask, Handled

LEMMA CreateOrderKeeps ==
    ASSUME IInv, NEW w \in Workers, CreateOrder(w)
    PROVE  IInv'
  <1>1. PICK o \in OrderIds :
          /\ orders[o] = 0
          /\ orders' = [orders EXCEPT ![o] = work[w].payment]
          /\ work' = [work EXCEPT ![w] = [work[w] EXCEPT !.step = "attach", !.order = o]]
    BY TaskFields DEF CreateOrder, IInv, TypeOK
  <1>2. /\ UNCHANGED <<payments, attempts, inbox, received, phone, faults, patient, history>>
        /\ work[w].step = "createOrder"
    BY DEF CreateOrder, At
  <1>3. work[w].payment \in PaymentIds /\ work[w].payment # 0
    BY <1>2, TaskFields DEF TaskOK
  <1>4. \A x \in OrderIds : orders'[x] = IF x = o THEN work[w].payment ELSE orders[x]
    BY <1>1 DEF IInv, TypeOK
  <1>5. PICK t \in Task :
          /\ work' = [work EXCEPT ![w] = t]
          /\ t.step = "attach" /\ t.order = o /\ t.payment = work[w].payment
    <2> DEFINE u == [work[w] EXCEPT !.step = "attach", !.order = o]
    <2>1. o \in 0..MaxOrders
      BY CheckoutAssumption DEF OrderIds
    <2>2. u \in Task
      BY <2>1, TaskFields DEF Task, Steps
    <2>3. u.step = "attach" /\ u.order = o /\ u.payment = work[w].payment
      BY TaskFields DEF Task
    <2> QED
      BY <1>1, <2>2, <2>3
  <1>6. TypeOK'
    <2>1. orders' \in [OrderIds -> 0..MaxPayments]
      <3>1. work[w].payment \in 0..MaxPayments
        BY TaskFields DEF Task
      <3> QED
        BY <1>1, <3>1 DEF IInv, TypeOK
    <2> QED
      BY <1>1, <1>2, <1>5, <2>1 DEF IInv, TypeOK, history
  <1>7. Grows
    <2>1. \A a \in AttemptIds : attempts[a].back \in Nat
      BY CheckoutAssumption DEF IInv, TypeOK, Attempt
    <2> QED
      BY <1>1, <1>2, <1>4, <2>1 DEF Grows, history
  <1>8. AttemptsOK'
    <2> SUFFICES ASSUME NEW a \in AttemptIds
                 PROVE  AttemptOK(a)'
      BY DEF AttemptsOK
    <2>1. AttemptOK(a) /\ attempts[a].order \in 0..MaxOrders
      BY DEF IInv, Linked, AttemptsOK, TypeOK, Attempt
    <2>2. attempts[a].order # 0 => attempts[a].order \in OrderIds
      BY <2>1, CheckoutAssumption DEF OrderIds
    <2> QED
      BY <1>2, <1>3, <1>4, <2>1, <2>2 DEF AttemptOK
  <1>9. TaskOK(t)'
    <2>1. o # 0
      BY CheckoutAssumption DEF OrderIds
    <2>2. orders'[o] = work[w].payment
      BY <1>4
    <2> QED
      BY <1>3, <1>5, <2>1, <2>2 DEF TaskOK
  <1>10. \A d \in Devices : phone[d].waits = w => WaitOK(phone[d], t)
    BY <1>2, <1>5, WaitedFor DEF WaitOK
  <1> QED
    BY <1>1, <1>2, <1>5, <1>6, <1>7, <1>8, <1>9, <1>10, Handled

LEMMA AttachKeeps ==
    ASSUME IInv, NEW w \in Workers, Attach(w)
    PROVE  IInv'
  <1>1. /\ payments' = [payments EXCEPT ![work[w].payment].order = work[w].order,
                                        ![work[w].payment].status = "PENDING"]
        /\ work' = [work EXCEPT ![w] = Idle]
        /\ inbox' \subseteq inbox
        /\ UNCHANGED <<provider, received, faults, patient, history>>
        /\ work[w].step = "attach"
    BY DEF Attach, Return, At
  <1>2. /\ work[w].payment \in PaymentIds /\ work[w].order \in OrderIds
        /\ work[w].payment # 0 /\ work[w].order # 0
        /\ orders[work[w].order] = work[w].payment
    BY <1>1, TaskFields DEF TaskOK
  <1>3. /\ work[w].order \in 0..MaxOrders
        /\ work[w].payment \in 0..MaxPayments
    BY TaskFields DEF Task
  <1>4. \A p \in PaymentIds :
          /\ payments'[p] \in Row
          /\ payments'[p] = payments[p] \/ /\ p = work[w].payment
                                           /\ payments'[p].order = work[w].order
                                           /\ payments'[p].attempt = payments[p].attempt
                                           /\ payments'[p].status = "PENDING"
    BY <1>1, <1>3 DEF IInv, TypeOK, Row, Status
  <1>5. \A d \in Devices :
          \/ phone'[d] = phone[d] /\ phone[d].waits # w
          \/ phone'[d] \in Screen /\ ScreenOK(phone'[d]) /\ phone'[d].waits = Nobody
    <2> SUFFICES ASSUME NEW d \in Devices, phone[d].waits = w
                 PROVE  phone'[d] \in Screen /\ ScreenOK(phone'[d]) /\ phone'[d].waits = Nobody
      BY DEF Attach, Tell, Waiting
    <2> DEFINE s == [[phone[d] EXCEPT !.at = "sheet", !.payment = work[w].payment,
                                      !.order = work[w].order] EXCEPT !.waits = Nobody]
    <2>1. phone'[d] = s
      BY DEF Attach, Tell, Waiting
    <2>2. phone[d] \in Screen
      BY DEF IInv, TypeOK
    <2>3. s \in Screen
      BY <1>3, <2>2 DEF Screen, Screens
    <2>4. s.at = "sheet" /\ s.payment = work[w].payment /\ s.order = work[w].order /\ s.waits = Nobody
      BY <2>2 DEF Screen
    <2> QED
      BY <1>2, <2>1, <2>3, <2>4 DEF ScreenOK
  <1>6. TypeOK'
    <2>1. payments' \in [PaymentIds -> Row]
      BY <1>1, <1>4 DEF IInv, TypeOK
    <2>2. phone' \in [Devices -> Screen]
      BY <1>5 DEF Attach, Tell, IInv, TypeOK
    <2> QED
      BY <1>1, <2>1, <2>2, IdleIsTask DEF IInv, TypeOK, provider, history
  <1>7. Grows /\ AttemptsOK'
    BY <1>1, SameProvider DEF history
  <1>8. \A p \in PaymentIds : payments'[p] = payments[p] \/ RowOK(p, payments[p])'
    <2> SUFFICES ASSUME NEW p \in PaymentIds, payments'[p] # payments[p]
                 PROVE  RowOK(p, payments[p])'
      OBVIOUS
    <2>1. RowOK(p, payments[p])
      BY DEF IInv, Linked, RowsOK
    <2> QED
      BY <1>1, <1>2, <1>4, <2>1 DEF RowOK, IsFor, provider, history
  <1>9. \A d \in Devices : \/ phone'[d] = phone[d] /\ (phone[d].waits = w => WaitOK(phone[d], Idle))
                           \/ phone'[d].waits = Nobody /\ ScreenOK(phone[d])'
    BY <1>5, <1>7, GrowsScreen DEF IInv, Linked, ScreenOK
  <1>10. TaskOK(Idle)'
    BY <1>6, <1>7, IdleIsTask, GrowsTask DEF IInv, Linked
  <1> QED
    BY <1>1, <1>6, <1>7, <1>8, <1>9, <1>10, IdleIsTask, Handled

LEMMA ActivateKeeps ==
    ASSUME IInv, NEW w \in Workers, Activate(w)
    PROVE  IInv'
  <1>1. /\ work[w].step = "activate"
        /\ UNCHANGED <<provider, received, phone, faults, patient, reversed>>
        /\ inbox' \subseteq inbox
    BY DEF Activate, At, Return
  <1>2. /\ work[w].payment \in PaymentIds /\ work[w].payment # 0
        /\ work[w].attempt \in AttemptIds
        /\ work[w].attempt \in 0..MaxAttempts
        /\ Took(work[w].attempt, work[w].payment)
    BY <1>1, TaskFields DEF TaskOK, Took, Task
  <1>3. /\ \A p \in PaymentIds :
             /\ payments'[p] \in Row
             /\ payments'[p] = payments[p] \/ /\ p = work[w].payment
                                              /\ p \in granted'
                                              /\ payments'[p].order = payments[p].order
                                              /\ payments'[p].attempt = work[w].attempt
        /\ payments' \in [PaymentIds -> Row]
        /\ granted \subseteq granted' /\ granted' \subseteq PaymentIds
    <2>1. CASE payments[work[w].payment].status \in Settled
      BY <2>1 DEF Activate, IInv, TypeOK
    <2>2. CASE payments[work[w].payment].status \notin Settled
      <3>1. /\ payments' = [payments EXCEPT ![work[w].payment].status = "SUCCESS",
                                            ![work[w].payment].attempt = work[w].attempt]
            /\ granted' = granted \cup {work[w].payment}
        BY <2>2 DEF Activate
      <3> QED
        BY <1>2, <3>1 DEF IInv, TypeOK, Row, Status
    <2> QED
      BY <2>1, <2>2
  <1>4. Grows /\ AttemptsOK'
    BY <1>1, <1>3, SameProvider
  <1>5. \A p \in PaymentIds : payments'[p] = payments[p] \/ RowOK(p, payments[p])'
    <2> SUFFICES ASSUME NEW p \in PaymentIds, payments'[p] # payments[p]
                 PROVE  RowOK(p, payments[p])'
      OBVIOUS
    <2>1. RowOK(p, payments[p])
      BY DEF IInv, Linked, RowsOK
    <2>2. PICK a \in AttemptIds : a = work[w].attempt
      BY <1>2
    <2>3. /\ p = work[w].payment /\ p \in granted' /\ a # 0
          /\ payments'[p].order = payments[p].order /\ payments'[p].attempt = a
      BY <1>2, <1>3, <2>2 DEF Took
    <2>4. IsFor(a, p)' /\ attempts'[a].captured
      BY <1>1, <1>2, <2>2, <2>3 DEF Took, IsFor, provider
    <2>5. attempts'[a].order # 0 /\ orders' = orders
      BY <1>1, <2>4 DEF IsFor, provider
    <2> QED
      BY <2>1, <2>3, <2>4, <2>5 DEF RowOK, Took, IsFor
  <1>6. CASE work[w].event = NoEvent
    <2>1. Go(w, "answer") /\ inbox' = inbox
      BY <1>6 DEF Activate
    <2>2. PICK t \in Task : /\ work' = [work EXCEPT ![w] = t]
                            /\ t.step = "answer"
                            /\ t.payment = work[w].payment
                            /\ t.event = work[w].event
      BY <2>1, GoesOn DEF Steps
    <2>3. TypeOK'
      BY <1>1, <1>3, <2>1, <2>2 DEF IInv, TypeOK, provider
    <2>4. TaskOK(t)'
      BY <1>2, <2>2 DEF TaskOK
    <2>5. \A d \in Devices : phone[d].waits = w => WaitOK(phone[d], t)
      BY <1>1, <2>2, WaitedFor DEF WaitOK
    <2> QED
      BY <1>1, <1>4, <1>5, <2>1, <2>2, <2>3, <2>4, <2>5, Handled
  <1>7. CASE work[w].event # NoEvent
    <2>1. Return(w)
      BY <1>7 DEF Activate
    <2>2. TypeOK'
      BY <1>1, <1>3, <2>1, IdleIsTask DEF IInv, TypeOK, provider, Return
    <2> QED
      BY <1>1, <1>4, <1>5, <1>7, <2>1, <2>2, ReturnsQuietly
  <1> QED
    BY <1>6, <1>7

LEMMA AnswerKeeps ==
    ASSUME IInv, NEW w \in Workers, Answer(w)
    PROVE  IInv'
  <1>1. /\ work' = [work EXCEPT ![w] = Idle]
        /\ inbox' \subseteq inbox
        /\ UNCHANGED <<payments, provider, received, faults, patient, history>>
        /\ work[w].step = "answer"
    BY DEF Answer, Return, At
  <1>2. work[w].payment \in PaymentIds
    BY <1>1, TaskFields DEF TaskOK
  <1>3. payments[work[w].payment].status = "SUCCESS" => work[w].payment \in granted
    BY <1>2 DEF IInv, Linked, RowsOK, RowOK
  <1>4. \A d \in Devices :
          \/ phone'[d] = phone[d] /\ phone[d].waits # w
          \/ phone'[d] \in Screen /\ ScreenOK(phone'[d]) /\ phone'[d].waits = Nobody
    <2> SUFFICES ASSUME NEW d \in Devices, phone[d].waits = w
                 PROVE  phone'[d] \in Screen /\ ScreenOK(phone'[d]) /\ phone'[d].waits = Nobody
      BY DEF Answer, Tell, Waiting
    <2>1. phone[d] \in Screen /\ ScreenOK(phone[d]) /\ phone[d].payment = work[w].payment
      BY <1>1, WaitedFor DEF IInv, TypeOK, Linked, ScreensOK, WaitOK
    <2>2. CASE payments[work[w].payment].status = "SUCCESS"
      <3> DEFINE s == [[phone[d] EXCEPT !.at = "success", !.key = 0] EXCEPT !.waits = Nobody]
      <3>1. phone'[d] = s
        BY <2>2 DEF Answer, Tell, Waiting
      <3>2. s \in Screen
        BY <2>1, IdleIsTask DEF Screen, Screens
      <3>3. /\ s.at = "success" /\ s.payment = phone[d].payment
            /\ s.order = phone[d].order /\ s.waits = Nobody
        BY <2>1 DEF Screen
      <3> QED
        BY <1>3, <2>1, <2>2, <3>1, <3>2, <3>3 DEF ScreenOK
    <2>3. CASE payments[work[w].payment].status # "SUCCESS"
      <3> DEFINE s == [[phone[d] EXCEPT !.at = "failed"] EXCEPT !.waits = Nobody]
      <3>1. phone'[d] = s
        BY <2>3 DEF Answer, Tell, Waiting
      <3>2. s \in Screen
        BY <2>1 DEF Screen, Screens
      <3>3. /\ s.at = "failed" /\ s.payment = phone[d].payment
            /\ s.order = phone[d].order /\ s.waits = Nobody
        BY <2>1 DEF Screen
      <3> QED
        BY <2>1, <3>1, <3>2, <3>3 DEF ScreenOK
    <2> QED
      BY <2>2, <2>3
  <1>5. TypeOK'
    <2>1. phone' \in [Devices -> Screen]
      BY <1>4 DEF Answer, Tell, IInv, TypeOK
    <2> QED
      BY <1>1, <2>1, IdleIsTask DEF IInv, TypeOK, provider, history
  <1>6. Grows /\ AttemptsOK'
    BY <1>1, SameProvider DEF history
  <1>7. \A d \in Devices : \/ phone'[d] = phone[d] /\ (phone[d].waits = w => WaitOK(phone[d], Idle))
                           \/ phone'[d].waits = Nobody /\ ScreenOK(phone[d])'
    BY <1>4, <1>6, GrowsScreen DEF IInv, Linked, ScreenOK
  <1>8. TaskOK(Idle)'
    BY <1>5, <1>6, IdleIsTask, GrowsTask DEF IInv, Linked
  <1> QED
    BY <1>1, <1>5, <1>6, <1>7, <1>8, IdleIsTask, Handled

LEMMA ApplyKeeps ==
    ASSUME IInv, NEW w \in Workers, Apply(w)
    PROVE  IInv'
  <1> DEFINE e == work[w].event
  <1>1. /\ UNCHANGED <<payments, provider, received, phone, faults, patient, history>>
        /\ work[w].step = "apply"
    BY DEF Apply, At
  <1>2. e \in Event /\ EventOK(e) /\ work[w].attempt = e.attempt /\ e.attempt \in AttemptIds
    BY <1>1, TaskFields DEF TaskOK, Event
  <1>3. Grows /\ AttemptsOK'
    BY <1>1, SameProvider DEF history
  <1>4. CASE Return(w)
    <2>1. TypeOK'
      BY <1>1, <1>4, IdleIsTask DEF IInv, TypeOK, provider, history, Return
    <2> QED
      BY <1>1, <1>3, <1>4, <2>1, ReturnsQuietly
  <1>5. ASSUME NEW p \in Named(e),
               work' = [work EXCEPT ![w].step = NextStep(e), ![w].payment = p],
               inbox' = inbox
        PROVE  IInv'
    <2>1. p \in PaymentIds /\ p # 0 /\ p \in 0..MaxPayments
      BY <1>5, CheckoutAssumption DEF Named, PaymentIds
    <2>2. /\ e.kind \in {"captured", "failed", "refund"}
          /\ NextStep(e) \in Steps
          /\ NextStep(e) = "activate" <=> e.kind = "captured"
          /\ NextStep(e) = "fail" <=> e.kind = "failed"
          /\ NextStep(e) = "checkRefund" <=> e.kind = "refund"
      BY <1>2 DEF Event, NextStep, Steps
    <2>3. PICK t \in Task : /\ work' = [work EXCEPT ![w] = t]
                            /\ t.step = NextStep(e) /\ t.payment = p
                            /\ t.attempt = e.attempt
      <3> DEFINE u == [work[w] EXCEPT !.step = NextStep(e), !.payment = p]
      <3>1. u \in Task
        BY <2>1, <2>2, TaskFields DEF Task
      <3>2. u.step = NextStep(e) /\ u.payment = p /\ u.attempt = work[w].attempt
        BY TaskFields DEF Task
      <3>3. work' = [work EXCEPT ![w] = u]
        BY <1>5, TaskFields DEF IInv, TypeOK
      <3> QED
        BY <1>2, <3>1, <3>2, <3>3
    <2>4. TypeOK'
      BY <1>1, <1>5, <2>3 DEF IInv, TypeOK, provider, history
    <2>5. RowOK(p, payments[p])
      BY <2>1 DEF IInv, Linked, RowsOK
    <2>6. e.kind = "captured" => Took(e.attempt, p)
      BY <1>2, <1>5, <2>5, CheckoutAssumption DEF Named, EventOK, RowOK, Took, IsFor, AttemptIds
    <2>7. e.kind = "refund" => p \in granted \cap GivenBack
      BY <1>2, <1>5, <2>1, <2>5, CheckoutAssumption
         DEF Named, EventOK, RowOK, GivenBack, AttemptIds
    <2>8. e.attempt # 0
      BY <1>2, CheckoutAssumption DEF AttemptIds
    <2>9. TaskOK(t)
      BY <1>2, <2>1, <2>2, <2>3, <2>6, <2>7, <2>8 DEF TaskOK, EventOK
    <2>10. TaskOK(t)'
      BY <1>3, <2>4, <2>9, GrowsTask DEF IInv, Linked
    <2>11. \A d \in Devices : phone[d].waits # w
      BY <1>1, NobodyWaits
    <2> QED
      BY <1>1, <1>3, <1>5, <2>3, <2>4, <2>10, <2>11, Handled
  <1> QED
    BY <1>4, <1>5 DEF Apply

LEMMA FailKeeps ==
    ASSUME IInv, NEW w \in Workers, Fail(w)
    PROVE  IInv'
  <1>1. /\ payments' = [payments EXCEPT ![work[w].payment].status = "FAILED",
                                        ![work[w].payment].attempt = work[w].attempt]
        /\ Return(w)
        /\ UNCHANGED <<provider, received, phone, faults, patient, history>>
        /\ work[w].step = "fail"
    BY DEF Fail, At
  <1>2. PICK a \in AttemptIds : a = work[w].attempt /\ a # 0 /\ a \in 0..MaxAttempts
    BY <1>1, TaskFields DEF TaskOK, Task
  <1>3. attempts[a].order # 0 /\ ~attempts[a].captured
    BY <1>1, <1>2, TaskFields DEF TaskOK
  <1>4. /\ \A p \in PaymentIds :
             payments'[p] = payments[p] \/ /\ payments'[p].order = payments[p].order
                                           /\ payments'[p].attempt = a
                                           /\ payments'[p].status = "FAILED"
        /\ payments' \in [PaymentIds -> Row]
    <2>1. work[w].payment \in PaymentIds
      BY <1>1, TaskFields DEF TaskOK
    <2>2. payments' = [payments EXCEPT ![work[w].payment].status = "FAILED",
                                       ![work[w].payment].attempt = a]
      BY <1>1, <1>2
    <2> QED
      BY <1>2, <2>1, <2>2 DEF IInv, TypeOK, Row, Status
  <1>5. TypeOK'
    BY <1>1, <1>4, IdleIsTask DEF IInv, TypeOK, provider, history, Return
  <1>6. Grows /\ AttemptsOK'
    BY <1>1, SameProvider DEF history
  <1>7. \A p \in PaymentIds : payments'[p] = payments[p] \/ RowOK(p, payments[p])'
    <2> SUFFICES ASSUME NEW p \in PaymentIds, payments'[p] # payments[p]
                 PROVE  RowOK(p, payments[p])'
      OBVIOUS
    <2>1. RowOK(p, payments[p])
      BY DEF IInv, Linked, RowsOK
    <2>2. attempts' = attempts /\ orders' = orders
      BY <1>1 DEF provider
    <2> QED
      BY <1>3, <1>4, <2>1, <2>2 DEF RowOK
  <1> QED
    BY <1>1, <1>5, <1>6, <1>7, ReturnsQuietly

LEMMA GiveBackKeeps ==
    ASSUME IInv, NEW w \in Workers, GiveBack(w)
    PROVE  IInv'
  <1> USE DEF At
  <1>1. /\ UNCHANGED <<payments, orders, received, phone, faults, patient, history>>
        /\ work[w].step = "giveBack"
    BY DEF GiveBack
  <1>2. CASE Return(w) /\ UNCHANGED attempts
    <2>1. TypeOK'
      BY <1>1, <1>2, IdleIsTask DEF IInv, TypeOK, history, Return
    <2>2. Grows /\ AttemptsOK'
      BY <1>1, <1>2, SameProvider DEF history, provider
    <2> QED
      BY <1>1, <1>2, <2>1, <2>2, ReturnsQuietly
  <1>3. CASE attempts[work[w].attempt].back + work[w].amount <= Amount
    <2>1. PICK a \in AttemptIds, m \in 0..Amount :
            /\ a = work[w].attempt /\ a # 0 /\ m = work[w].amount /\ m > 0
            /\ Took(a, work[w].payment) /\ work[w].payment \in granted
            /\ attempts[a].back \in 0..Amount /\ attempts[a] \in Attempt
      BY <1>1, TaskFields DEF TaskOK, Took, Task, IInv, TypeOK, Attempt
    <2> DEFINE e == [kind |-> "refund", attempt |-> a, amount |-> m, back |-> attempts[a].back + m]
    <2>2. /\ attempts' = [attempts EXCEPT ![a].back = attempts[a].back + m]
          /\ inbox' = inbox \cup {e}
          /\ Go(w, "checkRefund")
      BY <1>3, <2>1 DEF GiveBack, IInv, TypeOK
    <2>3. attempts[a].back + m \in 0..Amount /\ attempts[a].back + m > 0
      BY <1>3, <2>1, CheckoutAssumption
    <2>4. /\ attempts' \in [AttemptIds -> Attempt]
          /\ \A b \in AttemptIds :
               /\ attempts'[b].order = attempts[b].order
               /\ attempts'[b].captured = attempts[b].captured
               /\ attempts'[b].back = IF b = a THEN attempts[a].back + m ELSE attempts[b].back
      BY <2>1, <2>2, <2>3 DEF IInv, TypeOK, Attempt
    <2>5. PICK t \in Task : /\ work' = [work EXCEPT ![w] = t]
                            /\ t.step = "checkRefund"
                            /\ t.payment = work[w].payment
      BY <2>2, GoesOn DEF Steps
    <2>6. TypeOK'
      <3>1. e \in Event
        BY <2>1, <2>3 DEF Event
      <3> QED
        BY <1>1, <2>2, <2>4, <2>5, <3>1 DEF IInv, TypeOK, history
    <2>7. Grows
      <3>1. \A b \in AttemptIds : attempts[b].back \in Nat
        BY CheckoutAssumption DEF IInv, TypeOK, Attempt
      <3>2. \A b \in AttemptIds : attempts'[b].back >= attempts[b].back
        BY <2>1, <2>4, <3>1, CheckoutAssumption
      <3> QED
        BY <1>1, <2>4, <3>2 DEF Grows, history
    <2>8. AttemptsOK'
      <3>1. attempts[a].order # 0
        BY <2>1 DEF Took, IsFor
      <3> QED
        BY <1>1, <2>4, <3>1 DEF IInv, Linked, AttemptsOK, AttemptOK
    <2>9. work[w].payment \in GivenBack'
      <3>1. work[w].payment \in PaymentIds
        BY <2>1 DEF IInv, TypeOK
      <3>2. attempts'[a].back > 0 /\ attempts'[a].order = attempts[a].order /\ orders' = orders
        BY <1>1, <2>3, <2>4
      <3> QED
        BY <2>1, <3>1, <3>2 DEF GivenBack, Took, IsFor
    <2>10. TaskOK(t)'
      BY <1>1, <2>1, <2>5, <2>9 DEF TaskOK, history
    <2>11. \A x \in inbox' : x \in inbox \/ EventOK(x)'
      <3> SUFFICES ASSUME NEW x, x = e
                   PROVE  EventOK(x)'
        BY <2>2
      <3>1. x.attempt = a /\ x.kind = "refund"
        OBVIOUS
      <3>2. attempts'[a].order # 0 /\ attempts'[a].captured /\ attempts'[a].back > 0
        BY <2>1, <2>3, <2>4 DEF Took, IsFor
      <3> QED
        BY <3>1, <3>2 DEF EventOK
    <2>12. \A d \in Devices : phone[d].waits # w
      BY <1>1, NobodyWaits
    <2> QED
      BY <1>1, <2>5, <2>6, <2>7, <2>8, <2>10, <2>11, <2>12, Handled
  <1> QED
    BY <1>2, <1>3 DEF GiveBack

LEMMA CheckRefundKeeps ==
    ASSUME IInv, NEW w \in Workers, CheckRefund(w)
    PROVE  IInv'
  <1>1. /\ UNCHANGED <<payments, provider, received, phone, faults, patient, history>>
        /\ work[w].step = "checkRefund"
    BY DEF CheckRefund, At
  <1>2. Grows /\ AttemptsOK'
    BY <1>1, SameProvider DEF history
  <1>3. CASE Return(w)
    <2>1. TypeOK'
      BY <1>1, <1>3, IdleIsTask DEF IInv, TypeOK, provider, history, Return
    <2> QED
      BY <1>1, <1>2, <1>3, <2>1, ReturnsQuietly
  <1>4. CASE Go(w, "book") /\ UNCHANGED inbox
    <2>1. PICK t \in Task : /\ work' = [work EXCEPT ![w] = t]
                            /\ t.step = "book"
                            /\ t.payment = work[w].payment
      BY <1>4, GoesOn DEF Steps
    <2>2. TypeOK'
      BY <1>1, <1>4, <2>1 DEF IInv, TypeOK, provider, history
    <2>3. TaskOK(t)
      BY <1>1, <2>1, TaskFields DEF TaskOK
    <2>4. TaskOK(t)'
      BY <1>2, <2>2, <2>3, GrowsTask DEF IInv, Linked
    <2>5. \A d \in Devices : phone[d].waits # w
      BY <1>1, NobodyWaits
    <2> QED
      BY <1>1, <1>2, <1>4, <2>1, <2>2, <2>4, <2>5, Handled
  <1> QED
    BY <1>3, <1>4 DEF CheckRefund

LEMMA BookKeeps ==
    ASSUME IInv, NEW w \in Workers, Book(w)
    PROVE  IInv'
  <1>1. /\ payments' = [payments EXCEPT ![work[w].payment].status = "REFUNDED",
                                        ![work[w].payment].refunded = work[w].amount]
        /\ reversed' = reversed \cup {work[w].payment}
        /\ Return(w)
        /\ UNCHANGED <<provider, received, phone, faults, patient, granted>>
        /\ work[w].step = "book"
    BY DEF Book, At
  <1>2. work[w].payment \in PaymentIds /\ work[w].amount \in 0..Amount
    BY <1>1, TaskFields DEF TaskOK, Task, IInv, TypeOK
  <1>3. /\ \A p \in PaymentIds :
             payments'[p] = payments[p] \/ /\ payments'[p].order = payments[p].order
                                           /\ payments'[p].attempt = payments[p].attempt
                                           /\ payments'[p].status = "REFUNDED"
        /\ payments' \in [PaymentIds -> Row]
    BY <1>1, <1>2 DEF IInv, TypeOK, Row, Status
  <1>4. TypeOK'
    BY <1>1, <1>2, <1>3, IdleIsTask DEF IInv, TypeOK, provider, Return
  <1>5. Grows /\ AttemptsOK'
    BY <1>1, SameProvider
  <1>6. \A p \in PaymentIds : payments'[p] = payments[p] \/ RowOK(p, payments[p])'
    <2> SUFFICES ASSUME NEW p \in PaymentIds, payments'[p] # payments[p]
                 PROVE  RowOK(p, payments[p])'
      OBVIOUS
    <2>1. RowOK(p, payments[p])
      BY DEF IInv, Linked, RowsOK
    <2> QED
      BY <1>1, <1>3, <2>1 DEF RowOK, IsFor, provider
  <1> QED
    BY <1>1, <1>4, <1>5, <1>6, ReturnsQuietly

LEMMA DieKeeps ==
    ASSUME IInv, NEW w \in Workers, Die(w)
    PROVE  IInv'
  BY FaultIsCounted, ReturnsError DEF Die

-----------------------------------------------------------------------------
(* The invariant *)

LEMMA InitOK ==
    ASSUME Init
    PROVE  IInv
  <1>1. TypeOK
    <2>1. payments \in [PaymentIds -> Row]
      BY IdleIsTask DEF Init, Row, Status
    <2>2. orders \in [OrderIds -> 0..MaxPayments] /\ attempts \in [AttemptIds -> Attempt]
      BY IdleIsTask DEF Init, Attempt
    <2>3. phone \in [Devices -> Screen]
      BY IdleIsTask DEF Init, Screen, Screens
    <2>4. faults \in 0..MaxFaults /\ patient \in BOOLEAN
      BY CheckoutAssumption DEF Init
    <2> QED
      BY <2>1, <2>2, <2>3, <2>4, IdleIsTask DEF Init, TypeOK
  <1>2. RowsOK /\ AttemptsOK
    BY DEF Init, RowsOK, RowOK, AttemptsOK, AttemptOK
  <1>3. EventsOK /\ TasksOK
    BY IdleIsTask DEF Init, EventsOK, TasksOK
  <1>4. ScreensOK /\ WaitsOK
    BY DEF Init, ScreensOK, ScreenOK, WaitsOK
  <1> QED
    BY <1>1, <1>2, <1>3, <1>4 DEF IInv, Linked

LEMMA StepKeeps ==
    ASSUME IInv, NEW w \in Workers, Step(w)
    PROVE  IInv'
  BY InsertKeeps, CreateOrderKeeps, AttachKeeps, ActivateKeeps, AnswerKeeps, ApplyKeeps,
     FailKeeps, GiveBackKeeps, CheckRefundKeeps, BookKeeps DEF Step

LEMMA PersonKeeps ==
    ASSUME IInv, NEW d \in Devices, Person(d)
    PROVE  IInv'
  BY PayAgainKeeps, PressPaidKeeps, PressReadyKeeps, PressUnfinishedKeeps, PressNewKeeps,
     TryToPayKeeps, DismissKeeps, ReopenKeeps DEF Person

LEMMA StutterKeeps ==
    ASSUME IInv, UNCHANGED vars
    PROVE  IInv'
  BY InboxShrinks DEF vars, provider, history

LEMMA NextKeeps ==
    ASSUME IInv, [Next]_vars
    PROVE  IInv'
  <1>1. ASSUME NEW w \in Workers, Step(w) \/ Die(w)
        PROVE  IInv'
    BY <1>1, StepKeeps, DieKeeps
  <1>2. ASSUME NEW w \in Workers, NEW e \in inbox, Deliver(w, e)
        PROVE  IInv'
    BY <1>2, DeliverKeeps
  <1>3. ASSUME NEW w \in Workers, NEW p \in PaymentIds, NEW amount \in 1..Amount,
               BeginRefund(w, p, amount)
        PROVE  IInv'
    BY <1>3, BeginRefundKeeps
  <1>4. ASSUME NEW d \in Devices, Person(d) \/ Relay(d) \/ Poll(d) \/ LoseAnswer(d) \/ Kill(d)
        PROVE  IInv'
    BY <1>4, PersonKeeps, VerifyKeeps, PollKeeps, LoseAnswerKeeps, KillKeeps DEF Relay
  <1> QED
    BY <1>1, <1>2, <1>3, <1>4, StutterKeeps DEF Next

\* Types hold, and rows, events, handlers and screens fit together, in every state the
\* checkout can reach.
THEOREM Invariant == Spec => []IInv
  BY InitOK, NextKeeps, PTL DEF Spec

\* TypeOK holds: every row, event, handler and screen of the checkout is well formed.
THEOREM TypeCorrect == Spec => []TypeOK
  BY Invariant, PTL DEF IInv

\* The success screen speaks of a granted payment, whatever verify(), the webhook and the
\* person's taps did before.
THEOREM SuccessMeansGranted == Spec => []SuccessIsGranted
  <1>1. IInv => SuccessIsGranted
    BY DEF IInv, Linked, ScreensOK, ScreenOK, SuccessIsGranted
  <1> QED
    BY <1>1, Invariant, PTL

-----------------------------------------------------------------------------
(* The refinement: every step of the checkout is a step of the ledger, or none. *)

LEMMA SameBooks ==
    ASSUME UNCHANGED <<attempts, orders, granted, reversed>>
    PROVE  UNCHANGED Books!books
  BY DEF Books!books, Charged, GivenBack, IsFor

LEMMA CreateOrderIsNoEntry ==
    ASSUME IInv, NEW w \in Workers, CreateOrder(w)
    PROVE  UNCHANGED Books!books
  <1>1. PICK o \in OrderIds : orders[o] = 0 /\ orders' = [orders EXCEPT ![o] = work[w].payment]
    BY DEF CreateOrder
  <1>2. UNCHANGED <<attempts, granted, reversed>>
    BY DEF CreateOrder, history
  <1>3. \A a \in AttemptIds, p \in PaymentIds : IsFor(a, p)' <=> IsFor(a, p)
    <2> SUFFICES ASSUME NEW a \in AttemptIds, NEW p \in PaymentIds, attempts[a].order # 0
                 PROVE  orders'[attempts[a].order] = orders[attempts[a].order]
      BY <1>2 DEF IsFor
    <2>1. orders[attempts[a].order] # 0
      BY DEF IInv, Linked, AttemptsOK, AttemptOK
    <2> QED
      BY <1>1, <2>1 DEF IInv, TypeOK
  <1> QED
    BY <1>2, <1>3 DEF Books!books, Charged, GivenBack

\* A payment that goes through is charged; one that does not is no entry.
LEMMA TryToPayIsCharge ==
    ASSUME IInv, NEW d \in Devices, NEW ok \in BOOLEAN, TryToPay(d, ok)
    PROVE  (\E p \in PaymentIds : Books!Charge(p)) \/ UNCHANGED Books!books
  <1>1. PICK a \in AttemptIds :
          /\ attempts[a].order = 0
          /\ attempts' = [attempts EXCEPT ![a].order = phone[d].order, ![a].captured = ok]
    BY DEF TryToPay
  <1>2. UNCHANGED <<orders, granted, reversed>>
    BY DEF TryToPay, history
  <1>3. /\ phone[d].payment \in PaymentIds /\ phone[d].order # 0
        /\ orders[phone[d].order] = phone[d].payment
    <2>1. phone[d] \in Screen /\ ScreenOK(phone[d])
      BY DEF IInv, TypeOK, Linked, ScreensOK
    <2> QED
      BY <2>1, CheckoutAssumption DEF TryToPay, ScreenOK, Screen, PaymentIds
  <1>4. \A b \in AttemptIds :
          /\ attempts'[b].order = IF b = a THEN phone[d].order ELSE attempts[b].order
          /\ attempts'[b].captured = IF b = a THEN ok ELSE attempts[b].captured
          /\ attempts'[b].back = attempts[b].back
    BY <1>1 DEF IInv, TypeOK, Attempt
  <1>5. attempts[a].back = 0
    BY <1>1 DEF IInv, Linked, AttemptsOK, AttemptOK
  <1>6. /\ \A b \in AttemptIds, q \in PaymentIds : b # a => (IsFor(b, q)' <=> IsFor(b, q))
        /\ \A q \in PaymentIds : ~IsFor(a, q) /\ (IsFor(a, q)' <=> q = phone[d].payment)
    BY <1>1, <1>2, <1>3, <1>4 DEF IsFor
  <1>7. GivenBack' = GivenBack
    <2>1. ~(attempts[a].back > 0) /\ ~(attempts'[a].back > 0)
      BY <1>4, <1>5
    <2>2. \A q \in PaymentIds, b \in AttemptIds :
            attempts'[b].back > 0 /\ IsFor(b, q)' <=> attempts[b].back > 0 /\ IsFor(b, q)
      BY <1>4, <1>6, <2>1
    <2> QED
      BY <2>2 DEF GivenBack
  <1>8. Charged' = IF ok THEN Charged \cup {phone[d].payment} ELSE Charged
    <2>1. \A q \in PaymentIds, b \in AttemptIds : b # a =>
            (attempts'[b].captured /\ IsFor(b, q)' <=> attempts[b].captured /\ IsFor(b, q))
      BY <1>4, <1>6
    <2>2. \A q \in PaymentIds :
            /\ ~IsFor(a, q)
            /\ attempts'[a].captured /\ IsFor(a, q)' <=> ok /\ q = phone[d].payment
      BY <1>4, <1>6
    <2>3. \A q \in PaymentIds : q \in Charged' <=> q \in Charged \/ (ok /\ q = phone[d].payment)
      BY <2>1, <2>2 DEF Charged
    <2>4. Charged \subseteq PaymentIds /\ Charged' \subseteq PaymentIds
      BY DEF Charged
    <2> QED
      BY <1>3, <2>3, <2>4
  <1> QED
    BY <1>2, <1>3, <1>7, <1>8 DEF Books!Charge, Books!books

LEMMA ActivateIsGrant ==
    ASSUME IInv, NEW w \in Workers, Activate(w)
    PROVE  (\E p \in PaymentIds : Books!Grant(p)) \/ UNCHANGED Books!books
  <1>1. UNCHANGED <<attempts, orders, reversed>> /\ work[w].step = "activate"
    BY DEF Activate, provider, At
  <1>2. Charged' = Charged /\ GivenBack' = GivenBack
    BY <1>1 DEF Charged, GivenBack, IsFor
  <1>3. /\ work[w].payment \in PaymentIds
        /\ work[w].attempt \in AttemptIds
        /\ Took(work[w].attempt, work[w].payment)
    BY <1>1, TaskFields DEF TaskOK, Took
  <1>4. work[w].payment \in Charged
    BY <1>3 DEF Charged, Took
  <1>5. granted' = granted \cup {work[w].payment} \/ granted' = granted
    BY DEF Activate
  <1> QED
    BY <1>1, <1>2, <1>3, <1>4, <1>5 DEF Books!Grant, Books!books

LEMMA GiveBackIsGiveBack ==
    ASSUME IInv, NEW w \in Workers, GiveBack(w)
    PROVE  (\E p \in PaymentIds : Books!GiveBack(p)) \/ UNCHANGED Books!books
  <1>1. UNCHANGED <<orders, granted, reversed>> /\ work[w].step = "giveBack"
    BY DEF GiveBack, history, At
  <1>2. PICK a \in AttemptIds, p \in PaymentIds :
          a = work[w].attempt /\ p = work[w].payment /\ Took(a, p) /\ work[w].amount > 0
    BY <1>1, TaskFields DEF TaskOK, Took, IInv, TypeOK
  <1>3. CASE attempts' = attempts
    BY <1>1, <1>3, SameBooks
  <1>4. CASE attempts' = [attempts EXCEPT ![a].back = attempts[a].back + work[w].amount]
    <2>1. attempts[a].back + work[w].amount > 0
      <3>1. attempts[a].back \in Nat /\ work[w].amount \in Nat
        BY TaskFields, CheckoutAssumption DEF IInv, TypeOK, Attempt, Task
      <3> QED
        BY <1>2, <3>1
    <2>2. \A b \in AttemptIds :
            /\ attempts'[b].order = attempts[b].order
            /\ attempts'[b].captured = attempts[b].captured
            /\ b # a => attempts'[b].back = attempts[b].back
            /\ attempts'[a].back > 0
      BY <1>4, <2>1 DEF IInv, TypeOK, Attempt
    <2>3. \A b \in AttemptIds, q \in PaymentIds : IsFor(b, q)' <=> IsFor(b, q)
      BY <1>1, <2>2 DEF IsFor
    <2>4. Charged' = Charged
      BY <2>2, <2>3 DEF Charged
    <2>5. IsFor(a, p) /\ \A q \in PaymentIds : IsFor(a, q) => q = p
      BY <1>2 DEF Took, IsFor
    <2>6. GivenBack' = GivenBack \cup {p}
      BY <1>2, <2>2, <2>3, <2>5 DEF GivenBack
    <2>7. p \in Charged
      BY <1>2 DEF Charged, Took
    <2> QED
      BY <1>1, <2>4, <2>6, <2>7 DEF Books!GiveBack
  <1> QED
    BY <1>2, <1>3, <1>4 DEF GiveBack, IInv, TypeOK

LEMMA BookIsReverse ==
    ASSUME IInv, NEW w \in Workers, Book(w)
    PROVE  \E p \in PaymentIds : Books!Reverse(p)
  <1>1. /\ UNCHANGED <<attempts, orders, granted>> /\ work[w].step = "book"
        /\ reversed' = reversed \cup {work[w].payment}
    BY DEF Book, provider, At
  <1>2. Charged' = Charged /\ GivenBack' = GivenBack
    BY <1>1 DEF Charged, GivenBack, IsFor
  <1>3. work[w].payment \in PaymentIds /\ work[w].payment \in granted \cap GivenBack
    BY <1>1, TaskFields DEF TaskOK, IInv, TypeOK
  <1> QED
    BY <1>1, <1>2, <1>3 DEF Books!Reverse

LEMMA NextIsEntry ==
    ASSUME IInv, [Next]_vars
    PROVE  [Books!LedgerNext]_(Books!books)
  <1> USE DEF provider, history
  <1>1. ASSUME NEW w \in Workers, Step(w) \/ Die(w)
        PROVE  [Books!LedgerNext]_(Books!books)
    <2>1. CASE Insert(w) \/ Attach(w) \/ Answer(w) \/ Apply(w) \/ Fail(w) \/ CheckRefund(w) \/ Die(w)
      BY <2>1, SameBooks DEF Insert, Attach, Answer, Apply, Fail, CheckRefund, Die
    <2> QED
      BY <1>1, <2>1, CreateOrderIsNoEntry, ActivateIsGrant, GiveBackIsGiveBack, BookIsReverse
         DEF Step, Books!LedgerNext
  <1>2. ASSUME NEW w \in Workers, NEW e \in inbox, Deliver(w, e)
        PROVE  [Books!LedgerNext]_(Books!books)
    BY <1>2, SameBooks DEF Deliver
  <1>3. ASSUME NEW w \in Workers, NEW p \in PaymentIds, NEW amount \in 1..Amount,
               BeginRefund(w, p, amount)
        PROVE  [Books!LedgerNext]_(Books!books)
    BY <1>3, SameBooks DEF BeginRefund
  <1>4. ASSUME NEW d \in Devices, Person(d) \/ Relay(d) \/ Poll(d) \/ LoseAnswer(d) \/ Kill(d)
        PROVE  [Books!LedgerNext]_(Books!books)
    <2>1. CASE \E ok \in BOOLEAN : TryToPay(d, ok)
      BY <2>1, TryToPayIsCharge DEF Books!LedgerNext
    <2>2. CASE ~\E ok \in BOOLEAN : TryToPay(d, ok)
      BY <1>4, <2>2, SameBooks
         DEF Person, PayAgain, PressPaid, PressReady, PressUnfinished, PressNew, Dismiss, Reopen,
             Relay, Verify, Poll, LoseAnswer, Kill
    <2> QED
      BY <2>1, <2>2
  <1>5. CASE UNCHANGED vars
    BY <1>5, SameBooks DEF vars
  <1> QED
    BY <1>1, <1>2, <1>3, <1>4, <1>5 DEF Next

\* The checkout implements the ledger: days are granted only for charged payments, and a
\* payment is written off only when its money went back.
THEOREM ImplementsLedger == Spec => LedgerHolds
  <1>1. Init => Books!LedgerInit
    BY DEF Init, Books!LedgerInit, Charged, GivenBack, IsFor
  <1>2. IInv /\ [Next]_vars => [Books!LedgerNext]_(Books!books)
    BY NextIsEntry
  <1> QED
    BY <1>1, <1>2, Invariant, PTL DEF Spec, LedgerHolds, Books!LedgerSpec

=============================================================================
