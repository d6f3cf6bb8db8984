--------------------------- MODULE Passes_proofs ---------------------------
(***************************************************************************)
(* Proofs about Passes: they hold for any people, posts, collectives, pass *)
(* lengths and table sizes.  Then about PassRaces: they hold for any number *)
(* of handlers that overlap, of any kinds, and whenever one of them crashes. *)
(* What a handler does in one step while the others stand still is a step  *)
(* of Passes, and its lemmas say what that does.                           *)
(***************************************************************************)
EXTENDS PassRaces, FiniteSetTheorems, WellFoundedInduction, TLAPS

USE PostsAssumption, DaysAssumption, BoundsAssumption

-----------------------------------------------------------------------------
(* What the queries return. *)

LEMMA NewIdsAreIds ==
    /\ NewIds(pass) \subseteq DOMAIN pass
    /\ NewIds(payment) \subseteq DOMAIN payment
    /\ NewIds(membership) \subseteq DOMAIN membership
  BY DEF NewIds

LEMMA ExpiryInNat ==
    ASSUME NEW e \in Nat, now \in Nat
    PROVE  ExtendedExpiry(e) \in Nat /\ ReducedExpiry(e) \in Nat
  BY DEF ExtendedExpiry, ReducedExpiry, Later

\* Any numbers have a smallest one.
LEMMA SmallestExists ==
    ASSUME NEW T \in SUBSET Nat, T # {}
    PROVE  \E x \in T : \A y \in T : x <= y
  <1> DEFINE Less == {pair \in Nat \X Nat : pair[1] < pair[2]}
  <1>1. IsWellFoundedOn(Less, Nat)
    BY NatLessThanWellFounded DEF OpToRel
  <1>2. ASSUME NEW x \in Nat, NEW y \in Nat, <<y, x>> \notin Less PROVE x <= y
    BY <1>2
  <1>3. PICK x \in T : \A y \in T : <<y, x>> \notin Less
    <2> HIDE DEF Less
    <2> QED
      BY <1>1, WFMin
  <1> HIDE DEF Less
  <1> QED
    BY <1>2, <1>3

LEMMA MembershipForIsId ==
    ASSUME TypeOK, NEW i \in Posts, NEW c \in Collectives, NEW m \in MembershipFor(i, c)
    PROVE  m \in MembershipIds
  BY NewIdsAreIds DEF MembershipFor, LiveMemberships, TypeOK

-----------------------------------------------------------------------------
(* Type correctness. *)

LEMMA InitTypeOK == Init => TypeOK
  <1> SUFFICES ASSUME Init PROVE TypeOK
    OBVIOUS
  <1>1. (CHOOSE i \in Posts : TRUE) \in Posts /\ (CHOOSE c \in Collectives : TRUE) \in Collectives
    OBVIOUS
  <1> QED
    BY <1>1 DEF Init, TablesInit, TypeOK, PostStatus, PassStatus, PaymentStatus, MembershipStatus,
                PassRow, PaymentRow, MembershipRow

LEMMA JoinTypeOK ==
    ASSUME TypeOK, NEW i \in Posts, NEW c \in Collectives, Join(i, c)
    PROVE  TypeOK'
  <1>1. PICK m \in MembershipFor(i, c) :
            JoinWithElite(m, i, c) \/ StartFreePass(m, i, c) \/ WaitForElite(m, i, c)
    BY DEF Join
  <1>2. m \in MembershipIds
    BY MembershipForIsId
  <1>3. Owner[i] \in Users
    BY DEF TypeOK
  <1>4. UNCHANGED <<now, post, collective, payment, order>>
    BY DEF Join
  <1>5. CASE JoinWithElite(m, i, c)
    BY <1>2, <1>3, <1>4, <1>5
       DEF JoinWithElite, Admit, LongestElite, UsableElites, TypeOK, MembershipRow, MembershipStatus
  <1>6. CASE StartFreePass(m, i, c)
    <2>1. PICK p \in NewIds(pass) :
            /\ pass' = [pass EXCEPT ![p] = [status |-> "ACTIVE", plan |-> "FREE", post |-> i,
                                            expiresAt |-> now + FreeDays, payment |-> 0]]
            /\ Admit(m, i, c, p)
      BY <1>6 DEF StartFreePass
    <2>2. p \in PassIds
      BY NewIdsAreIds DEF TypeOK
    <2>3. pass' \in [PassIds -> PassRow]
      BY <2>1, <2>2 DEF TypeOK, PassRow, PassStatus
    <2>4. membership' \in [MembershipIds -> MembershipRow] /\ inDiscussion' \in SUBSET (Collectives \X Users)
      BY <1>2, <1>3, <2>1, <2>2 DEF TypeOK, Admit, MembershipRow, MembershipStatus
    <2> QED
      BY <1>4, <2>3, <2>4 DEF TypeOK
  <1>7. CASE WaitForElite(m, i, c)
    BY <1>2, <1>4, <1>7 DEF WaitForElite, TypeOK, MembershipRow, MembershipStatus
  <1> QED
    BY <1>1, <1>5, <1>6, <1>7

LEMMA PassToPayIsId ==
    ASSUME TypeOK, NEW i \in Posts, NEW p \in PassToPay(i)
    PROVE  p \in PassIds
  BY NewIdsAreIds DEF PassToPay, LongestElite, UsableElites, TypeOK

LEMMA CreatePaymentTypeOK ==
    ASSUME TypeOK, NEW i \in Posts, NEW c \in Collectives, CreatePayment(i, c)
    PROVE  TypeOK'
  <1>1. PICK p \in PassToPay(i), k \in NewIds(payment), status \in Open :
          /\ pass' = IF pass[p].status # "NONE" THEN pass
                     ELSE [pass EXCEPT ![p] = [status |-> "PENDING", plan |-> "ELITE", post |-> i,
                                               expiresAt |-> 0, payment |-> 0]]
          /\ payment' = [payment EXCEPT ![k] = [status |-> status, post |-> i, pass |-> p]]
    BY DEF CreatePayment
  <1>2. p \in PassIds /\ k \in PaymentIds
    BY PassToPayIsId, NewIdsAreIds DEF TypeOK
  <1>3. pass' \in [PassIds -> PassRow]
    BY <1>1, <1>2 DEF TypeOK, PassRow, PassStatus
  <1>4. payment' \in [PaymentIds -> PaymentRow]
    BY <1>1, <1>2 DEF TypeOK, PaymentRow, PaymentStatus, Open
  <1> QED
    BY <1>3, <1>4 DEF CreatePayment, TypeOK

LEMMA PassesAfterPaymentTyped ==
    ASSUME TypeOK, NEW k \in PaymentIds
    PROVE  PassesAfterPayment(k) \in [PassIds -> PassRow]
  <1> DEFINE p == payment[k].pass
  <1>1. pass \in [PassIds -> PassRow] /\ now \in Nat
    BY DEF TypeOK
  <1>2. CASE Extending(k)
    <2>1. p \in PassIds => ExtendedExpiry(pass[p].expiresAt) \in Nat
      BY <1>1, ExpiryInNat DEF PassRow
    <2>2. CASE p \in PassIds
      BY <1>1, <1>2, <2>1, <2>2 DEF PassesAfterPayment, PassRow
    <2>3. CASE p \notin PassIds
      BY <1>1, <1>2, <2>3 DEF PassesAfterPayment
    <2> QED
      BY <2>2, <2>3
  <1>3. CASE ~Extending(k) /\ pass[p].status = "ACTIVE"
    BY <1>1, <1>3 DEF PassesAfterPayment
  <1>4. CASE ~Extending(k) /\ pass[p].status # "ACTIVE"
    <2>1. PassesAfterPayment(k) =
            [q \in PassIds |->
              IF q = p THEN [pass[p] EXCEPT !.status = "ACTIVE", !.plan = "ELITE",
                                            !.expiresAt = now + EliteDays, !.payment = k]
              ELSE IF q \in EndedFreePasses(k)
              THEN [pass[q] EXCEPT !.status = "EXPIRED", !.expiresAt = now]
              ELSE pass[q]]
      BY <1>4 DEF PassesAfterPayment
    <2>2. ASSUME NEW q \in PassIds PROVE PassesAfterPayment(k)[q] \in PassRow
      <3>1. pass[q] \in PassRow /\ now + EliteDays \in Nat /\ now \in Nat
        BY <1>1
      <3>2. CASE q = p
        <4>1. PassesAfterPayment(k)[q] = [pass[q] EXCEPT !.status = "ACTIVE", !.plan = "ELITE",
                                                         !.expiresAt = now + EliteDays, !.payment = k]
          BY <2>1, <3>2
        <4> QED
          BY <3>1, <4>1 DEF PassRow, PassStatus
      <3>3. CASE q # p /\ q \in EndedFreePasses(k)
        <4>1. PassesAfterPayment(k)[q] = [pass[q] EXCEPT !.status = "EXPIRED", !.expiresAt = now]
          BY <2>1, <3>3
        <4> QED
          BY <3>1, <4>1 DEF PassRow, PassStatus
      <3>4. CASE q # p /\ q \notin EndedFreePasses(k)
        BY <2>1, <3>1, <3>4
      <3> QED
        BY <3>2, <3>3, <3>4
    <2> QED
      BY <2>1, <2>2
  <1> QED
    BY <1>2, <1>3, <1>4

LEMMA ActivateTypeOK ==
    ASSUME TypeOK, NEW k \in PaymentIds, Activate(k)
    PROVE  TypeOK'
  <1> DEFINE p == payment[k].pass
             moved == MovedMemberships(k)
  <1>1. p \in {0} \cup PassIds /\ payment[k].post \in Posts
    BY DEF TypeOK, PaymentRow
  <1>2. pass' \in [PassIds -> PassRow]
    BY PassesAfterPaymentTyped DEF Activate
  <1>3. payment' \in [PaymentIds -> PaymentRow]
    <2>1. payment \in [PaymentIds -> PaymentRow] /\ payment' = [payment EXCEPT ![k].status = "SUCCESS"]
      BY DEF Activate, TypeOK
    <2> QED
      BY <2>1 DEF PaymentRow, PaymentStatus
  <1>4. membership' \in [MembershipIds -> MembershipRow]
    <2>1. membership' = [m \in MembershipIds |->
                           IF m \in moved THEN [membership[m] EXCEPT !.status = "ACTIVE", !.pass = p]
                           ELSE membership[m]]
      BY DEF Activate
    <2>2. ASSUME NEW m \in MembershipIds PROVE membership'[m] \in MembershipRow
      <3> HIDE DEF p, moved
      <3>1. membership[m] \in MembershipRow
        BY DEF TypeOK
      <3> QED
        BY <1>1, <2>1, <3>1 DEF MembershipRow, MembershipStatus
    <2> QED
      BY <2>1, <2>2
  <1>5. inDiscussion' \in SUBSET (Collectives \X Users)
    <2>1. ASSUME NEW m \in moved PROVE <<membership[m].collective, PayerOf(k)>> \in Collectives \X Users
      BY <1>1 DEF MovedMemberships, LiveMemberships, PayerOf, TypeOK, MembershipRow
    <2>2. inDiscussion' = inDiscussion \cup {<<membership[m].collective, PayerOf(k)>> : m \in moved}
      BY DEF Activate
    <2> QED
      BY <2>1, <2>2 DEF TypeOK
  <1> QED
    BY <1>2, <1>3, <1>4, <1>5 DEF Activate, TypeOK

LEMMA EndRidersTyped ==
    ASSUME TypeOK, NEW riders, NEW status \in MembershipStatus, EndRiders(riders, status)
    PROVE  /\ membership' \in [MembershipIds -> MembershipRow]
           /\ inDiscussion' \in SUBSET (Collectives \X Users)
  BY DEF EndRiders, TypeOK, MembershipRow

LEMMA RefundMoneyTyped ==
    ASSUME TypeOK, NEW k \in PaymentIds, RefundMoney(k)
    PROVE  /\ pass' \in [PassIds -> PassRow]
           /\ payment' \in [PaymentIds -> PaymentRow]
           /\ order' \in [PaymentIds -> {"UNPAID", "CAPTURED", "RETURNED"}]
  <1> DEFINE p == payment[k].pass
  <1>1. pass \in [PassIds -> PassRow] /\ now \in Nat
    BY DEF TypeOK
  <1>2. p \in PassIds => ReducedExpiry(pass[p].expiresAt) \in Nat
    BY <1>1, ExpiryInNat DEF PassRow
  <1>3. PassesAfterRefund(k) \in [PassIds -> PassRow]
    <2>1. CASE p \in PassIds
      BY <1>1, <1>2, <2>1 DEF PassesAfterRefund, PassRow, PassStatus
    <2>2. CASE p \notin PassIds
      BY <1>1, <2>2 DEF PassesAfterRefund
    <2> QED
      BY <2>1, <2>2
  <1> QED
    BY <1>3 DEF RefundMoney, TypeOK, PaymentRow, PaymentStatus

LEMMA EndsTypeOK ==
    ASSUME TypeOK
    PROVE  /\ \A k \in PaymentIds : Refund(k) => TypeOK'
           /\ \A m \in MembershipIds : Leave(m) => TypeOK'
           /\ \A p \in PassIds : ExpirePass(p) => TypeOK'
  <1>1. ASSUME NEW k \in PaymentIds, Refund(k) PROVE TypeOK'
    BY <1>1, RefundMoneyTyped, EndRidersTyped DEF Refund, MembershipStatus, TypeOK
  <1>2. ASSUME NEW m \in MembershipIds, Leave(m) PROVE TypeOK'
    <2>1. membership' \in [MembershipIds -> MembershipRow] /\ inDiscussion' \in SUBSET (Collectives \X Users)
      BY <1>2, EndRidersTyped DEF Leave, MembershipStatus
    <2>2. CASE \E k \in RefundedByLeaving(m) : RefundMoney(k)
      BY <1>2, <2>1, <2>2, RefundMoneyTyped DEF Leave, RefundedByLeaving, TypeOK
    <2>3. CASE UNCHANGED <<pass, payment, order>>
      BY <1>2, <2>1, <2>3 DEF Leave, TypeOK
    <2> QED
      BY <1>2, <2>2, <2>3 DEF Leave
  <1>3. ASSUME NEW p \in PassIds, ExpirePass(p) PROVE TypeOK'
    <2>1. membership' \in [MembershipIds -> MembershipRow] /\ inDiscussion' \in SUBSET (Collectives \X Users)
      BY <1>3, EndRidersTyped DEF ExpirePass, MembershipStatus
    <2> QED
      BY <1>3, <2>1 DEF ExpirePass, TypeOK, PassRow, PassStatus
  <1> QED
    BY <1>1, <1>2, <1>3

LEMMA NextTypeOK == TypeOK /\ [Next]_tables => TypeOK'
  <1> SUFFICES ASSUME TypeOK, [Next]_tables PROVE TypeOK'
    OBVIOUS
  <1>1. ASSUME NEW i \in Posts, CreatePost(i) \/ PausePost(i) \/ ResumePost(i) \/ ClosePost(i)
        PROVE  TypeOK'
    BY <1>1 DEF CreatePost, PausePost, ResumePost, ClosePost, SetPost, TypeOK, PostStatus
  <1>2. ASSUME NEW c \in Collectives, NEW status \in {"ACTIVE", "CLOSED"}, CollectiveAction(c, status)
        PROVE  TypeOK'
    BY <1>2 DEF CollectiveAction, TypeOK
  <1>3. ASSUME NEW i \in Posts, NEW c \in Collectives, Join(i, c) \/ CreatePayment(i, c)
        PROVE  TypeOK'
    BY <1>3, JoinTypeOK, CreatePaymentTypeOK
  <1>4. ASSUME NEW k \in PaymentIds, CheckoutFor(k) PROVE TypeOK'
    BY <1>4 DEF CheckoutFor, TypeOK, PaymentRow, PaymentStatus
  <1>5. ASSUME NEW k \in PaymentIds, CustomerPays(k) PROVE TypeOK'
    BY <1>5 DEF CustomerPays, TypeOK
  <1>6. ASSUME NEW k \in PaymentIds, Activate(k) PROVE TypeOK'
    BY <1>6, ActivateTypeOK
  <1>7. ASSUME NEW k \in PaymentIds, PaymentFailed(k) PROVE TypeOK'
    BY <1>7 DEF PaymentFailed, TypeOK, PaymentRow, PaymentStatus
  <1>8. CASE Tick
    BY <1>8 DEF Tick, TypeOK
  <1>9. CASE UNCHANGED tables
    BY <1>9 DEF tables, TypeOK
  <1> QED
    BY <1>1, <1>2, <1>3, <1>4, <1>5, <1>6, <1>7, <1>8, <1>9, EndsTypeOK DEF Next

\* Every row the services write is a row of its table, in every sequence of calls:
\* the statuses, references and dates of PassTables are all there are.
THEOREM TypeCorrect == Spec => []TypeOK
  <1>1. Init => TypeOK
    BY InitTypeOK
  <1>2. TypeOK /\ [Next]_tables => TypeOK'
    BY NextTypeOK
  <1> QED
    BY <1>1, <1>2, PTL DEF Spec

-----------------------------------------------------------------------------
(* What the steps do to the passes. *)

\* activate(): the payment's pass is ACTIVE afterwards; the other passes stay as they
\* are, but for the Free Passes of the same person, which may end.
LEMMA ActivateEffect ==
    ASSUME TypeOK, NEW k \in PaymentIds, Activate(k), payment[k].pass # 0
    PROVE  LET p == payment[k].pass IN
           /\ p \in PassIds
           /\ pass'[p].status = "ACTIVE" /\ pass'[p].post = pass[p].post
           /\ pass[p].plan = "ELITE" => pass'[p].plan = "ELITE"
           /\ pass[p].status # "ACTIVE" => pass'[p].plan = "ELITE" /\ pass'[p].payment = k
           /\ pass[p].status = "ACTIVE" => pass'[p].plan = pass[p].plan /\ pass'[p].payment = pass[p].payment
           /\ \A q \in PassIds \ {p} :
                /\ pass'[q].post = pass[q].post /\ pass'[q].plan = pass[q].plan
                /\ pass'[q].payment = pass[q].payment
                /\ \/ pass'[q] = pass[q]
                   \/ q \in EndedFreePasses(k) /\ pass'[q].status = "EXPIRED"
  <1> DEFINE p == payment[k].pass
  <1>1. p \in PassIds /\ pass \in [PassIds -> PassRow]
    BY DEF TypeOK, PaymentRow
  <1>2. pass' = PassesAfterPayment(k)
    BY DEF Activate
  <1>3. CASE Extending(k)
    BY <1>1, <1>2, <1>3 DEF PassesAfterPayment, Extending, PassRow
  <1>4. CASE ~Extending(k) /\ pass[p].status = "ACTIVE"
    BY <1>1, <1>2, <1>4 DEF PassesAfterPayment
  <1>5. CASE ~Extending(k) /\ pass[p].status # "ACTIVE"
    <2>1. pass' = [q \in PassIds |->
              IF q = p THEN [pass[p] EXCEPT !.status = "ACTIVE", !.plan = "ELITE",
                                            !.expiresAt = now + EliteDays, !.payment = k]
              ELSE IF q \in EndedFreePasses(k)
              THEN [pass[q] EXCEPT !.status = "EXPIRED", !.expiresAt = now]
              ELSE pass[q]]
      BY <1>2, <1>5 DEF PassesAfterPayment
    <2> QED
      BY <1>1, <1>5, <2>1 DEF PassRow
  <1> QED
    BY <1>3, <1>4, <1>5

\* A refund touches the payment's pass only, and ends it only if the payment is not
\* an extension of it.
LEMMA RefundEffect ==
    ASSUME TypeOK, NEW k \in PaymentIds, RefundMoney(k), payment[k].pass # 0
    PROVE  LET p == payment[k].pass IN
           /\ p \in PassIds
           /\ \A q \in PassIds :
                /\ pass'[q].post = pass[q].post /\ pass'[q].plan = pass[q].plan
                /\ pass'[q].payment = pass[q].payment
           /\ \A q \in PassIds \ {p} : pass'[q] = pass[q]
           /\ IsExtension(k) => pass'[p].status = pass[p].status
           /\ ~IsExtension(k) => pass'[p].status = IF pass[p].status \in {"ACTIVE", "PENDING"}
                                                 THEN "REFUNDED" ELSE pass[p].status
  <1> DEFINE p == payment[k].pass
  <1>1. p \in PassIds /\ pass \in [PassIds -> PassRow]
    BY DEF TypeOK, PaymentRow
  <1>2. pass' = PassesAfterRefund(k)
    BY DEF RefundMoney
  <1>3. CASE IsExtension(k)
    BY <1>1, <1>2, <1>3 DEF PassesAfterRefund, PassRow
  <1>4. CASE ~IsExtension(k)
    BY <1>1, <1>2, <1>4 DEF PassesAfterRefund, PassRow
  <1> QED
    BY <1>1, <1>3, <1>4

\* A join touches one membership, and starts at most one pass, from a new row.
LEMMA JoinEffect ==
    ASSUME TypeOK, NEW i \in Posts, NEW c \in Collectives, Join(i, c)
    PROVE  \E m \in MembershipFor(i, c) \cap MembershipIds, p \in {0} \cup PassIds :
           /\ membership[m].status # "ACTIVE"
           /\ membership' = [membership EXCEPT ![m] =
                               [status |-> IF p = 0 THEN "PENDING_PAYMENT" ELSE "ACTIVE",
                                collective |-> c, post |-> i, pass |-> p]]
           /\ inDiscussion' = IF p = 0 THEN inDiscussion ELSE inDiscussion \cup {<<c, Owner[i]>>}
           /\ \/ pass' = pass /\ (p # 0 => p \in LongestElite(Owner[i]))
              \/ /\ p # 0 /\ pass[p].status = "NONE" /\ ~FreePassUsed(Owner[i], Scope[i])
                 /\ pass' = [pass EXCEPT ![p] = [status |-> "ACTIVE", plan |-> "FREE", post |-> i,
                                                 expiresAt |-> now + FreeDays, payment |-> 0]]
           /\ p \in LongestElite(Owner[i]) \/ LongestElite(Owner[i]) = {}
  <1>1. PICK m \in MembershipFor(i, c) :
            /\ membership[m].status # "ACTIVE"
            /\ JoinWithElite(m, i, c) \/ StartFreePass(m, i, c) \/ WaitForElite(m, i, c)
    BY DEF Join
  <1>2. m \in MembershipFor(i, c) \cap MembershipIds
    BY MembershipForIsId
  <1>3. \A p \in PassIds : p # 0
    BY DEF PassIds
  <1>4. CASE JoinWithElite(m, i, c)
    <2>1. PICK e \in LongestElite(Owner[i]) : Admit(m, i, c, e)
      BY <1>4 DEF JoinWithElite
    <2>2. e \in PassIds
      BY DEF LongestElite, UsableElites
    <2> QED
      BY <1>1, <1>2, <1>3, <1>4, <2>1, <2>2 DEF JoinWithElite, Admit
  <1>5. CASE StartFreePass(m, i, c)
    <2>1. PICK p \in NewIds(pass) :
            /\ pass' = [pass EXCEPT ![p] = [status |-> "ACTIVE", plan |-> "FREE", post |-> i,
                                            expiresAt |-> now + FreeDays, payment |-> 0]]
            /\ Admit(m, i, c, p)
      BY <1>5 DEF StartFreePass
    <2>2. p \in PassIds /\ pass[p].status = "NONE"
      BY DEF NewIds, TypeOK
    <2>3. ~FreePassUsed(Owner[i], Scope[i]) /\ LongestElite(Owner[i]) = {}
      BY <1>5 DEF StartFreePass, FreePlace
    <2> QED
      BY <1>1, <1>2, <1>3, <2>1, <2>2, <2>3 DEF Admit
  <1>6. CASE WaitForElite(m, i, c)
    BY <1>1, <1>2, <1>6 DEF WaitForElite
  <1> QED
    BY <1>1, <1>4, <1>5, <1>6

\* A new payment is for an Elite Pass of the payer: one that runs, one that is
\* PENDING, or a new row.
LEMMA CreatePaymentEffect ==
    ASSUME TypeOK, NEW i \in Posts, NEW c \in Collectives, CreatePayment(i, c)
    PROVE  \E p \in PassIds, k \in PaymentIds, status \in Open :
           /\ payment[k].status = "NONE"
           /\ payment' = [payment EXCEPT ![k] = [status |-> status, post |-> i, pass |-> p]]
           /\ \/ pass' = pass /\ p \in LongestElite(Owner[i])
              \/ pass' = pass /\ pass[p].post = i /\ pass[p].status = "PENDING"
              \/ /\ pass[p].status = "NONE"
                 /\ pass' = [pass EXCEPT ![p] = [status |-> "PENDING", plan |-> "ELITE", post |-> i,
                                                 expiresAt |-> 0, payment |-> 0]]
  <1>1. PICK p \in PassToPay(i), k \in NewIds(payment), status \in Open :
          /\ pass' = IF pass[p].status # "NONE" THEN pass
                     ELSE [pass EXCEPT ![p] = [status |-> "PENDING", plan |-> "ELITE", post |-> i,
                                               expiresAt |-> 0, payment |-> 0]]
          /\ payment' = [payment EXCEPT ![k] = [status |-> status, post |-> i, pass |-> p]]
    BY DEF CreatePayment
  <1>2. p \in PassIds /\ k \in PaymentIds /\ payment[k].status = "NONE"
    BY PassToPayIsId DEF NewIds, TypeOK
  <1>3. \/ p \in LongestElite(Owner[i]) /\ pass[p].status # "NONE"
        \/ pass[p].post = i /\ pass[p].status = "PENDING"
        \/ pass[p].status = "NONE"
    BY DEF PassToPay, LongestElite, UsableElites, NewIds
  <1> QED
    BY <1>1, <1>2, <1>3

-----------------------------------------------------------------------------
(* What payments and passes have to do with each other. *)

PaymentsHavePass ==
    \A k \in PaymentIds : payment[k].status # "NONE" =>
        LET p == payment[k].pass IN
        /\ p # 0
        /\ pass[p].status # "NONE"
        /\ pass[p].plan = "ELITE"
        /\ HolderOf(p) = PayerOf(k)

PaidOrdersExist == \A k \in PaymentIds : order[k] # "UNPAID" => payment[k].status # "NONE"

PendingPassesAreElite ==
    \A p \in PassIds : pass[p].status = "PENDING" => pass[p].plan = "ELITE"

Linked == PaymentsHavePass /\ PaidOrdersExist /\ PendingPassesAreElite

\* No step of the serial specification takes a pass away from its post, or turns
\* an Elite Pass that is there into anything else.
PassesKeepHolder ==
    \A p \in PassIds : pass[p].status # "NONE" =>
        /\ pass'[p].status # "NONE"
        /\ pass'[p].post = pass[p].post
        /\ pass[p].plan = "ELITE" => pass'[p].plan = "ELITE"

LEMMA ActivateHasPass ==
    ASSUME TypeOK, Linked, NEW k \in PaymentIds, Activate(k)
    PROVE  /\ payment[k].status # "NONE" /\ payment[k].pass # 0 /\ payment[k].pass \in PassIds
           /\ pass[payment[k].pass].plan = "ELITE"
           /\ HolderOf(payment[k].pass) = PayerOf(k)
  BY DEF Linked, PaymentsHavePass, PaidOrdersExist, Activate, TypeOK, PaymentRow

LEMMA RefundHasPass ==
    ASSUME TypeOK, Linked, NEW k \in PaymentIds, RefundMoney(k)
    PROVE  payment[k].pass # 0 /\ payment[k].pass \in PassIds
  BY DEF Linked, PaymentsHavePass, RefundMoney, TypeOK, PaymentRow

\* The disjuncts of Next, told apart by what they do to passes and payments.
Bystander ==
    /\ UNCHANGED <<pass, payment, order, membership, inDiscussion>>
    /\ now' \in {now, now + 1}

LEMMA StepCases ==
    ASSUME TypeOK, [Next]_tables
    PROVE  \/ Bystander
           \/ \E i \in Posts, c \in Collectives : Join(i, c) \/ CreatePayment(i, c)
           \/ \E k \in PaymentIds : \/ CheckoutFor(k) \/ CustomerPays(k) \/ Activate(k)
                                    \/ PaymentFailed(k) \/ Refund(k)
           \/ \E m \in MembershipIds : Leave(m)
           \/ \E p \in PassIds : ExpirePass(p)
  BY DEF Next, tables, Bystander, CreatePost, PausePost, ResumePost, ClosePost, SetPost,
         CollectiveAction, Tick

LEMMA HoldersKept == TypeOK /\ Linked /\ [Next]_tables => PassesKeepHolder
  <1> SUFFICES ASSUME TypeOK, Linked, [Next]_tables PROVE PassesKeepHolder
    OBVIOUS
  <1>1. ASSUME NEW i \in Posts, NEW c \in Collectives, Join(i, c) PROVE PassesKeepHolder
    BY <1>1, JoinEffect, SMTT(40) DEF PassesKeepHolder, TypeOK
  <1>2. ASSUME NEW i \in Posts, NEW c \in Collectives, CreatePayment(i, c) PROVE PassesKeepHolder
    BY <1>2, CreatePaymentEffect DEF PassesKeepHolder, TypeOK
  <1>3. ASSUME NEW k \in PaymentIds, Activate(k) PROVE PassesKeepHolder
    BY <1>3, ActivateHasPass, ActivateEffect DEF PassesKeepHolder
  <1>4. ASSUME NEW k \in PaymentIds, RefundMoney(k) PROVE PassesKeepHolder
    BY <1>4, RefundHasPass, RefundEffect DEF PassesKeepHolder
  <1>5. ASSUME NEW p \in PassIds, ExpirePass(p) PROVE PassesKeepHolder
    BY <1>5 DEF ExpirePass, PassesKeepHolder, TypeOK, PassRow
  <1>6. ASSUME pass' = pass PROVE PassesKeepHolder
    BY <1>6 DEF PassesKeepHolder
  <1>7. ASSUME NEW k \in PaymentIds, CheckoutFor(k) \/ CustomerPays(k) \/ PaymentFailed(k)
        PROVE  PassesKeepHolder
    BY <1>6, <1>7 DEF CheckoutFor, CustomerPays, PaymentFailed
  <1>8. ASSUME NEW m \in MembershipIds, Leave(m) PROVE PassesKeepHolder
    BY <1>4, <1>6, <1>8 DEF Leave, RefundedByLeaving
  <1> QED
    BY <1>1, <1>2, <1>3, <1>4, <1>5, <1>6, <1>7, <1>8, StepCases DEF Bystander, Refund

LEMMA LinkedKept == TypeOK /\ Linked /\ [Next]_tables => Linked'
  <1> SUFFICES ASSUME TypeOK, Linked, [Next]_tables PROVE Linked'
    OBVIOUS
  <1>0. PassesKeepHolder
    BY HoldersKept
  <1>1. \* a payment that keeps its post and pass stays linked
        ASSUME NEW k \in PaymentIds, payment[k].status # "NONE",
               payment'[k].post = payment[k].post, payment'[k].pass = payment[k].pass
        PROVE  LET p == payment'[k].pass IN
               /\ p # 0 /\ pass'[p].status # "NONE" /\ pass'[p].plan = "ELITE"
               /\ Owner[pass'[p].post] = Owner[payment'[k].post]
    BY <1>0, <1>1 DEF Linked, PaymentsHavePass, PassesKeepHolder, HolderOf, PayerOf, TypeOK, PaymentRow
  <1>2. ASSUME \A k \in PaymentIds :
                 /\ payment'[k].post = payment[k].post /\ payment'[k].pass = payment[k].pass
                 /\ payment'[k].status # "NONE" <=> payment[k].status # "NONE"
        PROVE  PaymentsHavePass'
    BY <1>1, <1>2 DEF PaymentsHavePass, HolderOf, PayerOf
  <1>3. ASSUME pass' = pass PROVE PendingPassesAreElite'
    BY <1>3 DEF Linked, PendingPassesAreElite
  <1>4. ASSUME NEW i \in Posts, NEW c \in Collectives, Join(i, c) PROVE Linked'
    <2>1. PendingPassesAreElite'
      BY <1>4, JoinEffect DEF Linked, PendingPassesAreElite, TypeOK
    <2> QED
      BY <1>2, <1>4, <2>1 DEF Join, Linked, PaidOrdersExist
  <1>5. ASSUME NEW i \in Posts, NEW c \in Collectives, CreatePayment(i, c) PROVE Linked'
    <2>1. PICK p \in PassIds, k \in PaymentIds, status \in Open :
           /\ payment[k].status = "NONE"
           /\ payment' = [payment EXCEPT ![k] = [status |-> status, post |-> i, pass |-> p]]
           /\ \/ pass' = pass /\ p \in LongestElite(Owner[i])
              \/ pass' = pass /\ pass[p].post = i /\ pass[p].status = "PENDING"
              \/ /\ pass[p].status = "NONE"
                 /\ pass' = [pass EXCEPT ![p] = [status |-> "PENDING", plan |-> "ELITE", post |-> i,
                                                 expiresAt |-> 0, payment |-> 0]]
      BY <1>5, CreatePaymentEffect
    <2>2. PendingPassesAreElite'
      BY <2>1 DEF Linked, PendingPassesAreElite, TypeOK
    <2>3. PaidOrdersExist'
      BY <1>5, <2>1 DEF CreatePayment, Linked, PaidOrdersExist, TypeOK, Open
    <2>4. p # 0 /\ pass'[p].status # "NONE" /\ pass'[p].plan = "ELITE" /\ Owner[pass'[p].post] = Owner[i]
      BY <2>1 DEF Linked, PendingPassesAreElite, LongestElite, UsableElites, HolderOf, PassIds, TypeOK
    <2>5. payment'[k] = [status |-> status, post |-> i, pass |-> p]
      BY <2>1 DEF TypeOK
    <2>6. \A j \in PaymentIds \ {k} : payment'[j] = payment[j]
      BY <2>1 DEF TypeOK
    <2>7. PaymentsHavePass'
      BY <1>1, <2>4, <2>5, <2>6 DEF PaymentsHavePass, HolderOf, PayerOf
    <2> QED
      BY <2>2, <2>3, <2>7 DEF Linked
  <1>6. ASSUME NEW k \in PaymentIds, CheckoutFor(k) \/ CustomerPays(k) \/ PaymentFailed(k)
        PROVE  Linked'
    <2>1. pass' = pass
      BY <1>6 DEF CheckoutFor, CustomerPays, PaymentFailed
    <2>2. \A j \in PaymentIds :
             /\ payment'[j].post = payment[j].post /\ payment'[j].pass = payment[j].pass
             /\ payment'[j].status # "NONE" <=> payment[j].status # "NONE"
      BY <1>6 DEF CheckoutFor, CustomerPays, PaymentFailed, TypeOK, PaymentRow
    <2>3. PaidOrdersExist'
      BY <1>6, <2>2 DEF CheckoutFor, CustomerPays, PaymentFailed, Linked, PaidOrdersExist, TypeOK
    <2> QED
      BY <1>2, <1>3, <2>1, <2>2, <2>3 DEF Linked
  <1>7. ASSUME NEW k \in PaymentIds, Activate(k) PROVE Linked'
    <2>1. PendingPassesAreElite'
      BY <1>7, ActivateHasPass, ActivateEffect DEF Linked, PendingPassesAreElite
    <2>2. PaymentsHavePass'
      <3>1. payment' = [payment EXCEPT ![k].status = "SUCCESS"] /\ payment[k].status # "NONE"
        BY <1>7, ActivateHasPass DEF Activate
      <3>2. \A j \in PaymentIds :
               /\ payment'[j].post = payment[j].post /\ payment'[j].pass = payment[j].pass
               /\ payment'[j].status # "NONE" <=> payment[j].status # "NONE"
        BY <3>1 DEF TypeOK, PaymentRow
      <3> QED
        BY <1>2, <3>2
    <2>3. PaidOrdersExist'
      BY <1>7 DEF Activate, Linked, PaidOrdersExist, TypeOK, PaymentRow
    <2> QED
      BY <2>1, <2>2, <2>3 DEF Linked
  <1>8. ASSUME NEW k \in PaymentIds, RefundMoney(k) PROVE Linked'
    <2>1. PendingPassesAreElite'
      BY <1>8, RefundHasPass, RefundEffect DEF Linked, PendingPassesAreElite
    <2>2. PaymentsHavePass'
      BY <1>2, <1>8 DEF RefundMoney, TypeOK, PaymentRow
    <2>3. PaidOrdersExist'
      BY <1>8 DEF RefundMoney, Linked, PaidOrdersExist, TypeOK, PaymentRow
    <2> QED
      BY <2>1, <2>2, <2>3 DEF Linked
  <1>9. ASSUME NEW m \in MembershipIds, Leave(m) PROVE Linked'
    <2>1. CASE UNCHANGED <<pass, payment, order>>
      BY <1>2, <1>3, <2>1 DEF Linked, PaidOrdersExist
    <2> QED
      BY <1>8, <1>9, <2>1 DEF Leave, RefundedByLeaving
  <1>10. ASSUME NEW p \in PassIds, ExpirePass(p) PROVE Linked'
    BY <1>2, <1>10 DEF ExpirePass, Linked, PaidOrdersExist, PendingPassesAreElite, TypeOK, PassRow
  <1>11. CASE Bystander
    BY <1>2, <1>3, <1>11 DEF Bystander, Linked, PaidOrdersExist
  <1> QED
    BY <1>4, <1>5, <1>6, <1>7, <1>8, <1>9, <1>10, <1>11, StepCases DEF Refund

LEMMA LinkedHolds == Spec => []Linked
  <1>1. Init => Linked
    BY DEF Init, TablesInit, Linked, PaymentsHavePass, PaidOrdersExist, PendingPassesAreElite
  <1>2. TypeOK /\ Linked /\ [Next]_tables => Linked'
    BY LinkedKept
  <1> QED
    BY <1>1, <1>2, TypeCorrect, PTL DEF Spec

-----------------------------------------------------------------------------
(* An active member rides on an ACTIVE pass of their own. *)

\* A membership that is not touched keeps its pass if that stays ACTIVE.
Rides(m) ==
    membership[m].status = "ACTIVE" =>
        LET p == membership[m].pass IN
        p # 0 /\ pass[p].status = "ACTIVE" /\ HolderOf(p) = MemberOf(m)

LEMMA RidesKept ==
    ASSUME TypeOK, PassesKeepHolder, NEW m \in MembershipIds, Rides(m),
           membership'[m] = membership[m],
           membership[m].status = "ACTIVE" => pass'[membership[m].pass].status = "ACTIVE"
    PROVE  Rides(m)'
  <1>1. membership[m].pass \in {0} \cup PassIds
    BY DEF TypeOK, MembershipRow
  <1> QED
    BY <1>1 DEF Rides, PassesKeepHolder, HolderOf, MemberOf

\* An active membership on a pass that ends in a step ends in the same step:
\* whatever refund, expiry or upgrade ends a pass finds all its riders, and a join,
\* a payment or an extension hands out an ACTIVE pass of the person.
THEOREM MembersRideOnActivePass == Spec => []RidesOnActivePass
  <1>1. Init => RidesOnActivePass
    BY DEF Init, TablesInit, RidesOnActivePass
  <1>2. TypeOK /\ Linked /\ RidesOnActivePass /\ [Next]_tables => RidesOnActivePass'
    <2> SUFFICES ASSUME TypeOK, Linked, RidesOnActivePass, [Next]_tables,
                        NEW n \in MembershipIds
                 PROVE  Rides(n)'
      BY DEF RidesOnActivePass, Rides, HolderOf, MemberOf
    <2>0. PassesKeepHolder /\ Rides(n)
      BY HoldersKept DEF RidesOnActivePass, Rides
    <2>0a. membership[n].status = "ACTIVE" =>
             membership[n].pass \in PassIds /\ pass[membership[n].pass].status = "ACTIVE"
      BY <2>0 DEF TypeOK, MembershipRow, Rides
    <2>1. ASSUME NEW i \in Posts, NEW c \in Collectives, Join(i, c) PROVE Rides(n)'
      <3>1. PICK m \in MembershipFor(i, c) \cap MembershipIds, p \in {0} \cup PassIds :
             /\ membership[m].status # "ACTIVE"
             /\ membership' = [membership EXCEPT ![m] =
                                 [status |-> IF p = 0 THEN "PENDING_PAYMENT" ELSE "ACTIVE",
                                  collective |-> c, post |-> i, pass |-> p]]
             /\ \/ pass' = pass /\ (p # 0 => p \in LongestElite(Owner[i]))
                \/ /\ p # 0 /\ pass[p].status = "NONE"
                   /\ pass' = [pass EXCEPT ![p] = [status |-> "ACTIVE", plan |-> "FREE", post |-> i,
                                                   expiresAt |-> now + FreeDays, payment |-> 0]]
        BY <2>1, JoinEffect
      <3>2. CASE n = m
        <4>1. membership'[n] = [status |-> IF p = 0 THEN "PENDING_PAYMENT" ELSE "ACTIVE",
                                collective |-> c, post |-> i, pass |-> p]
          BY <3>1, <3>2 DEF TypeOK
        <4>2. p # 0 => pass'[p].status = "ACTIVE" /\ Owner[pass'[p].post] = Owner[i]
          BY <3>1 DEF LongestElite, UsableElites, HolderOf, TypeOK
        <4> QED
          BY <4>1, <4>2 DEF Rides, HolderOf, MemberOf
      <3>3. CASE n # m
        <4>1. membership'[n] = membership[n]
          BY <3>1, <3>3 DEF TypeOK
        <4>2. membership[n].status = "ACTIVE" => pass'[membership[n].pass].status = "ACTIVE"
          BY <2>0, <2>0a, <3>1 DEF Rides, TypeOK
        <4> QED
          BY <2>0, <4>1, <4>2, RidesKept
      <3> QED
        BY <3>2, <3>3
    <2>2. ASSUME NEW i \in Posts, NEW c \in Collectives, CreatePayment(i, c) PROVE Rides(n)'
      <3>1. membership[n].status = "ACTIVE" => pass'[membership[n].pass].status = "ACTIVE"
        BY <2>0, <2>0a, <2>2, CreatePaymentEffect DEF Rides, TypeOK
      <3> QED
        BY <2>0, <2>2, <3>1, RidesKept DEF CreatePayment
    <2>3. ASSUME membership'[n] = membership[n], pass' = pass PROVE Rides(n)'
      BY <2>0, <2>3, RidesKept DEF Rides
    <2>4. ASSUME NEW k \in PaymentIds, CheckoutFor(k) \/ CustomerPays(k) \/ PaymentFailed(k)
          PROVE  Rides(n)'
      BY <2>3, <2>4 DEF CheckoutFor, CustomerPays, PaymentFailed
    <2>5. ASSUME NEW k \in PaymentIds, Activate(k) PROVE Rides(n)'
      <3> DEFINE p == payment[k].pass
      <3>1. p # 0 /\ p \in PassIds /\ HolderOf(p) = PayerOf(k)
        BY <2>5, ActivateHasPass
      <3>2. /\ pass'[p].status = "ACTIVE" /\ pass'[p].post = pass[p].post
            /\ \A q \in PassIds \ {p} : pass'[q] = pass[q] \/ q \in EndedFreePasses(k)
        BY <2>5, ActivateHasPass, ActivateEffect
      <3>3. CASE n \in MovedMemberships(k)
        <4>1. membership'[n] = [membership[n] EXCEPT !.status = "ACTIVE", !.pass = p]
          BY <2>5, <3>3 DEF Activate
        <4>2. membership'[n].pass = p /\ membership'[n].post = membership[n].post
          BY <4>1 DEF TypeOK, MembershipRow
        <4>3. Owner[membership[n].post] = PayerOf(k)
          BY <3>3 DEF MovedMemberships, LiveMemberships, MemberOf
        <4> QED
          BY <3>1, <3>2, <4>2, <4>3 DEF Rides, HolderOf, MemberOf
      <3>4. CASE n \notin MovedMemberships(k)
        <4>1. membership'[n] = membership[n]
          BY <2>5, <3>4 DEF Activate
        <4>2. ASSUME membership[n].status = "ACTIVE", membership[n].pass # p
              PROVE  membership[n].pass \notin EndedFreePasses(k)
          <5>1. MemberOf(n) # PayerOf(k)
            BY <3>4, <4>2 DEF MovedMemberships, LiveMemberships, Live, Riders
          <5> QED
            BY <2>0, <4>2, <5>1 DEF Rides, EndedFreePasses
        <4>3. membership[n].status = "ACTIVE" => pass'[membership[n].pass].status = "ACTIVE"
          BY <2>0, <2>0a, <3>2, <4>2 DEF Rides
        <4> QED
          BY <2>0, <4>1, <4>3, RidesKept
      <3> QED
        BY <3>3, <3>4
    <2>6. ASSUME NEW riders, NEW status \in {"LEFT", "EXPIRED", "REFUNDED"}, EndRiders(riders, status),
                 n \notin riders /\ membership[n].status = "ACTIVE"
                    => pass'[membership[n].pass].status = "ACTIVE"
          PROVE  Rides(n)'
      <3>1. CASE n \in riders
        <4>1. membership'[n] = [membership[n] EXCEPT !.status = status]
          BY <2>6, <3>1 DEF EndRiders
        <4>2. membership'[n].status # "ACTIVE"
          BY <4>1 DEF TypeOK, MembershipRow
        <4> QED
          BY <4>2 DEF Rides
      <3>2. CASE n \notin riders
        <4>1. membership'[n] = membership[n]
          BY <2>6, <3>2 DEF EndRiders
        <4> QED
          BY <2>0, <2>6, <3>2, <4>1, RidesKept
      <3> QED
        BY <3>1, <3>2
    <2>7. ASSUME NEW k \in PaymentIds, Refund(k) PROVE Rides(n)'
      <3>1. RefundMoney(k) /\ EndRiders(IF IsExtension(k) THEN {} ELSE Riders(payment[k].pass), "REFUNDED")
        BY <2>7 DEF Refund
      <3>2. ASSUME n \notin (IF IsExtension(k) THEN {} ELSE Riders(payment[k].pass)),
                   membership[n].status = "ACTIVE"
            PROVE  pass'[membership[n].pass].status = "ACTIVE"
        BY <2>0, <2>0a, <3>1, <3>2, RefundHasPass, RefundEffect DEF Rides, Riders
      <3> QED
        BY <2>6, <3>1, <3>2
    <2>8. ASSUME NEW m \in MembershipIds, Leave(m) PROVE Rides(n)'
      <3>1. EndRiders({m}, "LEFT")
        BY <2>8 DEF Leave
      <3>2. ASSUME n # m, membership[n].status = "ACTIVE"
            PROVE  pass'[membership[n].pass].status = "ACTIVE"
        <4>1. CASE pass' = pass
          BY <2>0, <3>2, <4>1 DEF Rides
        <4>2. ASSUME NEW k \in RefundedByLeaving(m), RefundMoney(k)
              PROVE  pass'[membership[n].pass].status = "ACTIVE"
          <5>1. k \in PaymentIds /\ payment[k].pass = membership[m].pass /\ Riders(membership[m].pass) \subseteq {m}
            BY DEF RefundedByLeaving
          <5>2. membership[n].pass # payment[k].pass
            BY <3>2, <5>1 DEF Riders
          <5> QED
            BY <2>0, <2>0a, <3>2, <4>2, <5>1, <5>2, RefundHasPass, RefundEffect DEF Rides
        <4> QED
          BY <2>8, <4>1, <4>2 DEF Leave
      <3> QED
        BY <2>6, <3>1, <3>2
    <2>9. ASSUME NEW p \in PassIds, ExpirePass(p) PROVE Rides(n)'
      <3>1. n \notin Riders(p) /\ membership[n].status = "ACTIVE"
              => pass'[membership[n].pass].status = "ACTIVE"
        BY <2>0, <2>0a, <2>9 DEF ExpirePass, Riders, Rides, TypeOK
      <3> QED
        BY <2>6, <2>9, <3>1 DEF ExpirePass
    <2>10. CASE Bystander
      BY <2>3, <2>10 DEF Bystander
    <2> QED
      BY <2>1, <2>2, <2>4, <2>5, <2>7, <2>8, <2>9, <2>10, StepCases
  <1> QED
    BY <1>1, <1>2, TypeCorrect, LinkedHolds, PTL DEF Spec

-----------------------------------------------------------------------------
(* Elite is paid for, and ends by refund only. *)

Paid(p) ==
    pass[p].plan = "ELITE" /\ pass[p].status = "ACTIVE" =>
        LET k == pass[p].payment IN
        k # 0 /\ payment[k].status = "SUCCESS" /\ payment[k].pass = p

LEMMA PaidKept ==
    ASSUME TypeOK, NEW p \in PassIds, Paid(p),
           pass'[p].plan = pass[p].plan, pass'[p].payment = pass[p].payment,
           pass'[p].status = "ACTIVE" => pass[p].status = "ACTIVE",
           LET k == pass[p].payment IN
           k \in PaymentIds /\ payment[k].status = "SUCCESS" =>
             \/ payment'[k].status = "SUCCESS" /\ payment'[k].pass = payment[k].pass
             \/ pass'[p].status # "ACTIVE"
    PROVE  Paid(p)'
  <1>1. pass[p].payment \in {0} \cup PaymentIds
    BY DEF TypeOK, PassRow
  <1> QED
    BY <1>1 DEF Paid

LEMMA PaidStep == TypeOK /\ Linked /\ PaidElite /\ [Next]_tables => PaidElite'
  <1> SUFFICES ASSUME TypeOK, Linked, PaidElite, [Next]_tables, NEW q \in PassIds
               PROVE  Paid(q)'
    BY DEF PaidElite, Paid
  <1>0. Paid(q) /\ pass[q].payment \in {0} \cup PaymentIds
    BY DEF PaidElite, Paid, TypeOK, PassRow
  <1>1. ASSUME NEW i \in Posts, NEW c \in Collectives, Join(i, c) PROVE Paid(q)'
    <2>1. payment' = payment
      BY <1>1 DEF Join
    <2>2. CASE pass' = pass
      BY <1>0, <2>1, <2>2 DEF Paid
    <2>3. CASE pass' # pass
      BY <1>0, <1>1, <2>1, <2>3, JoinEffect DEF Paid, TypeOK
    <2> QED
      BY <2>2, <2>3
  <1>2. ASSUME NEW i \in Posts, NEW c \in Collectives, CreatePayment(i, c) PROVE Paid(q)'
    BY <1>0, <1>2, CreatePaymentEffect DEF Paid, TypeOK
  <1>3. ASSUME NEW k \in PaymentIds, CheckoutFor(k) \/ PaymentFailed(k) PROVE Paid(q)'
    BY <1>0, <1>3, PaidKept DEF CheckoutFor, PaymentFailed, TypeOK, PaymentRow
  <1>4. ASSUME NEW k \in PaymentIds, Activate(k) PROVE Paid(q)'
    <2> DEFINE p == payment[k].pass
    <2>1. payment'[k].status = "SUCCESS" /\ \A j \in PaymentIds : payment'[j].pass = payment[j].pass
      BY <1>4 DEF Activate, TypeOK, PaymentRow
    <2>2. \A j \in PaymentIds : payment[j].status = "SUCCESS" => payment'[j].status = "SUCCESS"
      BY <1>4 DEF Activate, TypeOK, PaymentRow
    <2>3. CASE q = p /\ pass[p].status # "ACTIVE"
      <3>1. pass'[q].payment = k
        BY <1>4, <2>3, ActivateHasPass, ActivateEffect
      <3>2. k # 0
        BY DEF PaymentIds
      <3> QED
        BY <2>1, <2>3, <3>1, <3>2 DEF Paid
    <2>4. CASE q # p \/ pass[p].status = "ACTIVE"
      <3>1. /\ pass'[q].plan = pass[q].plan /\ pass'[q].payment = pass[q].payment
            /\ pass'[q].status = "ACTIVE" => pass[q].status = "ACTIVE"
        BY <1>4, <2>4, ActivateHasPass, ActivateEffect
      <3> QED
        BY <1>0, <2>1, <2>2, <3>1, PaidKept
    <2> QED
      BY <2>3, <2>4
  <1>5. ASSUME NEW k \in PaymentIds, RefundMoney(k) PROVE Paid(q)'
    <2>1. \A j \in PaymentIds \ {k} : payment'[j] = payment[j]
      BY <1>5 DEF RefundMoney, TypeOK
    <2>2. /\ pass'[q].plan = pass[q].plan /\ pass'[q].payment = pass[q].payment
          /\ pass'[q].status = "ACTIVE" => pass[q].status = "ACTIVE"
      BY <1>5, RefundHasPass, RefundEffect
    <2>3. CASE pass[q].payment # k
      BY <1>0, <2>1, <2>2, <2>3, PaidKept
    <2>4. CASE pass[q].payment = k /\ pass[q].plan = "ELITE" /\ pass[q].status = "ACTIVE"
      <3>1. payment[k].pass = q /\ ~IsExtension(k)
        BY <1>0, <2>4 DEF Paid, IsExtension
      <3>2. pass'[q].status = "REFUNDED"
        BY <1>5, <2>4, <3>1, RefundHasPass, RefundEffect
      <3> QED
        BY <3>2 DEF Paid
    <2>5. CASE ~(pass[q].plan = "ELITE" /\ pass[q].status = "ACTIVE")
      BY <2>2, <2>5 DEF Paid
    <2> QED
      BY <2>3, <2>4, <2>5
  <1>6. ASSUME NEW m \in MembershipIds, Leave(m) PROVE Paid(q)'
    <2>1. CASE UNCHANGED <<pass, payment, order>>
      BY <1>0, <2>1 DEF Paid
    <2> QED
      BY <1>5, <1>6, <2>1 DEF Leave, RefundedByLeaving
  <1>7. ASSUME NEW p \in PassIds, ExpirePass(p) PROVE Paid(q)'
    BY <1>0, <1>7 DEF ExpirePass, Paid, TypeOK, PassRow
  <1>8. CASE UNCHANGED <<pass, payment>>
    BY <1>0, <1>8 DEF Paid
  <1> QED
    BY <1>1, <1>2, <1>3, <1>4, <1>5, <1>6, <1>7, <1>8, StepCases DEF Bystander, Refund, CustomerPays

\* The payment that started an active Elite Pass is for that pass and stands: no
\* sequence of late webhooks, verifications, failed attempts, extensions and refunds
\* leaves Elite running on a payment that failed or was refunded.
THEOREM EliteIsPaid == Spec => []PaidElite
  <1>1. Init => PaidElite
    BY DEF Init, TablesInit, PaidElite
  <1>2. TypeOK /\ Linked /\ PaidElite /\ [Next]_tables => PaidElite'
    BY PaidStep
  <1> QED
    BY <1>1, <1>2, TypeCorrect, LinkedHolds, PTL DEF Spec

EliteStepOK(p) ==
    pass[p].plan = "ELITE" /\ pass[p].status = "ACTIVE" /\ pass[p].expiresAt > now
        /\ pass'[p].status # "ACTIVE"
      => payment'[pass[p].payment].status = "REFUNDED"

\* An Elite Pass that still runs ends in a step that refunds the payment which started
\* it, and in no other.
THEOREM OnlyRefundEndsElite == Spec => EliteEndsOnlyByRefund
  <1>1. TypeOK /\ Linked /\ PaidElite /\ [Next]_tables
          => \A p \in PassIds : EliteStepOK(p)
    <2> SUFFICES ASSUME TypeOK, Linked, PaidElite, [Next]_tables, NEW q \in PassIds,
                        pass[q].plan = "ELITE", pass[q].status = "ACTIVE",
                        pass[q].expiresAt > now, pass'[q].status # "ACTIVE"
                 PROVE  payment'[pass[q].payment].status = "REFUNDED"
      BY DEF EliteStepOK
    <2>1. pass[q].payment \in PaymentIds /\ payment[pass[q].payment].pass = q
      BY DEF PaidElite, TypeOK, PassRow
    <2>2. ASSUME NEW k \in PaymentIds, RefundMoney(k)
          PROVE  payment'[pass[q].payment].status = "REFUNDED"
      <3>1. payment[k].pass = q /\ ~IsExtension(k)
        BY <2>2, RefundHasPass, RefundEffect
      <3>2. pass[q].payment = k
        BY <2>1, <3>1 DEF IsExtension, PaymentIds
      <3> QED
        BY <2>2, <3>2 DEF RefundMoney, TypeOK, PaymentRow
    <2>3. ASSUME NEW i \in Posts, NEW c \in Collectives, Join(i, c) PROVE FALSE
      BY <2>3, JoinEffect DEF TypeOK
    <2>4. ASSUME NEW i \in Posts, NEW c \in Collectives, CreatePayment(i, c) PROVE FALSE
      BY <2>4, CreatePaymentEffect DEF TypeOK
    <2>5. ASSUME NEW k \in PaymentIds, Activate(k) PROVE FALSE
      BY <2>5, ActivateHasPass, ActivateEffect DEF EndedFreePasses
    <2>6. ASSUME NEW m \in MembershipIds, Leave(m)
          PROVE  payment'[pass[q].payment].status = "REFUNDED"
      BY <2>2, <2>6 DEF Leave, RefundedByLeaving
    <2>7. ASSUME NEW p \in PassIds, ExpirePass(p) PROVE FALSE
      <3>1. now \in Nat /\ pass[q].expiresAt \in Nat
        BY DEF TypeOK, PassRow
      <3> QED
        BY <2>7, <3>1 DEF ExpirePass, Due, TypeOK
    <2>8. CASE pass' = pass
      BY <2>8
    <2> QED
      BY <2>2, <2>3, <2>4, <2>5, <2>6, <2>7, <2>8, StepCases
         DEF Bystander, Refund, CustomerPays, CheckoutFor, PaymentFailed
  <1>2. TypeOK /\ Linked /\ PaidElite /\ [Next]_tables
          => [\A p \in PassIds :
                pass[p].plan = "ELITE" /\ pass[p].status = "ACTIVE" /\ pass[p].expiresAt > now
                  /\ pass'[p].status # "ACTIVE"
                => payment'[pass[p].payment].status = "REFUNDED"]_tables
    BY <1>1 DEF EliteStepOK
  <1> QED
    BY <1>2, TypeCorrect, LinkedHolds, EliteIsPaid, PTL DEF Spec, EliteEndsOnlyByRefund

-----------------------------------------------------------------------------
(* An upgrade never shortens access. *)

\* A Free Pass is never extended: what is left of it is no longer than one.
FreeIsBrief ==
    \A p \in PassIds : pass[p].plan = "FREE" /\ pass[p].status = "ACTIVE" =>
        pass[p].expiresAt <= now + FreeDays

\* What a step does to Free Passes: it leaves one as it is, or ends it.
FreePassesStay ==
    \A p \in PassIds : pass'[p].plan = "FREE" /\ pass'[p].status = "ACTIVE" =>
        pass'[p] = pass[p] \/ pass'[p].expiresAt = now + FreeDays

\* A payment is for an Elite Pass, so the one it activates was Elite before.
LEMMA FreePassesStayed == TypeOK /\ Linked /\ [Next]_tables => FreePassesStay
  <1> SUFFICES ASSUME TypeOK, Linked, [Next]_tables, NEW q \in PassIds,
                      pass'[q].plan = "FREE", pass'[q].status = "ACTIVE"
               PROVE  pass'[q] = pass[q] \/ pass'[q].expiresAt = now + FreeDays
    BY DEF FreePassesStay
  <1>1. ASSUME NEW i \in Posts, NEW c \in Collectives, Join(i, c)
        PROVE  pass'[q] = pass[q] \/ pass'[q].expiresAt = now + FreeDays
    BY <1>1, JoinEffect DEF TypeOK
  <1>2. ASSUME NEW i \in Posts, NEW c \in Collectives, CreatePayment(i, c)
        PROVE  pass'[q] = pass[q]
    BY <1>2, CreatePaymentEffect DEF TypeOK
  <1>3. ASSUME NEW k \in PaymentIds, Activate(k) PROVE pass'[q] = pass[q]
    <2>1. CASE q = payment[k].pass
      BY <1>3, <2>1, ActivateHasPass, ActivateEffect
    <2>2. CASE q # payment[k].pass
      BY <1>3, <2>2, ActivateHasPass, ActivateEffect
    <2> QED
      BY <2>1, <2>2
  <1>4. ASSUME NEW k \in PaymentIds, RefundMoney(k) PROVE pass'[q] = pass[q]
    <2>1. /\ payment[k].pass # 0 /\ payment[k].pass \in PassIds
          /\ pass[payment[k].pass].plan = "ELITE"
      BY <1>4, RefundHasPass DEF RefundMoney, Linked, PaymentsHavePass
    <2> QED
      BY <1>4, <2>1, RefundEffect
  <1>5. ASSUME NEW p \in PassIds, ExpirePass(p) PROVE pass'[q] = pass[q]
    BY <1>5 DEF ExpirePass, TypeOK, PassRow
  <1>6. CASE pass' = pass
    BY <1>6
  <1>7. ASSUME NEW m \in MembershipIds, Leave(m) PROVE pass'[q] = pass[q]
    BY <1>4, <1>6, <1>7 DEF Leave, RefundedByLeaving
  <1> QED
    BY <1>1, <1>2, <1>3, <1>4, <1>5, <1>6, <1>7, StepCases
       DEF Bystander, Refund, CustomerPays, CheckoutFor, PaymentFailed

LEMMA FreeIsBriefHolds == Spec => []FreeIsBrief
  <1>1. Init => FreeIsBrief
    BY DEF Init, TablesInit, FreeIsBrief
  <1>2. TypeOK /\ Linked /\ FreeIsBrief /\ [Next]_tables => FreeIsBrief'
    <2> SUFFICES ASSUME TypeOK, Linked, FreeIsBrief, [Next]_tables, NEW q \in PassIds,
                        pass'[q].plan = "FREE", pass'[q].status = "ACTIVE"
                 PROVE  pass'[q].expiresAt <= now' + FreeDays
      BY DEF FreeIsBrief
    <2>1. pass'[q] = pass[q] \/ pass'[q].expiresAt = now + FreeDays
      BY FreePassesStayed DEF FreePassesStay
    <2>2. now \in Nat /\ now' \in Nat /\ pass[q].expiresAt \in Nat
      BY NextTypeOK DEF TypeOK, PassRow
    <2>3. now <= now'
      <3>1. now' = now \/ now' = now + 1
        BY StepCases, Zenon
           DEF Bystander, Join, CreatePayment, CheckoutFor, CustomerPays, Activate, PaymentFailed,
               Refund, Leave, ExpirePass
      <3> QED
        BY <2>2, <3>1
    <2>4. pass[q].plan = "FREE" /\ pass[q].status = "ACTIVE" => pass[q].expiresAt <= now + FreeDays
      BY DEF FreeIsBrief
    <2> QED
      BY <2>1, <2>2, <2>3, <2>4
  <1> QED
    BY <1>1, <1>2, TypeCorrect, LinkedHolds, PTL DEF Spec

\* A payment that ends another pass starts an Elite Pass of the same person, EliteDays
\* long.
LEMMA UpgradeStarts ==
    ASSUME TypeOK, Linked, NEW k \in PaymentIds, Activate(k), NEW f \in PassIds,
           pass[f].status = "ACTIVE", pass'[f].status # "ACTIVE"
    PROVE  LET p == payment[k].pass IN
           /\ p \in PassIds
           /\ pass'[p].plan = "ELITE" /\ pass'[p].status = "ACTIVE"
           /\ pass'[p].expiresAt = now + EliteDays
           /\ Owner[pass'[p].post] = HolderOf(f)
  <1> DEFINE p == payment[k].pass
  <1>1. /\ p # 0 /\ p \in PassIds /\ pass[p].plan = "ELITE" /\ HolderOf(p) = PayerOf(k)
        /\ pass'[p].status = "ACTIVE" /\ pass'[p].post = pass[p].post /\ pass'[p].plan = "ELITE"
    BY ActivateHasPass, ActivateEffect
  <1>2. f # p /\ f \in EndedFreePasses(k)
    BY <1>1, ActivateEffect
  <1>3. HolderOf(f) = PayerOf(k)
    BY <1>2 DEF EndedFreePasses
  <1>4. pass' = PassesAfterPayment(k)
    BY Zenon DEF Activate
  <1>5. pass \in [PassIds -> PassRow]
    BY DEF TypeOK
  <1>6. ~Extending(k) /\ pass[p].status # "ACTIVE"
    <2>1. ASSUME Extending(k) PROVE FALSE
      <3>1. pass' = [pass EXCEPT ![p].expiresAt = ExtendedExpiry(@)]
        BY <1>4, <2>1 DEF PassesAfterPayment
      <3> QED
        BY <1>2, <1>5, <3>1
    <2>2. ASSUME ~Extending(k), pass[p].status = "ACTIVE" PROVE FALSE
      BY <1>4, <2>2 DEF PassesAfterPayment
    <2> QED
      BY <2>1, <2>2
  <1>7. pass'[p].expiresAt = now + EliteDays
    <2>1. pass' = [q \in PassIds |->
              IF q = p THEN [pass[p] EXCEPT !.status = "ACTIVE", !.plan = "ELITE",
                                            !.expiresAt = now + EliteDays, !.payment = k]
              ELSE IF q \in EndedFreePasses(k)
              THEN [pass[q] EXCEPT !.status = "EXPIRED", !.expiresAt = now]
              ELSE pass[q]]
      BY <1>4, <1>6, Zenon DEF PassesAfterPayment
    <2>2. pass'[p] = [pass[p] EXCEPT !.status = "ACTIVE", !.plan = "ELITE",
                                     !.expiresAt = now + EliteDays, !.payment = k]
      BY <1>1, <2>1, Zenon
    <2> DEFINE days == now + EliteDays
    <2>3. pass[p] \in PassRow
      BY <1>1, <1>5
    <2> HIDE DEF days, p
    <2>4. [pass[p] EXCEPT !.status = "ACTIVE", !.plan = "ELITE",
                          !.expiresAt = days, !.payment = k].expiresAt = days
      BY <2>3 DEF PassRow
    <2> QED
      BY <2>2, <2>4, Zenon DEF days
  <1> QED
    BY <1>1, <1>3, <1>7 DEF HolderOf

UpgradeStepOK(p) ==
    pass[p].plan = "FREE" /\ pass[p].status = "ACTIVE" /\ pass[p].expiresAt > now
        /\ pass'[p].status # "ACTIVE"
      => \E q \in PassIds : /\ pass'[q].plan = "ELITE" /\ pass'[q].status = "ACTIVE"
                            /\ Owner[pass'[q].post] = HolderOf(p)
                            /\ pass'[q].expiresAt >= pass[p].expiresAt

\* If an Elite Pass is no shorter than a Free Pass, which the defaults say and nothing
\* enforces, a Free Pass that runs ends only by the start of an Elite Pass of the same
\* person that ends no earlier: refunds and leaving do not reach it.
THEOREM UpgradeKeepsDays ==
    ASSUME FreeDays <= EliteDays PROVE Spec => UpgradeNeverShortens
  <1>1. TypeOK /\ Linked /\ FreeIsBrief /\ [Next]_tables => \A p \in PassIds : UpgradeStepOK(p)
    <2> SUFFICES ASSUME TypeOK, Linked, FreeIsBrief, [Next]_tables, NEW q \in PassIds,
                        pass[q].plan = "FREE", pass[q].status = "ACTIVE",
                        pass[q].expiresAt > now, pass'[q].status # "ACTIVE"
                 PROVE  \E p \in PassIds : /\ pass'[p].plan = "ELITE" /\ pass'[p].status = "ACTIVE"
                                           /\ Owner[pass'[p].post] = HolderOf(q)
                                           /\ pass'[p].expiresAt >= pass[q].expiresAt
      BY DEF UpgradeStepOK
    <2>0. now \in Nat /\ pass[q].expiresAt \in Nat /\ pass[q].expiresAt <= now + FreeDays
      BY DEF FreeIsBrief, TypeOK, PassRow
    <2>1. ASSUME NEW k \in PaymentIds, Activate(k)
          PROVE  \E p \in PassIds : /\ pass'[p].plan = "ELITE" /\ pass'[p].status = "ACTIVE"
                                    /\ Owner[pass'[p].post] = HolderOf(q)
                                    /\ pass'[p].expiresAt >= pass[q].expiresAt
      <3>1. now + EliteDays >= pass[q].expiresAt
        BY <2>0
      <3> QED
        BY <2>1, <3>1, UpgradeStarts
    <2>2. ASSUME NEW k \in PaymentIds, RefundMoney(k) PROVE FALSE
      <3>1. /\ payment[k].pass # 0 /\ payment[k].pass \in PassIds
            /\ pass[payment[k].pass].plan = "ELITE"
        BY <2>2, RefundHasPass DEF RefundMoney, Linked, PaymentsHavePass
      <3> QED
        BY <2>2, <3>1, RefundEffect
    <2>3. ASSUME NEW i \in Posts, NEW c \in Collectives, Join(i, c) PROVE FALSE
      BY <2>3, JoinEffect DEF TypeOK
    <2>4. ASSUME NEW i \in Posts, NEW c \in Collectives, CreatePayment(i, c) PROVE FALSE
      BY <2>4, CreatePaymentEffect DEF TypeOK
    <2>5. ASSUME NEW p \in PassIds, ExpirePass(p) PROVE FALSE
      BY <2>0, <2>5 DEF ExpirePass, Due, TypeOK
    <2>6. ASSUME pass' = pass PROVE FALSE
      BY <2>6
    <2>7. ASSUME NEW m \in MembershipIds, Leave(m) PROVE FALSE
      BY <2>2, <2>6, <2>7 DEF Leave, RefundedByLeaving
    <2> QED
      BY <2>1, <2>2, <2>3, <2>4, <2>5, <2>6, <2>7, StepCases
         DEF Bystander, Refund, CustomerPays, CheckoutFor, PaymentFailed
  <1>2. TypeOK /\ Linked /\ FreeIsBrief /\ [Next]_tables
          => [\A p \in PassIds :
                pass[p].plan = "FREE" /\ pass[p].status = "ACTIVE" /\ pass[p].expiresAt > now
                  /\ pass'[p].status # "ACTIVE"
                => \E q \in PassIds : /\ pass'[q].plan = "ELITE" /\ pass'[q].status = "ACTIVE"
                                      /\ Owner[pass'[q].post] = HolderOf(p)
                                      /\ pass'[q].expiresAt >= pass[p].expiresAt]_tables
    BY <1>1 DEF UpgradeStepOK
  <1> QED
    BY <1>2, TypeCorrect, LinkedHolds, FreeIsBriefHolds, PTL DEF Spec, UpgradeNeverShortens

-----------------------------------------------------------------------------
(* One Free Pass per person and car+city. *)

\* No step starts a Free Pass.
NoFreeStart ==
    \A p \in PassIds : pass'[p].plan = "FREE" /\ pass'[p].status # "NONE" =>
        /\ pass[p].plan = "FREE" /\ pass[p].status # "NONE"
        /\ pass'[p].post = pass[p].post

LEMMA FreePassesApart ==
    ASSUME OneFreePassPerScope, NoFreeStart PROVE OneFreePassPerScope'
  BY DEF OneFreePassPerScope, NoFreeStart, HolderOf

\* A Free Pass that starts is the person's first in that car+city.
LEMMA FirstFreePass ==
    ASSUME TypeOK, Linked, OneFreePassPerScope, NEW i \in Posts, NEW p \in PassIds,
           pass[p].status = "NONE", ~FreePassUsed(Owner[i], Scope[i]),
           pass' = [pass EXCEPT ![p] = [status |-> "ACTIVE", plan |-> "FREE", post |-> i,
                                        expiresAt |-> now + FreeDays, payment |-> 0]]
    PROVE  OneFreePassPerScope'
  <1>1. pass'[p].post = i /\ \A q \in PassIds \ {p} : pass'[q] = pass[q]
    BY DEF TypeOK
  <1>2. ASSUME NEW q \in PassIds \ {p}, pass[q].plan = "FREE", pass[q].status # "NONE",
               HolderOf(q) = Owner[i]
        PROVE  Scope[pass[q].post] # Scope[i]
    <2>1. pass[q].status # "PENDING"
      BY <1>2 DEF Linked, PendingPassesAreElite
    <2> QED
      BY <1>2, <2>1 DEF FreePassUsed
  <1>3. ASSUME NEW q \in PassIds, NEW r \in PassIds, q # r,
               pass'[q].plan = "FREE", pass'[q].status # "NONE",
               pass'[r].plan = "FREE", pass'[r].status # "NONE",
               Owner[pass'[q].post] = Owner[pass'[r].post]
        PROVE  Scope[pass'[q].post] # Scope[pass'[r].post]
    <2>1. CASE q = p
      BY <1>1, <1>2, <1>3, <2>1 DEF HolderOf
    <2>2. CASE r = p
      BY <1>1, <1>2, <1>3, <2>2 DEF HolderOf
    <2>3. CASE q # p /\ r # p
      BY <1>1, <1>3, <2>3 DEF OneFreePassPerScope, HolderOf
    <2> QED
      BY <2>1, <2>2, <2>3
  <1> QED
    BY <1>3 DEF OneFreePassPerScope, HolderOf

LEMMA FreePassesKept == TypeOK /\ Linked /\ OneFreePassPerScope /\ [Next]_tables => OneFreePassPerScope'
  <1> SUFFICES ASSUME TypeOK, Linked, OneFreePassPerScope, [Next]_tables PROVE OneFreePassPerScope'
    OBVIOUS
  <1>1. ASSUME NoFreeStart PROVE OneFreePassPerScope'
    BY <1>1, FreePassesApart
  <1>2. ASSUME NEW i \in Posts, NEW c \in Collectives, Join(i, c) PROVE OneFreePassPerScope'
    <2>1. CASE pass' = pass
      BY <1>1, <2>1 DEF NoFreeStart
    <2> QED
      BY <1>1, <1>2, <2>1, JoinEffect, FirstFreePass
  <1>3. ASSUME NEW i \in Posts, NEW c \in Collectives, CreatePayment(i, c) PROVE OneFreePassPerScope'
    <2>1. \A p \in PassIds : pass'[p] = pass[p] \/ pass'[p].plan = "ELITE"
      BY <1>3, CreatePaymentEffect DEF TypeOK
    <2> QED
      BY <1>1, <2>1 DEF NoFreeStart
  <1>4. ASSUME NEW k \in PaymentIds, Activate(k) PROVE OneFreePassPerScope'
    <2>1. \A p \in PassIds : /\ pass'[p].post = pass[p].post
                             /\ pass'[p].plan = "FREE" => pass[p].plan = "FREE"
                             /\ pass[p].status = "NONE" => pass'[p].plan = "ELITE" \/ pass'[p] = pass[p]
      BY <1>4, ActivateHasPass, ActivateEffect DEF EndedFreePasses
    <2> QED
      BY <1>1, <2>1 DEF NoFreeStart
  <1>5. ASSUME NEW k \in PaymentIds, RefundMoney(k) PROVE OneFreePassPerScope'
    <2>1. \A p \in PassIds : /\ pass'[p].post = pass[p].post /\ pass'[p].plan = pass[p].plan
                             /\ pass[p].status = "NONE" => pass'[p].status = "NONE"
      BY <1>5, RefundHasPass, RefundEffect
    <2> QED
      BY <1>1, <2>1 DEF NoFreeStart
  <1>6. ASSUME NEW m \in MembershipIds, Leave(m) PROVE OneFreePassPerScope'
    <2>1. CASE pass' = pass
      BY <1>1, <2>1 DEF NoFreeStart
    <2> QED
      BY <1>5, <1>6, <2>1 DEF Leave, RefundedByLeaving
  <1>7. ASSUME NEW p \in PassIds, ExpirePass(p) PROVE OneFreePassPerScope'
    BY <1>1, <1>7 DEF NoFreeStart, ExpirePass, Due, TypeOK, PassRow
  <1>8. CASE pass' = pass
    BY <1>1, <1>8 DEF NoFreeStart
  <1> QED
    BY <1>2, <1>3, <1>4, <1>5, <1>6, <1>7, <1>8, StepCases
       DEF Bystander, Refund, CustomerPays, CheckoutFor, PaymentFailed

\* The Free Passes that ever started stay apart: no step turns another row into a Free
\* Pass, and startFreePass() looks for one that was used.
THEOREM FreePassOnce == Spec => []OneFreePassPerScope
  <1>1. Init => OneFreePassPerScope
    BY DEF Init, TablesInit, OneFreePassPerScope
  <1>2. TypeOK /\ Linked /\ OneFreePassPerScope /\ [Next]_tables => OneFreePassPerScope'
    BY FreePassesKept
  <1> QED
    BY <1>1, <1>2, TypeCorrect, LinkedHolds, PTL DEF Spec

-----------------------------------------------------------------------------
(* Memberships end once, and a person has one place in a collective. *)

MembershipEnded(m) == membership[m].status \in {"LEFT", "EXPIRED", "REFUNDED"}

LEMMA MembershipForIsLiveOrNew ==
    ASSUME TypeOK, NEW i \in Posts, NEW c \in Collectives, NEW m \in MembershipFor(i, c)
    PROVE  \/ /\ m \in LiveMemberships(Owner[i])
              /\ membership[m].collective = c /\ membership[m].post = i
           \/ /\ membership[m].status = "NONE"
              /\ \A n \in LiveMemberships(Owner[i]) :
                    membership[n].collective # c /\ membership[n].post # i
  BY DEF MembershipFor, NewIds

\* What an ended membership says stays: no activation, join or refund reopens it.
THEOREM EndedStays == Spec => EndedMembershipsStay
  <1>1. TypeOK /\ [Next]_tables
          => [\A m \in MembershipIds :
                membership[m].status \in {"LEFT", "EXPIRED", "REFUNDED"}
                  => membership'[m] = membership[m]]_tables
    <2> SUFFICES ASSUME TypeOK, [Next]_tables,
                        NEW n \in MembershipIds, MembershipEnded(n)
                 PROVE  membership'[n] = membership[n]
      BY DEF MembershipEnded
    <2>1. ASSUME NEW i \in Posts, NEW c \in Collectives, Join(i, c) PROVE membership'[n] = membership[n]
      <3>1. PICK m \in MembershipFor(i, c) \cap MembershipIds, p \in {0} \cup PassIds :
              membership' = [membership EXCEPT ![m] =
                               [status |-> IF p = 0 THEN "PENDING_PAYMENT" ELSE "ACTIVE",
                                collective |-> c, post |-> i, pass |-> p]]
        BY <2>1, JoinEffect
      <3>2. ~MembershipEnded(m)
        BY MembershipForIsLiveOrNew DEF MembershipEnded, LiveMemberships, Live
      <3> QED
        BY <3>1, <3>2 DEF TypeOK
    <2>2. ASSUME NEW k \in PaymentIds, Activate(k) PROVE membership'[n] = membership[n]
      <3>1. n \notin MovedMemberships(k)
        BY DEF MembershipEnded, MovedMemberships, LiveMemberships, Live
      <3> QED
        BY <2>2, <3>1 DEF Activate
    <2>3. ASSUME NEW riders, NEW status, EndRiders(riders, status), n \notin riders
          PROVE  membership'[n] = membership[n]
      BY <2>3 DEF EndRiders
    <2>4. ASSUME NEW p PROVE n \notin Riders(p)
      BY DEF Riders, MembershipEnded
    <2>5. ASSUME NEW k \in PaymentIds, Refund(k) PROVE membership'[n] = membership[n]
      <3>1. n \notin (IF IsExtension(k) THEN {} ELSE Riders(payment[k].pass))
        BY <2>4
      <3> QED
        BY <2>3, <2>5, <3>1 DEF Refund
    <2>6. ASSUME NEW m \in MembershipIds, Leave(m) PROVE membership'[n] = membership[n]
      BY <2>3, <2>6 DEF Leave, Live, MembershipEnded
    <2>7. ASSUME NEW p \in PassIds, ExpirePass(p) PROVE membership'[n] = membership[n]
      BY <2>3, <2>4, <2>7 DEF ExpirePass
    <2> QED
      BY <2>1, <2>2, <2>5, <2>6, <2>7, StepCases
         DEF Bystander, CreatePayment, CustomerPays, CheckoutFor, PaymentFailed
  <1> QED
    BY <1>1, TypeCorrect, PTL DEF Spec, EndedMembershipsStay

\* Two live rows of one person are for different collectives and from different posts.
Apart(m, n) ==
    m # n /\ membership[m].status \in Live /\ membership[n].status \in Live
          /\ MemberOf(m) = MemberOf(n)
        => /\ membership[m].collective # membership[n].collective
           /\ membership[m].post # membership[n].post

\* A post is in one collective at a time and a person is in a collective once,
\* whatever they leave, rejoin, pay for and get refunded.
THEOREM OnePlace == Spec => []OnePlaceAtATime
  <1>1. Init => OnePlaceAtATime
    BY DEF Init, TablesInit, OnePlaceAtATime, Live
  <1>2. TypeOK /\ OnePlaceAtATime /\ [Next]_tables => OnePlaceAtATime'
    <2> SUFFICES ASSUME TypeOK, OnePlaceAtATime, [Next]_tables PROVE OnePlaceAtATime'
      OBVIOUS
    <2>1. \* the steps that open no membership
          ASSUME \A m \in MembershipIds :
                   /\ membership'[m].collective = membership[m].collective
                   /\ membership'[m].post = membership[m].post
                   /\ membership'[m].status \in Live => membership[m].status \in Live
          PROVE  OnePlaceAtATime'
      BY <2>1 DEF OnePlaceAtATime, MemberOf
    <2>2. ASSUME NEW i \in Posts, NEW c \in Collectives, Join(i, c) PROVE OnePlaceAtATime'
      <3>1. PICK m \in MembershipFor(i, c) \cap MembershipIds, p \in {0} \cup PassIds :
              membership' = [membership EXCEPT ![m] =
                               [status |-> IF p = 0 THEN "PENDING_PAYMENT" ELSE "ACTIVE",
                                collective |-> c, post |-> i, pass |-> p]]
        BY <2>2, JoinEffect
      <3>2. /\ membership'[m].collective = c /\ membership'[m].post = i
            /\ \A n \in MembershipIds \ {m} : membership'[n] = membership[n]
        BY <3>1 DEF TypeOK
      <3>3. ASSUME NEW n \in MembershipIds \ {m}, membership[n].status \in Live, MemberOf(n) = Owner[i]
            PROVE  membership[n].collective # c /\ membership[n].post # i
        <4>1. n \in LiveMemberships(Owner[i])
          BY <3>3 DEF LiveMemberships
        <4>2. CASE m \in LiveMemberships(Owner[i]) /\ membership[m].collective = c /\ membership[m].post = i
          BY <3>3, <4>2 DEF LiveMemberships, OnePlaceAtATime
        <4> QED
          BY <4>1, <4>2, MembershipForIsLiveOrNew
      <3>4. ASSUME NEW q \in MembershipIds, NEW r \in MembershipIds, q # r,
                   membership'[q].status \in Live, membership'[r].status \in Live,
                   Owner[membership'[q].post] = Owner[membership'[r].post]
            PROVE  /\ membership'[q].collective # membership'[r].collective
                   /\ membership'[q].post # membership'[r].post
        <4>1. CASE q = m
          BY <3>2, <3>3, <3>4, <4>1 DEF MemberOf
        <4>2. CASE r = m
          BY <3>2, <3>3, <3>4, <4>2 DEF MemberOf
        <4>3. CASE q # m /\ r # m
          BY <3>2, <3>4, <4>3 DEF OnePlaceAtATime, MemberOf
        <4> QED
          BY <4>1, <4>2, <4>3
      <3> QED
        BY <3>4 DEF OnePlaceAtATime, MemberOf
    <2>3. ASSUME NEW k \in PaymentIds, Activate(k) PROVE OnePlaceAtATime'
      <3> DEFINE moved == MovedMemberships(k)
      <3>1. membership' = [m \in MembershipIds |->
                             IF m \in moved
                             THEN [membership[m] EXCEPT !.status = "ACTIVE", !.pass = payment[k].pass]
                             ELSE membership[m]]
        BY <2>3 DEF Activate
      <3>2. \A m \in moved : membership[m].status \in Live
        BY DEF MovedMemberships, LiveMemberships
      <3> HIDE DEF moved
      <3> QED
        BY <2>1, <3>1, <3>2 DEF TypeOK, MembershipRow
    <2>4. ASSUME NEW riders, NEW status \in {"LEFT", "EXPIRED", "REFUNDED"}, EndRiders(riders, status)
          PROVE  OnePlaceAtATime'
      <3>1. \A m \in MembershipIds :
              /\ membership'[m].collective = membership[m].collective
              /\ membership'[m].post = membership[m].post
              /\ membership'[m].status = membership[m].status \/ membership'[m].status = status
        BY <2>4 DEF EndRiders, TypeOK, MembershipRow
      <3> QED
        BY <2>1, <3>1 DEF Live
    <2>5. CASE membership' = membership
      BY <2>1, <2>5
    <2> QED
      BY <2>2, <2>3, <2>4, <2>5, StepCases
         DEF Bystander, CreatePayment, CustomerPays, CheckoutFor, PaymentFailed, Refund, Leave, ExpirePass
  <1> QED
    BY <1>1, <1>2, TypeCorrect, PTL DEF Spec

-----------------------------------------------------------------------------
(* The discussion has exactly the active members. *)

Seat(m) == <<membership[m].collective, MemberOf(m)>>

\* Who is in a discussion is who has an ACTIVE membership of it: every step that
\* makes a membership ACTIVE, or ends one, moves the same people in the other table.
\* Ending one row must not take the seat of another, hence OnePlaceAtATime.
THEOREM DiscussionInStep == Spec => []DiscussionMatchesMembership
  <1>1. Init => DiscussionMatchesMembership
    BY DEF Init, TablesInit, DiscussionMatchesMembership
  <1>2. TypeOK /\ OnePlaceAtATime /\ DiscussionMatchesMembership /\ [Next]_tables
          => DiscussionMatchesMembership'
    <2> SUFFICES ASSUME TypeOK, OnePlaceAtATime, DiscussionMatchesMembership, [Next]_tables
                 PROVE  DiscussionMatchesMembership'
      OBVIOUS
    <2> DEFINE active == {m \in MembershipIds : membership[m].status = "ACTIVE"}
    <2>0. inDiscussion = {Seat(m) : m \in active}
      BY DEF DiscussionMatchesMembership, Seat
    <2>1. SUFFICES inDiscussion' = {Seat(m)' : m \in active'}
      BY DEF DiscussionMatchesMembership, Seat, MemberOf
    <2>2. ASSUME NEW i \in Posts, NEW c \in Collectives, Join(i, c)
          PROVE  inDiscussion' = {Seat(m)' : m \in active'}
      <3>1. PICK m \in MembershipFor(i, c) \cap MembershipIds, p \in {0} \cup PassIds :
              /\ membership[m].status # "ACTIVE"
              /\ membership' = [membership EXCEPT ![m] =
                               [status |-> IF p = 0 THEN "PENDING_PAYMENT" ELSE "ACTIVE",
                                collective |-> c, post |-> i, pass |-> p]]
              /\ inDiscussion' = IF p = 0 THEN inDiscussion ELSE inDiscussion \cup {<<c, Owner[i]>>}
        BY <2>2, JoinEffect
      <3>2. \A n \in MembershipIds \ {m} : membership'[n] = membership[n]
        BY <3>1 DEF TypeOK
      <3>3. membership'[m] = [status |-> IF p = 0 THEN "PENDING_PAYMENT" ELSE "ACTIVE",
                              collective |-> c, post |-> i, pass |-> p]
        BY <3>1 DEF TypeOK
      <3>4. active' = IF p = 0 THEN active ELSE active \cup {m}
        BY <3>1, <3>2, <3>3
      <3>5. \A n \in active : Seat(n)' = Seat(n)
        BY <3>1, <3>2 DEF Seat, MemberOf
      <3>6. Seat(m)' = <<c, Owner[i]>>
        BY <3>3 DEF Seat, MemberOf
      <3> HIDE DEF active
      <3> QED
        BY <2>0, <3>1, <3>4, <3>5, <3>6
    <2>3. ASSUME NEW k \in PaymentIds, Activate(k)
          PROVE  inDiscussion' = {Seat(m)' : m \in active'}
      <3> DEFINE moved == MovedMemberships(k)
      <3>1. /\ membership' = [m \in MembershipIds |->
                             IF m \in moved
                             THEN [membership[m] EXCEPT !.status = "ACTIVE", !.pass = payment[k].pass]
                             ELSE membership[m]]
            /\ inDiscussion' = inDiscussion \cup {<<membership[m].collective, PayerOf(k)>> : m \in moved}
        BY <2>3 DEF Activate
      <3>2. moved \subseteq MembershipIds /\ \A m \in moved : MemberOf(m) = PayerOf(k)
        BY DEF MovedMemberships, LiveMemberships
      <3> HIDE DEF moved
      <3>3. \A m \in MembershipIds :
              /\ membership'[m].collective = membership[m].collective
              /\ membership'[m].post = membership[m].post
              /\ membership'[m].status = IF m \in moved THEN "ACTIVE" ELSE membership[m].status
        BY <3>1 DEF TypeOK, MembershipRow
      <3>4. \A m \in MembershipIds : Seat(m)' = Seat(m)
        BY <3>3 DEF Seat, MemberOf
      <3>5. active' = active \cup moved
        BY <3>2, <3>3
      <3>6. \A m \in moved : Seat(m) = <<membership[m].collective, PayerOf(k)>>
        BY <3>2 DEF Seat
      <3>7. inDiscussion' = inDiscussion \cup {Seat(m) : m \in moved}
        BY <3>1, <3>6
      <3>8. active \subseteq MembershipIds
        OBVIOUS
      <3> HIDE DEF active
      <3> QED
        BY <2>0, <3>2, <3>4, <3>5, <3>7, <3>8
    <2>4. ASSUME NEW riders, NEW status \in {"LEFT", "EXPIRED", "REFUNDED"}, EndRiders(riders, status),
                 riders \subseteq {m \in MembershipIds : membership[m].status \in Live}
          PROVE  inDiscussion' = {Seat(m)' : m \in active'}
      <3>1. \A m \in MembershipIds :
              /\ membership'[m].collective = membership[m].collective
              /\ membership'[m].post = membership[m].post
              /\ membership'[m].status = IF m \in riders THEN status ELSE membership[m].status
        BY <2>4 DEF EndRiders, TypeOK, MembershipRow
      <3>2. \A m \in MembershipIds : Seat(m)' = Seat(m)
        BY <3>1 DEF Seat, MemberOf
      <3>3. active' = active \ riders
        BY <3>1
      <3>4. inDiscussion' = inDiscussion \ {Seat(m) : m \in riders}
        BY <2>4 DEF EndRiders, Seat
      <3>5. ASSUME NEW m \in active \ riders, NEW n \in riders PROVE Seat(m) # Seat(n)
        BY <2>4, <3>5 DEF OnePlaceAtATime, Seat, Live
      <3>6. active \subseteq MembershipIds
        OBVIOUS
      <3> HIDE DEF active
      <3> QED
        BY <2>0, <3>2, <3>3, <3>4, <3>5, <3>6
    <2>5. ASSUME NEW k \in PaymentIds, Refund(k) PROVE inDiscussion' = {Seat(m)' : m \in active'}
      <3>1. (IF IsExtension(k) THEN {} ELSE Riders(payment[k].pass))
              \subseteq {m \in MembershipIds : membership[m].status \in Live}
        BY DEF Riders, Live
      <3> QED
        BY <2>4, <2>5, <3>1 DEF Refund
    <2>6. ASSUME NEW m \in MembershipIds, Leave(m) PROVE inDiscussion' = {Seat(n)' : n \in active'}
      BY <2>4, <2>6 DEF Leave
    <2>7. ASSUME NEW p \in PassIds, ExpirePass(p) PROVE inDiscussion' = {Seat(m)' : m \in active'}
      <3>1. Riders(p) \subseteq {m \in MembershipIds : membership[m].status \in Live}
        BY DEF Riders, Live
      <3> QED
        BY <2>4, <2>7, <3>1 DEF ExpirePass
    <2>8. CASE UNCHANGED <<membership, inDiscussion>>
      BY <2>0, <2>8 DEF Seat, MemberOf
    <2> QED
      BY <2>2, <2>3, <2>5, <2>6, <2>7, <2>8, StepCases
         DEF Bystander, CreatePayment, CustomerPays, CheckoutFor, PaymentFailed
  <1> QED
    BY <1>1, <1>2, TypeCorrect, OnePlace, PTL DEF Spec
-----------------------------------------------------------------------------
(* An Elite Pass covers everything its holder is in. *)

\* Of a person's Elite Passes that run, one runs longest: findFirst() finds one if there is one.
LEMMA LongestExists ==
    ASSUME TypeOK, NEW u, UsableElites(u) # {}
    PROVE  LongestElite(u) # {}
  <1> DEFINE UpTo(n) == {p \in UsableElites(u) : p <= n}
             Longest(n) == {p \in UpTo(n) : \A q \in UpTo(n) : pass[q].expiresAt <= pass[p].expiresAt}
             Bad == {n \in Nat : UpTo(n) # {} /\ Longest(n) = {}}
  <1>1. UsableElites(u) \subseteq PassIds /\ \A p \in UsableElites(u) : pass[p].expiresAt \in Nat
    BY DEF UsableElites, TypeOK, PassRow
  <1>2. Bad = {}
    <2> SUFFICES ASSUME Bad # {} PROVE FALSE
      OBVIOUS
    <2>1. PICK n \in Bad : \A k \in Bad : n <= k
      <3> HIDE DEF Bad
      <3>1. Bad \subseteq Nat
        BY DEF Bad
      <3> QED
        BY <3>1, SmallestExists
    <2>2. PICK p \in UpTo(n) : TRUE
      BY <2>1
    <2>3. n \in Nat /\ p \in PassIds /\ p <= n
      BY <1>1, <2>1, <2>2
    <2>4. n - 1 \in Nat /\ ~(n <= n - 1)
      BY <2>3 DEF PassIds
    <2>5. n - 1 \notin Bad
      <3> HIDE DEF Bad
      <3> QED
        BY <2>1, <2>4
    <2>6. UpTo(n) \subseteq UpTo(n - 1) \cup {n}
      <3>1. ASSUME NEW q \in UpTo(n), q # n PROVE q <= n - 1
        <4>1. q \in Int /\ q <= n
          BY <1>1 DEF PassIds
        <4> QED
          BY <2>3, <3>1, <4>1
      <3> QED
        BY <3>1
    <2>7. UpTo(n - 1) \subseteq UpTo(n)
      BY <1>1, <2>3 DEF PassIds
    <2>8. CASE UpTo(n - 1) = {}
      <3>1. UpTo(n) = {n}
        BY <2>2, <2>6, <2>8
      <3>2. n \in UsableElites(u)
        BY <3>1
      <3> HIDE DEF UpTo
      <3>3. n \in Longest(n)
        BY <1>1, <3>1, <3>2
      <3> QED
        BY <2>1, <3>3
    <2>9. CASE UpTo(n - 1) # {}
      <3>1. PICK q \in Longest(n - 1) : TRUE
        BY <2>4, <2>5, <2>9
      <3>2. q \in UpTo(n) /\ q \in UsableElites(u)
        BY <2>7, <3>1
      <3>3. CASE n \in UpTo(n) /\ ~(pass[n].expiresAt <= pass[q].expiresAt)
        <4>1. \A r \in UpTo(n - 1) : pass[r].expiresAt <= pass[n].expiresAt
          BY <1>1, <3>1, <3>2, <3>3
        <4> HIDE DEF UpTo
        <4>2. n \in Longest(n)
          <5>1. pass[n].expiresAt <= pass[n].expiresAt
            BY <1>1, <3>3 DEF UpTo
          <5> QED
            BY <2>6, <3>3, <4>1, <5>1
        <4> QED
          BY <2>1, <4>2
      <3>4. CASE ~(n \in UpTo(n)) \/ pass[n].expiresAt <= pass[q].expiresAt
        <4>1. \A r \in UpTo(n - 1) : pass[r].expiresAt <= pass[q].expiresAt
          BY <3>1
        <4> HIDE DEF UpTo
        <4>2. q \in Longest(n)
          BY <2>6, <3>2, <3>4, <4>1
        <4> QED
          BY <2>1, <4>2
      <3> QED
        BY <3>3, <3>4
    <2> QED
      BY <2>8, <2>9
  <1>3. UpTo(MaxPasses) = UsableElites(u)
    BY <1>1 DEF PassIds
  <1>4. Longest(MaxPasses) = LongestElite(u)
    BY <1>3 DEF LongestElite
  <1>5. Longest(MaxPasses) # {}
    BY <1>2, <1>3
  <1> QED
    BY <1>4, <1>5
Covered(n) == membership[n].status = "ACTIVE" /\ pass[membership[n].pass].plan = "ELITE"

\* A membership that is not touched stays covered: its pass stays an Elite Pass.
LEMMA CoverKept ==
    ASSUME TypeOK, RidesOnActivePass, PassesKeepHolder, EliteCoversEverything,
           NEW u \in Users, UsableElites(u) # {},
           NEW n \in LiveMemberships(u), membership'[n] = membership[n]
    PROVE  Covered(n)'
  <1>1. Covered(n) /\ n \in MembershipIds
    BY DEF EliteCoversEverything, Covered, LiveMemberships
  <1>2. membership[n].pass \in PassIds /\ pass[membership[n].pass].status = "ACTIVE"
    BY <1>1 DEF Covered, RidesOnActivePass, TypeOK, MembershipRow
  <1> QED
    BY <1>1, <1>2 DEF Covered, PassesKeepHolder

\* A refund makes no Elite Pass run.
LEMMA RefundStartsNothing ==
    ASSUME TypeOK, Linked, NEW k \in PaymentIds, RefundMoney(k), now' = now, NEW u
    PROVE  UsableElites(u)' \subseteq UsableElites(u)
  <1> SUFFICES ASSUME NEW q \in UsableElites(u)' PROVE q \in UsableElites(u)
    OBVIOUS
  <1> DEFINE p == payment[k].pass
  <1>1. p # 0 /\ p \in PassIds /\ pass \in [PassIds -> PassRow] /\ now \in Nat
    BY RefundHasPass DEF TypeOK
  <1>2. /\ q \in PassIds /\ pass'[q].plan = "ELITE" /\ pass'[q].status = "ACTIVE"
        /\ Owner[pass'[q].post] = u /\ pass'[q].expiresAt > now
    BY DEF UsableElites, HolderOf
  <1>3. /\ pass'[q].post = pass[q].post /\ pass'[q].plan = pass[q].plan
        /\ pass[q].status = "ACTIVE"
    BY <1>1, <1>2, RefundEffect
  <1>4. pass[q].expiresAt > now
    <2>1. pass' = PassesAfterRefund(k) /\ pass[q].expiresAt \in Nat
      BY <1>1, <1>2 DEF RefundMoney, PassRow
    <2>2. CASE q = p /\ IsExtension(k)
      <3>1. pass'[q].expiresAt = ReducedExpiry(pass[q].expiresAt)
        BY <1>1, <1>3, <2>1, <2>2 DEF PassesAfterRefund, PassRow
      <3> QED
        BY <1>1, <1>2, <2>1, <3>1 DEF ReducedExpiry, Later
    <2>3. CASE ~(q = p /\ IsExtension(k))
      <3>1. pass'[q].expiresAt = pass[q].expiresAt
        BY <1>1, <1>2, <1>3, <2>1, <2>3 DEF PassesAfterRefund, PassRow
      <3> QED
        BY <1>2, <3>1
    <2> QED
      BY <2>2, <2>3
  <1> QED
    BY <1>2, <1>3, <1>4 DEF UsableElites, HolderOf

\* While a person's Elite Pass runs, whatever they are in or wait to join rides on Elite: an
\* activation takes every live membership along, a join looks for the pass first, and no end
\* of another pass, refund of an extension or further payment leaves one behind.
THEOREM EliteCovers == Spec => []EliteCoversEverything
  <1>1. Init => EliteCoversEverything
    BY DEF Init, TablesInit, EliteCoversEverything, UsableElites
  <1>2. TypeOK /\ Linked /\ RidesOnActivePass /\ EliteCoversEverything /\ [Next]_tables
          => EliteCoversEverything'
    <2> SUFFICES ASSUME TypeOK, Linked, RidesOnActivePass, EliteCoversEverything, [Next]_tables,
                        NEW u \in Users, UsableElites(u)' # {}, NEW n \in LiveMemberships(u)'
                 PROVE  Covered(n)'
      BY DEF EliteCoversEverything, Covered
    <2>0. PassesKeepHolder
      BY HoldersKept
    <2>1. n \in MembershipIds /\ membership'[n].status \in Live /\ Owner[membership'[n].post] = u
      BY DEF LiveMemberships, MemberOf
    <2>2. \* the steps that make no pass run and do not touch the membership
          ASSUME UsableElites(u)' \subseteq UsableElites(u), membership'[n] = membership[n]
          PROVE  Covered(n)'
      <3>1. n \in LiveMemberships(u)
        BY <2>1, <2>2 DEF LiveMemberships, MemberOf
      <3> QED
        BY <2>0, <2>2, <3>1, CoverKept
    <2>3. \* the ends of memberships
          ASSUME NEW riders, NEW status \in {"LEFT", "EXPIRED", "REFUNDED"}, EndRiders(riders, status)
          PROVE  membership'[n] = membership[n]
      BY <2>1, <2>3 DEF EndRiders, Live, TypeOK, MembershipRow
    <2>4. ASSUME pass' = pass, now' \in {now, now + 1} PROVE UsableElites(u)' \subseteq UsableElites(u)
      BY <2>4 DEF UsableElites, HolderOf, TypeOK, PassRow
    <2>5. ASSUME NEW i \in Posts, NEW c \in Collectives, Join(i, c) PROVE Covered(n)'
      <3>1. PICK m \in MembershipFor(i, c) \cap MembershipIds, p \in {0} \cup PassIds :
             /\ membership' = [membership EXCEPT ![m] =
                                 [status |-> IF p = 0 THEN "PENDING_PAYMENT" ELSE "ACTIVE",
                                  collective |-> c, post |-> i, pass |-> p]]
             /\ \/ pass' = pass /\ (p # 0 => p \in LongestElite(Owner[i]))
                \/ /\ p # 0 /\ pass[p].status = "NONE"
                   /\ pass' = [pass EXCEPT ![p] = [status |-> "ACTIVE", plan |-> "FREE", post |-> i,
                                                   expiresAt |-> now + FreeDays, payment |-> 0]]
             /\ p \in LongestElite(Owner[i]) \/ LongestElite(Owner[i]) = {}
        BY <2>5, JoinEffect
      <3>2. UsableElites(u)' \subseteq UsableElites(u)
        BY <2>5, <3>1 DEF Join, UsableElites, HolderOf, TypeOK
      <3>3. CASE n # m
        BY <2>2, <3>1, <3>2, <3>3 DEF TypeOK
      <3>4. CASE n = m
        <4>1. membership'[n] = [status |-> IF p = 0 THEN "PENDING_PAYMENT" ELSE "ACTIVE",
                                collective |-> c, post |-> i, pass |-> p]
          BY <3>1, <3>4 DEF TypeOK
        <4>2. Owner[i] = u
          BY <2>1, <4>1
        <4>3. p \in LongestElite(u)
          BY <3>1, <3>2, <4>2, LongestExists
        <4>4. p # 0 /\ p \in PassIds /\ pass[p].plan = "ELITE" /\ pass[p].status = "ACTIVE"
          BY <4>3 DEF LongestElite, UsableElites, PassIds
        <4> QED
          BY <2>0, <4>1, <4>4 DEF Covered, PassesKeepHolder
      <3> QED
        BY <3>3, <3>4
    <2>6. ASSUME NEW i \in Posts, NEW c \in Collectives, CreatePayment(i, c) PROVE Covered(n)'
      <3>1. UsableElites(u)' \subseteq UsableElites(u)
        BY <2>6, CreatePaymentEffect DEF CreatePayment, UsableElites, HolderOf, TypeOK
      <3> QED
        BY <2>2, <2>6, <3>1 DEF CreatePayment
    <2>7. ASSUME NEW k \in PaymentIds, CheckoutFor(k) \/ CustomerPays(k) \/ PaymentFailed(k)
          PROVE  Covered(n)'
      BY <2>2, <2>4, <2>7 DEF CheckoutFor, CustomerPays, PaymentFailed
    <2>8. ASSUME NEW k \in PaymentIds, Activate(k) PROVE Covered(n)'
      <3> DEFINE p == payment[k].pass
                 moved == MovedMemberships(k)
      <3>1. p # 0 /\ p \in PassIds /\ HolderOf(p) = PayerOf(k) /\ pass[p].plan = "ELITE"
        BY <2>8, ActivateHasPass
      <3>2. /\ pass'[p].plan = "ELITE" /\ pass'[p].post = pass[p].post
            /\ \A q \in PassIds \ {p} : pass'[q] = pass[q] \/ pass'[q].status = "EXPIRED"
        BY <2>8, <3>1, ActivateEffect
      <3>3. membership' = [m \in MembershipIds |->
                             IF m \in moved THEN [membership[m] EXCEPT !.status = "ACTIVE", !.pass = p]
                             ELSE membership[m]]
        BY <2>8 DEF Activate
      <3>4. moved = LiveMemberships(PayerOf(k)) \ Riders(p)
        BY DEF MovedMemberships
      <3> HIDE DEF moved
      <3>5. CASE n \in moved
        <4>1. membership'[n].status = "ACTIVE" /\ membership'[n].pass = p
          BY <2>1, <3>3, <3>5 DEF TypeOK, MembershipRow
        <4> QED
          BY <3>2, <4>1 DEF Covered
      <3>6. CASE n \notin moved
        <4>1. membership'[n] = membership[n]
          BY <2>1, <3>3, <3>6
        <4>2. CASE u = PayerOf(k)
          <5>1. n \in Riders(p)
            BY <2>1, <3>4, <3>6, <4>1, <4>2 DEF LiveMemberships, MemberOf
          <5> QED
            BY <3>2, <4>1, <5>1 DEF Covered, Riders
        <4>3. CASE u # PayerOf(k)
          <5>1. UsableElites(u)' \subseteq UsableElites(u)
            <6>1. \A q \in PassIds \ {p} :
                    /\ pass'[q].post = pass[q].post /\ pass'[q].plan = pass[q].plan
                    /\ pass'[q] = pass[q] \/ pass'[q].status = "EXPIRED"
              BY <2>8, <3>1, ActivateEffect
            <6>3. now' = now
              BY <2>8 DEF Activate
            <6>2. p \notin UsableElites(u)'
              BY <3>1, <3>2, <4>3 DEF UsableElites, HolderOf
            <6> QED
              BY <6>1, <6>2, <6>3 DEF UsableElites, HolderOf
          <5> QED
            BY <2>2, <4>1, <5>1
        <4> QED
          BY <4>2, <4>3
      <3> QED
        BY <3>5, <3>6
    <2>9. ASSUME NEW k \in PaymentIds, Refund(k) PROVE Covered(n)'
      BY <2>2, <2>3, <2>9, RefundStartsNothing DEF Refund
    <2>10. ASSUME NEW m \in MembershipIds, Leave(m) PROVE Covered(n)'
      <3>1. now' = now /\ membership'[n] = membership[n]
        BY <2>3, <2>10 DEF Leave
      <3>2. CASE pass' = pass
        BY <2>2, <2>4, <3>1, <3>2
      <3>3. ASSUME NEW k \in RefundedByLeaving(m), RefundMoney(k) PROVE Covered(n)'
        BY <2>2, <3>1, <3>3, RefundStartsNothing DEF RefundedByLeaving
      <3> QED
        BY <2>10, <3>2, <3>3 DEF Leave
    <2>11. ASSUME NEW p \in PassIds, ExpirePass(p) PROVE Covered(n)'
      <3>1. UsableElites(u)' \subseteq UsableElites(u)
        BY <2>11 DEF ExpirePass, UsableElites, HolderOf, TypeOK, PassRow
      <3> QED
        BY <2>2, <2>3, <2>11, <3>1 DEF ExpirePass
    <2>12. CASE Bystander
      BY <2>2, <2>4, <2>12 DEF Bystander
    <2> QED
      BY <2>5, <2>6, <2>7, <2>8, <2>9, <2>10, <2>11, <2>12, StepCases
  <1> QED
    BY <1>1, <1>2, TypeCorrect, LinkedHolds, MembersRideOnActivePass, PTL DEF Spec

-----------------------------------------------------------------------------
(* The days of an Elite Pass are paid for. *)

LEMMA StandingIsFinite ==
    ASSUME NEW p
    PROVE  IsFiniteSet(StandingPayments(p)) /\ Cardinality(StandingPayments(p)) \in Nat
  <1>1. IsFiniteSet(PaymentIds)
    BY FS_Interval DEF PaymentIds
  <1>2. StandingPayments(p) \in SUBSET PaymentIds
    BY DEF StandingPayments
  <1> QED
    BY <1>1, <1>2, FS_Subset, FS_CardinalityType

\* One payment more is EliteDays more.
LEMMA OneMorePayment ==
    ASSUME NEW count \in Nat
    PROVE  EliteDays * (count + 1) = EliteDays * count + EliteDays /\ EliteDays * count \in Nat
  OBVIOUS

RunningElite(p) == pass[p].plan = "ELITE" /\ pass[p].status = "ACTIVE"

DaysPaid(p) ==
    RunningElite(p) => pass[p].expiresAt <= now + EliteDays * Cardinality(StandingPayments(p))

\* The clock only helps, and so do steps that touch neither the pass nor its payments.
LEMMA DaysKept ==
    ASSUME TypeOK, NEW p \in PassIds, DaysPaid(p), now' \in {now, now + 1},
           StandingPayments(p)' = StandingPayments(p),
           RunningElite(p)' => RunningElite(p) /\ pass'[p].expiresAt = pass[p].expiresAt
    PROVE  DaysPaid(p)'
  <1> DEFINE bought == EliteDays * Cardinality(StandingPayments(p))
  <1>1. bought \in Nat /\ now \in Nat /\ pass[p].expiresAt \in Nat
    BY StandingIsFinite, OneMorePayment DEF TypeOK, PassRow
  <1>2. DaysPaid(p)' <=> (RunningElite(p)' => pass'[p].expiresAt <= now' + bought)
    BY DEF DaysPaid
  <1>3. DaysPaid(p) <=> (RunningElite(p) => pass[p].expiresAt <= now + bought)
    BY DEF DaysPaid
  <1> HIDE DEF bought
  <1> QED
    BY <1>1, <1>2, <1>3

\* Statuses other than SUCCESS do not stand.
LEMMA StandingSame ==
    ASSUME NEW p, NEW k \in PaymentIds, payment[k].status # "SUCCESS", payment'[k].status # "SUCCESS",
           \A j \in PaymentIds \ {k} : payment'[j] = payment[j]
    PROVE  StandingPayments(p)' = StandingPayments(p)
  BY DEF StandingPayments

\* activate() counts its payment once, and gives the pass at most EliteDays for it.
LEMMA ActivatePaysDays ==
    ASSUME TypeOK, Linked, PaidElite, NEW k \in PaymentIds, Activate(k), NEW q \in PassIds, DaysPaid(q)
    PROVE  DaysPaid(q)'
  <1> DEFINE p == payment[k].pass
  <1>1. /\ p \in PassIds /\ p # 0 /\ pass[p].plan = "ELITE" /\ payment[k].status # "SUCCESS"
        /\ pass' = PassesAfterPayment(k) /\ now' = now /\ now \in Nat
        /\ pass \in [PassIds -> PassRow]
    BY ActivateHasPass DEF Activate, AlreadyDone, TypeOK
  <1>2. payment' = [payment EXCEPT ![k].status = "SUCCESS"] /\ payment \in [PaymentIds -> PaymentRow]
    BY DEF Activate, TypeOK
  <1>3. CASE q # p
    <2>1. StandingPayments(q)' = StandingPayments(q)
      BY <1>1, <1>2, <1>3 DEF StandingPayments, PaymentRow
    <2>2. RunningElite(q)' => RunningElite(q) /\ pass'[q].expiresAt = pass[q].expiresAt
      BY <1>1, <1>3, ActivateEffect DEF RunningElite
    <2> QED
      BY <1>1, <2>1, <2>2, DaysKept
  <1>4. CASE q = p
    <2> DEFINE count == Cardinality(StandingPayments(q))
    <2>1. StandingPayments(q)' = StandingPayments(q) \cup {k} /\ k \notin StandingPayments(q)
      BY <1>1, <1>2, <1>4 DEF StandingPayments, PaymentRow
    <2>2. Cardinality(StandingPayments(q)') = count + 1 /\ count \in Nat
      BY <2>1, StandingIsFinite, FS_AddElement
    <2>3. pass[q].expiresAt \in Nat
      BY <1>1 DEF PassRow
    <2>4. DaysPaid(q) <=> (RunningElite(q) => pass[q].expiresAt <= now + EliteDays * count)
      BY DEF DaysPaid
    <2>5. DaysPaid(q)' <=> (RunningElite(q)' => pass'[q].expiresAt <= now' + EliteDays * (count + 1))
      BY <2>2 DEF DaysPaid
    <2> HIDE DEF count
    <2>6. EliteDays * (count + 1) = EliteDays * count + EliteDays /\ EliteDays * count \in Nat
      BY <2>2, OneMorePayment
    <2>7. CASE Extending(k)
      <3>1. RunningElite(q) /\ pass'[q].expiresAt = ExtendedExpiry(pass[q].expiresAt)
        BY <1>1, <1>4, <2>7 DEF Extending, PassesAfterPayment, RunningElite, PassRow
      <3>2. pass'[q].expiresAt <= now + EliteDays * count + EliteDays
        BY <1>1, <1>4, <2>3, <2>4, <2>6, <3>1 DEF ExtendedExpiry, Later
      <3> QED
        BY <1>1, <1>4, <2>5, <2>6, <3>2
    <2>8. CASE pass[q].status = "ACTIVE" /\ ~Extending(k)
      BY <1>1, <1>4, <2>8 DEF Extending, PaidElite
    <2>9. CASE pass[q].status # "ACTIVE"
      <3>1. pass'[q].expiresAt = now + EliteDays
        BY <1>1, <1>4, <2>9 DEF PassesAfterPayment, Extending, PassRow
      <3> QED
        BY <1>1, <1>4, <2>5, <2>6, <3>1
    <2> QED
      BY <2>7, <2>8, <2>9
  <1> QED
    BY <1>3, <1>4

\* A refund takes EliteDays off for the payment that no longer stands, or ends the pass.
LEMMA RefundTakesDays ==
    ASSUME TypeOK, Linked, NEW k \in PaymentIds, RefundMoney(k), now' = now,
           NEW q \in PassIds, DaysPaid(q)
    PROVE  DaysPaid(q)'
  <1> DEFINE p == payment[k].pass
  <1>1. /\ p \in PassIds /\ p # 0 /\ payment[k].status = "SUCCESS"
        /\ now' = now /\ pass' = PassesAfterRefund(k) /\ now \in Nat
        /\ pass \in [PassIds -> PassRow]
    BY RefundHasPass DEF RefundMoney, TypeOK
  <1>2. payment' = [payment EXCEPT ![k].status = "REFUNDED"] /\ payment \in [PaymentIds -> PaymentRow]
    BY DEF RefundMoney, TypeOK
  <1>3. CASE q # p
    <2>1. StandingPayments(q)' = StandingPayments(q)
      BY <1>1, <1>2, <1>3 DEF StandingPayments, PaymentRow
    <2>2. RunningElite(q)' => RunningElite(q) /\ pass'[q].expiresAt = pass[q].expiresAt
      BY <1>1, <1>3, RefundEffect DEF RunningElite
    <2> QED
      BY <1>1, <2>1, <2>2, DaysKept
  <1>4. CASE q = p /\ ~IsExtension(k)
    <2>1. ~RunningElite(q)'
      BY <1>1, <1>4, RefundEffect DEF RunningElite
    <2> QED
      BY <1>4, <2>1 DEF DaysPaid
  <1>5. CASE q = p /\ IsExtension(k)
    <2> DEFINE count == Cardinality(StandingPayments(q)')
    <2>1. StandingPayments(q)' = StandingPayments(q) \ {k} /\ k \in StandingPayments(q)
      BY <1>1, <1>2, <1>5 DEF StandingPayments, PaymentRow
    <2>2. IsFiniteSet(StandingPayments(q)') /\ StandingPayments(q) = StandingPayments(q)' \cup {k}
          /\ k \notin StandingPayments(q)'
      BY <2>1, StandingIsFinite, FS_RemoveElement
    <2>3. Cardinality(StandingPayments(q)) = count + 1 /\ count \in Nat
      BY <2>2, FS_AddElement, FS_CardinalityType
    <2>4. pass[q].expiresAt \in Nat
      BY <1>1 DEF PassRow
    <2>5. DaysPaid(q) <=> (RunningElite(q) => pass[q].expiresAt <= now + EliteDays * (count + 1))
      BY <2>3 DEF DaysPaid
    <2>6. DaysPaid(q)' <=> (RunningElite(q)' => pass'[q].expiresAt <= now + EliteDays * count)
      BY <1>1 DEF DaysPaid
    <2> HIDE DEF count
    <2>7. EliteDays * (count + 1) = EliteDays * count + EliteDays /\ EliteDays * count \in Nat
      BY <2>3, OneMorePayment
    <2>8. ASSUME RunningElite(q)'
          PROVE  RunningElite(q) /\ pass'[q].expiresAt = ReducedExpiry(pass[q].expiresAt)
      BY <1>1, <1>5, <2>8 DEF RunningElite, PassesAfterRefund, PassRow
    <2>9. ASSUME RunningElite(q)' PROVE pass'[q].expiresAt <= now + EliteDays * count
      BY <1>1, <1>5, <2>4, <2>5, <2>7, <2>8, <2>9 DEF ReducedExpiry, Later
    <2> QED
      BY <1>5, <2>6, <2>9
  <1> QED
    BY <1>3, <1>4, <1>5

\* Nobody holds more Elite days than standing payments bought: a payment counts once, whatever
\* order verification, webhooks, failed attempts, extensions and refunds come in, and what is
\* refunded is taken back.
THEOREM DaysArePaid == Spec => []NoUnpaidDays
  <1>1. Init => NoUnpaidDays
    BY DEF Init, TablesInit, NoUnpaidDays
  <1>2. TypeOK /\ Linked /\ PaidElite /\ NoUnpaidDays /\ [Next]_tables => NoUnpaidDays'
    <2> SUFFICES ASSUME TypeOK, Linked, PaidElite, NoUnpaidDays, [Next]_tables, NEW q \in PassIds
                 PROVE  DaysPaid(q)'
      BY DEF NoUnpaidDays, DaysPaid, RunningElite
    <2>0. DaysPaid(q)
      BY DEF NoUnpaidDays, DaysPaid, RunningElite
    <2>1. \* the steps that leave payments alone and start no Elite Pass
          ASSUME payment' = payment, now' \in {now, now + 1},
                 RunningElite(q)' => RunningElite(q) /\ pass'[q].expiresAt = pass[q].expiresAt
          PROVE  DaysPaid(q)'
      <3>1. StandingPayments(q)' = StandingPayments(q)
        BY <2>1 DEF StandingPayments
      <3> QED
        BY <2>0, <2>1, <3>1, DaysKept
    <2>2. ASSUME NEW i \in Posts, NEW c \in Collectives, Join(i, c) PROVE DaysPaid(q)'
      <3>1. pass'[q] = pass[q] \/ pass'[q].plan = "FREE"
        <4>1. PICK p \in {0} \cup PassIds :
                 \/ pass' = pass
                 \/ pass' = [pass EXCEPT ![p] = [status |-> "ACTIVE", plan |-> "FREE", post |-> i,
                                                 expiresAt |-> now + FreeDays, payment |-> 0]]
          BY <2>2, JoinEffect
        <4> QED
          BY <4>1 DEF TypeOK
      <3>2. RunningElite(q)' => RunningElite(q) /\ pass'[q].expiresAt = pass[q].expiresAt
        BY <3>1 DEF RunningElite
      <3> QED
        BY <2>1, <2>2, <3>2 DEF Join
    <2>3. ASSUME NEW i \in Posts, NEW c \in Collectives, CreatePayment(i, c) PROVE DaysPaid(q)'
      <3>1. PICK p \in PassIds, k \in PaymentIds, status \in Open :
               /\ payment[k].status = "NONE"
               /\ payment' = [payment EXCEPT ![k] = [status |-> status, post |-> i, pass |-> p]]
               /\ \/ pass' = pass
                  \/ /\ pass[p].status = "NONE"
                     /\ pass' = [pass EXCEPT ![p] = [status |-> "PENDING", plan |-> "ELITE", post |-> i,
                                                     expiresAt |-> 0, payment |-> 0]]
        BY <2>3, CreatePaymentEffect
      <3>2. RunningElite(q)' => RunningElite(q) /\ pass'[q].expiresAt = pass[q].expiresAt
        BY <3>1 DEF RunningElite, TypeOK
      <3>3. StandingPayments(q)' = StandingPayments(q)
        BY <3>1, StandingSame DEF Open, TypeOK
      <3> QED
        BY <2>0, <2>3, <3>2, <3>3, DaysKept DEF CreatePayment
    <2>4. ASSUME NEW k \in PaymentIds, CheckoutFor(k) \/ PaymentFailed(k) PROVE DaysPaid(q)'
      <3>1. /\ payment[k].status # "SUCCESS" /\ payment'[k].status # "SUCCESS"
            /\ \A j \in PaymentIds \ {k} : payment'[j] = payment[j]
            /\ pass' = pass /\ now' = now
        BY <2>4 DEF CheckoutFor, PaymentFailed, TypeOK, PaymentRow
      <3>2. StandingPayments(q)' = StandingPayments(q)
        BY <3>1, StandingSame
      <3> QED
        BY <2>0, <3>1, <3>2, DaysKept DEF RunningElite
    <2>5. ASSUME NEW k \in PaymentIds, CustomerPays(k) PROVE DaysPaid(q)'
      BY <2>1, <2>5 DEF CustomerPays, RunningElite
    <2>6. ASSUME NEW k \in PaymentIds, Activate(k) PROVE DaysPaid(q)'
      BY <2>0, <2>6, ActivatePaysDays
    <2>7. ASSUME NEW k \in PaymentIds, RefundMoney(k), now' = now PROVE DaysPaid(q)'
      BY <2>0, <2>7, RefundTakesDays
    <2>8. ASSUME NEW m \in MembershipIds, Leave(m) PROVE DaysPaid(q)'
      BY <2>1, <2>7, <2>8 DEF Leave, RefundedByLeaving, RunningElite
    <2>9. ASSUME NEW p \in PassIds, ExpirePass(p) PROVE DaysPaid(q)'
      <3>1. RunningElite(q)' => RunningElite(q) /\ pass'[q].expiresAt = pass[q].expiresAt
        BY <2>9 DEF ExpirePass, RunningElite, TypeOK, PassRow
      <3> QED
        BY <2>1, <2>9, <3>1 DEF ExpirePass
    <2>10. CASE Bystander
      BY <2>1, <2>10 DEF Bystander, RunningElite
    <2> QED
      BY <2>2, <2>3, <2>4, <2>5, <2>6, <2>7, <2>8, <2>9, <2>10, StepCases DEF Refund
  <1> QED
    BY <1>1, <1>2, TypeCorrect, LinkedHolds, EliteIsPaid, PTL DEF Spec

-----------------------------------------------------------------------------
(* PassRaces: handlers that overlap. *)

USE PostsAssumption, DaysAssumption, BoundsAssumption, WrittenAssumption

-----------------------------------------------------------------------------
(* Requests. *)

Steps == {"idle", "readPass", "writePass", "grant", "writeFailed", "readRefund", "lockRefund",
          "refundPass", "refundMembers", "expirePass", "expireMembers", "openMembership",
          "readElite", "rideOnElite", "readFree", "lockUser", "writeFree", "writeLeft",
          "insertPayment", "attachOrder"}

Lock == ({"payment"} \X PaymentIds) \cup ({"pass"} \X PassIds) \cup ({"membership"} \X MembershipIds)
        \cup ({"user"} \X Users) \cup ({"post"} \X Posts)

Request == [step : Steps, post : Posts, collective : Collectives, id : Nat, pass : {0} \cup PassIds,
            mode : {"none", "start", "extend", "keep", "end", "reduce"}, until : Nat,
            rows : SUBSET MembershipIds, due : SUBSET PassIds, locks : SUBSET Lock]

\* What a handler is about is there, and a payment's handler knows its pass.
PaymentOK(w) ==
    LET r == req[w] IN
    /\ r.step \in {"readPass", "writePass", "grant", "writeFailed", "readRefund", "lockRefund",
                   "refundPass", "refundMembers", "attachOrder"}
         => r.id \in PaymentIds /\ payment[r.id].status # "NONE"
    /\ r.step \in {"writePass", "grant", "refundPass", "refundMembers"} => r.pass = payment[r.id].pass
    /\ r.step = "writePass" => r.locks = {PaymentLock(r.id)} /\ r.mode \in {"start", "extend", "keep"}
    /\ r.step \in {"refundPass", "refundMembers"} => r.mode \in {"end", "reduce", "keep"}
    /\ r.step = "grant" =>
         \A q \in PassIds : PassLock(q) \in r.locks => pass[q].status # "NONE"
    /\ r.step = "insertPayment" /\ r.pass # 0 =>
         /\ pass[r.pass].status # "NONE" /\ pass[r.pass].plan = "ELITE"
         /\ HolderOf(r.pass) = Owner[r.post]
    /\ r.step = "expireMembers" => r.pass \in PassIds /\ pass[r.pass].status # "NONE"

MemberOK(w) ==
    req[w].step \in {"readElite", "rideOnElite", "readFree", "lockUser", "writeFree", "writeLeft"}
      => req[w].id \in MembershipIds /\ membership[req[w].id].status # "NONE"

\* Who is about to start a Free Pass holds the person's row, and there is none yet.
FreeOK(w) ==
    LET i == membership[req[w].id].post IN
    req[w].step = "writeFree" =>
        UserLock(Owner[i]) \in req[w].locks /\ ~FreePassUsed(Owner[i], Scope[i])

RequestOK(w) == PaymentOK(w) /\ MemberOK(w) /\ FreeOK(w)

\* A row lock is held by one transaction.
Exclusive == \A v, w \in Workers : v # w => LockedBy(v) \cap LockedBy(w) = {}

RequestsTyped == req \in [Workers -> Request]

RacesInv ==
    /\ TypeOK /\ Linked /\ RequestsTyped
    /\ \A w \in Workers : RequestOK(w)
    /\ Exclusive
    /\ OneFreePassPerScope
    /\ PrivateDiscussion

LEMMA IdleIsRequest == Idle \in Request
  BY DEF Idle, Request, Steps

LEMMA IdleFields ==
    Idle.step = "idle" /\ Idle.locks = {} /\ Idle.rows = {} /\ Idle.due = {}
  BY DEF Idle

LEMMA LocksAreLocks ==
    /\ \A k \in PaymentIds : PaymentLock(k) \in Lock
    /\ \A p \in PassIds : PassLock(p) \in Lock
    /\ \A u \in Users : UserLock(u) \in Lock
    /\ \A i \in Posts : PostKey(i) \in Lock
  BY DEF Lock, PaymentLock, PassLock, UserLock, PostKey

LEMMA IdleIsOK ==
    ASSUME NEW w, req'[w] = Idle
    PROVE  RequestOK(w)'
  BY IdleFields DEF RequestOK, PaymentOK, MemberOK, FreeOK

-----------------------------------------------------------------------------
(* What every step leaves of the rows that are there. *)

PaymentsStay ==
    \A k \in PaymentIds : payment[k].status # "NONE" =>
        /\ payment'[k].status # "NONE"
        /\ payment'[k].pass = payment[k].pass /\ payment'[k].post = payment[k].post

MembersStay ==
    \A m \in MembershipIds : membership[m].status # "NONE" =>
        /\ membership'[m].status # "NONE"
        /\ membership'[m].post = membership[m].post
        /\ membership'[m].collective = membership[m].collective

RowsStay == PassesKeepHolder /\ PaymentsStay /\ MembersStay

LEMMA LinkedStays ==
    ASSUME TypeOK, Linked, PassesKeepHolder, PaymentsStay,
           \A k \in PaymentIds : payment'[k].status # "NONE" => payment[k].status # "NONE",
           \A k \in PaymentIds : order'[k] # "UNPAID" => payment[k].status # "NONE",
           \A p \in PassIds : pass'[p].status = "PENDING" => pass[p].status = "PENDING"
    PROVE  Linked'
  <1>1. PaymentsHavePass'
    <2> SUFFICES ASSUME NEW k \in PaymentIds, payment'[k].status # "NONE"
                 PROVE  LET p == payment'[k].pass IN
                        /\ p # 0 /\ pass'[p].status # "NONE" /\ pass'[p].plan = "ELITE"
                        /\ Owner[pass'[p].post] = Owner[payment'[k].post]
      BY DEF PaymentsHavePass, HolderOf, PayerOf
    <2>1. /\ payment[k].status # "NONE"
          /\ payment'[k].pass = payment[k].pass /\ payment'[k].post = payment[k].post
      BY DEF PaymentsStay
    <2>2. payment[k].pass \in {0} \cup PassIds
      BY DEF TypeOK, PaymentRow
    <2> QED
      BY <2>1, <2>2 DEF Linked, PaymentsHavePass, PassesKeepHolder, HolderOf, PayerOf
  <1>2. PaidOrdersExist'
    BY DEF PaymentsStay, PaidOrdersExist
  <1>3. PendingPassesAreElite'
    BY DEF Linked, PendingPassesAreElite, PassesKeepHolder
  <1> QED
    BY <1>1, <1>2, <1>3 DEF Linked

\* Whose membership ended loses the seat, and who gets a seat has an active membership.
LEMMA PrivateStays ==
    ASSUME PrivateDiscussion, NEW gone,
           \A m \in MembershipIds : membership[m].status = "ACTIVE" /\ m \notin gone =>
               membership'[m].status = "ACTIVE" /\ Seat(m)' = Seat(m),
           \A x \in inDiscussion' :
               \/ x \in inDiscussion /\ \A m \in gone : x # Seat(m)
               \/ \E m \in MembershipIds : membership'[m].status = "ACTIVE" /\ x = Seat(m)'
    PROVE  PrivateDiscussion'
  <1> SUFFICES ASSUME NEW x \in inDiscussion'
               PROVE  \E m \in MembershipIds : membership'[m].status = "ACTIVE" /\ x = Seat(m)'
    BY DEF PrivateDiscussion, Discussion, Seat, MemberOf
  <1>1. CASE x \in inDiscussion /\ \A m \in gone : x # Seat(m)
    <2>1. PICK m \in MembershipIds : membership[m].status = "ACTIVE" /\ x = Seat(m)
      BY <1>1 DEF PrivateDiscussion, Discussion, Seat
    <2> QED
      BY <1>1, <2>1
  <1> QED
    BY <1>1

LEMMA SeatsStay ==
    ASSUME PrivateDiscussion,
           \A m \in MembershipIds : membership[m].status = "ACTIVE" =>
               membership'[m].status = "ACTIVE" /\ Seat(m)' = Seat(m),
           \A x \in inDiscussion' :
               \/ x \in inDiscussion
               \/ \E m \in MembershipIds : membership'[m].status = "ACTIVE" /\ x = Seat(m)'
    PROVE  PrivateDiscussion'
  <1> SUFFICES ASSUME NEW x \in inDiscussion'
               PROVE  \E m \in MembershipIds : membership'[m].status = "ACTIVE" /\ x = Seat(m)'
    BY DEF PrivateDiscussion, Discussion, Seat, MemberOf
  <1>1. CASE x \in inDiscussion
    <2>1. PICK m \in MembershipIds : membership[m].status = "ACTIVE" /\ x = Seat(m)
      BY <1>1 DEF PrivateDiscussion, Discussion, Seat
    <2> QED
      BY <2>1
  <1> QED
    BY <1>1

\* Memberships end together with their seats.
LEMMA EndsArePrivate ==
    ASSUME TypeOK, PrivateDiscussion, NEW rows \in SUBSET MembershipIds, NEW status \in MembershipStatus,
           EndRiders(rows, status)
    PROVE  PrivateDiscussion'
  <1>1. \A m \in MembershipIds : /\ membership'[m].collective = membership[m].collective
                                 /\ membership'[m].post = membership[m].post
                                 /\ m \notin rows => membership'[m] = membership[m]
    BY DEF EndRiders, TypeOK, MembershipRow
  <1>2. \A m \in MembershipIds : Seat(m)' = Seat(m)
    BY <1>1 DEF Seat, MemberOf
  <1>3. \A x \in inDiscussion' : x \in inDiscussion /\ \A m \in rows : x # Seat(m)
    BY DEF EndRiders, Seat
  <1> QED
    BY <1>1, <1>2, <1>3, PrivateStays

\* Memberships become active together with their seats.
LEMMA AdmissionsArePrivate ==
    ASSUME TypeOK, PrivateDiscussion, NEW rows \in SUBSET MembershipIds, NEW p \in {0} \cup PassIds,
           membership' = SetMembers(rows, "ACTIVE", p),
           inDiscussion' = inDiscussion \cup Discussion(rows)
    PROVE  PrivateDiscussion'
  <1>1. \A m \in MembershipIds : /\ membership'[m].collective = membership[m].collective
                                 /\ membership'[m].post = membership[m].post
                                 /\ m \in rows => membership'[m].status = "ACTIVE"
                                 /\ m \notin rows => membership'[m] = membership[m]
    BY ZenonT(40) DEF SetMembers, TypeOK, MembershipRow
  <1>2. \A m \in MembershipIds : Seat(m)' = Seat(m)
    BY <1>1 DEF Seat, MemberOf
  <1>3. \A x \in Discussion(rows) : \E m \in rows : x = Seat(m)
    BY DEF Discussion, Seat
  <1>4. \A x \in inDiscussion' :
               \/ x \in inDiscussion
               \/ \E m \in MembershipIds : membership'[m].status = "ACTIVE" /\ x = Seat(m)'
    BY <1>1, <1>2, <1>3
  <1> QED
    BY <1>1, <1>2, <1>4, SeatsStay

LEMMA MembersTyped ==
    ASSUME TypeOK, NEW rows \in SUBSET MembershipIds, NEW p \in {0} \cup PassIds
    PROVE  /\ SetMembers(rows, "ACTIVE", p) \in [MembershipIds -> MembershipRow]
           /\ Discussion(rows) \in SUBSET (Collectives \X Users)
           /\ membership' = SetMembers(rows, "ACTIVE", p) => MembersStay
  <1>0. membership \in [MembershipIds -> MembershipRow]
    BY DEF TypeOK
  <1>1. SetMembers(rows, "ACTIVE", p) \in [MembershipIds -> MembershipRow]
    <2>1. \A r \in MembershipRow : [r EXCEPT !.status = "ACTIVE", !.pass = p] \in MembershipRow
      BY DEF MembershipRow, MembershipStatus
    <2> QED
      BY <1>0, <2>1 DEF SetMembers
  <1>2. Discussion(rows) \in SUBSET (Collectives \X Users)
    BY DEF Discussion, MemberOf, TypeOK, MembershipRow
  <1>3. membership' = SetMembers(rows, "ACTIVE", p) => MembersStay
    <2>1. ASSUME NEW m \in MembershipIds, membership' = SetMembers(rows, "ACTIVE", p)
          PROVE  /\ membership'[m].status \in {membership[m].status, "ACTIVE"}
                 /\ membership'[m].post = membership[m].post
                 /\ membership'[m].collective = membership[m].collective
      <3>1. membership'[m] = IF m \in rows THEN [membership[m] EXCEPT !.status = "ACTIVE", !.pass = p]
                             ELSE membership[m]
        BY <2>1 DEF SetMembers
      <3>2. membership[m] \in MembershipRow
        BY <1>0
      <3> QED
        BY <3>1, <3>2 DEF MembershipRow
    <2> QED
      BY <2>1 DEF MembersStay
  <1> QED
    BY <1>1, <1>2, <1>3

LEMMA EndsStay ==
    ASSUME TypeOK, NEW rows, NEW status \in MembershipStatus, status # "NONE", EndRiders(rows, status)
    PROVE  MembersStay
  BY DEF EndRiders, TypeOK, MembershipRow, MembersStay

-----------------------------------------------------------------------------
(* Steps of Passes in between. *)

LEMMA BackgroundIsSerial == BackgroundStep => Next /\ UNCHANGED req /\ RespectsLocks
  BY DEF BackgroundStep, Next

LEMMA SerialRowsStay == TypeOK /\ Linked /\ [Next]_tables => RowsStay
  <1> SUFFICES ASSUME TypeOK, Linked, [Next]_tables PROVE PaymentsStay /\ MembersStay
    BY HoldersKept DEF RowsStay
  <1>1. ASSUME payment' = payment PROVE PaymentsStay
    BY <1>1 DEF PaymentsStay
  <1>2. ASSUME membership' = membership PROVE MembersStay
    BY <1>2 DEF MembersStay
  <1>3. ASSUME NEW k \in PaymentIds, NEW status \in PaymentStatus, status # "NONE",
               payment' = [payment EXCEPT ![k].status = status]
        PROVE  PaymentsStay
    BY <1>3 DEF PaymentsStay, TypeOK, PaymentRow
  <1>4. ASSUME NEW rows, NEW status \in {"LEFT", "REFUNDED", "EXPIRED"}, EndRiders(rows, status)
        PROVE  MembersStay
    BY <1>4, EndsStay DEF MembershipStatus
  <1>5. ASSUME NEW i \in Posts, NEW c \in Collectives, Join(i, c) PROVE PaymentsStay /\ MembersStay
    <2>1. PICK m \in MembershipFor(i, c) \cap MembershipIds, p \in {0} \cup PassIds :
            membership' = [membership EXCEPT ![m] =
                             [status |-> IF p = 0 THEN "PENDING_PAYMENT" ELSE "ACTIVE",
                              collective |-> c, post |-> i, pass |-> p]]
      BY <1>5, JoinEffect
    <2>2. membership[m].status = "NONE" \/ (membership[m].collective = c /\ membership[m].post = i)
      BY MembershipForIsLiveOrNew
    <2> QED
      BY <1>1, <1>5, <2>1, <2>2 DEF Join, MembersStay, TypeOK
  <1>6. ASSUME NEW i \in Posts, NEW c \in Collectives, CreatePayment(i, c) PROVE PaymentsStay /\ MembersStay
    <2>1. PaymentsStay
      BY <1>6, CreatePaymentEffect DEF PaymentsStay, TypeOK
    <2> QED
      BY <1>2, <1>6, <2>1 DEF CreatePayment
  <1>7. ASSUME NEW k \in PaymentIds, CheckoutFor(k) \/ CustomerPays(k) \/ PaymentFailed(k)
        PROVE  PaymentsStay /\ MembersStay
    BY <1>1, <1>2, <1>3, <1>7 DEF CheckoutFor, CustomerPays, PaymentFailed, PaymentStatus
  <1>8. ASSUME NEW k \in PaymentIds, Activate(k) PROVE PaymentsStay /\ MembersStay
    <2>1. /\ MovedMemberships(k) \in SUBSET MembershipIds
          /\ payment[k].pass \in {0} \cup PassIds
          /\ membership' = SetMembers(MovedMemberships(k), "ACTIVE", payment[k].pass)
      BY <1>8 DEF Activate, SetMembers, MovedMemberships, LiveMemberships, TypeOK, PaymentRow
    <2>2. MembersStay
      BY <2>1, MembersTyped
    <2> QED
      BY <1>3, <1>8, <2>2 DEF Activate, PaymentStatus
  <1>9. ASSUME NEW k \in PaymentIds, RefundMoney(k) PROVE PaymentsStay
    BY <1>3, <1>9 DEF RefundMoney, PaymentStatus
  <1>10. ASSUME NEW k \in PaymentIds, Refund(k) PROVE PaymentsStay /\ MembersStay
    BY <1>4, <1>9, <1>10 DEF Refund
  <1>11. ASSUME NEW m \in MembershipIds, Leave(m) PROVE PaymentsStay /\ MembersStay
    BY <1>1, <1>4, <1>9, <1>11 DEF Leave, RefundedByLeaving
  <1>12. ASSUME NEW p \in PassIds, ExpirePass(p) PROVE PaymentsStay /\ MembersStay
    BY <1>1, <1>4, <1>12 DEF ExpirePass
  <1> QED
    BY <1>1, <1>2, <1>5, <1>6, <1>7, <1>8, <1>10, <1>11, <1>12, StepCases DEF Bystander

LEMMA SerialIsPrivate == TypeOK /\ PrivateDiscussion /\ [Next]_tables => PrivateDiscussion'
  <1> SUFFICES ASSUME TypeOK, PrivateDiscussion, [Next]_tables PROVE PrivateDiscussion'
    OBVIOUS
  <1>1. ASSUME UNCHANGED <<membership, inDiscussion>> PROVE PrivateDiscussion'
    BY <1>1 DEF PrivateDiscussion, Discussion, MemberOf
  <1>2. ASSUME NEW i \in Posts, NEW c \in Collectives, Join(i, c) PROVE PrivateDiscussion'
    <2>1. PICK m \in MembershipFor(i, c) \cap MembershipIds, p \in {0} \cup PassIds :
            /\ membership[m].status # "ACTIVE"
            /\ membership' = [membership EXCEPT ![m] =
                             [status |-> IF p = 0 THEN "PENDING_PAYMENT" ELSE "ACTIVE",
                              collective |-> c, post |-> i, pass |-> p]]
            /\ inDiscussion' = IF p = 0 THEN inDiscussion ELSE inDiscussion \cup {<<c, Owner[i]>>}
      BY <1>2, JoinEffect
    <2>2. /\ \A n \in MembershipIds \ {m} : membership'[n] = membership[n]
          /\ membership'[m] = [status |-> IF p = 0 THEN "PENDING_PAYMENT" ELSE "ACTIVE",
                               collective |-> c, post |-> i, pass |-> p]
      BY <2>1 DEF TypeOK
    <2>3. \A n \in MembershipIds \ {m} : Seat(n)' = Seat(n)
      BY <2>2 DEF Seat, MemberOf
    <2>4. Seat(m)' = <<c, Owner[i]>>
      BY <2>2 DEF Seat, MemberOf
    <2>5. \A n \in MembershipIds : membership[n].status = "ACTIVE" =>
              membership'[n].status = "ACTIVE" /\ Seat(n)' = Seat(n)
      BY <2>1, <2>2, <2>3
    <2>6. \A x \in inDiscussion' :
              \/ x \in inDiscussion
              \/ \E n \in MembershipIds : membership'[n].status = "ACTIVE" /\ x = Seat(n)'
      BY <2>1, <2>2, <2>4
    <2> QED
      BY <2>5, <2>6, SeatsStay
  <1>3. ASSUME NEW k \in PaymentIds, Activate(k) PROVE PrivateDiscussion'
    <2>1. MovedMemberships(k) \in SUBSET MembershipIds
      BY DEF MovedMemberships, LiveMemberships
    <2>2. membership' = SetMembers(MovedMemberships(k), "ACTIVE", payment[k].pass)
      BY <1>3 DEF Activate, SetMembers
    <2>3. \A m \in MovedMemberships(k) : MemberOf(m) = PayerOf(k)
      BY DEF MovedMemberships, LiveMemberships
    <2>4. inDiscussion' = inDiscussion \cup Discussion(MovedMemberships(k))
      BY <1>3, <2>3 DEF Activate, Discussion
    <2>5. payment[k].pass \in {0} \cup PassIds
      BY DEF TypeOK, PaymentRow
    <2> QED
      BY <2>1, <2>2, <2>4, <2>5, AdmissionsArePrivate
  <1>4. ASSUME NEW rows \in SUBSET MembershipIds, NEW status \in {"LEFT", "REFUNDED", "EXPIRED"},
               EndRiders(rows, status)
        PROVE  PrivateDiscussion'
    BY <1>4, EndsArePrivate DEF MembershipStatus
  <1>5. ASSUME NEW p PROVE Riders(p) \in SUBSET MembershipIds
    BY DEF Riders
  <1>6. ASSUME NEW k \in PaymentIds, Refund(k) PROVE PrivateDiscussion'
    <2>1. (IF IsExtension(k) THEN {} ELSE Riders(payment[k].pass)) \in SUBSET MembershipIds
      BY <1>5
    <2> QED
      BY <1>4, <1>6, <2>1 DEF Refund
  <1>7. ASSUME NEW m \in MembershipIds, Leave(m) PROVE PrivateDiscussion'
    BY <1>4, <1>7 DEF Leave
  <1>8. ASSUME NEW p \in PassIds, ExpirePass(p) PROVE PrivateDiscussion'
    BY <1>4, <1>5, <1>8 DEF ExpirePass
  <1> QED
    BY <1>1, <1>2, <1>3, <1>6, <1>7, <1>8, StepCases
       DEF Bystander, CreatePayment, CheckoutFor, CustomerPays, PaymentFailed

\* A Free Pass starts in a handler's own step, or while nobody has locked the person.
FreePassStarts(p) == pass[p].status = "NONE" /\ pass'[p].status # "NONE" /\ pass'[p].plan = "FREE"

UsersUnlocked(v) ==
    \A p \in PassIds : FreePassStarts(p) => UserLock(Owner[pass'[p].post]) \notin LockedBy(v)

\* A handler that stands still while another goes on keeps what it knows.
LEMMA OthersStay ==
    ASSUME TypeOK, Linked, RequestsTyped, RowsStay, NEW v \in Workers, RequestOK(v),
           pass' \in [PassIds -> PassRow], req'[v] = req[v], UsersUnlocked(v)
    PROVE  RequestOK(v)'
  <1> DEFINE r == req[v]
  <1>1. r \in Request
    BY DEF RequestsTyped
  <1>2. PaymentOK(v)'
    <2>1. r.pass # 0 => r.pass \in PassIds
      BY <1>1 DEF Request
    <2> QED
      BY <1>1, <2>1 DEF RequestOK, PaymentOK, RowsStay, PaymentsStay, PassesKeepHolder, HolderOf
  <1>3. MemberOK(v)'
    BY DEF RequestOK, MemberOK, RowsStay, MembersStay
  <1>4. FreeOK(v)'
    <2> SUFFICES ASSUME r.step = "writeFree" PROVE FreeOK(v)'
      BY DEF FreeOK
    <2>1. PICK i : /\ r.id \in MembershipIds /\ membership'[r.id].post = i
                   /\ UserLock(Owner[i]) \in LockedBy(v) /\ ~FreePassUsed(Owner[i], Scope[i])
      BY DEF RequestOK, MemberOK, FreeOK, RowsStay, MembersStay, LockedBy
    <2>2. ASSUME NEW p \in PassIds, pass'[p].plan = "FREE", pass'[p].status \notin {"NONE", "PENDING"},
                 Owner[pass'[p].post] = Owner[i], Scope[pass'[p].post] = Scope[i]
          PROVE  FALSE
      <3>1. pass[p].status # "NONE"
        BY <2>1, <2>2 DEF UsersUnlocked, FreePassStarts
      <3>2. pass'[p].post = pass[p].post /\ pass[p].plan = "FREE"
        BY <2>2, <3>1 DEF RowsStay, PassesKeepHolder, TypeOK, PassRow
      <3>3. pass[p].status # "PENDING"
        BY <3>2 DEF Linked, PendingPassesAreElite
      <3> QED
        BY <2>1, <2>2, <3>1, <3>2, <3>3 DEF FreePassUsed, HolderOf
    <2>3. ~FreePassUsed(Owner[i], Scope[i])'
      BY <2>2 DEF FreePassUsed, HolderOf
    <2> QED
      BY <2>1, <2>3 DEF FreeOK, LockedBy
  <1> QED
    BY <1>2, <1>3, <1>4 DEF RequestOK

-----------------------------------------------------------------------------
(* What is to be shown of a handler's step. *)

\* The tables keep their invariants, and every row that is there stays.
TablesKept ==
    /\ TypeOK' /\ Linked' /\ RowsStay
    /\ OneFreePassPerScope' /\ PrivateDiscussion'

\* Where the handler stands afterwards, and that it locked free rows only.
RequestKept(w, r) ==
    /\ Go(w, r)
    /\ r \in Request
    /\ RequestOK(w)'
    /\ \E rows : Unlocked(w, rows) /\ r.locks \subseteq LockedBy(w) \cup rows

\* Only who holds the person's row starts a Free Pass.
FreeStartsLocked(w) ==
    \A p \in PassIds : FreePassStarts(p) => UserLock(Owner[pass'[p].post]) \in LockedBy(w)

LEMMA HandlerStep ==
    ASSUME RacesInv, NEW w \in Workers, TablesKept, FreeStartsLocked(w),
           \E r : RequestKept(w, r)
    PROVE  RacesInv'
  <1>1. PICK r : RequestKept(w, r)
    OBVIOUS
  <1>2. r \in Request /\ req \in [Workers -> Request] /\ req' = [req EXCEPT ![w] = r]
    BY <1>1 DEF RequestKept, Go, RacesInv, RequestsTyped
  <1>3. RequestsTyped'
    BY <1>2 DEF RequestsTyped
  <1>4. req'[w] = r /\ \A v \in Workers \ {w} : req'[v] = req[v]
    BY <1>2
  <1>5. Exclusive'
    <2>1. PICK rows : Unlocked(w, rows) /\ r.locks \subseteq LockedBy(w) \cup rows
      BY <1>1 DEF RequestKept
    <2>2. ASSUME NEW v \in Workers \ {w} PROVE LockedBy(v)' \cap LockedBy(w)' = {}
      BY <1>4, <2>1 DEF RacesInv, Exclusive, Unlocked, LockedBy
    <2>3. ASSUME NEW u \in Workers \ {w}, NEW v \in Workers \ {w}, u # v
          PROVE  LockedBy(u)' \cap LockedBy(v)' = {}
      BY <1>4, <2>3 DEF RacesInv, Exclusive, LockedBy
    <2> QED
      BY <2>2, <2>3 DEF Exclusive
  <1>6. ASSUME NEW v \in Workers \ {w} PROVE RequestOK(v)'
    <2>1. UsersUnlocked(v)
      BY DEF FreeStartsLocked, UsersUnlocked, RacesInv, Exclusive
    <2>2. pass' \in [PassIds -> PassRow]
      BY DEF TablesKept, TypeOK
    <2> QED
      BY <1>4, <2>1, <2>2, OthersStay DEF RacesInv, TablesKept
  <1>7. RequestOK(w)'
    BY <1>1 DEF RequestKept
  <1> QED
    BY <1>3, <1>5, <1>6, <1>7 DEF RacesInv, TablesKept

LEMMA StillTables ==
    ASSUME RacesInv, NEW w \in Workers, UNCHANGED tables
    PROVE  TablesKept /\ FreeStartsLocked(w)
  <1>1. UNCHANGED <<now, post, collective, pass, payment, membership, inDiscussion, order>>
    BY DEF tables
  <1>2. TypeOK'
    BY <1>1 DEF RacesInv, TypeOK
  <1>3. Linked'
    BY <1>1 DEF RacesInv, Linked, PaymentsHavePass, PaidOrdersExist, PendingPassesAreElite, HolderOf, PayerOf
  <1>4. RowsStay
    BY <1>1 DEF RowsStay, PassesKeepHolder, PaymentsStay, MembersStay
  <1>5. OneFreePassPerScope'
    BY <1>1 DEF RacesInv, OneFreePassPerScope, HolderOf
  <1>6. PrivateDiscussion'
    BY <1>1 DEF RacesInv, PrivateDiscussion, Discussion, MemberOf
  <1>7. FreeStartsLocked(w)
    BY <1>1 DEF FreeStartsLocked, FreePassStarts
  <1> QED
    BY <1>2, <1>3, <1>4, <1>5, <1>6, <1>7 DEF TablesKept

\* A step that only reads.
LEMMA ReadingStep ==
    ASSUME RacesInv, NEW w \in Workers, UNCHANGED tables, \E r : RequestKept(w, r)
    PROVE  RacesInv'
  BY HandlerStep, StillTables

LEMMA Gone ==
    ASSUME RacesInv, NEW w \in Workers, End(w)
    PROVE  RequestKept(w, Idle)
  <1>1. req'[w] = Idle
    BY DEF End, Go, RacesInv, RequestsTyped
  <1>2. Unlocked(w, {})
    BY DEF Unlocked
  <1> QED
    BY <1>1, <1>2, IdleIsRequest, IdleIsOK, IdleFields DEF RequestKept, End

\* A handler that goes on from r with rows locked.
LEMMA GoesOn ==
    ASSUME RacesInv, NEW w \in Workers, NEW r \in Request, Go(w, r), NEW rows, Unlocked(w, rows),
           r.locks \subseteq LockedBy(w) \cup rows,
           req'[w] = r => RequestOK(w)'
    PROVE  RequestKept(w, r)
  BY DEF RequestKept, Go, RacesInv, RequestsTyped

LEMMA NothingLocked ==
    ASSUME NEW w \in Workers PROVE Unlocked(w, {})
  BY DEF Unlocked

-----------------------------------------------------------------------------
(* Parts of steps. *)

LEMMA PassesStill ==
    ASSUME pass' = pass
    PROVE  /\ PassesKeepHolder /\ NoFreeStart
           /\ \A p \in PassIds : pass'[p].status = "PENDING" => pass[p].status = "PENDING"
  BY DEF PassesKeepHolder, NoFreeStart

LEMMA MembersStill ==
    ASSUME PrivateDiscussion, membership' = membership, inDiscussion' = inDiscussion
    PROVE  MembersStay /\ PrivateDiscussion'
  BY DEF MembersStay, PrivateDiscussion, Discussion, MemberOf

NoNewPayment ==
    /\ \A k \in PaymentIds : payment'[k].status # "NONE" => payment[k].status # "NONE"
    /\ \A k \in PaymentIds : order'[k] # "UNPAID" => payment[k].status # "NONE"

LEMMA PaymentsStill ==
    ASSUME Linked, payment' = payment, order' = order
    PROVE  PaymentsStay /\ NoNewPayment
  BY DEF PaymentsStay, NoNewPayment, Linked, PaidOrdersExist

LEMMA StatusWritten ==
    ASSUME TypeOK, Linked, NEW k \in PaymentIds, payment[k].status # "NONE",
           NEW status \in PaymentStatus, status # "NONE",
           payment' = [payment EXCEPT ![k].status = status], order' = order
    PROVE  payment' \in [PaymentIds -> PaymentRow] /\ PaymentsStay /\ NoNewPayment
  <1>1. payment \in [PaymentIds -> PaymentRow]
    BY DEF TypeOK
  <1>2. payment' \in [PaymentIds -> PaymentRow]
    BY <1>1 DEF PaymentRow
  <1>3. \A j \in PaymentIds : /\ payment'[j].pass = payment[j].pass /\ payment'[j].post = payment[j].post
                              /\ payment'[j].status = IF j = k THEN status ELSE payment[j].status
    BY <1>1 DEF PaymentRow
  <1> QED
    BY <1>2, <1>3 DEF PaymentsStay, NoNewPayment, Linked, PaidOrdersExist

LEMMA NothingStarts ==
    ASSUME NoFreeStart, NEW w PROVE FreeStartsLocked(w)
  BY DEF NoFreeStart, FreeStartsLocked, FreePassStarts

LEMMA TablesStay ==
    ASSUME RacesInv, NEW w, TypeOK', PassesKeepHolder, PaymentsStay, MembersStay, NoNewPayment, NoFreeStart,
           \A p \in PassIds : pass'[p].status = "PENDING" => pass[p].status = "PENDING",
           PrivateDiscussion'
    PROVE  TablesKept /\ FreeStartsLocked(w)
  <1>1. Linked'
    BY LinkedStays DEF RacesInv, NoNewPayment
  <1>2. OneFreePassPerScope'
    BY FreePassesApart DEF RacesInv
  <1> QED
    BY <1>1, <1>2, NothingStarts DEF TablesKept, RowsStay

LEMMA BeginsReading ==
    ASSUME RacesInv, NEW w \in Workers, UNCHANGED tables, NEW kind, NEW r \in Request, Begin(w, kind, r),
           Unlocked(w, r.locks), req'[w] = r => RequestOK(w)'
    PROVE  RacesInv'
  BY GoesOn, ReadingStep DEF Begin

\* A payment's handler finds the payment's pass.
LEMMA PassOfPayment ==
    ASSUME RacesInv, NEW k \in PaymentIds, payment[k].status # "NONE"
    PROVE  LET p == payment[k].pass IN
           /\ p \in PassIds /\ pass[p] \in PassRow
           /\ pass[p].status # "NONE" /\ pass[p].plan = "ELITE"
  BY DEF RacesInv, TypeOK, PaymentRow, Linked, PaymentsHavePass

-----------------------------------------------------------------------------
(* activate(). *)

LEMMA BeginActivateKeeps ==
    ASSUME RacesInv, NEW w \in Workers, NEW k \in PaymentIds, BeginActivate(w, k) PROVE RacesInv'
  <1> DEFINE r == [Idle EXCEPT !.step = "readPass", !.id = k, !.locks = ActivationLocks(k)]
  <1>1. /\ r \in Request /\ r.step = "readPass" /\ r.id = k /\ r.locks = ActivationLocks(k)
    <2>1. k \in Nat /\ ActivationLocks(k) \in SUBSET Lock
      BY LocksAreLocks DEF PaymentIds, ActivationLocks
    <2> QED
      BY <2>1, IdleIsRequest DEF Request, Steps
  <1>2. payment'[k].status # "NONE" /\ UNCHANGED tables /\ Unlocked(w, ActivationLocks(k))
    BY DEF BeginActivate, tables, RacesInv, Linked, PaidOrdersExist
  <1>3. Begin(w, "Activate", r)
    BY DEF BeginActivate
  <1> HIDE DEF r
  <1>4. req'[w] = r => RequestOK(w)'
    BY <1>1, <1>2 DEF RequestOK, PaymentOK, MemberOK, FreeOK
  <1> QED
    BY <1>1, <1>2, <1>3, <1>4, BeginsReading

LEMMA ReadPassKeeps ==
    ASSUME RacesInv, NEW w \in Workers, ReadPass(w) PROVE RacesInv'
  <1> DEFINE k == req[w].id
             p == payment[k].pass
             mode == IF Extending(k) THEN "extend"
                     ELSE IF pass[p].status = "ACTIVE" THEN "keep" ELSE "start"
             until == IF mode = "extend" THEN ExtendedExpiry(pass[p].expiresAt) ELSE now + EliteDays
             r == [req[w] EXCEPT !.step = "writePass", !.pass = p, !.mode = mode, !.until = until,
                                 !.locks = {PaymentLock(k)}]
  <1>1. req[w] \in Request /\ k \in PaymentIds /\ payment[k].status # "NONE"
    BY DEF ReadPass, At, RacesInv, RequestsTyped, RequestOK, PaymentOK
  <1>2. p \in PassIds
    BY <1>1, PassOfPayment
  <1>3. until \in Nat
    <2>1. now \in Nat /\ pass[p].expiresAt \in Nat
      BY <1>1, PassOfPayment DEF RacesInv, TypeOK, PassRow
    <2> QED
      BY <2>1, ExpiryInNat
  <1>4. mode \in {"start", "extend", "keep"}
    OBVIOUS
  <1>5. Go(w, r) /\ UNCHANGED tables /\ Unlocked(w, {PaymentLock(k)})
    BY DEF ReadPass
  <1>6. payment'[k] = payment[k]
    BY <1>5 DEF tables
  <1> HIDE DEF mode, until
  <1>7. /\ r \in Request /\ r.step = "writePass" /\ r.id = k /\ r.pass = p /\ r.mode = mode
        /\ r.locks = {PaymentLock(k)}
    BY <1>1, <1>2, <1>3, <1>4, LocksAreLocks DEF Request, Steps
  <1> HIDE DEF r
  <1>8. req'[w] = r => RequestOK(w)'
    BY <1>1, <1>4, <1>6, <1>7 DEF RequestOK, PaymentOK, MemberOK, FreeOK
  <1> QED
    BY <1>5, <1>7, <1>8, GoesOn, ReadingStep

LEMMA WritePassKeeps ==
    ASSUME RacesInv, NEW w \in Workers, WritePass(w) PROVE RacesInv'
  <1> DEFINE r == req[w]
             ended == IF r.mode = "start" THEN EndedFreePasses(r.id) ELSE {}
             taken == CASE r.mode = "start" -> {PostKey(pass[r.pass].post), PassLock(r.pass)}
                        [] r.mode = "extend" -> {PassLock(r.pass)}
                        [] r.mode = "keep" -> {}
             locks == taken \cup {PassLock(q) : q \in ended}
             s == [r EXCEPT !.step = "grant", !.rows = MovedMemberships(r.id), !.locks = @ \cup locks]
  <1>1. /\ r \in Request /\ r.id \in PaymentIds /\ payment[r.id].status # "NONE"
        /\ r.pass = payment[r.id].pass /\ r.locks = {PaymentLock(r.id)}
        /\ r.mode \in {"start", "extend", "keep"}
    BY DEF WritePass, At, RacesInv, RequestsTyped, RequestOK, PaymentOK
  <1>2. r.pass \in PassIds /\ pass[r.pass].status # "NONE" /\ pass[r.pass].post \in Posts
    BY <1>1, PassOfPayment DEF PassRow
  <1>3. UNCHANGED tables /\ Unlocked(w, locks)
    BY DEF WritePass
  <1>4. End(w) \/ Go(w, s)
    BY DEF WritePass
  <1>5. ended \in SUBSET PassIds /\ \A q \in ended : pass[q].status = "ACTIVE"
    BY DEF EndedFreePasses
  <1>6. locks \in SUBSET Lock
    BY <1>1, <1>2, <1>5, LocksAreLocks
  <1>7. ASSUME NEW q \in PassIds, PassLock(q) \in {PaymentLock(r.id)} \cup locks
        PROVE  pass[q].status # "NONE"
    <2>1. \A i : PassLock(q) # PaymentLock(i) /\ PassLock(q) # PostKey(i)
      BY DEF PassLock, PaymentLock, PostKey
    <2>2. \A p : PassLock(q) = PassLock(p) => q = p
      BY DEF PassLock
    <2> QED
      BY <1>1, <1>2, <1>5, <1>7, <2>1, <2>2
  <1>8. MovedMemberships(r.id) \in SUBSET MembershipIds
    BY DEF MovedMemberships, LiveMemberships
  <1> HIDE DEF locks, ended, taken
  <1>9. /\ s \in Request /\ s.step = "grant" /\ s.id = r.id /\ s.pass = r.pass
        /\ s.locks = {PaymentLock(r.id)} \cup locks
    BY <1>1, <1>6, <1>8 DEF Request, Steps
  <1>10. s.locks \subseteq LockedBy(w) \cup locks
    BY <1>1, <1>9 DEF LockedBy
  <1> HIDE DEF s
  <1>11. req'[w] = s => RequestOK(w)'
    <2>1. payment' = payment /\ pass' = pass
      BY <1>3 DEF tables
    <2> QED
      BY <1>1, <1>7, <1>9, <2>1 DEF RequestOK, PaymentOK, MemberOK, FreeOK
  <1>12. CASE Go(w, s)
    BY <1>3, <1>9, <1>10, <1>11, <1>12, GoesOn, ReadingStep
  <1> QED
    BY <1>3, <1>4, <1>12, Gone, ReadingStep

LEMMA GrantKeeps ==
    ASSUME RacesInv, NEW w \in Workers, Grant(w) PROVE RacesInv'
  <1> DEFINE r == req[w]
             ended == {q \in PassIds \ {r.pass} : PassLock(q) \in r.locks}
             moved == SetMembers(r.rows, "ACTIVE", r.pass)
  <1>1. /\ r \in Request /\ r.id \in PaymentIds /\ payment[r.id].status # "NONE"
        /\ r.pass = payment[r.id].pass
        /\ \A q \in ended : pass[q].status # "NONE"
    BY DEF Grant, At, RacesInv, RequestsTyped, RequestOK, PaymentOK
  <1>2. r.pass \in PassIds /\ pass[r.pass].status # "NONE" /\ pass[r.pass].plan = "ELITE"
    BY <1>1, PassOfPayment
  <1>3. TypeOK /\ Linked /\ PrivateDiscussion
    BY DEF RacesInv
  <1>4. End(w)
    BY DEF Grant
  <1>5. CASE UNCHANGED tables
    BY <1>4, <1>5, Gone, ReadingStep
  <1>6. CASE ~UNCHANGED tables
    <2>1. /\ payment' = [payment EXCEPT ![r.id].status = "SUCCESS"]
          /\ pass' = [q \in PassIds |->
               CASE q \in ended -> [pass[q] EXCEPT !.status = "EXPIRED", !.expiresAt = now]
                 [] q = r.pass /\ r.mode = "extend" -> [pass[q] EXCEPT !.expiresAt = r.until]
                 [] q = r.pass /\ r.mode = "start" ->
                      [pass[q] EXCEPT !.plan = "ELITE", !.status = "ACTIVE",
                                      !.expiresAt = r.until, !.payment = r.id]
                 [] OTHER -> pass[q]]
          /\ membership' = moved
          /\ inDiscussion' = inDiscussion \cup Discussion(r.rows)
          /\ UNCHANGED <<now, post, collective, order>>
      BY <1>6 DEF Grant
    <2>2. ended \in SUBSET PassIds /\ r.pass \notin ended
      OBVIOUS
    <2>3. r.rows \in SUBSET MembershipIds /\ r.until \in Nat /\ r.pass \in {0} \cup PassIds /\ now \in Nat
      BY <1>1, <1>3 DEF Request, TypeOK
    <2> HIDE DEF ended, moved
    <2>4. ASSUME NEW q \in PassIds
          PROVE  /\ pass'[q] \in PassRow /\ pass'[q].post = pass[q].post
                 /\ \/ pass'[q] = pass[q]
                    \/ /\ pass[q].status # "NONE" /\ pass'[q].status = pass[q].status
                       /\ pass'[q].plan = pass[q].plan
                    \/ pass[q].status # "NONE" /\ pass'[q].status = "EXPIRED" /\ pass'[q].plan = pass[q].plan
                    \/ pass[q].status # "NONE" /\ pass'[q].status = "ACTIVE" /\ pass'[q].plan = "ELITE"
      <3>1. pass[q] \in PassRow
        BY <1>3 DEF TypeOK
      <3>2. CASE q \in ended
        <4>1. pass'[q] = [pass[q] EXCEPT !.status = "EXPIRED", !.expiresAt = now]
          BY <2>1, <2>2, <3>2
        <4> QED
          BY <1>1, <2>3, <3>1, <3>2, <4>1 DEF PassRow, PassStatus
      <3>3. CASE q = r.pass /\ r.mode = "extend"
        <4>1. pass'[q] = [pass[q] EXCEPT !.expiresAt = r.until]
          BY <2>1, <2>2, <3>3, ZenonT(40)
        <4> QED
          BY <1>2, <2>3, <3>1, <3>3, <4>1 DEF PassRow
      <3>4. CASE q = r.pass /\ r.mode = "start"
        <4>1. pass'[q] = [pass[q] EXCEPT !.plan = "ELITE", !.status = "ACTIVE",
                                         !.expiresAt = r.until, !.payment = r.id]
          BY <2>1, <2>2, <3>4
        <4> QED
          BY <1>1, <1>2, <2>3, <3>1, <3>4, <4>1 DEF PassRow, PassStatus
      <3>5. CASE q \notin ended /\ ~(q = r.pass /\ r.mode \in {"extend", "start"})
        BY <2>1, <3>1, <3>5
      <3> QED
        BY <3>2, <3>3, <3>4, <3>5
    <2>5. /\ pass' \in [PassIds -> PassRow] /\ PassesKeepHolder /\ NoFreeStart
          /\ \A p \in PassIds : pass'[p].status = "PENDING" => pass[p].status = "PENDING"
      <3>1. pass' \in [PassIds -> PassRow]
        BY <2>1, <2>4
      <3>2. PassesKeepHolder
        BY <2>4 DEF PassesKeepHolder
      <3>3. NoFreeStart
        BY <2>4 DEF NoFreeStart
      <3>4. \A p \in PassIds : pass'[p].status = "PENDING" => pass[p].status = "PENDING"
        BY <2>4
      <3> QED
        BY <3>1, <3>2, <3>3, <3>4
    <2>6. payment' \in [PaymentIds -> PaymentRow] /\ PaymentsStay /\ NoNewPayment
      BY <1>1, <1>3, <2>1, StatusWritten, ZenonT(40) DEF PaymentStatus
    <2>7. /\ membership' \in [MembershipIds -> MembershipRow] /\ MembersStay
          /\ inDiscussion' \in SUBSET (Collectives \X Users)
      BY <1>3, <2>1, <2>3, MembersTyped, ZenonT(40) DEF TypeOK, moved
    <2>8. PrivateDiscussion'
      BY <1>3, <2>1, <2>3, AdmissionsArePrivate, ZenonT(40) DEF moved
    <2>9. TypeOK'
      BY <1>3, <2>1, <2>5, <2>6, <2>7 DEF TypeOK
    <2> QED
      BY <1>4, <2>5, <2>6, <2>7, <2>8, <2>9, TablesStay, Gone, HandlerStep
  <1> QED
    BY <1>5, <1>6

-----------------------------------------------------------------------------
(* payment.failed, refunds and the expiry job. *)

LEMMA BeginPaymentFailedKeeps ==
    ASSUME RacesInv, NEW w \in Workers, NEW k \in PaymentIds, BeginPaymentFailed(w, k) PROVE RacesInv'
  <1> DEFINE r == [Idle EXCEPT !.step = "writeFailed", !.id = k]
  <1>1. r \in Request /\ r.step = "writeFailed" /\ r.id = k /\ r.locks = {}
    <2>1. k \in Nat
      BY DEF PaymentIds
    <2> QED
      BY <2>1, IdleIsRequest, IdleFields DEF Request, Steps
  <1>2. Begin(w, "PaymentFailed", r) /\ UNCHANGED tables /\ payment'[k].status # "NONE"
    BY DEF BeginPaymentFailed, tables
  <1> HIDE DEF r
  <1>3. req'[w] = r => RequestOK(w)'
    BY <1>1, <1>2 DEF RequestOK, PaymentOK, MemberOK, FreeOK
  <1> QED
    BY <1>1, <1>2, <1>3, NothingLocked, BeginsReading

LEMMA WriteFailedKeeps ==
    ASSUME RacesInv, NEW w \in Workers, WriteFailed(w) PROVE RacesInv'
  <1> DEFINE k == req[w].id
  <1>1. k \in PaymentIds /\ payment[k].status # "NONE"
    BY DEF WriteFailed, At, RacesInv, RequestOK, PaymentOK
  <1>2. /\ payment' = [payment EXCEPT ![k].status = "FAILED"] /\ End(w)
        /\ UNCHANGED <<now, post, collective, pass, membership, inDiscussion, order>>
    BY DEF WriteFailed
  <1>3. TypeOK /\ Linked /\ PrivateDiscussion
    BY DEF RacesInv
  <1>4. payment' \in [PaymentIds -> PaymentRow] /\ PaymentsStay /\ NoNewPayment
    BY <1>1, <1>2, <1>3, StatusWritten DEF PaymentStatus
  <1>5. TypeOK'
    BY <1>2, <1>3, <1>4 DEF TypeOK
  <1> QED
    BY <1>2, <1>3, <1>4, <1>5, PassesStill, MembersStill, TablesStay, Gone, HandlerStep

LEMMA BeginRefundKeeps ==
    ASSUME RacesInv, NEW w \in Workers, NEW k \in PaymentIds, BeginRefund(w, k) PROVE RacesInv'
  <1> DEFINE r == [Idle EXCEPT !.step = "readRefund", !.id = k]
  <1>1. r \in Request /\ r.step = "readRefund" /\ r.id = k /\ r.locks = {}
    <2>1. k \in Nat
      BY DEF PaymentIds
    <2> QED
      BY <2>1, IdleIsRequest, IdleFields DEF Request, Steps
  <1>2. /\ Go(w, r) /\ payment[k].status = "SUCCESS" /\ order' = [order EXCEPT ![k] = "RETURNED"]
        /\ UNCHANGED <<now, post, collective, pass, payment, membership, inDiscussion>>
    BY DEF BeginRefund, Begin
  <1>3. TypeOK /\ Linked /\ PrivateDiscussion
    BY DEF RacesInv
  <1> HIDE DEF r
  <1>4. req'[w] = r => RequestOK(w)'
    BY <1>1, <1>2 DEF RequestOK, PaymentOK, MemberOK, FreeOK
  <1>5. RequestKept(w, r)
    BY <1>1, <1>2, <1>4, NothingLocked, GoesOn
  <1>6. TypeOK'
    BY <1>2, <1>3 DEF TypeOK
  <1>7. PaymentsStay /\ NoNewPayment
    BY <1>2, <1>3 DEF PaymentsStay, NoNewPayment, Linked, PaidOrdersExist, TypeOK
  <1> QED
    BY <1>2, <1>3, <1>5, <1>6, <1>7, PassesStill, MembersStill, TablesStay, HandlerStep

LEMMA BeginRefundWebhookKeeps ==
    ASSUME RacesInv, NEW w \in Workers, NEW k \in PaymentIds, BeginRefundWebhook(w, k) PROVE RacesInv'
  <1> DEFINE r == [Idle EXCEPT !.step = "lockRefund", !.id = k]
  <1>1. r \in Request /\ r.step = "lockRefund" /\ r.id = k /\ r.locks = {}
    <2>1. k \in Nat
      BY DEF PaymentIds
    <2> QED
      BY <2>1, IdleIsRequest, IdleFields DEF Request, Steps
  <1>2. Begin(w, "Refund", r) /\ UNCHANGED tables /\ payment'[k].status # "NONE"
    BY DEF BeginRefundWebhook, tables
  <1> HIDE DEF r
  <1>3. req'[w] = r => RequestOK(w)'
    BY <1>1, <1>2 DEF RequestOK, PaymentOK, MemberOK, FreeOK
  <1> QED
    BY <1>1, <1>2, <1>3, NothingLocked, BeginsReading

LEMMA ReadRefundKeeps ==
    ASSUME RacesInv, NEW w \in Workers, ReadRefund(w) PROVE RacesInv'
  <1> DEFINE r == [req[w] EXCEPT !.step = "lockRefund"]
  <1>1. req[w] \in Request /\ req[w].id \in PaymentIds /\ payment[req[w].id].status # "NONE"
    BY DEF ReadRefund, At, RacesInv, RequestsTyped, RequestOK, PaymentOK
  <1>2. UNCHANGED tables /\ (End(w) \/ Go(w, r))
    BY DEF ReadRefund
  <1>3. r \in Request /\ r.step = "lockRefund" /\ r.id = req[w].id /\ r.locks = LockedBy(w)
    BY <1>1 DEF Request, Steps, LockedBy
  <1>4. payment' = payment
    BY <1>2 DEF tables
  <1> HIDE DEF r
  <1>5. req'[w] = r => RequestOK(w)'
    BY <1>1, <1>3, <1>4 DEF RequestOK, PaymentOK, MemberOK, FreeOK
  <1> QED
    BY <1>2, <1>3, <1>5, NothingLocked, GoesOn, Gone, ReadingStep

LEMMA LockRefundKeeps ==
    ASSUME RacesInv, NEW w \in Workers, LockRefund(w) PROVE RacesInv'
  <1> DEFINE k == req[w].id
             p == payment[k].pass
             mode == IF ~IsExtension(k) THEN "end"
                     ELSE IF pass[p].status = "ACTIVE" THEN "reduce" ELSE "keep"
             until == ReducedExpiry(pass[p].expiresAt)
             r == [req[w] EXCEPT !.step = "refundPass", !.pass = p, !.locks = {PaymentLock(k)},
                                 !.mode = mode, !.until = until]
  <1>1. req[w] \in Request /\ k \in PaymentIds /\ payment[k].status # "NONE"
    BY DEF LockRefund, At, RacesInv, RequestsTyped, RequestOK, PaymentOK
  <1>2. p \in PassIds
    BY <1>1, PassOfPayment
  <1>3. until \in Nat
    <2>1. now \in Nat /\ pass[p].expiresAt \in Nat
      BY <1>1, PassOfPayment DEF RacesInv, TypeOK, PassRow
    <2> QED
      BY <2>1, ExpiryInNat
  <1>4. mode \in {"end", "reduce", "keep"}
    OBVIOUS
  <1>5. Go(w, r) /\ UNCHANGED tables /\ Unlocked(w, {PaymentLock(k)})
    BY DEF LockRefund
  <1>6. payment'[k] = payment[k]
    BY <1>5 DEF tables
  <1> HIDE DEF mode, until
  <1>7. /\ r \in Request /\ r.step = "refundPass" /\ r.id = k /\ r.pass = p /\ r.mode = mode
        /\ r.locks = {PaymentLock(k)}
    BY <1>1, <1>2, <1>3, <1>4, LocksAreLocks DEF Request, Steps
  <1> HIDE DEF r
  <1>8. req'[w] = r => RequestOK(w)'
    BY <1>1, <1>4, <1>6, <1>7 DEF RequestOK, PaymentOK, MemberOK, FreeOK
  <1> QED
    BY <1>5, <1>7, <1>8, GoesOn, ReadingStep

LEMMA RefundPassKeeps ==
    ASSUME RacesInv, NEW w \in Workers, RefundPass(w) PROVE RacesInv'
  <1> DEFINE r == req[w]
             ends == r.mode = "end" /\ pass[r.pass].status \in {"ACTIVE", "PENDING"}
             locks == IF ends \/ r.mode = "reduce" THEN {PassLock(r.pass)} ELSE {}
             mode == IF r.mode = "end" /\ ~ends THEN "keep" ELSE r.mode
             rows == IF r.mode = "end" THEN Riders(r.pass) ELSE {}
             s == [r EXCEPT !.step = "refundMembers", !.locks = @ \cup locks, !.mode = mode, !.rows = rows]
  <1>1. /\ r \in Request /\ r.id \in PaymentIds /\ payment[r.id].status # "NONE"
        /\ r.pass = payment[r.id].pass /\ r.mode \in {"end", "reduce", "keep"}
    BY DEF RefundPass, At, RacesInv, RequestsTyped, RequestOK, PaymentOK
  <1>2. r.pass \in PassIds
    BY <1>1, PassOfPayment
  <1>3. mode \in {"end", "reduce", "keep"} /\ rows \in SUBSET MembershipIds /\ locks \in SUBSET Lock
    BY <1>1, <1>2, LocksAreLocks DEF Riders
  <1>4. Go(w, s) /\ UNCHANGED tables /\ Unlocked(w, locks)
    BY DEF RefundPass
  <1>5. payment' = payment
    BY <1>4 DEF tables
  <1> HIDE DEF mode, rows, locks
  <1>6. /\ s \in Request /\ s.step = "refundMembers" /\ s.id = r.id /\ s.pass = r.pass /\ s.mode = mode
        /\ s.locks = LockedBy(w) \cup locks
    BY <1>1, <1>3 DEF Request, Steps, LockedBy
  <1> HIDE DEF s
  <1>7. req'[w] = s => RequestOK(w)'
    BY <1>1, <1>3, <1>5, <1>6 DEF RequestOK, PaymentOK, MemberOK, FreeOK
  <1> QED
    BY <1>4, <1>6, <1>7, GoesOn, ReadingStep

\* A pass that is there is given another end, or ends.
LEMMA PassWritten ==
    ASSUME TypeOK, NEW p \in PassIds, pass[p].status # "NONE", NEW row \in PassRow,
           row.post = pass[p].post, row.plan = pass[p].plan,
           row.status # "NONE", row.status = "PENDING" => pass[p].status = "PENDING",
           pass' = [pass EXCEPT ![p] = row]
    PROVE  /\ pass' \in [PassIds -> PassRow] /\ PassesKeepHolder /\ NoFreeStart
           /\ \A q \in PassIds : pass'[q].status = "PENDING" => pass[q].status = "PENDING"
  <1>1. pass \in [PassIds -> PassRow]
    BY DEF TypeOK
  <1>2. pass'[p] = row /\ \A q \in PassIds \ {p} : pass'[q] = pass[q]
    BY <1>1
  <1>3. pass' \in [PassIds -> PassRow]
    BY <1>1
  <1>4. PassesKeepHolder
    BY <1>2 DEF PassesKeepHolder
  <1>5. NoFreeStart
    BY <1>2 DEF NoFreeStart
  <1> QED
    BY <1>2, <1>3, <1>4, <1>5

LEMMA RefundMembersKeeps ==
    ASSUME RacesInv, NEW w \in Workers, RefundMembers(w) PROVE RacesInv'
  <1> DEFINE r == req[w]
             p == r.pass
  <1>1. /\ r \in Request /\ r.id \in PaymentIds /\ payment[r.id].status # "NONE"
        /\ p = payment[r.id].pass /\ r.mode \in {"end", "reduce", "keep"}
    BY DEF RefundMembers, At, RacesInv, RequestsTyped, RequestOK, PaymentOK
  <1>2. p \in PassIds /\ pass[p].status # "NONE" /\ pass[p] \in PassRow
    BY <1>1, PassOfPayment
  <1>3. TypeOK /\ Linked /\ PrivateDiscussion /\ r.rows \in SUBSET MembershipIds /\ r.until \in Nat
    BY <1>1 DEF RacesInv, Request
  <1>4. /\ payment' = [payment EXCEPT ![r.id].status = "REFUNDED"]
        /\ EndRiders(r.rows, "REFUNDED") /\ End(w) /\ UNCHANGED <<now, post, collective, order>>
    BY DEF RefundMembers
  <1>5. payment' \in [PaymentIds -> PaymentRow] /\ PaymentsStay /\ NoNewPayment
    BY <1>1, <1>3, <1>4, StatusWritten DEF PaymentStatus
  <1>6. /\ pass' \in [PassIds -> PassRow] /\ PassesKeepHolder /\ NoFreeStart
        /\ \A q \in PassIds : pass'[q].status = "PENDING" => pass[q].status = "PENDING"
    <2>1. CASE r.mode = "keep"
      <3>1. pass' = pass
        BY <2>1 DEF RefundMembers
      <3> QED
        BY <1>3, <3>1, PassesStill DEF TypeOK
    <2>2. CASE r.mode = "reduce"
      <3>1. pass' = [pass EXCEPT ![p] = [pass[p] EXCEPT !.expiresAt = r.until]]
        BY <1>2, <1>3, <2>2 DEF RefundMembers, TypeOK
      <3>2. /\ [pass[p] EXCEPT !.expiresAt = r.until] \in PassRow
            /\ [pass[p] EXCEPT !.expiresAt = r.until].post = pass[p].post
            /\ [pass[p] EXCEPT !.expiresAt = r.until].plan = pass[p].plan
            /\ [pass[p] EXCEPT !.expiresAt = r.until].status = pass[p].status
        BY <1>2, <1>3 DEF PassRow
      <3> QED
        BY <1>2, <1>3, <3>1, <3>2, PassWritten
    <2>3. CASE r.mode = "end"
      <3>1. pass' = [pass EXCEPT ![p] = [pass[p] EXCEPT !.status = "REFUNDED"]]
        BY <1>2, <1>3, <2>3 DEF RefundMembers, TypeOK
      <3>2. /\ [pass[p] EXCEPT !.status = "REFUNDED"] \in PassRow
            /\ [pass[p] EXCEPT !.status = "REFUNDED"].post = pass[p].post
            /\ [pass[p] EXCEPT !.status = "REFUNDED"].plan = pass[p].plan
            /\ [pass[p] EXCEPT !.status = "REFUNDED"].status = "REFUNDED"
        BY <1>2 DEF PassRow, PassStatus
      <3> QED
        BY <1>2, <1>3, <3>1, <3>2, PassWritten
    <2> QED
      BY <1>1, <2>1, <2>2, <2>3
  <1>7. /\ membership' \in [MembershipIds -> MembershipRow] /\ MembersStay
        /\ inDiscussion' \in SUBSET (Collectives \X Users)
    BY <1>3, <1>4, EndRidersTyped, EndsStay DEF MembershipStatus
  <1>8. PrivateDiscussion'
    BY <1>3, <1>4, EndsArePrivate DEF MembershipStatus
  <1>9. TypeOK'
    BY <1>3, <1>4, <1>5, <1>6, <1>7 DEF TypeOK
  <1> QED
    BY <1>4, <1>5, <1>6, <1>7, <1>8, <1>9, TablesStay, Gone, HandlerStep

LEMMA BeginExpirePassesKeeps ==
    ASSUME RacesInv, NEW w \in Workers, BeginExpirePasses(w) PROVE RacesInv'
  <1> DEFINE r == [Idle EXCEPT !.step = "expirePass", !.due = DuePasses]
  <1>1. r \in Request /\ r.step = "expirePass" /\ r.locks = {}
    BY IdleIsRequest, IdleFields DEF Request, Steps, DuePasses
  <1>2. Begin(w, "ExpirePasses", r) /\ UNCHANGED tables
    BY DEF BeginExpirePasses
  <1> HIDE DEF r
  <1>3. req'[w] = r => RequestOK(w)'
    BY <1>1 DEF RequestOK, PaymentOK, MemberOK, FreeOK
  <1> QED
    BY <1>1, <1>2, <1>3, NothingLocked, BeginsReading

LEMMA WriteExpiredKeeps ==
    ASSUME RacesInv, NEW w \in Workers, WriteExpired(w) PROVE RacesInv'
  <1>1. PICK p \in req[w].due :
          LET rest == req[w].due \ {p} IN
          /\ Unlocked(w, {PassLock(p)})
          /\ Go(w, IF pass[p].status = "ACTIVE"
                   THEN [req[w] EXCEPT !.step = "expireMembers", !.pass = p, !.due = rest,
                                       !.rows = Riders(p), !.locks = {PassLock(p)}]
                   ELSE IF rest = {} THEN Idle ELSE [req[w] EXCEPT !.due = rest])
          /\ UNCHANGED tables
    BY DEF WriteExpired
  <1> DEFINE rest == req[w].due \ {p}
             r == [req[w] EXCEPT !.step = "expireMembers", !.pass = p, !.due = rest,
                                 !.rows = Riders(p), !.locks = {PassLock(p)}]
             s == [req[w] EXCEPT !.due = rest]
  <1>2. req[w] \in Request /\ req[w].step = "expirePass" /\ p \in PassIds
    BY DEF WriteExpired, At, RacesInv, RequestsTyped, Request
  <1>3. rest \in SUBSET PassIds /\ Riders(p) \in SUBSET MembershipIds
    BY <1>2 DEF Request, Riders
  <1>4. CASE pass[p].status = "ACTIVE"
    <2>1. Go(w, r)
      BY <1>1, <1>4
    <2>2. r \in Request /\ r.step = "expireMembers" /\ r.pass = p /\ r.locks = {PassLock(p)}
      BY <1>2, <1>3, LocksAreLocks DEF Request, Steps
    <2>3. pass'[p].status # "NONE"
      BY <1>1, <1>4 DEF tables
    <2> HIDE DEF r
    <2>4. req'[w] = r => RequestOK(w)'
      BY <1>2, <2>2, <2>3 DEF RequestOK, PaymentOK, MemberOK, FreeOK
    <2> QED
      BY <1>1, <2>1, <2>2, <2>4, GoesOn, ReadingStep
  <1>5. CASE Go(w, Idle)
    BY <1>1, <1>5, Gone, ReadingStep DEF End
  <1>6. CASE Go(w, s)
    <2>1. s \in Request /\ s.step = "expirePass" /\ s.locks = LockedBy(w)
      BY <1>2, <1>3 DEF Request, LockedBy
    <2> HIDE DEF s
    <2>2. req'[w] = s => RequestOK(w)'
      BY <2>1 DEF RequestOK, PaymentOK, MemberOK, FreeOK
    <2> QED
      BY <1>1, <1>6, <2>1, <2>2, NothingLocked, GoesOn, ReadingStep
  <1> QED
    BY <1>1, <1>4, <1>5, <1>6

LEMMA ExpireMembersKeeps ==
    ASSUME RacesInv, NEW w \in Workers, ExpireMembers(w) PROVE RacesInv'
  <1> DEFINE r == req[w]
             p == r.pass
             s == [Idle EXCEPT !.step = "expirePass", !.due = r.due]
  <1>1. r \in Request /\ p \in PassIds /\ pass[p].status # "NONE"
    BY DEF ExpireMembers, At, RacesInv, RequestsTyped, RequestOK, PaymentOK
  <1>2. TypeOK /\ Linked /\ PrivateDiscussion /\ r.rows \in SUBSET MembershipIds /\ pass[p] \in PassRow
    BY <1>1 DEF RacesInv, Request, TypeOK
  <1>3. /\ pass' = [pass EXCEPT ![p] = [pass[p] EXCEPT !.status = "EXPIRED"]]
        /\ EndRiders(r.rows, "EXPIRED")
        /\ Go(w, Idle) \/ Go(w, s)
        /\ UNCHANGED <<now, post, collective, payment, order>>
    BY <1>1, <1>2 DEF ExpireMembers, TypeOK
  <1>4. /\ pass' \in [PassIds -> PassRow] /\ PassesKeepHolder /\ NoFreeStart
        /\ \A q \in PassIds : pass'[q].status = "PENDING" => pass[q].status = "PENDING"
    <2>1. /\ [pass[p] EXCEPT !.status = "EXPIRED"] \in PassRow
          /\ [pass[p] EXCEPT !.status = "EXPIRED"].post = pass[p].post
          /\ [pass[p] EXCEPT !.status = "EXPIRED"].plan = pass[p].plan
          /\ [pass[p] EXCEPT !.status = "EXPIRED"].status = "EXPIRED"
      BY <1>2 DEF PassRow, PassStatus
    <2> QED
      BY <1>1, <1>2, <1>3, <2>1, PassWritten
  <1>5. /\ membership' \in [MembershipIds -> MembershipRow] /\ MembersStay
        /\ inDiscussion' \in SUBSET (Collectives \X Users)
    BY <1>2, <1>3, EndRidersTyped, EndsStay DEF MembershipStatus
  <1>6. PrivateDiscussion'
    BY <1>2, <1>3, EndsArePrivate DEF MembershipStatus
  <1>7. TypeOK'
    BY <1>2, <1>3, <1>4, <1>5 DEF TypeOK
  <1>8. TablesKept /\ FreeStartsLocked(w)
    BY <1>2, <1>3, <1>4, <1>5, <1>6, <1>7, PaymentsStill, TablesStay
  <1>9. s \in Request /\ s.step = "expirePass" /\ s.locks = {}
    BY <1>1, IdleIsRequest, IdleFields DEF Request, Steps
  <1> HIDE DEF s
  <1>10. req'[w] = s => RequestOK(w)'
    BY <1>9 DEF RequestOK, PaymentOK, MemberOK, FreeOK
  <1>11. \E t : RequestKept(w, t)
    BY <1>3, <1>9, <1>10, NothingLocked, GoesOn, Gone DEF End
  <1> QED
    BY <1>8, <1>11, HandlerStep

-----------------------------------------------------------------------------
(* Joining and leaving. *)

LEMMA BeginJoinKeeps ==
    ASSUME RacesInv, NEW w \in Workers, NEW i \in Posts, NEW c \in Collectives, BeginJoin(w, i, c)
    PROVE  RacesInv'
  <1>1. PICK m \in MembershipFor(i, c) :
          /\ UNCHANGED tables
          /\ Begin(w, "Join",
               IF membership[m].status = "NONE"
               THEN [Idle EXCEPT !.step = "openMembership", !.post = i, !.collective = c]
               ELSE [Idle EXCEPT !.step = "readElite", !.id = m])
    BY DEF BeginJoin
  <1>2. m \in MembershipIds /\ m \in Nat
    BY MembershipForIsId DEF RacesInv, MembershipIds
  <1> DEFINE r == [Idle EXCEPT !.step = "openMembership", !.post = i, !.collective = c]
             s == [Idle EXCEPT !.step = "readElite", !.id = m]
  <1>3. r \in Request /\ r.step = "openMembership" /\ r.locks = {}
    BY IdleIsRequest, IdleFields DEF Request, Steps
  <1>4. s \in Request /\ s.step = "readElite" /\ s.id = m /\ s.locks = {}
    BY <1>2, IdleIsRequest, IdleFields DEF Request, Steps
  <1>5. membership' = membership
    BY <1>1 DEF tables
  <1>6. \/ Begin(w, "Join", r)
        \/ membership[m].status # "NONE" /\ Begin(w, "Join", s)
    BY <1>1
  <1> HIDE DEF r, s
  <1>7. CASE Begin(w, "Join", r)
    <2>1. req'[w] = r => RequestOK(w)'
      BY <1>3 DEF RequestOK, PaymentOK, MemberOK, FreeOK
    <2> QED
      BY <1>1, <1>3, <1>7, <2>1, NothingLocked, BeginsReading
  <1>8. CASE membership[m].status # "NONE" /\ Begin(w, "Join", s)
    <2>1. req'[w] = s => RequestOK(w)'
      BY <1>2, <1>4, <1>5, <1>8 DEF RequestOK, PaymentOK, MemberOK, FreeOK
    <2> QED
      BY <1>1, <1>4, <1>8, <2>1, NothingLocked, BeginsReading
  <1> QED
    BY <1>6, <1>7, <1>8

LEMMA OpenMembershipKeeps ==
    ASSUME RacesInv, NEW w \in Workers, OpenMembership(w) PROVE RacesInv'
  <1>1. PICK m \in NewIds(membership) :
          LET opened == [membership EXCEPT ![m] =
                           [status |-> "PENDING_PAYMENT", collective |-> req[w].collective,
                            post |-> req[w].post, pass |-> 0]]
          IN  /\ \/ membership' = opened /\ Go(w, [Idle EXCEPT !.step = "readElite", !.id = m])
                 \/ UNCHANGED membership /\ End(w)
              /\ UNCHANGED <<now, post, collective, pass, payment, inDiscussion, order>>
    BY DEF OpenMembership
  <1> DEFINE row == [status |-> "PENDING_PAYMENT", collective |-> req[w].collective,
                     post |-> req[w].post, pass |-> 0]
             s == [Idle EXCEPT !.step = "readElite", !.id = m]
  <1>2. TypeOK /\ Linked /\ PrivateDiscussion /\ req[w] \in Request
    BY DEF RacesInv, RequestsTyped
  <1>3. m \in MembershipIds /\ membership[m].status = "NONE" /\ m \in Nat
    BY <1>2 DEF NewIds, TypeOK, MembershipIds
  <1>4. s \in Request /\ s.step = "readElite" /\ s.id = m /\ s.locks = {}
    BY <1>3, IdleIsRequest, IdleFields DEF Request, Steps
  <1>5. row \in MembershipRow /\ row.status = "PENDING_PAYMENT"
    BY <1>2 DEF Request, MembershipRow, MembershipStatus
  <1> HIDE DEF s, row
  <1>6. CASE membership' = [membership EXCEPT ![m] = row] /\ Go(w, s)
    <2>1. membership'[m] = row /\ \A n \in MembershipIds \ {m} : membership'[n] = membership[n]
      BY <1>2, <1>3, <1>6 DEF TypeOK
    <2>2. TypeOK'
      BY <1>1, <1>2, <1>5, <1>6 DEF TypeOK
    <2>3. MembersStay
      BY <1>3, <2>1 DEF MembersStay
    <2>4. \A n \in MembershipIds : membership[n].status = "ACTIVE" =>
             membership'[n].status = "ACTIVE" /\ Seat(n)' = Seat(n)
      BY <1>3, <2>1 DEF Seat, MemberOf
    <2>5. PrivateDiscussion'
      BY <1>1, <1>2, <2>4, SeatsStay
    <2>6. TablesKept /\ FreeStartsLocked(w)
      BY <1>1, <1>2, <2>2, <2>3, <2>5, PassesStill, PaymentsStill, TablesStay
    <2>7. req'[w] = s => RequestOK(w)'
      BY <1>3, <1>4, <1>5, <2>1 DEF RequestOK, PaymentOK, MemberOK, FreeOK
    <2> QED
      BY <1>4, <1>6, <2>6, <2>7, NothingLocked, GoesOn, HandlerStep
  <1>7. CASE UNCHANGED membership /\ End(w)
    BY <1>1, <1>7, Gone, ReadingStep DEF tables
  <1> QED
    BY <1>1, <1>6, <1>7 DEF row, s

LEMMA ReadEliteKeeps ==
    ASSUME RacesInv, NEW w \in Workers, ReadElite(w) PROVE RacesInv'
  <1>1. /\ req[w] \in Request /\ req[w].id \in MembershipIds
        /\ membership[req[w].id].status # "NONE"
    BY DEF ReadElite, At, RacesInv, RequestsTyped, RequestOK, MemberOK
  <1>2. UNCHANGED tables /\ membership' = membership
    BY DEF ReadElite, tables
  <1>3. \/ \E e \in PassIds : Go(w, [req[w] EXCEPT !.step = "rideOnElite", !.pass = e])
        \/ Go(w, [req[w] EXCEPT !.step = "readFree"])
    BY DEF ReadElite, LongestElite, UsableElites
  <1>4. ASSUME NEW e \in PassIds, Go(w, [req[w] EXCEPT !.step = "rideOnElite", !.pass = e])
        PROVE  RacesInv'
    <2> DEFINE r == [req[w] EXCEPT !.step = "rideOnElite", !.pass = e]
    <2>1. r \in Request /\ r.step = "rideOnElite" /\ r.id = req[w].id /\ r.locks = LockedBy(w)
      BY <1>1 DEF Request, Steps, LockedBy
    <2>2. Go(w, r)
      BY <1>4
    <2> HIDE DEF r
    <2>3. req'[w] = r => RequestOK(w)'
      BY <1>1, <1>2, <2>1 DEF RequestOK, PaymentOK, MemberOK, FreeOK
    <2> QED
      BY <1>2, <2>1, <2>2, <2>3, NothingLocked, GoesOn, ReadingStep
  <1>5. ASSUME Go(w, [req[w] EXCEPT !.step = "readFree"]) PROVE RacesInv'
    <2> DEFINE r == [req[w] EXCEPT !.step = "readFree"]
    <2>1. r \in Request /\ r.step = "readFree" /\ r.id = req[w].id /\ r.locks = LockedBy(w)
      BY <1>1 DEF Request, Steps, LockedBy
    <2>2. Go(w, r)
      BY <1>5
    <2> HIDE DEF r
    <2>3. req'[w] = r => RequestOK(w)'
      BY <1>1, <1>2, <2>1 DEF RequestOK, PaymentOK, MemberOK, FreeOK
    <2> QED
      BY <1>2, <2>1, <2>2, <2>3, NothingLocked, GoesOn, ReadingStep
  <1> QED
    BY <1>3, <1>4, <1>5

LEMMA RideOnEliteKeeps ==
    ASSUME RacesInv, NEW w \in Workers, RideOnElite(w) PROVE RacesInv'
  <1> DEFINE m == req[w].id
             p == req[w].pass
  <1>1. req[w] \in Request /\ m \in MembershipIds
    BY DEF RideOnElite, At, RacesInv, RequestsTyped, RequestOK, MemberOK
  <1>2. TypeOK /\ Linked /\ PrivateDiscussion /\ {m} \in SUBSET MembershipIds /\ p \in {0} \cup PassIds
    BY <1>1 DEF RacesInv, Request
  <1>3. End(w)
    BY DEF RideOnElite
  <1>4. CASE UNCHANGED tables
    BY <1>3, <1>4, Gone, ReadingStep
  <1>5. CASE ~UNCHANGED tables
    <2>1. /\ membership' = SetMembers({m}, "ACTIVE", p)
          /\ inDiscussion' = inDiscussion \cup Discussion({m})
          /\ UNCHANGED <<now, post, collective, pass, payment, order>>
      BY <1>5 DEF RideOnElite
    <2>2. /\ membership' \in [MembershipIds -> MembershipRow] /\ MembersStay
          /\ Discussion({m}) \in SUBSET (Collectives \X Users)
      BY <1>2, <2>1, MembersTyped
    <2>3. PrivateDiscussion'
      BY <1>2, <2>1, AdmissionsArePrivate
    <2>4. TypeOK'
      BY <1>2, <2>1, <2>2 DEF TypeOK
    <2> QED
      BY <1>2, <1>3, <2>1, <2>2, <2>3, <2>4, PassesStill, PaymentsStill, TablesStay, Gone, HandlerStep
  <1> QED
    BY <1>4, <1>5

LEMMA ReadFreeKeeps ==
    ASSUME RacesInv, NEW w \in Workers, ReadFree(w) PROVE RacesInv'
  <1> DEFINE r == [req[w] EXCEPT !.step = "lockUser"]
  <1>1. /\ req[w] \in Request /\ req[w].id \in MembershipIds
        /\ membership[req[w].id].status # "NONE"
    BY DEF ReadFree, At, RacesInv, RequestsTyped, RequestOK, MemberOK
  <1>2. UNCHANGED tables /\ membership' = membership /\ (End(w) \/ Go(w, r))
    BY DEF ReadFree, tables
  <1>3. r \in Request /\ r.step = "lockUser" /\ r.id = req[w].id /\ r.locks = LockedBy(w)
    BY <1>1 DEF Request, Steps, LockedBy
  <1> HIDE DEF r
  <1>4. req'[w] = r => RequestOK(w)'
    BY <1>1, <1>2, <1>3 DEF RequestOK, PaymentOK, MemberOK, FreeOK
  <1> QED
    BY <1>2, <1>3, <1>4, NothingLocked, GoesOn, Gone, ReadingStep

LEMMA LockUserKeeps ==
    ASSUME RacesInv, NEW w \in Workers, LockUser(w) PROVE RacesInv'
  <1>1. /\ req[w] \in Request /\ req[w].id \in MembershipIds
        /\ membership[req[w].id].status # "NONE"
    BY DEF LockUser, At, RacesInv, RequestsTyped, RequestOK, MemberOK
  <1>2. PICK i \in Posts : i = membership[req[w].id].post
    BY <1>1 DEF RacesInv, TypeOK, MembershipRow
  <1> DEFINE r == [req[w] EXCEPT !.step = "writeFree", !.locks = {UserLock(Owner[i])}]
  <1>3. /\ UNCHANGED tables /\ Unlocked(w, {UserLock(Owner[i])})
        /\ End(w) \/ (FreePlace(i) /\ Go(w, r))
    BY <1>2 DEF LockUser, FreePassLocks
  <1>4. membership' = membership /\ pass' = pass
    BY <1>3 DEF tables
  <1>5. r \in Request /\ r.step = "writeFree" /\ r.id = req[w].id /\ r.locks = {UserLock(Owner[i])}
    BY <1>1, LocksAreLocks DEF Request, Steps
  <1> HIDE DEF r
  <1>6. ASSUME FreePlace(i), req'[w] = r PROVE RequestOK(w)'
    <2>1. ~FreePassUsed(Owner[i], Scope[i])'
      BY <1>4, <1>6 DEF FreePlace, FreePassUsed, HolderOf
    <2>2. FreeOK(w)'
      BY <1>2, <1>4, <1>5, <1>6, <2>1 DEF FreeOK
    <2> QED
      BY <1>1, <1>4, <1>5, <1>6, <2>2 DEF RequestOK, PaymentOK, MemberOK
  <1>7. CASE FreePlace(i) /\ Go(w, r)
    BY <1>3, <1>5, <1>6, <1>7, GoesOn, ReadingStep
  <1> QED
    BY <1>3, <1>7, Gone, ReadingStep

LEMMA WriteFreeKeeps ==
    ASSUME RacesInv, NEW w \in Workers, WriteFree(w) PROVE RacesInv'
  <1> DEFINE m == req[w].id
  <1>1. /\ m \in MembershipIds /\ UserLock(Owner[membership[m].post]) \in LockedBy(w)
        /\ ~FreePassUsed(Owner[membership[m].post], Scope[membership[m].post])
    BY DEF WriteFree, At, RacesInv, RequestOK, MemberOK, FreeOK, LockedBy
  <1>2. TypeOK /\ Linked /\ PrivateDiscussion /\ OneFreePassPerScope /\ {m} \in SUBSET MembershipIds
    BY <1>1 DEF RacesInv
  <1>3. PICK i \in Posts : i = membership[m].post
    BY <1>1, <1>2 DEF TypeOK, MembershipRow
  <1>4. End(w)
    BY DEF WriteFree
  <1>5. CASE UNCHANGED tables
    BY <1>4, <1>5, Gone, ReadingStep
  <1>6. CASE ~UNCHANGED tables
    <2>1. PICK p \in NewIds(pass) :
            /\ pass' = [pass EXCEPT ![p] = [status |-> "ACTIVE", plan |-> "FREE", post |-> i,
                                            expiresAt |-> now + FreeDays, payment |-> 0]]
            /\ membership' = SetMembers({m}, "ACTIVE", p)
            /\ inDiscussion' = inDiscussion \cup Discussion({m})
            /\ UNCHANGED <<now, post, collective, payment, order>>
      BY <1>3, <1>6 DEF WriteFree
    <2>2. p \in PassIds /\ pass[p].status = "NONE" /\ p \in {0} \cup PassIds
      BY <1>2 DEF NewIds, TypeOK
    <2>3. /\ pass'[p] = [status |-> "ACTIVE", plan |-> "FREE", post |-> i,
                         expiresAt |-> now + FreeDays, payment |-> 0]
          /\ \A q \in PassIds \ {p} : pass'[q] = pass[q]
          /\ pass' \in [PassIds -> PassRow]
      <3>1. [status |-> "ACTIVE", plan |-> "FREE", post |-> i,
             expiresAt |-> now + FreeDays, payment |-> 0] \in PassRow
        BY <1>2 DEF TypeOK, PassRow, PassStatus
      <3> QED
        BY <1>2, <2>1, <2>2, <3>1 DEF TypeOK
    <2>4. PassesKeepHolder /\ \A q \in PassIds : pass'[q].status = "PENDING" => pass[q].status = "PENDING"
      BY <2>2, <2>3 DEF PassesKeepHolder
    <2>5. OneFreePassPerScope'
      BY <1>1, <1>2, <1>3, <2>1, <2>2, FirstFreePass
    <2>6. FreeStartsLocked(w)
      BY <1>1, <1>3, <2>3 DEF FreeStartsLocked, FreePassStarts
    <2>7. /\ membership' \in [MembershipIds -> MembershipRow] /\ MembersStay
          /\ Discussion({m}) \in SUBSET (Collectives \X Users)
      BY <1>2, <2>1, <2>2, MembersTyped
    <2>8. PrivateDiscussion'
      BY <1>2, <2>1, <2>2, AdmissionsArePrivate
    <2>9. TypeOK'
      BY <1>2, <2>1, <2>3, <2>7 DEF TypeOK
    <2>10. PaymentsStay /\ Linked'
      BY <1>2, <2>1, <2>4, PaymentsStill, LinkedStays DEF NoNewPayment
    <2> QED
      BY <1>4, <2>4, <2>5, <2>6, <2>7, <2>8, <2>9, <2>10, Gone, HandlerStep DEF TablesKept, RowsStay
  <1> QED
    BY <1>5, <1>6

LEMMA BeginLeaveKeeps ==
    ASSUME RacesInv, NEW w \in Workers, NEW m \in MembershipIds, BeginLeave(w, m) PROVE RacesInv'
  <1> DEFINE r == [Idle EXCEPT !.step = "writeLeft", !.id = m]
  <1>1. r \in Request /\ r.step = "writeLeft" /\ r.id = m /\ r.locks = {}
    <2>1. m \in Nat
      BY DEF MembershipIds
    <2> QED
      BY <2>1, IdleIsRequest, IdleFields DEF Request, Steps
  <1>2. Begin(w, "Leave", r) /\ UNCHANGED tables /\ membership'[m].status # "NONE"
    BY DEF BeginLeave, tables, Live
  <1> HIDE DEF r
  <1>3. req'[w] = r => RequestOK(w)'
    BY <1>1, <1>2 DEF RequestOK, PaymentOK, MemberOK, FreeOK
  <1> QED
    BY <1>1, <1>2, <1>3, NothingLocked, BeginsReading

LEMMA WriteLeftKeeps ==
    ASSUME RacesInv, NEW w \in Workers, WriteLeft(w) PROVE RacesInv'
  <1> DEFINE m == req[w].id
  <1>1. TypeOK /\ Linked /\ PrivateDiscussion /\ {m} \in SUBSET MembershipIds
    BY DEF WriteLeft, At, RacesInv, RequestOK, MemberOK
  <1>2. /\ EndRiders({m}, "LEFT") /\ End(w)
        /\ UNCHANGED <<now, post, collective, pass, payment, order>>
    BY DEF WriteLeft
  <1>3. /\ membership' \in [MembershipIds -> MembershipRow] /\ MembersStay
        /\ inDiscussion' \in SUBSET (Collectives \X Users)
    BY <1>1, <1>2, EndRidersTyped, EndsStay DEF MembershipStatus
  <1>4. PrivateDiscussion'
    BY <1>1, <1>2, EndsArePrivate DEF MembershipStatus
  <1>5. TypeOK'
    BY <1>1, <1>2, <1>3 DEF TypeOK
  <1> QED
    BY <1>1, <1>2, <1>3, <1>4, <1>5, PassesStill, PaymentsStill, TablesStay, Gone, HandlerStep

-----------------------------------------------------------------------------
(* create(). *)

LEMMA BeginCreatePaymentKeeps ==
    ASSUME RacesInv, NEW w \in Workers, NEW i \in Posts, NEW c \in Collectives, BeginCreatePayment(w, i, c)
    PROVE  RacesInv'
  <1>1. PICK p \in PassToPay(i) :
          /\ UNCHANGED tables
          /\ Begin(w, "CreatePayment",
               [Idle EXCEPT !.step = "insertPayment", !.post = i,
                            !.pass = IF pass[p].status = "NONE" THEN 0 ELSE p])
    BY DEF BeginCreatePayment
  <1> DEFINE found == IF pass[p].status = "NONE" THEN 0 ELSE p
             r == [Idle EXCEPT !.step = "insertPayment", !.post = i, !.pass = found]
  <1>2. p \in PassIds
    BY PassToPayIsId DEF RacesInv
  <1>3. found # 0 => pass'[found].status # "NONE" /\ pass'[found].plan = "ELITE"
                     /\ Owner[pass'[found].post] = Owner[i]
    <2>1. \/ p \in LongestElite(Owner[i])
          \/ pass[p].post = i /\ pass[p].status = "PENDING"
          \/ pass[p].status = "NONE"
      BY DEF PassToPay, NewIds
    <2>2. pass[p].status = "PENDING" => pass[p].plan = "ELITE"
      BY <1>2 DEF RacesInv, Linked, PendingPassesAreElite
    <2> QED
      BY <1>1, <2>1, <2>2 DEF tables, LongestElite, UsableElites, HolderOf
  <1>4. found \in {0} \cup PassIds
    BY <1>2
  <1> HIDE DEF found
  <1>5. r \in Request /\ r.step = "insertPayment" /\ r.post = i /\ r.pass = found /\ r.locks = {}
    BY <1>4, IdleIsRequest, IdleFields DEF Request, Steps
  <1>6. Begin(w, "CreatePayment", r)
    BY <1>1 DEF found
  <1> HIDE DEF r
  <1>7. req'[w] = r => RequestOK(w)'
    BY <1>3, <1>5 DEF RequestOK, PaymentOK, MemberOK, FreeOK, HolderOf
  <1> QED
    BY <1>1, <1>5, <1>6, <1>7, NothingLocked, BeginsReading

LEMMA InsertPaymentKeeps ==
    ASSUME RacesInv, NEW w \in Workers, InsertPayment(w) PROVE RacesInv'
  <1> DEFINE i == req[w].post
  <1>1. PICK k \in NewIds(payment), p \in IF req[w].pass = 0 THEN NewIds(pass) ELSE {req[w].pass} :
          /\ pass' = IF req[w].pass # 0 THEN pass
                     ELSE [pass EXCEPT ![p] = [status |-> "PENDING", plan |-> "ELITE", post |-> i,
                                               expiresAt |-> 0, payment |-> 0]]
          /\ payment' = [payment EXCEPT ![k] = [status |-> "INITIATED", post |-> i, pass |-> p]]
          /\ Go(w, [Idle EXCEPT !.step = "attachOrder", !.id = k])
          /\ UNCHANGED <<now, post, collective, membership, inDiscussion, order>>
    BY DEF InsertPayment
  <1> DEFINE r == [Idle EXCEPT !.step = "attachOrder", !.id = k]
             free == [status |-> "PENDING", plan |-> "ELITE", post |-> i, expiresAt |-> 0, payment |-> 0]
  <1>2. TypeOK /\ Linked /\ PrivateDiscussion /\ OneFreePassPerScope /\ req[w] \in Request /\ i \in Posts
    BY DEF RacesInv, RequestsTyped, Request
  <1>3. k \in PaymentIds /\ payment[k].status = "NONE" /\ k \in Nat
    BY <1>2 DEF NewIds, TypeOK, PaymentIds
  <1>4. p \in PassIds /\ p # 0
    BY <1>2 DEF Request, NewIds, TypeOK, PassIds
  <1>5. /\ pass' \in [PassIds -> PassRow]
        /\ \A q \in PassIds \ {p} : pass'[q] = pass[q]
        /\ \/ pass'[p] = pass[p]
           \/ pass[p].status = "NONE" /\ pass'[p].plan = "ELITE"
        /\ pass'[p].status # "NONE" /\ pass'[p].plan = "ELITE" /\ Owner[pass'[p].post] = Owner[i]
    <2>1. CASE req[w].pass # 0
      <3>1. pass' = pass /\ p = req[w].pass
        BY <1>1, <2>1
      <3>2. pass[p].status # "NONE" /\ pass[p].plan = "ELITE" /\ Owner[pass[p].post] = Owner[i]
        BY <2>1, <3>1 DEF InsertPayment, At, RacesInv, RequestOK, PaymentOK, HolderOf
      <3> QED
        BY <1>2, <3>1, <3>2 DEF TypeOK
    <2>2. CASE req[w].pass = 0
      <3>1. pass' = [pass EXCEPT ![p] = free] /\ pass[p].status = "NONE"
        BY <1>1, <2>2 DEF NewIds
      <3>2. free \in PassRow
        BY <1>2 DEF PassRow, PassStatus
      <3> QED
        BY <1>2, <1>4, <3>1, <3>2 DEF TypeOK
    <2> QED
      BY <2>1, <2>2
  <1>6. /\ payment' \in [PaymentIds -> PaymentRow]
        /\ payment'[k] = [status |-> "INITIATED", post |-> i, pass |-> p]
        /\ \A j \in PaymentIds \ {k} : payment'[j] = payment[j]
    <2>1. [status |-> "INITIATED", post |-> i, pass |-> p] \in PaymentRow
      BY <1>2, <1>4 DEF PaymentRow, PaymentStatus
    <2> QED
      BY <1>1, <1>2, <1>3, <2>1 DEF TypeOK
  <1>7. r \in Request /\ r.step = "attachOrder" /\ r.id = k /\ r.locks = {} /\ Go(w, r)
    BY <1>1, <1>3, IdleIsRequest, IdleFields DEF Request, Steps
  <1> HIDE DEF r, free
  <1>8. PassesKeepHolder /\ NoFreeStart
    BY <1>5 DEF PassesKeepHolder, NoFreeStart
  <1>9. PaymentsStay
    BY <1>3, <1>6 DEF PaymentsStay
  <1>10. MembersStay /\ PrivateDiscussion'
    BY <1>1, <1>2, MembersStill
  <1>11. TypeOK'
    BY <1>1, <1>2, <1>5, <1>6 DEF TypeOK
  <1>12. OneFreePassPerScope'
    BY <1>2, <1>8, FreePassesApart
  <1>13. Linked'
    <2>1. ASSUME NEW j \in PaymentIds \ {k}, payment[j].status # "NONE"
          PROVE  LET q == payment[j].pass IN
                 /\ q # 0 /\ pass'[q].status # "NONE" /\ pass'[q].plan = "ELITE"
                 /\ Owner[pass'[q].post] = Owner[payment[j].post]
      <3>1. payment[j].pass \in PassIds
        BY <2>1, PassOfPayment
      <3> QED
        BY <1>2, <1>8, <2>1, <3>1 DEF Linked, PaymentsHavePass, PassesKeepHolder, HolderOf, PayerOf
    <2>2. PaymentsHavePass'
      BY <1>4, <1>5, <1>6, <2>1 DEF PaymentsHavePass, HolderOf, PayerOf
    <2>3. PaidOrdersExist'
      BY <1>1, <1>2, <1>6 DEF Linked, PaidOrdersExist
    <2>4. PendingPassesAreElite'
      BY <1>2, <1>5 DEF Linked, PendingPassesAreElite
    <2> QED
      BY <2>2, <2>3, <2>4 DEF Linked
  <1>14. req'[w] = r => RequestOK(w)'
    BY <1>3, <1>6, <1>7 DEF RequestOK, PaymentOK, MemberOK, FreeOK
  <1>15. RequestKept(w, r)
    BY <1>7, <1>14, NothingLocked, GoesOn
  <1> QED
    BY <1>8, <1>9, <1>10, <1>11, <1>12, <1>13, <1>15, NothingStarts, HandlerStep DEF TablesKept, RowsStay

LEMMA AttachOrderKeeps ==
    ASSUME RacesInv, NEW w \in Workers, AttachOrder(w) PROVE RacesInv'
  <1> DEFINE k == req[w].id
  <1>1. k \in PaymentIds /\ payment[k].status # "NONE"
    BY DEF AttachOrder, At, RacesInv, RequestOK, PaymentOK
  <1>2. /\ payment' = [payment EXCEPT ![k].status = "PENDING"] /\ End(w)
        /\ UNCHANGED <<now, post, collective, pass, membership, inDiscussion, order>>
    BY DEF AttachOrder
  <1>3. TypeOK /\ Linked /\ PrivateDiscussion
    BY DEF RacesInv
  <1>4. payment' \in [PaymentIds -> PaymentRow] /\ PaymentsStay /\ NoNewPayment
    BY <1>1, <1>2, <1>3, StatusWritten DEF PaymentStatus
  <1>5. TypeOK'
    BY <1>2, <1>3, <1>4 DEF TypeOK
  <1> QED
    BY <1>2, <1>3, <1>4, <1>5, PassesStill, MembersStill, TablesStay, Gone, HandlerStep

-----------------------------------------------------------------------------
(* All steps. *)

LEMMA BackgroundKeeps ==
    ASSUME RacesInv, BackgroundStep PROVE RacesInv'
  <1>1. /\ TypeOK /\ Linked /\ OneFreePassPerScope /\ PrivateDiscussion
        /\ [Next]_tables /\ req' = req /\ RespectsLocks
    BY BackgroundIsSerial DEF RacesInv
  <1>2. TypeOK' /\ Linked' /\ RowsStay /\ OneFreePassPerScope' /\ PrivateDiscussion'
    BY <1>1, NextTypeOK, LinkedKept, SerialRowsStay, FreePassesKept, SerialIsPrivate
  <1>3. ASSUME NEW v \in Workers PROVE RequestOK(v)'
    <2>1. UsersUnlocked(v)
      BY <1>1 DEF UsersUnlocked, FreePassStarts, RespectsLocks, Locked
    <2>2. RequestsTyped /\ RequestOK(v) /\ req'[v] = req[v] /\ pass' \in [PassIds -> PassRow]
      BY <1>1, <1>2 DEF RacesInv, TypeOK
    <2> QED
      BY <1>1, <1>2, <2>1, <2>2, OthersStay
  <1>4. RequestsTyped' /\ Exclusive'
    BY <1>1 DEF RacesInv, RequestsTyped, Exclusive, LockedBy
  <1> QED
    BY <1>2, <1>3, <1>4 DEF RacesInv

LEMMA StutterKeeps ==
    ASSUME RacesInv, UNCHANGED vars PROVE RacesInv'
  <1>1. /\ TypeOK /\ Linked /\ OneFreePassPerScope /\ PrivateDiscussion
        /\ [Next]_tables /\ req' = req /\ pass' = pass
    BY DEF vars, tables, RacesInv
  <1>2. TypeOK' /\ Linked' /\ RowsStay /\ OneFreePassPerScope' /\ PrivateDiscussion'
    BY <1>1, NextTypeOK, LinkedKept, SerialRowsStay, FreePassesKept, SerialIsPrivate
  <1>3. ASSUME NEW v \in Workers PROVE RequestOK(v)'
    <2>1. UsersUnlocked(v)
      BY <1>1 DEF UsersUnlocked, FreePassStarts
    <2>2. RequestsTyped /\ RequestOK(v) /\ req'[v] = req[v] /\ pass' \in [PassIds -> PassRow]
      BY <1>1, <1>2 DEF RacesInv, TypeOK
    <2> QED
      BY <1>1, <1>2, <2>1, <2>2, OthersStay
  <1>4. RequestsTyped' /\ Exclusive'
    BY <1>1 DEF RacesInv, RequestsTyped, Exclusive, LockedBy
  <1> QED
    BY <1>2, <1>3, <1>4 DEF RacesInv

LEMMA RacesStart == RacesInit => RacesInv
  <1> SUFFICES ASSUME RacesInit PROVE RacesInv
    OBVIOUS
  <1>1. TablesInit(Written) /\ req = [w \in Workers |-> Idle]
    BY DEF RacesInit
  <1>2. (CHOOSE i \in Posts : TRUE) \in Posts /\ (CHOOSE c \in Collectives : TRUE) \in Collectives
    OBVIOUS
  <1>3. TypeOK
    BY <1>1, <1>2 DEF TablesInit, TypeOK, PostStatus, PassStatus, PaymentStatus, MembershipStatus,
                     PassRow, PaymentRow, MembershipRow
  <1>4. Linked
    BY <1>1 DEF TablesInit, Linked, PaymentsHavePass, PaidOrdersExist, PendingPassesAreElite
  <1>5. OneFreePassPerScope /\ PrivateDiscussion
    BY <1>1 DEF TablesInit, OneFreePassPerScope, PrivateDiscussion
  <1>6. RequestsTyped /\ Exclusive
    BY <1>1, IdleIsRequest, IdleFields DEF RequestsTyped, Exclusive, LockedBy
  <1>7. ASSUME NEW w \in Workers PROVE RequestOK(w)
    <2>1. req[w].step = "idle"
      BY <1>1, IdleFields
    <2> QED
      BY <2>1 DEF RequestOK, PaymentOK, MemberOK, FreeOK
  <1> QED
    BY <1>3, <1>4, <1>5, <1>6, <1>7 DEF RacesInv

LEMMA RacesStep == RacesInv /\ [RacesNext]_vars => RacesInv'
  <1> SUFFICES ASSUME RacesInv, [RacesNext]_vars PROVE RacesInv'
    OBVIOUS
  <1>1. ASSUME NEW w \in Workers, BeginRequest(w) PROVE RacesInv'
    BY <1>1, BeginActivateKeeps, BeginPaymentFailedKeeps, BeginRefundKeeps, BeginRefundWebhookKeeps,
       BeginJoinKeeps, BeginCreatePaymentKeeps, BeginLeaveKeeps, BeginExpirePassesKeeps
       DEF BeginRequest
  <1>2. ASSUME NEW w \in Workers, Proceed(w) PROVE RacesInv'
    BY <1>2, ReadPassKeeps, WritePassKeeps, GrantKeeps, WriteFailedKeeps, ReadRefundKeeps,
       LockRefundKeeps, RefundPassKeeps, RefundMembersKeeps, WriteExpiredKeeps, ExpireMembersKeeps,
       OpenMembershipKeeps, ReadEliteKeeps, RideOnEliteKeeps, ReadFreeKeeps, LockUserKeeps,
       WriteFreeKeeps, WriteLeftKeeps, InsertPaymentKeeps, AttachOrderKeeps
       DEF Proceed
  <1>3. ASSUME NEW w \in Workers, Crash(w) PROVE RacesInv'
    BY <1>3, Gone, ReadingStep DEF Crash, Rollback
  <1> QED
    BY <1>1, <1>2, <1>3, BackgroundKeeps, StutterKeeps DEF RacesNext

LEMMA RacesInvHolds == RacesSpec => []RacesInv
  <1>1. RacesInit => RacesInv
    BY RacesStart
  <1>2. RacesInv /\ [RacesNext]_vars => RacesInv'
    BY RacesStep
  <1> QED
    BY <1>1, <1>2, PTL DEF RacesSpec

\* Whatever handlers overlap, at whichever statements, and wherever one of them crashes,
\* the rows stay rows of their tables, a payment stays with the payer's Elite Pass, and no
\* row lock is held twice.
THEOREM RacesTypeCorrect == RacesSpec => [](TypeOK /\ Linked /\ Exclusive)
  <1>1. RacesInv => TypeOK /\ Linked /\ Exclusive
    BY DEF RacesInv
  <1> QED
    BY <1>1, RacesInvHolds, PTL

\* Only active members are in a discussion while joins, activations, refunds, leaving and
\* the job overlap: each of them writes the membership and the seat in one transaction,
\* and a stale list of memberships is written to both tables or to neither.
THEOREM PrivateWhateverOverlaps == RacesSpec => []PrivateDiscussion
  <1>1. RacesInv => PrivateDiscussion
    BY DEF RacesInv
  <1> QED
    BY <1>1, RacesInvHolds, PTL

\* Two joins at once do not start two Free Passes of a person in a car+city: who starts one
\* has looked for it while holding the person's row (SELECT ... FOR UPDATE), and has held
\* it since.
THEOREM FreePassOnceInRaces == RacesSpec => []OneFreePassPerScope
  <1>1. RacesInv => OneFreePassPerScope
    BY DEF RacesInv
  <1> QED
    BY <1>1, RacesInvHolds, PTL

-----------------------------------------------------------------------------
(* Elite is paid for also while activations, refunds, joins, leaving and   *)
(* the job overlap.                                                        *)

\* Who books a payment holds its row; and a refund under way, of the payment that a running pass
\* was started by, is going to end that pass.
BookOK(w) ==
    LET r == req[w] IN
    /\ r.step \in {"grant", "refundPass", "refundMembers"} => PaymentLock(r.id) \in r.locks
    /\ /\ r.step \in {"refundPass", "refundMembers"}
       /\ pass[r.pass].payment = r.id /\ pass[r.pass].status = "ACTIVE"
       => r.mode = "end"

\* These write a payment's status that was read, or is assumed, before its row is locked.
LateSteps == {"writeFailed", "insertPayment", "attachOrder"}

PaidInv ==
    /\ PaidElite
    /\ \A w \in Workers : req[w].step \notin LateSteps
    /\ \A w \in Workers : BookOK(w)

\* A pass comes to run by a payment it did not run by.
StartsBy(p, k) ==
    /\ pass'[p].status = "ACTIVE" /\ pass'[p].payment = k
    /\ ~(pass[p].status = "ACTIVE" /\ pass[p].payment = k)

\* Payment k is not in the hands of a handler that is about to book it.
LEMMA BooksStay ==
    ASSUME RacesInv, RacesInv', NEW v \in Workers, BookOK(v), req'[v] = req[v],
           \A p \in PassIds, k \in PaymentIds : StartsBy(p, k) => PaymentLock(k) \notin LockedBy(v)
    PROVE  BookOK(v)'
  <1> DEFINE r == req[v]
  <1>1. CASE r.step \in {"refundPass", "refundMembers"}
    <2>1. r.id \in PaymentIds /\ payment[r.id].status # "NONE" /\ r.pass = payment[r.id].pass
      BY <1>1 DEF RacesInv, RequestOK, PaymentOK
    <2>2. r.pass \in PassIds
      BY <2>1, PassOfPayment
    <2>3. PaymentLock(r.id) \in LockedBy(v)
      BY <1>1 DEF BookOK, LockedBy
    <2>4. ~StartsBy(r.pass, r.id)
      BY <2>1, <2>2, <2>3
    <2> QED
      BY <1>1, <2>4 DEF BookOK, StartsBy
  <1>2. CASE r.step \notin {"refundPass", "refundMembers"}
    BY <1>2 DEF BookOK
  <1> QED
    BY <1>1, <1>2

\* A handler's step: it starts a pass by a payment only if it holds that payment's row.
LEMMA BookStep ==
    ASSUME RacesInv, RacesInv', PaidInv, NEW w \in Workers, NEW r, Go(w, r), r.step \notin LateSteps,
           PaidElite', req'[w] = r => BookOK(w)',
           \A p \in PassIds, k \in PaymentIds : StartsBy(p, k) => PaymentLock(k) \in LockedBy(w)
    PROVE  PaidInv'
  <1>1. req'[w] = r /\ \A v \in Workers \ {w} : req'[v] = req[v]
    BY DEF Go, RacesInv, RequestsTyped
  <1>2. ASSUME NEW v \in Workers \ {w} PROVE BookOK(v)'
    <2>1. LockedBy(v) \cap LockedBy(w) = {}
      BY DEF RacesInv, Exclusive
    <2> QED
      BY <1>1, <2>1, BooksStay DEF PaidInv
  <1> QED
    BY <1>1, <1>2 DEF PaidInv

\* The steps that leave passes and payments alone.
LEMMA UnpaidStep ==
    ASSUME RacesInv, RacesInv', PaidInv, NEW w \in Workers, pass' = pass, payment' = payment,
           NEW r, Go(w, r), r.step \notin LateSteps, req'[w] = r => BookOK(w)'
    PROVE  PaidInv'
  <1>1. PaidElite'
    BY DEF PaidInv, PaidElite
  <1>2. \A p \in PassIds, k \in PaymentIds : ~StartsBy(p, k)
    BY DEF StartsBy
  <1> QED
    BY <1>1, <1>2, BookStep

LEMMA PlainStep ==
    ASSUME RacesInv, RacesInv', PaidInv, NEW w \in Workers, pass' = pass, payment' = payment,
           NEW r, Go(w, r), r.step \notin LateSteps \cup {"grant", "refundPass", "refundMembers"}
    PROVE  PaidInv'
  BY UnpaidStep DEF BookOK

LEMMA BeginsPaid ==
    ASSUME RacesInv, RacesInv', PaidInv, Overlapping \cap {"PaymentFailed", "CreatePayment"} = {},
           NEW w \in Workers, BeginRequest(w)
    PROVE  PaidInv'
  <1>1. ASSUME NEW r, Go(w, r), pass' = pass, payment' = payment,
               r.step \in {"readPass", "readRefund", "lockRefund", "openMembership", "readElite",
                           "writeLeft", "expirePass"}
        PROVE  PaidInv'
    BY <1>1, PlainStep DEF LateSteps
  <1>2. ASSUME NEW k \in PaymentIds, BeginActivate(w, k) PROVE PaidInv'
    BY <1>1, <1>2 DEF BeginActivate, Begin, Idle, tables
  <1>3. ASSUME NEW k \in PaymentIds, BeginRefund(w, k) \/ BeginRefundWebhook(w, k) PROVE PaidInv'
    BY <1>1, <1>3 DEF BeginRefund, BeginRefundWebhook, Begin, Idle, tables
  <1>4. ASSUME NEW i \in Posts, NEW c \in Collectives, BeginJoin(w, i, c) PROVE PaidInv'
    <2>1. PICK m : Begin(w, "Join",
                     IF membership[m].status = "NONE"
                     THEN [Idle EXCEPT !.step = "openMembership", !.post = i, !.collective = c]
                     ELSE [Idle EXCEPT !.step = "readElite", !.id = m])
      BY <1>4 DEF BeginJoin
    <2>2. pass' = pass /\ payment' = payment
      BY <1>4 DEF BeginJoin, tables
    <2> QED
      BY <1>1, <2>1, <2>2 DEF Begin, Idle
  <1>5. ASSUME NEW m \in MembershipIds, BeginLeave(w, m) PROVE PaidInv'
    BY <1>1, <1>5 DEF BeginLeave, Begin, Idle, tables
  <1>6. ASSUME BeginExpirePasses(w) PROVE PaidInv'
    BY <1>1, <1>6 DEF BeginExpirePasses, Begin, Idle, tables
  <1>7. ASSUME NEW k \in PaymentIds PROVE ~BeginPaymentFailed(w, k)
    BY DEF BeginPaymentFailed, Begin
  <1>8. ASSUME NEW i \in Posts, NEW c \in Collectives PROVE ~BeginCreatePayment(w, i, c)
    BY DEF BeginCreatePayment, Begin
  <1> QED
    BY <1>2, <1>3, <1>4, <1>5, <1>6, <1>7, <1>8 DEF BeginRequest

\* A handler's request, and where it goes on.
LEMMA GoStep ==
    ASSUME RacesInv, NEW w \in Workers, NEW r, Go(w, r)
    PROVE  req'[w] = r /\ Go(w, req'[w])
  BY DEF Go, RacesInv, RequestsTyped

Goes(w, step) == Go(w, req'[w]) /\ req'[w].step = step

LEMMA GoesOnTo ==
    ASSUME RacesInv, NEW w \in Workers, NEW r, Go(w, r), NEW step, r.step = step
    PROVE  Goes(w, step)
  BY GoStep DEF Goes

\* Steps that leave passes and payments alone, and where they lead.
PlainSteps(w) ==
    \/ ReadRefund(w) \/ WriteExpired(w) \/ OpenMembership(w) \/ ReadElite(w)
    \/ RideOnElite(w) \/ ReadFree(w) \/ LockUser(w) \/ WriteLeft(w) \/ Crash(w)

LEMMA PlainStepsGo ==
    ASSUME RacesInv, NEW w \in Workers, PlainSteps(w)
    PROVE  \E step \in {"lockRefund", "readElite", "rideOnElite", "readFree", "lockUser",
                        "writeFree", "expireMembers", "expirePass", "idle"} : Goes(w, step)
  <1>1. req[w] \in Request
    BY DEF RacesInv, RequestsTyped
  <1>2. ASSUME NEW step \in Steps PROVE [req[w] EXCEPT !.step = step].step = step
    BY <1>1 DEF Request
  <1>3. ASSUME End(w) PROVE Goes(w, "idle")
    BY <1>3, GoesOnTo, IdleFields DEF End
  <1>5. CASE ReadRefund(w)
    <2>1. Go(w, [req[w] EXCEPT !.step = "lockRefund"]) \/ End(w)
      BY <1>5 DEF ReadRefund
    <2>2. [req[w] EXCEPT !.step = "lockRefund"].step = "lockRefund"
      BY <1>1 DEF Request
    <2> QED
      BY <1>3, <2>1, <2>2, GoesOnTo
  <1>6. CASE WriteExpired(w)
    <2>1. PICK p, rows, locks :
            \/ Go(w, [req[w] EXCEPT !.step = "expireMembers", !.pass = p, !.due = req[w].due \ {p},
                                    !.rows = rows, !.locks = locks])
            \/ End(w)
            \/ Go(w, [req[w] EXCEPT !.due = req[w].due \ {p}]) /\ req[w].step = "expirePass"
      BY <1>6 DEF WriteExpired, At, End
    <2>2. /\ [req[w] EXCEPT !.step = "expireMembers", !.pass = p, !.due = req[w].due \ {p},
                            !.rows = rows, !.locks = locks].step = "expireMembers"
          /\ [req[w] EXCEPT !.due = req[w].due \ {p}].step = req[w].step
      BY <1>1 DEF Request
    <2> QED
      BY <1>3, <2>1, <2>2, GoesOnTo
  <1>7. CASE OpenMembership(w)
    <2>1. PICK m : Go(w, [Idle EXCEPT !.step = "readElite", !.id = m]) \/ End(w)
      BY <1>7 DEF OpenMembership
    <2>2. [Idle EXCEPT !.step = "readElite", !.id = m].step = "readElite"
      BY DEF Idle
    <2> QED
      BY <1>3, <2>1, <2>2, GoesOnTo
  <1>8. CASE ReadElite(w)
    <2>1. CASE \E e : Go(w, [req[w] EXCEPT !.step = "rideOnElite", !.pass = e])
      <3>1. PICK e : Go(w, [req[w] EXCEPT !.step = "rideOnElite", !.pass = e])
        BY <2>1
      <3>2. [req[w] EXCEPT !.step = "rideOnElite", !.pass = e].step = "rideOnElite"
        BY <1>1 DEF Request
      <3> QED
        BY <3>1, <3>2, GoesOnTo
    <2>2. CASE Go(w, [req[w] EXCEPT !.step = "readFree"])
      <3>1. [req[w] EXCEPT !.step = "readFree"].step = "readFree"
        BY <1>1 DEF Request
      <3> QED
        BY <2>2, <3>1, GoesOnTo
    <2> QED
      BY <1>8, <2>1, <2>2 DEF ReadElite
  <1>9. CASE RideOnElite(w) \/ WriteLeft(w) \/ Crash(w)
    BY <1>3, <1>9 DEF RideOnElite, WriteLeft, Crash, Rollback
  <1>10. CASE ReadFree(w)
    <2>1. Go(w, [req[w] EXCEPT !.step = "lockUser"]) \/ End(w)
      BY <1>10 DEF ReadFree
    <2>2. [req[w] EXCEPT !.step = "lockUser"].step = "lockUser"
      BY <1>1 DEF Request
    <2> QED
      BY <1>3, <2>1, <2>2, GoesOnTo
  <1>11. CASE LockUser(w)
    <2>1. PICK locks : Go(w, [req[w] EXCEPT !.step = "writeFree", !.locks = locks]) \/ End(w)
      BY <1>11 DEF LockUser
    <2>2. [req[w] EXCEPT !.step = "writeFree", !.locks = locks].step = "writeFree"
      BY <1>1 DEF Request
    <2> QED
      BY <1>3, <2>1, <2>2, GoesOnTo
  <1> QED
    BY <1>5, <1>6, <1>7, <1>8, <1>9, <1>10, <1>11 DEF PlainSteps

LEMMA PlainStepsStay ==
    ASSUME NEW w \in Workers, PlainSteps(w)
    PROVE  pass' = pass /\ payment' = payment /\ now' = now
  <1>1. CASE ReadRefund(w) \/ WriteExpired(w) \/ ReadElite(w) \/ ReadFree(w) \/ LockUser(w) \/ Crash(w)
    BY <1>1 DEF ReadRefund, WriteExpired, ReadElite, ReadFree, LockUser, Crash, Rollback, tables
  <1>2. CASE OpenMembership(w) \/ RideOnElite(w) \/ WriteLeft(w)
    BY <1>2 DEF OpenMembership, RideOnElite, WriteLeft, tables
  <1> QED
    BY <1>1, <1>2 DEF PlainSteps

LEMMA PlainStepsPaid ==
    ASSUME RacesInv, RacesInv', PaidInv, NEW w \in Workers, PlainSteps(w) PROVE PaidInv'
  <1>1. pass' = pass /\ payment' = payment
    BY PlainStepsStay
  <1>2. PICK step \in {"lockRefund", "readElite", "rideOnElite", "readFree", "lockUser",
                       "writeFree", "expireMembers", "expirePass", "idle"} : Goes(w, step)
    BY PlainStepsGo
  <1> QED
    BY <1>1, <1>2, PlainStep DEF Goes, LateSteps

\* activate() has read the pass: it knows which, what it wants to do with it, and holds the payment.
LEMMA ReadPassGoes ==
    ASSUME RacesInv, NEW w \in Workers, ReadPass(w)
    PROVE  LET k == req[w].id
               p == payment[k].pass
               r == req'[w] IN
           /\ Go(w, r) /\ UNCHANGED tables
           /\ r.step = "writePass" /\ r.id = k /\ r.pass = p /\ r.locks = {PaymentLock(k)}
           /\ r.mode = "extend" => Extending(k) /\ r.until = ExtendedExpiry(pass[p].expiresAt)
           /\ r.mode = "start" => r.until = now + EliteDays
  <1> DEFINE k == req[w].id
             p == payment[k].pass
  <1>1. PICK mode, until :
          /\ Go(w, [req[w] EXCEPT !.step = "writePass", !.pass = p, !.mode = mode, !.until = until,
                                  !.locks = {PaymentLock(k)}])
          /\ mode = "extend" => Extending(k) /\ until = ExtendedExpiry(pass[p].expiresAt)
          /\ mode = "start" => until = now + EliteDays
    <2> DEFINE mode == IF Extending(k) THEN "extend"
                       ELSE IF pass[p].status = "ACTIVE" THEN "keep" ELSE "start"
               until == IF mode = "extend" THEN ExtendedExpiry(pass[p].expiresAt) ELSE now + EliteDays
    <2>1. Go(w, [req[w] EXCEPT !.step = "writePass", !.pass = p, !.mode = mode, !.until = until,
                               !.locks = {PaymentLock(k)}])
      BY DEF ReadPass
    <2>2. /\ mode = "extend" => Extending(k) /\ until = ExtendedExpiry(pass[p].expiresAt)
          /\ mode = "start" => until = now + EliteDays
      OBVIOUS
    <2> HIDE DEF mode, until
    <2> QED
      BY <2>1, <2>2
  <1>2. PICK s : s = [req[w] EXCEPT !.step = "writePass", !.pass = p, !.mode = mode, !.until = until,
                                    !.locks = {PaymentLock(k)}]
    OBVIOUS
  <1>3. s.step = "writePass" /\ s.id = k /\ s.pass = p /\ s.locks = {PaymentLock(k)}
        /\ s.mode = mode /\ s.until = until
    BY <1>2 DEF RacesInv, RequestsTyped, Request
  <1>4. req'[w] = s /\ Go(w, req'[w])
    BY <1>1, <1>2, GoStep
  <1>5. UNCHANGED tables
    BY DEF ReadPass
  <1> QED
    BY <1>1, <1>3, <1>4, <1>5

LEMMA ReadPassPaid ==
    ASSUME RacesInv, RacesInv', PaidInv, NEW w \in Workers, ReadPass(w) PROVE PaidInv'
  <1>1. Go(w, req'[w]) /\ req'[w].step = "writePass" /\ UNCHANGED tables
    BY ReadPassGoes
  <1>2. pass' = pass /\ payment' = payment
    BY <1>1 DEF tables
  <1> QED
    BY <1>1, <1>2, PlainStep DEF LateSteps

\* Whoever goes on to write what a payment buys holds the payment's row.
LEMMA WritePassPaid ==
    ASSUME RacesInv, RacesInv', PaidInv, NEW w \in Workers, WritePass(w) PROVE PaidInv'
  <1> DEFINE r == req[w]
  <1>1. r \in Request /\ r.locks = {PaymentLock(r.id)}
    BY DEF WritePass, At, RacesInv, RequestsTyped, RequestOK, PaymentOK
  <1>2. pass' = pass /\ payment' = payment
    BY DEF WritePass, tables
  <1>3. CASE End(w)
    BY <1>2, <1>3, PlainStep, IdleFields DEF End, LateSteps
  <1>4. CASE ~End(w)
    <2>1. PICK rows, locks : Go(w, [r EXCEPT !.step = "grant", !.rows = rows, !.locks = @ \cup locks])
      BY <1>4 DEF WritePass
    <2>2. PICK s : s = [r EXCEPT !.step = "grant", !.rows = rows, !.locks = @ \cup locks]
      OBVIOUS
    <2>3. s.step = "grant" /\ PaymentLock(s.id) \in s.locks
      BY <1>1, <2>2 DEF Request
    <2>4. Go(w, s) /\ s.step \notin LateSteps
      BY <2>1, <2>2, <2>3 DEF LateSteps
    <2>5. req'[w] = s => BookOK(w)'
      BY <2>3 DEF BookOK
    <2> QED
      BY <1>2, <2>4, <2>5, UnpaidStep
  <1> QED
    BY <1>3, <1>4

\* activate() commits: of all payments, the one it holds becomes SUCCESS.
LEMMA GrantPaid ==
    ASSUME RacesInv, RacesInv', PaidInv, NEW w \in Workers, Grant(w) PROVE PaidInv'
  <1> DEFINE r == req[w]
             ended == {q \in PassIds \ {r.pass} : PassLock(q) \in r.locks}
  <1>1. /\ r.id \in PaymentIds /\ r.pass = payment[r.id].pass /\ PaymentLock(r.id) \in LockedBy(w)
        /\ payment[r.id].status # "NONE"
    BY ZenonT(40) DEF Grant, At, RacesInv, RequestOK, PaymentOK, PaidInv, BookOK, LockedBy
  <1>2. End(w) /\ Idle.step = "idle"
    BY IdleFields DEF Grant
  <1>3. CASE pass' = pass /\ payment' = payment
    BY <1>2, <1>3, PlainStep DEF End, LateSteps
  <1>4. CASE ~(pass' = pass /\ payment' = payment)
    <2>1. /\ payment' = [payment EXCEPT ![r.id].status = "SUCCESS"]
          /\ pass' = [q \in PassIds |->
               CASE q \in ended -> [pass[q] EXCEPT !.status = "EXPIRED", !.expiresAt = now]
                 [] q = r.pass /\ r.mode = "extend" -> [pass[q] EXCEPT !.expiresAt = r.until]
                 [] q = r.pass /\ r.mode = "start" ->
                      [pass[q] EXCEPT !.plan = "ELITE", !.status = "ACTIVE",
                                      !.expiresAt = r.until, !.payment = r.id]
                 [] OTHER -> pass[q]]
      BY <1>4 DEF Grant, tables
    <2>2. r.pass \notin ended
      OBVIOUS
    <2> HIDE DEF ended
    <2>3. /\ payment'[r.id].status = "SUCCESS"
          /\ \A k \in PaymentIds : /\ payment'[k].pass = payment[k].pass
                                   /\ payment[k].status = "SUCCESS" => payment'[k].status = "SUCCESS"
      BY <1>1, <2>1, ZenonT(40) DEF RacesInv, TypeOK, PaymentRow
    <2>4. ASSUME NEW q \in PassIds
          PROVE  \/ pass'[q].status = "EXPIRED"
                 \/ /\ pass'[q].status = pass[q].status /\ pass'[q].plan = pass[q].plan
                    /\ pass'[q].payment = pass[q].payment
                 \/ q = r.pass /\ pass'[q].payment = r.id
      <3>1. pass[q] \in PassRow
        BY DEF RacesInv, TypeOK
      <3>2. CASE q \in ended
        <4>1. pass'[q] = [pass[q] EXCEPT !.status = "EXPIRED", !.expiresAt = now]
          BY <2>1, <2>2, <3>2
        <4> QED
          BY <3>1, <4>1 DEF PassRow
      <3>3. CASE q = r.pass /\ r.mode = "extend"
        BY <2>1, <2>2, <3>1, <3>3 DEF PassRow
      <3>4. CASE q = r.pass /\ r.mode = "start"
        BY <2>1, <2>2, <3>1, <3>4 DEF PassRow
      <3>5. CASE q \notin ended /\ ~(q = r.pass /\ r.mode \in {"extend", "start"})
        BY <2>1, <3>5
      <3> QED
        BY <3>2, <3>3, <3>4, <3>5
    <2>5. ASSUME NEW q \in PassIds PROVE Paid(q)'
      <3>1. Paid(q) /\ pass[q].payment \in {0} \cup PaymentIds
        BY DEF PaidInv, PaidElite, Paid, RacesInv, TypeOK, PassRow
      <3>2. CASE q = r.pass /\ pass'[q].payment = r.id
        <4>1. r.id # 0
          BY <1>1 DEF PaymentIds
        <4> QED
          BY <1>1, <2>3, <3>2, <4>1 DEF Paid
      <3> QED
        BY <2>3, <2>4, <3>1, <3>2 DEF Paid
    <2>6. PaidElite'
      BY <2>5 DEF PaidElite, Paid
    <2>7. \A p \in PassIds, k \in PaymentIds : StartsBy(p, k) => PaymentLock(k) \in LockedBy(w)
      BY <1>1, <2>4 DEF StartsBy
    <2>8. req'[w] = Idle => BookOK(w)'
      BY <1>2 DEF BookOK
    <2> QED
      BY <1>2, <2>6, <2>7, <2>8, BookStep DEF End, LateSteps
  <1> QED
    BY <1>3, <1>4

\* Whoever begins to book a refund holds the payment, and finds out whether the pass runs by it.
LEMMA LockRefundPaid ==
    ASSUME RacesInv, RacesInv', PaidInv, NEW w \in Workers, LockRefund(w) PROVE PaidInv'
  <1> DEFINE k == req[w].id
             p == payment[k].pass
  <1>1. req[w] \in Request
    BY DEF RacesInv, RequestsTyped
  <1>2. pass' = pass /\ payment' = payment
    BY DEF LockRefund, tables
  <1>3. PICK mode, until :
          /\ Go(w, [req[w] EXCEPT !.step = "refundPass", !.pass = p, !.locks = {PaymentLock(k)},
                                  !.mode = mode, !.until = until])
          /\ ~IsExtension(k) => mode = "end"
    BY DEF LockRefund
  <1>4. PICK r : r = [req[w] EXCEPT !.step = "refundPass", !.pass = p, !.locks = {PaymentLock(k)},
                                    !.mode = mode, !.until = until]
    OBVIOUS
  <1>5. r.step = "refundPass" /\ r.id = k /\ r.pass = p /\ r.locks = {PaymentLock(k)} /\ r.mode = mode
    BY <1>1, <1>4 DEF Request
  <1>6. pass[p].payment = k => mode = "end"
    BY <1>3 DEF IsExtension
  <1>7. req'[w] = r => BookOK(w)'
    BY <1>2, <1>5, <1>6 DEF BookOK
  <1> QED
    BY <1>2, <1>3, <1>4, <1>5, <1>7, UnpaidStep DEF LateSteps

LEMMA RefundPassPaid ==
    ASSUME RacesInv, RacesInv', PaidInv, NEW w \in Workers, RefundPass(w) PROVE PaidInv'
  <1> DEFINE r == req[w]
             ends == r.mode = "end" /\ pass[r.pass].status \in {"ACTIVE", "PENDING"}
             mode == IF r.mode = "end" /\ ~ends THEN "keep" ELSE r.mode
  <1>1. /\ r \in Request /\ r.step = "refundPass" /\ PaymentLock(r.id) \in r.locks
        /\ pass[r.pass].payment = r.id /\ pass[r.pass].status = "ACTIVE" => r.mode = "end"
    BY DEF RefundPass, At, RacesInv, RequestsTyped, PaidInv, BookOK
  <1>2. pass' = pass /\ payment' = payment
    BY DEF RefundPass, tables
  <1>3. PICK locks, rows : Go(w, [r EXCEPT !.step = "refundMembers", !.locks = @ \cup locks,
                                           !.mode = mode, !.rows = rows])
    BY DEF RefundPass
  <1>4. PICK s : s = [r EXCEPT !.step = "refundMembers", !.locks = @ \cup locks, !.mode = mode, !.rows = rows]
    OBVIOUS
  <1>5. pass[r.pass].status = "ACTIVE" => mode = r.mode
    OBVIOUS
  <1> HIDE DEF mode
  <1>6. s.step = "refundMembers" /\ s.id = r.id /\ s.pass = r.pass /\ r.locks \subseteq s.locks /\ s.mode = mode
    BY <1>1, <1>4 DEF Request
  <1>7. req'[w] = s => BookOK(w)'
    BY <1>1, <1>2, <1>5, <1>6 DEF BookOK
  <1> QED
    BY <1>2, <1>3, <1>4, <1>6, <1>7, UnpaidStep DEF LateSteps

\* The refund commits: if the pass runs by this payment, it ends.
LEMMA RefundMembersPaid ==
    ASSUME RacesInv, RacesInv', PaidInv, NEW w \in Workers, RefundMembers(w) PROVE PaidInv'
  <1> DEFINE r == req[w]
             p == r.pass
  <1>1. /\ r.id \in PaymentIds /\ payment[r.id].status # "NONE" /\ p = payment[r.id].pass
        /\ r.mode \in {"end", "reduce", "keep"}
        /\ pass[p].payment = r.id /\ pass[p].status = "ACTIVE" => r.mode = "end"
    BY DEF RefundMembers, At, RacesInv, RequestOK, PaymentOK, PaidInv, BookOK
  <1>2. p \in PassIds
    BY <1>1, PassOfPayment
  <1>3. End(w) /\ Idle.step = "idle"
    BY IdleFields DEF RefundMembers
  <1>4. /\ \A k \in PaymentIds : payment'[k].pass = payment[k].pass
        /\ \A k \in PaymentIds \ {r.id} : payment'[k].status = payment[k].status
    BY DEF RefundMembers, RacesInv, TypeOK, PaymentRow
  <1>5. ASSUME NEW q \in PassIds
        PROVE  /\ pass'[q].plan = pass[q].plan /\ pass'[q].payment = pass[q].payment
               /\ pass'[q].status = IF q = p /\ r.mode = "end" THEN "REFUNDED" ELSE pass[q].status
    <2>1. pass \in [PassIds -> PassRow]
      BY DEF RacesInv, TypeOK
    <2>2. CASE r.mode = "keep"
      BY <2>2 DEF RefundMembers
    <2>3. CASE r.mode = "reduce"
      BY <1>2, <2>1, <2>3 DEF RefundMembers, PassRow
    <2>4. CASE r.mode = "end"
      BY <1>2, <2>1, <2>4 DEF RefundMembers, PassRow
    <2> QED
      BY <1>1, <2>2, <2>3, <2>4
  <1>6. ASSUME NEW q \in PassIds PROVE Paid(q)'
    <2>1. Paid(q) /\ pass[q].payment \in {0} \cup PaymentIds
      BY DEF PaidInv, PaidElite, Paid, RacesInv, TypeOK, PassRow
    <2> QED
      BY <1>1, <1>4, <1>5, <2>1 DEF Paid
  <1>7. PaidElite'
    BY <1>6 DEF PaidElite, Paid
  <1>8. \A q \in PassIds, k \in PaymentIds : ~StartsBy(q, k)
    BY <1>5 DEF StartsBy
  <1>9. req'[w] = Idle => BookOK(w)'
    BY <1>3 DEF BookOK
  <1> QED
    BY <1>3, <1>7, <1>8, <1>9, BookStep DEF End, LateSteps

\* The job only ends passes, and a Free Pass is nobody's payment.
LEMMA ExpireMembersPaid ==
    ASSUME RacesInv, RacesInv', PaidInv, NEW w \in Workers, ExpireMembers(w) PROVE PaidInv'
  <1>1. req[w].pass \in PassIds
    BY DEF ExpireMembers, At, RacesInv, RequestOK, PaymentOK
  <1>2. /\ payment' = payment
        /\ \A q \in PassIds : /\ pass'[q].plan = pass[q].plan /\ pass'[q].payment = pass[q].payment
                              /\ pass'[q].status = "ACTIVE" => pass[q].status = "ACTIVE"
    BY <1>1 DEF ExpireMembers, RacesInv, TypeOK, PassRow
  <1>3. PaidElite'
    BY <1>2 DEF PaidInv, PaidElite
  <1>4. \A q \in PassIds, k \in PaymentIds : ~StartsBy(q, k)
    BY <1>2 DEF StartsBy
  <1>5. PICK r : Go(w, r) /\ r \in {Idle, [Idle EXCEPT !.step = "expirePass", !.due = req[w].due]}
    BY DEF ExpireMembers
  <1>6. r.step \in {"idle", "expirePass"}
    BY <1>5, IdleFields DEF Idle
  <1>7. req'[w] = r => BookOK(w)'
    BY <1>6 DEF BookOK
  <1> QED
    BY <1>3, <1>4, <1>5, <1>6, <1>7, BookStep DEF LateSteps

LEMMA WriteFreePaid ==
    ASSUME RacesInv, RacesInv', PaidInv, NEW w \in Workers, WriteFree(w) PROVE PaidInv'
  <1>1. End(w) /\ Idle.step = "idle"
    BY IdleFields DEF WriteFree
  <1>2. CASE pass' = pass /\ payment' = payment
    BY <1>1, <1>2, PlainStep DEF End, LateSteps
  <1>3. CASE ~(pass' = pass /\ payment' = payment)
    <2>1. payment' = payment
      BY DEF WriteFree, tables
    <2>2. PICK p, i, until : pass' = [pass EXCEPT ![p] = [status |-> "ACTIVE", plan |-> "FREE", post |-> i,
                                                          expiresAt |-> until, payment |-> 0]]
      BY <1>3, <2>1 DEF WriteFree, tables
    <2>q. \A q \in PassIds : pass'[q] = pass[q] \/ (pass'[q].plan = "FREE" /\ pass'[q].payment = 0)
      BY <2>2 DEF RacesInv, TypeOK
    <2>3. PaidElite'
      BY <2>1, <2>q DEF PaidInv, PaidElite
    <2>4. \A q \in PassIds, k \in PaymentIds : ~StartsBy(q, k)
      BY <2>q DEF StartsBy, PaymentIds
    <2>5. req'[w] = Idle => BookOK(w)'
      BY <1>1 DEF BookOK
    <2> QED
      BY <1>1, <2>3, <2>4, <2>5, BookStep DEF End, LateSteps
  <1> QED
    BY <1>2, <1>3

\* A handler that runs in one step starts a pass by a payment only while it books that payment.
LEMMA SerialStarts ==
    ASSUME TypeOK, Linked, [Next]_tables, NEW p \in PassIds, NEW k \in PaymentIds, StartsBy(p, k)
    PROVE  payment'[k] # payment[k]
  <1>1. pass[p] \in PassRow /\ k # 0
    BY DEF TypeOK, PaymentIds
  <1>2. ASSUME NEW i \in Posts, NEW c \in Collectives, Join(i, c) PROVE FALSE
    BY <1>1, <1>2, JoinEffect, SMTT(40) DEF StartsBy, TypeOK
  <1>3. ASSUME NEW i \in Posts, NEW c \in Collectives, CreatePayment(i, c) PROVE FALSE
    BY <1>1, <1>3, CreatePaymentEffect DEF StartsBy, TypeOK
  <1>4. ASSUME NEW j \in PaymentIds, Activate(j) PROVE payment'[k] # payment[k]
    <2>1. payment'[j].status = "SUCCESS" /\ payment[j].status # "SUCCESS"
      BY <1>4 DEF Activate, AlreadyDone, TypeOK, PaymentRow
    <2>2. j = k
      BY <1>4, ActivateHasPass, ActivateEffect DEF StartsBy
    <2> QED
      BY <2>1, <2>2
  <1>5. ASSUME NEW j \in PaymentIds, RefundMoney(j) PROVE FALSE
    BY <1>5, RefundHasPass, RefundEffect DEF StartsBy
  <1>6. ASSUME NEW q \in PassIds, ExpirePass(q) PROVE FALSE
    BY <1>1, <1>6 DEF ExpirePass, StartsBy, TypeOK, PassRow
  <1>7. ASSUME pass' = pass PROVE FALSE
    BY <1>7 DEF StartsBy
  <1>8. ASSUME NEW m \in MembershipIds, Leave(m) PROVE FALSE
    BY <1>5, <1>7, <1>8 DEF Leave, RefundedByLeaving
  <1>9. ASSUME NEW j \in PaymentIds, CheckoutFor(j) \/ CustomerPays(j) \/ PaymentFailed(j) PROVE FALSE
    BY <1>7, <1>9 DEF CheckoutFor, CustomerPays, PaymentFailed
  <1> QED
    BY <1>2, <1>3, <1>4, <1>5, <1>6, <1>7, <1>8, <1>9, StepCases DEF Bystander, Refund

LEMMA BackgroundPaid ==
    ASSUME RacesInv, RacesInv', PaidInv, BackgroundStep \/ UNCHANGED vars PROVE PaidInv'
  <1>1. /\ TypeOK /\ Linked /\ PaidElite /\ [Next]_tables /\ req' = req
        /\ \A k \in PaymentIds : payment'[k] # payment[k] => PaymentLock(k) \notin Locked
    BY BackgroundIsSerial DEF RacesInv, PaidInv, RespectsLocks, vars, tables
  <1>2. PaidElite'
    BY <1>1, PaidStep
  <1>3. ASSUME NEW v \in Workers PROVE BookOK(v)'
    <2>1. \A p \in PassIds, k \in PaymentIds : StartsBy(p, k) => PaymentLock(k) \notin LockedBy(v)
      BY <1>1, SerialStarts DEF Locked
    <2> QED
      BY <1>1, <2>1, BooksStay DEF PaidInv
  <1> QED
    BY <1>1, <1>2, <1>3 DEF PaidInv

LEMMA PaidStart == RacesInit => PaidInv
  <1> SUFFICES ASSUME RacesInit PROVE PaidInv
    OBVIOUS
  <1>1. PaidElite
    BY DEF RacesInit, TablesInit, PaidElite
  <1>2. \A w \in Workers : req[w].step = "idle"
    BY IdleFields DEF RacesInit
  <1> QED
    BY <1>1, <1>2 DEF PaidInv, BookOK, LateSteps

LEMMA PaidSteps ==
    ASSUME Overlapping \cap {"PaymentFailed", "CreatePayment"} = {}, RacesInv, RacesInv', PaidInv,
           [RacesNext]_vars
    PROVE  PaidInv'
  <1>1. ASSUME NEW w \in Workers, BeginRequest(w) PROVE PaidInv'
    BY <1>1, BeginsPaid
  <1>2. ASSUME NEW w \in Workers, Proceed(w) PROVE PaidInv'
    <2>1. ~WriteFailed(w) /\ ~InsertPayment(w) /\ ~AttachOrder(w)
      BY DEF PaidInv, LateSteps, WriteFailed, InsertPayment, AttachOrder, At
    <2> QED
      BY <1>2, <2>1, PlainStepsPaid, ReadPassPaid, WritePassPaid, GrantPaid, LockRefundPaid, RefundPassPaid,
         RefundMembersPaid, ExpireMembersPaid, WriteFreePaid
         DEF Proceed, PlainSteps
  <1>3. ASSUME NEW w \in Workers, Crash(w) PROVE PaidInv'
    BY <1>3, PlainStepsPaid DEF PlainSteps
  <1> QED
    BY <1>1, <1>2, <1>3, BackgroundPaid DEF RacesNext

\* While activations, refunds, joins, leaving and the job overlap, crashes included, an active
\* Elite Pass was started by a payment for that pass which stands: activation and refund of one
\* payment wait for each other, and who refunds it has looked at the pass since. It is otherwise
\* when payment.failed, or the attaching of an order, overlaps: they write the status by id.
THEOREM EliteIsPaidInRaces ==
    ASSUME Overlapping \cap {"PaymentFailed", "CreatePayment"} = {}
    PROVE  RacesSpec => []PaidElite
  <1>1. RacesInit => PaidInv
    BY PaidStart
  <1>2. RacesInv /\ RacesInv' /\ PaidInv /\ [RacesNext]_vars => PaidInv'
    BY PaidSteps
  <1>3. PaidInv => PaidElite
    BY DEF PaidInv
  <1> QED
    BY <1>1, <1>2, <1>3, RacesInvHolds, PTL DEF RacesSpec

-----------------------------------------------------------------------------
(* No payment gives its days twice, while activations, refunds, joins,     *)
(* leaving and the job overlap.                                            *)

WentThrough(k) == payment[k].status \in {"SUCCESS", "REFUNDED"}

Bought(p) == EliteDays * Cardinality(GrantedPayments(p))

DaysGranted(p) == RunningElite(p) => pass[p].expiresAt <= now + Bought(p)

\* The payment a handler activates is in its hands and has not gone through; the end it is going
\* to write is one payment's days after what the payments so far bought, or after now.
GrantOK(w) ==
    LET r == req[w] IN
    /\ r.step \in {"readPass", "writePass", "grant"} =>
         PaymentLock(r.id) \in r.locks /\ ~WentThrough(r.id)
    /\ r.step \in {"writePass", "grant"} =>
         /\ r.mode = "extend" => r.until <= now + Bought(r.pass) + EliteDays
         /\ r.mode = "start" => r.until <= now + EliteDays
    /\ r.step \in {"refundPass", "refundMembers"} /\ r.mode = "reduce" =>
         r.until <= now + Bought(r.pass)

GrantInv ==
    /\ \A p \in PassIds : DaysGranted(p)
    /\ \A w \in Workers : GrantOK(w)

\* What went through stays so, and time does not run backwards.
BoughtGrows ==
    /\ now' \in {now, now + 1}
    /\ \A k \in PaymentIds : WentThrough(k) => WentThrough(k)'
    /\ \A p \in PassIds : Bought(p) <= Bought(p)'

LEMMA GrantedIsFinite ==
    ASSUME NEW p
    PROVE  IsFiniteSet(GrantedPayments(p)) /\ Cardinality(GrantedPayments(p)) \in Nat
  <1>1. IsFiniteSet(PaymentIds)
    BY FS_Interval DEF PaymentIds
  <1>2. GrantedPayments(p) \in SUBSET PaymentIds
    BY DEF GrantedPayments
  <1> QED
    BY <1>1, <1>2, FS_Subset, FS_CardinalityType

LEMMA BoughtIsDays == \A p : Bought(p) \in Nat /\ Bought(p)' \in Nat
  <1> SUFFICES ASSUME NEW p PROVE Bought(p) \in Nat /\ Bought(p)' \in Nat
    OBVIOUS
  <1>1. IsFiniteSet(PaymentIds)
    BY FS_Interval DEF PaymentIds
  <1>2. GrantedPayments(p)' \in SUBSET PaymentIds
    BY DEF GrantedPayments
  <1>3. Cardinality(GrantedPayments(p)) \in Nat /\ Cardinality(GrantedPayments(p)') \in Nat
    BY <1>1, <1>2, GrantedIsFinite, FS_Subset, FS_CardinalityType
  <1>4. Bought(p)' = EliteDays * Cardinality(GrantedPayments(p)')
    BY DEF Bought
  <1> QED
    BY <1>3, <1>4, OneMorePayment DEF Bought

LEMMA MorePayments ==
    ASSUME NEW a \in Nat, NEW b \in Nat, a <= b PROVE EliteDays * a <= EliteDays * b
  <1>1. PICK d \in Nat : b = a + d
    <2>1. b - a \in Nat /\ b = a + (b - a)
      OBVIOUS
    <2> QED
      BY <2>1
  <1>2. EliteDays * (a + d) = EliteDays * a + EliteDays * d
    OBVIOUS
  <1>3. EliteDays * d \in Nat /\ EliteDays * a \in Nat
    BY OneMorePayment
  <1> QED
    BY <1>1, <1>2, <1>3

\* Payments keep their pass, and the ones that went through stay so: a pass was bought no fewer days.
LEMMA MoreIsBought ==
    ASSUME PaymentsStay, now' \in {now, now + 1},
           \A k \in PaymentIds : WentThrough(k) => WentThrough(k)'
    PROVE  BoughtGrows
  <1> SUFFICES ASSUME NEW p \in PassIds PROVE Bought(p) <= Bought(p)'
    BY DEF BoughtGrows
  <1>1. GrantedPayments(p) \subseteq GrantedPayments(p)'
    BY DEF GrantedPayments, WentThrough, PaymentsStay
  <1>2. IsFiniteSet(GrantedPayments(p)')
    <2>1. IsFiniteSet(PaymentIds)
      BY FS_Interval DEF PaymentIds
    <2>2. GrantedPayments(p)' \in SUBSET PaymentIds
      BY DEF GrantedPayments
    <2> QED
      BY <2>1, <2>2, FS_Subset
  <1>3. /\ Cardinality(GrantedPayments(p)) \in Nat /\ Cardinality(GrantedPayments(p)') \in Nat
        /\ Cardinality(GrantedPayments(p)) <= Cardinality(GrantedPayments(p)')
    BY <1>1, <1>2, GrantedIsFinite, FS_Subset, FS_CardinalityType
  <1>4. Bought(p)' = EliteDays * Cardinality(GrantedPayments(p)')
    BY DEF Bought
  <1> QED
    BY <1>3, <1>4, MorePayments DEF Bought

LEMMA SameIsBought ==
    ASSUME payment' = payment, now' \in {now, now + 1}
    PROVE  BoughtGrows
  BY MoreIsBought DEF PaymentsStay, WentThrough

\* The clock only helps, and so does what else goes through.
LEMMA GrantedDaysKept ==
    ASSUME RacesInv, BoughtGrows, NEW p \in PassIds, DaysGranted(p),
           RunningElite(p)' => RunningElite(p) /\ pass'[p].expiresAt <= pass[p].expiresAt,
           pass'[p].expiresAt \in Nat
    PROVE  DaysGranted(p)'
  <1>1. /\ Bought(p) \in Nat /\ Bought(p)' \in Nat /\ now \in Nat /\ pass[p].expiresAt \in Nat
        /\ Bought(p) <= Bought(p)' /\ now' \in {now, now + 1}
    BY BoughtIsDays DEF RacesInv, TypeOK, PassRow, BoughtGrows
  <1>2. DaysGranted(p)' <=> (RunningElite(p)' => pass'[p].expiresAt <= now' + Bought(p)')
    BY DEF DaysGranted
  <1> QED
    BY <1>1, <1>2 DEF DaysGranted

\* The others' payments stay as they are, and their ends are no later than they were.
LEMMA GrantStays ==
    ASSUME RacesInv, BoughtGrows, NEW v \in Workers, GrantOK(v), req'[v] = req[v],
           \A k \in PaymentIds : WentThrough(k)' => WentThrough(k) \/ PaymentLock(k) \notin LockedBy(v)
    PROVE  GrantOK(v)'
  <1> DEFINE r == req[v]
  <1>1. r \in Request /\ r.until \in Nat /\ now \in Nat /\ EliteDays \in Nat
    BY DEF RacesInv, RequestsTyped, Request, TypeOK
  <1>2. r.step \in {"readPass", "writePass", "grant", "refundPass", "refundMembers"} => r.id \in PaymentIds
        /\ payment[r.id].status # "NONE"
    BY DEF RacesInv, RequestOK, PaymentOK
  <1>3. r.step \in {"writePass", "grant", "refundPass", "refundMembers"} => r.pass \in PassIds
    <2>1. r.step \in {"writePass", "grant", "refundPass", "refundMembers"} => r.pass = payment[r.id].pass
      BY DEF RacesInv, RequestOK, PaymentOK
    <2> QED
      BY <1>2, <2>1, PassOfPayment
  <1>4. r.step \in {"readPass", "writePass", "grant"} =>
          PaymentLock(r.id) \in r.locks /\ ~WentThrough(r.id)'
    BY <1>2 DEF GrantOK, LockedBy
  <1>5. r.pass \in PassIds => /\ Bought(r.pass) \in Nat /\ Bought(r.pass)' \in Nat
                              /\ Bought(r.pass) <= Bought(r.pass)'
    BY BoughtIsDays DEF BoughtGrows
  <1>6. now' \in {now, now + 1}
    BY DEF BoughtGrows
  <1>7. r.step \in {"writePass", "grant"} =>
          /\ r.mode = "extend" => r.until <= now' + Bought(r.pass)' + EliteDays
          /\ r.mode = "start" => r.until <= now' + EliteDays
    BY <1>1, <1>3, <1>5, <1>6 DEF GrantOK
  <1>8. r.step \in {"refundPass", "refundMembers"} /\ r.mode = "reduce" => r.until <= now' + Bought(r.pass)'
    BY <1>1, <1>3, <1>5, <1>6 DEF GrantOK
  <1> QED
    BY <1>4, <1>7, <1>8 DEF GrantOK

\* A handler's step: what goes through by it is a payment that it holds.
LEMMA GrantStep ==
    ASSUME RacesInv, GrantInv, NEW w \in Workers, NEW r, Go(w, r), BoughtGrows,
           \A p \in PassIds : DaysGranted(p)', req'[w] = r => GrantOK(w)',
           \A k \in PaymentIds : WentThrough(k)' => WentThrough(k) \/ PaymentLock(k) \in LockedBy(w)
    PROVE  GrantInv'
  <1>1. req'[w] = r /\ \A v \in Workers \ {w} : req'[v] = req[v]
    BY DEF Go, RacesInv, RequestsTyped
  <1>2. ASSUME NEW v \in Workers \ {w} PROVE GrantOK(v)'
    <2>1. LockedBy(v) \cap LockedBy(w) = {}
      BY DEF RacesInv, Exclusive
    <2> QED
      BY <1>1, <2>1, GrantStays DEF GrantInv
  <1> QED
    BY <1>1, <1>2 DEF GrantInv

\* The steps that leave passes and payments alone.
LEMMA ReadingGrants ==
    ASSUME RacesInv, GrantInv, NEW w \in Workers, pass' = pass, payment' = payment, now' = now,
           NEW r, Go(w, r), req'[w] = r => GrantOK(w)'
    PROVE  GrantInv'
  <1>1. BoughtGrows
    BY SameIsBought
  <1>2. ASSUME NEW p \in PassIds PROVE DaysGranted(p)'
    <2>1. RunningElite(p)' => RunningElite(p)
      BY DEF RunningElite
    <2>2. DaysGranted(p) /\ pass[p].expiresAt \in Nat
      BY DEF GrantInv, RacesInv, TypeOK, PassRow
    <2> QED
      BY <1>1, <2>1, <2>2, GrantedDaysKept
  <1>3. \A k \in PaymentIds : WentThrough(k)' => WentThrough(k)
    BY DEF WentThrough
  <1> QED
    BY <1>1, <1>2, <1>3, GrantStep

LEMMA PlainGrants ==
    ASSUME RacesInv, GrantInv, NEW w \in Workers, pass' = pass, payment' = payment, now' = now, NEW r, Go(w, r),
           r.step \notin {"readPass", "writePass", "grant", "refundPass", "refundMembers"}
    PROVE  GrantInv'
  <1>1. req'[w] = r => GrantOK(w)'
    BY DEF GrantOK
  <1> QED
    BY <1>1, ReadingGrants

LEMMA PlainStepsGrant ==
    ASSUME RacesInv, GrantInv, NEW w \in Workers, PlainSteps(w) PROVE GrantInv'
  <1>1. PICK step \in {"lockRefund", "readElite", "rideOnElite", "readFree", "lockUser",
                       "writeFree", "expireMembers", "expirePass", "idle"} : Goes(w, step)
    BY PlainStepsGo
  <1> QED
    BY <1>1, PlainStepsStay, PlainGrants DEF Goes

LEMMA BeginsGrant ==
    ASSUME RacesInv, GrantInv, "PaymentFailed" \notin Overlapping, "CreatePayment" \notin Overlapping,
           NEW w \in Workers, BeginRequest(w)
    PROVE  GrantInv'
  <1>1. ASSUME NEW r, Go(w, r), UNCHANGED <<now, pass, payment>>,
               r.step \in {"readRefund", "lockRefund", "openMembership", "readElite", "writeLeft", "expirePass"}
        PROVE  GrantInv'
    BY <1>1, PlainGrants
  <1>2. ASSUME NEW k \in PaymentIds, BeginActivate(w, k) PROVE GrantInv'
    <2>1. PICK r : r = [Idle EXCEPT !.step = "readPass", !.id = k, !.locks = ActivationLocks(k)]
      OBVIOUS
    <2>2. r.step = "readPass" /\ r.id = k /\ r.locks = {PaymentLock(k)}
      BY <2>1 DEF Idle, ActivationLocks
    <2>3. Go(w, r) /\ UNCHANGED <<now, pass, payment>> /\ ~WentThrough(k)
      BY <1>2, <2>1 DEF BeginActivate, Begin, tables, AlreadyDone, WentThrough
    <2>4. req'[w] = r => GrantOK(w)'
      BY <2>2, <2>3 DEF GrantOK, WentThrough
    <2> QED
      BY <2>3, <2>4, ReadingGrants
  <1>3. ASSUME NEW k \in PaymentIds, BeginRefund(w, k) \/ BeginRefundWebhook(w, k) PROVE GrantInv'
    BY <1>1, <1>3 DEF BeginRefund, BeginRefundWebhook, Begin, Idle, tables
  <1>4. ASSUME NEW i \in Posts, NEW c \in Collectives, BeginJoin(w, i, c) PROVE GrantInv'
    <2>1. PICK m : Begin(w, "Join",
                     IF membership[m].status = "NONE"
                     THEN [Idle EXCEPT !.step = "openMembership", !.post = i, !.collective = c]
                     ELSE [Idle EXCEPT !.step = "readElite", !.id = m])
      BY <1>4 DEF BeginJoin
    <2>2. UNCHANGED <<now, pass, payment>>
      BY <1>4 DEF BeginJoin, tables
    <2> QED
      BY <1>1, <2>1, <2>2 DEF Begin, Idle
  <1>5. ASSUME NEW m \in MembershipIds, BeginLeave(w, m) PROVE GrantInv'
    BY <1>1, <1>5 DEF BeginLeave, Begin, Idle, tables
  <1>6. ASSUME BeginExpirePasses(w) PROVE GrantInv'
    BY <1>1, <1>6 DEF BeginExpirePasses, Begin, Idle, tables
  <1>7. ASSUME NEW k \in PaymentIds PROVE ~BeginPaymentFailed(w, k)
    BY DEF BeginPaymentFailed, Begin
  <1>8. ASSUME NEW i \in Posts, NEW c \in Collectives PROVE ~BeginCreatePayment(w, i, c)
    BY DEF BeginCreatePayment, Begin
  <1> QED
    BY <1>2, <1>3, <1>4, <1>5, <1>6, <1>7, <1>8 DEF BeginRequest

\* The end that activate() is going to write is one payment's days after what was bought.
LEMMA ReadPassGrants ==
    ASSUME RacesInv, GrantInv, NEW w \in Workers, ReadPass(w) PROVE GrantInv'
  <1> DEFINE k == req[w].id
             p == payment[k].pass
             r == req'[w]
  <1>1. /\ Go(w, r) /\ UNCHANGED <<now, pass, payment>>
        /\ r.step = "writePass" /\ r.id = k /\ r.pass = p /\ r.locks = {PaymentLock(k)}
        /\ r.mode = "extend" => Extending(k) /\ r.until = ExtendedExpiry(pass[p].expiresAt)
        /\ r.mode = "start" => r.until = now + EliteDays
    BY ReadPassGoes DEF tables
  <1>2. k \in PaymentIds /\ payment[k].status # "NONE" /\ ~WentThrough(k)
    BY DEF ReadPass, At, RacesInv, RequestOK, PaymentOK, GrantInv, GrantOK
  <1>3. p \in PassIds /\ pass[p].expiresAt \in Nat /\ Bought(p) \in Nat /\ now \in Nat /\ EliteDays \in Nat
    BY <1>2, PassOfPayment, BoughtIsDays DEF PassRow, RacesInv, TypeOK
  <1>4. ASSUME Extending(k) PROVE ExtendedExpiry(pass[p].expiresAt) <= now + Bought(p) + EliteDays
    <2>1. pass[p].expiresAt <= now + Bought(p)
      BY <1>3, <1>4 DEF Extending, GrantInv, DaysGranted, RunningElite
    <2> QED
      BY <1>3, <2>1 DEF ExtendedExpiry, Later
  <1>5. Bought(p)' = Bought(p)
    BY <1>1 DEF Bought, GrantedPayments
  <1>6. r.mode = "start" => r.until <= now + EliteDays
    BY <1>1, <1>3
  <1>7. GrantOK(w)'
    BY <1>1, <1>2, <1>4, <1>5, <1>6 DEF GrantOK, WentThrough
  <1> QED
    BY <1>1, <1>7, ReadingGrants

LEMMA WritePassGrants ==
    ASSUME RacesInv, GrantInv, NEW w \in Workers, WritePass(w) PROVE GrantInv'
  <1> DEFINE r == req[w]
  <1>1. r \in Request /\ r.step = "writePass"
    BY DEF WritePass, At, RacesInv, RequestsTyped
  <1>2. UNCHANGED <<now, pass, payment>>
    BY DEF WritePass, tables
  <1>3. CASE End(w)
    BY <1>2, <1>3, PlainGrants, IdleFields DEF End
  <1>4. CASE ~End(w)
    <2>1. PICK rows, locks : Go(w, [r EXCEPT !.step = "grant", !.rows = rows, !.locks = @ \cup locks])
      BY <1>4 DEF WritePass
    <2>2. PICK s : s = [r EXCEPT !.step = "grant", !.rows = rows, !.locks = @ \cup locks]
      OBVIOUS
    <2>3. /\ s.step = "grant" /\ s.id = r.id /\ s.pass = r.pass /\ s.mode = r.mode /\ s.until = r.until
          /\ r.locks \subseteq s.locks
      BY <1>1, <2>2 DEF Request
    <2>4. \A p : Bought(p)' = Bought(p)
      BY <1>2 DEF Bought, GrantedPayments
    <2>5. req'[w] = s => GrantOK(w)'
      BY <1>1, <1>2, <2>3, <2>4 DEF GrantInv, GrantOK, WentThrough
    <2> QED
      BY <1>2, <2>1, <2>2, <2>5, ReadingGrants
  <1> QED
    BY <1>3, <1>4

\* What goes through buys its pass EliteDays.

LEMMA OneMoreBought ==
    ASSUME RacesInv, NEW k \in PaymentIds, ~WentThrough(k), NEW status \in {"SUCCESS", "REFUNDED"},
           payment' = [payment EXCEPT ![k].status = status], NEW p, p = payment[k].pass
    PROVE  Bought(p)' = Bought(p) + EliteDays
  <1> DEFINE count == Cardinality(GrantedPayments(p))
  <1>1. payment \in [PaymentIds -> PaymentRow]
    BY DEF RacesInv, TypeOK
  <1>2. /\ \A j \in PaymentIds : payment'[j].pass = payment[j].pass
        /\ \A j \in PaymentIds : payment'[j].status = IF j = k THEN status ELSE payment[j].status
    BY <1>1 DEF PaymentRow
  <1>3. GrantedPayments(p)' = GrantedPayments(p) \cup {k}
    BY <1>2 DEF GrantedPayments
  <1>4. k \notin GrantedPayments(p)
    BY DEF GrantedPayments, WentThrough
  <1>5. count \in Nat /\ Cardinality(GrantedPayments(p) \cup {k}) = count + 1
    BY <1>4, GrantedIsFinite, FS_AddElement
  <1>6. Bought(p)' = EliteDays * (count + 1)
    BY <1>3, <1>5 DEF Bought
  <1>7. Bought(p) = EliteDays * count
    BY DEF Bought
  <1> HIDE DEF count
  <1> QED
    BY <1>5, <1>6, <1>7, OneMorePayment

\* activate() commits: the payment it holds goes through, and the end it writes is paid for.
LEMMA GrantGrants ==
    ASSUME RacesInv, RacesInv', GrantInv, PaidInv, NEW w \in Workers, Grant(w) PROVE GrantInv'
  <1>1. PICK r \in Request : r = req[w]
    BY DEF RacesInv, RequestsTyped
  <1> DEFINE ended == {q \in PassIds \ {r.pass} : PassLock(q) \in r.locks}
  <1>2. /\ r.id \in PaymentIds /\ r.pass = payment[r.id].pass /\ payment[r.id].status # "NONE"
        /\ PaymentLock(r.id) \in LockedBy(w) /\ ~WentThrough(r.id)
        /\ r.mode = "extend" => r.until <= now + Bought(r.pass) + EliteDays
        /\ r.mode = "start" => r.until <= now + EliteDays
    BY <1>1, ZenonT(40) DEF Grant, At, RacesInv, RequestOK, PaymentOK, GrantInv, GrantOK, LockedBy
  <1>3. End(w) /\ Idle.step = "idle" /\ now' = now
    BY IdleFields DEF Grant, tables
  <1>4. CASE pass' = pass /\ payment' = payment
    BY <1>3, <1>4, PlainGrants DEF End
  <1>5. CASE ~(pass' = pass /\ payment' = payment)
    <2>1. /\ payment' = [payment EXCEPT ![r.id].status = "SUCCESS"] /\ order' = order
          /\ pass' = [q \in PassIds |->
               CASE q \in ended -> [pass[q] EXCEPT !.status = "EXPIRED", !.expiresAt = now]
                 [] q = r.pass /\ r.mode = "extend" -> [pass[q] EXCEPT !.expiresAt = r.until]
                 [] q = r.pass /\ r.mode = "start" ->
                      [pass[q] EXCEPT !.plan = "ELITE", !.status = "ACTIVE",
                                      !.expiresAt = r.until, !.payment = r.id]
                 [] OTHER -> pass[q]]
      BY <1>1, <1>5, ZenonT(40) DEF Grant, tables
    <2>2. r.pass \notin ended /\ r.pass \in PassIds
      BY <1>2, PassOfPayment
    <2> HIDE DEF ended
    <2>3. \A k \in PaymentIds : WentThrough(k)' <=> WentThrough(k) \/ k = r.id
      BY <1>2, <2>1, ZenonT(40) DEF RacesInv, TypeOK, PaymentRow, WentThrough
    <2>4. BoughtGrows
      <3>1. PaymentsStay
        BY <1>2, <2>1, StatusWritten, ZenonT(40) DEF RacesInv, PaymentStatus
      <3> QED
        BY <1>3, <2>3, <3>1, MoreIsBought
    <2>5. Bought(r.pass)' = Bought(r.pass) + EliteDays
      BY <1>2, <2>1, OneMoreBought
    <2>6. ASSUME NEW q \in PassIds PROVE DaysGranted(q)'
      <3>1. pass[q] \in PassRow /\ pass'[q].expiresAt \in Nat
        BY DEF RacesInv, TypeOK, PassRow
      <3>2. DaysGranted(q)' <=> (RunningElite(q)' => pass'[q].expiresAt <= now' + Bought(q)')
        BY DEF DaysGranted
      <3>3. CASE q = r.pass /\ r.mode \in {"extend", "start"}
        <4>1. pass'[q].expiresAt = r.until
          BY <2>1, <2>2, <3>1, <3>3 DEF PassRow
        <4>2. Bought(q) \in Nat /\ r.until \in Nat /\ now \in Nat /\ EliteDays \in Nat
          BY <1>1, BoughtIsDays DEF Request, RacesInv, TypeOK
        <4>3. r.until <= now + (Bought(q) + EliteDays)
          BY <1>2, <3>3, <4>2
        <4> QED
          BY <1>3, <2>5, <3>2, <3>3, <4>1, <4>3
      <3>4. CASE q \in ended
        <4>1. pass'[q] = [pass[q] EXCEPT !.status = "EXPIRED", !.expiresAt = now]
          BY <2>1, <2>2, <3>4
        <4> QED
          BY <3>1, <3>2, <4>1, SMTT(40) DEF RunningElite, PassRow
      <3>5. CASE q \notin ended /\ ~(q = r.pass /\ r.mode \in {"extend", "start"})
        <4>1. pass'[q] = pass[q]
          BY <2>1, <3>5
        <4>2. DaysGranted(q) /\ (RunningElite(q)' => RunningElite(q)) /\ pass'[q].expiresAt <= pass[q].expiresAt
          BY <3>1, <4>1 DEF GrantInv, RunningElite
        <4> QED
          BY <2>4, <3>1, <4>2, GrantedDaysKept, SMTT(40)
      <3> QED
        BY <3>3, <3>4, <3>5
    <2>7. req'[w] = Idle => GrantOK(w)'
      BY <1>3 DEF GrantOK
    <2> QED
      BY <1>2, <1>3, <2>3, <2>4, <2>6, <2>7, GrantStep DEF End
  <1> QED
    BY <1>4, <1>5

\* The days of an extension come off, but never into the past.
LEMMA ReducedIsBought ==
    ASSUME TypeOK, NEW end \in Nat, NEW bought \in Nat, end <= now + bought
    PROVE  ReducedExpiry(end) <= now + bought
  BY DEF TypeOK, ReducedExpiry, Later

LEMMA LockRefundGrants ==
    ASSUME RacesInv, GrantInv, NEW w \in Workers, LockRefund(w) PROVE GrantInv'
  <1>1. PICK k \in PaymentIds : k = req[w].id /\ payment[k].status # "NONE"
    BY DEF LockRefund, At, RacesInv, RequestOK, PaymentOK
  <1>2. PICK p \in PassIds : p = payment[k].pass /\ pass[p].plan = "ELITE"
    BY <1>1, PassOfPayment
  <1>3. UNCHANGED <<now, pass, payment>>
    BY DEF LockRefund, tables
  <1>4. PICK mode :
          /\ Go(w, [req[w] EXCEPT !.step = "refundPass", !.pass = p, !.locks = {PaymentLock(k)},
                                  !.mode = mode, !.until = ReducedExpiry(pass[p].expiresAt)])
          /\ mode = "reduce" => pass[p].status = "ACTIVE"
    <2> DEFINE mode == IF ~IsExtension(k) THEN "end"
                       ELSE IF pass[p].status = "ACTIVE" THEN "reduce" ELSE "keep"
    <2>1. Go(w, [req[w] EXCEPT !.step = "refundPass", !.pass = p, !.locks = {PaymentLock(k)},
                               !.mode = mode, !.until = ReducedExpiry(pass[p].expiresAt)])
      BY <1>1, <1>2, Zenon DEF LockRefund
    <2>2. mode = "reduce" => pass[p].status = "ACTIVE"
      OBVIOUS
    <2> HIDE DEF mode
    <2> QED
      BY <2>1, <2>2
  <1>5. PICK r : r = [req[w] EXCEPT !.step = "refundPass", !.pass = p, !.locks = {PaymentLock(k)},
                                    !.mode = mode, !.until = ReducedExpiry(pass[p].expiresAt)]
    OBVIOUS
  <1>6. r.step = "refundPass" /\ r.pass = p /\ r.mode = mode /\ r.until = ReducedExpiry(pass[p].expiresAt)
    BY <1>5 DEF RacesInv, RequestsTyped, Request
  <1>7. Bought(p)' = Bought(p)
    BY <1>3 DEF Bought, GrantedPayments
  <1>8. mode = "reduce" => ReducedExpiry(pass[p].expiresAt) <= now + Bought(p)
    <2> SUFFICES ASSUME mode = "reduce" PROVE ReducedExpiry(pass[p].expiresAt) <= now + Bought(p)
      OBVIOUS
    <2>1. pass[p].expiresAt <= now + Bought(p)
      BY <1>2, <1>4 DEF GrantInv, DaysGranted, RunningElite
    <2>2. pass[p].expiresAt \in Nat /\ Bought(p) \in Nat /\ TypeOK
      BY BoughtIsDays DEF RacesInv, TypeOK, PassRow
    <2> QED
      BY <2>1, <2>2, ReducedIsBought
  <1>9. req'[w] = r => GrantOK(w)'
    BY <1>3, <1>6, <1>7, <1>8 DEF GrantOK
  <1> QED
    BY <1>3, <1>4, <1>5, <1>9, ReadingGrants

LEMMA RefundPassGrants ==
    ASSUME RacesInv, GrantInv, NEW w \in Workers, RefundPass(w) PROVE GrantInv'
  <1>1. PICK r \in Request : r = req[w] /\ r.step = "refundPass"
    BY DEF RefundPass, At, RacesInv, RequestsTyped
  <1>2. UNCHANGED <<now, pass, payment>>
    BY DEF RefundPass, tables
  <1>3. PICK locks, rows, mode :
          /\ Go(w, [r EXCEPT !.step = "refundMembers", !.locks = @ \cup locks, !.mode = mode, !.rows = rows])
          /\ mode = "reduce" => r.mode = "reduce"
    <2> DEFINE ends == r.mode = "end" /\ pass[r.pass].status \in {"ACTIVE", "PENDING"}
               mode == IF r.mode = "end" /\ ~ends THEN "keep" ELSE r.mode
    <2>1. PICK locks, rows : Go(w, [r EXCEPT !.step = "refundMembers", !.locks = @ \cup locks,
                                             !.mode = mode, !.rows = rows])
      BY <1>1 DEF RefundPass
    <2>2. mode = "reduce" => r.mode = "reduce"
      OBVIOUS
    <2> HIDE DEF mode
    <2> QED
      BY <2>1, <2>2
  <1>4. PICK s : s = [r EXCEPT !.step = "refundMembers", !.locks = @ \cup locks, !.mode = mode, !.rows = rows]
    OBVIOUS
  <1>5. s.step = "refundMembers" /\ s.pass = r.pass /\ s.mode = mode /\ s.until = r.until
    BY <1>4 DEF Request
  <1>6. \A p : Bought(p)' = Bought(p)
    BY <1>2 DEF Bought, GrantedPayments
  <1>7. r.mode = "reduce" => r.until <= now + Bought(r.pass)
    BY <1>1 DEF GrantInv, GrantOK
  <1>8. req'[w] = s => GrantOK(w)'
    BY <1>2, <1>3, <1>5, <1>6, <1>7 DEF GrantOK
  <1> QED
    BY <1>2, <1>3, <1>4, <1>8, ReadingGrants

\* A refund that commits takes nothing of what went through away, and writes no later end.
LEMMA RefundMembersGrants ==
    ASSUME RacesInv, RacesInv', GrantInv, PaidInv, NEW w \in Workers, RefundMembers(w) PROVE GrantInv'
  <1>1. PICK r \in Request : r = req[w]
    BY DEF RacesInv, RequestsTyped
  <1>2. /\ r.id \in PaymentIds /\ payment[r.id].status # "NONE" /\ r.pass = payment[r.id].pass
        /\ r.mode \in {"end", "reduce", "keep"} /\ PaymentLock(r.id) \in LockedBy(w)
        /\ r.mode = "reduce" => r.until <= now + Bought(r.pass)
    BY <1>1 DEF RefundMembers, At, RacesInv, RequestOK, PaymentOK, PaidInv, BookOK, GrantInv, GrantOK, LockedBy
  <1>3. r.pass \in PassIds
    BY <1>2, PassOfPayment
  <1>4. End(w) /\ Idle.step = "idle" /\ now' = now
    BY IdleFields DEF RefundMembers
  <1>5. payment' = [payment EXCEPT ![r.id].status = "REFUNDED"] /\ order' = order
    BY <1>1 DEF RefundMembers
  <1>6. \A k \in PaymentIds : WentThrough(k)' <=> WentThrough(k) \/ k = r.id
    BY <1>2, <1>5 DEF RacesInv, TypeOK, PaymentRow, WentThrough
  <1>7. BoughtGrows
    <2>1. PaymentsStay
      BY <1>2, <1>5, StatusWritten DEF RacesInv, PaymentStatus
    <2> QED
      BY <1>4, <1>6, <2>1, MoreIsBought
  <1>8. ASSUME NEW q \in PassIds PROVE DaysGranted(q)'
    <2>1. pass[q] \in PassRow /\ pass'[q].expiresAt \in Nat /\ pass \in [PassIds -> PassRow]
      BY DEF RacesInv, TypeOK, PassRow
    <2>2. CASE q = r.pass /\ r.mode = "reduce"
      <3>1. pass'[q].expiresAt = r.until
        BY <1>1, <1>3, <2>1, <2>2 DEF RefundMembers, PassRow
      <3>2. /\ r.until \in Nat /\ now \in Nat /\ Bought(q) \in Nat /\ Bought(q)' \in Nat
            /\ Bought(q) <= Bought(q)'
        BY <1>1, <1>7, BoughtIsDays DEF Request, RacesInv, TypeOK, BoughtGrows
      <3>3. r.until <= now + Bought(q)'
        BY <1>2, <2>2, <3>2
      <3>4. pass'[q].expiresAt <= now' + Bought(q)'
        BY <1>4, <3>1, <3>3
      <3> QED
        BY <3>4 DEF DaysGranted
    <2>3. CASE ~(q = r.pass /\ r.mode = "reduce")
      <3>1. /\ pass'[q].plan = pass[q].plan /\ pass'[q].expiresAt = pass[q].expiresAt
            /\ pass'[q].status = "ACTIVE" => pass[q].status = "ACTIVE"
        <4>1. CASE r.mode = "keep"
          BY <1>1, <4>1 DEF RefundMembers
        <4>2. CASE r.mode = "reduce"
          BY <1>1, <1>3, <2>1, <2>3, <4>2 DEF RefundMembers, PassRow
        <4>3. CASE r.mode = "end"
          BY <1>1, <1>3, <2>1, <4>3 DEF RefundMembers, PassRow
        <4> QED
          BY <1>2, <4>1, <4>2, <4>3
      <3>2. DaysGranted(q) /\ (RunningElite(q)' => RunningElite(q)) /\ pass'[q].expiresAt <= pass[q].expiresAt
        BY <2>1, <3>1 DEF GrantInv, RunningElite
      <3> QED
        BY <1>7, <2>1, <3>2, GrantedDaysKept
    <2> QED
      BY <2>2, <2>3
  <1>9. req'[w] = Idle => GrantOK(w)'
    BY <1>4 DEF GrantOK
  <1> QED
    BY <1>2, <1>4, <1>6, <1>7, <1>8, <1>9, GrantStep, SMTT(40) DEF End

\* Ending passes, and starting Free Passes, gives no Elite days.
LEMMA NoElite ==
    ASSUME RacesInv, RacesInv', GrantInv, BoughtGrows, NEW q \in PassIds,
           RunningElite(q)' => RunningElite(q) /\ pass'[q].expiresAt = pass[q].expiresAt
    PROVE  DaysGranted(q)'
  <1>1. pass[q].expiresAt \in Nat /\ pass'[q].expiresAt \in Nat /\ DaysGranted(q)
    BY DEF RacesInv, TypeOK, PassRow, GrantInv
  <1>2. CASE RunningElite(q)'
    BY <1>1, <1>2, GrantedDaysKept
  <1>3. CASE ~RunningElite(q)'
    BY <1>3 DEF DaysGranted
  <1> QED
    BY <1>2, <1>3

LEMMA ExpireMembersGrants ==
    ASSUME RacesInv, RacesInv', GrantInv, NEW w \in Workers, ExpireMembers(w) PROVE GrantInv'
  <1>1. req[w].pass \in PassIds
    BY DEF ExpireMembers, At, RacesInv, RequestOK, PaymentOK
  <1>2. payment' = payment /\ now' = now
    BY DEF ExpireMembers
  <1>3. BoughtGrows
    BY <1>2, SameIsBought
  <1>4. ASSUME NEW q \in PassIds PROVE DaysGranted(q)'
    <2>1. RunningElite(q)' => RunningElite(q) /\ pass'[q].expiresAt = pass[q].expiresAt
      BY <1>1 DEF ExpireMembers, RacesInv, TypeOK, PassRow, RunningElite
    <2> QED
      BY <1>3, <2>1, NoElite
  <1>5. PICK r : Go(w, r) /\ r \in {Idle, [Idle EXCEPT !.step = "expirePass", !.due = req[w].due]}
    BY DEF ExpireMembers
  <1>6. r.step \in {"idle", "expirePass"}
    BY <1>5, IdleFields DEF Idle
  <1>7. req'[w] = r => GrantOK(w)'
    BY <1>6 DEF GrantOK
  <1>8. \A k \in PaymentIds : WentThrough(k)' => WentThrough(k)
    BY <1>2 DEF WentThrough
  <1> QED
    BY <1>3, <1>4, <1>5, <1>7, <1>8, GrantStep

LEMMA WriteFreeGrants ==
    ASSUME RacesInv, RacesInv', GrantInv, NEW w \in Workers, WriteFree(w) PROVE GrantInv'
  <1>1. End(w) /\ Idle.step = "idle" /\ payment' = payment /\ now' = now
    BY IdleFields DEF WriteFree, tables
  <1>2. CASE pass' = pass
    BY <1>1, <1>2, PlainGrants DEF End
  <1>3. CASE pass' # pass
    <2>1. PICK p, i, until : pass' = [pass EXCEPT ![p] = [status |-> "ACTIVE", plan |-> "FREE", post |-> i,
                                                          expiresAt |-> until, payment |-> 0]]
      BY <1>3 DEF WriteFree, tables
    <2>2. BoughtGrows
      BY <1>1, SameIsBought
    <2>3. ASSUME NEW q \in PassIds PROVE DaysGranted(q)'
      <3>1. RunningElite(q)' => RunningElite(q) /\ pass'[q].expiresAt = pass[q].expiresAt
        BY <2>1 DEF RunningElite, RacesInv, TypeOK
      <3> QED
        BY <2>2, <3>1, NoElite
    <2>4. req'[w] = Idle => GrantOK(w)'
      BY <1>1 DEF GrantOK
    <2>5. \A k \in PaymentIds : WentThrough(k)' => WentThrough(k)
      BY <1>1 DEF WentThrough
    <2> QED
      BY <1>1, <2>2, <2>3, <2>4, <2>5, GrantStep DEF End
  <1> QED
    BY <1>2, <1>3

-----------------------------------------------------------------------------
(* Handlers that run in one step. *)

\* An activation in one step buys its days as one that overlaps.
LEMMA ActivateBuys ==
    ASSUME RacesInv, RacesInv', GrantInv, BoughtGrows, NEW k \in PaymentIds, Activate(k), NEW q \in PassIds
    PROVE  DaysGranted(q)'
  <1>1. PICK p \in PassIds : p = payment[k].pass /\ p # 0 /\ pass[p].plan = "ELITE"
    BY ActivateHasPass DEF RacesInv
  <1>2. /\ pass' = PassesAfterPayment(k) /\ now' = now /\ ~WentThrough(k)
        /\ payment' = [payment EXCEPT ![k].status = "SUCCESS"]
    BY DEF Activate, AlreadyDone, WentThrough
  <1>3. /\ pass[q] \in PassRow /\ pass[q].expiresAt \in Nat /\ pass'[q].expiresAt \in Nat
        /\ now \in Nat /\ EliteDays \in Nat /\ Bought(q) \in Nat /\ pass \in [PassIds -> PassRow]
    BY BoughtIsDays DEF RacesInv, TypeOK, PassRow
  <1>4. CASE q # p
    <2>1. RunningElite(q)' => RunningElite(q) /\ pass'[q].expiresAt = pass[q].expiresAt
      BY <1>1, <1>4, ActivateEffect DEF RacesInv, RunningElite
    <2> QED
      BY <2>1, NoElite
  <1>5. CASE q = p
    <2>1. Bought(q)' = Bought(q) + EliteDays
      BY <1>1, <1>2, <1>5, OneMoreBought
    <2>2. DaysGranted(q)' <=> (RunningElite(q)' => pass'[q].expiresAt <= now' + Bought(q)')
      BY DEF DaysGranted
    <2>3. DaysGranted(q)
      BY DEF GrantInv
    <2>4. CASE Extending(k)
      <3>1. RunningElite(q) /\ pass'[q].expiresAt = ExtendedExpiry(pass[q].expiresAt)
        BY <1>1, <1>2, <1>3, <1>5, <2>4 DEF Extending, PassesAfterPayment, RunningElite
      <3>2. ExtendedExpiry(pass[q].expiresAt) <= now + (Bought(q) + EliteDays)
        BY <1>3, <2>3, <3>1 DEF DaysGranted, ExtendedExpiry, Later
      <3> QED
        BY <1>2, <2>1, <2>2, <3>1, <3>2
    <2>5. CASE pass[q].status = "ACTIVE" /\ ~Extending(k)
      <3>1. pass' = pass
        BY <1>1, <1>2, <1>5, <2>5 DEF PassesAfterPayment
      <3> QED
        BY <3>1, NoElite DEF RunningElite
    <2>6. CASE pass[q].status # "ACTIVE"
      <3>1. pass'[q].expiresAt = now + EliteDays
        BY <1>1, <1>2, <1>3, <1>5, <2>6 DEF PassesAfterPayment, Extending, PassRow
      <3>2. now + EliteDays <= now + (Bought(q) + EliteDays)
        BY <1>3
      <3> QED
        BY <1>2, <2>1, <2>2, <3>1, <3>2
    <2> QED
      BY <2>4, <2>5, <2>6
  <1> QED
    BY <1>4, <1>5

LEMMA RefundBuysNothing ==
    ASSUME RacesInv, RacesInv', GrantInv, BoughtGrows, NEW k \in PaymentIds, RefundMoney(k), now' = now,
           NEW q \in PassIds
    PROVE  DaysGranted(q)'
  <1>1. PICK p \in PassIds : p = payment[k].pass
    BY RefundHasPass DEF RacesInv
  <1>2. pass' = PassesAfterRefund(k) /\ pass \in [PassIds -> PassRow] /\ pass[q].expiresAt \in Nat
    BY DEF RefundMoney, RacesInv, TypeOK, PassRow
  <1>3. CASE q = p /\ IsExtension(k) /\ RunningElite(q)
    <2>1. pass'[q].expiresAt = ReducedExpiry(pass[q].expiresAt)
      BY <1>1, <1>2, <1>3 DEF PassesAfterRefund, RunningElite, PassRow
    <2>2. ReducedExpiry(pass[q].expiresAt) <= now + Bought(q)
      BY <1>2, <1>3, BoughtIsDays, ReducedIsBought DEF RacesInv, GrantInv, DaysGranted
    <2>3. /\ Bought(q) \in Nat /\ Bought(q)' \in Nat /\ Bought(q) <= Bought(q)' /\ now \in Nat
          /\ pass'[q].expiresAt \in Nat
      BY BoughtIsDays DEF BoughtGrows, RacesInv, TypeOK, PassRow
    <2>4. pass'[q].expiresAt <= now' + Bought(q)'
      BY <2>1, <2>2, <2>3
    <2> QED
      BY <2>4 DEF DaysGranted
  <1>4. CASE ~(q = p /\ IsExtension(k) /\ RunningElite(q))
    <2>1. /\ pass'[q].plan = pass[q].plan /\ (pass'[q].status = "ACTIVE" => pass[q].status = "ACTIVE")
          /\ RunningElite(q)' => pass'[q].expiresAt = pass[q].expiresAt
      BY <1>1, <1>2, <1>4 DEF PassesAfterRefund, RunningElite, PassRow
    <2>2. RunningElite(q)' => RunningElite(q) /\ pass'[q].expiresAt = pass[q].expiresAt
      BY <2>1 DEF RunningElite
    <2> QED
      BY <2>2, NoElite
  <1> QED
    BY <1>3, <1>4

\* The background's steps, without payment.failed.
LEMMA BackgroundCases ==
    ASSUME BackgroundStep, "PaymentFailed" \notin Background
    PROVE  \/ Bystander
           \/ \E i \in Posts, c \in Collectives : Join(i, c) \/ CreatePayment(i, c)
           \/ \E k \in PaymentIds : CheckoutFor(k) \/ CustomerPays(k) \/ Activate(k) \/ Refund(k)
           \/ \E m \in MembershipIds : Leave(m)
           \/ \E p \in PassIds : ExpirePass(p)
  BY DEF BackgroundStep, Bystander, CreatePost, PausePost, ResumePost, ClosePost, SetPost, Tick

LEMMA BackgroundGrants ==
    ASSUME RacesInv, RacesInv', GrantInv, BackgroundStep, "PaymentFailed" \notin Background
    PROVE  GrantInv'
  <1>1. /\ TypeOK /\ Linked /\ req' = req /\ PaymentsStay
        /\ \A k \in PaymentIds : payment'[k] # payment[k] => PaymentLock(k) \notin Locked
    BY BackgroundIsSerial, SerialRowsStay DEF RacesInv, RespectsLocks, RowsStay
  <1>2. ASSUME payment' = payment, now' \in {now, now + 1},
               \A q \in PassIds : RunningElite(q)' => RunningElite(q) /\ pass'[q].expiresAt = pass[q].expiresAt
        PROVE  BoughtGrows /\ \A q \in PassIds : DaysGranted(q)'
    BY <1>2, SameIsBought, NoElite
  <1>3. BoughtGrows /\ \A q \in PassIds : DaysGranted(q)'
    <2>1. CASE Bystander
      BY <1>2, <2>1 DEF Bystander, RunningElite
    <2>2. ASSUME NEW i \in Posts, NEW c \in Collectives, Join(i, c)
          PROVE  BoughtGrows /\ \A q \in PassIds : DaysGranted(q)'
      <3>1. PICK p \in {0} \cup PassIds :
               \/ pass' = pass
               \/ pass' = [pass EXCEPT ![p] = [status |-> "ACTIVE", plan |-> "FREE", post |-> i,
                                               expiresAt |-> now + FreeDays, payment |-> 0]]
        BY <1>1, <2>2, JoinEffect
      <3>2. \A q \in PassIds : RunningElite(q)' => RunningElite(q) /\ pass'[q].expiresAt = pass[q].expiresAt
        BY <1>1, <3>1 DEF TypeOK, RunningElite
      <3> QED
        BY <1>2, <2>2, <3>2 DEF Join
    <2>3. ASSUME NEW i \in Posts, NEW c \in Collectives, CreatePayment(i, c)
          PROVE  BoughtGrows /\ \A q \in PassIds : DaysGranted(q)'
      <3>1. PICK p \in PassIds, k \in PaymentIds, status \in Open :
               /\ payment[k].status = "NONE"
               /\ payment' = [payment EXCEPT ![k] = [status |-> status, post |-> i, pass |-> p]]
               /\ \/ pass' = pass
                  \/ /\ pass[p].status = "NONE"
                     /\ pass' = [pass EXCEPT ![p] = [status |-> "PENDING", plan |-> "ELITE", post |-> i,
                                                     expiresAt |-> 0, payment |-> 0]]
        BY <1>1, <2>3, CreatePaymentEffect
      <3>2. \A q \in PassIds : RunningElite(q)' => RunningElite(q) /\ pass'[q].expiresAt = pass[q].expiresAt
        BY <1>1, <3>1 DEF TypeOK, RunningElite
      <3>3. \A j \in PaymentIds : WentThrough(j) => WentThrough(j)'
        BY <1>1, <3>1 DEF TypeOK, WentThrough
      <3>4. BoughtGrows
        BY <1>1, <2>3, <3>3, MoreIsBought DEF CreatePayment
      <3> QED
        BY <3>2, <3>4, NoElite
    <2>4. ASSUME NEW k \in PaymentIds, CheckoutFor(k)
          PROVE  BoughtGrows /\ \A q \in PassIds : DaysGranted(q)'
      <3>1. /\ \A j \in PaymentIds : WentThrough(j) => WentThrough(j)'
            /\ pass' = pass /\ now' = now
        BY <1>1, <2>4 DEF CheckoutFor, TypeOK, PaymentRow, WentThrough
      <3>2. BoughtGrows
        BY <1>1, <3>1, MoreIsBought
      <3> QED
        BY <3>1, <3>2, NoElite DEF RunningElite
    <2>5. ASSUME NEW k \in PaymentIds, CustomerPays(k)
          PROVE  BoughtGrows /\ \A q \in PassIds : DaysGranted(q)'
      BY <1>2, <2>5 DEF CustomerPays, RunningElite
    <2>6. ASSUME NEW k \in PaymentIds, Activate(k)
          PROVE  BoughtGrows /\ \A q \in PassIds : DaysGranted(q)'
      <3>1. \A j \in PaymentIds : WentThrough(j) => WentThrough(j)'
        <4>1. payment' = [payment EXCEPT ![k].status = "SUCCESS"]
          BY <2>6, Zenon DEF Activate
        <4>2. payment \in [PaymentIds -> PaymentRow]
          BY <1>1 DEF TypeOK
        <4> QED
          BY <4>1, <4>2 DEF PaymentRow, WentThrough
      <3>2. BoughtGrows
        BY <1>1, <2>6, <3>1, MoreIsBought DEF Activate
      <3> QED
        BY <2>6, <3>2, ActivateBuys
    <2>7. ASSUME NEW k \in PaymentIds, RefundMoney(k), now' = now
          PROVE  BoughtGrows /\ \A q \in PassIds : DaysGranted(q)'
      <3>1. \A j \in PaymentIds : WentThrough(j) => WentThrough(j)'
        BY <1>1, <2>7 DEF RefundMoney, TypeOK, PaymentRow, WentThrough
      <3>2. BoughtGrows
        BY <1>1, <2>7, <3>1, MoreIsBought
      <3> QED
        BY <2>7, <3>2, RefundBuysNothing
    <2>8. ASSUME NEW m \in MembershipIds, Leave(m)
          PROVE  BoughtGrows /\ \A q \in PassIds : DaysGranted(q)'
      <3>1. CASE \E k \in RefundedByLeaving(m) : RefundMoney(k)
        BY <2>7, <2>8, <3>1 DEF Leave, RefundedByLeaving
      <3>2. CASE UNCHANGED <<pass, payment, order>>
        BY <1>2, <2>8, <3>2 DEF Leave, RunningElite
      <3> QED
        BY <2>8, <3>1, <3>2 DEF Leave
    <2>9. ASSUME NEW p \in PassIds, ExpirePass(p)
          PROVE  BoughtGrows /\ \A q \in PassIds : DaysGranted(q)'
      <3>1. \A q \in PassIds : RunningElite(q)' => RunningElite(q) /\ pass'[q].expiresAt = pass[q].expiresAt
        BY <1>1, <2>9 DEF ExpirePass, RunningElite, TypeOK, PassRow
      <3> QED
        BY <1>2, <2>9, <3>1 DEF ExpirePass
    <2> QED
      BY <2>1, <2>2, <2>3, <2>4, <2>5, <2>6, <2>7, <2>8, <2>9, BackgroundCases DEF Refund
  <1>4. ASSUME NEW v \in Workers PROVE GrantOK(v)'
    <2>1. \A k \in PaymentIds : WentThrough(k)' => WentThrough(k) \/ PaymentLock(k) \notin LockedBy(v)
      BY <1>1 DEF Locked, WentThrough
    <2> QED
      BY <1>1, <1>3, <2>1, GrantStays DEF GrantInv
  <1> QED
    BY <1>3, <1>4 DEF GrantInv

LEMMA GrantStart == RacesInit => GrantInv
  <1> SUFFICES ASSUME RacesInit PROVE GrantInv
    OBVIOUS
  <1>1. \A p \in PassIds : ~RunningElite(p)
    BY DEF RacesInit, TablesInit, RunningElite
  <1>2. \A w \in Workers : req[w].step = "idle"
    BY IdleFields DEF RacesInit
  <1> QED
    BY <1>1, <1>2 DEF GrantInv, DaysGranted, GrantOK

LEMMA GrantSteps ==
    ASSUME Overlapping \cap {"PaymentFailed", "CreatePayment"} = {}, "PaymentFailed" \notin Background,
           RacesInv, RacesInv', PaidInv, GrantInv, [RacesNext]_vars
    PROVE  GrantInv'
  <1>1. ASSUME NEW w \in Workers, BeginRequest(w) PROVE GrantInv'
    BY <1>1, BeginsGrant
  <1>2. ASSUME NEW w \in Workers, Proceed(w) PROVE GrantInv'
    <2>1. ~WriteFailed(w) /\ ~InsertPayment(w) /\ ~AttachOrder(w)
      BY DEF PaidInv, LateSteps, WriteFailed, InsertPayment, AttachOrder, At
    <2> QED
      BY <1>2, <2>1, PlainStepsGrant, ReadPassGrants, WritePassGrants, GrantGrants, LockRefundGrants,
         RefundPassGrants, RefundMembersGrants, ExpireMembersGrants, WriteFreeGrants
         DEF Proceed, PlainSteps
  <1>3. ASSUME NEW w \in Workers, Crash(w) PROVE GrantInv'
    BY <1>3, PlainStepsGrant DEF PlainSteps
  <1>4. CASE UNCHANGED vars
    <2>1. BoughtGrows /\ req' = req /\ pass' = pass /\ payment' = payment
      BY <1>4, SameIsBought DEF vars, tables
    <2>2. \A q \in PassIds : DaysGranted(q)'
      BY <2>1, NoElite DEF RunningElite
    <2>3. \A v \in Workers : GrantOK(v)'
      BY <2>1, GrantStays DEF GrantInv, WentThrough
    <2> QED
      BY <2>2, <2>3 DEF GrantInv
  <1> QED
    BY <1>1, <1>2, <1>3, <1>4, BackgroundGrants DEF RacesNext

\* Whatever else overlaps, crashes included, an active Elite Pass runs no longer than EliteDays for
\* each payment that ever went through: of verification and webhook one does the activation, and an
\* end that was computed before other payments went through or were refunded is no later than all of
\* them bought. Left out is payment.failed, after which a refunded payment can be activated again,
\* and an overlapping create(), whose order is attached over whatever the payment has become.
THEOREM PaymentsGrantOnce ==
    ASSUME Overlapping \cap {"PaymentFailed", "CreatePayment"} = {}, "PaymentFailed" \notin Background
    PROVE  RacesSpec => []GrantedOnce
  <1>1. RacesInit => PaidInv /\ GrantInv
    BY PaidStart, GrantStart
  <1>2. RacesInv /\ RacesInv' /\ PaidInv /\ GrantInv /\ [RacesNext]_vars => PaidInv' /\ GrantInv'
    BY PaidSteps, GrantSteps
  <1>3. GrantInv => GrantedOnce
    BY DEF GrantInv, DaysGranted, RunningElite, Bought, GrantedOnce
  <1> QED
    BY <1>1, <1>2, <1>3, RacesInvHolds, PTL DEF RacesSpec

=============================================================================
