------------------------- MODULE Connections_proofs -------------------------
(***************************************************************************)
(* Proofs about Connections, for any people, plans and limits and any      *)
(* number of handlers under way.                                           *)
(***************************************************************************)
EXTENDS Connections, FiniteSetTheorems, TLAPS

\* The handlers that have found that u may accept one more (or be accepted), and
\* have not written it yet.
InFlight(u) ==
    {w \in Workers : \/ At(w, "checkRequester") /\ req[w].user = u
                     \/ At(w, "writeAccepted") /\ u \in req[w].pair}

\* A handler acts for one of the pair.
ActsForOneOfPair == \A w \in Workers : req[w] # Idle => req[w].user \in req[w].pair

\* What has been accepted and what is under way, together.
CountedWithInFlight ==
    \A u \in Users : plan[u] # "NONE" =>
        accepted[u] + Cardinality(InFlight(u)) <= AcceptedLimit[plan[u]] + Cardinality(Workers) - 1

IInv == TypeOK /\ ActsForOneOfPair /\ CountedWithInFlight

-----------------------------------------------------------------------------
(* Helpers. *)

LEMMA PairOfTwo ==
    ASSUME NEW pair \in Pairs, NEW u \in pair
    PROVE  /\ Other(u, pair) \in Users
           /\ \A v \in pair : v = u \/ v = Other(u, pair)
  <1>1. PICK a, b \in Users : a # b /\ pair = {a, b}
    BY PeopleAssumption
  <1>2. Other(u, pair) \in pair /\ Other(u, pair) # u
    <2>1. \E v \in pair : v # u
      BY <1>1
    <2> QED
      BY <2>1 DEF Other
  <1> QED
    BY <1>1, <1>2

LEMMA InFlightCount ==
    ASSUME NEW u \in Users
    PROVE  /\ IsFiniteSet(InFlight(u))
           /\ Cardinality(InFlight(u)) \in Nat
           /\ Cardinality(Workers) \in Nat
           /\ Cardinality(InFlight(u)) <= Cardinality(Workers)
  <1>1. InFlight(u) \subseteq Workers
    BY DEF InFlight
  <1> QED
    BY <1>1, WorkersAssumption, FS_Subset, FS_CardinalityType

LEMMA InFlightCountNext ==
    ASSUME NEW u \in Users
    PROVE  /\ IsFiniteSet(InFlight(u)')
           /\ Cardinality(InFlight(u)') \in Nat
           /\ Cardinality(InFlight(u)') <= Cardinality(Workers)
  <1>1. InFlight(u)' \subseteq Workers
    BY DEF InFlight
  <1> QED
    BY <1>1, WorkersAssumption, FS_Subset, FS_CardinalityType

\* A step under which nobody's acceptances, plan or handlers in flight grow.
LEMMA NobodyGrows ==
    ASSUME TypeOK, CountedWithInFlight, UNCHANGED <<accepted, plan>>,
           \A u \in Users : InFlight(u)' \subseteq InFlight(u)
    PROVE  CountedWithInFlight'
  <1> SUFFICES ASSUME NEW u \in Users, plan[u] # "NONE"
               PROVE  accepted[u] + Cardinality(InFlight(u)') <= AcceptedLimit[plan[u]] + Cardinality(Workers) - 1
    BY DEF CountedWithInFlight
  <1>1. Cardinality(InFlight(u)') <= Cardinality(InFlight(u))
    BY InFlightCount, FS_Subset
  <1>2. accepted[u] + Cardinality(InFlight(u)) <= AcceptedLimit[plan[u]] + Cardinality(Workers) - 1
    BY DEF CountedWithInFlight
  <1>3. accepted[u] \in Nat /\ AcceptedLimit[plan[u]] \in Nat
    BY LimitsAssumption DEF TypeOK
  <1> QED
    BY <1>1, <1>2, <1>3, InFlightCount, InFlightCountNext

\* A person who may accept has room for every handler there is.
LEMMA RoomForAll ==
    ASSUME TypeOK, NEW u \in Users, plan[u] # "NONE", accepted[u] < AcceptedLimit[plan[u]]
    PROVE  accepted[u] + Cardinality(InFlight(u)') <= AcceptedLimit[plan[u]] + Cardinality(Workers) - 1
  <1>1. accepted[u] \in Nat /\ AcceptedLimit[plan[u]] \in Nat
    BY LimitsAssumption DEF TypeOK
  <1> QED
    BY <1>1, InFlightCount, InFlightCountNext

-----------------------------------------------------------------------------
(* Type correctness. *)

LEMMA BeginTypeOK ==
    ASSUME TypeOK, NEW w \in Workers, NEW u \in Users, NEW pair \in Pairs, NEW step \in Steps,
           Begin(w, step, u, pair)
    PROVE  TypeOK'
  BY DEF Begin, TypeOK, people

LEMMA WriteTypeOK ==
    ASSUME TypeOK, NEW pair \in Pairs, NEW status, NEW by,
           [status |-> status, by |-> by] \in Row, Write(pair, status, by)
    PROVE  connection' \in [Pairs -> Row]
  BY DEF Write, TypeOK

LEMMA EndTypeOK ==
    ASSUME TypeOK, NEW w \in Workers, End(w)
    PROVE  req' \in [Workers -> {Idle} \cup [step : Steps, user : Users, pair : Pairs]]
  BY DEF End, TypeOK

LEMMA StepsAreBusy ==
    ASSUME TypeOK, NEW w \in Workers, req[w].step # "idle"
    PROVE  req[w] \in [step : Steps, user : Users, pair : Pairs] /\ req[w] # Idle
  BY DEF TypeOK, Idle

LEMMA ProceedTypeOK ==
    ASSUME TypeOK, NEW w \in Workers, Proceed(w)
    PROVE  TypeOK'
  <1>1. req[w] \in [step : Steps, user : Users, pair : Pairs]
    BY StepsAreBusy DEF Proceed, CreateRequest, RenewRequest, CheckRequester, WriteAccepted,
                        WriteRejected, WriteCancelled, WriteUnblocked, At
  <1>2. req[w].pair \in Pairs /\ req[w].user \in Users
    BY <1>1
  <1>3. CASE CreateRequest(w)
    BY <1>2, <1>3, WriteTypeOK, EndTypeOK DEF CreateRequest, Row, Asked, TypeOK, people
  <1>4. CASE RenewRequest(w)
    BY <1>2, <1>4, WriteTypeOK, EndTypeOK DEF RenewRequest, Row, Asked, TypeOK, people
  <1>5. CASE CheckRequester(w)
    <2>1. [req[w] EXCEPT !.step = "writeAccepted"] \in [step : Steps, user : Users, pair : Pairs]
      BY <1>1 DEF Steps
    <2> QED
      BY <1>1, <1>5, <2>1, EndTypeOK DEF CheckRequester, TypeOK, people
  <1>6. CASE WriteAccepted(w)
    <2>1. accepted' \in [Users -> Nat]
      BY <1>6 DEF WriteAccepted, TypeOK
    <2> QED
      BY <1>2, <1>6, <2>1, WriteTypeOK, EndTypeOK DEF WriteAccepted, Row, Settled, TypeOK, people
  <1>7. CASE WriteRejected(w)
    BY <1>2, <1>7, WriteTypeOK, EndTypeOK DEF WriteRejected, Row, Settled, TypeOK, people
  <1>8. CASE WriteCancelled(w)
    BY <1>2, <1>8, WriteTypeOK, EndTypeOK DEF WriteCancelled, Row, Settled, TypeOK, people
  <1>9. CASE WriteUnblocked(w)
    BY <1>2, <1>9, WriteTypeOK, EndTypeOK DEF WriteUnblocked, Row, Settled, TypeOK, people
  <1> QED
    BY <1>3, <1>4, <1>5, <1>6, <1>7, <1>8, <1>9 DEF Proceed

LEMMA HandlerTypeOK ==
    ASSUME TypeOK, NEW w \in Workers, BeginHandler(w)
    PROVE  TypeOK'
  <1>1. PICK pair \in Pairs, u \in Users :
            \/ BeginRequest(w, u, pair) \/ BeginAccept(w, u, pair) \/ BeginReject(w, u, pair)
            \/ BeginCancel(w, u, pair) \/ BeginUnblock(w, u, pair)
    BY DEF BeginHandler
  <1>2. \E step \in Steps : Begin(w, step, u, pair)
    BY <1>1 DEF BeginRequest, BeginAccept, BeginReject, BeginCancel, BeginUnblock, Steps
  <1> QED
    BY <1>2, BeginTypeOK

LEMMA PersonTypeOK ==
    ASSUME TypeOK, NEW u \in Users,
           (\E p \in Plans : StartPass(u, p)) \/ PassRunsOut(u) \/ LeaveAll(u) \/ RejoinOnElite(u)
    PROVE  TypeOK'
  <1>1. CASE \E p \in Plans : StartPass(u, p)
    <2>1. PICK p \in Plans : StartPass(u, p)
      BY <1>1
    <2>2. /\ plan' \in [Users -> Plans \cup {"NONE"}]
          /\ joined' \in [Users -> BOOLEAN]
      BY <2>1 DEF TypeOK, StartPass
    <2>3. /\ accepted' \in [Users -> Nat]
          /\ passes' \in [Users -> Nat]
      BY <2>1 DEF TypeOK, StartPass
    <2> QED
      BY <2>1, <2>2, <2>3 DEF TypeOK, StartPass
  <1>2. CASE PassRunsOut(u)
    BY <1>2 DEF TypeOK, PassRunsOut
  <1>3. CASE LeaveAll(u)
    BY <1>3 DEF TypeOK, LeaveAll
  <1>4. CASE RejoinOnElite(u)
    BY <1>4 DEF TypeOK, RejoinOnElite
  <1> QED
    BY <1>1, <1>2, <1>3, <1>4

LEMMA BlockTypeOK ==
    ASSUME TypeOK, NEW pair \in Pairs, NEW u \in Users, Block(u, pair)
    PROVE  TypeOK'
  BY WriteTypeOK DEF Block, Row, Asked, TypeOK, people

LEMMA StepTypeOK == TypeOK /\ [Next]_vars => TypeOK'
  <1> SUFFICES ASSUME TypeOK, [Next]_vars PROVE TypeOK'
    OBVIOUS
  <1>1. CASE \E w \in Workers : BeginHandler(w) \/ Proceed(w) \/ Crash(w)
    <2>1. PICK w \in Workers : BeginHandler(w) \/ Proceed(w) \/ Crash(w)
      BY <1>1
    <2>2. CASE Crash(w)
      BY <2>2, EndTypeOK DEF Crash, TypeOK, people
    <2> QED
      BY <2>1, <2>2, HandlerTypeOK, ProceedTypeOK
  <1>2. CASE \E pair \in Pairs, u \in Users : Block(u, pair)
    BY <1>2, BlockTypeOK
  <1>3. CASE \E u \in Users : \/ \E p \in Plans : StartPass(u, p)
                              \/ PassRunsOut(u) \/ LeaveAll(u) \/ RejoinOnElite(u)
    BY <1>3, PersonTypeOK
  <1>4. CASE UNCHANGED vars
    BY <1>4 DEF vars, people, TypeOK
  <1> QED
    BY <1>1, <1>2, <1>3, <1>4 DEF Next

-----------------------------------------------------------------------------
(* A handler acts for one of its pair. *)

LEMMA StepActs ==
    ASSUME TypeOK, ActsForOneOfPair, [Next]_vars
    PROVE  ActsForOneOfPair'
  <1>1. ASSUME NEW w \in Workers, End(w)
        PROVE  ActsForOneOfPair'
    BY <1>1 DEF End, ActsForOneOfPair, TypeOK
  <1>2. CASE \E w \in Workers : BeginHandler(w)
    <2>1. PICK w \in Workers, pair \in Pairs, u \in Users : \E step \in Steps : Begin(w, step, u, pair)
      BY <1>2 DEF BeginHandler, BeginRequest, BeginAccept, BeginReject, BeginCancel, BeginUnblock, Steps
    <2>2. PICK step \in Steps : Begin(w, step, u, pair)
      BY <2>1
    <2>3. u \in pair /\ req' = [req EXCEPT ![w] = [step |-> step, user |-> u, pair |-> pair]]
      BY <2>2 DEF Begin
    <2> QED
      BY <2>3 DEF ActsForOneOfPair, TypeOK
  <1>3. CASE \E w \in Workers : Proceed(w)
    <2>1. PICK w \in Workers : Proceed(w)
      BY <1>3
    <2>2. CASE CheckRequester(w) /\ ~End(w)
      <3>1. req' = [req EXCEPT ![w].step = "writeAccepted"] /\ req[w] # Idle
        BY <2>2 DEF CheckRequester, At, Idle
      <3> QED
        BY <3>1 DEF ActsForOneOfPair, TypeOK
    <2>3. CASE End(w)
      BY <1>1, <2>3
    <2> QED
      BY <2>1, <2>2, <2>3 DEF Proceed, CreateRequest, RenewRequest, WriteAccepted, WriteRejected,
                              WriteCancelled, WriteUnblocked
  <1>4. CASE \E w \in Workers : Crash(w)
    BY <1>1, <1>4 DEF Crash
  <1>5. CASE UNCHANGED req
    BY <1>5 DEF ActsForOneOfPair
  <1> QED
    BY <1>2, <1>3, <1>4, <1>5 DEF Next, vars, Block, StartPass, PassRunsOut, LeaveAll, RejoinOnElite

-----------------------------------------------------------------------------
(* The limit. *)

LEMMA BeginCounted ==
    ASSUME IInv, NEW w \in Workers, BeginHandler(w)
    PROVE  CountedWithInFlight'
  <1>1. PICK pair \in Pairs, u \in Users :
            \/ BeginRequest(w, u, pair) \/ BeginAccept(w, u, pair) \/ BeginReject(w, u, pair)
            \/ BeginCancel(w, u, pair) \/ BeginUnblock(w, u, pair)
    BY DEF BeginHandler
  <1>2. CASE BeginAccept(w, u, pair)
    <2>1. /\ req' = [req EXCEPT ![w] = [step |-> "checkRequester", user |-> u, pair |-> pair]]
          /\ MayAccept(u) /\ UNCHANGED <<accepted, plan>>
      BY <1>2 DEF BeginAccept, Begin, people
    <2> SUFFICES ASSUME NEW v \in Users, plan[v] # "NONE"
                 PROVE  accepted[v] + Cardinality(InFlight(v)')
                          <= AcceptedLimit[plan[v]] + Cardinality(Workers) - 1
      BY <2>1 DEF CountedWithInFlight
    <2>2. CASE v = u
      BY <2>1, <2>2, RoomForAll DEF IInv, MayAccept
    <2>3. CASE v # u
      <3>1. InFlight(v)' \subseteq InFlight(v)
        BY <2>1, <2>3 DEF InFlight, At, IInv, TypeOK
      <3>2. Cardinality(InFlight(v)') <= Cardinality(InFlight(v))
        BY <3>1, InFlightCount, FS_Subset
      <3>3. accepted[v] + Cardinality(InFlight(v)) <= AcceptedLimit[plan[v]] + Cardinality(Workers) - 1
        BY DEF IInv, CountedWithInFlight
      <3>4. accepted[v] \in Nat /\ AcceptedLimit[plan[v]] \in Nat
        BY LimitsAssumption DEF IInv, TypeOK
      <3> QED
        BY <3>2, <3>3, <3>4, InFlightCount, InFlightCountNext
    <2> QED
      BY <2>2, <2>3
  <1>3. CASE ~BeginAccept(w, u, pair)
    <2>1. PICK step \in Steps \ {"checkRequester", "writeAccepted"} : Begin(w, step, u, pair)
      BY <1>1, <1>3 DEF BeginRequest, BeginReject, BeginCancel, BeginUnblock, Steps
    <2>2. \A v \in Users : InFlight(v)' \subseteq InFlight(v)
      BY <2>1 DEF Begin, InFlight, At, IInv, TypeOK
    <2> QED
      BY <2>1, <2>2, NobodyGrows DEF IInv, Begin, people
  <1> QED
    BY <1>2, <1>3

\* Ending a handler takes it out of flight.
LEMMA EndLeavesFlight ==
    ASSUME TypeOK, NEW w \in Workers, End(w), NEW u \in Users
    PROVE  InFlight(u)' = InFlight(u) \ {w}
  BY DEF End, InFlight, At, Idle, TypeOK

LEMMA CheckCounted ==
    ASSUME IInv, NEW w \in Workers, CheckRequester(w)
    PROVE  CountedWithInFlight'
  <1>1. UNCHANGED <<accepted, plan>>
    BY DEF CheckRequester, people
  <1>2. CASE End(w)
    BY <1>1, <1>2, EndLeavesFlight, NobodyGrows DEF IInv
  <1>3. CASE ~End(w)
    <2> DEFINE u == req[w].user
               pair == req[w].pair
               o == Other(u, pair)
    <2>1. /\ req[w] \in [step : Steps, user : Users, pair : Pairs]
          /\ req[w] # Idle
      BY StepsAreBusy DEF CheckRequester, At, IInv
    <2>2. u \in pair /\ pair \in Pairs /\ u \in Users
      BY <2>1 DEF IInv, ActsForOneOfPair
    <2>3. req' = [req EXCEPT ![w].step = "writeAccepted"] /\ MayAccept(o) /\ At(w, "checkRequester")
      BY <1>3 DEF CheckRequester
    <2> SUFFICES ASSUME NEW v \in Users, plan[v] # "NONE"
                 PROVE  accepted[v] + Cardinality(InFlight(v)')
                          <= AcceptedLimit[plan[v]] + Cardinality(Workers) - 1
      BY <1>1 DEF CountedWithInFlight
    <2>4. CASE v = o
      BY <2>3, <2>4, RoomForAll DEF IInv, MayAccept
    <2>5. CASE v # o
      <3>1. v \in pair => v = u
        BY <2>2, <2>5, PairOfTwo
      <3>2. InFlight(v)' \subseteq InFlight(v)
        BY <2>1, <2>3, <3>1 DEF InFlight, At, IInv, TypeOK
      <3>3. Cardinality(InFlight(v)') <= Cardinality(InFlight(v))
        BY <3>2, InFlightCount, FS_Subset
      <3>4. accepted[v] + Cardinality(InFlight(v)) <= AcceptedLimit[plan[v]] + Cardinality(Workers) - 1
        BY DEF IInv, CountedWithInFlight
      <3>5. accepted[v] \in Nat /\ AcceptedLimit[plan[v]] \in Nat
        BY LimitsAssumption DEF IInv, TypeOK
      <3> QED
        BY <3>3, <3>4, <3>5, InFlightCount, InFlightCountNext
    <2> QED
      BY <2>4, <2>5
  <1> QED
    BY <1>2, <1>3

LEMMA AcceptedCounted ==
    ASSUME IInv, NEW w \in Workers, WriteAccepted(w)
    PROVE  CountedWithInFlight'
  <1>1. End(w) /\ At(w, "writeAccepted") /\ UNCHANGED plan
    BY DEF WriteAccepted, people
  <1> SUFFICES ASSUME NEW v \in Users, plan[v] # "NONE"
               PROVE  accepted'[v] + Cardinality(InFlight(v)')
                        <= AcceptedLimit[plan[v]] + Cardinality(Workers) - 1
    BY <1>1 DEF CountedWithInFlight
  <1>2. accepted[v] + Cardinality(InFlight(v)) <= AcceptedLimit[plan[v]] + Cardinality(Workers) - 1
    BY DEF IInv, CountedWithInFlight
  <1>3. accepted[v] \in Nat /\ AcceptedLimit[plan[v]] \in Nat
    BY LimitsAssumption DEF IInv, TypeOK
  <1>4. InFlight(v)' = InFlight(v) \ {w}
    BY <1>1, EndLeavesFlight DEF IInv
  <1>5. CASE v \in req[w].pair
    <2>1. accepted'[v] = accepted[v] + 1
      BY <1>5 DEF WriteAccepted
    <2>2. w \in InFlight(v)
      BY <1>1, <1>5 DEF InFlight
    <2>3. Cardinality(InFlight(v)') = Cardinality(InFlight(v)) - 1
      BY <1>4, <2>2, InFlightCount, FS_RemoveElement
    <2> QED
      BY <1>2, <1>3, <2>1, <2>3, InFlightCount
  <1>6. CASE v \notin req[w].pair
    <2>1. accepted'[v] = accepted[v]
      BY <1>6 DEF WriteAccepted
    <2>2. Cardinality(InFlight(v)') <= Cardinality(InFlight(v))
      BY <1>4, InFlightCount, FS_Subset
    <2> QED
      BY <1>2, <1>3, <2>1, <2>2, InFlightCount, InFlightCountNext
  <1> QED
    BY <1>5, <1>6

LEMMA PersonCounted ==
    ASSUME IInv, NEW u \in Users,
           (\E p \in Plans : StartPass(u, p)) \/ PassRunsOut(u) \/ LeaveAll(u) \/ RejoinOnElite(u)
    PROVE  CountedWithInFlight'
  <1>1. \A v \in Users : InFlight(v)' = InFlight(v)
    BY DEF StartPass, PassRunsOut, LeaveAll, RejoinOnElite, InFlight, At
  <1>2. CASE LeaveAll(u) \/ RejoinOnElite(u)
    BY <1>1, <1>2, NobodyGrows DEF LeaveAll, RejoinOnElite, IInv
  <1>3. CASE PassRunsOut(u) \/ \E p \in Plans : StartPass(u, p)
    <2> SUFFICES ASSUME NEW v \in Users, plan'[v] # "NONE"
                 PROVE  accepted'[v] + Cardinality(InFlight(v)')
                          <= AcceptedLimit[plan'[v]] + Cardinality(Workers) - 1
      BY DEF CountedWithInFlight
    <2>1. CASE v = u
      <3>1. accepted'[v] = 0 /\ plan'[v] \in Plans
        BY <1>3, <2>1 DEF StartPass, PassRunsOut, IInv, TypeOK
      <3>2. AcceptedLimit[plan'[v]] \in Nat \ {0}
        BY <3>1, LimitsAssumption
      <3> QED
        BY <3>1, <3>2, InFlightCount, InFlightCountNext
    <2>2. CASE v # u
      <3>1. accepted'[v] = accepted[v] /\ plan'[v] = plan[v]
        BY <1>3, <2>2 DEF StartPass, PassRunsOut, IInv, TypeOK
      <3> QED
        BY <1>1, <3>1 DEF IInv, CountedWithInFlight
    <2> QED
      BY <2>1, <2>2
  <1> QED
    BY <1>2, <1>3

LEMMA InitIInv == Init => IInv
  <1> SUFFICES ASSUME Init PROVE IInv
    OBVIOUS
  <1>1. TypeOK
    BY PassesAssumption DEF Init, TypeOK, Row, Settled
  <1>2. ActsForOneOfPair
    BY DEF Init, ActsForOneOfPair
  <1>3. CountedWithInFlight
    <2> SUFFICES ASSUME NEW u \in Users, plan[u] # "NONE"
                 PROVE  accepted[u] + Cardinality(InFlight(u))
                          <= AcceptedLimit[plan[u]] + Cardinality(Workers) - 1
      BY DEF CountedWithInFlight
    <2>1. accepted[u] = 0 /\ AcceptedLimit[plan[u]] \in Nat \ {0}
      BY PassesAssumption, LimitsAssumption DEF Init
    <2> QED
      BY <2>1, InFlightCount
  <1> QED
    BY <1>1, <1>2, <1>3 DEF IInv

LEMMA StepIInv == IInv /\ [Next]_vars => IInv'
  <1> SUFFICES ASSUME IInv, [Next]_vars PROVE IInv'
    OBVIOUS
  <1>1. TypeOK' /\ ActsForOneOfPair'
    BY StepTypeOK, StepActs DEF IInv
  <1>2. CountedWithInFlight'
    <2>1. ASSUME NEW w \in Workers, End(w), UNCHANGED <<accepted, plan>>
          PROVE  CountedWithInFlight'
      BY <2>1, EndLeavesFlight, NobodyGrows DEF IInv
    <2>2. CASE \E w \in Workers : BeginHandler(w)
      BY <2>2, BeginCounted
    <2>3. CASE \E w \in Workers : Proceed(w)
      BY <2>1, <2>3, CheckCounted, AcceptedCounted
         DEF Proceed, CreateRequest, RenewRequest, WriteRejected, WriteCancelled, WriteUnblocked, people
    <2>4. CASE \E w \in Workers : Crash(w)
      BY <2>1, <2>4 DEF Crash, people
    <2>5. CASE UNCHANGED <<accepted, plan, req>>
      <3>1. \A u \in Users : InFlight(u)' \subseteq InFlight(u)
        BY <2>5 DEF InFlight, At
      <3> QED
        BY <2>5, <3>1, NobodyGrows DEF IInv
    <2>6. CASE \E u \in Users : \/ \E p \in Plans : StartPass(u, p)
                                \/ PassRunsOut(u) \/ LeaveAll(u) \/ RejoinOnElite(u)
      BY <2>6, PersonCounted
    <2> QED
      BY <2>2, <2>3, <2>4, <2>5, <2>6 DEF Next, vars, people, Block
  <1> QED
    BY <1>1, <1>2 DEF IInv

-----------------------------------------------------------------------------
(* Every reachable state is well typed: ConnectionsService keeps in a row *)
(* who asked or blocked exactly while that matters.                        *)
THEOREM ConnectionsTypeCorrect == Spec => []TypeOK
  <1>1. IInv => TypeOK
    BY DEF IInv
  <1> QED
    BY InitIInv, StepIInv, <1>1, PTL DEF Spec

(* Whatever limits, people and number of overlapping handlers: between    *)
(* assertCanAccept() and recordAcceptance() nobody gets further past the  *)
(* limit of accepted connections than the other handlers under way.        *)
THEOREM AcceptedStaysWithinLimit == Spec => []AcceptedWithinLimit
  <1>1. IInv => AcceptedWithinLimit
    <2> SUFFICES ASSUME IInv, NEW u \in Users, plan[u] # "NONE"
                 PROVE  accepted[u] <= AcceptedLimit[plan[u]] + Cardinality(Workers) - 1
      BY DEF AcceptedWithinLimit
    <2>1. accepted[u] + Cardinality(InFlight(u)) <= AcceptedLimit[plan[u]] + Cardinality(Workers) - 1
      BY DEF IInv, CountedWithInFlight
    <2>2. accepted[u] \in Nat /\ AcceptedLimit[plan[u]] \in Nat
      BY LimitsAssumption DEF IInv, TypeOK
    <2> QED
      BY <2>1, <2>2, InFlightCount
  <1> QED
    BY InitIInv, StepIInv, <1>1, PTL DEF Spec

-----------------------------------------------------------------------------
(* The open connections.  What is open for a person and what a handler may *)
(* still open for them are pairs, and a pair counts once, however often it *)
(* is cancelled and written again.                                         *)

MayStillOpen(w, u) ==
    \/ req[w].step \in {"createRequest", "renewRequest"} /\ req[w].user = u
    \/ req[w].step \in {"checkRequester", "writeAccepted"} /\ u \in req[w].pair

OpenOrInFlight(u) == Open(u) \cup {req[w].pair : w \in {x \in Workers : MayStillOpen(x, u)}}

\* Who asked or blocked is one of the pair.
AskerIsOfPair == \A pair \in Pairs : Status(pair) \in Asked => By(pair) \in pair

OpenCounted ==
    \A u \in Users :
        Cardinality(OpenOrInFlight(u)) <= OpenLimit["ELITE"] + Cardinality(Workers) - 1

OInv == TypeOK /\ ActsForOneOfPair /\ AskerIsOfPair /\ OpenCounted

LEMMA StepAsker ==
    ASSUME TypeOK, ActsForOneOfPair, AskerIsOfPair, [Next]_vars
    PROVE  AskerIsOfPair'
  <1>1. ASSUME NEW pair \in Pairs, NEW status, NEW by, Write(pair, status, by),
               status \in Asked => by \in pair
        PROVE  AskerIsOfPair'
    BY <1>1 DEF Write, AskerIsOfPair, Status, By, TypeOK
  <1>2. CASE UNCHANGED connection
    BY <1>2 DEF AskerIsOfPair, Status, By
  <1>3. CASE \E w \in Workers : Proceed(w)
    <2>1. PICK w \in Workers : Proceed(w)
      BY <1>3
    <2>2. /\ req[w] \in [step : Steps, user : Users, pair : Pairs]
          /\ req[w] # Idle
      BY <2>1, StepsAreBusy
         DEF Proceed, CreateRequest, RenewRequest, CheckRequester, WriteAccepted, WriteRejected,
             WriteCancelled, WriteUnblocked, At
    <2>3. req[w].pair \in Pairs /\ req[w].user \in req[w].pair
      BY <2>2 DEF ActsForOneOfPair
    <2> QED
      BY <1>1, <1>2, <2>1, <2>3
         DEF Proceed, CreateRequest, RenewRequest, CheckRequester, WriteAccepted, WriteRejected,
             WriteCancelled, WriteUnblocked, Asked
  <1>4. CASE \E pair \in Pairs, u \in Users : Block(u, pair)
    BY <1>1, <1>4 DEF Block
  <1>5. CASE \E w \in Workers : BeginHandler(w)
    BY <1>2, <1>5 DEF BeginHandler, BeginRequest, BeginAccept, BeginReject, BeginCancel,
                      BeginUnblock, Begin
  <1> QED
    BY <1>2, <1>3, <1>4, <1>5 DEF Next, vars, Crash, StartPass, PassRunsOut, LeaveAll, RejoinOnElite

LEMMA OpenIsFinite ==
    ASSUME NEW u \in Users
    PROVE  /\ IsFiniteSet(Open(u)) /\ IsFiniteSet(Open(u)')
           /\ Cardinality(Open(u)) \in Nat /\ Cardinality(Open(u)') \in Nat
  <1>1. Open(u) \subseteq Pairs /\ Open(u)' \subseteq Pairs
    BY DEF Open
  <1> QED
    BY <1>1, PeopleAssumption, FS_Subset, FS_CardinalityType

LEMMA FlightIsFinite ==
    ASSUME NEW S, S \subseteq Workers, NEW f
    PROVE  /\ IsFiniteSet({f[w].pair : w \in S})
           /\ Cardinality({f[w].pair : w \in S}) \in Nat
           /\ Cardinality({f[w].pair : w \in S}) <= Cardinality(Workers)
           /\ Cardinality(Workers) \in Nat
  <1> DEFINE g == [w \in S |-> f[w].pair]
             T == {f[w].pair : w \in S}
  <1>1. IsFiniteSet(S) /\ Cardinality(S) <= Cardinality(Workers)
    BY WorkersAssumption, FS_Subset
  <1>2. g \in Surjection(S, T)
    BY DEF Surjection
  <1>3. IsFiniteSet(T) /\ Cardinality(T) <= Cardinality(S)
    <2> HIDE DEF g, T
    <2> QED
      BY <1>1, <1>2, FS_Surjection
  <1>4. Cardinality(T) \in Nat /\ Cardinality(S) \in Nat /\ Cardinality(Workers) \in Nat
    BY <1>1, <1>3, WorkersAssumption, FS_CardinalityType
  <1> QED
    BY <1>1, <1>3, <1>4

LEMMA OpenOrInFlightIsFinite ==
    ASSUME NEW u \in Users
    PROVE  /\ IsFiniteSet(OpenOrInFlight(u))
           /\ Cardinality(OpenOrInFlight(u)) \in Nat
           /\ IsFiniteSet(OpenOrInFlight(u)')
           /\ Cardinality(OpenOrInFlight(u)') \in Nat
  <1>1. IsFiniteSet(OpenOrInFlight(u))
    BY OpenIsFinite, FlightIsFinite, FS_Union DEF OpenOrInFlight
  <1>2. IsFiniteSet(OpenOrInFlight(u)')
    BY OpenIsFinite, FlightIsFinite, FS_Union DEF OpenOrInFlight
  <1> QED
    BY <1>1, <1>2, FS_CardinalityType

\* A step after which a person has no pair open or in flight that was not before.
LEMMA NoNewPair ==
    ASSUME OpenCounted, NEW u \in Users, OpenOrInFlight(u)' \subseteq OpenOrInFlight(u)
    PROVE  Cardinality(OpenOrInFlight(u)') <= OpenLimit["ELITE"] + Cardinality(Workers) - 1
  <1>1. Cardinality(OpenOrInFlight(u)') <= Cardinality(OpenOrInFlight(u))
    BY OpenOrInFlightIsFinite, FS_Subset
  <1>2. Cardinality(OpenOrInFlight(u)) <= OpenLimit["ELITE"] + Cardinality(Workers) - 1
    BY DEF OpenCounted
  <1>3. OpenLimit["ELITE"] \in Nat /\ Cardinality(Workers) \in Nat
    BY LimitsAssumption, WorkersAssumption, FS_CardinalityType DEF Plans
  <1> QED
    BY <1>1, <1>2, <1>3, OpenOrInFlightIsFinite

LEMMA UnionIsNoLarger ==
    ASSUME NEW S, NEW T, IsFiniteSet(S), IsFiniteSet(T)
    PROVE  Cardinality(S \cup T) <= Cardinality(S) + Cardinality(T)
  <1>1. Cardinality(S \cup T) = Cardinality(S) + Cardinality(T) - Cardinality(S \cap T)
    BY FS_Union
  <1>2. IsFiniteSet(S \cap T)
    BY FS_Subset
  <1>3. /\ Cardinality(S) \in Nat /\ Cardinality(T) \in Nat
        /\ Cardinality(S \cap T) \in Nat
    BY <1>2, FS_CardinalityType
  <1> QED
    BY <1>1, <1>3

\* Whoever may open one more has room for every handler there is.
LEMMA RoomToOpen ==
    ASSUME TypeOK, NEW u \in Users, MayOpen(u), Open(u)' = Open(u)
    PROVE  Cardinality(OpenOrInFlight(u)') <= OpenLimit["ELITE"] + Cardinality(Workers) - 1
  <1> DEFINE F == {req'[w].pair : w \in {x \in Workers : MayStillOpen(x, u)'}}
             L == OpenLimit[IF plan[u] = "NONE" THEN "FREE" ELSE plan[u]]
  <1>1. Cardinality(Open(u)) < L
    BY DEF MayOpen
  <1>2. L \in Nat /\ OpenLimit["ELITE"] \in Nat /\ L <= OpenLimit["ELITE"]
    BY LimitsAssumption DEF TypeOK, Plans
  <1>3. /\ IsFiniteSet(F) /\ Cardinality(F) \in Nat
        /\ Cardinality(F) <= Cardinality(Workers) /\ Cardinality(Workers) \in Nat
    BY FlightIsFinite
  <1>4. OpenOrInFlight(u)' = Open(u) \cup F
    BY DEF OpenOrInFlight
  <1>5. Cardinality(Open(u) \cup F) <= Cardinality(Open(u)) + Cardinality(F)
    <2> HIDE DEF F
    <2> QED
      BY <1>3, OpenIsFinite, UnionIsNoLarger
  <1>6. Cardinality(OpenOrInFlight(u)') \in Nat /\ Cardinality(Open(u)) \in Nat
    BY OpenIsFinite, OpenOrInFlightIsFinite
  <1> QED
    BY <1>1, <1>2, <1>3, <1>4, <1>5, <1>6

LEMMA BeginOpenCounted ==
    ASSUME OInv, NEW w \in Workers, BeginHandler(w)
    PROVE  OpenCounted'
  <1>1. PICK pair \in Pairs, u \in Users :
            \/ BeginRequest(w, u, pair) \/ BeginAccept(w, u, pair) \/ BeginReject(w, u, pair)
            \/ BeginCancel(w, u, pair) \/ BeginUnblock(w, u, pair)
    BY DEF BeginHandler
  <1>2. PICK step \in Steps : Begin(w, step, u, pair)
    BY <1>1 DEF BeginRequest, BeginAccept, BeginReject, BeginCancel, BeginUnblock, Steps
  <1>3. /\ req' = [req EXCEPT ![w] = [step |-> step, user |-> u, pair |-> pair]]
        /\ req[w] = Idle /\ u \in pair /\ UNCHANGED connection
    BY <1>2 DEF Begin
  <1>4. \A v \in Users : Open(v)' = Open(v)
    BY <1>3 DEF Open, Status, By
  <1> SUFFICES ASSUME NEW v \in Users
               PROVE  Cardinality(OpenOrInFlight(v)') <= OpenLimit["ELITE"] + Cardinality(Workers) - 1
    BY DEF OpenCounted
  <1>5. req'[w] = [step |-> step, user |-> u, pair |-> pair]
    BY <1>3 DEF OInv, TypeOK
  <1>6. \A x \in Workers \ {w} : req'[x] = req[x]
    BY <1>3 DEF OInv, TypeOK
  <1>7. CASE v = u /\ MayOpen(u)
    BY <1>4, <1>7, RoomToOpen DEF OInv
  <1>8. CASE ~(v = u /\ MayOpen(u))
    <2>1. MayStillOpen(w, v)' => pair \in Open(v)
      <3>1. ASSUME BeginAccept(w, u, pair), MayStillOpen(w, v)'
            PROVE  pair \in Open(v)
        <4>1. v # u
          BY <1>8, <3>1 DEF BeginAccept
        <4>2. req'[w].step = "checkRequester"
          BY <3>1, <1>5 DEF BeginAccept, Begin, OInv, TypeOK
        <4>3. v \in pair
          BY <1>5, <3>1, <4>2 DEF MayStillOpen
        <4>4. By(pair) \in pair /\ By(pair) # u /\ Status(pair) = "PENDING"
          BY <3>1 DEF BeginAccept, OInv, AskerIsOfPair, Asked
        <4>5. By(pair) = v
          BY <1>3, <4>1, <4>3, <4>4, PairOfTwo
        <4> QED
          BY <4>3, <4>4, <4>5 DEF Open
      <3>2. ASSUME BeginRequest(w, u, pair)
            PROVE  ~MayStillOpen(w, v)'
        <4>1. req'[w].step \in {"createRequest", "renewRequest"} /\ MayOpen(u)
          BY <3>2, <1>5 DEF BeginRequest, Begin, OInv, TypeOK
        <4> QED
          BY <1>5, <1>8, <4>1 DEF MayStillOpen
      <3>3. ASSUME BeginReject(w, u, pair) \/ BeginCancel(w, u, pair) \/ BeginUnblock(w, u, pair)
            PROVE  ~MayStillOpen(w, v)'
        <4>1. req'[w].step \in {"writeRejected", "writeCancelled", "writeUnblocked"}
          BY <3>3 DEF BeginReject, BeginCancel, BeginUnblock, Begin, OInv, TypeOK
        <4> QED
          BY <4>1 DEF MayStillOpen
      <3> QED
        BY <1>1, <3>1, <3>2, <3>3
    <2>2. OpenOrInFlight(v)' \subseteq OpenOrInFlight(v)
      <3> SUFFICES ASSUME NEW x \in Workers, MayStillOpen(x, v)'
                   PROVE  req'[x].pair \in OpenOrInFlight(v)
        BY <1>4 DEF OpenOrInFlight
      <3>1. CASE x = w
        BY <1>5, <2>1, <3>1 DEF OpenOrInFlight
      <3>2. CASE x # w
        BY <1>6, <3>2 DEF OpenOrInFlight, MayStillOpen
      <3> QED
        BY <3>1, <3>2
    <2> QED
      BY <2>2, NoNewPair DEF OInv
  <1> QED
    BY <1>7, <1>8

\* A handler that goes on opens only what it was counted for.
LEMMA ProceedOpenCounted ==
    ASSUME OInv, NEW w \in Workers, Proceed(w), NEW u \in Users
    PROVE  OpenOrInFlight(u)' \subseteq OpenOrInFlight(u)
  <1> DEFINE pair == req[w].pair
  <1>1. req[w] \in [step : Steps, user : Users, pair : Pairs] /\ req[w] # Idle
    BY StepsAreBusy DEF OInv, Proceed, CreateRequest, RenewRequest, CheckRequester, WriteAccepted,
                        WriteRejected, WriteCancelled, WriteUnblocked, At
  <1>2. pair \in Pairs /\ req[w].user \in Users
    BY <1>1
  <1>3. \A x \in Workers \ {w} : req'[x] = req[x]
    BY DEF OInv, TypeOK, Proceed, CreateRequest, RenewRequest, CheckRequester, WriteAccepted,
           WriteRejected, WriteCancelled, WriteUnblocked, End
  <1>4. ASSUME MayStillOpen(w, u)'
        PROVE  MayStillOpen(w, u) /\ req'[w].pair = pair
    <2>1. ~End(w)
      BY <1>4 DEF End, Idle, MayStillOpen, OInv, TypeOK
    <2>2. req' = [req EXCEPT ![w].step = "writeAccepted"] /\ At(w, "checkRequester")
      BY <2>1 DEF Proceed, CreateRequest, RenewRequest, CheckRequester, WriteAccepted,
                  WriteRejected, WriteCancelled, WriteUnblocked
    <2>3. req'[w] = [req[w] EXCEPT !.step = "writeAccepted"]
      BY <2>2 DEF OInv, TypeOK
    <2> QED
      BY <1>1, <1>4, <2>2, <2>3 DEF MayStillOpen, At
  <1>5. \A x \in Workers : MayStillOpen(x, u)' => MayStillOpen(x, u) /\ req'[x].pair = req[x].pair
    BY <1>3, <1>4 DEF MayStillOpen
  <1>6. Open(u)' \subseteq Open(u) \cup {x \in {pair} : MayStillOpen(w, u)}
    <2>1. ASSUME NEW status, NEW by, Write(pair, status, by),
                 /\ u \in pair
                 /\ status = "ACCEPTED" \/ (status = "PENDING" /\ by = u)
                 => MayStillOpen(w, u)
          PROVE  Open(u)' \subseteq Open(u) \cup {x \in {pair} : MayStillOpen(w, u)}
      BY <1>2, <2>1 DEF Write, Open, Status, By, OInv, TypeOK
    <2>2. CASE UNCHANGED connection
      BY <2>2 DEF Open, Status, By
    <2>3. CASE CreateRequest(w) \/ RenewRequest(w)
      BY <2>1, <2>2, <2>3 DEF CreateRequest, RenewRequest, MayStillOpen, At
    <2>4. CASE WriteAccepted(w)
      BY <2>1, <2>4 DEF WriteAccepted, MayStillOpen, At
    <2>5. CASE WriteRejected(w) \/ WriteCancelled(w) \/ WriteUnblocked(w)
      BY <2>1, <2>5 DEF WriteRejected, WriteCancelled, WriteUnblocked
    <2> QED
      BY <2>2, <2>3, <2>4, <2>5 DEF Proceed, CheckRequester
  <1> QED
    BY <1>5, <1>6 DEF OpenOrInFlight

LEMMA StepOInv == OInv /\ [Next]_vars => OInv'
  <1> SUFFICES ASSUME OInv, [Next]_vars PROVE OInv'
    OBVIOUS
  <1>1. TypeOK' /\ ActsForOneOfPair' /\ AskerIsOfPair'
    BY StepTypeOK, StepActs, StepAsker DEF OInv
  <1>2. OpenCounted'
    <2>1. CASE \E w \in Workers : BeginHandler(w)
      BY <2>1, BeginOpenCounted
    <2>2. CASE ~\E w \in Workers : BeginHandler(w)
      <3> SUFFICES ASSUME NEW u \in Users
                   PROVE  OpenOrInFlight(u)' \subseteq OpenOrInFlight(u)
        BY NoNewPair DEF OInv, OpenCounted
      <3>1. CASE \E w \in Workers : Proceed(w)
        BY <3>1, ProceedOpenCounted
      <3>2. CASE \E w \in Workers : Crash(w)
        <4>1. PICK w \in Workers : End(w) /\ UNCHANGED connection
          BY <3>2 DEF Crash
        <4>2. Open(u)' = Open(u)
          BY <4>1 DEF Open, Status, By
        <4>3. \A x \in Workers : MayStillOpen(x, u)' => MayStillOpen(x, u) /\ req'[x].pair = req[x].pair
          BY <4>1 DEF End, Idle, MayStillOpen, OInv, TypeOK
        <4> QED
          BY <4>2, <4>3 DEF OpenOrInFlight
      <3>3. CASE \E pair \in Pairs, v \in Users : Block(v, pair)
        <4>1. Open(u)' \subseteq Open(u) /\ UNCHANGED req
          BY <3>3 DEF Block, Write, Open, Status, By, OInv, TypeOK
        <4> QED
          BY <4>1 DEF OpenOrInFlight, MayStillOpen
      <3>4. CASE UNCHANGED <<connection, req>>
        BY <3>4 DEF OpenOrInFlight, MayStillOpen, Open, Status, By
      <3> QED
        BY <2>2, <3>1, <3>2, <3>3, <3>4
           DEF Next, vars, StartPass, PassRunsOut, LeaveAll, RejoinOnElite
    <2> QED
      BY <2>1, <2>2
  <1> QED
    BY <1>1, <1>2 DEF OInv

LEMMA InitOInv == Init => OInv
  <1> SUFFICES ASSUME Init PROVE OInv
    OBVIOUS
  <1>1. TypeOK /\ ActsForOneOfPair
    BY InitIInv DEF IInv
  <1>2. AskerIsOfPair
    BY DEF Init, AskerIsOfPair, Status, Asked
  <1>3. OpenCounted
    <2> SUFFICES ASSUME NEW u \in Users
                 PROVE  Cardinality(OpenOrInFlight(u)) <= OpenLimit["ELITE"] + Cardinality(Workers) - 1
      BY DEF OpenCounted
    <2>1. OpenOrInFlight(u) = {}
      BY DEF Init, OpenOrInFlight, Open, Status, By, MayStillOpen, Idle
    <2>2. OpenLimit["ELITE"] \in Nat \ {0} /\ Cardinality(Workers) \in Nat
      BY LimitsAssumption, WorkersAssumption, FS_CardinalityType DEF Plans
    <2> QED
      BY <2>1, <2>2, FS_EmptySet
  <1> QED
    BY <1>1, <1>2, <1>3 DEF OInv

(* Nobody gets further past the limit of open connections than the other   *)
(* handlers under way, whoever of request(), accept(), cancel(), reject(), *)
(* block() and unblock() overlaps: between assertCanRequest() or           *)
(* assertCanAccept() and the write, each can add one.                      *)
THEOREM OpenStaysWithinLimit == Spec => []OpenWithinLimit
  <1>1. OInv => OpenWithinLimit
    <2> SUFFICES ASSUME OInv, NEW u \in Users
                 PROVE  Cardinality(Open(u)) <= OpenLimit["ELITE"] + Cardinality(Workers) - 1
      BY DEF OpenWithinLimit
    <2>1. Cardinality(Open(u)) <= Cardinality(OpenOrInFlight(u))
      BY OpenOrInFlightIsFinite, FS_Subset DEF OpenOrInFlight
    <2>2. Cardinality(OpenOrInFlight(u)) <= OpenLimit["ELITE"] + Cardinality(Workers) - 1
      BY DEF OInv, OpenCounted
    <2>3. OpenLimit["ELITE"] \in Nat /\ Cardinality(Workers) \in Nat
      BY LimitsAssumption, WorkersAssumption, FS_CardinalityType DEF Plans
    <2> QED
      BY <2>1, <2>2, <2>3, OpenIsFinite, OpenOrInFlightIsFinite
  <1> QED
    BY InitOInv, StepOInv, <1>1, PTL DEF Spec
=============================================================================
