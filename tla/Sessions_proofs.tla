--------------------------- MODULE Sessions_proofs ---------------------------
(***************************************************************************)
(* Proofs about Sessions: they hold for any number of apps, requests under *)
(* way, sessions and faults, and for any use the apps make of the stores.  *)
(***************************************************************************)
EXTENDS Sessions, TLAPS

USE SessionsAssumption

-----------------------------------------------------------------------------
(* The inductive invariant. *)

\* The calls of an app are within their bound.
CallsBounded == \A a \in Apps : CallsOf(a) <= MaxCalls

\* A store has both tokens or none.
StoreOK(s) ==
    /\ store[s].access = "none" <=> store[s].refresh = 0
    /\ store[s].refresh # 0 => tokens[store[s].refresh].state # "none"

\* What the step of a request says about it.  A renewal that has lost its app is noted.
TaskOK(w) ==
    LET k == work[w] IN
    /\ k.kind = "none" => k = Idle
    /\ k.step \in {"read", "status", "rotate", "denied"} => k.kind = "refresh"
    /\ k.step \in {"issue", "granted"} => k.kind \in {"login", "refresh"}
    /\ k.step \in {"revoke", "gone"} => k.kind = "logout"
    /\ k.kind = "login" => k.token = 0
    /\ k.kind = "refresh" \/ k.step = "revoke" => k.token # 0
    /\ k.step = "granted" <=> k.new # 0
    /\ k.token # 0 => tokens[k.token].state # "none"
    /\ k.new # 0 => tokens[k.new].state # "none"
    /\ k.kind = "refresh" /\ k.app = Nobody => k.token \in abandoned

\* A token that is on its way to its app has not been used.
NewOK(w) ==
    LET n == work[w].new IN
    n # 0 =>
        /\ \A s \in Stores : store[s].refresh # n
        /\ \A v \in Workers : work[v].token # n /\ (v # w => work[v].new # n)
        /\ \A u \in Ids : tokens[u].from # n
        /\ tokens[n].end # "rotation"

\* refreshing: an app has one renewal under way.
OneRenewal ==
    \A v, w \in Workers :
        work[v].kind = "refresh" /\ work[w].kind = "refresh" /\ work[v].app = work[w].app
            /\ work[v].app # Nobody => v = w

\* App a has token t in its store, presents it, or is about to be given it.
Holds(a, t) ==
    \/ store[home[a]].refresh = t
    \/ \E w \in Workers : /\ work[w].app = a
                          /\ \/ work[w].kind = "refresh" /\ work[w].token = t
                             \/ work[w].new = t

OneHolder == \A a, b \in Apps, t \in Ids : Holds(a, t) /\ Holds(b, t) => a = b

HasSuccessor(t) == \E u \in Ids : tokens[u].from = t
Spent(t) == tokens[t].end = "rotation" \/ HasSuccessor(t)

\* The renewal of app a that has rotated token t.
Exchanging(w, t) ==
    work[w].kind = "refresh" /\ work[w].token = t /\ work[w].step \in {"issue", "granted"}

\* A token that was exchanged, and whose exchange lost no app, is presented to no check
\* any more, and its app keeps it only while that exchange goes on.
SpentOK(t) ==
    t \notin abandoned =>
        /\ Spent(t) => /\ \A w \in Workers : work[w].kind = "refresh" /\ work[w].token = t
                                                => Exchanging(w, t)
                       /\ \A a \in Apps : store[home[a]].refresh = t =>
                             \E w \in Workers : Exchanging(w, t) /\ work[w].app = a
        /\ HasSuccessor(t) => \A w \in Workers : Exchanging(w, t) => work[w].step = "granted"

AlarmsOK == \A t \in alarms : tokens[t].state = "revoked"

Wired ==
    /\ CallsBounded
    /\ \A s \in Stores : StoreOK(s)
    /\ \A w \in Workers : TaskOK(w) /\ NewOK(w)
    /\ \A t \in Ids : tokens[t].from # 0 => tokens[tokens[t].from].state # "none"
    /\ OneRenewal
    /\ AlarmsOK

Exchanges == ~Shared => OneHolder /\ \A t \in Ids : SpentOK(t)

IInv == TypeOK /\ Wired /\ Exchanges /\ NoFalseAlarm /\ OneSuccessor

-----------------------------------------------------------------------------
(* Types. *)

LEMMA HomesAreStores == ASSUME TypeOK, NEW a \in Apps PROVE home[a] \in Stores
  BY DEF TypeOK

LEMMA IdleIsTask == Idle \in Task
  BY DEF Idle, Task, Steps

LEMMA EndedTyped ==
    ASSUME TypeOK, NEW t \in Ids, NEW end \in Ends
    PROVE  /\ Ended(t, end) \in Token
           /\ Ended(t, end).from = tokens[t].from
           /\ tokens[t].state # "none" => Ended(t, end).state # "none"
           /\ tokens[t].state = "revoked" => Ended(t, end) = tokens[t]
           /\ Ended(t, end).end \in {tokens[t].end, end}
  <1>1. tokens[t] \in Token
    BY DEF TypeOK
  <1> QED
    BY <1>1 DEF Ended, Token, Ends

LEMMA TaskTyped ==
    ASSUME TypeOK, NEW w \in Workers, work[w] \in Task, NEW step \in Steps
    PROVE  [work EXCEPT ![w].step = step] \in [Workers -> Task]
  BY DEF TypeOK, Task

LEMMA BegunTyped ==
    ASSUME TypeOK, NEW w \in Workers, NEW kind \in {"login", "refresh", "logout"}, NEW step \in Steps,
           NEW a \in Apps, Begin(w, kind, step, a)
    PROVE  work' \in [Workers -> Task]
  <1>1. home[a] \in Stores /\ store \in [Stores -> Store]
    BY HomesAreStores DEF TypeOK
  <1>2. store[home[a]].refresh \in 0..MaxTokens
    BY <1>1 DEF Store
  <1>3. [kind |-> kind, step |-> step, app |-> a, token |-> store[home[a]].refresh, new |-> 0] \in Task
    BY <1>2 DEF Task
  <1> QED
    BY <1>3 DEF Begin, TypeOK

LEMMA StoreTyped ==
    ASSUME TypeOK, NEW a \in Apps, NEW s \in Store, SetStore(a, s)
    PROVE  store' \in [Stores -> Store]
  BY DEF SetStore, TypeOK

LEMMA DropOutTyped ==
    ASSUME TypeOK, NEW a \in Apps, DropOut(a)
    PROVE  store' \in [Stores -> Store] /\ app' \in [Apps -> App]
  <1>1. Empty \in Store
    BY DEF Empty, Store
  <1>2. [SignedOut EXCEPT !.refused = app[a].refused] \in App
    BY DEF SignedOut, App, TypeOK
  <1> QED
    BY <1>1, <1>2, StoreTyped DEF DropOut, TypeOK

\* The next steps have their names.
LEMMA StepNames ==
    {"read", "status", "rotate", "issue", "revoke", "granted", "denied", "gone"} \subseteq Steps
  BY DEF Steps

LEMMA AppNobodyTyped ==
    ASSUME TypeOK, NEW w \in Workers
    PROVE  [work[w] EXCEPT !.app = Nobody] \in Task
  BY DEF TypeOK, Task

LEMMA StepsTyped == TypeOK /\ Wired /\ [Next]_vars => TypeOK'
  <1> SUFFICES ASSUME TypeOK, Wired, [Next]_vars PROVE TypeOK'
    OBVIOUS
  <1> USE DEF history
  <1>0. /\ work \in [Workers -> Task] /\ store \in [Stores -> Store] /\ app \in [Apps -> App]
        /\ tokens \in [Ids -> Token]
        /\ \A w \in Workers : TaskOK(w)
        /\ \A a \in Apps : CallsOf(a) <= MaxCalls
        /\ MaxCalls \in Nat
        /\ Empty \in Store /\ SignedOut \in App
    BY DEF TypeOK, Wired, CallsBounded, Empty, Store, SignedOut, App
  <1>1. ASSUME NEW end \in Ends, tokens' = AllEnded(end) PROVE tokens' \in [Ids -> Token]
    BY <1>1, EndedTyped DEF AllEnded
  <1>2. ASSUME NEW t \in Ids, NEW end \in Ends, tokens' = [tokens EXCEPT ![t] = Ended(t, end)]
        PROVE  tokens' \in [Ids -> Token]
    BY <1>0, <1>2, EndedTyped
  <1>3. ASSUME NEW w \in Workers, NEW step \in Steps, Go(w, step) PROVE work' \in [Workers -> Task]
    BY <1>0, <1>3, TaskTyped DEF Go
  <1>4. ASSUME NEW w \in Workers, Return(w) PROVE work' \in [Workers -> Task]
    BY <1>0, <1>4, IdleIsTask DEF Return
  <1>5. ASSUME NEW w \in Workers, Read(w) PROVE TypeOK'
    <2>1. {"alarm"} \subseteq Ends /\ {"denied", "status"} \subseteq Steps
      BY DEF Ends, Steps
    <2>2. work[w].token \in Ids
      BY <1>0, <1>5 DEF Read, At, TaskOK, Task, Ids
    <2> QED
      BY <1>1, <1>3, <1>5, <2>1, <2>2 DEF Read, TypeOK
  <1>6. ASSUME NEW w \in Workers, ReadStatus(w) PROVE TypeOK'
    BY <1>3, <1>6, StepNames DEF ReadStatus, TypeOK
  <1>7. ASSUME NEW w \in Workers, Rotate(w) PROVE TypeOK'
    <2>1. work[w].token \in Ids /\ "rotation" \in Ends
      BY <1>0, <1>7 DEF Rotate, At, TaskOK, Task, Ids, Ends
    <2> QED
      BY <1>2, <1>3, <1>7, <2>1, StepNames DEF Rotate, TypeOK
  <1>8. ASSUME NEW w \in Workers, Issue(w) PROVE TypeOK'
    <2>1. PICK n \in Ids :
            /\ tokens' = [tokens EXCEPT ![n] = [state |-> "live", from |-> work[w].token, end |-> "none"]]
            /\ work' = [work EXCEPT ![w].step = "granted", ![w].new = n]
      BY <1>8 DEF Issue
    <2>2. tokens' \in [Ids -> Token]
      BY <1>0, <2>1 DEF Token, Task
    <2>3. work' = [work EXCEPT ![w] = [work[w] EXCEPT !.step = "granted", !.new = n]]
      BY <1>0, <2>1
    <2>4. n \in 0..MaxTokens /\ "granted" \in Steps
      BY DEF Ids, Steps
    <2>5. [work[w] EXCEPT !.step = "granted", !.new = n] \in Task
      <3>1. work[w] \in Task
        BY <1>0
      <3> QED
        BY <2>4, <3>1 DEF Task
    <2> QED
      BY <1>0, <1>8, <2>2, <2>3, <2>5 DEF Issue, TypeOK
  <1>9. ASSUME NEW w \in Workers, Granted(w) PROVE TypeOK'
    <2> DEFINE a == work[w].app
    <2>1. CASE a = Nobody
      BY <1>4, <1>9, <2>1 DEF Granted, TypeOK
    <2>2. CASE a # Nobody
      <3>1. a \in Apps /\ work[w].new \in 0..MaxTokens
        BY <1>0, <2>2 DEF Task
      <3>2. [access |-> "good", refresh |-> work[w].new] \in Store
        BY <3>1 DEF Store
      <3>3. store' \in [Stores -> Store]
        BY <1>9, <2>2, <3>1, <3>2, StoreTyped DEF Granted
      <3>4. app' \in [Apps -> App]
        BY <1>0, <1>9, <2>2, <3>1 DEF Granted, App
      <3> QED
        BY <1>4, <1>9, <3>3, <3>4 DEF Granted, TypeOK
    <2> QED
      BY <2>1, <2>2
  <1>10. ASSUME NEW w \in Workers, Denied(w) PROVE TypeOK'
    <2>1. work[w].app # Nobody => work[w].app \in Apps
      BY <1>0 DEF Task
    <2> QED
      BY <1>4, <1>10, <2>1, DropOutTyped DEF Denied, TypeOK
  <1>11. ASSUME NEW w \in Workers, Revoke(w) PROVE TypeOK'
    <2>1. work[w].token \in Ids /\ "logout" \in Ends
      BY <1>0, <1>11 DEF Revoke, At, TaskOK, Task, Ids, Ends
    <2> QED
      BY <1>2, <1>3, <1>11, <2>1, StepNames DEF Revoke, TypeOK
  <1>12. ASSUME NEW a \in Apps, SetStore(a, Empty), app' = [app EXCEPT ![a].me = "out"]
         PROVE  store' \in [Stores -> Store] /\ app' \in [Apps -> App]
    BY <1>0, <1>12, StoreTyped DEF App
  <1>13. ASSUME NEW w \in Workers, Gone(w) PROVE TypeOK'
    <2>1. work[w].app # Nobody => work[w].app \in Apps
      BY <1>0 DEF Task
    <2> QED
      BY <1>4, <1>12, <1>13, <2>1 DEF Gone, TypeOK
  <1>14. ASSUME NEW w \in Workers, LoseAnswer(w) PROVE TypeOK'
    <2>1. work[w].app \in Apps
      BY <1>0, <1>14 DEF LoseAnswer, Task
    <2>2. work' \in [Workers -> Task]
      <3>1. work' = [work EXCEPT ![w] = [work[w] EXCEPT !.app = Nobody]]
        BY <1>0, <1>14 DEF LoseAnswer
      <3> QED
        BY <1>0, <3>1, AppNobodyTyped
    <2>3. store' \in [Stores -> Store] /\ app' \in [Apps -> App]
      <3>1. CASE work[w].kind = "refresh"
        BY <1>14, <2>1, <3>1, DropOutTyped DEF LoseAnswer
      <3>2. CASE work[w].kind = "logout"
        BY <1>12, <1>14, <2>1, <3>2 DEF LoseAnswer
      <3>3. CASE work[w].kind \notin {"refresh", "logout"}
        BY <1>0, <1>14, <3>3 DEF LoseAnswer
      <3> QED
        BY <3>1, <3>2, <3>3
    <2>4. work[w].kind = "refresh" => work[w].token \in Ids
      BY <1>0 DEF TaskOK, Task, Ids
    <2> QED
      BY <1>14, <2>2, <2>3, <2>4 DEF LoseAnswer, Fault, TypeOK
  <1>15. ASSUME NEW a \in Apps, Kill(a) PROVE TypeOK'
    <2>1. work' \in [Workers -> Task]
      BY <1>0, <1>15, AppNobodyTyped DEF Kill
    <2>2. \A w \in Workers : work[w].kind = "refresh" => work[w].token \in Ids
      BY <1>0 DEF TaskOK, Task, Ids
    <2>3. abandoned' \subseteq Ids
      BY <1>15, <2>2 DEF Kill, TypeOK
    <2>4. app' \in [Apps -> App]
      BY <1>0, <1>15 DEF Kill, App, SignedOut
    <2> QED
      BY <1>15, <2>1, <2>3, <2>4 DEF Kill, Fault, TypeOK
  <1>16. ASSUME NEW a \in Apps, Call(a) PROVE TypeOK'
    <2>1. app' \in [Apps -> App]
      BY <1>0, <1>16 DEF Call, CallsOf, App
    <2> QED
      BY <1>16, <2>1 DEF Call, TypeOK
  <1>17. ASSUME NEW a \in Apps, Hear(a) PROVE TypeOK'
    <2>1. app[a].refused \in 1..MaxCalls /\ app[a].waiting \in 0..MaxCalls
          /\ app[a].refused + app[a].waiting <= MaxCalls
      BY <1>0, <1>17 DEF Hear, CallsOf, App
    <2>2. app' \in [Apps -> App]
      BY <1>0, <1>17, <2>1 DEF Hear, App
    <2>3. work' \in [Workers -> Task]
      BY <1>0, <1>17, BegunTyped, StepNames DEF Hear
    <2>4. store' \in [Stores -> Store]
      BY <1>0, <1>17, StoreTyped DEF Hear
    <2> QED
      BY <1>17, <2>2, <2>3, <2>4 DEF Hear, TypeOK
  <1>18. ASSUME NEW a \in Apps, NEW w \in Workers, Login(a, w) PROVE TypeOK'
    <2>1. [Idle EXCEPT !.kind = "login", !.step = "issue", !.app = a] \in Task
      BY IdleIsTask, StepNames DEF Task
    <2> QED
      BY <1>0, <1>18, <2>1 DEF Login, TypeOK
  <1>19. ASSUME NEW a \in Apps, NEW w \in Workers, Logout(a, w) PROVE TypeOK'
    BY <1>0, <1>19, BegunTyped, StepNames DEF Logout, TypeOK
  <1>20. ASSUME NEW a \in Apps, NEW w \in Workers, ChangePassword(a, w) PROVE TypeOK'
    <2>1. "password" \in Ends
      BY DEF Ends
    <2> QED
      BY <1>1, <1>20, <2>1, BegunTyped, StepNames DEF ChangePassword, TypeOK
  <1>21. ASSUME Suspend PROVE TypeOK'
    <2>1. "suspension" \in Ends
      BY DEF Ends
    <2> QED
      BY <1>1, <1>21, <2>1 DEF Suspend, TypeOK
  <1>22. ASSUME NEW s \in Stores, AccessRunsOut(s) PROVE TypeOK'
    <2>1. store' \in [Stores -> Store]
      BY <1>0, <1>22 DEF AccessRunsOut, Store
    <2> QED
      BY <1>22, <2>1 DEF AccessRunsOut, TypeOK
  <1>23. ASSUME NEW a \in Apps, Restore(a) \/ RestoreFails(a) PROVE TypeOK'
    <2>1. \/ app' = [app EXCEPT ![a].me = "out"]
          \/ app' = [app EXCEPT ![a].me = "in"]
          \/ app' = [app EXCEPT ![a].refused = 1]
      BY <1>23 DEF Restore, RestoreFails
    <2>2. app \in [Apps -> App] /\ 1 \in 0..MaxCalls
      BY <1>0
    <2>3. app' \in [Apps -> App]
      BY <2>1, <2>2 DEF App
    <2> QED
      BY <1>23, <2>3 DEF Restore, RestoreFails, TypeOK
  <1>24. CASE Reactivate \/ UNCHANGED vars
    BY <1>24 DEF Reactivate, vars, history, TypeOK
  <1> QED
    BY <1>5, <1>6, <1>7, <1>8, <1>9, <1>10, <1>11, <1>13, <1>14, <1>15, <1>16, <1>17, <1>18, <1>19,
       <1>20, <1>21, <1>22, <1>23, <1>24 DEF Next, Step

-----------------------------------------------------------------------------
(* Where a step takes tokens from. *)

\* A store gets the token of a renewal or login that returns; a request presents what a
\* store holds; a successor is that of a token that was presented; what is revoked stays.
StoresFlow ==
    \A s \in Stores :
        \/ store'[s].refresh \in {0, store[s].refresh}
        \/ \E v \in Workers : store'[s].refresh = work[v].new /\ work'[v].new = 0
WorkFlow ==
    \A v \in Workers :
        \/ work'[v].token \in {0, work[v].token}
        \/ \E s \in Stores : work'[v].token = store[s].refresh
NewFlow ==
    \A v \in Workers :
        \/ work'[v].new \in {0, work[v].new}
        \/ work'[v].new \in Ids /\ tokens[work'[v].new].state = "none"
TokensFlow ==
    \A u \in Ids :
        /\ tokens'[u].from = tokens[u].from \/ \E v \in Workers : tokens'[u].from = work[v].token
        /\ tokens[u].state # "none" => tokens'[u].state # "none" /\ tokens'[u].from = tokens[u].from
        /\ tokens[u].state = "revoked" => tokens'[u] = tokens[u]
        /\ tokens'[u].end = "rotation" =>
              tokens[u].end = "rotation" \/ \E v \in Workers : work[v].token = u
Flow ==
    /\ home' = home /\ abandoned \subseteq abandoned'
    /\ StoresFlow /\ WorkFlow /\ NewFlow /\ TokensFlow

LEMMA EndingFlows ==
    ASSUME TypeOK, NEW T \in SUBSET Ids, NEW end \in Ends,
           \A t \in Ids : tokens'[t] = IF t \in T THEN Ended(t, end) ELSE tokens[t],
           end = "rotation" => \A t \in T : \E v \in Workers : work[v].token = t
    PROVE  TokensFlow
  <1> SUFFICES ASSUME NEW u \in Ids
               PROVE  /\ tokens'[u].from = tokens[u].from
                      /\ tokens[u].state # "none" => tokens'[u].state # "none"
                      /\ tokens[u].state = "revoked" => tokens'[u] = tokens[u]
                      /\ tokens'[u].end = "rotation" =>
                            tokens[u].end = "rotation" \/ \E v \in Workers : work[v].token = u
    BY DEF TokensFlow
  <1>1. CASE u \in T
    BY <1>1, EndedTyped
  <1>2. CASE u \notin T
    BY <1>2
  <1> QED
    BY <1>1, <1>2

LEMMA AllEndedFlows ==
    ASSUME TypeOK, NEW end \in {"alarm", "password", "suspension"}, tokens' = AllEnded(end)
    PROVE  TokensFlow
  <1>1. end \in Ends /\ end # "rotation"
    BY DEF Ends
  <1>2. \A t \in Ids : tokens'[t] = IF t \in Ids THEN Ended(t, end) ELSE tokens[t]
    BY DEF AllEnded
  <1> QED
    BY <1>1, <1>2, EndingFlows

LEMMA OneEndedFlows ==
    ASSUME TypeOK, NEW end \in {"rotation", "logout"}, NEW w \in Workers, work[w].token \in Ids,
           tokens' = [tokens EXCEPT ![work[w].token] = Ended(work[w].token, end)]
    PROVE  TokensFlow
  <1> DEFINE T == {work[w].token}
  <1>1. end \in Ends /\ T \in SUBSET Ids
    BY DEF Ends
  <1>2. \A t \in Ids : tokens'[t] = IF t \in T THEN Ended(t, end) ELSE tokens[t]
    BY DEF TypeOK
  <1>3. \A t \in T : \E v \in Workers : work[v].token = t
    OBVIOUS
  <1> QED
    BY <1>1, <1>2, <1>3, EndingFlows

\* A step of one request.
LEMMA OneTaskFlows ==
    ASSUME TypeOK, NEW w \in Workers, NEW task,
           \/ task.token \in {0, work[w].token}
           \/ \E s \in Stores : task.token = store[s].refresh,
           task.new \in {0, work[w].new},
           work' = [work EXCEPT ![w] = task]
    PROVE  WorkFlow /\ NewFlow
  BY DEF TypeOK, WorkFlow, NewFlow

LEMMA SameFlows ==
    /\ tokens' = tokens => TokensFlow
    /\ store' = store => StoresFlow
    /\ work' = work => WorkFlow /\ NewFlow
  BY DEF TokensFlow, StoresFlow, WorkFlow, NewFlow

LEMMA GoFlows ==
    ASSUME TypeOK, NEW w \in Workers, Return(w) \/ \E step \in Steps : Go(w, step)
    PROVE  WorkFlow /\ NewFlow
  <1>1. CASE Return(w)
    BY <1>1 DEF Return, Idle, TypeOK, WorkFlow, NewFlow
  <1>2. ASSUME NEW step \in Steps, Go(w, step) PROVE WorkFlow /\ NewFlow
    BY <1>2 DEF Go, TypeOK, Task, WorkFlow, NewFlow
  <1> QED
    BY <1>1, <1>2

LEMMA BeginFlows ==
    ASSUME TypeOK, NEW w \in Workers, NEW kind, NEW step, NEW a \in Apps, Begin(w, kind, step, a)
    PROVE  WorkFlow /\ NewFlow
  BY HomesAreStores DEF Begin, TypeOK, WorkFlow, NewFlow

LEMMA EmptyFlows ==
    ASSUME TypeOK, NEW a \in Apps, SetStore(a, Empty)
    PROVE  StoresFlow
  BY HomesAreStores DEF SetStore, Empty, TypeOK, StoresFlow

LEMMA StepsFlow == TypeOK /\ Wired /\ [Next]_vars => Flow
  <1> SUFFICES ASSUME TypeOK, Wired, [Next]_vars PROVE Flow
    OBVIOUS
  <1> USE DEF history
  <1>0. /\ work \in [Workers -> Task] /\ store \in [Stores -> Store]
        /\ \A w \in Workers : TaskOK(w)
        /\ \A w \in Workers : work[w].app # Nobody => work[w].app \in Apps
    BY DEF TypeOK, Wired, Task
  <1>1. ASSUME NEW w \in Workers, Read(w) PROVE Flow
    <2>1. WorkFlow /\ NewFlow
      BY <1>1, GoFlows, StepNames DEF Read
    <2>2. TokensFlow
      BY <1>1, AllEndedFlows, SameFlows DEF Read
    <2> QED
      BY <1>1, <2>1, <2>2, SameFlows DEF Read, Flow
  <1>2. ASSUME NEW w \in Workers, ReadStatus(w) PROVE Flow
    BY <1>2, GoFlows, StepNames, SameFlows DEF ReadStatus, Flow
  <1>3. ASSUME NEW w \in Workers, Rotate(w) PROVE Flow
    <2>1. work[w].token \in Ids
      BY <1>0, <1>3 DEF Rotate, At, TaskOK, Task, Ids
    <2> QED
      BY <1>3, <2>1, OneEndedFlows, GoFlows, StepNames, SameFlows DEF Rotate, Flow
  <1>4. ASSUME NEW w \in Workers, Issue(w) PROVE Flow
    <2>1. PICK n \in Ids :
            /\ tokens[n].state = "none"
            /\ tokens' = [tokens EXCEPT ![n] = [state |-> "live", from |-> work[w].token, end |-> "none"]]
            /\ work' = [work EXCEPT ![w].step = "granted", ![w].new = n]
      BY <1>4 DEF Issue
    <2>2. WorkFlow /\ NewFlow
      BY <1>0, <2>1 DEF WorkFlow, NewFlow, Task
    <2>3. TokensFlow
      BY <1>0, <2>1 DEF TypeOK, TokensFlow
    <2> QED
      BY <1>4, <2>2, <2>3, SameFlows DEF Issue, Flow
  <1>5. ASSUME NEW w \in Workers, Granted(w) PROVE Flow
    <2>1. StoresFlow
      <3>1. CASE work[w].app = Nobody
        BY <1>5, <3>1, SameFlows DEF Granted
      <3>2. CASE work[w].app # Nobody
        <4>1. work[w].app \in Apps /\ home[work[w].app] \in Stores
          BY <1>0, <3>2, HomesAreStores
        <4>2. /\ store' = [store EXCEPT ![home[work[w].app]] =
                              [access |-> "good", refresh |-> work[w].new]]
              /\ work'[w].new = 0
          BY <1>0, <1>5, <3>2 DEF Granted, SetStore, Return, Idle
        <4> QED
          BY <1>0, <4>1, <4>2 DEF StoresFlow
      <3> QED
        BY <3>1, <3>2
    <2> QED
      BY <1>5, <2>1, GoFlows, SameFlows DEF Granted, Flow
  <1>6. ASSUME NEW w \in Workers, Denied(w) PROVE Flow
    <2>1. StoresFlow
      BY <1>0, <1>6, EmptyFlows, SameFlows DEF Denied, DropOut
    <2> QED
      BY <1>6, <2>1, GoFlows, SameFlows DEF Denied, Flow
  <1>7. ASSUME NEW w \in Workers, Revoke(w) PROVE Flow
    <2>1. work[w].token \in Ids
      BY <1>0, <1>7 DEF Revoke, At, TaskOK, Task, Ids
    <2> QED
      BY <1>7, <2>1, OneEndedFlows, GoFlows, StepNames, SameFlows DEF Revoke, Flow
  <1>8. ASSUME NEW w \in Workers, Gone(w) PROVE Flow
    <2>1. StoresFlow
      BY <1>0, <1>8, EmptyFlows, SameFlows DEF Gone
    <2> QED
      BY <1>8, <2>1, GoFlows, SameFlows DEF Gone, Flow
  <1>9. ASSUME NEW w \in Workers, LoseAnswer(w) PROVE Flow
    <2>1. StoresFlow
      <3>1. CASE work[w].kind = "refresh"
        BY <1>0, <1>9, <3>1, EmptyFlows DEF LoseAnswer, DropOut
      <3>2. CASE work[w].kind = "logout"
        BY <1>0, <1>9, <3>2, EmptyFlows DEF LoseAnswer
      <3>3. CASE work[w].kind \notin {"refresh", "logout"}
        BY <1>9, <3>3, SameFlows DEF LoseAnswer
      <3> QED
        BY <3>1, <3>2, <3>3
    <2>2. WorkFlow /\ NewFlow
      BY <1>0, <1>9 DEF LoseAnswer, Task, WorkFlow, NewFlow
    <2> QED
      BY <1>9, <2>1, <2>2, SameFlows DEF LoseAnswer, Flow
  <1>10. ASSUME NEW a \in Apps, Kill(a) PROVE Flow
    <2>1. WorkFlow /\ NewFlow
      BY <1>0, <1>10 DEF Kill, Task, WorkFlow, NewFlow
    <2> QED
      BY <1>10, <2>1, SameFlows DEF Kill, Flow
  <1>11. ASSUME NEW a \in Apps, Hear(a) PROVE Flow
    <2>1. StoresFlow
      BY <1>11, EmptyFlows, SameFlows DEF Hear
    <2>2. WorkFlow /\ NewFlow
      BY <1>11, BeginFlows, SameFlows DEF Hear
    <2> QED
      BY <1>11, <2>1, <2>2, SameFlows DEF Hear, Flow
  <1>12. ASSUME NEW a \in Apps, NEW w \in Workers, Login(a, w) PROVE Flow
    <2>1. WorkFlow /\ NewFlow
      BY <1>0, <1>12 DEF Login, Idle, WorkFlow, NewFlow
    <2> QED
      BY <1>12, <2>1, SameFlows DEF Login, Flow
  <1>13. ASSUME NEW a \in Apps, NEW w \in Workers, Logout(a, w) PROVE Flow
    BY <1>13, BeginFlows, SameFlows DEF Logout, Flow
  <1>14. ASSUME NEW a \in Apps, NEW w \in Workers, ChangePassword(a, w) PROVE Flow
    BY <1>14, AllEndedFlows, BeginFlows, SameFlows DEF ChangePassword, Flow
  <1>15. ASSUME Suspend PROVE Flow
    BY <1>15, AllEndedFlows, SameFlows DEF Suspend, Flow
  <1>16. ASSUME NEW s \in Stores, AccessRunsOut(s) PROVE Flow
    <2>1. StoresFlow
      BY <1>0, <1>16 DEF AccessRunsOut, Store, StoresFlow
    <2> QED
      BY <1>16, <2>1, SameFlows DEF AccessRunsOut, Flow
  <1>17. ASSUME UNCHANGED <<home, tokens, store, work, abandoned>> PROVE Flow
    BY <1>17, SameFlows DEF Flow
  <1> QED
    BY <1>1, <1>2, <1>3, <1>4, <1>5, <1>6, <1>7, <1>8, <1>9, <1>10, <1>11, <1>12, <1>13, <1>14, <1>15,
       <1>16, <1>17 DEF Next, Step, Call, Restore, RestoreFails, Reactivate, vars

-----------------------------------------------------------------------------
(* What a step leaves of the requests, the stores and the calls. *)

\* The token a request presents, or is to be given, exists, and goes on existing.
LEMMA TokensExist ==
    ASSUME TypeOK, Wired, Flow
    PROVE  /\ \A w \in Workers : work[w].token # 0 =>
                work[w].token \in Ids /\ tokens[work[w].token].state # "none"
                  /\ tokens'[work[w].token].state # "none"
           /\ \A w \in Workers : work[w].new # 0 =>
                work[w].new \in Ids /\ tokens[work[w].new].state # "none"
                  /\ tokens'[work[w].new].state # "none"
           /\ \A s \in Stores : store[s].refresh # 0 =>
                store[s].refresh \in Ids /\ tokens[store[s].refresh].state # "none"
                  /\ tokens'[store[s].refresh].state # "none"
           /\ \A u \in Ids : tokens[u].from # 0 =>
                tokens[u].from \in Ids /\ tokens[tokens[u].from].state # "none"
                  /\ tokens'[tokens[u].from].state # "none"
  BY DEF TypeOK, Wired, TaskOK, StoreOK, Flow, TokensFlow, Task, Store, Token, Ids

LEMMA TaskStays ==
    ASSUME TypeOK, Wired, Flow, NEW w \in Workers, work'[w] = work[w]
    PROVE  TaskOK(w)'
  BY TokensExist DEF Wired, TaskOK, Flow

LEMMA OthersTasksStay ==
    ASSUME TypeOK, Wired, Flow, NEW w \in Workers, NEW task, work' = [work EXCEPT ![w] = task], TaskOK(w)'
    PROVE  \A v \in Workers : TaskOK(v)'
  BY TaskStays DEF TypeOK

LEMMA StepsKeepTasks == TypeOK /\ Wired /\ Flow /\ [Next]_vars => \A w \in Workers : TaskOK(w)'
  <1> SUFFICES ASSUME TypeOK, Wired, Flow, [Next]_vars PROVE \A w \in Workers : TaskOK(w)'
    OBVIOUS
  <1> USE DEF history
  <1>0. /\ work \in [Workers -> Task]
        /\ \A w \in Workers : TaskOK(w)
    BY DEF TypeOK, Wired
  <1>1. ASSUME NEW w \in Workers, Return(w) PROVE \A v \in Workers : TaskOK(v)'
    <2>1. TaskOK(w)'
      BY <1>0, <1>1 DEF Return, Idle, TaskOK
    <2> QED
      BY <1>1, <2>1, OthersTasksStay DEF Return
  <1>2. ASSUME NEW w \in Workers, NEW step \in Steps, Go(w, step),
               \/ step = "status" /\ At(w, "read")
               \/ step = "rotate" /\ At(w, "status")
               \/ step = "denied" /\ (At(w, "read") \/ At(w, "status"))
               \/ step = "issue" /\ At(w, "rotate")
               \/ step = "gone" /\ At(w, "revoke")
        PROVE  \A v \in Workers : TaskOK(v)'
    <2>1. work' = [work EXCEPT ![w] = [work[w] EXCEPT !.step = step]]
      BY <1>0, <1>2 DEF Go
    <2>2. /\ work'[w].step = step /\ work'[w].kind = work[w].kind /\ work'[w].app = work[w].app
          /\ work'[w].token = work[w].token /\ work'[w].new = work[w].new
      BY <1>0, <2>1 DEF Task
    <2>3. TaskOK(w)'
      BY <1>0, <1>2, <2>2, TokensExist DEF TaskOK, At, Flow, Idle
    <2> QED
      BY <2>1, <2>3, OthersTasksStay
  <1>3. ASSUME NEW w \in Workers, Issue(w) PROVE \A v \in Workers : TaskOK(v)'
    <2>1. PICK n \in Ids :
            /\ tokens' = [tokens EXCEPT ![n] = [state |-> "live", from |-> work[w].token, end |-> "none"]]
            /\ work' = [work EXCEPT ![w].step = "granted", ![w].new = n]
      BY <1>3 DEF Issue
    <2>2. work' = [work EXCEPT ![w] = [work[w] EXCEPT !.step = "granted", !.new = n]]
      BY <1>0, <2>1
    <2>3. /\ work'[w].step = "granted" /\ work'[w].kind = work[w].kind /\ work'[w].app = work[w].app
          /\ work'[w].token = work[w].token /\ work'[w].new = n
      BY <1>0, <2>2 DEF Task
    <2>4. tokens'[n].state = "live" /\ n # 0
      BY <2>1 DEF TypeOK, Ids
    <2>5. TaskOK(w)'
      BY <1>0, <1>3, <2>3, <2>4, TokensExist DEF Issue, TaskOK, At, Flow, Idle
    <2> QED
      BY <2>2, <2>5, OthersTasksStay
  <1>4. ASSUME NEW w \in Workers, NEW kind, NEW step, NEW a \in Apps, Begin(w, kind, step, a),
               \/ kind = "refresh" /\ step = "read" /\ store[home[a]].refresh # 0
               \/ kind = "logout" /\ step = "gone"
               \/ kind = "logout" /\ step = "revoke" /\ store[home[a]].refresh # 0
        PROVE  \A v \in Workers : TaskOK(v)'
    <2>1. /\ work'[w].step = step /\ work'[w].kind = kind /\ work'[w].app = a
          /\ work'[w].token = store[home[a]].refresh /\ work'[w].new = 0
      BY <1>0, <1>4 DEF Begin
    <2>2. TaskOK(w)'
      BY <1>4, <2>1, HomesAreStores, TokensExist DEF TaskOK
    <2> QED
      BY <1>4, <2>2, OthersTasksStay DEF Begin
  <1>5. ASSUME NEW w \in Workers, NEW a \in Apps, Login(a, w) PROVE \A v \in Workers : TaskOK(v)'
    <2>1. TaskOK(w)'
      BY <1>0, <1>5 DEF Login, Idle, TaskOK
    <2> QED
      BY <1>5, <2>1, OthersTasksStay DEF Login
  <1>6. ASSUME NEW w \in Workers, work'[w] = [work[w] EXCEPT !.app = Nobody], work[w].app # Nobody,
               work[w].kind = "refresh" => work[w].token \in abandoned'
        PROVE  TaskOK(w)'
    <2>1. /\ work'[w].step = work[w].step /\ work'[w].kind = work[w].kind
          /\ work'[w].token = work[w].token /\ work'[w].new = work[w].new
      BY <1>0, <1>6 DEF Task
    <2>2. work[w].kind # "none"
      BY <1>0, <1>6 DEF TaskOK, Idle
    <2> QED
      BY <1>0, <1>6, <2>1, <2>2, TokensExist DEF TaskOK
  <1>7. ASSUME NEW w \in Workers, LoseAnswer(w) PROVE \A v \in Workers : TaskOK(v)'
    <2>1. work' = [work EXCEPT ![w] = [work[w] EXCEPT !.app = Nobody]]
      BY <1>0, <1>7 DEF LoseAnswer
    <2>2. work[w].app # Nobody /\ (work[w].kind = "refresh" => work[w].token \in abandoned')
      BY <1>7 DEF LoseAnswer
    <2>3. TaskOK(w)'
      BY <1>0, <1>6, <2>1, <2>2
    <2> QED
      BY <2>1, <2>3, OthersTasksStay
  <1>8. ASSUME NEW a \in Apps, Kill(a) PROVE \A v \in Workers : TaskOK(v)'
    <2> SUFFICES ASSUME NEW v \in Workers PROVE TaskOK(v)'
      OBVIOUS
    <2>1. CASE work[v].app = a
      <3>1. work'[v] = [work[v] EXCEPT !.app = Nobody] /\ a # Nobody
        BY <1>8, <2>1 DEF Kill
      <3>2. work[v].kind = "refresh" => work[v].token \in abandoned'
        BY <1>8, <2>1 DEF Kill
      <3> QED
        BY <1>6, <2>1, <3>1, <3>2
    <2>2. CASE work[v].app # a
      BY <1>8, <2>2, TaskStays DEF Kill
    <2> QED
      BY <2>1, <2>2
  <1>9. ASSUME NEW a \in Apps, NEW w \in Workers, ChangePassword(a, w) PROVE \A v \in Workers : TaskOK(v)'
    <2>1. store[home[a]].refresh # 0
      BY <1>9, HomesAreStores DEF ChangePassword, Accepted, Wired, StoreOK
    <2> QED
      BY <1>4, <1>9, <2>1 DEF ChangePassword
  <1>10. ASSUME work' = work PROVE \A v \in Workers : TaskOK(v)'
    BY <1>10, TaskStays
  <1>11. ASSUME NEW w \in Workers, Read(w) \/ ReadStatus(w) \/ Rotate(w) \/ Revoke(w)
         PROVE  \A v \in Workers : TaskOK(v)'
    BY <1>2, <1>11, StepNames DEF Read, ReadStatus, Rotate, Revoke
  <1>12. ASSUME NEW w \in Workers, Granted(w) \/ Denied(w) \/ Gone(w) PROVE \A v \in Workers : TaskOK(v)'
    BY <1>1, <1>12 DEF Granted, Denied, Gone
  <1>13. ASSUME NEW a \in Apps, Hear(a) PROVE \A v \in Workers : TaskOK(v)'
    BY <1>4, <1>10, <1>13 DEF Hear
  <1>14. ASSUME NEW a \in Apps, NEW w \in Workers, Logout(a, w) PROVE \A v \in Workers : TaskOK(v)'
    BY <1>4, <1>14 DEF Logout
  <1> QED
    BY <1>3, <1>5, <1>7, <1>8, <1>9, <1>10, <1>11, <1>12, <1>13, <1>14
       DEF Next, Step, Call, Suspend, Reactivate, AccessRunsOut, Restore, RestoreFails, vars

LEMMA StepsKeepOneRenewal == TypeOK /\ Wired /\ Flow /\ [Next]_vars => OneRenewal'
  <1> SUFFICES ASSUME TypeOK, Wired, Flow, [Next]_vars PROVE OneRenewal'
    OBVIOUS
  <1> USE DEF history
  <1>0. work \in [Workers -> Task] /\ OneRenewal
    BY DEF TypeOK, Wired
  <1>1. \* the steps that begin no renewal
        ASSUME \A w \in Workers : work'[w].kind = "refresh" /\ work'[w].app # Nobody =>
                   work[w].kind = "refresh" /\ work[w].app = work'[w].app
        PROVE  OneRenewal'
    BY <1>0, <1>1 DEF OneRenewal
  <1>2. ASSUME NEW w \in Workers, Return(w) \/ \E step \in Steps : Go(w, step) PROVE OneRenewal'
    BY <1>0, <1>1, <1>2 DEF Return, Go, Idle, Task
  <1>3. ASSUME NEW w \in Workers, Issue(w) PROVE OneRenewal'
    BY <1>0, <1>1, <1>3 DEF Issue, Task
  <1>4. ASSUME NEW w \in Workers, NEW step, NEW a \in Apps, Begin(w, "logout", step, a) PROVE OneRenewal'
    BY <1>0, <1>1, <1>4 DEF Begin
  <1>5. ASSUME NEW w \in Workers, NEW a \in Apps, Login(a, w) PROVE OneRenewal'
    BY <1>0, <1>1, <1>5 DEF Login, Idle
  <1>6. ASSUME NEW w \in Workers, NEW a \in Apps, Begin(w, "refresh", "read", a), ~Refreshing(a)
        PROVE  OneRenewal'
    <2>1. /\ work'[w].app = a
          /\ \A v \in Workers \ {w} : work'[v] = work[v]
          /\ \A v \in Workers \ {w} : work[v].kind = "refresh" => work[v].app # a
      BY <1>0, <1>6 DEF Begin, Refreshing, Busy
    <2> QED
      BY <1>0, <2>1 DEF OneRenewal
  <1>7. ASSUME NEW w \in Workers, LoseAnswer(w) PROVE OneRenewal'
    BY <1>0, <1>1, <1>7 DEF LoseAnswer, Task
  <1>8. ASSUME NEW a \in Apps, Kill(a) PROVE OneRenewal'
    BY <1>0, <1>1, <1>8 DEF Kill, Task
  <1>9. ASSUME work' = work PROVE OneRenewal'
    BY <1>0, <1>9 DEF OneRenewal
  <1>10. ASSUME NEW w \in Workers, Step(w) PROVE OneRenewal'
    BY <1>2, <1>3, <1>10, StepNames
       DEF Step, Read, ReadStatus, Rotate, Revoke, Granted, Denied, Gone
  <1>11. ASSUME NEW a \in Apps, Hear(a) PROVE OneRenewal'
    BY <1>6, <1>9, <1>11 DEF Hear
  <1> QED
    BY <1>4, <1>5, <1>7, <1>8, <1>9, <1>10, <1>11
       DEF Next, Logout, ChangePassword, Call, Suspend, Reactivate, AccessRunsOut, Restore, RestoreFails, vars

LEMMA StepsKeepCalls == TypeOK /\ Wired /\ [Next]_vars => CallsBounded'
  <1> SUFFICES ASSUME TypeOK, Wired, [Next]_vars PROVE CallsBounded'
    OBVIOUS
  <1> USE DEF history
  <1>0. /\ app \in [Apps -> App] /\ MaxCalls \in Nat \ {0}
        /\ \A a \in Apps : CallsOf(a) <= MaxCalls
        /\ \A a \in Apps : app[a].refused \in Nat /\ app[a].waiting \in Nat
    BY DEF TypeOK, Wired, CallsBounded, App
  <1>1. ASSUME app' = app PROVE CallsBounded'
    BY <1>0, <1>1 DEF CallsBounded, CallsOf
  <1>2. ASSUME NEW a \in Apps, NEW new, app' = [app EXCEPT ![a] = new],
               new.refused + new.waiting <= MaxCalls
        PROVE  CallsBounded'
    BY <1>0, <1>2 DEF CallsBounded, CallsOf
  <1>3. ASSUME NEW a \in Apps, NEW me, app' = [app EXCEPT ![a].me = me] PROVE CallsBounded'
    BY <1>0, <1>3 DEF CallsBounded, CallsOf, App
  <1>4. ASSUME NEW a \in Apps, DropOut(a) PROVE CallsBounded'
    BY <1>0, <1>4 DEF DropOut, SignedOut, CallsBounded, CallsOf
  <1>5. ASSUME NEW a \in Apps, Call(a) PROVE CallsBounded'
    BY <1>0, <1>5 DEF Call, CallsBounded, CallsOf, App
  <1>6. ASSUME NEW a \in Apps, Hear(a) PROVE CallsBounded'
    BY <1>0, <1>6 DEF Hear, CallsBounded, CallsOf, App
  <1>7. ASSUME NEW w \in Workers, Granted(w) PROVE CallsBounded'
    <2>1. CASE work[w].app = Nobody
      BY <1>1, <1>7, <2>1 DEF Granted
    <2>2. CASE work[w].app # Nobody
      <3>1. work[w].app \in Apps
        BY <2>2 DEF TypeOK, Task
      <3> QED
        BY <1>0, <1>7, <2>2, <3>1 DEF Granted, CallsBounded, CallsOf, App
    <2> QED
      BY <2>1, <2>2
  <1>8. ASSUME NEW w \in Workers, Denied(w) \/ Gone(w) PROVE CallsBounded'
    <2>1. work[w].app # Nobody => work[w].app \in Apps
      BY DEF TypeOK, Task
    <2> QED
      BY <1>1, <1>3, <1>4, <1>8, <2>1 DEF Denied, Gone
  <1>9. ASSUME NEW w \in Workers, LoseAnswer(w) PROVE CallsBounded'
    <2>1. work[w].app \in Apps
      BY <1>9 DEF LoseAnswer, TypeOK, Task
    <2>2. CASE work[w].kind = "refresh"
      BY <1>4, <1>9, <2>1, <2>2 DEF LoseAnswer
    <2>3. CASE work[w].kind = "logout"
      BY <1>3, <1>9, <2>1, <2>3 DEF LoseAnswer
    <2>4. CASE work[w].kind \notin {"refresh", "logout"}
      BY <1>1, <1>9, <2>4 DEF LoseAnswer
    <2> QED
      BY <2>2, <2>3, <2>4
  <1>10. ASSUME NEW a \in Apps, Kill(a) PROVE CallsBounded'
    BY <1>0, <1>10 DEF Kill, SignedOut, CallsBounded, CallsOf
  <1>11. ASSUME NEW a \in Apps, Restore(a) \/ RestoreFails(a) PROVE CallsBounded'
    BY <1>0, <1>11 DEF Restore, RestoreFails, CallsBounded, CallsOf, App
  <1>12. ASSUME NEW w \in Workers, Step(w) PROVE CallsBounded'
    BY <1>1, <1>7, <1>8, <1>12 DEF Step, Read, ReadStatus, Rotate, Issue, Revoke
  <1> QED
    BY <1>1, <1>5, <1>6, <1>9, <1>10, <1>11, <1>12
       DEF Next, Login, Logout, ChangePassword, Suspend, Reactivate, AccessRunsOut, vars

\* What a step makes of the stores.
LEMMA StoreSteps ==
    ASSUME TypeOK, Wired, [Next]_vars
    PROVE  \/ store' = store
           \/ \E a \in Apps : SetStore(a, Empty)
           \/ \E w \in Workers : /\ Granted(w) /\ work[w].app \in Apps
                                  /\ SetStore(work[w].app, [access |-> "good", refresh |-> work[w].new])
           \/ \E s \in Stores : AccessRunsOut(s)
  <1> DEFINE G == \/ store' = store
                  \/ \E a \in Apps : SetStore(a, Empty)
                  \/ \E w \in Workers : /\ Granted(w) /\ work[w].app \in Apps
                                         /\ SetStore(work[w].app, [access |-> "good", refresh |-> work[w].new])
                  \/ \E s \in Stores : AccessRunsOut(s)
  <1> SUFFICES G
    OBVIOUS
  <1>0. \A w \in Workers : work[w].app # Nobody => work[w].app \in Apps
    BY DEF TypeOK, Task
  <1>1. ASSUME NEW w \in Workers, Granted(w) \/ Denied(w) \/ Gone(w) PROVE G
    BY <1>0, <1>1 DEF Granted, Denied, Gone, DropOut
  <1>2. ASSUME NEW w \in Workers, LoseAnswer(w) PROVE G
    <2>1. work[w].app \in Apps
      BY <1>0, <1>2 DEF LoseAnswer
    <2>2. CASE work[w].kind = "refresh"
      BY <1>2, <2>1, <2>2 DEF LoseAnswer, DropOut
    <2>3. CASE work[w].kind = "logout"
      BY <1>2, <2>1, <2>3 DEF LoseAnswer
    <2>4. CASE work[w].kind \notin {"refresh", "logout"}
      BY <1>2, <2>4 DEF LoseAnswer
    <2> QED
      BY <2>2, <2>3, <2>4
  <1>3. ASSUME NEW a \in Apps, Hear(a) PROVE G
    BY <1>3 DEF Hear
  <1>4. ASSUME NEW s \in Stores, AccessRunsOut(s) PROVE G
    BY <1>4
  <1>5. ASSUME store' = store PROVE G
    BY <1>5
  <1>6. ASSUME NEW w \in Workers, Step(w) PROVE G
    BY <1>1, <1>5, <1>6 DEF Step, Read, ReadStatus, Rotate, Issue, Revoke
  <1> HIDE DEF G
  <1> QED
    BY <1>2, <1>3, <1>4, <1>5, <1>6
       DEF Next, Call, Login, Logout, ChangePassword, Suspend, Reactivate, Kill, Restore,
           RestoreFails, vars

LEMMA StepsKeepStores == TypeOK /\ Wired /\ Flow /\ [Next]_vars => \A s \in Stores : StoreOK(s)'
  <1> SUFFICES ASSUME TypeOK, Wired, Flow, [Next]_vars, NEW s \in Stores PROVE StoreOK(s)'
    OBVIOUS
  <1>0. store \in [Stores -> Store] /\ StoreOK(s)
    BY DEF TypeOK, Wired
  <1>1. store'[s].refresh # 0 => tokens'[store'[s].refresh].state # "none"
    BY TokensExist DEF Flow, StoresFlow
  <1>2. store'[s].access = "none" <=> store'[s].refresh = 0
    <2>1. CASE store' = store
      BY <1>0, <2>1 DEF StoreOK
    <2>2. ASSUME NEW a \in Apps, SetStore(a, Empty)
          PROVE  store'[s].access = "none" <=> store'[s].refresh = 0
      BY <1>0, <2>2, HomesAreStores DEF SetStore, Empty, StoreOK
    <2>3. ASSUME NEW w \in Workers, Granted(w), work[w].app \in Apps,
                 SetStore(work[w].app, [access |-> "good", refresh |-> work[w].new])
          PROVE  store'[s].access = "none" <=> store'[s].refresh = 0
      <3>1. work[w].new # 0
        BY <2>3 DEF Wired, TaskOK, Granted, At
      <3> QED
        BY <1>0, <2>3, <3>1, HomesAreStores DEF SetStore, StoreOK
    <2>4. ASSUME NEW x \in Stores, AccessRunsOut(x)
          PROVE  store'[s].access = "none" <=> store'[s].refresh = 0
      BY <1>0, <2>4 DEF AccessRunsOut, StoreOK, Store
    <2> QED
      BY <2>1, <2>2, <2>3, <2>4, StoreSteps
  <1> QED
    BY <1>1, <1>2 DEF StoreOK

LEMMA StepsKeepFroms ==
    TypeOK /\ Wired /\ Flow => \A t \in Ids : tokens'[t].from # 0 => tokens'[tokens'[t].from].state # "none"
  BY TokensExist DEF Flow, TokensFlow

LEMMA StepsKeepAlarms == TypeOK /\ Wired /\ Flow /\ [Next]_vars => AlarmsOK'
  <1> SUFFICES ASSUME TypeOK, Wired, Flow, [Next]_vars, NEW t \in alarms' PROVE tokens'[t].state = "revoked"
    BY DEF AlarmsOK
  <1>1. CASE t \in alarms
    BY <1>1 DEF TypeOK, Wired, AlarmsOK, Flow, TokensFlow
  <1>2. ASSUME t \notin alarms PROVE \E w \in Workers : Read(w)
    BY <1>2 DEF Next, Step, ReadStatus, Rotate, Issue, Granted, Denied, Revoke, Gone, LoseAnswer, Call,
                Hear, Login, Logout, ChangePassword, Kill, Restore, RestoreFails, Suspend, Reactivate,
                AccessRunsOut, vars, history
  <1>3. ASSUME NEW w \in Workers, Read(w), t \notin alarms PROVE tokens'[t].state = "revoked"
    <2>1. t = work[w].token /\ tokens[t].state = "revoked"
      BY <1>3 DEF Read, Revoked
    <2>2. t \in Ids
      BY <1>3, <2>1, TokensExist DEF Read, At, Wired, TaskOK
    <2> QED
      BY <2>1, <2>2 DEF Flow, TokensFlow
  <1> QED
    BY <1>1, <1>2, <1>3

\* Only issueSession() makes a token that is to be given to somebody.
LEMMA NewSteps ==
    ASSUME TypeOK, [Next]_vars, NEW w \in Workers
    PROVE  work'[w].new \in {0, work[w].new} \/ Issue(w)
  <1> DEFINE G == work'[w].new \in {0, work[w].new} \/ Issue(w)
  <1> USE DEF history
  <1>0. work \in [Workers -> Task]
    BY DEF TypeOK
  <1>1. ASSUME NEW v \in Workers, Return(v) \/ \E step \in Steps : Go(v, step) PROVE G
    BY <1>0, <1>1 DEF Return, Go, Idle, Task
  <1>2. ASSUME NEW v \in Workers, Issue(v) PROVE G
    BY <1>0, <1>2 DEF Issue
  <1>3. ASSUME NEW v \in Workers, NEW kind, NEW step, NEW a \in Apps, Begin(v, kind, step, a) PROVE G
    BY <1>0, <1>3 DEF Begin
  <1>4. ASSUME NEW v \in Workers, NEW a \in Apps, Login(a, v) PROVE G
    BY <1>0, <1>4 DEF Login, Idle
  <1>5. ASSUME NEW v \in Workers, LoseAnswer(v) PROVE G
    BY <1>0, <1>5 DEF LoseAnswer, Task
  <1>6. ASSUME NEW a \in Apps, Kill(a) PROVE G
    BY <1>0, <1>6 DEF Kill, Task
  <1>7. ASSUME work' = work PROVE G
    BY <1>7
  <1>8. ASSUME NEW v \in Workers, Step(v) PROVE G
    <2> HIDE DEF G
    <2> QED
      BY <1>1, <1>2, <1>8, StepNames DEF Step, Read, ReadStatus, Rotate, Revoke, Granted, Denied, Gone
  <1>9. ASSUME NEW a \in Apps, Hear(a) PROVE G
    <2> HIDE DEF G
    <2> QED
      BY <1>3, <1>7, <1>9 DEF Hear
  <1> HIDE DEF G
  <1>10. G
    BY <1>3, <1>4, <1>5, <1>6, <1>7, <1>8, <1>9
       DEF Next, Logout, ChangePassword, Call, Suspend, Reactivate, AccessRunsOut, Restore, RestoreFails, vars
  <1> QED
    BY <1>10 DEF G

LEMMA StepsKeepNew == TypeOK /\ Wired /\ Flow /\ [Next]_vars => \A w \in Workers : NewOK(w)'
  <1> SUFFICES ASSUME TypeOK, Wired, Flow, [Next]_vars, NEW w \in Workers, work'[w].new # 0
               PROVE  NewOK(w)'
    BY DEF NewOK
  <1> DEFINE n == work'[w].new
  <1>1. CASE work'[w].new = work[w].new
    <2>1. n \in Ids /\ tokens[n].state # "none" /\ NewOK(w)
      BY <1>1, TokensExist DEF Wired
    <2>2. \A s \in Stores : store'[s].refresh # n
      BY <1>1, <2>1 DEF Flow, StoresFlow, NewOK
    <2>3. \A v \in Workers : work'[v].token # n
      BY <1>1, <2>1 DEF Flow, WorkFlow, NewOK
    <2>4. \A v \in Workers : v # w => work'[v].new # n
      BY <1>1, <2>1 DEF Flow, NewFlow, NewOK
    <2>5. \A u \in Ids : tokens'[u].from # n
      BY <1>1, <2>1 DEF Flow, TokensFlow, NewOK
    <2>6. tokens'[n].end # "rotation"
      BY <1>1, <2>1 DEF Flow, TokensFlow, NewOK
    <2> QED
      BY <2>2, <2>3, <2>4, <2>5, <2>6 DEF NewOK
  <1>2. CASE Issue(w)
    <2>1. PICK m \in Ids :
            /\ tokens[m].state = "none"
            /\ tokens' = [tokens EXCEPT ![m] = [state |-> "live", from |-> work[w].token, end |-> "none"]]
            /\ work' = [work EXCEPT ![w].step = "granted", ![w].new = m]
      BY <1>2 DEF Issue
    <2>2. /\ n = m /\ n \in Ids /\ tokens'[n].end = "none"
          /\ \A v \in Workers : v # w => work'[v] = work[v]
          /\ \A v \in Workers : work'[v].token = work[v].token
          /\ \A u \in Ids : tokens'[u].from = IF u = m THEN work[w].token ELSE tokens[u].from
      BY <2>1 DEF TypeOK, Task
    <2>3. \A s \in Stores : store'[s].refresh # n
      BY <1>2, <2>1, <2>2, TokensExist DEF Issue, Ids
    <2>4. ASSUME NEW v \in Workers PROVE work'[v].token # n /\ (v # w => work'[v].new # n)
      <3>1. work[v].token # m /\ work[v].new # m
        <4>1. m # 0 /\ tokens[m].state = "none"
          BY <2>1 DEF Ids
        <4> QED
          BY <4>1, TokensExist
      <3> QED
        BY <2>2, <3>1
    <2>5. \A u \in Ids : tokens'[u].from # n
      BY <2>1, <2>2, TokensExist DEF Ids
    <2> QED
      BY <2>2, <2>3, <2>4, <2>5 DEF NewOK
  <1> QED
    BY <1>1, <1>2, NewSteps

LEMMA StepsKeepWired == TypeOK /\ Wired /\ [Next]_vars => Wired'
  <1> SUFFICES ASSUME TypeOK, Wired, [Next]_vars PROVE Wired'
    OBVIOUS
  <1>1. Flow
    BY StepsFlow
  <1> QED
    BY <1>1, StepsKeepCalls, StepsKeepStores, StepsKeepTasks, StepsKeepNew, StepsKeepFroms,
       StepsKeepOneRenewal, StepsKeepAlarms DEF Wired

-----------------------------------------------------------------------------
(* Exchanges, of apps that keep their own tokens. *)

\* How a request changes in a step.
Unchanged(w) == work'[w] = work[w]
Returns(w) == work'[w] = Idle /\ (Granted(w) \/ Denied(w) \/ Gone(w))
LosesApp(w) ==
    /\ work'[w] = [work[w] EXCEPT !.app = Nobody]
    /\ work[w].kind = "refresh" => work[w].token \in abandoned'
Starts(w) ==
    /\ work[w] = Idle /\ work'[w].new = 0
    /\ work'[w].kind = "refresh" =>
          /\ work'[w].step = "read"
          /\ \E a \in Apps : /\ work'[w].app = a /\ ~Refreshing(a)
                             /\ work'[w].token = store[home[a]].refresh
Moves(w) ==
    /\ work[w].step \notin {"issue", "granted"} /\ work'[w].step # "granted"
    /\ work'[w] = [work[w] EXCEPT !.step = work'[w].step]
    /\ work'[w].step = "issue" => Rotate(w)
TaskChange(w) ==
    Unchanged(w) \/ Returns(w) \/ LosesApp(w) \/ Starts(w) \/ Moves(w) \/ Issue(w)

LEMMA TaskSteps == ASSUME TypeOK, [Next]_vars, NEW w \in Workers PROVE TaskChange(w)
  <1> USE DEF history
  <1>0. work \in [Workers -> Task]
    BY DEF TypeOK
  <1>1. ASSUME NEW v \in Workers, Granted(v) \/ Denied(v) \/ Gone(v) PROVE TaskChange(w)
    <2>1. work' = [work EXCEPT ![v] = Idle]
      BY <1>1 DEF Granted, Denied, Gone, Return
    <2>2. CASE w = v
      BY <1>0, <1>1, <2>1, <2>2 DEF TaskChange, Returns
    <2>3. CASE w # v
      BY <1>0, <2>1, <2>3 DEF TaskChange, Unchanged
    <2> QED
      BY <2>2, <2>3
  <1>2. ASSUME NEW v \in Workers, NEW step \in Steps, Go(v, step), work[v].step \notin {"issue", "granted"},
               step # "granted", step = "issue" => Rotate(v)
        PROVE  TaskChange(w)
    <2>1. work' = [work EXCEPT ![v] = [work[v] EXCEPT !.step = step]]
      BY <1>0, <1>2 DEF Go
    <2>2. CASE w = v
      <3>1. work'[v] = [work[v] EXCEPT !.step = step] /\ work[v] \in Task
        BY <1>0, <2>1
      <3>2. work'[v].step = step
        BY <3>1 DEF Task
      <3> QED
        BY <1>2, <2>2, <3>1, <3>2 DEF TaskChange, Moves
    <2>3. CASE w # v
      BY <1>0, <2>1, <2>3 DEF TaskChange, Unchanged
    <2> QED
      BY <2>2, <2>3
  <1>3. ASSUME NEW v \in Workers, Issue(v) PROVE TaskChange(w)
    BY <1>0, <1>3 DEF Issue, TaskChange, Unchanged
  <1>4. ASSUME NEW v \in Workers, NEW kind, NEW step, NEW a \in Apps, Begin(v, kind, step, a),
               kind = "refresh" => step = "read" /\ ~Refreshing(a)
        PROVE  TaskChange(w)
    <2>1. CASE w = v
      <3>1. /\ work[w] = Idle
            /\ work'[w] = [kind |-> kind, step |-> step, app |-> a,
                           token |-> store[home[a]].refresh, new |-> 0]
        BY <1>0, <1>4, <2>1 DEF Begin, Free
      <3> QED
        BY <1>4, <3>1 DEF TaskChange, Starts
    <2>2. CASE w # v
      BY <1>0, <1>4, <2>2 DEF Begin, TaskChange, Unchanged
    <2> QED
      BY <2>1, <2>2
  <1>5. ASSUME NEW v \in Workers, NEW a \in Apps, Login(a, v) PROVE TaskChange(w)
    <2>1. CASE w = v
      <3>1. work[w] = Idle /\ work'[w] = [Idle EXCEPT !.kind = "login", !.step = "issue", !.app = a]
        BY <1>0, <1>5, <2>1 DEF Login, Free
      <3> QED
        BY <3>1 DEF TaskChange, Starts, Idle
    <2>2. CASE w # v
      BY <1>0, <1>5, <2>2 DEF Login, TaskChange, Unchanged
    <2> QED
      BY <2>1, <2>2
  <1>6. ASSUME NEW v \in Workers, LoseAnswer(v) PROVE TaskChange(w)
    <2>1. work' = [work EXCEPT ![v] = [work[v] EXCEPT !.app = Nobody]]
      BY <1>0, <1>6 DEF LoseAnswer
    <2>2. CASE w = v
      BY <1>0, <1>6, <2>1, <2>2 DEF LoseAnswer, TaskChange, LosesApp
    <2>3. CASE w # v
      BY <1>0, <2>1, <2>3 DEF TaskChange, Unchanged
    <2> QED
      BY <2>2, <2>3
  <1>7. ASSUME NEW a \in Apps, Kill(a) PROVE TaskChange(w)
    <2>1. CASE work[w].app = a
      BY <1>7, <2>1 DEF Kill, TaskChange, LosesApp
    <2>2. CASE work[w].app # a
      BY <1>7, <2>2 DEF Kill, TaskChange, Unchanged
    <2> QED
      BY <2>1, <2>2
  <1>8. ASSUME work' = work PROVE TaskChange(w)
    BY <1>8 DEF TaskChange, Unchanged
  <1>9. ASSUME NEW v \in Workers, Read(v) \/ ReadStatus(v) \/ Rotate(v) \/ Revoke(v) PROVE TaskChange(w)
    BY <1>2, <1>9, StepNames DEF Read, ReadStatus, Rotate, Revoke, At
  <1>10. ASSUME NEW a \in Apps, Hear(a) PROVE TaskChange(w)
    BY <1>4, <1>8, <1>10 DEF Hear
  <1> QED
    BY <1>1, <1>3, <1>4, <1>5, <1>6, <1>7, <1>8, <1>9, <1>10
       DEF Next, Step, Logout, ChangePassword, Call, Suspend, Reactivate, AccessRunsOut, Restore,
           RestoreFails, vars

\* What a step makes of the sessions: it makes one, or none.
LEMMA SessionSteps ==
    ASSUME TypeOK, Wired, [Next]_vars
    PROVE  \/ \A u \in Ids : tokens'[u].from = tokens[u].from
           \/ \E w \in Workers, n \in Ids :
                 /\ Issue(w) /\ tokens[n].state = "none"
                 /\ \A u \in Ids : u # n => tokens'[u].from = tokens[u].from
                 /\ tokens'[n].from = work[w].token
  <1> DEFINE Same == \A u \in Ids : tokens'[u].from = tokens[u].from
  <1>0. \A w \in Workers : work[w].step \in {"rotate", "revoke"} => work[w].token \in Ids
    BY DEF TypeOK, Wired, TaskOK, Task, Ids
  <1>1. ASSUME NEW end \in Ends, tokens' = AllEnded(end) PROVE Same
    BY <1>1, EndedTyped DEF AllEnded
  <1>2. ASSUME NEW t \in Ids, NEW end \in Ends, tokens' = [tokens EXCEPT ![t] = Ended(t, end)] PROVE Same
    BY <1>2, EndedTyped DEF TypeOK
  <1>3. ASSUME tokens' = tokens PROVE Same
    BY <1>3
  <1>4. ASSUME NEW w \in Workers, Issue(w)
        PROVE  \E n \in Ids :
                 /\ tokens[n].state = "none"
                 /\ \A u \in Ids : u # n => tokens'[u].from = tokens[u].from
                 /\ tokens'[n].from = work[w].token
    BY <1>4 DEF Issue, TypeOK
  <1>5. {"alarm", "password", "suspension", "rotation", "logout"} \subseteq Ends
    BY DEF Ends
  <1>6. ASSUME NEW w \in Workers, Read(w) PROVE Same
    BY <1>1, <1>3, <1>5, <1>6 DEF Read
  <1>7. ASSUME NEW w \in Workers, Rotate(w) \/ Revoke(w) PROVE Same
    BY <1>0, <1>2, <1>5, <1>7 DEF Rotate, Revoke, At
  <1>8. ASSUME NEW a \in Apps, NEW w \in Workers, ChangePassword(a, w) PROVE Same
    BY <1>1, <1>5, <1>8 DEF ChangePassword
  <1>9. ASSUME Suspend PROVE Same
    BY <1>1, <1>5, <1>9 DEF Suspend
  <1>10. Same \/ \E w \in Workers : Issue(w)
    <2> HIDE DEF Same
    <2> QED
      BY <1>3, <1>6, <1>7, <1>8, <1>9
         DEF Next, Step, ReadStatus, Granted, Denied, Gone, LoseAnswer, Call, Hear, Login, Logout, Kill,
             Restore, RestoreFails, Reactivate, AccessRunsOut, vars
  <1> QED
    BY <1>4, <1>10

\* Only a rotation ends a session by rotation.
LEMMA RotationSteps ==
    ASSUME TypeOK, Wired, [Next]_vars, NEW t \in Ids, tokens'[t].end = "rotation"
    PROVE  tokens[t].end = "rotation" \/ \E w \in Workers : Rotate(w) /\ work[w].token = t
  <1> DEFINE G == tokens[t].end = "rotation" \/ \E w \in Workers : Rotate(w) /\ work[w].token = t
  <1>1. ASSUME NEW end \in {"alarm", "password", "suspension"}, tokens' = AllEnded(end) PROVE G
    <2>1. end \in Ends
      BY DEF Ends
    <2> QED
      BY <1>1, <2>1, EndedTyped DEF AllEnded
  <1>2. ASSUME NEW w \in Workers, Revoke(w) PROVE G
    <2>1. "logout" \in Ends
      BY DEF Ends
    <2>2. work[w].token \in Ids
      BY <1>2 DEF Revoke, At, TypeOK, Wired, TaskOK, Task, Ids
    <2> QED
      BY <1>2, <2>1, <2>2, EndedTyped DEF Revoke, TypeOK
  <1>3. ASSUME NEW w \in Workers, Rotate(w) PROVE G
    BY <1>3 DEF Rotate, TypeOK
  <1>4. ASSUME NEW w \in Workers, Issue(w) PROVE G
    BY <1>4 DEF Issue, TypeOK
  <1>5. ASSUME tokens' = tokens PROVE G
    BY <1>5
  <1>6. ASSUME NEW w \in Workers, Read(w) PROVE G
    BY <1>1, <1>5, <1>6 DEF Read
  <1> HIDE DEF G
  <1>7. G
    BY <1>1, <1>2, <1>3, <1>4, <1>5, <1>6
       DEF Next, Step, ReadStatus, Granted, Denied, Gone, LoseAnswer, Call, Hear, Login, Logout, Kill,
           Restore, RestoreFails, Reactivate, AccessRunsOut, ChangePassword, Suspend, vars
  <1> QED
    BY <1>7 DEF G

\* A token gets to an app that holds it already, unless it has just been made.
LEMMA HolderSteps ==
    ASSUME TypeOK, Wired, [Next]_vars, home' = home, ~Shared,
           NEW a \in Apps, NEW t \in Ids, Holds(a, t)'
    PROVE  \/ Holds(a, t)
           \/ /\ tokens[t].state = "none"
              /\ \E w \in Workers : work'[w].app = a /\ work'[w].new = t
  <1>0. /\ work \in [Workers -> Task] /\ store \in [Stores -> Store]
        /\ t # 0 /\ a # Nobody
        /\ \A b \in Apps : home[b] \in Stores
    BY HomesAreStores DEF TypeOK, Ids
  <1>1. CASE store'[home[a]].refresh = t
    <2>1. CASE store' = store
      BY <1>1, <2>1 DEF Holds
    <2>2. ASSUME NEW b \in Apps, SetStore(b, Empty) PROVE Holds(a, t)
      BY <1>0, <1>1, <2>2 DEF SetStore, Empty, Holds
    <2>3. ASSUME NEW w \in Workers, work[w].app \in Apps,
                 SetStore(work[w].app, [access |-> "good", refresh |-> work[w].new])
          PROVE  Holds(a, t)
      <3>1. CASE work[w].app = a
        BY <1>0, <1>1, <2>3, <3>1 DEF SetStore, Holds
      <3>2. CASE work[w].app # a
        <4>1. home[work[w].app] # home[a]
          BY <2>3, <3>2 DEF Shared
        <4>2. store'[home[a]] = store[home[a]]
          BY <1>0, <2>3, <4>1 DEF SetStore
        <4> QED
          BY <1>1, <4>2 DEF Holds
      <3> QED
        BY <3>1, <3>2
    <2>4. ASSUME NEW s \in Stores, AccessRunsOut(s) PROVE Holds(a, t)
      <3>1. store'[home[a]].refresh = store[home[a]].refresh
        BY <1>0, <2>4 DEF AccessRunsOut, Store
      <3> QED
        BY <1>1, <3>1 DEF Holds
    <2> QED
      BY <1>1, <2>1, <2>2, <2>3, <2>4, StoreSteps
  <1>2. ASSUME NEW w \in Workers, work'[w].app = a, work'[w].kind = "refresh", work'[w].token = t
        PROVE  Holds(a, t)
    <2>1. CASE Unchanged(w)
      BY <1>2, <2>1 DEF Unchanged, Holds
    <2>2. CASE Returns(w)
      BY <1>2, <2>2 DEF Returns, Idle
    <2>3. CASE LosesApp(w)
      BY <1>0, <1>2, <2>3 DEF LosesApp, Task
    <2>4. CASE Starts(w)
      BY <1>2, <2>4 DEF Starts, Holds
    <2>5. CASE Moves(w)
      <3>1. work[w].app = a /\ work[w].kind = "refresh" /\ work[w].token = t
        BY <1>0, <1>2, <2>5 DEF Moves, Task
      <3> QED
        BY <3>1 DEF Holds
    <2>6. CASE Issue(w)
      <3>1. work[w].app = a /\ work[w].kind = "refresh" /\ work[w].token = t
        BY <1>0, <1>2, <2>6 DEF Issue, Task
      <3> QED
        BY <3>1 DEF Holds
    <2> QED
      BY <2>1, <2>2, <2>3, <2>4, <2>5, <2>6, TaskSteps DEF TaskChange
  <1>3. ASSUME NEW w \in Workers, work'[w].app = a, work'[w].new = t
        PROVE  Holds(a, t) \/ tokens[t].state = "none"
    <2>1. CASE Unchanged(w)
      BY <1>3, <2>1 DEF Unchanged, Holds
    <2>2. CASE Returns(w)
      BY <1>0, <1>3, <2>2 DEF Returns, Idle
    <2>3. CASE LosesApp(w)
      BY <1>0, <1>3, <2>3 DEF LosesApp, Task
    <2>4. CASE Starts(w)
      BY <1>0, <1>3, <2>4 DEF Starts
    <2>5. CASE Moves(w)
      <3>1. work[w].app = a /\ work[w].new = t
        BY <1>0, <1>3, <2>5 DEF Moves, Task
      <3> QED
        BY <3>1 DEF Holds
    <2>6. CASE Issue(w)
      BY <1>0, <1>3, <2>6 DEF Issue, Task
    <2> QED
      BY <2>1, <2>2, <2>3, <2>4, <2>5, <2>6, TaskSteps DEF TaskChange
  <1> QED
    BY <1>1, <1>2, <1>3 DEF Holds

LEMMA HeldExist ==
    ASSUME TypeOK, Wired, Flow, NEW a \in Apps, NEW t \in Ids, Holds(a, t)
    PROVE  tokens[t].state # "none"
  BY TokensExist, HomesAreStores DEF Holds, Ids

LEMMA StepsKeepOneHolder ==
    ASSUME TypeOK, Wired, Wired', Flow, [Next]_vars, ~Shared, OneHolder
    PROVE  OneHolder'
  <1> SUFFICES ASSUME NEW a \in Apps, NEW b \in Apps, NEW t \in Ids, Holds(a, t)', Holds(b, t)'
               PROVE  a = b
    BY DEF OneHolder
  <1>0. home' = home
    BY DEF Flow
  <1>1. CASE Holds(a, t) /\ Holds(b, t)
    BY <1>1 DEF OneHolder
  <1>2. CASE ~(Holds(a, t) /\ Holds(b, t))
    <2>1. tokens[t].state = "none"
      BY <1>0, <1>2, HolderSteps
    <2>2. ~Holds(a, t) /\ ~Holds(b, t)
      BY <2>1, HeldExist
    <2>3. PICK v \in Workers : work'[v].app = a /\ work'[v].new = t
      BY <1>0, <2>2, HolderSteps
    <2>4. PICK w \in Workers : work'[w].app = b /\ work'[w].new = t
      BY <1>0, <2>2, HolderSteps
    <2>5. v = w
      BY <2>3, <2>4 DEF Wired, NewOK, Ids
    <2> QED
      BY <2>3, <2>4, <2>5
  <1> QED
    BY <1>1, <1>2

\* The renewal that rotates a token, or issues its successor, is the only one that
\* presents it, and no other app has it.
LEMMA OneExchange ==
    ASSUME TypeOK, Wired, OneHolder, NEW w \in Workers, work[w].kind = "refresh",
           NEW t \in Ids \ abandoned, work[w].token = t
    PROVE  /\ work[w].app \in Apps
           /\ \A v \in Workers : work[v].kind = "refresh" /\ work[v].token = t => v = w
           /\ \A a \in Apps : store[home[a]].refresh = t => a = work[w].app
  <1>1. \A v \in Workers : work[v].kind = "refresh" /\ work[v].token = t =>
            work[v].app \in Apps /\ work[v].app # Nobody /\ Holds(work[v].app, t)
    BY DEF TypeOK, Wired, TaskOK, Task, Holds
  <1>2. \A a \in Apps : store[home[a]].refresh = t => a = work[w].app
    BY <1>1 DEF OneHolder, Holds
  <1>3. \A v \in Workers : work[v].kind = "refresh" /\ work[v].token = t => work[v].app = work[w].app
    BY <1>1 DEF OneHolder
  <1> QED
    BY <1>1, <1>2, <1>3 DEF Wired, OneRenewal

LEMMA StepsKeepSpent ==
    ASSUME TypeOK, Wired, Wired', Flow, [Next]_vars, ~Shared, OneHolder, NEW t \in Ids,
           t \notin abandoned', SpentOK(t)
    PROVE  SpentOK(t)'
  <1>0. /\ work \in [Workers -> Task] /\ store \in [Stores -> Store]
        /\ t # 0 /\ t \notin abandoned /\ home' = home
        /\ \A b \in Apps : home[b] \in Stores
    BY HomesAreStores DEF TypeOK, Ids, Flow
  <1> DEFINE Used == \E v \in Workers : (Rotate(v) \/ Issue(v)) /\ work[v].token = t
  <1>1. ASSUME NEW v \in Workers, Rotate(v) \/ Issue(v), work[v].token = t
        PROVE  SpentOK(t)'
    <2>1. work[v].kind = "refresh"
      BY <1>0, <1>1 DEF Rotate, Issue, At, Wired, TaskOK
    <2>2. /\ work[v].app \in Apps
          /\ \A x \in Workers : work[x].kind = "refresh" /\ work[x].token = t => x = v
          /\ \A a \in Apps : store[home[a]].refresh = t => a = work[v].app
      BY <1>0, <1>1, <2>1, OneExchange
    <2>3. /\ store' = store
          /\ \A x \in Workers : x # v => work'[x] = work[x]
          /\ work'[v].kind = "refresh" /\ work'[v].token = t /\ work'[v].app = work[v].app
          /\ work'[v].step = IF Rotate(v) THEN "issue" ELSE "granted"
      <3>1. CASE Rotate(v)
        BY <1>0, <1>1, <2>1, <3>1 DEF Rotate, Go, Task
      <3>2. CASE Issue(v) /\ ~Rotate(v)
        <4>1. PICK n \in Ids : work' = [work EXCEPT ![v].step = "granted", ![v].new = n]
          BY <3>2 DEF Issue
        <4>2. /\ work'[v].kind = work[v].kind /\ work'[v].token = work[v].token
              /\ work'[v].app = work[v].app /\ work'[v].step = "granted"
              /\ \A x \in Workers : x # v => work'[x] = work[x]
          BY <1>0, <4>1 DEF Task
        <4>3. store' = store
          BY <3>2 DEF Issue
        <4> QED
          BY <1>1, <2>1, <3>2, <4>2, <4>3
      <3> QED
        BY <1>1, <3>1, <3>2
    <2>4. \A w \in Workers : work'[w].kind = "refresh" /\ work'[w].token = t => w = v
      BY <2>2, <2>3
    <2>5. Exchanging(v, t)'
      BY <2>3 DEF Exchanging
    <2>6. \A a \in Apps : store'[home'[a]].refresh = t => work'[v].app = a
      BY <1>0, <2>2, <2>3
    <2>7. HasSuccessor(t)' => work'[v].step = "granted"
      <3> SUFFICES ASSUME Rotate(v), HasSuccessor(t)' PROVE FALSE
        BY <2>3
      <3>1. ~Exchanging(v, t)
        BY DEF Rotate, At, Exchanging
      <3>2. ~HasSuccessor(t)
        BY <1>0, <1>1, <2>1, <3>1 DEF SpentOK, Spent
      <3>3. PICK u \in Ids : tokens'[u].from = t
        BY DEF HasSuccessor
      <3>4. tokens'[u].from = tokens[u].from
        BY DEF Rotate, Ended, TypeOK, Token
      <3> QED
        BY <3>2, <3>3, <3>4 DEF HasSuccessor
    <2>8. \A w \in Workers : Exchanging(w, t)' => w = v
      BY <2>4 DEF Exchanging
    <2> QED
      BY <2>4, <2>5, <2>6, <2>7, <2>8 DEF SpentOK
  <1>2. CASE ~Used
    <2>1. HasSuccessor(t)' => HasSuccessor(t)
      BY <1>2, SessionSteps DEF HasSuccessor
    <2>2. Spent(t)' => Spent(t)
      BY <1>2, <2>1, RotationSteps DEF Spent
    <2>3. ASSUME Spent(t), NEW w \in Workers, work'[w].kind = "refresh", work'[w].token = t
          PROVE  Exchanging(w, t) /\ work'[w].step \in {work[w].step, "granted"}
                    /\ work'[w].app = work[w].app
      <3>1. CASE Unchanged(w)
        BY <1>0, <2>3, <3>1 DEF Unchanged, SpentOK
      <3>2. CASE Returns(w)
        BY <2>3, <3>2 DEF Returns, Idle
      <3>3. CASE LosesApp(w)
        BY <1>0, <2>3, <3>3 DEF LosesApp, Task
      <3>4. CASE Starts(w)
        <4>1. PICK a \in Apps : ~Refreshing(a) /\ store[home[a]].refresh = t
          BY <2>3, <3>4 DEF Starts
        <4>2. PICK x \in Workers : Exchanging(x, t) /\ work[x].app = a
          BY <1>0, <2>3, <4>1 DEF SpentOK
        <4> QED
          BY <4>1, <4>2 DEF Exchanging, Refreshing, Busy
      <3>5. CASE Moves(w)
        <4>1. work[w].kind = "refresh" /\ work[w].token = t
          BY <1>0, <2>3, <3>5 DEF Moves, Task
        <4>2. Exchanging(w, t)
          BY <1>0, <2>3, <4>1 DEF SpentOK
        <4> QED
          BY <3>5, <4>2 DEF Exchanging, Moves
      <3>6. CASE Issue(w)
        <4>1. work[w].kind = "refresh" /\ work[w].token = t
          BY <1>0, <2>3, <3>6 DEF Issue, Task
        <4> QED
          BY <1>2, <3>6, <4>1
      <3> QED
        BY <3>1, <3>2, <3>3, <3>4, <3>5, <3>6, TaskSteps DEF TaskChange
    <2>4. ASSUME Spent(t), NEW w \in Workers, work'[w].kind = "refresh", work'[w].token = t
          PROVE  Exchanging(w, t)'
      BY <2>3, <2>4 DEF Exchanging
    <2>5. ASSUME Spent(t), NEW a \in Apps, store'[home'[a]].refresh = t
          PROVE  \E w \in Workers : Exchanging(w, t)' /\ work'[w].app = a
      <3>1. \A v \in Workers : work[v].new # t
        BY <1>0, <2>5 DEF Wired, NewOK, Spent, HasSuccessor
      <3>2. store[home[a]].refresh = t
        <4>1. CASE store' = store
          BY <1>0, <2>5, <4>1
        <4>2. ASSUME NEW b \in Apps, SetStore(b, Empty) PROVE store[home[a]].refresh = t
          BY <1>0, <2>5, <4>2 DEF SetStore, Empty
        <4>3. ASSUME NEW v \in Workers, work[v].app \in Apps,
                     SetStore(work[v].app, [access |-> "good", refresh |-> work[v].new])
              PROVE  store[home[a]].refresh = t
          BY <1>0, <2>5, <3>1, <4>3 DEF SetStore
        <4>4. ASSUME NEW s \in Stores, AccessRunsOut(s) PROVE store[home[a]].refresh = t
          BY <1>0, <2>5, <4>4 DEF AccessRunsOut, Store
        <4> QED
          BY <4>1, <4>2, <4>3, <4>4, StoreSteps
      <3>3. PICK w \in Workers : Exchanging(w, t) /\ work[w].app = a
        BY <1>0, <2>5, <3>2 DEF SpentOK
      <3>4. work'[w].kind = "refresh" /\ work'[w].token = t
        <4>1. CASE Unchanged(w)
          BY <3>3, <4>1 DEF Unchanged, Exchanging
        <4>2. CASE Returns(w)
          <5>1. Granted(w)
            BY <3>3, <4>2 DEF Returns, Exchanging, Denied, Gone, At
          <5>2. store'[home[a]].refresh = work[w].new
            <6>1. a # Nobody
              OBVIOUS
            <6> QED
              BY <1>0, <3>3, <5>1, <6>1 DEF Granted, SetStore
          <5> QED
            BY <1>0, <2>5, <3>1, <5>2
        <4>3. CASE LosesApp(w)
          BY <1>0, <3>3, <4>3 DEF LosesApp, Exchanging
        <4>4. CASE Starts(w)
          BY <3>3, <4>4 DEF Starts, Exchanging, Idle
        <4>5. CASE Moves(w)
          BY <3>3, <4>5 DEF Moves, Exchanging
        <4>6. CASE Issue(w)
          BY <1>0, <3>3, <4>6 DEF Issue, Exchanging, Task
        <4> QED
          BY <4>1, <4>2, <4>3, <4>4, <4>5, <4>6, TaskSteps DEF TaskChange
      <3> QED
        BY <2>3, <2>4, <2>5, <3>3, <3>4
    <2>6. ASSUME HasSuccessor(t), NEW w \in Workers, Exchanging(w, t)'
          PROVE  work'[w].step = "granted"
      <3>1. Exchanging(w, t) /\ work'[w].step \in {work[w].step, "granted"}
        BY <2>3, <2>6 DEF Spent, Exchanging
      <3>2. work[w].step = "granted"
        BY <1>0, <2>6, <3>1 DEF SpentOK
      <3> QED
        BY <3>1, <3>2
    <2> QED
      BY <2>1, <2>2, <2>4, <2>5, <2>6 DEF SpentOK
  <1> QED
    BY <1>1, <1>2

LEMMA StepsKeepExchanges == TypeOK /\ Wired /\ Exchanges /\ [Next]_vars => Exchanges'
  <1> SUFFICES ASSUME TypeOK, Wired, Exchanges, [Next]_vars, ~Shared'
               PROVE  OneHolder' /\ \A t \in Ids : SpentOK(t)'
    BY DEF Exchanges
  <1>1. Flow /\ Wired'
    BY StepsFlow, StepsKeepWired
  <1>2. ~Shared
    BY <1>1 DEF Flow, Shared
  <1>3. OneHolder /\ \A t \in Ids : SpentOK(t)
    BY <1>2 DEF Exchanges
  <1>4. OneHolder'
    BY <1>1, <1>2, <1>3, StepsKeepOneHolder
  <1>5. ASSUME NEW t \in Ids PROVE SpentOK(t)'
    <2>1. CASE t \in abandoned'
      BY <2>1 DEF SpentOK
    <2>2. CASE t \notin abandoned'
      BY <1>1, <1>2, <1>3, <2>2, StepsKeepSpent
    <2> QED
      BY <2>1, <2>2
  <1> QED
    BY <1>4, <1>5

-----------------------------------------------------------------------------
(* The invariant, and what it says of alarms and successors. *)

LEMMA StepsRaiseNoFalseAlarm == IInv /\ [Next]_vars => NoFalseAlarm'
  <1> SUFFICES ASSUME IInv, [Next]_vars, NEW t \in alarms', ~Shared', tokens'[t].end = "rotation"
               PROVE  t \in abandoned'
    BY DEF NoFalseAlarm
  <1>1. Flow /\ ~Shared
    BY StepsFlow DEF IInv, Flow, Shared
  <1>2. CASE t \in alarms
    <2>1. t \in Ids /\ tokens'[t] = tokens[t]
      BY <1>1, <1>2 DEF IInv, TypeOK, Wired, AlarmsOK, Flow, TokensFlow
    <2> QED
      BY <1>1, <1>2, <2>1 DEF IInv, NoFalseAlarm, Flow
  <1>3. ASSUME t \notin alarms PROVE \E w \in Workers : Read(w)
    BY <1>3 DEF Next, Step, ReadStatus, Rotate, Issue, Granted, Denied, Revoke, Gone, LoseAnswer, Call,
                Hear, Login, Logout, ChangePassword, Kill, Restore, RestoreFails, Suspend, Reactivate,
                AccessRunsOut, vars, history
  <1>4. ASSUME NEW w \in Workers, Read(w), t \notin alarms PROVE t \in abandoned'
    <2>1. t = work[w].token /\ tokens[t].state = "revoked" /\ work[w].kind = "refresh"
      BY <1>4 DEF Read, Revoked, At, IInv, Wired, TaskOK
    <2>2. t \in Ids
      BY <2>1, <1>1, TokensExist DEF IInv, Wired, TaskOK
    <2>3. Spent(t)
      BY <1>1, <2>1, <2>2 DEF Flow, TokensFlow, Spent
    <2>4. ~Exchanging(w, t)
      BY <1>4 DEF Read, At, Exchanging
    <2>5. t \in abandoned
      BY <1>1, <2>1, <2>2, <2>3, <2>4 DEF IInv, Exchanges, SpentOK
    <2> QED
      BY <1>1, <2>5 DEF Flow
  <1> QED
    BY <1>2, <1>3, <1>4

LEMMA StepsKeepOneSuccessor == IInv /\ [Next]_vars => OneSuccessor'
  <1> SUFFICES ASSUME IInv, [Next]_vars, NEW t \in Ids, NEW u \in Ids, ~Shared', t # u,
                      tokens'[t].from = tokens'[u].from
               PROVE  tokens'[t].from \in abandoned' \cup {0}
    BY DEF OneSuccessor
  <1>1. Flow /\ ~Shared
    BY StepsFlow DEF IInv, Flow, Shared
  <1>2. CASE \A x \in Ids : tokens'[x].from = tokens[x].from
    BY <1>1, <1>2 DEF IInv, OneSuccessor, Flow
  <1>3. ASSUME NEW w \in Workers, NEW n \in Ids, Issue(w), tokens[n].state = "none",
               \A x \in Ids : x # n => tokens'[x].from = tokens[x].from,
               tokens'[n].from = work[w].token
        PROVE  tokens'[t].from \in abandoned' \cup {0}
    <2>1. CASE t # n /\ u # n
      BY <1>1, <1>3, <2>1 DEF IInv, OneSuccessor, Flow
    <2>2. ASSUME NEW x \in Ids, x # n, tokens[x].from = work[w].token, work[w].token # 0
          PROVE  work[w].token \in abandoned
      <3>1. work[w].token \in Ids /\ HasSuccessor(work[w].token)
        BY <2>2, <1>1, TokensExist DEF IInv, HasSuccessor
      <3>2. work[w].step = "issue" /\ work[w].kind = "refresh"
        BY <1>3, <2>2 DEF Issue, At, IInv, Wired, TaskOK
      <3>3. Exchanging(w, work[w].token) /\ work[w].step # "granted"
        BY <3>2 DEF Exchanging
      <3> QED
        BY <1>1, <3>1, <3>3 DEF IInv, Exchanges, SpentOK
    <2> QED
      BY <1>1, <1>3, <2>1, <2>2 DEF Flow
  <1> QED
    BY <1>1, <1>2, <1>3, SessionSteps DEF IInv

LEMMA Initially == Init => IInv
  <1> SUFFICES ASSUME Init PROVE IInv
    OBVIOUS
  <1>1. TypeOK
    BY IdleIsTask DEF Init, TypeOK, Token, Store, Empty, App, SignedOut, Ids
  <1>2. Wired
    BY DEF Init, Wired, CallsBounded, CallsOf, SignedOut, StoreOK, Empty, TaskOK, NewOK, Idle, OneRenewal,
           AlarmsOK
  <1>3. Exchanges
    <2>1. \A a \in Apps : home[a] \in Stores
      BY <1>1, HomesAreStores
    <2>2. ASSUME NEW a \in Apps, NEW t \in Ids PROVE ~Holds(a, t)
      BY <2>1 DEF Init, Holds, Idle, Empty, Ids
    <2>3. ASSUME NEW t \in Ids PROVE ~Spent(t)
      BY DEF Init, Spent, HasSuccessor, Ids
    <2> QED
      BY <2>2, <2>3 DEF Exchanges, OneHolder, SpentOK, Spent
  <1>4. NoFalseAlarm /\ OneSuccessor
    BY DEF Init, NoFalseAlarm, OneSuccessor
  <1> QED
    BY <1>1, <1>2, <1>3, <1>4 DEF IInv

LEMMA Invariant == Spec => []IInv
  <1>1. IInv /\ [Next]_vars => IInv'
    BY StepsTyped, StepsKeepWired, StepsKeepExchanges, StepsRaiseNoFalseAlarm, StepsKeepOneSuccessor
       DEF IInv
  <1> QED
    BY <1>1, Initially, PTL DEF Spec

\* Every variable keeps to its type, the bounded number of an app's calls included: none is
\* forgotten or counted twice, whatever comes between the steps of a renewal (lib/api.ts).
THEOREM TypeCorrect == Spec => []TypeOK
  <1>1. IInv => TypeOK
    BY DEF IInv
  <1> QED
    BY <1>1, Invariant, PTL

\* The reuse alarm of refresh() (auth.service.ts) is false for no app that keeps its own
\* tokens, unless the app was killed, or lost the answer, while it exchanged the token:
\* however many apps there are, and however many of their calls are refused at once.
THEOREM NoAlarmByItself == Spec => []NoFalseAlarm
  <1>1. IInv => NoFalseAlarm
    BY DEF IInv
  <1> QED
    BY <1>1, Invariant, PTL

\* A session is exchanged for one fresh session (issueSession() in auth.service.ts), with the
\* same exceptions: two requests never rotate one token into two live sessions.
THEOREM OneFreshPair == Spec => []OneSuccessor
  <1>1. IInv => OneSuccessor
    BY DEF IInv
  <1> QED
    BY <1>1, Invariant, PTL
=============================================================================
