------------------------------ MODULE Sessions ------------------------------
(***************************************************************************)
(* The sessions of one account: the refresh tokens on the server, the      *)
(* places where apps keep them (a phone's keychain, or the cookies that    *)
(* the tabs of one browser share), and the apps, which renew an access     *)
(* token that has run out.  A renewal awaits the database several times,   *)
(* so those of two apps, a logout, a new password and a suspension come    *)
(* between its steps.                                                      *)
(***************************************************************************)
EXTENDS Integers, FiniteSets

CONSTANTS
    Apps,        \* running apps: phones and browser tabs
    Stores,      \* keychains and cookie jars
    Homes,       \* the ways in which apps may use them: functions from Apps to Stores
    MaxCalls,    \* bound: the refused API calls an app has under way at once
    MaxWorkers,  \* bound: the auth requests under way at once
    Nobody,      \* no app
    MaxTokens,   \* bound: sessions ever issued
    MaxFaults    \* bound: apps killed, answers lost

ASSUME SessionsAssumption ==
    /\ Homes \subseteq [Apps -> Stores]
    /\ Nobody \notin Apps
    /\ MaxCalls \in Nat \ {0} /\ MaxTokens \in Nat /\ MaxWorkers \in Nat /\ MaxFaults \in Nat

VARIABLES
    home,       \* the store of each app
    status,     \* the account's status
    tokens,     \* refresh_tokens
    store,      \* what each store holds
    app,        \* app[a]: who it thinks is signed in, and its refused API calls
    work,       \* work[w]: where an auth request stands
    faults,     \* how many faults there have been
    alarms,     \* history: the tokens whose reuse ended every session
    abandoned   \* history: the tokens whose renewal lost its app

vars == <<home, status, tokens, store, app, work, faults, alarms, abandoned>>
history == <<alarms, abandoned>>

Ids == 1..MaxTokens
Workers == 1..MaxWorkers

\* A session: the one it replaces, and what has ended it.
Ends == {"rotation", "logout", "password", "suspension", "alarm"}
Token == [state : {"none", "live", "revoked"}, from : 0..MaxTokens,
          end : Ends \cup {"none"}]

\* The access token, which only time ends, and the refresh token.
Store == [access : {"none", "good", "old"}, refresh : 0..MaxTokens]
Empty == [access |-> "none", refresh |-> 0]

\* refused: calls on whose 401 it has not acted yet; waiting: those that wait for a renewal.
App == [me : {"starting", "in", "out"}, refused : 0..MaxCalls, waiting : 0..MaxCalls]
SignedOut == [me |-> "out", refused |-> 0, waiting |-> 0]
CallsOf(a) == app[a].refused + app[a].waiting

Steps == {"idle", "read", "status", "rotate", "issue", "revoke", "granted", "denied", "gone"}

\* A login, renewal or logout: its app (while that listens), the token presented, and the
\* new token.
Task == [kind : {"none", "login", "refresh", "logout"}, step : Steps, app : Apps \cup {Nobody},
         token : 0..MaxTokens, new : 0..MaxTokens]

Idle == [kind |-> "none", step |-> "idle", app |-> Nobody, token |-> 0, new |-> 0]

At(w, step) == work[w].step = step
Go(w, step) == work' = [work EXCEPT ![w].step = step]
Return(w) == work' = [work EXCEPT ![w] = Idle]
Free(w) == work[w] = Idle /\ \A v \in 1..(w - 1) : work[v] # Idle
Begin(w, kind, step, a) ==
    /\ Free(w)
    /\ work' = [work EXCEPT ![w] = [kind |-> kind, step |-> step, app |-> a,
                                    token |-> store[home[a]].refresh, new |-> 0]]

\* The bound: a token is left for one more request.
Room ==
    LET issuing == {w \in Workers : work[w].kind \in {"login", "refresh"} /\ work[w].new = 0} IN
    Cardinality({t \in Ids : tokens[t].state = "none"}) > Cardinality(issuing)

Busy(a, kind) == \E w \in Workers : work[w].kind = kind /\ work[w].app = a

\* updateMany({ revokedAt: null }): what is no longer live keeps its end.
Ended(t, end) ==
    IF tokens[t].state = "live" THEN [tokens[t] EXCEPT !.state = "revoked", !.end = end]
    ELSE tokens[t]
AllEnded(end) == [t \in Ids |-> Ended(t, end)]

\* canActivate(): a valid access token of an active account.
Accepted(a) == store[home[a]].access = "good" /\ status = "ACTIVE"

SetStore(a, s) == store' = [store EXCEPT ![home[a]] = s]

-----------------------------------------------------------------------------
(* API calls.  One that is accepted changes nothing here. *)

Call(a) ==
    /\ app[a].me = "in"
    /\ CallsOf(a) < MaxCalls
    /\ ~Accepted(a)
    /\ app' = [app EXCEPT ![a].refused = @ + 1]
    /\ UNCHANGED <<home, status, tokens, store, work, faults, history>>

\* Fault: nobody tells the calls that waited.
DropOutAlone(a) ==
    /\ SetStore(a, Empty)
    /\ app' = [app EXCEPT ![a].me = "out"]

\* The calls that waited fail, and the app drops back to sign-in.
DropOut(a) ==
    /\ SetStore(a, Empty)
    /\ app' = [app EXCEPT ![a] = [SignedOut EXCEPT !.refused = app[a].refused]]

\* Fault: every refused call renews the tokens by itself.
NeverBusy(a) == FALSE

\* refreshing: the renewal that other calls wait for.
Refreshing(a) == Busy(a, "refresh")

\* A 401 makes the app renew its tokens, or wait for the renewal under way.
Hear(a) ==
    /\ app[a].refused > 0
    /\ \/ /\ ~Refreshing(a)
          /\ store[home[a]].refresh = 0
          /\ SetStore(a, Empty)
          /\ app' = [app EXCEPT ![a].me = "out", ![a].refused = @ - 1]
          /\ UNCHANGED work
       \/ /\ ~Refreshing(a)
          /\ store[home[a]].refresh # 0
          /\ Room
          /\ \E w \in Workers : Begin(w, "refresh", "read", a)
          /\ app' = [app EXCEPT ![a].refused = @ - 1, ![a].waiting = @ + 1]
          /\ UNCHANGED store
       \/ /\ Refreshing(a)
          /\ app' = [app EXCEPT ![a].refused = @ - 1, ![a].waiting = @ + 1]
          /\ UNCHANGED <<store, work>>
    /\ UNCHANGED <<home, status, tokens, faults, history>>

-----------------------------------------------------------------------------
(* refresh() *)

Revoked(t) == tokens[t].state = "revoked"

\* A token that was already revoked is taken for leaked.  One that is live may have expired.
Read(w) ==
    LET t == work[w].token IN
    /\ At(w, "read")
    /\ \/ /\ Revoked(t)
          /\ tokens' = AllEnded("alarm")
          /\ alarms' = alarms \cup {t}
          /\ Go(w, "denied")
       \/ /\ ~Revoked(t)
          /\ \E expired \in BOOLEAN : Go(w, IF expired THEN "denied" ELSE "status")
          /\ UNCHANGED <<tokens, alarms>>
    /\ UNCHANGED <<home, status, store, app, faults, abandoned>>

ReadStatus(w) ==
    /\ At(w, "status")
    /\ Go(w, IF status = "ACTIVE" THEN "rotate" ELSE "denied")
    /\ UNCHANGED <<home, status, tokens, store, app, faults, history>>

\* Whatever the token has become.
Rotate(w) ==
    LET t == work[w].token IN
    /\ At(w, "rotate")
    /\ tokens' = [tokens EXCEPT ![t] = Ended(t, "rotation")]
    /\ Go(w, "issue")
    /\ UNCHANGED <<home, status, store, app, faults, history>>

\* issueSession(), for a login too.
Issue(w) ==
    /\ At(w, "issue")
    /\ \E n \in Ids :
         /\ tokens[n].state = "none"
         /\ \A x \in 1..(n - 1) : tokens[x].state # "none"
         /\ tokens' = [tokens EXCEPT ![n] = [state |-> "live", from |-> work[w].token,
                                             end |-> "none"]]
         /\ work' = [work EXCEPT ![w].step = "granted", ![w].new = n]
    /\ UNCHANGED <<home, status, store, app, faults, history>>

\* The app saves the tokens; the calls that waited are sent again, once.
Granted(w) ==
    LET a == work[w].app IN
    /\ At(w, "granted")
    /\ IF a = Nobody THEN UNCHANGED <<store, app>>
       ELSE /\ SetStore(a, [access |-> "good", refresh |-> work[w].new])
            /\ app' = [app EXCEPT ![a].me = IF work[w].kind = "login" \/ @ = "starting"
                                            THEN "in" ELSE @,
                                  ![a].waiting = IF work[w].kind = "login" THEN @ ELSE 0]
    /\ Return(w)
    /\ UNCHANGED <<home, status, tokens, faults, history>>

Denied(w) ==
    LET a == work[w].app IN
    /\ At(w, "denied")
    /\ IF a = Nobody THEN UNCHANGED <<store, app>> ELSE DropOut(a)
    /\ Return(w)
    /\ UNCHANGED <<home, status, tokens, faults, history>>

-----------------------------------------------------------------------------
(* Signing in and out *)

Login(a, w) ==
    /\ app[a].me = "out"
    /\ ~Busy(a, "login")
    /\ status = "ACTIVE"
    /\ Room
    /\ Free(w)
    /\ work' = [work EXCEPT ![w] = [Idle EXCEPT !.kind = "login", !.step = "issue", !.app = a]]
    /\ UNCHANGED <<home, status, tokens, store, app, faults, history>>

Logout(a, w) ==
    /\ app[a].me = "in"
    /\ ~Busy(a, "logout")
    /\ Begin(w, "logout", IF store[home[a]].refresh = 0 THEN "gone" ELSE "revoke", a)
    /\ UNCHANGED <<home, status, tokens, store, app, faults, history>>

Revoke(w) ==
    /\ At(w, "revoke")
    /\ tokens' = [tokens EXCEPT ![work[w].token] = Ended(work[w].token, "logout")]
    /\ Go(w, "gone")
    /\ UNCHANGED <<home, status, store, app, faults, history>>

\* The tokens that are stored by now are forgotten; calls under way go on.
Gone(w) ==
    LET a == work[w].app IN
    /\ At(w, "gone")
    /\ IF a = Nobody THEN UNCHANGED <<store, app>>
       ELSE SetStore(a, Empty) /\ app' = [app EXCEPT ![a].me = "out"]
    /\ Return(w)
    /\ UNCHANGED <<home, status, tokens, faults, history>>

-----------------------------------------------------------------------------
(* What ends sessions from outside: one transaction each *)

\* The app that changed the password logs out.
ChangePassword(a, w) ==
    /\ app[a].me = "in"
    /\ Accepted(a)
    /\ tokens' = AllEnded("password")
    /\ ~Busy(a, "logout")
    /\ Begin(w, "logout", "revoke", a)
    /\ UNCHANGED <<home, status, store, app, faults, history>>

Suspend ==
    /\ status = "ACTIVE"
    /\ status' = "SUSPENDED"
    /\ tokens' = AllEnded("suspension")
    /\ UNCHANGED <<home, store, app, work, faults, history>>

Reactivate ==
    /\ status = "SUSPENDED"
    /\ status' = "ACTIVE"
    /\ UNCHANGED <<home, tokens, store, app, work, faults, history>>

-----------------------------------------------------------------------------
(* Time, and faults *)

AccessRunsOut(s) ==
    /\ store[s].access = "good"
    /\ store' = [store EXCEPT ![s].access = "old"]
    /\ UNCHANGED <<home, status, tokens, app, work, faults, history>>

Fault == faults < MaxFaults /\ faults' = faults + 1

\* A request that fails: the app goes by what it hears.
LoseAnswer(w) ==
    LET a == work[w].app IN
    /\ Fault
    /\ a # Nobody
    /\ CASE work[w].kind = "refresh" -> DropOut(a)
         [] work[w].kind = "logout" -> SetStore(a, Empty) /\ app' = [app EXCEPT ![a].me = "out"]
         [] OTHER -> UNCHANGED <<store, app>>
    /\ work' = [work EXCEPT ![w].app = Nobody]
    /\ abandoned' = IF work[w].kind = "refresh" THEN abandoned \cup {work[w].token} ELSE abandoned
    /\ UNCHANGED <<home, status, tokens, alarms>>

Kill(a) ==
    /\ Fault
    /\ app' = [app EXCEPT ![a] = [SignedOut EXCEPT !.me = "starting"]]
    /\ work' = [w \in Workers |-> IF work[w].app = a THEN [work[w] EXCEPT !.app = Nobody]
                                  ELSE work[w]]
    /\ abandoned' = abandoned \cup {work[w].token : w \in {w \in Workers : /\ work[w].app = a
                                                                          /\ work[w].kind = "refresh"}}
    /\ UNCHANGED <<home, status, tokens, store, alarms>>

\* AuthProvider asks who is signed in.  Any failure shows the sign-in screen.
Restore(a) ==
    /\ app[a].me = "starting"
    /\ CallsOf(a) = 0
    /\ app' = IF store[home[a]].refresh = 0 THEN [app EXCEPT ![a].me = "out"]
              ELSE IF Accepted(a) THEN [app EXCEPT ![a].me = "in"]
              ELSE [app EXCEPT ![a].refused = 1]
    /\ UNCHANGED <<home, status, tokens, store, work, faults, history>>

RestoreFails(a) ==
    /\ app[a].me = "starting"
    /\ CallsOf(a) = 0
    /\ store[home[a]].refresh # 0
    /\ app' = [app EXCEPT ![a].me = "out"]
    /\ UNCHANGED <<home, status, tokens, store, work, faults, history>>

-----------------------------------------------------------------------------
Init ==
    /\ home \in Homes
    /\ status = "ACTIVE"
    /\ tokens = [t \in Ids |-> [state |-> "none", from |-> 0, end |-> "none"]]
    /\ store = [s \in Stores |-> Empty]
    /\ app = [a \in Apps |-> SignedOut]
    /\ work = [w \in Workers |-> Idle]
    /\ faults = 0
    /\ alarms = {}
    /\ abandoned = {}

Step(w) ==
    \/ Read(w) \/ ReadStatus(w) \/ Rotate(w) \/ Issue(w)
    \/ Granted(w) \/ Denied(w)
    \/ Revoke(w) \/ Gone(w)

Next ==
    \/ \E w \in Workers : Step(w) \/ LoseAnswer(w)
    \/ \E a \in Apps :
         \/ Call(a) \/ Hear(a)
         \/ \E w \in Workers : Login(a, w) \/ Logout(a, w) \/ ChangePassword(a, w)
         \/ Kill(a) \/ Restore(a) \/ RestoreFails(a)
    \/ Suspend \/ Reactivate
    \/ \E s \in Stores : AccessRunsOut(s)

Fairness ==
    /\ \A w \in Workers : WF_vars(Step(w))
    /\ \A a \in Apps : SF_vars(Hear(a))

Spec == Init /\ [][Next]_vars /\ Fairness

-----------------------------------------------------------------------------
(* Properties *)

TypeOK ==
    /\ home \in Homes
    /\ status \in {"ACTIVE", "SUSPENDED"}
    /\ tokens \in [Ids -> Token]
    /\ store \in [Stores -> Store]
    /\ app \in [Apps -> App]
    /\ work \in [Workers -> Task]
    /\ faults \in 0..MaxFaults
    /\ alarms \subseteq Ids
    /\ abandoned \subseteq Ids

Shared == \E a, b \in Apps : a # b /\ home[a] = home[b]

\* "We assume it leaked": an app that keeps its own tokens raises the alarm with a token it
\* has exchanged only if it was killed, or lost the answer, during the exchange, however
\* many of its calls were refused at once.
NoFalseAlarm ==
    \A t \in alarms : ~Shared /\ tokens[t].end = "rotation" => t \in abandoned

\* "The presented token is revoked and a fresh pair is issued": one fresh pair, unless the
\* app was killed, or lost the answer, during the exchange.
OneSuccessor ==
    \A t, u \in Ids :
        ~Shared /\ t # u /\ tokens[t].from = tokens[u].from =>
            tokens[t].from \in abandoned \cup {0}

\* A refused call comes to an end: with the tokens renewed, or at the sign-in screen.
CallsEnd == \A a \in Apps : app[a].waiting # 0 ~> app[a].waiting = 0

\* "A password change ends every other session" (auth.service.ts): one that it ended has no
\* renewal that goes on.
PasswordEndsSessions ==
    \A t \in Ids : tokens[t].state = "live" /\ tokens[t].from # 0 =>
        tokens[tokens[t].from].end # "password"
=============================================================================
