----------------------------- MODULE Otp_proofs -----------------------------
(***************************************************************************)
(* Proofs about Otp: they hold for any number of devices, accounts, codes, *)
(* tries and codes per hour.                                               *)
(***************************************************************************)
EXTENDS Otp, FiniteSetTheorems, TLAPS

USE OtpAssumption

-----------------------------------------------------------------------------
(* The inductive invariant. *)

\* What a request under way knows: the code it made or found, the account it is for, and
\* that a code it goes on with had arrived at the number.
RequestOK(a) ==
    LET r == request[a]
        s == screen[a]
    IN  /\ r.step \in {"deliver", "count", "findAccount", "consume", "write"} => r.code \in CodeIds
        /\ s.purpose = "change" <=> session[a] # Nobody
        /\ r.step = "readHolder" => s.purpose = "change"
        /\ r.step = "findAccount" => s.purpose # "change"
        /\ s.purpose = "change" /\ r.step \in {"readHolder", "check", "count", "consume", "write"}
             => r.account = session[a]
        /\ s.purpose = "login" /\ r.step \in {"consume", "write"} => r.account \in created
        /\ s.carried # 0 => codes[s.carried].delivered
        /\ r.typed # 0 => codes[r.typed].delivered
        /\ r.step \in {"findAccount", "consume", "write"} => codes[r.code].delivered
        /\ r.step = "deliver" => codes[r.code].state # "none" /\ ~codes[r.code].delivered
        /\ r.step = "write" => codes[r.code].state = "consumed" /\ works[r.code] = 0

\* No two requests deliver, or open something with, one code.
Alone(a, b) ==
    /\ request[a].step = request[b].step
    /\ request[a].step \in {"deliver", "write"}
    /\ request[a].code = request[b].code
    => a = b

CodeOK(c) ==
    /\ codes[c].delivered => codes[c].state # "none"
    /\ works[c] \in {0, 1}
    /\ works[c] = 1 => codes[c].delivered /\ codes[c].state = "consumed"

\* A code gets one account the number.
ProofOK(x) ==
    /\ proof[x] # 0 => works[proof[x]] = 1
    /\ \A y \in Accounts : proof[x] = proof[y] /\ proof[x] # 0 => x = y

Uses ==
    /\ \A a \in Apps : RequestOK(a)
    /\ \A a, b \in Apps : Alone(a, b)
    /\ \A c \in CodeIds : CodeOK(c)
    /\ \A x \in Accounts : ProofOK(x)
    /\ holder # Nobody => proof[holder] # 0
    /\ Old \in created

\* The guesses at code c that the check has let pass and nobody has counted yet.
Counting(c) == {a \in Apps : At(a, "count") /\ request[a].code = c}

GuessesCounted ==
    \A c \in CodeIds :
        codes[c].attempts + Cardinality(Counting(c)) <= MaxTries + Cardinality(Apps) - 1

IInv == TypeOK /\ Uses /\ GuessesCounted /\ SentWithinLimit

-----------------------------------------------------------------------------
(* What one request's step means for the others. *)

\* A code that arrived stays so, and one that arrived and is used up stays used up.
CodesMoveOn ==
    \A c \in CodeIds :
        /\ codes[c].state # "none" => codes'[c].state # "none"
        /\ codes[c].delivered => codes'[c].delivered
        /\ codes[c].delivered /\ codes[c].state = "consumed" => codes'[c].state = "consumed"

Untouched(b) ==
    /\ request'[b] = request[b] /\ screen'[b] = screen[b] /\ session'[b] = session[b]
    /\ At(b, "deliver") => ~codes'[request[b].code].delivered
    /\ At(b, "write") => works'[request[b].code] = 0

LEMMA UntouchedIsOK ==
    ASSUME TypeOK, NEW b \in Apps, RequestOK(b), Untouched(b), CodesMoveOn, created \subseteq created'
    PROVE  RequestOK(b)'
  <1>1. request[b] \in Request /\ screen[b] \in Screen
    BY DEF TypeOK
  <1>2. request[b].typed # 0 => request[b].typed \in CodeIds
    BY <1>1 DEF Request, CodeIds
  <1>3. screen[b].carried # 0 => screen[b].carried \in CodeIds
    BY <1>1 DEF Screen, CodeIds
  <1>4. request'[b] = request[b] /\ screen'[b] = screen[b] /\ session'[b] = session[b]
    BY DEF Untouched
  <1> QED
    BY <1>2, <1>3, <1>4 DEF RequestOK, Untouched, CodesMoveOn, At

LEMMA OneRequestMoves ==
    ASSUME TypeOK, Uses, CodesMoveOn, created \subseteq created',
           NEW a \in Apps, RequestOK(a)',
           \A b \in Apps \ {a} : Untouched(b),
           \A b \in Apps \ {a} : request'[a].step \in {"deliver", "write"}
                                   => ~At(b, request'[a].step) \/ request[b].code # request'[a].code
    PROVE  (\A b \in Apps : RequestOK(b)') /\ (\A b, d \in Apps : Alone(b, d)')
  <1>1. ASSUME NEW b \in Apps PROVE RequestOK(b)'
    BY UntouchedIsOK DEF Uses
  <1>2. ASSUME NEW b \in Apps, NEW d \in Apps PROVE Alone(b, d)'
    <2>1. CASE b # a /\ d # a
      <3>1. request'[b] = request[b] /\ request'[d] = request[d]
        BY <2>1 DEF Untouched
      <3> QED
        BY <3>1 DEF Uses, Alone
    <2>2. CASE b = a \/ d = a
      BY <2>2 DEF Alone, Untouched, At
    <2> QED
      BY <2>1, <2>2
  <1> QED
    BY <1>1, <1>2

\* A step that uses no code and writes no number.
LEMMA NothingUsed ==
    ASSUME TypeOK, Uses, UNCHANGED <<codes, holder, created, works, proof>>,
           NEW a \in Apps, RequestOK(a)', request'[a].step \notin {"deliver", "write"},
           \A b \in Apps \ {a} :
               request'[b] = request[b] /\ screen'[b] = screen[b] /\ session'[b] = session[b]
    PROVE  Uses'
  <1>1. CodesMoveOn
    BY DEF CodesMoveOn
  <1>2. \A b \in Apps \ {a} : Untouched(b)
    BY DEF Untouched, Uses, RequestOK, At
  <1>3. (\A b \in Apps : RequestOK(b)') /\ (\A b, d \in Apps : Alone(b, d)')
    BY <1>1, <1>2, OneRequestMoves
  <1>4. (\A c \in CodeIds : CodeOK(c)') /\ (\A x \in Accounts : ProofOK(x)')
    BY DEF Uses, CodeOK, ProofOK
  <1> QED
    BY <1>3, <1>4 DEF Uses

\* A step that changes codes, and opens nothing.
LEMMA CodesUsed ==
    ASSUME TypeOK, Uses, UNCHANGED <<holder, created, works, proof>>, CodesMoveOn,
           \A c \in CodeIds : codes'[c].delivered => codes'[c].state # "none",
           NEW a \in Apps, RequestOK(a)',
           \A b \in Apps \ {a} :
               /\ request'[b] = request[b] /\ screen'[b] = screen[b] /\ session'[b] = session[b]
               /\ At(b, "deliver") => ~codes'[request[b].code].delivered,
           \A b \in Apps \ {a} : request'[a].step \in {"deliver", "write"}
                                   => ~At(b, request'[a].step) \/ request[b].code # request'[a].code
    PROVE  Uses'
  <1>1. \A b \in Apps \ {a} : Untouched(b)
    BY DEF Untouched, Uses, RequestOK, At
  <1>2. (\A b \in Apps : RequestOK(b)') /\ (\A b, d \in Apps : Alone(b, d)')
    BY <1>1, OneRequestMoves
  <1>3. (\A c \in CodeIds : CodeOK(c)') /\ (\A x \in Accounts : ProofOK(x)')
    BY DEF Uses, CodeOK, ProofOK, CodesMoveOn
  <1> QED
    BY <1>2, <1>3 DEF Uses

\* A step that opens something with its code: it is the only one that can.
LEMMA CodeWorks ==
    ASSUME TypeOK, Uses, UNCHANGED codes, created \subseteq created',
           NEW a \in Apps, At(a, "write"), RequestOK(a)', request'[a].step = "idle",
           works' = [works EXCEPT ![request[a].code] = @ + 1],
           \A b \in Apps \ {a} :
               request'[b] = request[b] /\ screen'[b] = screen[b] /\ session'[b] = session[b]
    PROVE  /\ \A b \in Apps : RequestOK(b)'
           /\ \A b, d \in Apps : Alone(b, d)'
           /\ \A c \in CodeIds : CodeOK(c)'
           /\ request[a].code \in CodeIds /\ works'[request[a].code] = 1
           /\ \A x \in Accounts : proof[x] # request[a].code
  <1> DEFINE used == request[a].code
  <1>1. used \in CodeIds /\ works[used] = 0 /\ codes[used].delivered /\ codes[used].state = "consumed"
    BY DEF Uses, RequestOK, At
  <1>2. works'[used] = 1 /\ \A c \in CodeIds \ {used} : works'[c] = works[c]
    BY <1>1 DEF TypeOK
  <1>3. \A b \in Apps \ {a} : Untouched(b)
    <2> SUFFICES ASSUME NEW b \in Apps \ {a} PROVE Untouched(b)
      OBVIOUS
    <2>1. At(b, "write") => request[b].code # used
      BY DEF Uses, Alone, At
    <2> QED
      BY <1>2, <2>1 DEF Untouched, Uses, RequestOK, At
  <1>4. CodesMoveOn
    BY DEF CodesMoveOn
  <1>5. (\A b \in Apps : RequestOK(b)') /\ (\A b, d \in Apps : Alone(b, d)')
    BY <1>3, <1>4, OneRequestMoves
  <1>6. \A c \in CodeIds : CodeOK(c)'
    BY <1>1, <1>2 DEF Uses, CodeOK
  <1>7. used # 0
    BY <1>1 DEF CodeIds
  <1>8. \A x \in Accounts : proof[x] # used
    BY <1>1, <1>7 DEF Uses, ProofOK
  <1> QED
    BY <1>1, <1>2, <1>5, <1>6, <1>8

-----------------------------------------------------------------------------
(* The steps keep what a request knows. *)

\* 401: the client goes back to the entry, or sends the request again.
LEMMA RefusedIsOK ==
    ASSUME TypeOK, NEW a \in Apps, RequestOK(a), RefuseCode(a), CodesMoveOn,
           session' = session, created' = created,
           request[a].step \in {"check", "count", "consume"}
    PROVE  /\ RequestOK(a)' /\ request'[a].step \in {"idle", "readHolder"}
           /\ \A b \in Apps \ {a} : request'[b] = request[b] /\ screen'[b] = screen[b]
  <1>1. /\ request \in [Apps -> Request] /\ screen \in [Apps -> Screen]
        /\ request[a].typed # 0 => request[a].typed \in CodeIds
        /\ screen[a].carried # 0 => screen[a].carried \in CodeIds
    BY DEF TypeOK, Request, Screen, CodeIds
  <1>2. /\ screen'[a].purpose = screen[a].purpose /\ screen'[a].carried \in {0, screen[a].carried}
        /\ \A b \in Apps \ {a} : screen'[b] = screen[b]
    BY <1>1 DEF RefuseCode, Screen
  <1>3. CASE screen[a].purpose = "change" /\ ~request[a].again
    <2>1. /\ request'[a].step = "readHolder" /\ request'[a].account = request[a].account
          /\ request'[a].typed = request[a].typed
          /\ \A b \in Apps \ {a} : request'[b] = request[b]
      BY <1>1, <1>3 DEF RefuseCode, Request
    <2> QED
      BY <1>1, <1>2, <1>3, <2>1 DEF RequestOK, CodesMoveOn
  <1>4. CASE ~(screen[a].purpose = "change" /\ ~request[a].again)
    <2>1. request'[a] = Idle /\ \A b \in Apps \ {a} : request'[b] = request[b]
      BY <1>1, <1>4 DEF RefuseCode, Done
    <2> QED
      BY <1>1, <1>2, <2>1 DEF RequestOK, CodesMoveOn, Idle
  <1> QED
    BY <1>3, <1>4

LEMMA StepsUseCodes == TypeOK /\ Uses /\ [Next]_vars => Uses'
  <1> SUFFICES ASSUME TypeOK, Uses, [Next]_vars PROVE Uses'
    OBVIOUS
  <1> USE DEF At
  <1>0. /\ request \in [Apps -> Request] /\ screen \in [Apps -> Screen]
        /\ codes \in [CodeIds -> Code] /\ session \in [Apps -> created \cup {Nobody}]
        /\ \A a \in Apps : RequestOK(a)
        /\ \A c \in CodeIds : CodeOK(c)
    BY DEF TypeOK, Uses
  <1>1. ASSUME NEW a \in Apps, NEW purpose \in Purposes, OpenScreen(a, purpose) PROVE Uses'
    <2>1. RequestOK(a)'
      BY <1>0, <1>1 DEF OpenScreen, RequestOK, Request
    <2> QED
      BY <1>0, <1>1, <2>1, NothingUsed DEF OpenScreen
  <1>2. ASSUME NEW a \in Apps, PasswordLogin(a) PROVE Uses'
    <2>1. RequestOK(a)'
      BY <1>0, <1>2 DEF PasswordLogin, RequestOK, Request
    <2> QED
      BY <1>0, <1>2, <2>1, NothingUsed DEF PasswordLogin
  <1>3. ASSUME NEW a \in Apps, AskForCode(a) PROVE Uses'
    <2>1. RequestOK(a)' /\ request'[a].step = "readRecent"
      BY <1>0, <1>3 DEF AskForCode, Go, RequestOK, Request
    <2> QED
      BY <1>0, <1>3, <2>1, NothingUsed DEF AskForCode, Go
  <1>4. ASSUME NEW a \in Apps, ReadRecent(a) PROVE Uses'
    <2>1. /\ RequestOK(a)' /\ request'[a].step \in {"idle", "replace"}
          /\ \A b \in Apps \ {a} : request'[b] = request[b] /\ screen'[b] = screen[b]
      <3>1. CASE Done(a) /\ Show(a, "code")
        BY <1>0, <3>1, <1>4 DEF ReadRecent, Done, Show, Idle, RequestOK, Request, Screen
      <3>2. CASE Done(a) /\ UNCHANGED screen
        BY <1>0, <3>2, <1>4 DEF ReadRecent, Done, Idle, RequestOK, Request
      <3>3. CASE Go(a, "replace") /\ UNCHANGED screen
        BY <1>0, <3>3, <1>4 DEF ReadRecent, Go, RequestOK, Request
      <3> QED
        BY <1>4, <3>1, <3>2, <3>3 DEF ReadRecent
    <2> QED
      BY <1>4, <2>1, NothingUsed DEF ReadRecent
  <1>5. ASSUME NEW a \in Apps, Replace(a) PROVE Uses'
    <2>1. \A c \in CodeIds : /\ codes'[c].delivered = codes[c].delivered
                             /\ codes[c].state = "unused" => codes'[c].state = "consumed"
                             /\ codes[c].state # "unused" => codes'[c].state = codes[c].state
      BY <1>0, <1>5 DEF Replace, Code
    <2>2. /\ RequestOK(a)' /\ request'[a].step = "insert"
          /\ \A b \in Apps \ {a} : request'[b] = request[b]
      BY <1>0, <1>5, <2>1 DEF Replace, Go, RequestOK, Request, Screen, CodeIds
    <2>3. CodesMoveOn /\ \A c \in CodeIds : codes'[c].delivered => codes'[c].state # "none"
      BY <1>0, <2>1 DEF CodesMoveOn, CodeOK
    <2>4. \A b \in Apps : request[b].step = "deliver" => ~codes'[request[b].code].delivered
      BY <1>0, <2>1 DEF RequestOK
    <2> QED
      BY <1>5, <2>2, <2>3, <2>4, CodesUsed DEF Replace
  <1>6. ASSUME NEW a \in Apps, Insert(a) PROVE Uses'
    <2>1. PICK c \in CodeIds :
            /\ codes[c].state = "none"
            /\ codes' = [codes EXCEPT ![c].state = "unused"]
            /\ request' = [request EXCEPT ![a].step = "deliver", ![a].code = c]
      BY <1>6 DEF Insert
    <2>2. /\ codes'[c].state = "unused" /\ codes'[c].delivered = codes[c].delivered
          /\ \A d \in CodeIds \ {c} : codes'[d] = codes[d]
      BY <1>0, <2>1 DEF Code
    <2>3. ~codes[c].delivered
      BY <1>0, <2>1 DEF CodeOK
    <2>4. /\ request'[a].step = "deliver" /\ request'[a].code = c
          /\ request'[a].typed = request[a].typed
          /\ \A b \in Apps \ {a} : request'[b] = request[b]
      BY <1>0, <2>1 DEF Request
    <2>5. RequestOK(a)'
      BY <1>0, <1>6, <2>2, <2>3, <2>4 DEF Insert, RequestOK, Request, Screen, CodeIds
    <2>6. CodesMoveOn /\ \A d \in CodeIds : codes'[d].delivered => codes'[d].state # "none"
      BY <1>0, <2>1, <2>2, <2>3 DEF CodesMoveOn, CodeOK
    <2>7. \A b \in Apps : request[b].step = "deliver" =>
             ~codes'[request[b].code].delivered /\ request[b].code # c
      BY <1>0, <2>1, <2>2, <2>3 DEF RequestOK
    <2> QED
      BY <1>6, <2>4, <2>5, <2>6, <2>7, CodesUsed DEF Insert
  <1>7. ASSUME NEW a \in Apps, NEW arrives \in BOOLEAN, NEW fails \in BOOLEAN, Deliver(a, arrives, fails)
        PROVE  Uses'
    <2> DEFINE c == request[a].code
    <2>1. c \in CodeIds /\ codes[c].state # "none" /\ ~codes[c].delivered
      BY <1>0, <1>7 DEF Deliver, RequestOK
    <2>2. /\ codes'[c].state \in {codes[c].state, "deleted"}
          /\ \A d \in CodeIds \ {c} : codes'[d] = codes[d]
      BY <1>0, <1>7, <2>1 DEF Deliver, Code
    <2>3. /\ request'[a] = Idle /\ \A b \in Apps \ {a} : request'[b] = request[b] /\ screen'[b] = screen[b]
          /\ screen'[a].purpose = screen[a].purpose /\ screen'[a].carried = screen[a].carried
      BY <1>0, <1>7 DEF Deliver, Done, Show, Screen
    <2>4. CodesMoveOn /\ \A d \in CodeIds : codes'[d].delivered => codes'[d].state # "none"
      BY <1>0, <2>1, <2>2 DEF CodesMoveOn, CodeOK
    <2>5. RequestOK(a)'
      BY <1>0, <1>7, <2>3, <2>4 DEF Deliver, RequestOK, Idle, CodesMoveOn, Screen, CodeIds
    <2>6. \A b \in Apps \ {a} : request[b].step = "deliver" =>
             request[b].code # c /\ ~codes'[request[b].code].delivered
      BY <1>0, <1>7, <2>2 DEF Deliver, Uses, Alone, RequestOK
    <2>7. UNCHANGED <<holder, created, session, works, proof>> /\ request'[a].step = "idle"
      BY <1>7, <2>3 DEF Deliver, Idle
    <2> QED
      BY <2>3, <2>4, <2>5, <2>6, <2>7, CodesUsed
  <1>8. ASSUME NEW a \in Apps, NEW typed \in 0..MaxCodes, Enter(a, typed) PROVE Uses'
    <2>1. /\ request'[a] = [Idle EXCEPT !.typed = typed, !.account = session[a],
                              !.step = IF screen[a].purpose = "change" THEN "readHolder" ELSE "check"]
          /\ \A b \in Apps \ {a} : request'[b] = request[b]
      BY <1>0, <1>8 DEF Enter
    <2>2. typed # 0 => codes[typed].delivered
      BY <1>0, <1>8 DEF Enter, RequestOK
    <2>3. RequestOK(a)'
      BY <1>0, <1>8, <2>1, <2>2 DEF Enter, RequestOK, Idle
    <2> QED
      BY <1>8, <2>1, <2>3, NothingUsed DEF Enter, Idle
  <1>9. ASSUME NEW a \in Apps, ReadHolder(a) PROVE Uses'
    <2>1. /\ RequestOK(a)' /\ request'[a].step \in {"idle", "check"}
          /\ \A b \in Apps \ {a} : request'[b] = request[b]
      BY <1>0, <1>9 DEF ReadHolder, Go, Done, Idle, RequestOK, Request
    <2> QED
      BY <1>9, <2>1, NothingUsed DEF ReadHolder
  <1>10. ASSUME NEW a \in Apps, Check(a) PROVE Uses'
    <2>1. CASE RefuseCode(a)
      <3>1. CodesMoveOn
        BY <1>10 DEF Check, CodesMoveOn
      <3> QED
        BY <1>0, <1>10, <2>1, <3>1, RefusedIsOK, NothingUsed DEF Check
    <2>2. ASSUME NEW c \in Candidates, screen' = screen,
                 request' = [request EXCEPT
                               ![a].code = c,
                               ![a].step = IF ~Matches(request[a].typed, c) THEN "count"
                                           ELSE IF screen[a].purpose = "change" THEN "consume"
                                           ELSE "findAccount"]
          PROVE  Uses'
      <3>1. c \in CodeIds
        BY DEF Candidates
      <3>2. /\ request'[a].code = c /\ request'[a].account = request[a].account
            /\ request'[a].typed = request[a].typed
            /\ request'[a].step = IF request[a].typed # c THEN "count"
                                  ELSE IF screen[a].purpose = "change" THEN "consume"
                                  ELSE "findAccount"
            /\ \A b \in Apps \ {a} : request'[b] = request[b]
        BY <1>0, <2>2 DEF Matches, Request
      <3>3. request[a].step = "check" /\ UNCHANGED <<codes, holder, created, session, works, proof>>
        BY <1>10 DEF Check
      <3>4. RequestOK(a)'
        BY <1>0, <2>2, <3>1, <3>2, <3>3 DEF RequestOK, CodeIds
      <3>5. screen' = screen /\ request'[a].step \notin {"deliver", "write"}
        BY <2>2, <3>2
      <3> QED
        BY <3>2, <3>3, <3>4, <3>5, NothingUsed
    <2> QED
      BY <1>10, <2>1, <2>2 DEF Check
  <1>11. ASSUME NEW a \in Apps, Count(a) PROVE Uses'
    <2>1. \A c \in CodeIds : codes'[c].state = codes[c].state /\ codes'[c].delivered = codes[c].delivered
      BY <1>0, <1>11 DEF Count, Code
    <2>2. CodesMoveOn /\ \A c \in CodeIds : codes'[c].delivered => codes'[c].state # "none"
      BY <1>0, <2>1 DEF CodesMoveOn, CodeOK
    <2>3. /\ RequestOK(a)' /\ request'[a].step \in {"idle", "readHolder"}
          /\ \A b \in Apps \ {a} : request'[b] = request[b] /\ screen'[b] = screen[b]
      BY <1>0, <1>11, <2>2, RefusedIsOK DEF Count
    <2>4. \A b \in Apps : request[b].step = "deliver" => ~codes'[request[b].code].delivered
      BY <1>0, <2>1 DEF RequestOK
    <2> QED
      BY <1>11, <2>2, <2>3, <2>4, CodesUsed DEF Count
  <1>12. ASSUME NEW a \in Apps, FindAccount(a) PROVE Uses'
    <2>1. request[a].code \in CodeIds /\ codes[request[a].code].delivered /\ screen[a].purpose # "change"
      BY <1>0, <1>12 DEF FindAccount, RequestOK
    <2>2. CASE screen[a].purpose = "login" /\ holder = Nobody
      <3>1. /\ request'[a] = Idle /\ \A b \in Apps \ {a} : request'[b] = request[b] /\ screen'[b] = screen[b]
            /\ screen'[a] = [purpose |-> "signup", form |-> "carried", carried |-> request[a].code]
        BY <1>0, <1>12, <2>2 DEF FindAccount, Done
      <3>2. RequestOK(a)'
        BY <1>0, <1>12, <2>1, <3>1 DEF FindAccount, RequestOK, Idle
      <3> QED
        BY <1>12, <3>1, <3>2, NothingUsed DEF FindAccount, Idle
    <2>3. CASE ~(screen[a].purpose = "login" /\ holder = Nobody)
      <3>1. /\ screen' = screen
            /\ \A b \in Apps \ {a} : request'[b] = request[b]
            /\ \/ request'[a] = Idle
               \/ /\ request'[a].step = "consume" /\ request'[a].code = request[a].code
                  /\ request'[a].typed = request[a].typed
                  /\ screen[a].purpose = "login" => request'[a].account \in created
        BY <1>0, <1>12, <2>3 DEF FindAccount, Done, Go, Request, TypeOK
      <3>2. RequestOK(a)'
        BY <1>0, <1>12, <2>1, <3>1 DEF FindAccount, RequestOK, Idle
      <3> QED
        BY <1>12, <3>1, <3>2, NothingUsed DEF FindAccount, Idle
    <2> QED
      BY <2>2, <2>3
  <1>13. ASSUME NEW a \in Apps, Consume(a) PROVE Uses'
    <2> DEFINE c == request[a].code
    <2>1. c \in CodeIds /\ codes[c].delivered
      BY <1>0, <1>13 DEF Consume, RequestOK
    <2>2. CASE StillUnused(c)
      <3>1. /\ codes'[c].state = "consumed" /\ codes'[c].delivered
            /\ codes[c].state = "unused" /\ \A d \in CodeIds \ {c} : codes'[d] = codes[d]
            /\ screen' = screen
        BY <1>0, <1>13, <2>1, <2>2 DEF Consume, StillUnused, Code
      <3>2. /\ request'[a].step = "write" /\ request'[a].code = c /\ request'[a].typed = request[a].typed
            /\ request'[a].account = request[a].account
            /\ \A b \in Apps \ {a} : request'[b] = request[b]
        BY <1>0, <1>13, <2>2 DEF Consume, Go, Request
      <3>3. CodesMoveOn /\ \A d \in CodeIds : codes'[d].delivered => codes'[d].state # "none"
        BY <1>0, <3>1 DEF CodesMoveOn, CodeOK
      <3>4. works[c] = 0
        BY <1>0, <2>1, <3>1 DEF CodeOK
      <3>5. \A d \in CodeIds : codes[d].delivered => codes'[d].delivered
        BY <3>3 DEF CodesMoveOn
      <3>6. RequestOK(a)'
        BY <1>0, <1>13, <2>1, <3>1, <3>2, <3>4, <3>5 DEF Consume, RequestOK, Screen, Request, CodeIds
      <3>7. \A b \in Apps \ {a} : /\ request[b].step = "write" => request[b].code # c
                                  /\ request[b].step = "deliver" => ~codes'[request[b].code].delivered
        BY <1>0, <2>1, <3>1 DEF RequestOK
      <3> QED
        BY <1>13, <3>1, <3>2, <3>3, <3>6, <3>7, CodesUsed DEF Consume
    <2>3. CASE ~StillUnused(c)
      <3>1. CodesMoveOn /\ codes' = codes /\ RefuseCode(a)
        BY <1>13, <2>3 DEF Consume, CodesMoveOn
      <3> QED
        BY <1>0, <1>13, <3>1, RefusedIsOK, NothingUsed DEF Consume
    <2> QED
      BY <2>2, <2>3
  <1>14. ASSUME NEW a \in Apps, WriteLogin(a) PROVE Uses'
    <2>1. /\ request'[a] = Idle /\ screen'[a] = [purpose |-> "change", form |-> "number", carried |-> 0]
          /\ session'[a] = request[a].account /\ request[a].account \in created
          /\ \A b \in Apps \ {a} :
               request'[b] = request[b] /\ screen'[b] = screen[b] /\ session'[b] = session[b]
      BY <1>0, <1>14 DEF WriteLogin, SignIn, Done, RequestOK
    <2>2. RequestOK(a)'
      BY <1>0, <2>1 DEF RequestOK, Idle, TypeOK
    <2>3. /\ \A b \in Apps : RequestOK(b)'
          /\ \A b, d \in Apps : Alone(b, d)'
          /\ \A c \in CodeIds : CodeOK(c)'
          /\ works'[request[a].code] = 1
          /\ \A x \in Accounts : proof[x] # request[a].code
      <3>1. /\ At(a, "write") /\ UNCHANGED <<codes, created>> /\ request'[a].step = "idle"
            /\ works' = [works EXCEPT ![request[a].code] = @ + 1]
        BY <1>14, <2>1 DEF WriteLogin, SignIn, Idle
      <3> QED
        BY <2>1, <2>2, <3>1, CodeWorks
    <2>4. \A x \in Accounts : ProofOK(x)'
      BY <1>14, <2>3 DEF WriteLogin, SignIn, Uses, ProofOK, TypeOK
    <2> QED
      BY <1>14, <2>3, <2>4 DEF WriteLogin, Uses
  <1>15. ASSUME NEW a \in Apps, NEW x \in Accounts, TakeNumber(a, x), At(a, "write"),
                works' = [works EXCEPT ![request[a].code] = @ + 1],
                UNCHANGED codes, created \subseteq created', RequestOK(a)', request'[a].step = "idle",
                \A b \in Apps \ {a} :
                    request'[b] = request[b] /\ screen'[b] = screen[b] /\ session'[b] = session[b]
         PROVE  Uses'
    <2> DEFINE c == request[a].code
    <2>1. /\ \A b \in Apps : RequestOK(b)'
          /\ \A b, d \in Apps : Alone(b, d)'
          /\ \A d \in CodeIds : CodeOK(d)'
          /\ c \in CodeIds /\ works'[c] = 1
          /\ \A y \in Accounts : proof[y] # c
      BY <1>15, CodeWorks
    <2>2. c # 0 /\ proof'[x] = c /\ \A y \in Accounts \ {x} : proof'[y] = proof[y]
      BY <1>15, <2>1 DEF TakeNumber, TypeOK, CodeIds
    <2>3. \A d \in CodeIds \ {c} : works'[d] = works[d]
      BY <1>15, <2>1 DEF TypeOK
    <2>4. \A y \in Accounts : proof[y] \in {0} \cup CodeIds
      BY DEF TypeOK, CodeIds
    <2>5. \A y \in Accounts : ProofOK(y)'
      BY <2>1, <2>2, <2>3, <2>4 DEF Uses, ProofOK
    <2> QED
      BY <1>15, <2>1, <2>2, <2>5 DEF Uses, TakeNumber
  <1>16. ASSUME NEW a \in Apps, WriteSignup(a) PROVE Uses'
    <2>1. PICK x \in Accounts \ created :
            created' = created \cup {x} /\ TakeNumber(a, x) /\ SignIn(a, x)
      BY <1>16 DEF WriteSignup
    <2>2. /\ request'[a] = Idle /\ screen'[a] = [purpose |-> "change", form |-> "number", carried |-> 0]
          /\ session'[a] = x /\ x # Nobody
          /\ \A b \in Apps \ {a} :
               request'[b] = request[b] /\ screen'[b] = screen[b] /\ session'[b] = session[b]
      BY <1>0, <1>16, <2>1 DEF WriteSignup, SignIn, Done
    <2>3. RequestOK(a)'
      BY <2>2 DEF RequestOK, Idle
    <2>4. /\ At(a, "write") /\ UNCHANGED codes /\ request'[a].step = "idle"
          /\ works' = [works EXCEPT ![request[a].code] = @ + 1]
      BY <1>16, <2>1, <2>2 DEF WriteSignup, SignIn, Idle
    <2> QED
      BY <1>15, <2>1, <2>2, <2>3, <2>4
  <1>17. ASSUME NEW a \in Apps, WriteChange(a) PROVE Uses'
    <2>1. request[a].account = session[a] /\ session[a] # Nobody /\ request[a].account \in Accounts
      BY <1>0, <1>17 DEF WriteChange, RequestOK, Request
    <2>2. /\ request'[a] = Idle /\ screen'[a].purpose = screen[a].purpose
          /\ screen'[a].carried = screen[a].carried
          /\ \A b \in Apps \ {a} : request'[b] = request[b] /\ screen'[b] = screen[b]
      BY <1>0, <1>17 DEF WriteChange, Done, Show, Screen
    <2>3. RequestOK(a)'
      BY <1>0, <1>17, <2>1, <2>2 DEF WriteChange, RequestOK, Idle
    <2>4. /\ At(a, "write") /\ UNCHANGED <<codes, created, session>> /\ request'[a].step = "idle"
          /\ works' = [works EXCEPT ![request[a].code] = @ + 1]
          /\ TakeNumber(a, request[a].account)
      BY <1>17, <2>2 DEF WriteChange, Idle
    <2> QED
      BY <1>15, <2>1, <2>2, <2>3, <2>4
  <1>18. ASSUME NEW a \in Apps, WriteRefused(a) \/ Die(a) PROVE Uses'
    <2>1. /\ request'[a] = Idle /\ screen' = screen /\ session' = session
          /\ \A b \in Apps \ {a} : request'[b] = request[b]
      BY <1>0, <1>18 DEF WriteRefused, Die, Done
    <2>2. RequestOK(a)'
      BY <1>0, <1>18, <2>1 DEF WriteRefused, Die, RequestOK, Idle
    <2> QED
      BY <1>18, <2>1, <2>2, NothingUsed DEF WriteRefused, Die, Idle
  <1>19. ASSUME NEW c \in CodeIds, Older(c) PROVE Uses'
    <2>1. \A d \in CodeIds : codes'[d].state = codes[d].state /\ codes'[d].delivered = codes[d].delivered
      BY <1>0, <1>19 DEF Older, Code
    <2>2. \A a \in Apps : /\ request[a].typed # 0 => request[a].typed \in CodeIds
                          /\ screen[a].carried # 0 => screen[a].carried \in CodeIds
      BY <1>0 DEF Request, Screen, CodeIds
    <2>3. \A a \in Apps : RequestOK(a)'
      BY <1>0, <1>19, <2>1, <2>2 DEF Older, RequestOK
    <2>4. (\A d \in CodeIds : CodeOK(d)') /\ (\A a, b \in Apps : Alone(a, b)')
          /\ (\A x \in Accounts : ProofOK(x)')
      BY <1>19, <2>1 DEF Older, Uses, CodeOK, Alone, ProofOK
    <2> QED
      BY <1>19, <2>3, <2>4 DEF Older, Uses
  <1>20. CASE MoveAway \/ UNCHANGED vars
    BY <1>20 DEF MoveAway, vars, Uses, RequestOK, Alone, CodeOK, ProofOK
  <1> QED
    BY <1>1, <1>2, <1>3, <1>4, <1>5, <1>6, <1>7, <1>8, <1>9, <1>10, <1>11, <1>12, <1>13, <1>14,
       <1>16, <1>17, <1>18, <1>19, <1>20 DEF Next, Step

-----------------------------------------------------------------------------
(* The two limits. *)

LEMMA OneLess ==
    ASSUME NEW S, IsFiniteSet(S), NEW x \in S, NEW T, T = S \ {x}
    PROVE  Cardinality(T) = Cardinality(S) - 1
  BY FS_RemoveElement

LEMMA AppsCounted ==
    ASSUME NEW S \in SUBSET Apps
    PROVE  IsFiniteSet(S) /\ Cardinality(S) \in 0..Cardinality(Apps) /\ Cardinality(Apps) \in Nat
  BY FS_Subset, FS_CardinalityType

LEMMA CodesCounted ==
    ASSUME NEW S \in SUBSET CodeIds
    PROVE  IsFiniteSet(S) /\ Cardinality(S) \in Nat
  <1>1. IsFiniteSet(CodeIds)
    BY FS_Interval DEF CodeIds
  <1> QED
    BY <1>1, FS_Subset, FS_CardinalityType

\* A step that lets no guess at c pass the check, and counts none.
LEMMA NoGuess ==
    ASSUME TypeOK, GuessesCounted, NEW c \in CodeIds, codes'[c].attempts = codes[c].attempts,
           Counting(c)' \subseteq Counting(c)
    PROVE  codes'[c].attempts + Cardinality(Counting(c)') <= MaxTries + Cardinality(Apps) - 1
  <1>1. Counting(c) \in SUBSET Apps /\ codes[c].attempts \in Nat
    BY DEF Counting, TypeOK, Code
  <1>2. Cardinality(Counting(c)') <= Cardinality(Counting(c))
    BY <1>1, AppsCounted, FS_Subset
  <1>3. codes[c].attempts + Cardinality(Counting(c)) <= MaxTries + Cardinality(Apps) - 1
    BY DEF GuessesCounted
  <1>4. Cardinality(Counting(c)) \in Nat /\ Cardinality(Counting(c)') \in Nat /\ Cardinality(Apps) \in Nat
    BY <1>1, AppsCounted
  <1> QED
    BY <1>1, <1>2, <1>3, <1>4

LEMMA GuessesStayCounted == TypeOK /\ Uses /\ GuessesCounted /\ [Next]_vars => GuessesCounted'
  <1> SUFFICES ASSUME TypeOK, Uses, GuessesCounted, [Next]_vars, NEW c \in CodeIds
               PROVE  codes'[c].attempts + Cardinality(Counting(c)') <= MaxTries + Cardinality(Apps) - 1
    BY DEF GuessesCounted
  <1> DEFINE Goal == codes'[c].attempts + Cardinality(Counting(c)') <= MaxTries + Cardinality(Apps) - 1
  <1> HIDE DEF Goal
  <1> SUFFICES Goal
    BY DEF Goal
  <1>0. /\ request \in [Apps -> Request] /\ codes \in [CodeIds -> Code]
        /\ codes[c].attempts \in Nat /\ Cardinality(Apps) \in Nat
    BY AppsCounted DEF TypeOK, Code
  <1>1. \* the steps after which no more requests count
        ASSUME NEW a \in Apps, request'[a].step # "count",
               \A b \in Apps \ {a} : request'[b] = request[b],
               codes'[c].attempts = codes[c].attempts
        PROVE  Goal
    <2>1. Counting(c)' \subseteq Counting(c)
      BY <1>1 DEF Counting, At
    <2> QED
      BY <1>1, <2>1, NoGuess DEF Goal
  <1>2. ASSUME NEW a \in Apps,
               \/ \E purpose \in Purposes : OpenScreen(a, purpose)
               \/ PasswordLogin(a)
        PROVE  Goal
    <2>1. Counting(c)' \subseteq Counting(c) /\ codes' = codes
      BY <1>2 DEF OpenScreen, PasswordLogin, Counting, At
    <2> QED
      BY <2>1, NoGuess DEF Goal
  <1>3. ASSUME NEW a \in Apps, \/ AskForCode(a) \/ ReadRecent(a) \/ Insert(a) \/ ReadHolder(a)
        PROVE  Goal
    <2>1. request'[a].step # "count" /\ \A b \in Apps \ {a} : request'[b] = request[b]
      BY <1>0, <1>3 DEF AskForCode, ReadRecent, Insert, ReadHolder, Go, Done, Idle, Request
    <2>2. codes'[c].attempts = codes[c].attempts
      BY <1>0, <1>3 DEF AskForCode, ReadRecent, Insert, ReadHolder, Code
    <2> QED
      BY <1>1, <2>1, <2>2
  <1>4. ASSUME NEW a \in Apps, Replace(a) PROVE Goal
    <2>1. request'[a].step # "count" /\ \A b \in Apps \ {a} : request'[b] = request[b]
      BY <1>0, <1>4 DEF Replace, Go, Request
    <2>2. codes'[c].attempts = codes[c].attempts
      BY <1>0, <1>4 DEF Replace, Code
    <2> QED
      BY <1>1, <2>1, <2>2
  <1>15. ASSUME NEW a \in Apps, NEW arrives \in BOOLEAN, NEW fails \in BOOLEAN, Deliver(a, arrives, fails)
         PROVE  Goal
    <2>1. request'[a].step # "count" /\ \A b \in Apps \ {a} : request'[b] = request[b]
      BY <1>0, <1>15 DEF Deliver, Done, Idle
    <2>2. codes'[c].attempts = codes[c].attempts
      BY <1>0, <1>15 DEF Deliver, Code
    <2> QED
      BY <1>1, <2>1, <2>2
  <1>5. ASSUME NEW a \in Apps, \E typed \in 0..MaxCodes : Enter(a, typed)
        PROVE  Goal
    <2>1. request'[a].step # "count" /\ \A b \in Apps \ {a} : request'[b] = request[b]
      BY <1>0, <1>5 DEF Enter, Idle
    <2> QED
      BY <1>1, <1>5, <2>1 DEF Enter
  <1>6. ASSUME NEW a \in Apps, RefuseCode(a), codes' = codes
        PROVE  Goal
    <2>1. request'[a].step # "count" /\ \A b \in Apps \ {a} : request'[b] = request[b]
      BY <1>0, <1>6 DEF RefuseCode, Done, Idle, Request
    <2> QED
      BY <1>1, <1>6, <2>1
  <1>7. ASSUME NEW a \in Apps, Check(a), ~RefuseCode(a)
        PROVE  Goal
    <2>1. PICK d \in Candidates :
            /\ Open(d)
            /\ request' = [request EXCEPT
                             ![a].code = d,
                             ![a].step = IF ~Matches(request[a].typed, d) THEN "count"
                                         ELSE IF screen[a].purpose = "change" THEN "consume"
                                         ELSE "findAccount"]
      BY <1>7 DEF Check
    <2>2. codes' = codes
      BY <1>7 DEF Check
    <2>3. CASE d = c
      <3>1. codes[c].attempts <= MaxTries - 1
        BY <1>0, <2>1, <2>3 DEF Open
      <3>2. Cardinality(Counting(c)') \in 0..Cardinality(Apps)
        BY AppsCounted DEF Counting
      <3> QED
        BY <1>0, <2>2, <3>1, <3>2 DEF Goal
    <2>4. CASE d # c
      <3>1. Counting(c)' \subseteq Counting(c)
        BY <1>0, <2>1, <2>4 DEF Counting, At, Request
      <3> QED
        BY <2>2, <3>1, NoGuess DEF Goal
    <2> QED
      BY <2>3, <2>4
  <1>8. ASSUME NEW a \in Apps, Count(a)
        PROVE  Goal
    <2>1. request'[a].step # "count" /\ \A b \in Apps \ {a} : request'[b] = request[b]
      BY <1>0, <1>8 DEF Count, RefuseCode, Done, Idle, Request
    <2>2. request[a].code \in CodeIds /\ At(a, "count")
      BY <1>8 DEF Count, Uses, RequestOK, At
    <2>3. CASE request[a].code # c
      <3>1. codes'[c].attempts = codes[c].attempts
        BY <1>0, <1>8, <2>3 DEF Count
      <3> QED
        BY <1>1, <2>1, <3>1
    <2>4. CASE request[a].code = c
      <3>1. codes'[c].attempts \in {codes[c].attempts, codes[c].attempts + 1}
        BY <1>0, <1>8, <2>4 DEF Count, Code
      <3>2. Counting(c)' = Counting(c) \ {a} /\ a \in Counting(c)
        BY <2>1, <2>2, <2>4 DEF Counting, At
      <3>3. IsFiniteSet(Counting(c)) /\ Cardinality(Counting(c)) \in Nat
        BY AppsCounted DEF Counting
      <3>4. Cardinality(Counting(c)') = Cardinality(Counting(c)) - 1
        BY <3>2, <3>3, OneLess
      <3>5. codes[c].attempts + Cardinality(Counting(c)) <= MaxTries + Cardinality(Apps) - 1
        BY DEF GuessesCounted
      <3> QED
        BY <1>0, <3>1, <3>3, <3>4, <3>5 DEF Goal
    <2> QED
      BY <2>3, <2>4
  <1>9. ASSUME NEW a \in Apps, FindAccount(a)
        PROVE  Goal
    <2>1. request'[a].step # "count" /\ \A b \in Apps \ {a} : request'[b] = request[b]
      BY <1>0, <1>9 DEF FindAccount, Go, Done, Idle, Request
    <2> QED
      BY <1>1, <1>9, <2>1 DEF FindAccount
  <1>10. ASSUME NEW a \in Apps, Consume(a)
        PROVE  Goal
    <2>1. request'[a].step # "count" /\ \A b \in Apps \ {a} : request'[b] = request[b]
      BY <1>0, <1>10 DEF Consume, RefuseCode, Go, Done, Idle, Request
    <2>2. codes'[c].attempts = codes[c].attempts
      BY <1>0, <1>10 DEF Consume, Code
    <2> QED
      BY <1>1, <2>1, <2>2
  <1>11. ASSUME NEW a \in Apps,
                WriteLogin(a) \/ WriteSignup(a) \/ WriteChange(a) \/ WriteRefused(a) \/ Die(a)
        PROVE  Goal
    <2>1. codes' = codes /\ Done(a)
      BY <1>11 DEF WriteLogin, WriteSignup, WriteChange, WriteRefused, Die
    <2>2. request'[a].step # "count" /\ \A b \in Apps \ {a} : request'[b] = request[b]
      BY <1>0, <2>1 DEF Done, Idle
    <2> QED
      BY <1>1, <2>1, <2>2
  <1>12. ASSUME request' = request, codes'[c].attempts = codes[c].attempts
         PROVE  Goal
    <2>1. Counting(c)' \subseteq Counting(c)
      BY <1>12 DEF Counting, At
    <2> QED
      BY <1>12, <2>1, NoGuess DEF Goal
  <1>13. ASSUME NEW d \in CodeIds, Older(d)
         PROVE  Goal
    <2>1. codes'[c].attempts = codes[c].attempts
      BY <1>0, <1>13 DEF Older, Code
    <2> QED
      BY <1>12, <1>13, <2>1 DEF Older
  <1>14. CASE MoveAway \/ UNCHANGED vars
    BY <1>12, <1>14 DEF MoveAway, vars
  <1> QED
    BY <1>2, <1>3, <1>4, <1>5, <1>6, <1>7, <1>8, <1>9, <1>10, <1>11, <1>13, <1>14, <1>15
       DEF Next, Step, Check

\* Requests that have counted the codes of the hour and not inserted theirs.
OnTheWay == {a \in Apps : At(a, "replace") \/ At(a, "insert")}

LEMMA SentStaysWithinLimit == TypeOK /\ SentWithinLimit /\ [Next]_vars => SentWithinLimit'
  <1> SUFFICES ASSUME TypeOK, SentWithinLimit, [Next]_vars PROVE SentWithinLimit'
    OBVIOUS
  <1> DEFINE Goal == Cardinality(Recent') + Cardinality(OnTheWay') <= PerHour + Cardinality(Apps) - 1
  <1> HIDE DEF Goal
  <1> SUFFICES Goal
    BY DEF Goal, SentWithinLimit, OnTheWay, At
  <1>0. /\ request \in [Apps -> Request] /\ codes \in [CodeIds -> Code]
        /\ Cardinality(Recent) + Cardinality(OnTheWay) <= PerHour + Cardinality(Apps) - 1
        /\ IsFiniteSet(Recent) /\ Cardinality(Recent) \in Nat
        /\ IsFiniteSet(OnTheWay) /\ Cardinality(OnTheWay) \in Nat /\ Cardinality(Apps) \in Nat
    BY AppsCounted, CodesCounted DEF TypeOK, SentWithinLimit, OnTheWay, Recent
  <1>1. \* the steps that make no code and count none
        ASSUME Recent' \subseteq Recent, OnTheWay' \subseteq OnTheWay PROVE Goal
    <2>1. Cardinality(Recent') <= Cardinality(Recent) /\ Cardinality(OnTheWay') <= Cardinality(OnTheWay)
      BY <1>0, <1>1, FS_Subset
    <2>2. Cardinality(Recent') \in Nat /\ Cardinality(OnTheWay') \in Nat
      BY AppsCounted, CodesCounted DEF OnTheWay, Recent
    <2> QED
      BY <1>0, <2>1, <2>2 DEF Goal
  <1>2. ASSUME NEW a \in Apps, request'[a].step \notin {"replace", "insert"},
               \A b \in Apps \ {a} : request'[b] = request[b],
               \A c \in CodeIds : /\ Exists(c)' => Exists(c)
                                  /\ codes'[c].age = codes[c].age
        PROVE  Goal
    <2>1. Recent' \subseteq Recent /\ OnTheWay' \subseteq OnTheWay
      BY <1>2 DEF Recent, OnTheWay, At
    <2> QED
      BY <1>1, <2>1
  <1>3. ASSUME NEW a \in Apps,
               \/ \E purpose \in Purposes : OpenScreen(a, purpose)
               \/ PasswordLogin(a)
        PROVE  Goal
    <2>1. codes' = codes /\ request' = request
      BY <1>3 DEF OpenScreen, PasswordLogin
    <2> QED
      BY <1>1, <2>1 DEF Recent, OnTheWay, At, Exists
  <1>4. ASSUME NEW a \in Apps, ReadRecent(a) PROVE Goal
    <2>1. codes' = codes /\ Recent' = Recent
      BY <1>4 DEF ReadRecent, Recent, Exists
    <2>2. CASE Done(a)
      <3>1. request'[a].step = "idle" /\ \A b \in Apps \ {a} : request'[b] = request[b]
        BY <1>0, <2>2 DEF Done, Idle
      <3> QED
        BY <1>2, <2>1, <3>1 DEF Exists
    <2>3. CASE ~HourlyLimit
      <3>1. Cardinality(Recent) <= PerHour - 1
        BY <1>0, <2>3 DEF HourlyLimit
      <3>2. Cardinality(OnTheWay') \in 0..Cardinality(Apps)
        BY AppsCounted DEF OnTheWay
      <3> QED
        BY <1>0, <2>1, <3>1, <3>2 DEF Goal
    <2> QED
      BY <1>4, <2>2, <2>3 DEF ReadRecent
  <1>5. ASSUME NEW a \in Apps, Replace(a) PROVE Goal
    <2>1. \A c \in CodeIds : codes'[c].age = codes[c].age /\ (Exists(c)' => Exists(c))
      BY <1>0, <1>5 DEF Replace, Exists, Code
    <2>2. OnTheWay' \subseteq OnTheWay
      BY <1>0, <1>5 DEF Replace, Go, OnTheWay, At, Request
    <2>3. Recent' \subseteq Recent
      BY <2>1 DEF Recent
    <2> QED
      BY <1>1, <2>2, <2>3
  <1>6. ASSUME NEW a \in Apps, Insert(a) PROVE Goal
    <2>1. PICK c \in CodeIds :
            /\ codes' = [codes EXCEPT ![c].state = "unused"]
            /\ request' = [request EXCEPT ![a].step = "deliver", ![a].code = c]
      BY <1>6 DEF Insert
    <2>2. \A d \in CodeIds \ {c} : codes'[d] = codes[d]
      BY <1>0, <2>1
    <2>3. Recent' \subseteq Recent \cup {c}
      BY <2>2 DEF Recent, Exists
    <2>4. IsFiniteSet(Recent \cup {c}) /\ Cardinality(Recent \cup {c}) <= Cardinality(Recent) + 1
      <3>1. /\ IsFiniteSet(Recent \cup {c})
            /\ Cardinality(Recent \cup {c}) = IF c \in Recent THEN Cardinality(Recent)
                                              ELSE Cardinality(Recent) + 1
        BY <1>0, FS_AddElement
      <3> QED
        BY <1>0, <3>1
    <2>5. Cardinality(Recent') <= Cardinality(Recent) + 1 /\ Cardinality(Recent') \in Nat
      <3>1. Cardinality(Recent') <= Cardinality(Recent \cup {c})
        BY <2>3, <2>4, FS_Subset
      <3>2. Cardinality(Recent') \in Nat /\ Cardinality(Recent \cup {c}) \in Nat
        BY <2>4, CodesCounted, FS_CardinalityType DEF Recent
      <3> QED
        BY <1>0, <2>4, <3>1, <3>2
    <2>6. OnTheWay' = OnTheWay \ {a} /\ a \in OnTheWay
      BY <1>0, <1>6, <2>1 DEF Insert, OnTheWay, At, Request
    <2>7. Cardinality(OnTheWay') = Cardinality(OnTheWay) - 1
      BY <1>0, <2>6, FS_RemoveElement
    <2> QED
      BY <1>0, <2>5, <2>7 DEF Goal
  <1>7. ASSUME NEW a \in Apps, NEW arrives \in BOOLEAN, NEW fails \in BOOLEAN, Deliver(a, arrives, fails)
        PROVE  Goal
    <2>1. request'[a].step = "idle" /\ \A b \in Apps \ {a} : request'[b] = request[b]
      BY <1>0, <1>7 DEF Deliver, Done, Idle
    <2>2. \A c \in CodeIds : codes'[c].age = codes[c].age /\ (Exists(c)' => Exists(c))
      BY <1>0, <1>7 DEF Deliver, Exists, Code
    <2> QED
      BY <1>2, <2>1, <2>2
  <1>8. ASSUME NEW a \in Apps, codes' = codes,
               AskForCode(a) \/ ReadHolder(a) \/ Check(a) \/ FindAccount(a)
        PROVE  Goal
    <2>1. request'[a].step \notin {"replace", "insert"} /\ \A b \in Apps \ {a} : request'[b] = request[b]
      <3>1. CASE AskForCode(a) \/ ReadHolder(a)
        BY <1>0, <3>1 DEF AskForCode, ReadHolder, Go, Done, Idle, Request
      <3>2. CASE Check(a)
        <4>1. CASE RefuseCode(a)
          BY <1>0, <4>1 DEF RefuseCode, Done, Idle, Request
        <4>2. CASE ~RefuseCode(a)
          <5>1. PICK d \in Candidates :
                  request' = [request EXCEPT
                                ![a].code = d,
                                ![a].step = IF ~Matches(request[a].typed, d) THEN "count"
                                            ELSE IF screen[a].purpose = "change" THEN "consume"
                                            ELSE "findAccount"]
            BY <3>2, <4>2 DEF Check
          <5> QED
            BY <1>0, <5>1 DEF Request
        <4> QED
          BY <4>1, <4>2
      <3>3. CASE FindAccount(a)
        BY <1>0, <3>3 DEF FindAccount, Go, Done, Idle, Request
      <3> QED
        BY <1>8, <3>1, <3>2, <3>3
    <2> QED
      BY <1>2, <1>8, <2>1 DEF Exists
  <1>9. ASSUME NEW a \in Apps, Count(a) \/ Consume(a) PROVE Goal
    <2>1. request'[a].step \notin {"replace", "insert"} /\ \A b \in Apps \ {a} : request'[b] = request[b]
      BY <1>0, <1>9 DEF Count, Consume, RefuseCode, Go, Done, Idle, Request
    <2>2. \A c \in CodeIds : codes'[c].age = codes[c].age /\ (Exists(c)' => Exists(c))
      BY <1>0, <1>9 DEF Count, Consume, StillUnused, Exists, Code
    <2> QED
      BY <1>2, <2>1, <2>2
  <1>10. ASSUME NEW a \in Apps, \E typed \in 0..MaxCodes : Enter(a, typed) PROVE Goal
    <2>1. /\ codes' = codes /\ request'[a].step \notin {"replace", "insert"}
          /\ \A b \in Apps \ {a} : request'[b] = request[b]
      BY <1>0, <1>10 DEF Enter, Idle
    <2> QED
      BY <1>2, <2>1 DEF Exists
  <1>11. ASSUME NEW a \in Apps,
                WriteLogin(a) \/ WriteSignup(a) \/ WriteChange(a) \/ WriteRefused(a) \/ Die(a)
        PROVE  Goal
    <2>1. codes' = codes /\ Done(a)
      BY <1>11 DEF WriteLogin, WriteSignup, WriteChange, WriteRefused, Die
    <2>2. request'[a].step = "idle" /\ \A b \in Apps \ {a} : request'[b] = request[b]
      BY <1>0, <2>1 DEF Done, Idle
    <2> QED
      BY <1>2, <2>1, <2>2 DEF Exists
  <1>12. ASSUME NEW d \in CodeIds, Older(d) PROVE Goal
    <2>1. \A c \in CodeIds : /\ codes'[c].state = codes[c].state
                             /\ codes[c].age = "forgotten" => codes'[c].age = "forgotten"
      BY <1>0, <1>12 DEF Older, Code
    <2>2. Recent' \subseteq Recent /\ request' = request
      BY <1>12, <2>1 DEF Older, Recent, Exists
    <2> QED
      BY <1>1, <2>2 DEF OnTheWay, At
  <1>13. CASE MoveAway \/ UNCHANGED vars
    <2>1. codes' = codes /\ request' = request
      BY <1>13 DEF MoveAway, vars
    <2> QED
      BY <1>1, <2>1 DEF Recent, OnTheWay, At, Exists
  <1> QED
    BY <1>3, <1>4, <1>5, <1>6, <1>7, <1>8, <1>9, <1>10, <1>11, <1>12, <1>13
       DEF Next, Step, AskForCode, ReadHolder, Check, FindAccount

-----------------------------------------------------------------------------
(* Type correctness. *)

LEMMA IdleIsRequest == Idle \in Request
  BY DEF Idle, Request, Steps

\* A request goes on to its next step ...
LEMMA NextStepTyped ==
    ASSUME TypeOK, NEW a \in Apps, NEW step \in Steps
    PROVE  [request EXCEPT ![a].step = step] \in [Apps -> Request]
  BY DEF TypeOK, Request

\* ... with the challenge it made or found, ...
LEMMA FoundTyped ==
    ASSUME TypeOK, NEW a \in Apps, NEW step \in Steps, NEW code \in 0..MaxCodes,
           request' = [request EXCEPT ![a].step = step, ![a].code = code]
    PROVE  request' \in [Apps -> Request]
  <1>1. request[a] \in Request /\ request \in [Apps -> Request]
    BY DEF TypeOK
  <1>2. request' = [request EXCEPT ![a] = [request[a] EXCEPT !.step = step, !.code = code]]
    BY <1>1
  <1>3. [request[a] EXCEPT !.step = step, !.code = code] \in Request
    BY <1>1 DEF Request
  <1> QED
    BY <1>1, <1>2, <1>3

\* ... or for the account that was found.
LEMMA AccountTyped ==
    ASSUME TypeOK, NEW a \in Apps, NEW step \in Steps, NEW account \in Accounts \cup {Nobody},
           request' = [request EXCEPT ![a].step = step, ![a].account = account]
    PROVE  request' \in [Apps -> Request]
  <1>1. request[a] \in Request /\ request \in [Apps -> Request]
    BY DEF TypeOK
  <1>2. request' = [request EXCEPT ![a] = [request[a] EXCEPT !.step = step, !.account = account]]
    BY <1>1
  <1>3. [request[a] EXCEPT !.step = step, !.account = account] \in Request
    BY <1>1 DEF Request
  <1> QED
    BY <1>1, <1>2, <1>3

\* A request begins.
LEMMA EntryTyped ==
    ASSUME NEW step \in Steps, NEW typed \in 0..MaxCodes, NEW account \in Accounts \cup {Nobody}
    PROVE  [Idle EXCEPT !.typed = typed, !.account = account, !.step = step] \in Request
  BY IdleIsRequest DEF Request

LEMMA GoTyped ==
    ASSUME TypeOK, NEW a \in Apps,
           \/ Done(a)
           \/ \E step \in {"readRecent", "replace", "insert", "check", "consume", "write"} : Go(a, step)
    PROVE  request' \in [Apps -> Request]
  <1>1. CASE Done(a)
    BY <1>1, IdleIsRequest DEF Done, TypeOK
  <1>2. ASSUME NEW step \in {"readRecent", "replace", "insert", "check", "consume", "write"}, Go(a, step)
        PROVE  request' \in [Apps -> Request]
    <2>1. step \in Steps
      BY DEF Steps
    <2> QED
      BY <1>2, <2>1, NextStepTyped DEF Go
  <1> QED
    BY <1>1, <1>2

LEMMA ShowTyped ==
    ASSUME TypeOK, NEW a \in Apps, NEW form \in {"number", "code"}, Show(a, form)
    PROVE  screen' \in [Apps -> Screen]
  BY DEF TypeOK, Show, Screen

LEMMA RefusedTyped ==
    ASSUME TypeOK, NEW a \in Apps, RefuseCode(a)
    PROVE  request' \in [Apps -> Request] /\ screen' \in [Apps -> Screen]
  <1>1. "readHolder" \in Steps
    BY DEF Steps
  <1>2. request' \in [Apps -> Request]
    <2>1. CASE Done(a)
      BY <2>1, GoTyped
    <2>2. CASE ~Done(a)
      BY <1>1, <2>2 DEF RefuseCode, TypeOK, Request
    <2> QED
      BY <2>1, <2>2
  <1>3. screen' \in [Apps -> Screen]
    BY DEF RefuseCode, TypeOK, Screen
  <1> QED
    BY <1>2, <1>3

\* A guess is counted within what the type allows.
LEMMA GuessTyped ==
    ASSUME TypeOK, Uses, GuessesCounted, NEW a \in Apps, At(a, "count")
    PROVE  /\ request[a].code \in CodeIds
           /\ codes[request[a].code].attempts + 1 \in 0..(MaxTries + 2 * Cardinality(Apps))
  <1> DEFINE c == request[a].code
  <1>1. c \in CodeIds /\ codes[c].attempts \in Nat
    BY DEF Uses, RequestOK, At, TypeOK, Code
  <1>2. Counting(c) \in SUBSET Apps /\ a \in Counting(c)
    BY DEF Counting
  <1>3. IsFiniteSet(Counting(c)) /\ Cardinality(Counting(c)) \in Nat /\ Cardinality(Apps) \in Nat
    BY <1>2, AppsCounted
  <1>4. Cardinality(Counting(c)) # 0
    BY <1>2, <1>3, FS_EmptySet
  <1>5. codes[c].attempts + Cardinality(Counting(c)) <= MaxTries + Cardinality(Apps) - 1
    BY <1>1 DEF GuessesCounted
  <1> QED
    BY <1>1, <1>3, <1>4, <1>5

LEMMA StepsTyped == TypeOK /\ Uses /\ GuessesCounted /\ [Next]_vars => TypeOK'
  <1> SUFFICES ASSUME TypeOK, Uses, GuessesCounted, [Next]_vars PROVE TypeOK'
    OBVIOUS
  <1>0. /\ request \in [Apps -> Request] /\ screen \in [Apps -> Screen]
        /\ codes \in [CodeIds -> Code] /\ session \in [Apps -> created \cup {Nobody}]
        /\ created \subseteq Accounts /\ holder \in created \cup {Nobody}
        /\ works \in [CodeIds -> Nat] /\ proof \in [Accounts -> 0..MaxCodes]
        /\ \A a \in Apps : RequestOK(a)
    BY DEF TypeOK, Uses
  <1> USE DEF At
  <1>1. ASSUME NEW a \in Apps, \E purpose \in Purposes : OpenScreen(a, purpose) PROVE TypeOK'
    <2>1. screen' \in [Apps -> Screen]
      BY <1>0, <1>1 DEF OpenScreen, Screen
    <2> QED
      BY <1>1, <2>1 DEF OpenScreen, TypeOK
  <1>22. ASSUME NEW a \in Apps, PasswordLogin(a) PROVE TypeOK'
    <2>1. screen' \in [Apps -> Screen]
      BY <1>0, <1>22 DEF PasswordLogin, Screen, Purposes
    <2>2. session' \in [Apps -> created \cup {Nobody}]
      BY <1>0, <1>22 DEF PasswordLogin, Uses
    <2> QED
      BY <1>22, <2>1, <2>2 DEF PasswordLogin, TypeOK
  <1>2. ASSUME NEW a \in Apps, AskForCode(a) \/ ReadHolder(a) PROVE TypeOK'
    <2>1. request' \in [Apps -> Request]
      BY <1>2, GoTyped DEF AskForCode, ReadHolder
    <2> QED
      BY <1>2, <2>1 DEF AskForCode, ReadHolder, TypeOK
  <1>3. ASSUME NEW a \in Apps, ReadRecent(a) PROVE TypeOK'
    <2>1. request' \in [Apps -> Request] /\ screen' \in [Apps -> Screen]
      BY <1>0, <1>3, GoTyped, ShowTyped DEF ReadRecent
    <2> QED
      BY <1>3, <2>1 DEF ReadRecent, TypeOK
  <1>4. ASSUME NEW a \in Apps, Replace(a) PROVE TypeOK'
    <2>1. request' \in [Apps -> Request]
      BY <1>4, GoTyped DEF Replace
    <2>2. codes' \in [CodeIds -> Code]
      BY <1>0, <1>4 DEF Replace, Code
    <2> QED
      BY <1>4, <2>1, <2>2 DEF Replace, TypeOK
  <1>5. ASSUME NEW a \in Apps, Insert(a) PROVE TypeOK'
    <2>1. PICK c \in CodeIds :
            /\ codes' = [codes EXCEPT ![c].state = "unused"]
            /\ request' = [request EXCEPT ![a].step = "deliver", ![a].code = c]
      BY <1>5 DEF Insert
    <2>2. codes' \in [CodeIds -> Code]
      BY <1>0, <2>1 DEF Code
    <2>3. "deliver" \in Steps /\ c \in 0..MaxCodes
      BY DEF Steps, CodeIds
    <2>4. request' \in [Apps -> Request]
      BY <2>1, <2>3, FoundTyped
    <2> QED
      BY <1>5, <2>2, <2>4 DEF Insert, TypeOK
  <1>6. ASSUME NEW a \in Apps, NEW arrives \in BOOLEAN, NEW fails \in BOOLEAN, Deliver(a, arrives, fails)
        PROVE  TypeOK'
    <2>1. request[a].code \in CodeIds
      BY <1>0, <1>6 DEF Deliver, RequestOK
    <2>2. codes' \in [CodeIds -> Code]
      BY <1>0, <1>6, <2>1 DEF Deliver, Code
    <2>3. request' \in [Apps -> Request] /\ screen' \in [Apps -> Screen]
      BY <1>0, <1>6, GoTyped, ShowTyped DEF Deliver
    <2> QED
      BY <1>6, <2>2, <2>3 DEF Deliver, TypeOK
  <1>7. ASSUME NEW a \in Apps, NEW typed \in 0..MaxCodes, Enter(a, typed) PROVE TypeOK'
    <2>1. session[a] \in Accounts \cup {Nobody}
      BY <1>0
    <2>2. {"readHolder", "check"} \subseteq Steps
      BY DEF Steps
    <2> DEFINE step == IF screen[a].purpose = "change" THEN "readHolder" ELSE "check"
    <2>3. step \in Steps /\ request' = [request EXCEPT ![a] = [Idle EXCEPT !.typed = typed,
                                                          !.account = session[a], !.step = step]]
      BY <1>7, <2>2 DEF Enter
    <2> HIDE DEF step
    <2>4. request' \in [Apps -> Request]
      BY <1>0, <2>1, <2>3, EntryTyped
    <2> QED
      BY <1>7, <2>4 DEF Enter, TypeOK
  <1>8. ASSUME NEW a \in Apps, Check(a) PROVE TypeOK'
    <2>1. request' \in [Apps -> Request] /\ screen' \in [Apps -> Screen]
      <3>1. CASE RefuseCode(a)
        BY <3>1, RefusedTyped
      <3>2. CASE ~RefuseCode(a)
        <4>1. PICK d \in Candidates :
                request' = [request EXCEPT
                              ![a].code = d,
                              ![a].step = IF ~Matches(request[a].typed, d) THEN "count"
                                          ELSE IF screen[a].purpose = "change" THEN "consume"
                                          ELSE "findAccount"]
          BY <1>8, <3>2 DEF Check
        <4> DEFINE step == IF ~Matches(request[a].typed, d) THEN "count"
                           ELSE IF screen[a].purpose = "change" THEN "consume" ELSE "findAccount"
        <4>2. step \in Steps /\ d \in 0..MaxCodes
          BY DEF Steps, Candidates, CodeIds
        <4>3. request' = [request EXCEPT ![a].step = step, ![a].code = d]
          BY <1>0, <4>1 DEF Request
        <4>4. screen' = screen
          BY <1>8, <3>2 DEF Check
        <4> HIDE DEF step
        <4> QED
          BY <1>0, <4>2, <4>3, <4>4, FoundTyped
      <3> QED
        BY <3>1, <3>2
    <2> QED
      BY <1>8, <2>1 DEF Check, TypeOK
  <1>9. ASSUME NEW a \in Apps, Count(a) PROVE TypeOK'
    <2>1. codes' \in [CodeIds -> Code]
      <3>1. /\ request[a].code \in CodeIds
            /\ codes[request[a].code].attempts + 1 \in 0..(MaxTries + 2 * Cardinality(Apps))
        BY <1>9, GuessTyped DEF Count
      <3> QED
        BY <1>0, <1>9, <3>1 DEF Count, Code
    <2>2. request' \in [Apps -> Request] /\ screen' \in [Apps -> Screen]
      BY <1>9, RefusedTyped DEF Count
    <2> QED
      BY <1>9, <2>1, <2>2 DEF Count, TypeOK
  <1>10. ASSUME NEW a \in Apps, FindAccount(a) PROVE TypeOK'
    <2>1. request[a].code \in 0..MaxCodes
      BY <1>0 DEF Request
    <2>2. screen' \in [Apps -> Screen]
      BY <1>0, <1>10, <2>1 DEF FindAccount, Screen, Purposes
    <2>3. CASE Done(a) \/ Go(a, "consume")
      BY <1>10, <2>2, <2>3, GoTyped DEF FindAccount, TypeOK
    <2>4. CASE request' = [request EXCEPT ![a].step = "consume", ![a].account = holder]
      <3>1. "consume" \in Steps /\ holder \in Accounts \cup {Nobody}
        BY <1>0 DEF Steps
      <3>2. request' \in [Apps -> Request]
        BY <2>4, <3>1, AccountTyped
      <3> QED
        BY <1>10, <2>2, <3>2 DEF FindAccount, TypeOK
    <2> QED
      BY <1>10, <2>3, <2>4 DEF FindAccount
  <1>11. ASSUME NEW a \in Apps, Consume(a) PROVE TypeOK'
    <2>1. codes' \in [CodeIds -> Code]
      <3>1. codes' = codes \/ codes' = [codes EXCEPT ![request[a].code].state = "consumed"]
        BY <1>11 DEF Consume
      <3>2. \A c \in CodeIds : [codes[c] EXCEPT !.state = "consumed"] \in Code
        BY <1>0 DEF Code
      <3> QED
        BY <1>0, <3>1, <3>2
    <2>2. request' \in [Apps -> Request] /\ screen' \in [Apps -> Screen]
      <3>1. CASE RefuseCode(a)
        BY <3>1, RefusedTyped
      <3>2. CASE ~RefuseCode(a)
        BY <1>0, <1>11, <3>2, GoTyped DEF Consume
      <3> QED
        BY <3>1, <3>2
    <2> QED
      BY <1>11, <2>1, <2>2 DEF Consume, TypeOK
  <1>12. ASSUME NEW a \in Apps, Done(a) PROVE request' \in [Apps -> Request]
    BY <1>12, GoTyped
  <1>13. ASSUME NEW a \in Apps, NEW x, SignIn(a, x) PROVE screen' \in [Apps -> Screen]
    BY <1>0, <1>13 DEF SignIn, Screen, Purposes
  <1>14. ASSUME NEW a \in Apps, request[a].step = "write",
                works' = [works EXCEPT ![request[a].code] = @ + 1]
         PROVE  works' \in [CodeIds -> Nat]
    <2>1. request[a].code \in CodeIds
      BY <1>0, <1>14 DEF RequestOK
    <2> QED
      BY <1>0, <1>14, <2>1
  <1>15. ASSUME NEW a \in Apps, NEW x \in Accounts, TakeNumber(a, x)
         PROVE  proof' \in [Accounts -> 0..MaxCodes]
    BY <1>0, <1>15 DEF TakeNumber, Request
  <1>16. ASSUME NEW a \in Apps, WriteLogin(a) PROVE TypeOK'
    <2>1. request[a].account \in created
      BY <1>0, <1>16 DEF WriteLogin, RequestOK
    <2> QED
      BY <1>0, <1>12, <1>13, <1>14, <1>16, <2>1 DEF WriteLogin, SignIn, TypeOK
  <1>17. ASSUME NEW a \in Apps, WriteSignup(a) PROVE TypeOK'
    <2>1. PICK x \in Accounts \ created :
            created' = created \cup {x} /\ TakeNumber(a, x) /\ SignIn(a, x)
      BY <1>17 DEF WriteSignup
    <2>2. session' \in [Apps -> created' \cup {Nobody}] /\ holder' \in created' \cup {Nobody}
      BY <1>0, <2>1 DEF SignIn, TakeNumber
    <2>3. created' \subseteq Accounts
      BY <1>0, <2>1
    <2>4. proof' \in [Accounts -> 0..MaxCodes] /\ works' \in [CodeIds -> Nat] /\ screen' \in [Apps -> Screen]
      BY <1>13, <1>14, <1>15, <1>17, <2>1 DEF SignIn, WriteSignup
    <2> QED
      BY <1>0, <1>12, <1>17, <2>2, <2>3, <2>4 DEF WriteSignup, TypeOK
  <1>18. ASSUME NEW a \in Apps, WriteChange(a) PROVE TypeOK'
    <2>1. request[a].account \in created
      BY <1>0, <1>18 DEF WriteChange, RequestOK
    <2>2. screen' \in [Apps -> Screen]
      BY <1>0, <1>18 DEF WriteChange, Show, Screen
    <2> QED
      BY <1>0, <1>12, <1>14, <1>15, <1>18, <2>1, <2>2 DEF WriteChange, TakeNumber, TypeOK
  <1>19. ASSUME NEW a \in Apps, WriteRefused(a) \/ Die(a) PROVE TypeOK'
    BY <1>12, <1>19 DEF WriteRefused, Die, TypeOK
  <1>20. ASSUME NEW c \in CodeIds, Older(c) PROVE TypeOK'
    <2>1. codes' \in [CodeIds -> Code]
      BY <1>0, <1>20 DEF Older, Code, Ages
    <2> QED
      BY <1>20, <2>1 DEF Older, TypeOK
  <1>21. CASE MoveAway \/ UNCHANGED vars
    BY <1>21 DEF MoveAway, vars, TypeOK
  <1> QED
    BY <1>1, <1>2, <1>3, <1>4, <1>5, <1>6, <1>7, <1>8, <1>9, <1>10, <1>11, <1>16, <1>17, <1>18,
       <1>19, <1>20, <1>21, <1>22 DEF Next, Step

-----------------------------------------------------------------------------
(* The theorems. *)

LEMMA Initially == Init => IInv
  <1> SUFFICES ASSUME Init PROVE IInv
    OBVIOUS
  <1>1. TypeOK
    <2>1. Cardinality(Apps) \in Nat /\ Idle \in Request
      BY AppsCounted, IdleIsRequest
    <2> QED
      BY <2>1 DEF Init, TypeOK, Code, Screen, Purposes, Ages
  <1>2. Uses
    BY DEF Init, Uses, RequestOK, Alone, CodeOK, ProofOK, Idle
  <1>3. Cardinality(Apps) \in Nat /\ Cardinality({}) = 0
    BY AppsCounted, FS_EmptySet
  <1>4. \A c \in CodeIds : Counting(c) = {}
    BY DEF Init, Counting, At, Idle
  <1>5. Recent = {} /\ OnTheWay = {}
    BY DEF Init, Recent, Exists, OnTheWay, At, Idle
  <1>6. GuessesCounted
    <2>1. ASSUME NEW c \in CodeIds PROVE codes[c].attempts = 0 /\ Cardinality(Counting(c)) = 0
      BY <1>3, <1>4 DEF Init
    <2>2. 0 <= MaxTries + Cardinality(Apps) - 1
      BY <1>3
    <2> QED
      BY <2>1, <2>2 DEF GuessesCounted
  <1>7. SentWithinLimit
    BY <1>3, <1>5 DEF SentWithinLimit, OnTheWay
  <1> QED
    BY <1>1, <1>2, <1>6, <1>7 DEF IInv

LEMMA Invariant == Spec => []IInv
  <1>1. IInv /\ [Next]_vars => IInv'
    BY StepsTyped, StepsUseCodes, GuessesStayCounted, SentStaysWithinLimit DEF IInv
  <1> QED
    BY <1>1, Initially, PTL DEF Spec

\* The rows of otp_challenges, the requests and the screens stay well-formed, and the
\* account with the number exists.
THEOREM TypeCorrect == Spec => []TypeOK
  <1>1. IInv => TypeOK
    BY DEF IInv
  <1> QED
    BY <1>1, Invariant, PTL

\* A code signs in, signs up or moves an account once in all: of all the requests that checked
\* it one consumes it, and that one opens one thing with it.
THEOREM CodeWorksOnce == Spec => []WorksOnce
  <1>1. IInv => WorksOnce
    BY DEF IInv, Uses, CodeOK, WorksOnce
  <1> QED
    BY <1>1, Invariant, PTL

\* A code takes MAX_ATTEMPTS guesses, and an hour MAX_PER_HOUR codes, with at most one more
\* for each other request that had passed the check.
THEOREM LimitsAreKept == Spec => []LimitsHold
  <1>1. ASSUME IInv, NEW c \in CodeIds PROVE codes[c].attempts <= MaxTries + Cardinality(Apps) - 1
    <2>1. codes[c].attempts + Cardinality(Counting(c)) <= MaxTries + Cardinality(Apps) - 1
      BY <1>1 DEF IInv, GuessesCounted
    <2>2. codes[c].attempts \in Nat
      BY <1>1 DEF IInv, TypeOK, Code
    <2>3. Cardinality(Counting(c)) \in Nat /\ Cardinality(Apps) \in Nat
      BY AppsCounted DEF Counting
    <2> QED
      BY <2>1, <2>2, <2>3
  <1>2. IInv => LimitsHold
    BY <1>1 DEF IInv, LimitsHold, GuessesBounded
  <1> QED
    BY <1>2, Invariant, PTL

\* Whoever has the number got it with a code that had arrived there and that nobody else got
\* it with, whichever sign-ups and moves to the number overlapped.
THEOREM NumberIsTheirs == Spec => []NumberIsProved
  <1>1. ASSUME IInv, holder # Nobody
        PROVE  /\ proof[holder] # 0
               /\ codes[proof[holder]].delivered
               /\ codes[proof[holder]].state = "consumed"
               /\ \A x \in Accounts \ {holder} : proof[x] # proof[holder]
    <2>1. holder \in Accounts /\ proof[holder] # 0 /\ proof[holder] \in CodeIds
      BY <1>1 DEF IInv, Uses, TypeOK, CodeIds
    <2>2. works[proof[holder]] = 1
      BY <1>1, <2>1 DEF IInv, Uses, ProofOK
    <2>3. \A x \in Accounts \ {holder} : proof[x] # proof[holder]
      BY <1>1, <2>1 DEF IInv, Uses, ProofOK
    <2> QED
      BY <1>1, <2>1, <2>2, <2>3 DEF IInv, Uses, CodeOK
  <1>2. IInv => NumberIsProved
    BY <1>1 DEF NumberIsProved
  <1> QED
    BY <1>2, Invariant, PTL
=============================================================================
