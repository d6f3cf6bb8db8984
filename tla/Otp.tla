-------------------------------- MODULE Otp --------------------------------
(***************************************************************************)
(* The one-time codes sent to one WhatsApp number, and what they open:     *)
(* signing in to the account with the number, signing up with it, and      *)
(* moving an account to it.  Several apps (phones, browsers) ask for codes *)
(* and enter them; a request awaits the database several times, so those   *)
(* of two apps overlap.                                                    *)
(***************************************************************************)
EXTENDS Integers, FiniteSets

CONSTANTS
    Apps,       \* devices on which somebody types the number
    Accounts,   \* accounts, those that may yet be created included
    Nobody,     \* no account
    Old,        \* the account from before numbers were asked for: it signs in by password
    MaxTries,   \* MAX_ATTEMPTS
    PerHour,    \* MAX_PER_HOUR
    MaxCodes    \* bound: codes ever made

ASSUME OtpAssumption ==
    /\ IsFiniteSet(Apps)
    /\ Old \in Accounts
    /\ Nobody \notin Accounts
    /\ MaxTries \in Nat \ {0} /\ PerHour \in Nat \ {0}
    /\ MaxCodes \in Nat

VARIABLES
    codes,    \* otp_challenges for the number, oldest first
    holder,   \* the account that has the number
    created,  \* the accounts there are
    session,  \* session[a]: the account app a is signed in to
    screen,   \* screen[a]: what app a shows
    request,  \* request[a]: the request of app a under way
    works,    \* history: how often each code has opened something
    proof     \* history: the code each account got the number with

vars == <<codes, holder, created, session, screen, request, works, proof>>

CodeIds == 1..MaxCodes

\* Within the wait for the next one; until it expires; until the hour is over; later.
Ages == {"fresh", "valid", "expired", "forgotten"}

Code == [state : {"none", "unused", "consumed", "deleted"}, delivered : BOOLEAN,
         age : Ages, attempts : 0..(MaxTries + 2 * Cardinality(Apps))]

Purposes == {"login", "signup", "change"}

\* The form asks for the number, or for the code; "carried" is sign-up with the code that
\* was entered at sign-in.
Screen == [purpose : Purposes, form : {"number", "code", "carried"}, carried : 0..MaxCodes]

Steps == {"idle", "readRecent", "replace", "insert", "deliver",
          "readHolder", "check", "count", "findAccount", "consume", "write"}

\* A request: its next step, the code that was typed (0: a wrong one), the challenge it
\* found, the account it is for, and whether the client has sent it again.
Request == [step : Steps, typed : 0..MaxCodes, code : 0..MaxCodes,
            account : Accounts \cup {Nobody}, again : BOOLEAN]

Idle == [step |-> "idle", typed |-> 0, code |-> 0, account |-> Nobody, again |-> FALSE]

At(a, step) == request[a].step = step
Go(a, step) == request' = [request EXCEPT ![a].step = step]
Done(a) == request' = [request EXCEPT ![a] = Idle]
Show(a, form) == screen' = [screen EXCEPT ![a].form = form]

-----------------------------------------------------------------------------
(* The screens: sign-in, sign-up, and the number of an account *)

OpenScreen(a, purpose) ==
    /\ At(a, "idle")
    /\ purpose = "change" <=> session[a] # Nobody
    /\ screen' = [screen EXCEPT ![a] = [purpose |-> purpose, form |-> "number", carried |-> 0]]
    /\ UNCHANGED <<codes, holder, created, session, request, works, proof>>

\* login() by email and password, which only older accounts have.
PasswordLogin(a) ==
    /\ At(a, "idle")
    /\ session[a] = Nobody
    /\ session' = [session EXCEPT ![a] = Old]
    /\ screen' = [screen EXCEPT ![a] = [purpose |-> "change", form |-> "number", carried |-> 0]]
    /\ UNCHANGED <<codes, holder, created, request, works, proof>>

\* The account moves to another number.
MoveAway ==
    /\ holder # Nobody
    /\ holder' = Nobody
    /\ UNCHANGED <<codes, created, session, screen, request, works, proof>>

-----------------------------------------------------------------------------
(* send() *)

Exists(c) == codes[c].state \in {"unused", "consumed"}

\* Signing up with, or moving to, a number that has an account is refused up front.
AskForCode(a) ==
    /\ At(a, "idle")
    /\ screen[a].form # "carried"
    /\ screen[a].purpose = "change" => holder # session[a]
    /\ screen[a].purpose = "login" \/ holder = Nobody
    /\ Go(a, "readRecent")
    /\ UNCHANGED <<codes, holder, created, session, screen, works, proof>>

Recent == {c \in CodeIds : Exists(c) /\ codes[c].age # "forgotten"}

\* Fault: the limit is never looked at.
NoHourlyLimit == FALSE

HourlyLimit == Cardinality(Recent) >= PerHour

\* The wait applies while the last code is unused.
TooSoon ==
    \E c \in Recent : /\ \A d \in Recent : d <= c
                      /\ codes[c].state = "unused"
                      /\ codes[c].age = "fresh"

\* Too soon: the entry for the earlier code is shown.
ReadRecent(a) ==
    /\ At(a, "readRecent")
    /\ \/ TooSoon /\ Done(a) /\ Show(a, "code")
       \/ ~TooSoon /\ HourlyLimit /\ Done(a) /\ UNCHANGED screen
       \/ ~TooSoon /\ ~HourlyLimit /\ Go(a, "replace") /\ UNCHANGED screen
    /\ UNCHANGED <<codes, holder, created, session, works, proof>>

\* A new code replaces the unused ones ...
Replace(a) ==
    /\ At(a, "replace")
    /\ codes' = [c \in CodeIds |-> IF codes[c].state = "unused"
                                   THEN [codes[c] EXCEPT !.state = "consumed"] ELSE codes[c]]
    /\ Go(a, "insert")
    /\ UNCHANGED <<holder, created, session, screen, works, proof>>

\* ... in a statement of its own.
Insert(a) ==
    /\ At(a, "insert")
    /\ \E c \in CodeIds :
         /\ codes[c].state = "none"
         /\ \A d \in 1..(c - 1) : codes[d].state # "none"
         /\ codes' = [codes EXCEPT ![c].state = "unused"]
         /\ request' = [request EXCEPT ![a].step = "deliver", ![a].code = c]
    /\ UNCHANGED <<holder, created, session, screen, works, proof>>

\* An attempt that fails, as far as the server knows, does not count against the number.
Deliver(a, arrives, fails) ==
    LET c == request[a].code IN
    /\ At(a, "deliver")
    /\ arrives \/ fails
    /\ codes' = [codes EXCEPT ![c].delivered = arrives,
                              ![c].state = IF fails THEN "deleted" ELSE @]
    /\ Done(a)
    /\ IF fails THEN UNCHANGED screen ELSE Show(a, "code")
    /\ UNCHANGED <<holder, created, session, works, proof>>

-----------------------------------------------------------------------------
(* Entering the code: check(), consume(), and the handlers between them *)

\* The code that was carried over, one that has arrived, or a wrong one.
Enter(a, typed) ==
    /\ At(a, "idle")
    /\ CASE screen[a].form = "carried" -> typed = screen[a].carried
         [] screen[a].form = "code" -> typed \in {0} \cup {c \in CodeIds : codes[c].delivered}
         [] OTHER -> FALSE
    /\ screen[a].purpose = "change" => holder # session[a]
    /\ request' = [request EXCEPT ![a] =
                     [Idle EXCEPT !.typed = typed, !.account = session[a],
                                  !.step = IF screen[a].purpose = "change" THEN "readHolder"
                                           ELSE "check"]]
    /\ UNCHANGED <<codes, holder, created, session, screen, works, proof>>

\* 401.  Sign-up drops a code it was given by sign-in.  The client takes the answer to
\* an account's request for an expired access token, and sends the request again, once.
RefuseCode(a) ==
    /\ IF screen[a].purpose = "change" /\ ~request[a].again
       THEN request' = [request EXCEPT ![a].step = "readHolder", ![a].code = 0, ![a].again = TRUE]
       ELSE Done(a)
    /\ IF screen[a].form = "carried"
       THEN screen' = [screen EXCEPT ![a].form = "number", ![a].carried = 0]
       ELSE UNCHANGED screen

\* updateProfile() refuses a number that somebody else has.
ReadHolder(a) ==
    /\ At(a, "readHolder")
    /\ IF holder = Nobody THEN Go(a, "check") ELSE Done(a)
    /\ UNCHANGED <<codes, holder, created, session, screen, works, proof>>

\* The newest code that is neither consumed nor expired.
Candidates == {c \in CodeIds : codes[c].state = "unused" /\ codes[c].age \in {"fresh", "valid"}}
Newest(c) == c \in Candidates /\ \A d \in Candidates : d <= c

\* Fault: it may be guessed at without end.
AlwaysOpen(c) == TRUE

Open(c) == codes[c].attempts < MaxTries

\* Fault: any code that ever arrived will do.
EverDelivered(typed, c) == typed # 0

Matches(typed, c) == typed = c

Check(a) ==
    /\ At(a, "check")
    /\ \/ /\ \A c \in Candidates : Newest(c) => ~Open(c)
          /\ RefuseCode(a)
       \/ \E c \in Candidates :
            /\ Newest(c)
            /\ Open(c)
            /\ request' = [request EXCEPT
                             ![a].code = c,
                             ![a].step = IF ~Matches(request[a].typed, c) THEN "count"
                                         ELSE IF screen[a].purpose = "change" THEN "consume"
                                         ELSE "findAccount"]
            /\ UNCHANGED screen
    /\ UNCHANGED <<codes, holder, created, session, works, proof>>

Count(a) ==
    LET c == request[a].code IN
    /\ At(a, "count")
    /\ codes' = [codes EXCEPT ![c].attempts = IF codes[c].state = "deleted" THEN @ ELSE @ + 1]
    /\ RefuseCode(a)
    /\ UNCHANGED <<holder, created, session, works, proof>>

\* Sign-in finds no account: the code is left unused and carried to sign-up.
FindAccount(a) ==
    /\ At(a, "findAccount")
    /\ IF screen[a].purpose = "login"
       THEN IF holder = Nobody
            THEN /\ Done(a)
                 /\ screen' = [screen EXCEPT ![a] = [purpose |-> "signup", form |-> "carried",
                                                     carried |-> request[a].code]]
            ELSE /\ request' = [request EXCEPT ![a].step = "consume", ![a].account = holder]
                 /\ UNCHANGED screen
       ELSE /\ IF holder = Nobody THEN Go(a, "consume") ELSE Done(a)
            /\ UNCHANGED screen
    /\ UNCHANGED <<codes, holder, created, session, works, proof>>

\* Fault: whether anything was updated is not looked at.
Whatever(c) == TRUE

StillUnused(c) == codes[c].state = "unused"

Consume(a) ==
    LET c == request[a].code IN
    /\ At(a, "consume")
    /\ IF StillUnused(c)
       THEN /\ codes' = [codes EXCEPT ![c].state = "consumed"]
            /\ Go(a, "write")
            /\ UNCHANGED screen
       ELSE UNCHANGED codes /\ RefuseCode(a)
    /\ UNCHANGED <<holder, created, session, works, proof>>

SignIn(a, x) ==
    /\ session' = [session EXCEPT ![a] = x]
    /\ works' = [works EXCEPT ![request[a].code] = @ + 1]
    /\ screen' = [screen EXCEPT ![a] = [purpose |-> "change", form |-> "number", carried |-> 0]]

TakeNumber(a, x) ==
    /\ holder' = x
    /\ proof' = [proof EXCEPT ![x] = request[a].code]

WriteLogin(a) ==
    /\ At(a, "write")
    /\ screen[a].purpose = "login"
    /\ SignIn(a, request[a].account)
    /\ Done(a)
    /\ UNCHANGED <<codes, holder, created, proof>>

\* The number is unique.
WriteSignup(a) ==
    /\ At(a, "write")
    /\ screen[a].purpose = "signup"
    /\ holder = Nobody
    /\ \E x \in Accounts \ created :
         /\ created' = created \cup {x}
         /\ TakeNumber(a, x)
         /\ SignIn(a, x)
    /\ Done(a)
    /\ UNCHANGED <<codes>>

WriteChange(a) ==
    /\ At(a, "write")
    /\ screen[a].purpose = "change"
    /\ holder \in {Nobody, request[a].account}
    /\ TakeNumber(a, request[a].account)
    /\ works' = [works EXCEPT ![request[a].code] = @ + 1]
    /\ Show(a, "number")
    /\ Done(a)
    /\ UNCHANGED <<codes, created, session>>

WriteRefused(a) ==
    /\ At(a, "write")
    /\ screen[a].purpose # "login"
    /\ holder \notin {Nobody, request[a].account}
    /\ Done(a)
    /\ UNCHANGED <<codes, holder, created, session, screen, works, proof>>

-----------------------------------------------------------------------------
(* The environment *)

\* The oldest code of its age gets older.
Older(c) ==
    /\ Exists(c)
    /\ codes[c].age # "forgotten"
    /\ \A d \in 1..(c - 1) : Exists(d) => codes[d].age # codes[c].age
    /\ codes' = [codes EXCEPT ![c].age = CASE @ = "fresh" -> "valid"
                                           [] @ = "valid" -> "expired"
                                           [] OTHER -> "forgotten"]
    /\ UNCHANGED <<holder, created, session, screen, request, works, proof>>

\* The server stops, or the answer is lost; the screen shows an error.
Die(a) ==
    /\ ~At(a, "idle")
    /\ Done(a)
    /\ UNCHANGED <<codes, holder, created, session, screen, works, proof>>

Init ==
    /\ codes = [c \in CodeIds |-> [state |-> "none", delivered |-> FALSE, age |-> "fresh",
                                   attempts |-> 0]]
    /\ holder = Nobody
    /\ created = {Old}
    /\ session = [a \in Apps |-> Nobody]
    /\ screen = [a \in Apps |-> [purpose |-> "login", form |-> "number", carried |-> 0]]
    /\ request = [a \in Apps |-> Idle]
    /\ works = [c \in CodeIds |-> 0]
    /\ proof = [x \in Accounts |-> 0]

Step(a) ==
    \/ ReadRecent(a) \/ Replace(a) \/ Insert(a)
    \/ \E arrives, fails \in BOOLEAN : Deliver(a, arrives, fails)
    \/ ReadHolder(a) \/ Check(a) \/ Count(a) \/ FindAccount(a) \/ Consume(a)
    \/ WriteLogin(a) \/ WriteSignup(a) \/ WriteChange(a) \/ WriteRefused(a)

Next ==
    \/ \E a \in Apps :
         \/ \E purpose \in Purposes : OpenScreen(a, purpose)
         \/ PasswordLogin(a)
         \/ AskForCode(a)
         \/ \E typed \in 0..MaxCodes : Enter(a, typed)
         \/ Step(a)
         \/ Die(a)
    \/ \E c \in CodeIds : Older(c)
    \/ MoveAway

Spec == Init /\ [][Next]_vars

-----------------------------------------------------------------------------
(* Properties *)

TypeOK ==
    /\ codes \in [CodeIds -> Code]
    /\ holder \in created \cup {Nobody}
    /\ created \subseteq Accounts
    /\ session \in [Apps -> created \cup {Nobody}]
    /\ screen \in [Apps -> Screen]
    /\ request \in [Apps -> Request]
    /\ works \in [CodeIds -> Nat]
    /\ proof \in [Accounts -> 0..MaxCodes]

\* A code "works once" (otp.service.ts): whatever overlaps, it signs in, signs up or moves
\* an account one time in all.
WorksOnce == \A c \in CodeIds : works[c] <= 1

\* "Each code allows a few guesses": MAX_ATTEMPTS of them, and one for each other request
\* that was past the check when the last of them was counted.
GuessesBounded ==
    \A c \in CodeIds : codes[c].attempts <= MaxTries + Cardinality(Apps) - 1

\* Within an hour the number gets MAX_PER_HOUR codes, and one for each other request that
\* had counted them before the last was inserted; a request past the count is as good as
\* a code.
SentWithinLimit ==
    LET onTheWay == {a \in Apps : At(a, "replace") \/ At(a, "insert")} IN
    Cardinality(Recent) + Cardinality(onTheWay) <= PerHour + Cardinality(Apps) - 1

\* Neither of the two limits is passed by more than the requests that overlap.
LimitsHold == GuessesBounded /\ SentWithinLimit

\* Whoever has the number got it with a code that had arrived there, that nobody
\* else got anything with, and that is used up.
NumberIsProved ==
    holder # Nobody =>
        /\ proof[holder] # 0
        /\ codes[proof[holder]].delivered
        /\ codes[proof[holder]].state = "consumed"
        /\ \A x \in Accounts \ {holder} : proof[x] # proof[holder]

\* "Only the newest code works" (otp.service.ts).
OnlyNewestWorks ==
    \A a \in Apps, c \in CodeIds :
        At(a, "write") /\ request[a].code = c =>
            \A d \in CodeIds : Exists(d) /\ codes[d].delivered => d <= c
=============================================================================
