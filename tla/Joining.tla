------------------------------ MODULE Joining ------------------------------
(***************************************************************************)
(* Joining the collective of one car and city.  Every buyer has one post   *)
(* for it.  A collective is made by whoever joins first, and nothing but a *)
(* look beforehand keeps two from being made; an answer that is lost lets  *)
(* a buyer press again while the first request goes on.                    *)
(***************************************************************************)
EXTENDS Integers, FiniteSets

CONSTANTS
    Buyers,      \* those with a post for the car and city
    MaxRooms,    \* bound: collectives ever made
    MaxCalls,    \* bound: requests under way
    MaxPresses,  \* bound: times a button is pressed
    MaxChanges   \* bound: things that happen away from these screens

VARIABLES
    rooms,    \* rooms[r]: the collectives, numbered as they are made
    member,   \* member[p][r]: p's latest membership of r, and the pass it rides on
    free,     \* free[p]: p's Free Pass for the car and city
    elite,    \* elite[p]: p's Elite Pass, bought from this post or another, or being paid for
    post,     \* post[p]: p's buying post
    phone,    \* phone[p]: the screen p looks at
    calls,    \* the requests under way
    presses,  \* how often a button was pressed
    changes,  \* how much has happened elsewhere
    beenIn    \* beenIn[p]: p has been in a collective since pressing "Join" last

data == <<rooms, member, free, elite, post>>
joining == <<rooms, member, free, elite, post, phone, calls, presses, changes, beenIn>>

Numbers == 1..MaxRooms
Open == {r \in Numbers : rooms[r] = "ACTIVE"}

\* The first of the newest page; 0 if there is none.
Latest == IF Open = {} THEN 0 ELSE CHOOSE r \in Open : \A q \in Open : q <= r

Membership == [status : {"none", "PENDING_PAYMENT", "ACTIVE", "LEFT", "EXPIRED"},
               on : {"none", "FREE", "ELITE"}]
Never == [status |-> "none", on |-> "none"]
Pending == [status |-> "PENDING_PAYMENT", on |-> "none"]

Status(p, r) == IF r = 0 THEN "none" ELSE member[p][r].status
LiveIn(p) == {r \in Numbers : Status(p, r) \in {"PENDING_PAYMENT", "ACTIVE"}}
InOne(p) == \E r \in Numbers : Status(p, r) = "ACTIVE"
HasElite(p) == elite[p] \in {"here", "elsewhere"}

\* Writes the memberships of p, and remembers whether p has been in.
Put(p, ms) ==
    /\ member' = [member EXCEPT ![p] = ms]
    /\ beenIn' = [beenIn EXCEPT ![p] = @ \/ \E r \in Numbers : ms[r].status = "ACTIVE"]

-----------------------------------------------------------------------------
(* The server: steps of a request, between which it awaits the database. *)

Kinds == {"load", "join", "confirm", "hub", "leave"}
Steps == {"intent", "list", "room", "post", "find", "make", "live", "elsewhere", "insert", "dto",
          "elite", "free", "get", "answer"}
Call == [who : Buyers, kind : Kinds, step : Steps, heard : BOOLEAN, room : 0..MaxRooms,
         status : {"none", "PENDING_PAYMENT", "ACTIVE", "error"},
         free : BOOLEAN, joined : BOOLEAN, active : BOOLEAN, readOnly : BOOLEAN,
         post : {"ACTIVE", "PAUSED"}]
Ask(p, kind, step, r) ==
    [who |-> p, kind |-> kind, step |-> step, heard |-> TRUE, room |-> r, status |-> "none",
     free |-> FALSE, joined |-> FALSE, active |-> FALSE, readOnly |-> FALSE, post |-> "ACTIVE"]
Becomes(c, d) == calls' = (calls \ {c}) \cup {d}
Goes(c, step) == Becomes(c, [c EXCEPT !.step = step])
Answers(c, status) == Becomes(c, [c EXCEPT !.step = "answer", !.status = status])
Throws(c) == Answers(c, "error")
Reads == UNCHANGED <<data, phone, presses, changes, beenIn>>

\* requireCollective(), and that it is open.
RequireRoom(c) ==
    /\ c.step = "room"
    /\ IF rooms[c.room] = "ACTIVE" THEN Goes(c, "post") ELSE Throws(c)
    /\ Reads

\* requireActiveIntent()
RequireActiveIntent(c) ==
    /\ c.step = "post"
    /\ IF post[c.who] # "ACTIVE" THEN Throws(c)
       ELSE Goes(c, IF c.room = 0 THEN "find" ELSE "live")
    /\ Reads

\* create() takes any open collective there is ...
Find(c) ==
    /\ c.step = "find"
    /\ \/ \E r \in Open : Becomes(c, [c EXCEPT !.room = r, !.step = "live"])
       \/ Open = {} /\ Goes(c, "make")
    /\ Reads

\* ... or makes one, with its discussion, whatever others have made since.
Make(c) ==
    /\ c.step = "make"
    /\ \E r \in Numbers :
         /\ rooms[r] = "none"
         /\ \A q \in 1..(r - 1) : rooms[q] # "none"
         /\ rooms' = [rooms EXCEPT ![r] = "ACTIVE"]
         /\ Becomes(c, [c EXCEPT !.room = r, !.step = "live"])
    /\ UNCHANGED <<member, free, elite, post, phone, presses, changes, beenIn>>

\* openMembership(): the live one, or else a new one if the post is not in another collective.
FindLive(c) ==
    /\ c.step = "live"
    /\ c.kind = "join"
    /\ Goes(c, IF c.room \in LiveIn(c.who) THEN "dto" ELSE "elsewhere")
    /\ Reads

FindElsewhere(c) ==
    /\ c.step = "elsewhere"
    /\ IF LiveIn(c.who) # {} THEN Throws(c) ELSE Goes(c, "insert")
    /\ Reads

\* A second live membership of one collective breaks an index.
Insert(c) ==
    /\ c.step = "insert"
    /\ IF c.room \in LiveIn(c.who) THEN Throws(c) /\ UNCHANGED <<member, beenIn>>
       ELSE /\ Put(c.who, [member[c.who] EXCEPT ![c.room] = Pending])
            /\ Goes(c, "dto")
    /\ UNCHANGED <<rooms, free, elite, post, phone, presses, changes>>

\* toDto(): only a live membership is told of.
Shown(p, r) == IF r \in LiveIn(p) THEN Status(p, r) ELSE "none"

\* withFreePlace(): nothing more is done for those who are in.
ReadDto(c) ==
    /\ c.step = "dto"
    /\ Becomes(c, [c EXCEPT !.status = Shown(c.who, c.room),
                            !.step = IF Shown(c.who, c.room) = "PENDING_PAYMENT"
                                     THEN "elite" ELSE "answer"])
    /\ Reads

\* joinWithElite()
JoinWithElite(c) ==
    /\ c.step = "elite"
    /\ IF Status(c.who, c.room) = "PENDING_PAYMENT" /\ HasElite(c.who)
       THEN /\ Put(c.who, [member[c.who] EXCEPT ![c.room] = [status |-> "ACTIVE", on |-> "ELITE"]])
            /\ Goes(c, "get")
       ELSE Goes(c, "free") /\ UNCHANGED <<member, beenIn>>
    /\ UNCHANGED <<rooms, free, elite, post, phone, presses, changes>>

\* What startFreePass() asks for: no Free Pass here ever, no payment on its way, no pass.
MayStart(c) ==
    /\ Status(c.who, c.room) = "PENDING_PAYMENT"
    /\ post[c.who] = "ACTIVE"
    /\ free[c.who] = "none"
    /\ elite[c.who] \notin {"paying", "here"}

StartFreePass(c) ==
    /\ c.step = "free"
    /\ IF MayStart(c)
       THEN /\ Put(c.who, [member[c.who] EXCEPT ![c.room] = [status |-> "ACTIVE", on |-> "FREE"]])
            /\ free' = [free EXCEPT ![c.who] = "ACTIVE"]
            /\ Goes(c, "get")
       ELSE Answers(c, "PENDING_PAYMENT") /\ UNCHANGED <<member, beenIn, free>>
    /\ UNCHANGED <<rooms, elite, post, phone, presses, changes>>

\* get(): a collective as it is now; a pass that ran out leaves the discussion readable.
Get(c) ==
    /\ c.step = "get"
    /\ Becomes(c, [c EXCEPT !.step = "answer", !.status = Shown(c.who, c.room),
                            !.readOnly = Status(c.who, c.room) = "EXPIRED"])
    /\ Reads

\* leave(); the refund policy leaves the passes as they are.
Leave(c) ==
    /\ c.step = "live"
    /\ c.kind = "leave"
    /\ IF c.room \in LiveIn(c.who)
       THEN /\ Put(c.who, [member[c.who] EXCEPT ![c.room].status = "LEFT"])
            /\ Answers(c, "none")
       ELSE Throws(c) /\ UNCHANGED <<member, beenIn>>
    /\ UNCHANGED <<rooms, free, elite, post, phone, presses, changes>>

\* toIntent(): the pass of a live membership, or else an active one of the post itself.
PassActive(p) ==
    \/ \E r \in LiveIn(p) : \/ member[p][r].on = "FREE" /\ free[p] = "ACTIVE"
                            \/ member[p][r].on = "ELITE" /\ HasElite(p)
    \/ free[p] = "ACTIVE"
    \/ elite[p] = "here"

\* getOwned(): the post, its pass, and whether "Join free" can still start one.
ReadIntent(c) ==
    /\ c.step = "intent"
    /\ IF c.kind = "load"
       THEN Becomes(c, [c EXCEPT !.step = "list", !.free = free[c.who] = "none",
                                 !.post = post[c.who], !.joined = InOne(c.who)])
       ELSE \E r \in IF LiveIn(c.who) = {} THEN {0} ELSE LiveIn(c.who) :
                Becomes(c, [c EXCEPT !.step = "answer", !.active = PassActive(c.who), !.room = r])
    /\ Reads

\* list() and, for those who are in, discover(), which throws for those who are not any more.
List(c) ==
    /\ c.step = "list"
    /\ IF c.joined /\ ~InOne(c.who) THEN Throws(c)
       ELSE Becomes(c, [c EXCEPT !.step = "answer", !.room = Latest, !.joined = FALSE,
                                 !.status = Shown(c.who, Latest)])
    /\ Reads

Step(c) ==
    \/ RequireRoom(c) \/ RequireActiveIntent(c) \/ Find(c) \/ Make(c)
    \/ FindLive(c) \/ FindElsewhere(c) \/ Insert(c) \/ ReadDto(c)
    \/ JoinWithElite(c) \/ StartFreePass(c) \/ Get(c) \/ Leave(c) \/ ReadIntent(c) \/ List(c)

-----------------------------------------------------------------------------
(* The phone of a buyer *)

\* What it knows of the collective and post, whether the buyer is Elite, and what it says.
Screen == [page : {"away", "collective", "success", "hub"}, loaded : BOOLEAN, busy : BOOLEAN,
           room : 0..MaxRooms, status : {"none", "PENDING_PAYMENT", "ACTIVE"}, free : BOOLEAN,
           post : {"ACTIVE", "PAUSED"}, readOnly : BOOLEAN, elite : BOOLEAN,
           says : {"nothing", "used", "failed", "in", "unconfirmed"}]
Fresh(p, page, r) ==
    [page |-> page, loaded |-> FALSE, busy |-> FALSE, room |-> r, status |-> "none",
     free |-> FALSE, post |-> "ACTIVE", readOnly |-> FALSE, elite |-> phone[p].elite,
     says |-> "nothing"]
At(p, page) == phone[p].page = page
Set(p, s) == phone' = [phone EXCEPT ![p] = s]

\* What a screen that was left has asked for is of no use to it, but writes go on.
Unheard(p) == {[c EXCEPT !.heard = FALSE] :
                 c \in {d \in calls : d.who = p /\ d.kind \in {"join", "leave"}}}
Others(p) == {c \in calls : c.who # p}
Turns(p, page, r, asked) ==
    /\ Set(p, Fresh(p, page, r))
    /\ calls' = Others(p) \cup Unheard(p) \cup asked
CanAsk == Cardinality(calls) < MaxCalls
Press == presses < MaxPresses /\ presses' = presses + 1
OnPhone == UNCHANGED <<data, changes>>

OpenCollective(p) ==
    /\ At(p, "away") /\ CanAsk
    /\ Turns(p, "collective", 0, {Ask(p, "load", "intent", 0)})
    /\ OnPhone /\ UNCHANGED <<presses, beenIn>>

\* Pulled down, or in focus again: loads may overlap.
Reload(p) ==
    /\ At(p, "collective") /\ CanAsk /\ Press
    /\ calls' = calls \cup {Ask(p, "load", "intent", 0)}
    /\ OnPhone /\ UNCHANGED <<phone, beenIn>>

\* "Join free", or "Join with Elite" of those whose phone says they are Elite.
Offered(p) ==
    /\ At(p, "collective") /\ phone[p].loaded
    /\ phone[p].status # "ACTIVE"
    /\ phone[p].post = "ACTIVE"
    /\ phone[p].elite \/ phone[p].free

Join(p) ==
    /\ Offered(p) /\ ~phone[p].busy /\ phone[p].says = "nothing"
    /\ CanAsk /\ Press
    /\ calls' = calls \cup {Ask(p, "join", IF phone[p].room = 0 THEN "post" ELSE "room", phone[p].room)}
    /\ Set(p, [phone[p] EXCEPT !.busy = TRUE])
    /\ beenIn' = [beenIn EXCEPT ![p] = InOne(p)]
    /\ OnPhone

\* "Not now", "OK", or "Continue" to the payment.
Dismiss(p) ==
    /\ phone[p].says \in {"used", "failed"}
    /\ \/ /\ Set(p, [phone[p] EXCEPT !.says = "nothing"])
          /\ \/ phone[p].says = "failed" /\ UNCHANGED calls
             \/ CanAsk /\ calls' = calls \cup {Ask(p, "load", "intent", 0)}
       \/ phone[p].says = "used" /\ Turns(p, "away", 0, {})
    /\ OnPhone /\ UNCHANGED <<presses, beenIn>>

\* "Go to Collective"
OpenHub(p) ==
    /\ CanAsk
    /\ \/ At(p, "collective") /\ phone[p].status = "ACTIVE"
       \/ At(p, "success") /\ phone[p].says = "in" /\ phone[p].room # 0
    /\ Turns(p, "hub", phone[p].room, {Ask(p, "hub", "get", phone[p].room)})
    /\ OnPhone /\ UNCHANGED <<presses, beenIn>>

\* "Leave collective", confirmed.
PressLeave(p) ==
    /\ At(p, "hub") /\ phone[p].status = "ACTIVE"
    /\ CanAsk /\ Press
    /\ calls' = calls \cup {Ask(p, "leave", "live", phone[p].room)}
    /\ OnPhone /\ UNCHANGED <<phone, beenIn>>

Close(p) ==
    /\ ~At(p, "away")
    /\ Turns(p, "away", 0, {})
    /\ OnPhone /\ UNCHANGED <<presses, beenIn>>

\* A collective as loaded.
Loaded(c) ==
    IF c.status = "error" THEN phone[c.who]
    ELSE [phone[c.who] EXCEPT !.loaded = TRUE, !.room = c.room, !.status = c.status,
                              !.free = c.free, !.post = c.post]

\* Fault: whoever was answered is shown in.
AnyAnswer(c) == IF c.status = "error" THEN [phone[c.who] EXCEPT !.busy = FALSE, !.says = "failed"]
                ELSE Fresh(c.who, "success", 0)

\* joinFree(): in; the Free Pass is used; or an error.
Joined(c) ==
    IF c.status = "ACTIVE" THEN Fresh(c.who, "success", 0)
    ELSE [phone[c.who] EXCEPT !.busy = FALSE,
                              !.says = IF c.status = "error" THEN "failed" ELSE "used"]

\* "Still show only what the server says: the pass must really be active."
Confirmed(c) ==
    IF c.status = "error" \/ ~c.active THEN [phone[c.who] EXCEPT !.says = "unconfirmed"]
    ELSE [phone[c.who] EXCEPT !.says = "in", !.room = c.room, !.elite = HasElite(c.who)]

\* The hub: its sections are for those who are in, its past for those whose pass ran out.
Hub(c) ==
    IF c.status = "error" THEN phone[c.who]
    ELSE [phone[c.who] EXCEPT !.loaded = TRUE, !.status = c.status, !.readOnly = c.readOnly]

Left(c) ==
    IF c.status = "error" THEN [phone[c.who] EXCEPT !.says = "failed"] ELSE Fresh(c.who, "away", 0)

Told(c) ==
    CASE c.kind = "load" -> Loaded(c)
      [] c.kind = "join" -> Joined(c)
      [] c.kind = "confirm" -> Confirmed(c)
      [] c.kind = "hub" -> Hub(c)
      [] c.kind = "leave" -> Left(c)

\* The success screen asks for the post at once.
Answer(c) ==
    /\ c.step = "answer"
    /\ LET p == c.who
           now == IF c.heard THEN Told(c) ELSE phone[p]
           turns == now.page # phone[p].page IN
       /\ Set(p, now)
       /\ calls' = (IF turns THEN Others(p) \cup (Unheard(p) \ {[c EXCEPT !.heard = FALSE]})
                    ELSE calls \ {c})
                   \cup (IF turns /\ now.page = "success" THEN {Ask(p, "confirm", "intent", 0)} ELSE {})
    /\ OnPhone /\ UNCHANGED <<presses, beenIn>>

\* The phone gives up; the server, if it was asked, does not.
Lose(c) ==
    /\ c.heard
    /\ Set(c.who, Told([c EXCEPT !.status = "error"]))
    /\ \/ c.kind \in {"join", "leave"} /\ Becomes(c, [c EXCEPT !.heard = FALSE])
       \/ calls' = calls \ {c}
    /\ OnPhone /\ UNCHANGED <<presses, beenIn>>

-----------------------------------------------------------------------------
(* What happens elsewhere: payments, the job, another phone, an admin *)

Elsewhere ==
    /\ changes < MaxChanges
    /\ changes' = changes + 1
    /\ UNCHANGED <<phone, calls, presses>>

Pay(p) ==
    /\ elite[p] = "none" /\ LiveIn(p) # {} /\ post[p] = "ACTIVE"
    /\ elite' = [elite EXCEPT ![p] = "paying"]
    /\ Elsewhere /\ UNCHANGED <<rooms, member, free, post, beenIn>>

PaymentFails(p) ==
    /\ elite[p] = "paying"
    /\ elite' = [elite EXCEPT ![p] = "none"]
    /\ Elsewhere /\ UNCHANGED <<rooms, member, free, post, beenIn>>

\* activate(), of a payment made from this post or another: whatever p waits for or is in
\* rides on the Elite Pass, and the Free Pass ends.
Activate(p, where) ==
    /\ elite[p] = IF where = "here" THEN "paying" ELSE "none"
    /\ elite' = [elite EXCEPT ![p] = where]
    /\ free' = [free EXCEPT ![p] = IF @ = "ACTIVE" THEN "ENDED" ELSE @]
    /\ Put(p, [r \in Numbers |-> IF r \in LiveIn(p) THEN [status |-> "ACTIVE", on |-> "ELITE"]
                                  ELSE member[p][r]])
    /\ Elsewhere /\ UNCHANGED <<rooms, post>>

\* expirePasses()
Expire(p, plan) ==
    /\ IF plan = "FREE" THEN free[p] = "ACTIVE" ELSE HasElite(p)
    /\ free' = IF plan = "FREE" THEN [free EXCEPT ![p] = "ENDED"] ELSE free
    /\ elite' = IF plan = "ELITE" THEN [elite EXCEPT ![p] = "none"] ELSE elite
    /\ Put(p, [r \in Numbers |->
                  IF Status(p, r) = "ACTIVE" /\ member[p][r].on = plan
                  THEN [member[p][r] EXCEPT !.status = "EXPIRED"] ELSE member[p][r]])
    /\ Elsewhere /\ UNCHANGED <<rooms, post>>

LeaveElsewhere(p, r) ==
    /\ r \in LiveIn(p)
    /\ Put(p, [member[p] EXCEPT ![r].status = "LEFT"])
    /\ Elsewhere /\ UNCHANGED <<rooms, free, elite, post>>

PauseOrResume(p) ==
    /\ post' = [post EXCEPT ![p] = IF @ = "ACTIVE" THEN "PAUSED" ELSE "ACTIVE"]
    /\ Elsewhere /\ UNCHANGED <<rooms, member, free, elite, beenIn>>

\* collectiveAction(): nothing is asked of other collectives when one is opened again.
CloseOrReopen(r) ==
    /\ rooms[r] # "none"
    /\ rooms' = [rooms EXCEPT ![r] = IF @ = "ACTIVE" THEN "CLOSED" ELSE "ACTIVE"]
    /\ Elsewhere /\ UNCHANGED <<member, free, elite, post, beenIn>>

-----------------------------------------------------------------------------
Init ==
    /\ rooms = [r \in Numbers |-> "none"]
    /\ member = [p \in Buyers |-> [r \in Numbers |-> Never]]
    /\ free = [p \in Buyers |-> "none"]
    /\ elite \in [Buyers -> {"none", "elsewhere"}]
    /\ post = [p \in Buyers |-> "ACTIVE"]
    /\ phone = [p \in Buyers |-> [page |-> "away", loaded |-> FALSE, busy |-> FALSE, room |-> 0,
                                   status |-> "none", free |-> FALSE, post |-> "ACTIVE",
                                   readOnly |-> FALSE, elite |-> HasElite(p), says |-> "nothing"]]
    /\ calls = {} /\ presses = 0 /\ changes = 0
    /\ beenIn = [p \in Buyers |-> FALSE]

Next ==
    \/ \E c \in calls : Step(c) \/ Answer(c) \/ Lose(c)
    \/ \E p \in Buyers :
         \/ OpenCollective(p) \/ Reload(p) \/ Join(p) \/ Dismiss(p)
         \/ OpenHub(p) \/ PressLeave(p) \/ Close(p)
         \/ Pay(p) \/ PaymentFails(p) \/ PauseOrResume(p)
         \/ \E where \in {"here", "elsewhere"} : Activate(p, where)
         \/ \E plan \in {"FREE", "ELITE"} : Expire(p, plan)
         \/ \E r \in Numbers : LeaveElsewhere(p, r)
    \/ \E r \in Numbers : CloseOrReopen(r)

Spec == Init /\ [][Next]_joining

-----------------------------------------------------------------------------
(* Properties *)

TypeOK ==
    /\ rooms \in [Numbers -> {"none", "ACTIVE", "CLOSED"}]
    /\ member \in [Buyers -> [Numbers -> Membership]]
    /\ free \in [Buyers -> {"none", "ACTIVE", "ENDED"}]
    /\ elite \in [Buyers -> {"none", "paying", "here", "elsewhere"}]
    /\ post \in [Buyers -> {"ACTIVE", "PAUSED"}]
    /\ phone \in [Buyers -> Screen]
    /\ calls \subseteq Call
    /\ presses \in 0..MaxPresses /\ changes \in 0..MaxChanges
    /\ beenIn \in [Buyers -> BOOLEAN]

\* "You're in!" is shown only to someone who has been an active member of a collective since
\* pressing "Join", however passes end, answers are lost and others make collectives meanwhile.
ConfirmedMeansIn == \A p \in Buyers : phone[p].says = "in" => beenIn[p]

\* "One ACTIVE collective per car+city is the Phase 1 shape" (create()): two who join first at
\* once make two.
OneCollective == Cardinality(Open) <= 1

\* "The Free Pass for this car+city was used on another post" (joinFree()): a post that is
\* paused meanwhile brings the same message.
UsedMeansUsed == \A p \in Buyers : phone[p].says = "used" => free[p] # "none"

\* A post is in one collective at a time: a join pressed again after a lost answer breaks it.
OnePlace == \A p \in Buyers : Cardinality(LiveIn(p)) <= 1
=============================================================================
