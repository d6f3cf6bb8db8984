------------------------------ MODULE Messages ------------------------------
(***************************************************************************)
(* One collective's discussion: its messages and members on the server,    *)
(* the notifications of one hour, and the thread on each reader's screen,  *)
(* which asks for the newest page every few seconds and for older pages    *)
(* as the reader scrolls.  Requests await the database between their       *)
(* steps, and nothing keeps two of one thread from overlapping.            *)
(***************************************************************************)
EXTENDS Integers, FiniteSets

CONSTANTS
    People,       \* those with an account
    Senders,      \* those who write
    Readers,      \* those whose screens are followed
    Nobody,       \* no person
    Limit,        \* messages in a page
    MaxMessages,  \* bound: messages ever written
    MaxWorkers,   \* bound: requests under way
    MaxFaults     \* bound: requests that fail

ASSUME MessagesAssumption ==
    /\ Senders \subseteq People /\ Readers \subseteq People
    /\ Nobody \notin People
    /\ Limit \in Nat \ {0}
    /\ MaxMessages \in Nat /\ MaxWorkers \in Nat /\ MaxFaults \in Nat

VARIABLES
    membership,  \* each person's latest membership of the collective
    until,       \* until[u]: the messages there were when u's membership ended
    messages,    \* the messages, numbered by the time they say they were written
    notified,    \* who has this hour's notification
    thread,      \* thread[u]: the thread on u's screen
    task,        \* task[w]: where a request stands
    failures     \* how many requests have failed

vars == <<membership, until, messages, notified, thread, task, failures>>
server == <<membership, until, messages, notified>>

Ids == 1..MaxMessages
Workers == 1..MaxWorkers

\* "writing" is stamped, but not yet committed.
States == {"none", "writing", "text", "deleted", "lost"}
Looks == [Ids -> {"none", "text", "deleted"}]
Blank == [m \in Ids |-> "none"]

\* The cursor is the message that older ones are wanted of, 0 if there are none.
Thread == [open : BOOLEAN, readOnly : BOOLEAN, items : Looks, cursor : 0..MaxMessages]
Closed == [open |-> FALSE, readOnly |-> FALSE, items |-> Blank, cursor |-> 0]

Steps == {"idle", "check", "stamp", "commit", "notify", "create", "reader", "query", "answer"}

\* A request of person user: "heard" while the thread that made it is on the screen.
Task == [kind : {"none", "send", "poll", "older"}, step : Steps, user : People \cup {Nobody},
         heard : BOOLEAN, message : 0..MaxMessages, all : SUBSET People, to : SUBSET People,
         next : People \cup {Nobody},
         upTo : SUBSET Ids, cursor : 0..MaxMessages, page : Looks]

Idle == [kind |-> "none", step |-> "idle", user |-> Nobody, heard |-> FALSE, message |-> 0,
         all |-> {}, to |-> {}, next |-> Nobody, upTo |-> {}, cursor |-> 0, page |-> Blank]

At(w, step) == task[w].step = step
Go(w, step) == task' = [task EXCEPT ![w].step = step]
Return(w) == task' = [task EXCEPT ![w] = Idle]
Begin(w, kind, step, u, cursor) ==
    /\ task[w] = Idle
    /\ \A v \in 1..(w - 1) : task[v] # Idle
    /\ task' = [task EXCEPT ![w] = [Idle EXCEPT !.kind = kind, !.step = step, !.user = u,
                                                !.heard = TRUE, !.cursor = cursor]]

Busy(u, kind) == \E w \in Workers : task[w].kind = kind /\ task[w].user = u /\ task[w].heard

Stamped == {m \in Ids : messages[m] # "none"}
Written == {m \in Ids : messages[m] \in {"text", "deleted"}}
Present(u) == membership[u] = "ACTIVE"

-----------------------------------------------------------------------------
(* Memberships begin and end: markRefunded(), expirePasses(), leave(), joinWithElite() *)

Leave(u, status) ==
    /\ Present(u)
    /\ membership' = [membership EXCEPT ![u] = status]
    /\ until' = [until EXCEPT ![u] = Stamped]
    /\ UNCHANGED <<messages, notified, thread, task, failures>>

\* "Continue" leads away from the thread.
Rejoin(u) ==
    /\ ~Present(u)
    /\ ~thread[u].open
    /\ membership' = [membership EXCEPT ![u] = "ACTIVE"]
    /\ until' = [until EXCEPT ![u] = {}]
    /\ UNCHANGED <<messages, notified, thread, task, failures>>

-----------------------------------------------------------------------------
(* send() *)

\* The composer is disabled while a message is on its way; one whose screen is not followed
\* may have left it and come back.
Send(u, w) ==
    /\ u \in Senders
    /\ u \in Readers => thread[u].open /\ ~thread[u].readOnly
    /\ ~Busy(u, "send") \/ u \notin Readers
    /\ Cardinality(Stamped) + Cardinality({v \in Workers : task[v].step \in {"check", "stamp"}})
          < MaxMessages
    /\ Begin(w, "send", "check", u, 0)
    /\ UNCHANGED <<server, thread, failures>>

\* requireMember(): whoever is there now is told of the message later.
CheckMember(w) ==
    LET u == task[w].user IN
    /\ At(w, "check")
    /\ IF Present(u)
       THEN LET all == {v \in People \ {u} : Present(v)} IN
            task' = [task EXCEPT ![w].step = "stamp", ![w].all = all, ![w].to = all]
       ELSE Return(w)
    /\ UNCHANGED <<server, thread, failures>>

\* The message gets its time before it is committed.
Stamp(w) ==
    /\ At(w, "stamp")
    /\ LET m == Cardinality(Stamped) + 1 IN
       /\ messages' = [messages EXCEPT ![m] = "writing"]
       /\ task' = [task EXCEPT ![w].step = "commit", ![w].message = m]
    /\ UNCHANGED <<membership, until, notified, thread, failures>>

Commit(w) ==
    LET t == task[w] IN
    /\ At(w, "commit")
    /\ messages' = [messages EXCEPT ![t.message] = "text"]
    /\ Go(w, "notify")
    /\ UNCHANGED <<membership, until, notified, thread, failures>>

\* The app adds what it sent to the thread.
Sent(w) ==
    /\ thread' = IF task[w].heard /\ task[w].user \in Readers
                 THEN [thread EXCEPT ![task[w].user].items[task[w].message] = "text"] ELSE thread
    /\ Return(w)

\* Fault: the first who has been told today ends the round.
StopAtFirst(w, v) ==
    IF v \in notified THEN task' = [task EXCEPT ![w].to = {}]
    ELSE task' = [task EXCEPT ![w].step = "create", ![w].next = v]

\* notify(): one notification per person, conversation and hour ...
NotifyNext(w, v) ==
    IF v \in notified THEN task' = [task EXCEPT ![w].to = @ \ {v}]
    ELSE task' = [task EXCEPT ![w].step = "create", ![w].next = v]

Notify(w) ==
    /\ At(w, "notify")
    /\ \/ \E v \in task[w].to : NotifyNext(w, v) /\ UNCHANGED thread
       \/ task[w].to = {} /\ Sent(w)
    /\ UNCHANGED <<server, failures>>

\* ... the key of which is unique: creating it again throws, and the app says "Not sent".
CreateNotification(w) ==
    LET v == task[w].next IN
    /\ At(w, "create")
    /\ IF v \in notified THEN Return(w) /\ UNCHANGED notified
       ELSE /\ notified' = notified \cup {v}
            /\ task' = [task EXCEPT ![w].step = "notify", ![w].to = @ \ {v}, ![w].next = Nobody]
    /\ UNCHANGED <<membership, until, messages, thread, failures>>

\* deleteOwn(), by the sender, who need not be there any more.
Delete(m) ==
    /\ messages[m] = "text"
    /\ messages' = [messages EXCEPT ![m] = "deleted"]
    /\ UNCHANGED <<membership, until, notified, thread, task, failures>>

-----------------------------------------------------------------------------
(* The thread: messages() *)

\* discussion.tsx: members take part, and those whose pass has run out read on.
Open(u) ==
    /\ ~thread[u].open
    /\ membership[u] \in {"ACTIVE", "EXPIRED"}
    /\ thread' = [thread EXCEPT ![u] = [Closed EXCEPT !.open = TRUE, !.readOnly = ~Present(u)]]
    /\ UNCHANGED <<server, task, failures>>

\* What a thread has asked for is of no use to it any more.
Close(u) ==
    /\ thread[u].open
    /\ thread' = [thread EXCEPT ![u] = Closed]
    /\ task' = [w \in Workers |-> IF task[w].user # u THEN task[w]
                                  ELSE IF task[w].kind = "send" THEN [task[w] EXCEPT !.heard = FALSE]
                                  ELSE Idle]
    /\ UNCHANGED <<server, failures>>

\* Every POLL_MS, whether or not the last answer has come.
Poll(u, w) ==
    /\ thread[u].open
    /\ Begin(w, "poll", "reader", u, 0)
    /\ UNCHANGED <<server, thread, failures>>

Older(u, w) ==
    /\ thread[u].open
    /\ thread[u].cursor # 0
    /\ ~Busy(u, "older")
    /\ Begin(w, "older", "reader", u, thread[u].cursor)
    /\ UNCHANGED <<server, thread, failures>>

\* Fault: the history is not cut off.
ReadOn(u) == Ids

\* What u may read: all of it, or what there was when the pass ran out.
History(u) == IF Present(u) THEN Ids ELSE until[u]

\* requireReader()
CheckReader(w) ==
    LET u == task[w].user IN
    /\ At(w, "reader")
    /\ IF membership[u] \in {"ACTIVE", "EXPIRED"}
       THEN task' = [task EXCEPT ![w].step = "query", ![w].upTo = History(u)]
       ELSE Return(w)
    /\ UNCHANGED <<server, thread, failures>>

\* The newest messages of a set, and whether there are more.
Newest(set) == {m \in set : Cardinality({x \in set : x > m}) < Limit}
Oldest(set) == CHOOSE m \in set : \A x \in set : m <= x
NextCursor(set) == IF Newest(set) = set THEN 0 ELSE Oldest(Newest(set))

\* One page, which has gone out when the delivery mark is set.
Query(w) ==
    LET t == task[w]
        set == {m \in Written \cap t.upTo : t.cursor = 0 \/ m < t.cursor} IN
    /\ At(w, "query")
    /\ task' = [task EXCEPT ![w].step = "answer", ![w].cursor = NextCursor(set),
                            ![w].page = [m \in Ids |-> IF m \in Newest(set)
                                                       THEN messages[m] ELSE "none"]]
    /\ UNCHANGED <<server, thread, failures>>

\* Fault: what is on the screen stays as it is.
KeepOld(items, page) == [m \in Ids |-> IF items[m] # "none" THEN items[m] ELSE page[m]]

\* merge()
Merged(items, page) == [m \in Ids |-> IF page[m] # "none" THEN page[m] ELSE items[m]]

\* setCursor((c) => c ?? page.nextCursor)
PolledCursor(u, next) == IF thread[u].cursor = 0 THEN next ELSE thread[u].cursor

AnswerPoll(w) ==
    LET t == task[w] IN
    /\ At(w, "answer")
    /\ t.kind = "poll"
    /\ thread' = [thread EXCEPT ![t.user].items = Merged(@, t.page),
                                ![t.user].cursor = PolledCursor(t.user, t.cursor)]
    /\ Return(w)
    /\ UNCHANGED <<server, failures>>

AnswerOlder(w) ==
    LET t == task[w] IN
    /\ At(w, "answer")
    /\ t.kind = "older"
    /\ thread' = [thread EXCEPT ![t.user].items = Merged(@, t.page), ![t.user].cursor = t.cursor]
    /\ Return(w)
    /\ UNCHANGED <<server, failures>>

\* The request fails on the way, or its handler throws.
Break(w) ==
    /\ task[w] # Idle
    /\ failures < MaxFaults
    /\ failures' = failures + 1
    /\ messages' = IF At(w, "commit") THEN [messages EXCEPT ![task[w].message] = "lost"] ELSE messages
    /\ Return(w)
    /\ UNCHANGED <<membership, until, notified, thread>>

-----------------------------------------------------------------------------
Init ==
    /\ membership = [u \in People |-> "ACTIVE"]
    /\ until = [u \in People |-> {}]
    /\ messages = [m \in Ids |-> "none"]
    /\ notified = {}
    /\ thread = [u \in Readers |-> Closed]
    /\ task = [w \in Workers |-> Idle]
    /\ failures = 0

Step(w) ==
    \/ CheckMember(w) \/ Stamp(w) \/ Commit(w) \/ Notify(w) \/ CreateNotification(w)
    \/ CheckReader(w) \/ Query(w) \/ AnswerPoll(w) \/ AnswerOlder(w)

Next ==
    \/ \E w \in Workers : Step(w) \/ Break(w)
    \/ \E u \in Senders, w \in Workers : Send(u, w)
    \/ \E m \in Ids : Delete(m)
    \/ \E u \in Readers :
         \/ Open(u) \/ Close(u)
         \/ \E w \in Workers : Poll(u, w) \/ Older(u, w)
         \/ \E status \in {"EXPIRED", "LEFT"} : Leave(u, status)
         \/ Rejoin(u)

\* The server answers, the timer goes on, and the reader goes on scrolling.
Fairness ==
    /\ \A w \in Workers : WF_vars(Step(w))
    /\ \A u \in Readers : /\ SF_vars(\E w \in Workers : Poll(u, w))
                          /\ SF_vars(\E w \in Workers : Older(u, w))

Spec == Init /\ [][Next]_vars /\ Fairness

-----------------------------------------------------------------------------
(* Properties *)

TypeOK ==
    /\ membership \in [People -> {"ACTIVE", "EXPIRED", "LEFT"}]
    /\ until \in [People -> SUBSET Ids]
    /\ messages \in [Ids -> States]
    /\ notified \subseteq People
    /\ thread \in [Readers -> Thread]
    /\ task \in [Workers -> Task]
    /\ failures \in 0..MaxFaults

\* A round of notifications leaves nobody out: whoever it is done with has this hour's
\* notification, whoever else is writing to them.  A round that ends as it should is done
\* with everyone who was there when the message was accepted.
RoundReachesAll ==
    \A w \in Workers : task[w].all \ task[w].to \subseteq notified

\* "They may read what was said up to `until`, nothing more" (requireReader): a thread that
\* was opened after the pass ran out never shows what was said later.
HistoryEndsWithPass ==
    \A u \in Readers : thread[u].open /\ thread[u].readOnly /\ ~Present(u) =>
        \A m \in Ids : thread[u].items[m] # "none" => m \in until[u]

\* What the thread is to show.
Up(u) == \A m \in Written : thread[u].items[m] = messages[m]

\* Whatever overlaps or fails, a thread that stays open and is scrolled catches up with the
\* discussion: no message stays out, and no message that was deleted stays in.
CatchesUp == \A u \in Readers : []<>(Up(u) \/ ~thread[u].open \/ ~Present(u))
=============================================================================
