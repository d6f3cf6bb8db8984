----------------------------- MODULE Moderation -----------------------------
(***************************************************************************)
(* The admin dashboard: people, collectives and reports changed, and       *)
(* payments refunded, by several admins, each from a page that shows what  *)
(* was so when it was last answered.  Whatever is changed is logged.       *)
(***************************************************************************)
EXTENDS Naturals, Sequences

CONSTANTS
    Admins,
    People, Staff,                    \* users, and users with the role ADMIN
    Collectives, Reports, Payments,
    MaxCalls                          \* bound: requests

VARIABLES
    rows,     \* what an admin may change of each subject
    audit,    \* audit_logs
    pages,    \* each admin's page
    requests, \* the requests under way
    asked     \* how many there have been

moderating == <<rows, audit, pages, requests, asked>>

NoOne == "none"
Accounts == People \cup Staff
Subjects == Accounts \cup Collectives \cup Reports \cup Payments

\* "mark": verifiedAt, closedAt or resolvedById.
Row == [status : {"ACTIVE", "SUSPENDED", "DEACTIVATED", "CLOSED", "ARCHIVED", "OPEN", "UNDER_REVIEW",
                  "RESOLVED", "DISMISSED", "SUCCESS", "REFUNDED", "UNFILED"},
        mark : Admins \cup {"set", NoOne}]
Unknown == [status |-> "unknown", mark |-> NoOne]

UserActions == {"VERIFY", "UNVERIFY", "SUSPEND", "REACTIVATE", "DEACTIVATE"}
CollectiveActions == {"CLOSE", "ARCHIVE", "REOPEN"}
ReportActions == {"REVIEW", "RESOLVE", "DISMISS"}
Actions == UserActions \cup CollectiveActions \cup ReportActions \cup {"REFUND", "CREATED", "LOAD"}

ActionsOn(s) ==
    CASE s \in Accounts -> UserActions
      [] s \in Collectives -> CollectiveActions
      [] s \in Reports -> ReportActions
      [] s \in Payments -> {"REFUND"}

Entry == [actor : Admins \cup {NoOne}, action : Actions \cup {"REFUNDED"}, subject : Subjects]
Page == [subject : Subjects, shown : Row \cup {Unknown}, dialog : Actions \cup {NoOne},
         busy : BOOLEAN]
Request == [n : 1..MaxCalls, admin : Admins \cup {NoOne}, from : Admins \cup {NoOne}, action : Actions,
            subject : Subjects, at : {"read", "write", "log", "view", "answer"}, ok : BOOLEAN,
            row : Row \cup {Unknown}]

-----------------------------------------------------------------------------
(* What an action makes of a row *)

UserBecomes(row, action) ==
    CASE action = "VERIFY" -> [row EXCEPT !.mark = "set"]
      [] action = "UNVERIFY" -> [row EXCEPT !.mark = NoOne]
      [] action = "SUSPEND" -> [row EXCEPT !.status = "SUSPENDED"]
      [] action = "REACTIVATE" -> [row EXCEPT !.status = "ACTIVE"]
      [] action = "DEACTIVATE" -> [row EXCEPT !.status = "DEACTIVATED"]

CollectiveBecomes(row, action) ==
    CASE action = "CLOSE" -> [status |-> "CLOSED", mark |-> "set"]
      [] action = "ARCHIVE" -> [status |-> "ARCHIVED", mark |-> "set"]
      [] action = "REOPEN" -> [status |-> "ACTIVE", mark |-> NoOne]

ReportBecomes(row, action, actor) ==
    CASE action = "REVIEW" -> [row EXCEPT !.status = "UNDER_REVIEW"]
      [] action = "RESOLVE" -> [status |-> "RESOLVED", mark |-> actor]
      [] action = "DISMISS" -> [status |-> "DISMISSED", mark |-> actor]

Becomes(s, row, action, actor) ==
    CASE s \in Accounts -> UserBecomes(row, action)
      [] s \in Collectives -> CollectiveBecomes(row, action)
      [] s \in Reports -> ReportBecomes(row, action, actor)
      [] s \in Payments -> [row EXCEPT !.status = "REFUNDED"]

Logged(actor, action, s) == Append(audit, [actor |-> actor, action |-> action, subject |-> s])

-----------------------------------------------------------------------------
(* Requests *)

Ask(a, action, s, at) ==
    /\ asked < MaxCalls
    /\ asked' = asked + 1
    /\ requests' = requests \cup {[n |-> asked + 1, admin |-> a, from |-> a, action |-> action,
                                   subject |-> s, at |-> at, ok |-> FALSE, row |-> Unknown]}

On(q, r) == requests' = (requests \ {q}) \cup {r} /\ UNCHANGED <<pages, asked>>
To(q, at) == [q EXCEPT !.at = at]

\* What the service finds before it acts.
Refused(q) ==
    \/ q.subject \in Staff /\ q.action \in {"SUSPEND", "DEACTIVATE"}
    \/ q.action = "REFUND" /\ rows[q.subject].status # "SUCCESS"

Find(q) ==
    /\ q.at = "read"
    /\ On(q, IF q.action = "LOAD" THEN To(q, "view")
             ELSE IF Refused(q) THEN To(q, "answer") ELSE To(q, "write"))
    /\ UNCHANGED <<rows, audit>>

\* Fault: the log is written after the transaction.
LogLater(q) == "log"

\* userAction(), collectiveAction(), reportAction(): the row and the log, in one transaction.
\* refund(): the payment and the provider's event in one, the admin's entry after it.
AfterWrite(q) == IF q.action \in {"REFUND", "CREATED"} THEN "log" ELSE "view"

Write(q) ==
    /\ q.at = "write" /\ q.action # "CREATED"
    /\ IF q.action = "REFUND" /\ rows[q.subject].status = "REFUNDED"
       THEN UNCHANGED <<rows, audit>>
       ELSE /\ rows' = [rows EXCEPT ![q.subject] = Becomes(q.subject, @, q.action, q.from)]
            /\ audit' = CASE q.action = "REFUND" -> Logged(NoOne, "REFUNDED", q.subject)
                          [] q.action # "REFUND" /\ AfterWrite(q) # "log" ->
                               Logged(q.from, q.action, q.subject)
                          [] OTHER -> audit
    /\ On(q, To(q, AfterWrite(q)))

\* ReportsService.create()
File(q) ==
    /\ q.at = "write" /\ q.action = "CREATED"
    /\ rows' = [rows EXCEPT ![q.subject].status = "OPEN"]
    /\ On(q, To(q, "log"))
    /\ UNCHANGED audit

Log(q) ==
    /\ q.at = "log"
    /\ audit' = Logged(q.from, q.action, q.subject)
    /\ On(q, To(q, "view"))
    /\ UNCHANGED rows

\* The row is read again for the answer.
View(q) ==
    /\ q.at = "view"
    /\ On(q, [To(q, "answer") EXCEPT !.ok = TRUE, !.row = rows[q.subject]])
    /\ UNCHANGED <<rows, audit>>

\* The server restarts in the middle of a request.
Crash(q) ==
    /\ q.at \in {"write", "log", "view"}
    /\ On(q, To(q, "answer"))
    /\ UNCHANGED <<rows, audit>>

\* A person reports something.
Report(s) ==
    /\ rows[s].status = "UNFILED" /\ \A a \in Admins : pages[a].subject = s
    /\ \A q \in requests : q.subject # s
    /\ Ask(NoOne, "CREATED", s, "write")
    /\ UNCHANGED <<rows, audit, pages>>

-----------------------------------------------------------------------------
(* The pages *)

SetPage(a, page) == pages' = [pages EXCEPT ![a] = page]

\* What a page that was left has asked for goes on unseen.
Unseen(a) == {IF q.admin = a THEN [q EXCEPT !.admin = NoOne] ELSE q : q \in requests}

Open(a) ==
    LET s == pages[a].subject IN
    /\ ~pages[a].busy /\ rows[s].status # "UNFILED"
    /\ asked < MaxCalls /\ asked' = asked + 1
    /\ requests' = Unseen(a) \cup {[n |-> asked + 1, admin |-> a, from |-> a, action |-> "LOAD",
                                    subject |-> s, at |-> "read", ok |-> FALSE, row |-> Unknown]}
    /\ SetPage(a, [subject |-> s, shown |-> Unknown, dialog |-> NoOne, busy |-> FALSE])
    /\ UNCHANGED <<rows, audit>>

\* The buttons a page has, by what it shows.
Button(s, shown, action) ==
    CASE action = "VERIFY" -> shown.mark = NoOne
      [] action = "UNVERIFY" -> shown.mark = "set"
      [] action = "SUSPEND" -> shown.status = "ACTIVE" /\ s \notin Staff
      [] action = "REACTIVATE" -> shown.status # "ACTIVE"
      [] action = "DEACTIVATE" -> shown.status # "DEACTIVATED" /\ s \notin Staff
      [] action = "CLOSE" -> shown.status = "ACTIVE"
      [] action = "ARCHIVE" -> shown.status # "ARCHIVED"
      [] action = "REOPEN" -> shown.status # "ACTIVE"
      [] action = "REVIEW" -> shown.status = "OPEN"
      [] action \in {"RESOLVE", "DISMISS"} -> shown.status \in {"OPEN", "UNDER_REVIEW"}
      [] action = "REFUND" -> shown.status = "SUCCESS"

Act(a, action) ==
    LET page == pages[a] IN
    /\ page.shown # Unknown /\ page.dialog = NoOne
    /\ action \in ActionsOn(page.subject) /\ Button(page.subject, page.shown, action)
    /\ SetPage(a, [page EXCEPT !.dialog = action])
    /\ UNCHANGED <<rows, audit, requests, asked>>

Cancel(a) ==
    /\ pages[a].dialog # NoOne /\ ~pages[a].busy
    /\ SetPage(a, [pages[a] EXCEPT !.dialog = NoOne])
    /\ UNCHANGED <<rows, audit, requests, asked>>

Confirm(a) ==
    /\ pages[a].dialog # NoOne /\ ~pages[a].busy
    /\ Ask(a, pages[a].dialog, pages[a].subject, "read")
    /\ SetPage(a, [pages[a] EXCEPT !.busy = TRUE])
    /\ UNCHANGED <<rows, audit>>

\* The dialog closes over the answer; an error is shown in it, and it may be confirmed again.
Answer(q) ==
    /\ q.at = "answer"
    /\ requests' = requests \ {q}
    /\ IF q.admin = NoOne THEN UNCHANGED pages
       ELSE SetPage(q.admin, [pages[q.admin] EXCEPT !.shown = IF q.ok THEN q.row ELSE @,
                                                    !.dialog = IF q.ok THEN NoOne ELSE @,
                                                    !.busy = FALSE])
    /\ UNCHANGED <<rows, audit, asked>>

\* The connection breaks: an error too, and the server goes on.
Lose(q) ==
    /\ q.admin # NoOne
    /\ requests' = (requests \ {q}) \cup {[q EXCEPT !.admin = NoOne]}
    /\ SetPage(q.admin, [pages[q.admin] EXCEPT !.busy = FALSE])
    /\ UNCHANGED <<rows, audit, asked>>

-----------------------------------------------------------------------------
Start(s) ==
    CASE s \in Accounts -> [status |-> "ACTIVE", mark |-> NoOne]
      [] s \in Collectives -> [status |-> "ACTIVE", mark |-> NoOne]
      [] s \in Reports -> [status |-> "UNFILED", mark |-> NoOne]
      [] s \in Payments -> [status |-> "SUCCESS", mark |-> NoOne]

\* What is done to one subject leaves the others alone: the admins meet over one.
Init ==
    /\ rows = [s \in Subjects |-> Start(s)]
    /\ audit = <<>>
    /\ \E s \in Subjects :
         pages = [a \in Admins |-> [subject |-> s, shown |-> Unknown, dialog |-> NoOne, busy |-> FALSE]]
    /\ requests = {} /\ asked = 0

Next ==
    \/ \E q \in requests : \/ Find(q) \/ Write(q) \/ File(q) \/ Log(q) \/ View(q) \/ Crash(q)
                           \/ Answer(q) \/ Lose(q)
    \/ \E s \in Reports : Report(s)
    \/ \E a \in Admins : Open(a) \/ Cancel(a) \/ Confirm(a) \/ \E action \in Actions : Act(a, action)

-----------------------------------------------------------------------------
(* Properties *)

TypeOK ==
    /\ rows \in [Subjects -> Row]
    /\ audit \in Seq(Entry)
    /\ pages \in [Admins -> Page]
    /\ requests \subseteq Request
    /\ asked \in 0..MaxCalls

\* The actions that change a row's status, and those that change its mark.
Sets(field) ==
    CASE field = "status" -> (UserActions \ {"VERIFY", "UNVERIFY"}) \cup CollectiveActions \cup ReportActions
      [] field = "mark" -> {"VERIFY", "UNVERIFY"} \cup CollectiveActions \cup {"RESOLVE", "DISMISS"}

About(s, field) == {i \in DOMAIN audit : audit[i].subject = s /\ audit[i].action \in Sets(field)}

\* A person, a collective, or a report that was filed, before any admin acts.
Begun(s) == IF s \in Reports THEN [Start(s) EXCEPT !.status = "OPEN"] ELSE Start(s)

\* What the last entry that changes it says became of it, by whom.
Tells(s, field) ==
    IF About(s, field) = {} THEN rows[s][field] = Begun(s)[field]
    ELSE \E i \in About(s, field) :
           /\ \A j \in About(s, field) : j <= i
           /\ rows[s][field] = Becomes(s, rows[s], audit[i].action, audit[i].actor)[field]

\* "Every mutation writes an audit log row" (AdminService): whatever admins do to one person,
\* collective or report at the same time, from pages that are out of date, with crashes and
\* repeats, its log tells in order what was done, and by whom.
AuditTellsState ==
    \A s \in Accounts \cup Collectives \cup Reports :
        rows[s].status # "UNFILED" => Tells(s, "status") /\ Tells(s, "mark")

\* The same of refunds: one that was made is in the log under the admin's name once the
\* request is over.
RefundIsLogged ==
    \A s \in Payments :
        /\ rows[s].status = "REFUNDED"
        /\ \A q \in requests : q.subject # s
        => \E i \in DOMAIN audit : audit[i].subject = s /\ audit[i].action = "REFUND"
=============================================================================
