-------------------------------- MODULE Files --------------------------------
(***************************************************************************)
(* Files: uploaded, then attached somewhere - shared in a collective, sent *)
(* in its discussion or in a direct conversation, or made one's photo -    *)
(* and read by whoever may, statement by statement, while people join and  *)
(* leave, and what was shared is removed.                                  *)
(***************************************************************************)
EXTENDS Naturals, FiniteSets

CONSTANTS
    Users,
    Pair,      \* the two who have a direct conversation
    Ids,       \* ids of files
    MaxCalls   \* bound: requests

ASSUME FilesAssumption == Pair \subseteq Users /\ "none" \notin Users \cup Ids /\ MaxCalls \in Nat

VARIABLES
    owner,     \* owner[f]: who uploaded it
    photo,     \* photo[u]
    puts,      \* shared files, and messages with an attachment
    inside,    \* the collective's ACTIVE members, who are in its discussion too
    open,      \* the collective is ACTIVE
    calls,     \* the requests under way
    sent,      \* how many there have been
    got,       \* got[f]: who has been given it
    reach      \* reach[f]: who has been where its uploader had put it

filing == <<owner, photo, puts, inside, open, calls, sent, got, reach>>

None == "none"
Places == {"shared", "discussion", "direct"}
Purposes == Places \cup {"photo"}

Put == [n : 1..MaxCalls, file : Ids, by : Users, place : Places, removed : BOOLEAN]

Call == [n : 1..MaxCalls, by : Users,
         op : {"UPLOAD", "ATTACH", "REMOVE", "READ"}, purpose : Purposes \cup {None},
         file : Ids \cup {None}, share : 0..MaxCalls, ok : BOOLEAN,
         at : {"store", "member", "owned", "write", "uploader", "photo", "messages", "shares", "answer"}]

Stored(f) == owner[f] # None

-----------------------------------------------------------------------------
(* Who may read *)

\* Fault: those who have left are not told apart.
EverIn(u, place) == TRUE

\* A conversation's members whose leftAt is null.
In(u, place) == IF place = "direct" THEN u \in Pair ELSE u \in inside

There(f, u, places) == \E p \in puts : p.file = f /\ ~p.removed /\ p.place \in places /\ In(u, p.place)

\* Where the one who uploaded it has put it himself.
Audience(f) ==
    {u \in Users : \/ u = owner[f]
                   \/ Stored(f) /\ photo[owner[f]] = f
                   \/ \E p \in puts : /\ p.file = f /\ ~p.removed /\ p.by = owner[f]
                                      /\ u \in IF p.place = "direct" THEN Pair ELSE inside}

Watch == reach' = [f \in Ids |-> reach[f] \cup Audience(f)']

-----------------------------------------------------------------------------
(* Requests *)

Request(u, op, purpose, f, share) ==
    [n |-> sent + 1, by |-> u, op |-> op, purpose |-> purpose, file |-> f,
     share |-> share, ok |-> FALSE,
     at |-> CASE op = "UPLOAD" -> "store"
              [] op = "ATTACH" -> IF purpose = "photo" THEN "owned" ELSE "member"
              [] op = "REMOVE" -> "owned"
              [] op = "READ" -> "uploader"]

Send(q) == sent < MaxCalls /\ sent' = sent + 1 /\ calls' = calls \cup {q}

On(c, d) == calls' = (calls \ {c}) \cup {d} /\ UNCHANGED sent
To(c, at) == [c EXCEPT !.at = at]
Fails(c) == To(c, "answer")
Works(c) == [To(c, "answer") EXCEPT !.ok = TRUE]

Rest == UNCHANGED <<inside, open>>

-----------------------------------------------------------------------------
(* The server *)

\* store(): the object, its preview, and then the row.
Store(c) ==
    /\ c.at = "store"
    /\ \E f \in {g \in Ids : ~Stored(g)} :
         /\ owner' = [owner EXCEPT ![f] = c.by]
         /\ On(c, [Works(c) EXCEPT !.file = f])
    /\ UNCHANGED <<photo, puts, got>> /\ Rest /\ Watch

\* requireActiveMember() for shared files, requireMember() for a conversation.
Member(c) ==
    /\ c.at = "member"
    /\ LET may == IF c.purpose = "direct" THEN c.by \in Pair
                  ELSE c.by \in inside /\ (c.purpose = "shared" => open) IN
       On(c, IF may THEN To(c, "owned") ELSE Fails(c))
    /\ UNCHANGED <<owner, photo, puts, got>> /\ Rest /\ Watch

\* Fault: whose file it is is not asked.
AnyFile(f, u) == Stored(f)

\* requireOwned(), and the same of a photo
IsOwned(f, u) == owner[f] = u

Owned(c) ==
    /\ c.at = "owned"
    /\ LET own == IF c.op = "REMOVE" THEN \E p \in puts : p.n = c.share /\ p.by = c.by /\ ~p.removed
                  ELSE IsOwned(c.file, c.by) IN
       On(c, IF own THEN To(c, "write") ELSE Fails(c))
    /\ UNCHANGED <<owner, photo, puts, got>> /\ Rest /\ Watch

Write(c) ==
    /\ c.at = "write"
    /\ CASE c.op = "REMOVE" ->
              /\ puts' = {IF p.n = c.share THEN [p EXCEPT !.removed = TRUE] ELSE p : p \in puts}
              /\ On(c, Works(c)) /\ UNCHANGED photo
         [] c.op = "ATTACH" /\ c.purpose = "photo" ->
              /\ photo' = [photo EXCEPT ![c.by] = c.file]
              /\ On(c, Works(c)) /\ UNCHANGED puts
         [] OTHER ->
              /\ puts' = puts \cup {[n |-> c.n, file |-> c.file, by |-> c.by, place |-> c.purpose,
                                     removed |-> FALSE]}
              /\ On(c, Works(c)) /\ UNCHANGED photo
    /\ UNCHANGED <<owner, got>> /\ Rest /\ Watch

\* authorizeRead(): one statement after the other, the first that finds something lets in.
NextCheck(at) == CASE at = "uploader" -> "photo" [] at = "photo" -> "messages" [] at = "messages" -> "shares"

Finds(c) ==
    CASE c.at = "uploader" -> owner[c.file] = c.by
      [] c.at = "photo" -> \E u \in Users : photo[u] = c.file
      [] c.at = "messages" -> There(c.file, c.by, {"discussion", "direct"})
      [] c.at = "shares" -> There(c.file, c.by, {"shared"})

AuthorizeRead(c) ==
    /\ c.at \in {"uploader", "photo", "messages", "shares"}
    /\ On(c, IF Finds(c) THEN Works(c)
             ELSE IF c.at = "shares" THEN Fails(c) ELSE To(c, NextCheck(c.at)))
    /\ UNCHANGED <<owner, photo, puts, got>> /\ Rest /\ Watch

-----------------------------------------------------------------------------
(* The devices *)

\* The sheet, the composer or the profile is saving.
Busy(u) == \E c \in calls : c.by = u /\ c.op \in {"UPLOAD", "ATTACH"}

\* A photo or a document is picked for the share sheet, a message or the profile; share(),
\* send() and save() upload the file first.  The sheet may be closed: what it sent goes on.
Upload(u, purpose) ==
    /\ ~Busy(u)
    /\ Send(Request(u, "UPLOAD", purpose, None, 0))
    /\ UNCHANGED <<owner, photo, puts, got>> /\ Rest /\ Watch

\* A request names a file: the one just uploaded, or any other.
Attach(u, purpose, f) ==
    /\ Stored(f) /\ ~Busy(u)
    /\ Send(Request(u, "ATTACH", purpose, f, 0))
    /\ UNCHANGED <<owner, photo, puts, got>> /\ Rest /\ Watch

\* The menu of one's own share, or a message of one's own.
Remove(u) ==
    /\ \E p \in puts : p.by = u /\ Send(Request(u, "REMOVE", None, None, p.n))
    /\ UNCHANGED <<owner, photo, puts, got>> /\ Rest /\ Watch

Open(u, f) ==
    /\ Stored(f)
    /\ Send(Request(u, "READ", None, f, 0))
    /\ UNCHANGED <<owner, photo, puts, got>> /\ Rest /\ Watch

\* What was uploaded is attached next, unless the answer is lost: then one tries again, and
\* uploads once more.
Answer(c) ==
    /\ c.at = "answer"
    /\ \/ calls' = calls \ {c} /\ UNCHANGED sent
       \/ /\ c.op = "UPLOAD" /\ c.ok /\ sent < MaxCalls
          /\ calls' = (calls \ {c}) \cup {Request(c.by, "ATTACH", c.purpose, c.file, 0)}
          /\ sent' = sent + 1
    /\ got' = IF c.op = "READ" /\ c.ok THEN [got EXCEPT ![c.file] = @ \cup {c.by}] ELSE got
    /\ UNCHANGED <<owner, photo, puts>> /\ Rest /\ Watch

-----------------------------------------------------------------------------
(* The collective *)

\* A pass begins, or it ends or the post is closed: the discussion with it.
JoinOrLeave(u) ==
    /\ sent < MaxCalls
    /\ inside' = IF u \in inside THEN inside \ {u} ELSE inside \cup {u}
    /\ sent' = sent + 1
    /\ UNCHANGED <<owner, photo, puts, open, calls, got>> /\ Watch

CloseCollective ==
    /\ open /\ sent < MaxCalls
    /\ open' = FALSE /\ sent' = sent + 1
    /\ UNCHANGED <<owner, photo, puts, inside, calls, got>> /\ Watch

Init ==
    /\ owner \in [Ids -> Users \cup {None}]
    /\ photo = [u \in Users |-> None]
    /\ puts = {} /\ open = TRUE
    /\ inside = Pair
    /\ calls = {} /\ sent = 0
    /\ got = [f \in Ids |-> {}] /\ reach = [f \in Ids |-> {owner[f]} \ {None}]

Next ==
    \/ \E c \in calls : Store(c) \/ Member(c) \/ Owned(c) \/ Write(c) \/ AuthorizeRead(c) \/ Answer(c)
    \/ \E u \in Users :
         \/ \E purpose \in Purposes : Upload(u, purpose) \/ \E f \in Ids : Attach(u, purpose, f)
         \/ Remove(u) \/ JoinOrLeave(u)
         \/ \E f \in Ids : Open(u, f)
    \/ CloseCollective

Spec == Init /\ [][Next]_filing

-----------------------------------------------------------------------------
(* Properties *)

TypeOK ==
    /\ owner \in [Ids -> Users \cup {None}]
    /\ photo \in [Users -> Ids \cup {None}]
    /\ puts \subseteq Put
    /\ inside \subseteq Users /\ open \in BOOLEAN
    /\ calls \subseteq Call
    /\ sent \in 0..MaxCalls
    /\ got \in [Ids -> SUBSET Users] /\ reach \in [Ids -> SUBSET Users]

\* "Who may read a file: its uploader; anyone in a conversation it was sent to; any ACTIVE
\* member of a collective it was shared in; and anyone signed in, for a profile photo"
\* (authorizeRead()): whoever has been given a file has been, at some time, where the person
\* who uploaded it had put it, whoever else tries to attach it, and however joining, leaving,
\* removing and reading interleave.
OnlyItsAudience == \A f \in Ids : got[f] \subseteq reach[f]
=============================================================================
