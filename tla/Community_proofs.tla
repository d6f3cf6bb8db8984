-------------------------- MODULE Community_proofs --------------------------
(***************************************************************************)
(* Proofs about what goes on around the rooms, for any people, any number  *)
(* of requests and any bounds: files are given to their audience, and each *)
(* of the other ten components keeps what it promises.  Each component has *)
(* an inductive invariant, four of them in Posts_proofs; the last section  *)
(* joins them.                                                             *)
(***************************************************************************)
EXTENDS Posts_proofs, FiniteSetTheorems, SequenceTheorems, WellFoundedInduction, TLAPS

-----------------------------------------------------------------------------
(* Files: only the one who uploaded a file puts it anywhere. *)

\* What a request relies on at its next step.
CallOK(c) ==
    /\ c.op \in {"ATTACH", "READ"} \/ (c.op = "UPLOAD" /\ c.ok) => c.file \in Ids
    /\ c.op \in {"ATTACH", "UPLOAD"} => c.purpose \in Purposes
    /\ c.op = "UPLOAD" => c.at \in {"store", "answer"}
    /\ c.op = "READ" => c.at \in {"uploader", "photo", "messages", "shares", "answer"}
    /\ c.at \in {"uploader", "photo", "messages", "shares"} => c.op = "READ"
    /\ c.at = "store" => c.op = "UPLOAD"
    /\ c.op = "ATTACH" /\ c.at = "write" => owner[c.file] = c.by
    /\ c.op = "READ" /\ c.ok => c.by \in reach[c.file]

\* Only the one who uploaded a file puts it anywhere.
PutsOwned ==
    /\ \A p \in puts : owner[p.file] = p.by
    /\ \A u \in Users : photo[u] # None => owner[photo[u]] = u

\* Those a file is put before are remembered, and so is whoever has been let in.
Remembered ==
    /\ \A c \in calls : CallOK(c)
    /\ \A f \in Ids : Audience(f) \subseteq reach[f]
    /\ \A f \in Ids : got[f] \subseteq reach[f]

FilesInv == TypeOK /\ PutsOwned /\ Remembered

-----------------------------------------------------------------------------
(* What is remembered *)

\* What is remembered only grows, and takes in whoever the file is put before now.
LEMMA Grows ==
    ASSUME Watch, reach \in [Ids -> SUBSET Users]
    PROVE  /\ reach' \in [Ids -> SUBSET Users]
           /\ \A f \in Ids : reach[f] \subseteq reach'[f] /\ Audience(f)' \subseteq reach'[f]
<1>1. \A f \in Ids : Audience(f)' \subseteq Users
    BY DEF Audience
<1> QED BY <1>1 DEF Watch

\* A request that does not move relies on no less, as long as files keep their uploaders.
LEMMA StillOK ==
    ASSUME TypeOK, NEW c \in calls, CallOK(c),
           \A f \in Ids : Stored(f) => owner'[f] = owner[f],
           \A f \in Ids : reach[f] \subseteq reach'[f]
    PROVE  CallOK(c)'
<1>1. c \in Call
    BY DEF TypeOK
<1>2. c.op = "ATTACH" /\ c.at = "write" => owner'[c.file] = c.by
    BY <1>1, FilesAssumption DEF CallOK, Stored, Call, None
<1>3. c.op = "READ" /\ c.ok => c.by \in reach'[c.file]
    BY DEF CallOK
<1> QED BY <1>2, <1>3 DEF CallOK

\* Whoever a check lets in is one the file was put before.
LEMMA FoundIsAudience ==
    ASSUME FilesInv, NEW c \in calls, c.op = "READ",
           c.at \in {"uploader", "photo", "messages", "shares"}, Finds(c)
    PROVE  c.by \in reach[c.file]
<1>1. c \in Call /\ c.file \in Ids
    BY DEF FilesInv, TypeOK, Remembered, CallOK
<1>2. c.by \in Audience(c.file)
    <2>1. CASE c.at = "uploader"
        BY <1>1, <2>1 DEF Finds, Audience, Call
    <2>2. CASE c.at = "messages"
        BY <1>1, <2>2 DEF Finds, Audience, Call, There, In, FilesInv, PutsOwned, TypeOK, Put
    <2>3. CASE c.at = "shares"
        BY <1>1, <2>3 DEF Finds, Audience, Call, There, In, FilesInv, PutsOwned, TypeOK, Put
    <2>4. CASE c.at = "photo"
        <3>1. PICK u \in Users : photo[u] = c.file
            BY <2>4 DEF Finds
        <3>2. owner[c.file] = u /\ Stored(c.file)
            BY <3>1, <1>1, FilesAssumption DEF FilesInv, PutsOwned, Stored, None
        <3> QED BY <1>1, <3>1, <3>2 DEF Audience, Call
    <2> QED BY <2>1, <2>2, <2>3, <2>4
<1> QED BY <1>1, <1>2 DEF FilesInv, Remembered

\* The steps that leave files, photos and puts alone, and answer nothing: the requests that
\* there are afterwards are well formed, and so is all the rest.
LEMMA OnlyCalls ==
    ASSUME FilesInv, Watch, UNCHANGED <<owner, photo, puts, got>>,
           inside' \subseteq Users, open' \in BOOLEAN, sent' \in 0..MaxCalls,
           \A c \in calls' : c \in calls \/ (c \in Call /\ CallOK(c)')
    PROVE  FilesInv'
<1>1. reach' \in [Ids -> SUBSET Users] /\ \A f \in Ids : reach[f] \subseteq reach'[f] /\ Audience(f)' \subseteq reach'[f]
    <2>1. reach \in [Ids -> SUBSET Users]
        BY DEF FilesInv, TypeOK
    <2> QED BY <2>1, Grows
<1>2. \A c \in calls' : CallOK(c)' /\ c \in Call
    <2> SUFFICES ASSUME NEW c \in calls', c \in calls PROVE CallOK(c)' /\ c \in Call
        OBVIOUS
    <2> QED BY <1>1, StillOK DEF FilesInv, Remembered, TypeOK
<1>3. TypeOK'
    BY <1>1, <1>2 DEF FilesInv, TypeOK
<1>4. PutsOwned'
    BY DEF FilesInv, PutsOwned
<1>5. Remembered'
    BY <1>1, <1>2 DEF FilesInv, Remembered
<1> QED BY <1>3, <1>4, <1>5 DEF FilesInv

-----------------------------------------------------------------------------
(* What files are asked and given *)

LEMMA FilesInitially == Init => FilesInv
<1> SUFFICES ASSUME Init PROVE FilesInv
    OBVIOUS
<1>1. TypeOK
    BY FilesAssumption DEF Init, TypeOK
<1>2. PutsOwned
    BY DEF Init, PutsOwned
<1>3. Remembered
    <2>1. \A f \in Ids : Audience(f) \subseteq reach[f]
        BY FilesAssumption DEF Init, Audience, Stored, None
    <2> QED BY <2>1 DEF Init, Remembered
<1> QED BY <1>1, <1>2, <1>3 DEF FilesInv

LEMMA Stores == ASSUME FilesInv, NEW c \in calls, Store(c) PROVE FilesInv'
<1>1. PICK f \in {g \in Ids : ~Stored(g)} :
         /\ owner' = [owner EXCEPT ![f] = c.by]
         /\ On(c, [Works(c) EXCEPT !.file = f])
    BY DEF Store
<1>2. c \in Call /\ CallOK(c) /\ c.op = "UPLOAD" /\ f \in Ids
    BY DEF FilesInv, TypeOK, Remembered, CallOK, Store
<1> DEFINE d == [Works(c) EXCEPT !.file = f]
<1>3. \A g \in Ids : Stored(g) => owner'[g] = owner[g]
    BY <1>1 DEF Stored, FilesInv, TypeOK
<1>4. reach' \in [Ids -> SUBSET Users] /\ \A g \in Ids : reach[g] \subseteq reach'[g] /\ Audience(g)' \subseteq reach'[g]
    BY Grows DEF Store, FilesInv, TypeOK
<1>5. d \in Call /\ CallOK(d)'
    BY <1>2 DEF Works, To, Call, CallOK
<1>6. \A e \in calls' : e \in Call /\ CallOK(e)'
    <2> SUFFICES ASSUME NEW e \in calls, e \in calls' PROVE e \in Call /\ CallOK(e)'
        BY <1>1, <1>5 DEF On
    <2> QED BY StillOK, <1>3, <1>4 DEF FilesInv, Remembered, TypeOK
<1>7. TypeOK'
    <2>1. owner' \in [Ids -> Users \cup {None}]
        BY <1>1, <1>2 DEF FilesInv, TypeOK, Call
    <2> QED BY <2>1, <1>1, <1>4, <1>6 DEF FilesInv, TypeOK, Store, On, Rest
<1>8. PutsOwned'
    BY <1>1, <1>3, FilesAssumption DEF PutsOwned, Store, FilesInv, TypeOK, Stored, None, Put
<1>9. Remembered'
    BY <1>4, <1>6 DEF FilesInv, Remembered, Store
<1> QED BY <1>7, <1>8, <1>9 DEF FilesInv

LEMMA Writes == ASSUME FilesInv, NEW c \in calls, Write(c) PROVE FilesInv'
<1>1. c \in Call /\ CallOK(c) /\ c.at = "write" /\ c.op \in {"ATTACH", "REMOVE"}
    BY DEF FilesInv, TypeOK, Remembered, CallOK, Write, Call
<1>2. On(c, Works(c)) /\ owner' = owner /\ got' = got /\ UNCHANGED <<inside, open>>
    BY DEF Write, Rest
<1>3. reach' \in [Ids -> SUBSET Users] /\ \A g \in Ids : reach[g] \subseteq reach'[g] /\ Audience(g)' \subseteq reach'[g]
    BY Grows DEF Write, FilesInv, TypeOK
<1>4. Works(c) \in Call /\ CallOK(Works(c))'
    BY <1>1, <1>2 DEF Works, To, Call, CallOK
<1>5. \A e \in calls' : e \in Call /\ CallOK(e)'
    <2> SUFFICES ASSUME NEW e \in calls, e \in calls' PROVE e \in Call /\ CallOK(e)'
        BY <1>2, <1>4 DEF On
    <2> QED BY StillOK, <1>2, <1>3 DEF FilesInv, Remembered, TypeOK
<1>6. puts' \subseteq Put /\ photo' \in [Users -> Ids \cup {None}] /\ PutsOwned'
    <2>1. CASE c.op = "REMOVE"
        <3>1. puts' = {IF p.n = c.share THEN [p EXCEPT !.removed = TRUE] ELSE p : p \in puts} /\ photo' = photo
            BY <2>1 DEF Write
        <3>2. \A p \in puts' : \E q \in puts : p = q \/ p = [q EXCEPT !.removed = TRUE]
            BY <3>1
        <3>3. \A q \in puts : q \in Put /\ owner[q.file] = q.by
            BY DEF FilesInv, TypeOK, PutsOwned
        <3>4. \A p \in puts' : p \in Put /\ owner[p.file] = p.by
            BY <3>2, <3>3 DEF Put
        <3> QED BY <3>1, <3>4, <1>2 DEF FilesInv, TypeOK, PutsOwned
    <2>2. CASE c.op = "ATTACH" /\ c.purpose = "photo"
        <3>1. photo' = [photo EXCEPT ![c.by] = c.file] /\ puts' = puts
            BY <2>2 DEF Write
        <3>2. owner[c.file] = c.by /\ c.by \in Users /\ c.file \in Ids
            BY <1>1, <2>2 DEF CallOK, Call
        <3> QED BY <3>1, <3>2, <1>2 DEF FilesInv, TypeOK, PutsOwned
    <2>3. CASE c.op = "ATTACH" /\ c.purpose # "photo"
        <3> DEFINE p == [n |-> c.n, file |-> c.file, by |-> c.by, place |-> c.purpose, removed |-> FALSE]
        <3>1. puts' = puts \cup {p} /\ photo' = photo
            BY <2>3 DEF Write
        <3>2. owner[c.file] = c.by /\ p \in Put
            BY <1>1, <2>3 DEF CallOK, Call, Put, Purposes
        <3>3. owner[p.file] = p.by
            BY <3>2
        <3> QED BY <3>1, <3>2, <3>3, <1>2 DEF FilesInv, TypeOK, PutsOwned
    <2> QED BY <1>1, <2>1, <2>2, <2>3
<1>7. TypeOK'
    BY <1>2, <1>3, <1>5, <1>6 DEF FilesInv, TypeOK, On
<1>8. Remembered'
    BY <1>2, <1>3, <1>5 DEF FilesInv, Remembered
<1> QED BY <1>6, <1>7, <1>8 DEF FilesInv

\* A request sent: of the operations, only what is named has to be there.
LEMMA Sends ==
    ASSUME FilesInv, Watch, UNCHANGED <<owner, photo, puts, got, inside, open>>,
           NEW q, Send(q), q \in Call, CallOK(q)'
    PROVE  FilesInv'
<1>1. calls' = calls \cup {q} /\ sent' \in 0..MaxCalls
    BY FilesAssumption DEF Send, FilesInv, TypeOK
<1>2. inside' \subseteq Users /\ open' \in BOOLEAN
    BY DEF FilesInv, TypeOK
<1> QED BY <1>1, <1>2, OnlyCalls

\* A request that moves: what it becomes is well formed.
LEMMA Moves ==
    ASSUME FilesInv, Watch, UNCHANGED <<owner, photo, puts, got, inside, open>>,
           NEW c \in calls, NEW d, On(c, d), d \in Call, CallOK(d)'
    PROVE  FilesInv'
<1>1. \A e \in calls' : e \in calls \/ (e \in Call /\ CallOK(e)')
    BY DEF On
<1>2. inside' \subseteq Users /\ open' \in BOOLEAN /\ sent' \in 0..MaxCalls
    BY DEF FilesInv, TypeOK, On
<1> QED BY <1>1, <1>2, OnlyCalls

LEMMA Checks == ASSUME FilesInv, NEW c \in calls, Member(c) \/ Owned(c) PROVE FilesInv'
<1>1. c \in Call /\ CallOK(c)
    BY DEF FilesInv, TypeOK, Remembered
<1>2. c.op \notin {"UPLOAD", "READ"}
    BY <1>1 DEF CallOK, Member, Owned
<1>3. CASE Member(c)
    <2>1. PICK d : On(c, d) /\ (d = To(c, "owned") \/ d = Fails(c))
        BY <1>3 DEF Member
    <2>2. UNCHANGED <<owner, photo, puts, got, inside, open>> /\ Watch
        BY <1>3 DEF Member, Rest
    <2>3. PICK at \in {"owned", "answer"} : d = [c EXCEPT !.at = at]
        BY <2>1 DEF To, Fails
    <2>4. d \in Call /\ CallOK(d)'
        BY <1>1, <1>2, <2>3 DEF Call, CallOK
    <2> QED BY <2>1, <2>2, <2>4, Moves
<1>4. CASE Owned(c)
    <2>1. PICK d : /\ On(c, d)
                   /\ \/ d = To(c, "write") /\ (c.op = "REMOVE" \/ IsOwned(c.file, c.by))
                      \/ d = Fails(c)
        BY <1>4 DEF Owned
    <2>2. UNCHANGED <<owner, photo, puts, got, inside, open>> /\ Watch
        BY <1>4 DEF Owned, Rest
    <2>3. PICK at \in {"write", "answer"} :
              d = [c EXCEPT !.at = at] /\ (at = "write" /\ c.op # "REMOVE" => owner[c.file] = c.by)
        BY <2>1 DEF To, Fails, IsOwned
    <2>4. d \in Call
        BY <1>1, <2>3 DEF Call
    <2>5. CallOK(d)'
        BY <1>1, <1>2, <2>2, <2>3 DEF Call, CallOK
    <2> QED BY <2>1, <2>2, <2>4, <2>5, Moves
<1> QED BY <1>3, <1>4

LEMMA Reads == ASSUME FilesInv, NEW c \in calls, AuthorizeRead(c) PROVE FilesInv'
<1>1. /\ c \in Call /\ CallOK(c) /\ c.at \in {"uploader", "photo", "messages", "shares"}
      /\ c.op = "READ"
    BY DEF FilesInv, TypeOK, Remembered, CallOK, AuthorizeRead
<1>2. PICK d : /\ d = IF Finds(c) THEN Works(c)
                      ELSE IF c.at = "shares" THEN Fails(c) ELSE To(c, NextCheck(c.at))
               /\ On(c, d)
    BY DEF AuthorizeRead
<1>3. UNCHANGED <<owner, photo, puts, got, inside, open>> /\ Watch
    BY DEF AuthorizeRead, Rest
<1>4. reach[c.file] \subseteq reach'[c.file]
    BY <1>1, <1>3, Grows DEF FilesInv, TypeOK, CallOK
<1>5. CASE Finds(c)
    <2>1. c.by \in reach'[c.file]
        BY <1>1, <1>4, <1>5, FoundIsAudience
    <2>2. d = [c EXCEPT !.at = "answer", !.ok = TRUE]
        BY <1>2, <1>5, <1>1 DEF Works, To, Call
    <2>3. d \in Call /\ CallOK(d)'
        BY <1>1, <2>1, <2>2 DEF Call, CallOK
    <2> QED BY <1>2, <1>3, <2>3, Moves
<1>6. CASE ~Finds(c)
    <2>1. PICK at \in {"photo", "messages", "shares", "answer"} : d = [c EXCEPT !.at = at]
        BY <1>1, <1>2, <1>6 DEF Fails, To, NextCheck
    <2>2. c.ok => c.by \in reach'[c.file]
        BY <1>1, <1>4 DEF CallOK
    <2>3. d \in Call /\ CallOK(d)'
        BY <1>1, <2>1, <2>2 DEF Call, CallOK
    <2> QED BY <1>2, <1>3, <2>3, Moves
<1> QED BY <1>5, <1>6

LEMMA Answers == ASSUME FilesInv, NEW c \in calls, Answer(c) PROVE FilesInv'
<1>1. c \in Call /\ CallOK(c) /\ c.at = "answer"
    BY DEF FilesInv, TypeOK, Remembered, Answer
<1>2. \/ calls' = calls \ {c} /\ sent' = sent
      \/ /\ c.op = "UPLOAD" /\ c.ok /\ sent < MaxCalls
         /\ calls' = (calls \ {c}) \cup {Request(c.by, "ATTACH", c.purpose, c.file, 0)}
         /\ sent' = sent + 1
    BY DEF Answer
<1>3. got' = IF c.op = "READ" /\ c.ok THEN [got EXCEPT ![c.file] = @ \cup {c.by}] ELSE got
    BY DEF Answer
<1>4. UNCHANGED <<owner, photo, puts, inside, open>> /\ Watch
    BY DEF Answer, Rest
<1>5. reach' \in [Ids -> SUBSET Users] /\ \A g \in Ids : reach[g] \subseteq reach'[g] /\ Audience(g)' \subseteq reach'[g]
    BY <1>4, Grows DEF FilesInv, TypeOK
<1>6. sent' \in 0..MaxCalls
    BY <1>2, FilesAssumption DEF FilesInv, TypeOK
<1>7. \A e \in calls' : e \in Call /\ CallOK(e)'
    <2>1. ASSUME NEW e \in calls PROVE e \in Call /\ CallOK(e)'
        BY StillOK, <1>4, <1>5, <2>1 DEF FilesInv, Remembered, TypeOK
    <2>2. CASE calls' = calls \ {c}
        BY <2>1, <2>2
    <2>3. CASE /\ c.op = "UPLOAD" /\ c.ok /\ sent < MaxCalls
               /\ calls' = (calls \ {c}) \cup {Request(c.by, "ATTACH", c.purpose, c.file, 0)}
        <3>1. PICK r : r = Request(c.by, "ATTACH", c.purpose, c.file, 0)
            OBVIOUS
        <3>2. c.file \in Ids /\ c.purpose \in Purposes
            BY <1>1, <2>3 DEF CallOK
        <3>3. sent + 1 \in 1..MaxCalls
            BY <2>3, FilesAssumption DEF FilesInv, TypeOK
        <3>4. r \in Call /\ CallOK(r)'
            BY <1>1, <3>1, <3>2, <3>3, FilesAssumption DEF Request, Call, CallOK
        <3> QED BY <2>1, <2>3, <3>1, <3>4
    <2> QED BY <1>2, <2>2, <2>3
<1>8. got' \in [Ids -> SUBSET Users] /\ \A f \in Ids : got'[f] \subseteq reach'[f]
    <2>1. \A f \in Ids : got[f] \subseteq reach'[f]
        BY <1>5 DEF FilesInv, Remembered
    <2>2. c.op = "READ" /\ c.ok => c.by \in reach'[c.file] /\ c.by \in Users
        BY <1>1, <1>5 DEF CallOK, Call
    <2> QED BY <1>3, <2>1, <2>2 DEF FilesInv, TypeOK
<1>9. TypeOK'
    BY <1>4, <1>5, <1>6, <1>7, <1>8 DEF FilesInv, TypeOK
<1>10. PutsOwned'
    BY <1>4 DEF FilesInv, PutsOwned
<1>11. Remembered'
    BY <1>5, <1>7, <1>8 DEF Remembered
<1> QED BY <1>9, <1>10, <1>11 DEF FilesInv

\* What the people ask for is well formed when it is sent.
LEMMA Asks ==
    ASSUME FilesInv, NEW u \in Users,
           \/ \E purpose \in Purposes : Upload(u, purpose) \/ \E f \in Ids : Attach(u, purpose, f)
           \/ Remove(u)
           \/ \E f \in Ids : Open(u, f)
    PROVE  FilesInv'
<1>1. ASSUME NEW purpose \in Purposes, Upload(u, purpose) PROVE FilesInv'
    <2>1. PICK q : q = Request(u, "UPLOAD", purpose, None, 0) /\ Send(q)
        BY <1>1 DEF Upload
    <2>2. Watch /\ UNCHANGED <<owner, photo, puts, got, inside, open>>
        BY <1>1 DEF Upload, Rest
    <2>3. sent + 1 \in 1..MaxCalls
        BY <2>1, FilesAssumption DEF Send, FilesInv, TypeOK
    <2>4. q \in Call /\ CallOK(q)'
        BY <2>1, <2>3, FilesAssumption DEF Request, Call, CallOK, Purposes
    <2> QED BY <2>1, <2>2, <2>4, Sends
<1>2. ASSUME NEW purpose \in Purposes, NEW f \in Ids, Attach(u, purpose, f) PROVE FilesInv'
    <2>1. PICK q : q = Request(u, "ATTACH", purpose, f, 0) /\ Send(q)
        BY <1>2 DEF Attach
    <2>2. Watch /\ UNCHANGED <<owner, photo, puts, got, inside, open>>
        BY <1>2 DEF Attach, Rest
    <2>3. sent + 1 \in 1..MaxCalls
        BY <2>1, FilesAssumption DEF Send, FilesInv, TypeOK
    <2>4. q \in Call /\ CallOK(q)'
        BY <2>1, <2>3, FilesAssumption DEF Request, Call, CallOK, Purposes
    <2> QED BY <2>1, <2>2, <2>4, Sends
<1>3. ASSUME Remove(u) PROVE FilesInv'
    <2>1. PICK p \in puts : Send(Request(u, "REMOVE", None, None, p.n))
        BY <1>3 DEF Remove
    <2>2. PICK q : q = Request(u, "REMOVE", None, None, p.n) /\ Send(q)
        BY <2>1
    <2>3. Watch /\ UNCHANGED <<owner, photo, puts, got, inside, open>>
        BY <1>3 DEF Remove, Rest
    <2>4. sent + 1 \in 1..MaxCalls /\ p.n \in 0..MaxCalls
        BY <2>2, FilesAssumption DEF Send, FilesInv, TypeOK, Put
    <2>5. q \in Call /\ CallOK(q)'
        BY <2>2, <2>4, FilesAssumption DEF Request, Call, CallOK
    <2> QED BY <2>2, <2>3, <2>5, Sends
<1>4. ASSUME NEW f \in Ids, Open(u, f) PROVE FilesInv'
    <2>1. PICK q : q = Request(u, "READ", None, f, 0) /\ Send(q)
        BY <1>4 DEF Open
    <2>2. Watch /\ UNCHANGED <<owner, photo, puts, got, inside, open>>
        BY <1>4 DEF Open, Rest
    <2>3. sent + 1 \in 1..MaxCalls
        BY <2>1, FilesAssumption DEF Send, FilesInv, TypeOK
    <2>4. q \in Call /\ CallOK(q)'
        BY <2>1, <2>3, FilesAssumption DEF Request, Call, CallOK, Purposes
    <2> QED BY <2>1, <2>2, <2>4, Sends
<1> QED BY <1>1, <1>2, <1>3, <1>4

\* Coming, going and closing change who is where, and answer nothing.
LEMMA Surroundings ==
    ASSUME FilesInv, (\E u \in Users : JoinOrLeave(u)) \/ CloseCollective
    PROVE  FilesInv'
<1>1. Watch /\ UNCHANGED <<owner, photo, puts, got>> /\ calls' = calls
    BY DEF JoinOrLeave, CloseCollective
<1>2. sent' \in 0..MaxCalls
    <2>1. sent < MaxCalls /\ sent' = sent + 1
        BY DEF JoinOrLeave, CloseCollective
    <2> QED BY <2>1, FilesAssumption DEF FilesInv, TypeOK
<1>3. inside' \subseteq Users
    BY DEF JoinOrLeave, CloseCollective, FilesInv, TypeOK
<1>4. open' \in BOOLEAN
    BY DEF JoinOrLeave, CloseCollective, FilesInv, TypeOK
<1> QED BY <1>1, <1>2, <1>3, <1>4, OnlyCalls

\* Every step keeps the invariant.
LEMMA FilesSteps == FilesInv /\ [Next]_filing => FilesInv'
<1> SUFFICES ASSUME FilesInv, [Next]_filing PROVE FilesInv'
    OBVIOUS
<1>1. ASSUME NEW c \in calls,
             Store(c) \/ Member(c) \/ Owned(c) \/ Write(c) \/ AuthorizeRead(c) \/ Answer(c)
      PROVE  FilesInv'
    BY <1>1, Stores, Checks, Writes, Reads, Answers
<1>2. CASE UNCHANGED filing
    BY <1>2 DEF filing, FilesInv, TypeOK, PutsOwned, Remembered, CallOK, Audience, Stored
<1> QED BY <1>1, <1>2, Asks, Surroundings DEF Next

-----------------------------------------------------------------------------
(* Plans of a collective (Activities): what a request or a screen has of an activity's answers is
   right but for what it is doing itself. *)

\* What a list has of an activity is there, and whose it is does not change.
PlanningKnows(list) == \A a \in Things : list[a] # Planning!Unlisted => Planning!Exists(a) /\ list[a].by = activities[a].by

\* Of an activity, a list has u's answer, and of u's own whether it is cancelled.
PlanningAgrees(list, a, u) ==
    list[a] # Planning!Unlisted => /\ list[a].mine = answers[a][u]
                                   /\ list[a].by = u => list[a].status = activities[a].status

\* What a request relies on at its next step.
PlanningCallOK(c) ==
    /\ PlanningKnows(c.base) /\ PlanningKnows(c.result)
    /\ c.op \in {"RSVP", "CANCEL"} => c.activity \in Things /\ Planning!Exists(c.activity)
    /\ c.at = "find" => c.op \in {"RSVP", "CANCEL"}
    /\ c.at = "view" => c.op # "CREATE"
    /\ c.at = "notify" => c.op = "CREATE" /\ c.activity \in Things
    /\ c.op = "CANCEL" /\ c.at \in {"write", "view"} => activities[c.activity].by = c.by
    /\ c.ok => c.at = "answer"

\* The server has done what was asked for, and the screen does not show it yet.
PlanningDone(c) == c.op \in {"RSVP", "CANCEL"} /\ (c.at = "view" \/ (c.at = "answer" /\ c.ok))

\* A request that is alone knows the list shown, which is right but for what it does itself.
PlanningPending(c) ==
    /\ c.seen
    /\ c.op = "LIST" /\ c.at = "answer" /\ c.ok => \A a \in Things : PlanningAgrees(c.result, a, c.by)
    /\ c.op # "LIST" =>
         /\ c.base = plans[c.by].list
         /\ \A a \in Things : (a = c.activity /\ PlanningDone(c)) \/ PlanningAgrees(c.base, a, c.by)
    /\ c.op \in {"RSVP", "CANCEL"} /\ c.at = "answer" /\ c.ok => PlanningAgrees(c.result, c.activity, c.by)

PlanningSettled(u) ==
    plans[u].alone =>
        /\ \A c, d \in Planning!Own(u) : c = d
        /\ Planning!Own(u) = {} => \A a \in Things : PlanningAgrees(plans[u].list, a, u)
        /\ \A c \in Planning!Own(u) : PlanningPending(c)

PlanningInv ==
    /\ Planning!TypeOK
    /\ \A u \in Planners : PlanningKnows(plans[u].list)
    /\ \A c \in planCalls : PlanningCallOK(c)
    /\ \A u \in Planners : PlanningSettled(u)

\* What the steps of u leave of the rows of others.
PlanningGrows(u) ==
    /\ \A a \in Things : Planning!Exists(a) =>
         /\ Planning!Exists(a)' /\ activities'[a].by = activities[a].by
         /\ activities[a].by # u => activities'[a].status = activities[a].status
    /\ \A a \in Things, v \in Planners \ {u} : answers'[a][v] = answers[a][v]

LEMMA PlanningKnowsStill ==
    ASSUME NEW u \in Planners, PlanningGrows(u), NEW list, PlanningKnows(list)
    PROVE  PlanningKnows(list)'
  BY DEF PlanningKnows, PlanningGrows

LEMMA PlanningAgreesStill ==
    ASSUME NEW u \in Planners, PlanningGrows(u), NEW v \in Planners \ {u}, NEW list,
           PlanningKnows(list), NEW a \in Things,
           PlanningAgrees(list, a, v)
    PROVE  PlanningAgrees(list, a, v)'
  BY DEF PlanningKnows, PlanningAgrees, PlanningGrows

LEMMA PlanningCallStill ==
    ASSUME NEW u \in Planners, PlanningGrows(u), NEW c \in Planning!Call, PlanningCallOK(c)
    PROVE  PlanningCallOK(c)'
  <1>1. PlanningKnows(c.base)' /\ PlanningKnows(c.result)'
    BY PlanningKnowsStill DEF PlanningCallOK
  <1>2. c.op \in {"RSVP", "CANCEL"} =>
          Planning!Exists(c.activity)' /\ activities'[c.activity].by = activities[c.activity].by
    BY DEF PlanningCallOK, PlanningGrows
  <1> QED
    BY <1>1, <1>2 DEF PlanningCallOK

LEMMA PlanningSettledStill ==
    ASSUME PlanningInv, NEW u \in Planners, PlanningGrows(u), NEW v \in Planners \ {u},
           Planning!Own(v)' = Planning!Own(v),
           plans'[v] = plans[v]
    PROVE  PlanningSettled(v)'
  <1>1. \A c \in Planning!Own(v) : c \in Planning!Call /\ c.by = v /\ PlanningCallOK(c)
    BY DEF PlanningInv, Planning!TypeOK, Planning!Own
  <1>2. PlanningKnows(plans[v].list) /\ PlanningSettled(v)
    BY DEF PlanningInv
  <1> SUFFICES ASSUME plans[v].alone
      PROVE  /\ \A c, d \in Planning!Own(v) : c = d
             /\ Planning!Own(v) = {} => \A a \in Things : PlanningAgrees(plans[v].list, a, v)'
             /\ \A c \in Planning!Own(v) : PlanningPending(c)'
    BY DEF PlanningSettled
  <1>3. \A c, d \in Planning!Own(v) : c = d
    BY <1>2 DEF PlanningSettled
  <1>4. Planning!Own(v) = {} => \A a \in Things : PlanningAgrees(plans[v].list, a, v)'
    <2> SUFFICES ASSUME Planning!Own(v) = {}, NEW a \in Things
                 PROVE  PlanningAgrees(plans[v].list, a, v)'
      OBVIOUS
    <2>1. PICK list : list = plans[v].list
      OBVIOUS
    <2>2. PlanningAgrees(list, a, v)'
      BY <1>2, <2>1, PlanningAgreesStill DEF PlanningSettled
    <2> QED
      BY <2>1, <2>2 DEF PlanningAgrees
  <1>5. ASSUME NEW c \in Planning!Own(v) PROVE PlanningPending(c)'
    <2>1. PlanningPending(c) /\ PlanningCallOK(c) /\ c \in Planning!Call /\ c.by = v
      BY <1>1, <1>2 DEF PlanningSettled
    <2>2. \A a \in Things : /\ PlanningAgrees(c.base, a, v) => PlanningAgrees(c.base, a, v)'
                            /\ PlanningAgrees(c.result, a, v) => PlanningAgrees(c.result, a, v)'
      BY <2>1, PlanningAgreesStill DEF PlanningCallOK
    <2>3. c.op \in {"RSVP", "CANCEL"} => c.activity \in Things
      BY <2>1 DEF PlanningCallOK
    <2> QED
      BY <2>1, <2>2, <2>3 DEF PlanningPending
  <1> QED
    BY <1>3, <1>4, <1>5

\* The step of a request, at the server.
LEMMA PlanningStepKeeps ==
    ASSUME PlanningInv, NEW c \in planCalls, NEW d \in Planning!Call, Planning!On(c, d),
           d.by = c.by, PlanningGrows(c.by),
           activities' \in [Things -> Planning!Activity \cup {Planning!Absent}],
           answers' \in [Things -> [Planners -> Planning!Answers \cup {Planning!None}]],
           told' \in [Things -> SUBSET Planners],
           PlanningCallOK(d)',
           PlanningPending(c) => PlanningPending(d)'
    PROVE  PlanningInv'
  <1>0. PICK u \in Planners : u = c.by
    BY DEF PlanningInv, Planning!TypeOK, Planning!Call
  <1>1. Planning!TypeOK'
    BY DEF PlanningInv, Planning!TypeOK, Planning!On
  <1>2. ASSUME NEW v \in Planners PROVE PlanningKnows(plans[v].list)'
    <2>1. PICK list : list = plans[v].list
      OBVIOUS
    <2>2. PlanningKnows(list)'
      BY <1>0, <2>1, PlanningKnowsStill DEF PlanningInv
    <2> QED
      BY <2>1, <2>2 DEF Planning!On, PlanningKnows
  <1>3. \A e \in planCalls' : PlanningCallOK(e)'
    BY <1>0, PlanningCallStill DEF PlanningInv, Planning!TypeOK, Planning!On
  <1>4. ASSUME NEW v \in Planners \ {u} PROVE PlanningSettled(v)'
    <2>1. Planning!Own(v)' = Planning!Own(v) /\ plans'[v] = plans[v]
      BY <1>0 DEF Planning!Own, Planning!On
    <2> QED
      BY <1>0, <2>1, PlanningSettledStill
  <1>5. PlanningSettled(u)'
    <2> SUFFICES ASSUME plans[u].alone PROVE PlanningSettled(u)'
      BY DEF PlanningSettled, Planning!On
    <2>1. c \in Planning!Own(u) /\ PlanningSettled(u)
      BY <1>0 DEF PlanningInv, Planning!Own
    <2>2. Planning!Own(u)' = {d} /\ PlanningPending(c)
      BY <1>0, <2>1 DEF PlanningSettled, Planning!Own, Planning!On
    <2> QED
      BY <2>2 DEF PlanningSettled
  <1> QED
    BY <1>0, <1>1, <1>2, <1>3, <1>4, <1>5 DEF PlanningInv

LEMMA PlanningCallTyped ==
    ASSUME PlanningInv, NEW c \in planCalls
    PROVE  /\ c \in Planning!Call /\ PlanningCallOK(c) /\ c.by \in Planners
           /\ c.base \in Planning!List /\ c.result \in Planning!List
           /\ PlanningKnows(plans[c.by].list)
  BY DEF PlanningInv, Planning!TypeOK, Planning!Call

\* A step that writes nothing.
LEMMA PlanningLooksKeep ==
    ASSUME PlanningInv, NEW c \in planCalls, Planning!Find(c) \/ Planning!Member(c)
    PROVE  PlanningInv'
  <1>1. c \in Planning!Call /\ PlanningCallOK(c) /\ c.by \in Planners /\ c.at \in {"find", "member"}
    BY PlanningCallTyped DEF Planning!Find, Planning!Member
  <1>2. PICK at \in {"member", "answer", "view", "write"} :
             /\ Planning!On(c, [c EXCEPT !.at = at])
             /\ at = "view" => c.op = "LIST"
             /\ at \in {"view", "write"} /\ c.op = "CANCEL" => activities[c.activity].by = c.by
    BY DEF Planning!Find, Planning!Member, Planning!To
  <1>3. PICK d : d = [c EXCEPT !.at = at]
    OBVIOUS
  <1>4. d \in Planning!Call
    BY <1>1, <1>3 DEF Planning!Call
  <1>5. /\ d.by = c.by /\ d.op = c.op /\ d.activity = c.activity /\ d.base = c.base
        /\ d.result = c.result
        /\ d.ok = c.ok /\ d.seen = c.seen /\ d.at = at
    BY <1>1, <1>3 DEF Planning!Call
  <1>6. ~c.ok
    BY <1>1 DEF PlanningCallOK
  <1>7. UNCHANGED <<activities, answers, told, plans>>
    BY DEF Planning!Find, Planning!Member, Planning!On
  <1>8. PlanningCallOK(d)
    BY <1>1, <1>2, <1>5, <1>6 DEF PlanningCallOK
  <1>9. PlanningCallOK(d)'
    BY <1>7, <1>8 DEF PlanningCallOK, PlanningKnows, Planning!Exists
  <1>10. PlanningPending(c) => PlanningPending(d)'
    <2>1. PlanningPending(c) => PlanningPending(d)
      BY <1>1, <1>2, <1>5, <1>6 DEF PlanningPending, PlanningDone
    <2>2. PlanningPending(d) => PlanningPending(d)'
      BY <1>7 DEF PlanningPending, PlanningAgrees
    <2> QED
      BY <2>1, <2>2
  <1>11. PlanningGrows(c.by)
    BY <1>7 DEF PlanningGrows, Planning!Exists
  <1>12. /\ activities' \in [Things -> Planning!Activity \cup {Planning!Absent}]
         /\ answers' \in [Things -> [Planners -> Planning!Answers \cup {Planning!None}]] /\ told' \in [Things -> SUBSET Planners]
    BY <1>7 DEF PlanningInv, Planning!TypeOK
  <1> QED
    BY <1>2, <1>3, <1>4, <1>5, <1>9, <1>10, <1>11, <1>12, PlanningStepKeeps

LEMMA PlanningNotifyKeeps ==
    ASSUME PlanningInv, NEW c \in planCalls, Planning!Notify(c)
    PROVE  PlanningInv'
  <1>1. c \in Planning!Call /\ PlanningCallOK(c) /\ c.by \in Planners /\ c.at = "notify"
    BY PlanningCallTyped DEF Planning!Notify
  <1>2. PICK d : d = [c EXCEPT !.at = "answer", !.ok = TRUE]
    OBVIOUS
  <1>3. d \in Planning!Call
    BY <1>1, <1>2 DEF Planning!Call
  <1>4. /\ d.by = c.by /\ d.op = c.op /\ d.activity = c.activity /\ d.base = c.base
        /\ d.result = c.result
        /\ d.ok /\ d.seen = c.seen /\ d.at = "answer"
    BY <1>1, <1>2 DEF Planning!Call
  <1>5. Planning!On(c, d)
    BY <1>1, <1>2 DEF Planning!Notify, Planning!To, Planning!Call
  <1>6. UNCHANGED <<activities, answers, plans>>
    BY DEF Planning!Notify, Planning!On
  <1>7. c.op = "CREATE"
    BY <1>1 DEF PlanningCallOK
  <1>8. PlanningCallOK(d)'
    BY <1>1, <1>4, <1>6, <1>7 DEF PlanningCallOK, PlanningKnows, Planning!Exists
  <1>9. PlanningPending(c) => PlanningPending(d)'
    BY <1>4, <1>6, <1>7 DEF PlanningPending, PlanningDone, PlanningAgrees
  <1>10. PlanningGrows(c.by)
    BY <1>6 DEF PlanningGrows, Planning!Exists
  <1>11. /\ activities' \in [Things -> Planning!Activity \cup {Planning!Absent}]
         /\ answers' \in [Things -> [Planners -> Planning!Answers \cup {Planning!None}]] /\ told' \in [Things -> SUBSET Planners]
    BY <1>1, <1>6 DEF PlanningInv, Planning!TypeOK, Planning!Notify
  <1> QED
    BY <1>3, <1>4, <1>5, <1>8, <1>9, <1>10, <1>11, PlanningStepKeeps

LEMMA PlanningCreateKeeps ==
    ASSUME PlanningInv, NEW c \in planCalls, Planning!Create(c)
    PROVE  PlanningInv'
  <1>1. /\ c \in Planning!Call /\ PlanningCallOK(c) /\ c.by \in Planners /\ c.at = "write"
        /\ c.op = "CREATE" /\ ~c.ok
    BY PlanningCallTyped DEF Planning!Create, PlanningCallOK
  <1>2. PICK a \in Things :
          /\ ~Planning!Exists(a)
          /\ activities' = [activities EXCEPT ![a] = [by |-> c.by, status |-> "SCHEDULED"]]
          /\ answers' = [answers EXCEPT ![a][c.by] = "GOING"]
          /\ Planning!On(c, [Planning!To(c, "notify") EXCEPT !.activity = a])
    BY DEF Planning!Create
  <1>3. PICK d : d = [c EXCEPT !.at = "notify", !.activity = a]
    OBVIOUS
  <1>4. d \in Planning!Call /\ Planning!On(c, d)
    BY <1>1, <1>2, <1>3 DEF Planning!Call, Planning!To
  <1>5. /\ d.by = c.by /\ d.op = c.op /\ d.activity = a /\ d.base = c.base /\ d.result = c.result
        /\ d.ok = c.ok /\ d.seen = c.seen /\ d.at = "notify"
    BY <1>1, <1>3 DEF Planning!Call
  <1>6. /\ activities \in [Things -> Planning!Activity \cup {Planning!Absent}]
        /\ answers \in [Things -> [Planners -> Planning!Answers \cup {Planning!None}]]
    BY DEF PlanningInv, Planning!TypeOK
  <1>7. /\ activities' \in [Things -> Planning!Activity \cup {Planning!Absent}]
        /\ answers' \in [Things -> [Planners -> Planning!Answers \cup {Planning!None}]] /\ told' \in [Things -> SUBSET Planners]
    <2>1. [by |-> c.by, status |-> "SCHEDULED"] \in Planning!Activity
      BY <1>1 DEF Planning!Activity
    <2>2. told' = told /\ told \in [Things -> SUBSET Planners]
      BY DEF Planning!Create, PlanningInv, Planning!TypeOK
    <2> QED
      BY <1>1, <1>2, <1>6, <2>1, <2>2 DEF Planning!Answers
  <1>8. PlanningGrows(c.by)
    BY <1>1, <1>2, <1>6 DEF PlanningGrows, Planning!Exists, Planning!Absent
  <1>9. \A b \in Things \ {a} : activities'[b] = activities[b] /\ answers'[b] = answers[b]
    BY <1>2, <1>6
  <1>10. PlanningCallOK(d)'
    <2>1. PlanningKnows(d.base)' /\ PlanningKnows(d.result)'
      BY <1>1, <1>5, <1>8, PlanningKnowsStill DEF PlanningCallOK
    <2> QED
      BY <1>1, <1>5, <2>1 DEF PlanningCallOK
  <1>11. PlanningPending(c) => PlanningPending(d)'
    <2> SUFFICES ASSUME PlanningPending(c) PROVE PlanningPending(d)'
      OBVIOUS
    <2>1. d.seen /\ d.base = plans'[c.by].list
      BY <1>1, <1>4, <1>5 DEF PlanningPending, Planning!On
    <2>2. ASSUME NEW b \in Things PROVE PlanningAgrees(d.base, b, c.by)'
      <3>1. PlanningAgrees(c.base, b, c.by) /\ (b = a => c.base[b] = Planning!Unlisted)
        BY <1>1, <1>2 DEF PlanningPending, PlanningDone, PlanningCallOK, PlanningKnows
      <3> QED
        BY <1>5, <1>9, <3>1 DEF PlanningAgrees
    <2> QED
      BY <1>1, <1>5, <2>1, <2>2 DEF PlanningPending
  <1> QED
    BY <1>4, <1>5, <1>7, <1>8, <1>10, <1>11, PlanningStepKeeps

\* The two writes of an activity that is there.
LEMMA PlanningWritesKeep ==
    ASSUME PlanningInv, NEW c \in planCalls, Planning!Rsvp(c) \/ Planning!Cancel(c)
    PROVE  PlanningInv'
  <1>1. /\ c \in Planning!Call /\ PlanningCallOK(c) /\ c.by \in Planners /\ c.at = "write"
        /\ c.op \in {"RSVP", "CANCEL"} /\ ~c.ok
        /\ c.activity \in Things /\ Planning!Exists(c.activity)
    BY PlanningCallTyped DEF Planning!Rsvp, Planning!Cancel, PlanningCallOK
  <1>3. PICK d : d = [c EXCEPT !.at = "view"]
    OBVIOUS
  <1>4. d \in Planning!Call /\ Planning!On(c, d)
    BY <1>1, <1>3 DEF Planning!Call, Planning!To, Planning!Rsvp, Planning!Cancel
  <1>5. /\ d.by = c.by /\ d.op = c.op /\ d.activity = c.activity /\ d.base = c.base
        /\ d.result = c.result
        /\ d.ok = c.ok /\ d.seen = c.seen /\ d.at = "view"
    BY <1>1, <1>3 DEF Planning!Call
  <1>6. /\ activities \in [Things -> Planning!Activity \cup {Planning!Absent}]
        /\ answers \in [Things -> [Planners -> Planning!Answers \cup {Planning!None}]]
        /\ told' = told /\ told \in [Things -> SUBSET Planners]
        /\ activities[c.activity] \in Planning!Activity
    BY <1>1 DEF PlanningInv, Planning!TypeOK, Planning!Rsvp, Planning!Cancel, Planning!Exists
  <1>7. /\ activities' \in [Things -> Planning!Activity \cup {Planning!Absent}]
        /\ answers' \in [Things -> [Planners -> Planning!Answers \cup {Planning!None}]] /\ told' \in [Things -> SUBSET Planners]
        /\ PlanningGrows(c.by)
        /\ \A b \in Things \ {c.activity} : activities'[b] = activities[b] /\ answers'[b] = answers[b]
    <2>1. CASE Planning!Rsvp(c)
      <3>1. answers' = [answers EXCEPT ![c.activity][c.by] = c.answer] /\ activities' = activities
            /\ c.answer \in Planning!Answers \cup {Planning!None}
        BY <1>1, <2>1 DEF Planning!Rsvp, Planning!Call
      <3> QED
        BY <1>1, <1>6, <3>1 DEF PlanningGrows, Planning!Exists
    <2>2. CASE Planning!Cancel(c)
      <3>1. /\ activities' = [activities EXCEPT ![c.activity].status = "CANCELLED"]
            /\ answers' = answers
        BY <2>2 DEF Planning!Cancel
      <3>2. activities[c.activity].by = c.by
        BY <1>1, <2>2 DEF Planning!Cancel, PlanningCallOK
      <3>3. PICK row : row = [activities[c.activity] EXCEPT !.status = "CANCELLED"]
        OBVIOUS
      <3>4. row \in Planning!Activity /\ row.by = c.by /\ row # Planning!Absent
        BY <1>6, <3>2, <3>3 DEF Planning!Activity, Planning!Absent, Planning!None
      <3>5. activities' = [activities EXCEPT ![c.activity] = row]
        BY <1>1, <1>6, <3>1, <3>3
      <3> QED
        BY <1>1, <1>6, <3>1, <3>2, <3>4, <3>5 DEF PlanningGrows, Planning!Exists
    <2> QED
      BY <2>1, <2>2
  <1>8. PlanningCallOK(d)'
    <2>1. PlanningCallOK(c)'
      BY <1>1, <1>7, PlanningCallStill
    <2>2. c.op = "CANCEL" => activities'[c.activity].by = c.by
      BY <1>1, <1>7 DEF PlanningCallOK, PlanningGrows
    <2> QED
      BY <1>1, <1>5, <2>1, <2>2 DEF PlanningCallOK
  <1>9. PlanningPending(c) => PlanningPending(d)'
    <2> SUFFICES ASSUME PlanningPending(c) PROVE PlanningPending(d)'
      OBVIOUS
    <2>1. d.seen /\ d.base = plans'[c.by].list
      BY <1>1, <1>4, <1>5 DEF PlanningPending, Planning!On
    <2>2. ASSUME NEW b \in Things \ {c.activity} PROVE PlanningAgrees(d.base, b, c.by)'
      <3>1. PlanningAgrees(c.base, b, c.by)
        BY <1>1 DEF PlanningPending, PlanningDone
      <3> QED
        BY <1>5, <1>7, <3>1 DEF PlanningAgrees
    <2>3. PlanningDone(d)
      <3>1. d.op \in {"RSVP", "CANCEL"} /\ d.at = "view"
        BY <1>1, <1>5
      <3> QED
        BY <3>1 DEF PlanningDone
    <2> QED
      BY <1>1, <1>5, <2>1, <2>2, <2>3 DEF PlanningPending, PlanningDone
  <1> QED
    BY <1>4, <1>5, <1>7, <1>8, <1>9, PlanningStepKeeps

LEMMA PlanningViewTyped ==
    ASSUME PlanningInv, NEW a \in Things, Planning!Exists(a), NEW u \in Planners
    PROVE  /\ Planning!ViewOf(a, u) \in Planning!View /\ Planning!ViewOf(a, u).by = activities[a].by
           /\ Planning!ViewOf(a, u).mine = answers[a][u]
           /\ Planning!ViewOf(a, u).status = activities[a].status
  <1>1. /\ activities[a] \in Planning!Activity
        /\ answers[a][u] \in Planning!Answers \cup {Planning!None}
    BY DEF PlanningInv, Planning!TypeOK, Planning!Exists
  <1> QED
    BY <1>1 DEF Planning!ViewOf, Planning!View, Planning!Activity

LEMMA PlanningSeeKeeps ==
    ASSUME PlanningInv, NEW c \in planCalls, Planning!See(c)
    PROVE  PlanningInv'
  <1>1. /\ c \in Planning!Call /\ PlanningCallOK(c) /\ c.by \in Planners /\ c.at = "view"
        /\ c.op \in {"LIST", "RSVP", "CANCEL"} /\ ~c.ok
    BY PlanningCallTyped DEF Planning!See, PlanningCallOK, Planning!Call
  <1>2. PICK result : result = IF c.op = "LIST" THEN [a \in Things |-> IF Planning!Exists(a) THEN Planning!ViewOf(a, c.by) ELSE Planning!Unlisted]
                               ELSE Planning!ReadAgain(c)
    OBVIOUS
  <1>3. /\ result \in Planning!List /\ PlanningKnows(result)
        /\ c.op = "LIST" => \A a \in Things : PlanningAgrees(result, a, c.by)
        /\ c.op # "LIST" => PlanningAgrees(result, c.activity, c.by)
    <2>1. CASE c.op = "LIST"
      <3>1. \A a \in Things : result[a] = IF Planning!Exists(a) THEN Planning!ViewOf(a, c.by) ELSE Planning!Unlisted
        BY <1>2, <2>1
      <3>2. result \in Planning!List
        BY <1>1, <1>2, <2>1, PlanningViewTyped DEF Planning!List
      <3> QED
        BY <1>1, <2>1, <3>1, <3>2, PlanningViewTyped DEF PlanningKnows, PlanningAgrees
    <2>2. CASE c.op # "LIST"
      <3>1. c.activity \in Things /\ Planning!Exists(c.activity)
        BY <1>1, <2>2 DEF PlanningCallOK
      <3>2. /\ \A a \in Things : result[a] = IF a = c.activity THEN Planning!ViewOf(a, c.by) ELSE Planning!Unlisted
            /\ result = [a \in Things |-> IF a = c.activity THEN Planning!ViewOf(a, c.by) ELSE Planning!Unlisted]
        BY <1>2, <2>2, <3>1 DEF Planning!ReadAgain, Planning!NotLoaded
      <3>3. result \in Planning!List
        BY <1>1, <3>1, <3>2, PlanningViewTyped DEF Planning!List
      <3> QED
        BY <1>1, <2>2, <3>1, <3>2, <3>3, PlanningViewTyped DEF PlanningKnows, PlanningAgrees
    <2> QED
      BY <2>1, <2>2
  <1>4. PICK d : d = [c EXCEPT !.at = "answer", !.ok = TRUE, !.result = result]
    OBVIOUS
  <1>5. d \in Planning!Call /\ Planning!On(c, d)
    BY <1>1, <1>2, <1>3, <1>4 DEF Planning!Call, Planning!See, Planning!To
  <1>6. /\ d.by = c.by /\ d.op = c.op /\ d.activity = c.activity /\ d.base = c.base
        /\ d.result = result
        /\ d.ok /\ d.seen = c.seen /\ d.at = "answer"
    BY <1>1, <1>4 DEF Planning!Call
  <1>7. UNCHANGED <<activities, answers, told, plans>>
    BY DEF Planning!See, Planning!On
  <1>8. PlanningCallOK(d)'
    <2>1. PlanningCallOK(d)
      BY <1>1, <1>3, <1>6 DEF PlanningCallOK
    <2> QED
      BY <1>7, <2>1 DEF PlanningCallOK, PlanningKnows, Planning!Exists
  <1>9. PlanningPending(c) => PlanningPending(d)'
    <2>1. PlanningPending(c) => PlanningPending(d)
      BY <1>1, <1>3, <1>6 DEF PlanningPending, PlanningDone
    <2>2. PlanningPending(d) => PlanningPending(d)'
      BY <1>7 DEF PlanningPending, PlanningAgrees
    <2> QED
      BY <2>1, <2>2
  <1>10. PlanningGrows(c.by)
    BY <1>7 DEF PlanningGrows, Planning!Exists
  <1>11. /\ activities' \in [Things -> Planning!Activity \cup {Planning!Absent}]
         /\ answers' \in [Things -> [Planners -> Planning!Answers \cup {Planning!None}]] /\ told' \in [Things -> SUBSET Planners]
    BY <1>7 DEF PlanningInv, Planning!TypeOK
  <1> QED
    BY <1>5, <1>6, <1>8, <1>9, <1>10, <1>11, PlanningStepKeeps

-----------------------------------------------------------------------------
(* The screens *)

\* What a screen, and the requests of its owner, become while the server does nothing.
LEMMA PlanningScreenKeeps ==
    ASSUME PlanningInv, NEW u \in Planners, NEW s \in Planning!Screen,
           plans' = [plans EXCEPT ![u] = s],
           UNCHANGED <<activities, answers, told, members>>, plansSent' \in 0..MaxCalls,
           planCalls' \subseteq Planning!Call, \A v \in Planners \ {u} : Planning!Own(v)' = Planning!Own(v),
           \A c \in planCalls' : c \in planCalls \/ PlanningCallOK(c),
           PlanningKnows(s.list),
           s.alone => /\ \A c, d \in Planning!Own(u)' : c = d
                      /\ Planning!Own(u)' = {} => \A a \in Things : PlanningAgrees(s.list, a, u)
                      /\ \A c \in Planning!Own(u)' : PlanningPending(c)'
    PROVE  PlanningInv'
  <1>0. plans \in [Planners -> Planning!Screen] /\ plans'[u] = s /\ \A v \in Planners \ {u} : plans'[v] = plans[v]
    BY DEF PlanningInv, Planning!TypeOK
  <1>1. Planning!TypeOK'
    BY <1>0 DEF PlanningInv, Planning!TypeOK
  <1>2. \A v \in Planners : PlanningKnows(plans[v].list)'
    BY <1>0 DEF PlanningInv, PlanningKnows, Planning!Exists
  <1>3. \A c \in planCalls' : PlanningCallOK(c)'
    BY DEF PlanningInv, PlanningCallOK, PlanningKnows, Planning!Exists
  <1>4. \A v \in Planners \ {u} : PlanningSettled(v)'
    <2>1. PlanningGrows(u)
      BY DEF PlanningGrows, Planning!Exists
    <2> QED
      BY <1>0, <2>1, PlanningSettledStill
  <1>5. PlanningSettled(u)'
    BY <1>0 DEF PlanningSettled, PlanningAgrees
  <1> QED
    BY <1>1, <1>2, <1>3, <1>4, <1>5 DEF PlanningInv

LEMMA PlanningNotLoadedTyped == Planning!NotLoaded \in Planning!List /\ PlanningKnows(Planning!NotLoaded)
  BY DEF Planning!NotLoaded, Planning!List, PlanningKnows

LEMMA PlanningRequestTyped ==
    ASSUME PlanningInv, NEW u \in Planners, NEW op \in {"CREATE", "LIST", "RSVP", "CANCEL"},
           NEW a \in Things \cup {Planning!None},
           NEW answer \in Planning!Answers \cup {Planning!None}, plansSent < MaxCalls,
           op \in {"RSVP", "CANCEL"} => a \in Things /\ Planning!Exists(a),
           op \in {"LIST", "CREATE"} => a = Planning!None
    PROVE  /\ plansSent + 1 \in 0..MaxCalls
           /\ Planning!Request(u, op, a, answer) \in Planning!Call
           /\ PlanningCallOK(Planning!Request(u, op, a, answer))
           /\ Planning!Request(u, op, a, answer).by = u
           /\ Planning!Request(u, op, a, answer).op = op
           /\ Planning!Request(u, op, a, answer).base = plans[u].list
           /\ Planning!Request(u, op, a, answer).seen
           /\ ~Planning!Request(u, op, a, answer).ok
           /\ Planning!Request(u, op, a, answer).at \in {"member", "find"}
  <1>1. plansSent + 1 \in 1..MaxCalls
    BY FilesAssumption DEF PlanningInv, Planning!TypeOK
  <1>2. plans[u].list \in Planning!List /\ PlanningKnows(plans[u].list)
    BY DEF PlanningInv, Planning!TypeOK, Planning!Screen
  <1>3. PICK at \in {"member", "find"} : at = IF a = Planning!None THEN "member" ELSE "find"
    OBVIOUS
  <1>4. PICK r : r = Planning!Request(u, op, a, answer)
    OBVIOUS
  <1>5. r = [n |-> plansSent + 1, by |-> u, op |-> op, activity |-> a, answer |-> answer, base |-> plans[u].list,
             result |-> Planning!NotLoaded, ok |-> FALSE, seen |-> TRUE, at |-> at]
    BY <1>3, <1>4 DEF Planning!Request
  <1>6. r \in Planning!Call
    BY <1>1, <1>2, <1>5, PlanningNotLoadedTyped DEF Planning!Call
  <1>7. PlanningCallOK(r)
    BY <1>2, <1>3, <1>5, PlanningNotLoadedTyped DEF PlanningCallOK
  <1> QED
    BY <1>1, <1>4, <1>5, <1>6, <1>7

LEMMA PlanningAloneTyped ==
    ASSUME PlanningInv, NEW u \in Planners, NEW b \in BOOLEAN
    PROVE  /\ [plans[u] EXCEPT !.alone = b] \in Planning!Screen
           /\ [plans[u] EXCEPT !.alone = b].alone = b
           /\ [plans[u] EXCEPT !.alone = b].list = plans[u].list
           /\ [plans EXCEPT ![u].alone = b] = [plans EXCEPT ![u] = [plans[u] EXCEPT !.alone = b]]
  <1>1. plans \in [Planners -> Planning!Screen] /\ plans[u] \in Planning!Screen
    BY DEF PlanningInv, Planning!TypeOK
  <1> QED
    BY <1>1 DEF Planning!Screen

LEMMA PlanningLoadKeeps ==
    ASSUME PlanningInv, NEW u \in Planners, Planning!Load(u)
    PROVE  PlanningInv'
  <1>1. PICK r : r = Planning!Request(u, "LIST", Planning!None, Planning!None)
    OBVIOUS
  <1>2. /\ plansSent + 1 \in 0..MaxCalls /\ r \in Planning!Call /\ PlanningCallOK(r) /\ r.by = u
        /\ r.op = "LIST" /\ r.seen
        /\ ~r.ok
    BY <1>1, PlanningRequestTyped DEF Planning!Load
  <1>3. PICK b \in BOOLEAN : b = (Planning!Own(u) = {})
    OBVIOUS
  <1>4. PICK s \in Planning!Screen : s = [plans[u] EXCEPT !.alone = b]
    BY PlanningAloneTyped
  <1>5. plans' = [plans EXCEPT ![u] = s] /\ s.alone = b /\ s.list = plans[u].list
    BY <1>3, <1>4, PlanningAloneTyped DEF Planning!Load
  <1>6. /\ planCalls' = planCalls \cup {r} /\ plansSent' = plansSent + 1
        /\ UNCHANGED <<activities, answers, told, members>>
    BY <1>1 DEF Planning!Load
  <1>7. \A v \in Planners \ {u} : Planning!Own(v)' = Planning!Own(v)
    BY <1>2, <1>6 DEF Planning!Own
  <1>8. b => Planning!Own(u)' = {r}
    BY <1>2, <1>3, <1>6 DEF Planning!Own
  <1>9. PlanningPending(r)'
    BY <1>2 DEF PlanningPending
  <1>10. planCalls' \subseteq Planning!Call /\ PlanningKnows(s.list)
    BY <1>2, <1>5, <1>6 DEF PlanningInv, Planning!TypeOK
  <1> QED
    BY <1>2, <1>5, <1>6, <1>7, <1>8, <1>9, <1>10, PlanningScreenKeeps

LEMMA PlanningActKeeps ==
    ASSUME PlanningInv, NEW u \in Planners, NEW op \in {"CREATE", "RSVP", "CANCEL"},
           NEW a \in Things \cup {Planning!None},
           NEW answer \in Planning!Answers \cup {Planning!None}, Planning!Act(u, op, a, answer),
           op \in {"RSVP", "CANCEL"} => a \in Things /\ Planning!Exists(a),
           op = "CREATE" => a = Planning!None
    PROVE  PlanningInv'
  <1>1. PICK r : r = Planning!Request(u, op, a, answer)
    OBVIOUS
  <1>2. /\ plansSent + 1 \in 0..MaxCalls /\ r \in Planning!Call /\ PlanningCallOK(r) /\ r.by = u
        /\ r.op = op /\ r.seen
        /\ ~r.ok /\ r.base = plans[u].list /\ r.at \in {"member", "find"}
    BY <1>1, PlanningRequestTyped DEF Planning!Act
  <1>3. PICK b \in BOOLEAN : b = (plans[u].alone /\ Planning!Own(u) = {})
    OBVIOUS
  <1>4. PICK s \in Planning!Screen : s = [plans[u] EXCEPT !.alone = b]
    BY PlanningAloneTyped
  <1>5. plans' = [plans EXCEPT ![u] = s] /\ s.alone = b /\ s.list = plans[u].list
    <2>1. plans' = [plans EXCEPT ![u].alone = b]
      BY <1>3 DEF Planning!Act
    <2> QED
      BY <1>4, <2>1, PlanningAloneTyped
  <1>6. /\ planCalls' = planCalls \cup {r} /\ plansSent' = plansSent + 1
        /\ UNCHANGED <<activities, answers, told, members>>
    BY <1>1 DEF Planning!Act
  <1>7. \A v \in Planners \ {u} : Planning!Own(v)' = Planning!Own(v)
    BY <1>2, <1>6 DEF Planning!Own
  <1>8. b => Planning!Own(u)' = {r} /\ \A c \in Things : PlanningAgrees(plans[u].list, c, u)
    BY <1>2, <1>3, <1>6 DEF Planning!Own, PlanningInv, PlanningSettled
  <1>9. b => PlanningPending(r)'
    <2>1. plans'[u].list = plans[u].list
      BY <1>5 DEF PlanningInv, Planning!TypeOK
    <2> QED
      BY <1>2, <1>6, <1>8, <2>1 DEF PlanningPending, PlanningAgrees
  <1>10. planCalls' \subseteq Planning!Call /\ PlanningKnows(s.list)
    BY <1>2, <1>5, <1>6 DEF PlanningInv, Planning!TypeOK
  <1> QED
    BY <1>2, <1>5, <1>6, <1>7, <1>8, <1>9, <1>10, PlanningScreenKeeps

LEMMA PlanningButtonsKeep ==
    ASSUME PlanningInv, NEW u \in Planners,
           \/ Planning!Plan(u)
           \/ \E a \in Things : Planning!PressCancel(u, a) \/ \E answer \in Planning!Answers : Planning!Press(u, a, answer)
    PROVE  PlanningInv'
  <1>1. ASSUME NEW a \in Things, plans[u].list[a].status = "SCHEDULED" PROVE Planning!Exists(a)
    BY <1>1 DEF PlanningInv, PlanningKnows, Planning!Unlisted, Planning!None
  <1>2. CASE Planning!Plan(u)
    BY <1>2, PlanningActKeeps DEF Planning!Plan
  <1>3. ASSUME NEW a \in Things, Planning!PressCancel(u, a) PROVE PlanningInv'
    BY <1>1, <1>3, PlanningActKeeps DEF Planning!PressCancel
  <1>4. ASSUME NEW a \in Things, NEW answer \in Planning!Answers, Planning!Press(u, a, answer)
        PROVE  PlanningInv'
    BY <1>1, <1>4, PlanningActKeeps DEF Planning!Press
  <1> QED
    BY <1>2, <1>3, <1>4

LEMMA PlanningLoseKeeps ==
    ASSUME PlanningInv, NEW c \in planCalls, Planning!Lose(c)
    PROVE  PlanningInv'
  <1>1. c \in Planning!Call /\ PlanningCallOK(c)
    BY PlanningCallTyped
  <1>u. PICK u \in Planners : u = c.by
    BY PlanningCallTyped
  <1>2. PICK d : d = [c EXCEPT !.seen = FALSE]
    OBVIOUS
  <1>3. d \in Planning!Call /\ d.by = u /\ PlanningCallOK(d)
    BY <1>1, <1>u, <1>2 DEF Planning!Call, PlanningCallOK
  <1>4. PICK s \in Planning!Screen : s = [plans[u] EXCEPT !.alone = FALSE]
    BY PlanningAloneTyped
  <1>5. plans' = [plans EXCEPT ![u] = s] /\ s.alone = FALSE /\ s.list = plans[u].list
    BY <1>u, <1>4, PlanningAloneTyped DEF Planning!Lose
  <1>6. /\ planCalls' = (planCalls \ {c}) \cup {d}
        /\ UNCHANGED <<activities, answers, told, members, plansSent>>
    BY <1>2 DEF Planning!Lose
  <1>7. \A v \in Planners \ {u} : Planning!Own(v)' = Planning!Own(v)
    BY <1>u, <1>3, <1>6 DEF Planning!Own
  <1>8. planCalls' \subseteq Planning!Call /\ PlanningKnows(s.list) /\ plansSent' \in 0..MaxCalls
    BY <1>3, <1>5, <1>6 DEF PlanningInv, Planning!TypeOK
  <1> QED
    BY <1>3, <1>5, <1>6, <1>7, <1>8, PlanningScreenKeeps

\* What an answer makes of a list.
PlanningAfter(c) == IF ~c.ok \/ ~c.seen \/ c.op = "CREATE" THEN plans[c.by].list
                    ELSE IF c.op = "LIST" THEN c.result ELSE Planning!Replaced(c)

LEMMA PlanningAfterTyped ==
    ASSUME PlanningInv, NEW c \in planCalls
    PROVE  PlanningAfter(c) \in Planning!List /\ PlanningKnows(PlanningAfter(c))
  <1>1. /\ c \in Planning!Call /\ PlanningCallOK(c) /\ c.by \in Planners
        /\ c.base \in Planning!List /\ c.result \in Planning!List
        /\ PlanningKnows(plans[c.by].list) /\ plans[c.by].list \in Planning!List
        /\ PlanningKnows(c.base) /\ PlanningKnows(c.result)
    BY PlanningCallTyped DEF PlanningCallOK, PlanningInv, Planning!TypeOK, Planning!Screen
  <1>2. Planning!Replaced(c) \in Planning!List
    BY <1>1 DEF Planning!Replaced, Planning!List
  <1>3. PlanningKnows(Planning!Replaced(c))
    BY <1>1 DEF Planning!Replaced, PlanningKnows
  <1> QED
    BY <1>1, <1>2, <1>3 DEF PlanningAfter

LEMMA PlanningAfterAgrees ==
    ASSUME PlanningInv, NEW c \in planCalls, c.at = "answer", PlanningPending(c),
           c.ok \/ c.op # "LIST"
    PROVE  \A a \in Things : PlanningAgrees(PlanningAfter(c), a, c.by)
  <1>1. CASE ~c.ok \/ c.op = "CREATE"
    BY <1>1 DEF PlanningPending, PlanningDone, PlanningAfter
  <1>2. CASE c.ok /\ c.op = "LIST"
    BY <1>2 DEF PlanningPending, PlanningAfter
  <1>3. CASE c.ok /\ c.op \notin {"CREATE", "LIST"}
    <2>0. /\ c \in Planning!Call /\ c.op \in {"RSVP", "CANCEL"}
          /\ PlanningAfter(c) = Planning!Replaced(c)
      BY <1>3, PlanningCallTyped DEF PlanningPending, PlanningAfter, Planning!Call
    <2>1. PlanningAgrees(c.result, c.activity, c.by) /\ \A a \in Things \ {c.activity} : PlanningAgrees(c.base, a, c.by)
      BY <1>3, <2>0 DEF PlanningPending
    <2>2. \A a \in Things : Planning!Replaced(c)[a] = IF a = c.activity /\ c.base[a] # Planning!Unlisted THEN c.result[a] ELSE c.base[a]
      BY DEF Planning!Replaced
    <2> QED
      BY <2>0, <2>1, <2>2 DEF PlanningAgrees
  <1> QED
    BY <1>1, <1>2, <1>3

LEMMA PlanningAnswerKeeps ==
    ASSUME PlanningInv, NEW c \in planCalls, Planning!Answer(c)
    PROVE  PlanningInv'
  <1>1. c \in Planning!Call /\ PlanningCallOK(c) /\ c.at = "answer"
    BY PlanningCallTyped DEF Planning!Answer
  <1>u. PICK u \in Planners : u = c.by
    BY PlanningCallTyped
  <1>r. PICK reload \in BOOLEAN : reload = (c.op = "CREATE" /\ c.ok /\ c.seen /\ plansSent < MaxCalls)
    OBVIOUS
  <1>l. PICK list \in Planning!List : list = PlanningAfter(c)
    BY PlanningAfterTyped
  <1>b. PICK b \in BOOLEAN : b = IF reload THEN Planning!Own(u) = {c} ELSE plans[u].alone /\ (c.ok \/ c.op # "LIST")
    <2>1. plans[u].alone \in BOOLEAN
      BY DEF PlanningInv, Planning!TypeOK, Planning!Screen
    <2> QED
      BY <2>1
  <1>2. /\ planCalls' = (planCalls \ {c}) \cup IF reload THEN {Planning!Request(u, "LIST", Planning!None, Planning!None)} ELSE {}
        /\ plansSent' = IF reload THEN plansSent + 1 ELSE plansSent
        /\ plans' = [plans EXCEPT ![u].list = list, ![u].alone = b]
        /\ UNCHANGED <<activities, answers, told, members>>
    BY <1>u, <1>r, <1>l, <1>b DEF Planning!Answer, PlanningAfter
  <1>3. PICK s : s = [plans[u] EXCEPT !.list = list, !.alone = b]
    OBVIOUS
  <1>4. s \in Planning!Screen /\ s.alone = b /\ s.list = list /\ plans' = [plans EXCEPT ![u] = s]
    <2>1. plans \in [Planners -> Planning!Screen] /\ plans[u] \in Planning!Screen
      BY DEF PlanningInv, Planning!TypeOK
    <2>2. s \in Planning!Screen /\ s.alone = b /\ s.list = list
      BY <1>3, <2>1 DEF Planning!Screen
    <2> QED
      BY <1>2, <1>3, <2>1, <2>2
  <1>5. PlanningKnows(s.list)
    BY <1>l, <1>4, PlanningAfterTyped
  <1>6. CASE reload
    <2>1. PICK r : r = Planning!Request(u, "LIST", Planning!None, Planning!None)
      OBVIOUS
    <2>2. /\ plansSent + 1 \in 0..MaxCalls /\ r \in Planning!Call /\ PlanningCallOK(r) /\ r.by = u
          /\ r.op = "LIST" /\ r.seen /\ ~r.ok
      <3>1. plansSent < MaxCalls
        BY <1>r, <1>6
      <3> QED
        BY <2>1, <3>1, PlanningRequestTyped
    <2>3. planCalls' = (planCalls \ {c}) \cup {r} /\ plansSent' = plansSent + 1
      BY <1>2, <1>6, <2>1
    <2>4. \A v \in Planners \ {u} : Planning!Own(v)' = Planning!Own(v)
      BY <1>u, <2>2, <2>3 DEF Planning!Own
    <2>5. b => Planning!Own(u)' = {r}
      BY <1>u, <1>b, <1>6, <2>2, <2>3 DEF Planning!Own
    <2>6. PlanningPending(r)'
      BY <2>2 DEF PlanningPending
    <2>7. planCalls' \subseteq Planning!Call
      BY <2>2, <2>3 DEF PlanningInv, Planning!TypeOK
    <2> QED
      BY <1>2, <1>4, <1>5, <2>2, <2>3, <2>4, <2>5, <2>6, <2>7, PlanningScreenKeeps
  <1>7. CASE ~reload
    <2>1. planCalls' = planCalls \ {c} /\ plansSent' = plansSent
      BY <1>2, <1>7
    <2>2. \A v \in Planners \ {u} : Planning!Own(v)' = Planning!Own(v)
      BY <1>u, <2>1 DEF Planning!Own
    <2>3. b => Planning!Own(u)' = {} /\ PlanningPending(c) /\ (c.ok \/ c.op # "LIST")
      BY <1>u, <1>b, <1>7, <2>1 DEF Planning!Own, PlanningInv, PlanningSettled
    <2>4. b => \A a \in Things : PlanningAgrees(s.list, a, u)
      BY <1>1, <1>u, <1>l, <1>4, <2>3, PlanningAfterAgrees
    <2>5. planCalls' \subseteq Planning!Call /\ plansSent' \in 0..MaxCalls
      BY <2>1 DEF PlanningInv, Planning!TypeOK
    <2> QED
      BY <1>2, <1>4, <1>5, <2>1, <2>2, <2>3, <2>4, <2>5, PlanningScreenKeeps
  <1> QED
    BY <1>6, <1>7

LEMMA PlanningMembersKeep ==
    ASSUME PlanningInv, NEW u \in Planners, Planning!JoinOrLeave(u)
    PROVE  PlanningInv'
  <1>1. /\ plansSent' \in 0..MaxCalls /\ members' \subseteq Planners
        /\ UNCHANGED <<activities, answers, told, plans, planCalls>>
    BY FilesAssumption DEF Planning!JoinOrLeave, PlanningInv, Planning!TypeOK
  <1>2. Planning!TypeOK'
    BY <1>1 DEF PlanningInv, Planning!TypeOK
  <1>3. (\A v \in Planners : PlanningKnows(plans[v].list)') /\ (\A c \in planCalls' : PlanningCallOK(c)')
    BY <1>1 DEF PlanningInv, PlanningKnows, PlanningCallOK, Planning!Exists
  <1>4. \A v \in Planners : PlanningSettled(v)'
    BY <1>1 DEF PlanningInv, PlanningSettled, Planning!Own, PlanningAgrees, PlanningPending
  <1> QED
    BY <1>2, <1>3, <1>4 DEF PlanningInv

LEMMA PlanningInitially == Planning!Init => PlanningInv
  <1> SUFFICES ASSUME Planning!Init PROVE PlanningInv
    OBVIOUS
  <1>1. PICK by \in Planners, a \in Things :
          /\ activities = [[b \in Things |-> Planning!Absent] EXCEPT ![a] = [by |-> by, status |-> "SCHEDULED"]]
          /\ answers = [b \in Things |-> [u \in Planners |-> IF b = a /\ u = by THEN "GOING" ELSE Planning!None]]
    BY DEF Planning!Init
  <1>2. activities \in [Things -> Planning!Activity \cup {Planning!Absent}] /\ answers \in [Things -> [Planners -> Planning!Answers \cup {Planning!None}]]
    BY <1>1 DEF Planning!Activity, Planning!Answers
  <1>3. plans \in [Planners -> Planning!Screen] /\ \A u \in Planners : plans[u].list = Planning!NotLoaded /\ ~plans[u].alone
    BY PlanningNotLoadedTyped DEF Planning!Init, Planning!Screen
  <1>4. Planning!TypeOK
    <2>1. /\ told \in [Things -> SUBSET Planners] /\ members \subseteq Planners
          /\ planCalls \subseteq Planning!Call /\ plansSent \in 0..MaxCalls
      BY FilesAssumption DEF Planning!Init
    <2> QED
      BY <1>2, <1>3, <2>1 DEF Planning!TypeOK
  <1>5. (\A u \in Planners : PlanningKnows(plans[u].list)) /\ planCalls = {}
    BY <1>3, PlanningNotLoadedTyped DEF Planning!Init
  <1> QED
    BY <1>3, <1>4, <1>5 DEF PlanningInv, PlanningSettled

LEMMA PlanningSteps == ASSUME PlanningInv, Planning!Next PROVE PlanningInv'
  BY PlanningLooksKeep, PlanningCreateKeeps, PlanningNotifyKeeps, PlanningWritesKeep,
     PlanningSeeKeeps, PlanningAnswerKeeps, PlanningLoseKeeps, PlanningLoadKeeps,
     PlanningButtonsKeep, PlanningMembersKeep DEF Planning!Next

LEMMA PlanningShows == ASSUME PlanningInv PROVE Planning!ShowsOwnAnswers
  BY DEF PlanningInv, PlanningSettled, PlanningAgrees, Planning!ShowsOwnAnswers

-----------------------------------------------------------------------------
(* The search of products and cities (Search): while nothing is due, what is under way was asked
   for what is on the screen. *)

\* While nothing is due: alone, the request under way is for what is on the screen, and so is
\* what came of the last one.
ChoosingCurrent ==
    /\ chooser.alone => \A f, g \in searches : f = g
    /\ ~timer /\ Choosing!Searches(chooser) /\ chooser.alone =>
         /\ \A f \in searches : f.query = Choosing!Query(chooser)
         /\ searches = {} /\ chooser.loaded => chooser.results = Choosing!Found(Choosing!Query(chooser))

ChoosingInv == Choosing!TypeOK /\ ChoosingCurrent

LEMMA ChoosingSameKey ==
    ASSUME NEW s \in Choosing!Chooser, NEW t \in Choosing!Chooser, ~Choosing!AsksAgain(s, t),
           t.kind = s.kind
    PROVE  Choosing!Searches(t) = Choosing!Searches(s) /\ Choosing!Query(t) = Choosing!Query(s)
  BY DEF Choosing!AsksAgain, Choosing!Searches, Choosing!ShowsBrands, Choosing!Query

\* What the person changes asks again, or is not asked for.
LEMMA ChoosingBecomesKeeps ==
    ASSUME ChoosingInv, NEW s \in Choosing!Chooser, Choosing!Becomes(s), s.kind = chooser.kind,
           s.alone = chooser.alone,
           \/ s.results = chooser.results /\ s.loaded = chooser.loaded
           \/ ~s.loaded
    PROVE  ChoosingInv'
  <1>0. chooser \in Choosing!Chooser /\ UNCHANGED <<catalog, searches, searched>> /\ chooser' = s
    BY DEF ChoosingInv, Choosing!TypeOK, Choosing!Becomes
  <1>1. Choosing!TypeOK'
    <2>1. timer' \in BOOLEAN
      BY <1>0 DEF Choosing!Becomes, Choosing!Searches, Choosing!ShowsBrands, ChoosingInv,
         Choosing!TypeOK, Choosing!Chooser
    <2>2. typed' \in 0..MaxTyped
      BY BoundsAssumption DEF Choosing!Becomes, ChoosingInv, Choosing!TypeOK
    <2> QED
      BY <1>0, <2>1, <2>2 DEF ChoosingInv, Choosing!TypeOK
  <1>2. ChoosingCurrent'
    <2>1. CASE Choosing!AsksAgain(chooser, s)
      <3>1. timer' = Choosing!Searches(chooser')
        BY <1>0, <2>1 DEF Choosing!Becomes
      <3> QED
        BY <1>0, <3>1 DEF ChoosingInv, ChoosingCurrent
    <2>2. CASE ~Choosing!AsksAgain(chooser, s)
      <3>1. timer' = timer
        BY <2>2 DEF Choosing!Becomes
      <3>2. /\ Choosing!Searches(s) = Choosing!Searches(chooser)
            /\ Choosing!Query(s) = Choosing!Query(chooser)
        BY <1>0, <2>2, ChoosingSameKey
      <3>3. Choosing!Found(Choosing!Query(s))' = Choosing!Found(Choosing!Query(s))
        BY <1>0 DEF Choosing!Found
      <3>4. /\ Choosing!Searches(chooser)' = Choosing!Searches(s)
            /\ Choosing!Query(chooser)' = Choosing!Query(s)
            /\ Choosing!Found(Choosing!Query(chooser))' = Choosing!Found(Choosing!Query(chooser))
        BY <1>0, <3>2, <3>3 DEF Choosing!Searches, Choosing!ShowsBrands, Choosing!Query,
           Choosing!Found
      <3> QED
        BY <1>0, <3>1, <3>2, <3>4 DEF ChoosingInv, ChoosingCurrent
    <2> QED
      BY <2>1, <2>2
  <1> QED
    BY <1>1, <1>2 DEF ChoosingInv

LEMMA ChoosingEmptiedTyped ==
    ASSUME NEW s \in Choosing!Chooser
    PROVE  /\ Choosing!Emptied(s) \in Choosing!Chooser /\ ~Choosing!Emptied(s).loaded
           /\ Choosing!Emptied(s).kind = s.kind
           /\ Choosing!Emptied(s).alone = s.alone
  BY DEF Choosing!Emptied, Choosing!Chooser

LEMMA ChoosingPersonKeeps ==
    ASSUME ChoosingInv,
           \/ \E text \in Things \cup {""} : Choosing!Type(text)
           \/ \E category \in Choosing!Categories : Choosing!SwitchCategory(category)
           \/ \E brand \in Brands \cup Choosing!TripTypes : Choosing!OpenBrand(brand)
           \/ Choosing!Back \/ Choosing!OpenOrClose
           \/ \E segment \in {"SUV", "Sedan", Choosing!None} : Choosing!PickSegment(segment)
           \/ \E item \in Things : Choosing!Pick(item)
           \/ \E country \in Countries : Choosing!ChooseCountry(country) \/ Choosing!GuessArrives(country)
    PROVE  ChoosingInv'
  <1>0. chooser \in Choosing!Chooser
    BY DEF ChoosingInv, Choosing!TypeOK
  <1>1. ASSUME NEW text \in Things \cup {""}, Choosing!Type(text) PROVE ChoosingInv'
    <2>1. PICK s : s = [chooser EXCEPT !.q = text]
      OBVIOUS
    <2>2. s \in Choosing!Chooser /\ s.kind = chooser.kind /\ s.alone = chooser.alone
          /\ s.results = chooser.results /\ s.loaded = chooser.loaded
      BY <1>0, <2>1 DEF Choosing!Chooser
    <2> QED
      BY <1>1, <2>1, <2>2, ChoosingBecomesKeeps DEF Choosing!Type
  <1>2. ASSUME NEW category \in Choosing!Categories, Choosing!SwitchCategory(category)
        PROVE  ChoosingInv'
    <2>1. PICK s : s = [chooser EXCEPT !.category = category, !.brand = Choosing!None, !.segment = Choosing!None,
                                       !.picked = Choosing!None]
      OBVIOUS
    <2>2. s \in Choosing!Chooser /\ s.kind = chooser.kind /\ s.alone = chooser.alone
      BY <1>0, <2>1 DEF Choosing!Chooser
    <2>3. Choosing!Becomes(Choosing!Emptied(s))
      BY <1>2, <2>1 DEF Choosing!SwitchCategory
    <2> QED
      BY <2>2, <2>3, ChoosingEmptiedTyped, ChoosingBecomesKeeps
  <1>3. ASSUME NEW brand \in Brands \cup Choosing!TripTypes, Choosing!OpenBrand(brand)
        PROVE  ChoosingInv'
    <2>1. PICK s : s = [chooser EXCEPT !.brand = brand, !.segment = Choosing!None, !.picked = Choosing!None]
      OBVIOUS
    <2>2. s \in Choosing!Chooser /\ s.kind = chooser.kind /\ s.alone = chooser.alone
      BY <1>0, <2>1 DEF Choosing!Chooser
    <2>3. Choosing!Becomes(Choosing!Emptied(s))
      BY <1>3, <2>1 DEF Choosing!OpenBrand
    <2> QED
      BY <2>2, <2>3, ChoosingEmptiedTyped, ChoosingBecomesKeeps
  <1>4. ASSUME Choosing!Back PROVE ChoosingInv'
    <2>1. PICK s : s = [chooser EXCEPT !.brand = Choosing!None, !.segment = Choosing!None, !.picked = Choosing!None, !.q = ""]
      OBVIOUS
    <2>2. s \in Choosing!Chooser /\ s.kind = chooser.kind /\ s.alone = chooser.alone
          /\ s.results = chooser.results /\ s.loaded = chooser.loaded
      BY <1>0, <2>1 DEF Choosing!Chooser
    <2> QED
      BY <1>4, <2>1, <2>2, ChoosingBecomesKeeps DEF Choosing!Back
  <1>5. ASSUME Choosing!OpenOrClose PROVE ChoosingInv'
    <2>1. PICK s : s = [chooser EXCEPT !.open = ~@]
      OBVIOUS
    <2>2. s \in Choosing!Chooser /\ s.kind = chooser.kind /\ s.alone = chooser.alone
          /\ s.results = chooser.results /\ s.loaded = chooser.loaded
      BY <1>0, <2>1 DEF Choosing!Chooser
    <2> QED
      BY <1>5, <2>1, <2>2, ChoosingBecomesKeeps DEF Choosing!OpenOrClose
  <1>6. ASSUME NEW segment \in {"SUV", "Sedan", Choosing!None}, Choosing!PickSegment(segment)
        PROVE  ChoosingInv'
    <2>1. PICK s : s = [chooser EXCEPT !.segment = IF @ = segment THEN Choosing!None ELSE segment]
      OBVIOUS
    <2>2. s \in Choosing!Chooser /\ s.kind = chooser.kind /\ s.alone = chooser.alone
          /\ s.results = chooser.results /\ s.loaded = chooser.loaded
      BY <1>0, <2>1 DEF Choosing!Chooser
    <2> QED
      BY <1>6, <2>1, <2>2, ChoosingBecomesKeeps DEF Choosing!PickSegment
  <1>7. ASSUME NEW item \in Things, Choosing!Pick(item) PROVE ChoosingInv'
    <2>1. PICK s : s = [chooser EXCEPT !.picked = item, !.open = chooser.kind = "product"]
      OBVIOUS
    <2>2. s \in Choosing!Chooser /\ s.kind = chooser.kind /\ s.alone = chooser.alone
          /\ s.results = chooser.results /\ s.loaded = chooser.loaded
      BY <1>0, <2>1 DEF Choosing!Chooser
    <2> QED
      BY <1>7, <2>1, <2>2, ChoosingBecomesKeeps DEF Choosing!Pick
  <1>8. ASSUME NEW country \in Countries, Choosing!ChooseCountry(country) PROVE ChoosingInv'
    <2>1. PICK s : s = [chooser EXCEPT !.category = country, !.q = ""]
      OBVIOUS
    <2>2. s \in Choosing!Chooser /\ s.kind = chooser.kind /\ s.alone = chooser.alone
      BY <1>0, <2>1 DEF Choosing!Chooser
    <2>3. Choosing!Becomes(Choosing!Emptied(s))
      BY <1>8, <2>1 DEF Choosing!ChooseCountry
    <2> QED
      BY <2>2, <2>3, ChoosingEmptiedTyped, ChoosingBecomesKeeps
  <1>9. ASSUME NEW country \in Countries, Choosing!GuessArrives(country) PROVE ChoosingInv'
    <2>1. PICK s : s = [chooser EXCEPT !.category = country]
      OBVIOUS
    <2>2. s \in Choosing!Chooser /\ s.kind = chooser.kind /\ s.alone = chooser.alone
          /\ s.results = chooser.results /\ s.loaded = chooser.loaded
      BY <1>0, <2>1 DEF Choosing!Chooser
    <2> QED
      BY <1>9, <2>1, <2>2, ChoosingBecomesKeeps DEF Choosing!GuessArrives
  <1> QED
    BY <1>1, <1>2, <1>3, <1>4, <1>5, <1>6, <1>7, <1>8, <1>9

LEMMA ChoosingQueryTyped ==
    ASSUME NEW s \in Choosing!Chooser
    PROVE  Choosing!Query(s) \in Choosing!Asked
  BY DEF Choosing!Query, Choosing!Chooser, Choosing!Asked, Choosing!None

\* A change of what only answers set leaves the question as it is.
LEMMA ChoosingAnsweredKeepsKey ==
    ASSUME chooser \in Choosing!Chooser, UNCHANGED catalog, NEW s \in Choosing!Chooser,
           chooser' = s,
           s.kind = chooser.kind, s.open = chooser.open, s.category = chooser.category,
           s.brand = chooser.brand, s.q = chooser.q
    PROVE  /\ Choosing!Searches(chooser)' = Choosing!Searches(chooser)
           /\ Choosing!Query(chooser)' = Choosing!Query(chooser)
           /\ Choosing!Found(Choosing!Query(chooser))' = Choosing!Found(Choosing!Query(chooser))
  BY DEF Choosing!Searches, Choosing!ShowsBrands, Choosing!Query, Choosing!Found

LEMMA ChoosingFireKeeps == ASSUME ChoosingInv, Choosing!Fire PROVE ChoosingInv'
  <1>0. /\ chooser \in Choosing!Chooser /\ searches \subseteq Choosing!Flight
        /\ searched \in 0..MaxLoads
    BY DEF ChoosingInv, Choosing!TypeOK
  <1>1. PICK s : s = [chooser EXCEPT !.alone = searches = {}]
    OBVIOUS
  <1>2. /\ s \in Choosing!Chooser /\ chooser' = s /\ s.kind = chooser.kind /\ s.open = chooser.open
        /\ s.category = chooser.category /\ s.brand = chooser.brand /\ s.q = chooser.q
        /\ s.alone = (searches = {})
    BY <1>0, <1>1 DEF Choosing!Chooser, Choosing!Fire
  <1>3. UNCHANGED <<catalog, typed>> /\ timer' = FALSE /\ searched' = searched + 1
        /\ searched < MaxLoads
        /\ searches' = searches \cup {[n |-> searched + 1, query |-> Choosing!Query(chooser)]}
    BY DEF Choosing!Fire
  <1>4. /\ Choosing!Searches(chooser)' = Choosing!Searches(chooser)
        /\ Choosing!Query(chooser)' = Choosing!Query(chooser)
    BY <1>0, <1>2, <1>3, ChoosingAnsweredKeepsKey
  <1>5. Choosing!TypeOK'
    <2>1. Choosing!Query(chooser) \in Choosing!Asked
      BY <1>0, ChoosingQueryTyped
    <2>2. /\ [n |-> searched + 1, query |-> Choosing!Query(chooser)] \in Choosing!Flight
          /\ searched + 1 \in 0..MaxLoads
      BY <1>0, <1>3, <2>1, BoundsAssumption DEF Choosing!Flight
    <2> QED
      BY <1>2, <1>3, <2>2 DEF ChoosingInv, Choosing!TypeOK
  <1>6. ChoosingCurrent'
    <2>1. PICK r : r = [n |-> searched + 1, query |-> Choosing!Query(chooser)]
      OBVIOUS
    <2>2. searches' = searches \cup {r} /\ r.query = Choosing!Query(chooser)
      BY <1>3, <2>1
    <2>3. chooser'.alone => searches' = {r}
      BY <1>2, <2>2
    <2>4. searches' # {}
      BY <2>2
    <2> QED
      BY <1>2, <1>4, <2>2, <2>3, <2>4 DEF ChoosingCurrent
  <1> QED
    BY <1>5, <1>6 DEF ChoosingInv

LEMMA ChoosingAnswerKeeps ==
    ASSUME ChoosingInv, NEW f \in searches, Choosing!Answer(f) \/ Choosing!Fail(f)
    PROVE  ChoosingInv'
  <1>0. chooser \in Choosing!Chooser /\ searches \subseteq Choosing!Flight
    BY DEF ChoosingInv, Choosing!TypeOK
  <1>1. Choosing!Found(f.query) \subseteq Things
    BY DEF Choosing!Found
  <1>2. PICK s : chooser' = s
    OBVIOUS
  <1>3. /\ s \in Choosing!Chooser /\ s.kind = chooser.kind /\ s.open = chooser.open
        /\ s.category = chooser.category /\ s.brand = chooser.brand /\ s.q = chooser.q
        /\ s.alone => chooser.alone /\ s.results = Choosing!Found(f.query)
    BY <1>0, <1>1, <1>2 DEF Choosing!Chooser, Choosing!Answer, Choosing!Fail
  <1>4. UNCHANGED <<catalog, timer, typed, searched>> /\ searches' = searches \ {f}
    BY DEF Choosing!Answer, Choosing!Fail
  <1>5. /\ Choosing!Searches(chooser)' = Choosing!Searches(chooser)
        /\ Choosing!Query(chooser)' = Choosing!Query(chooser)
        /\ Choosing!Found(Choosing!Query(chooser))' = Choosing!Found(Choosing!Query(chooser))
    BY <1>0, <1>2, <1>3, <1>4, ChoosingAnsweredKeepsKey
  <1>6. Choosing!TypeOK'
    BY <1>2, <1>3, <1>4 DEF ChoosingInv, Choosing!TypeOK
  <1>7. ChoosingCurrent'
    BY <1>2, <1>3, <1>4, <1>5 DEF ChoosingInv, ChoosingCurrent
  <1> QED
    BY <1>6, <1>7 DEF ChoosingInv

LEMMA ChoosingInitially == Choosing!Init => ChoosingInv
  <1> SUFFICES ASSUME Choosing!Init PROVE ChoosingInv
    OBVIOUS
  <1>1. catalog \in [Things -> Choosing!Row]
    BY DEF Choosing!Init, Choosing!Rows
  <1>2. PICK kind \in {"product", "city"}, category \in Choosing!Categories \cup Countries :
          chooser = [kind |-> kind, open |-> kind = "product", category |-> category, brand |-> Choosing!None,
                     q |-> "", segment |-> Choosing!None, loaded |-> FALSE, results |-> {}, picked |-> Choosing!None,
                     alone |-> TRUE]
    BY DEF Choosing!Init
  <1>3. chooser \in Choosing!Chooser
    BY <1>2 DEF Choosing!Chooser
  <1>4. timer \in BOOLEAN
    <2>1. Choosing!Searches(chooser) \in BOOLEAN
      BY <1>3 DEF Choosing!Searches, Choosing!ShowsBrands, Choosing!Chooser
    <2> QED
      BY <2>1 DEF Choosing!Init
  <1>5. ~chooser.loaded /\ searches = {}
    BY <1>2 DEF Choosing!Init
  <1>6. Choosing!TypeOK
    <2>1. searches = {} /\ typed = 0 /\ searched = 0
      BY DEF Choosing!Init
    <2> QED
      BY <1>1, <1>3, <1>4, <2>1, BoundsAssumption DEF Choosing!TypeOK
  <1>7. ChoosingCurrent
    BY <1>5 DEF ChoosingCurrent
  <1> QED
    BY <1>6, <1>7 DEF ChoosingInv

LEMMA ChoosingSteps == ASSUME ChoosingInv, Choosing!Next PROVE ChoosingInv'
  BY ChoosingPersonKeeps, ChoosingFireKeeps, ChoosingAnswerKeeps DEF Choosing!Next

LEMMA ChoosingShows == ASSUME ChoosingInv PROVE Choosing!ShowsFound
  BY DEF ChoosingInv, ChoosingCurrent, Choosing!ShowsFound, Choosing!Quiet

-----------------------------------------------------------------------------
(* Direct conversations (Directs): a request about to pay for one has a pass, and those that have
   paid, or are about to, are within the limit. *)

\* What Directs counts with is what the library's theorems are about.
LEMMA MeetingCardinality == \A S : Meeting!Cardinality(S) = Cardinality(S)
  BY Zenon DEF Meeting!Cardinality, Cardinality

MeetingCredited == {r.to : r \in credits}

\* What a request relies on at its next step.
MeetingCallOK(c) ==
    /\ \/ c.by = Buyer /\ c.to \in Meeting!Others
       \/ c.by \in Meeting!Others /\ c.to = Buyer
    /\ c.op = "OPEN" => c.at # "write"
    /\ c.at \notin {"write", "answer"} => c.op = "OPEN"
    /\ Meeting!Paying(c) => c.by = Buyer /\ c.pass # 0
    /\ c.at = "upsert" => Meeting!Other(c) \in met \cup conversations \cup MeetingCredited

MeetingCharges(n) == {c \in directCalls : c.pass = n /\ Meeting!Paying(c)}
MeetingSpends(n) == {c \in directCalls : c.pass = n /\ c.at = "spend"}
MeetingBusy(u) == {c \in directCalls : c.by = u /\ c.at # "answer"}

\* Who has paid or is about to is within the limit, and so are the requests.
MeetingCounted ==
    /\ IsFiniteSet(directCalls) /\ IsFiniteSet(credits)
    /\ Meeting!UnderWay(Buyer) <= AtOnce
    /\ \A n \in 1..MaxPasses :
         /\ n \notin overlapped => Cardinality(MeetingCharges(n)) <= 1
         /\ Cardinality(Meeting!OfPass(n)) + Cardinality(MeetingSpends(n))
              <= CreditLimit + (IF n \in overlapped THEN AtOnce - 1 ELSE 0)

MeetingFounded ==
    /\ \A c \in directCalls : MeetingCallOK(c)
    /\ \A v \in Meeting!Others : relation[v].status = "ACCEPTED" => v \in met
    /\ conversations \subseteq met \cup MeetingCredited

MeetingInv == Meeting!TypeOK /\ MeetingFounded /\ MeetingCounted

-----------------------------------------------------------------------------
LEMMA MeetingOneReplaced ==
    ASSUME NEW S, IsFiniteSet(S), NEW T, NEW c \in S, NEW d, T \subseteq (S \ {c}) \cup {d}
    PROVE  /\ IsFiniteSet(T) /\ Cardinality(T) <= Cardinality(S)
           /\ Cardinality(T) \in Nat /\ Cardinality(S) \in Nat
  <1>1. /\ IsFiniteSet(S \ {c})
        /\ Cardinality(S \ {c}) = Cardinality(S) - 1
    BY FS_RemoveElement
  <1>2. /\ IsFiniteSet((S \ {c}) \cup {d})
        /\ Cardinality((S \ {c}) \cup {d}) <= Cardinality(S \ {c}) + 1
    BY <1>1, FS_AddElement, FS_CardinalityType
  <1>3. /\ Cardinality(S) \in Nat /\ Cardinality((S \ {c}) \cup {d}) \in Nat
    BY <1>2, FS_CardinalityType
  <1>4. /\ IsFiniteSet(T) /\ Cardinality(T) <= Cardinality((S \ {c}) \cup {d})
        /\ Cardinality(T) \in Nat
    BY <1>2, FS_Subset, FS_CardinalityType
  <1> QED
    BY <1>1, <1>2, <1>3, <1>4

LEMMA MeetingOneAdded ==
    ASSUME NEW S, IsFiniteSet(S), NEW e
    PROVE  /\ IsFiniteSet(S \cup {e}) /\ Cardinality(S \cup {e}) <= Cardinality(S) + 1
           /\ Cardinality(S \cup {e}) \in Nat /\ Cardinality(S) \in Nat
  <1>1. IsFiniteSet(S \cup {e}) /\ Cardinality(S) \in Nat
    BY FS_AddElement, FS_CardinalityType
  <1>2. Cardinality(S \cup {e}) = IF e \in S THEN Cardinality(S) ELSE Cardinality(S) + 1
    BY FS_AddElement
  <1> QED
    BY <1>1, <1>2

LEMMA MeetingNoMore ==
    ASSUME NEW S, IsFiniteSet(S), NEW T \in SUBSET S
    PROVE  /\ IsFiniteSet(T) /\ Cardinality(T) <= Cardinality(S)
           /\ Cardinality(T) \in Nat /\ Cardinality(S) \in Nat
  BY FS_Subset, FS_CardinalityType

\* One request is replaced by itself at its next step.
MeetingBecomes(c, d) ==
    /\ directCalls' = (directCalls \ {c}) \cup {d}
    /\ d.by = c.by
    /\ d.at # "answer" => c.at # "answer"

LEMMA MeetingBusyBounded ==
    ASSUME MeetingInv, NEW c \in directCalls, NEW d, MeetingBecomes(c, d)
    PROVE  IsFiniteSet(directCalls') /\ Meeting!UnderWay(Buyer)' <= AtOnce
  <1> USE MeetingAssumption, FilesAssumption
  <1>1. IsFiniteSet(directCalls)
    BY DEF MeetingInv, MeetingCounted
  <1>2. IsFiniteSet(directCalls')
    BY <1>1, MeetingOneReplaced DEF MeetingBecomes
  <1>3. IsFiniteSet(MeetingBusy(Buyer)) /\ Cardinality(MeetingBusy(Buyer)) <= AtOnce
    BY <1>1, FS_Subset, MeetingCardinality DEF MeetingInv, MeetingCounted, Meeting!UnderWay,
       MeetingBusy
  <1>4. CASE c \in MeetingBusy(Buyer)
    <2>1. MeetingBusy(Buyer)' \subseteq (MeetingBusy(Buyer) \ {c}) \cup {d}
      BY DEF MeetingBecomes, MeetingBusy
    <2>2. /\ Cardinality(MeetingBusy(Buyer)') <= Cardinality(MeetingBusy(Buyer))
          /\ Cardinality(MeetingBusy(Buyer)') \in Nat
          /\ Cardinality(MeetingBusy(Buyer)) \in Nat
      BY <1>3, <1>4, <2>1, MeetingOneReplaced
    <2> QED
      BY <1>2, <1>3, <2>2, MeetingCardinality DEF Meeting!UnderWay, MeetingBusy
  <1>5. CASE c \notin MeetingBusy(Buyer)
    <2>1. MeetingBusy(Buyer)' \subseteq MeetingBusy(Buyer)
      BY <1>5 DEF MeetingBecomes, MeetingBusy
    <2>2. /\ Cardinality(MeetingBusy(Buyer)') <= Cardinality(MeetingBusy(Buyer))
          /\ Cardinality(MeetingBusy(Buyer)') \in Nat
          /\ Cardinality(MeetingBusy(Buyer)) \in Nat
      BY <1>3, <2>1, MeetingNoMore
    <2> QED
      BY <1>2, <1>3, <2>2, MeetingCardinality DEF Meeting!UnderWay, MeetingBusy
  <1> QED
    BY <1>4, <1>5

LEMMA MeetingChargesBounded ==
    ASSUME MeetingInv, NEW c \in directCalls, NEW d, MeetingBecomes(c, d),
           Meeting!Paying(d) => Meeting!Paying(c) /\ d.pass = c.pass,
           overlapped \subseteq overlapped', NEW n \in 1..MaxPasses, n \notin overlapped'
    PROVE  Cardinality(MeetingCharges(n)') <= 1
  <1>1. IsFiniteSet(MeetingCharges(n)) /\ Cardinality(MeetingCharges(n)) <= 1
    BY FS_Subset DEF MeetingInv, MeetingCounted, MeetingCharges
  <1>2. CASE c \in MeetingCharges(n)
    <2>1. MeetingCharges(n)' \subseteq (MeetingCharges(n) \ {c}) \cup {d}
      BY DEF MeetingBecomes, MeetingCharges, Meeting!Paying
    <2>2. /\ Cardinality(MeetingCharges(n)') <= Cardinality(MeetingCharges(n))
          /\ Cardinality(MeetingCharges(n)') \in Nat
          /\ Cardinality(MeetingCharges(n)) \in Nat
      BY <1>1, <1>2, <2>1, MeetingOneReplaced
    <2> QED
      BY <1>1, <2>2
  <1>3. CASE c \notin MeetingCharges(n)
    <2>1. MeetingCharges(n)' \subseteq MeetingCharges(n)
      BY <1>3 DEF MeetingBecomes, MeetingCharges, Meeting!Paying
    <2> QED
      BY <1>1, <2>1, MeetingNoMore
  <1> QED
    BY <1>2, <1>3

\* A request moves on, and no credit is spent by it.
MeetingMoved(c, d) ==
    /\ MeetingBecomes(c, d)
    /\ d \in Meeting!Call /\ MeetingCallOK(d)'
    /\ Meeting!Paying(d) => Meeting!Paying(c) /\ d.pass = c.pass
    /\ d.at # "spend"

LEMMA MeetingMovesCounted ==
    ASSUME MeetingInv, NEW c \in directCalls, NEW d, MeetingMoved(c, d), credits' = credits,
           overlapped \subseteq overlapped'
    PROVE  MeetingCounted'
  <1> USE MeetingAssumption, FilesAssumption
  <1>1. IsFiniteSet(directCalls') /\ Meeting!UnderWay(Buyer)' <= AtOnce
    BY MeetingBusyBounded DEF MeetingMoved
  <1>4. ASSUME NEW n \in 1..MaxPasses, n \notin overlapped'
        PROVE  Cardinality(MeetingCharges(n)') <= 1
    BY <1>4, MeetingChargesBounded DEF MeetingMoved
  <1>5. ASSUME NEW n \in 1..MaxPasses
        PROVE  Cardinality(Meeting!OfPass(n)') + Cardinality(MeetingSpends(n)')
                 <= CreditLimit + (IF n \in overlapped' THEN AtOnce - 1 ELSE 0)
    <2>1. IsFiniteSet(MeetingSpends(n)) /\ IsFiniteSet(Meeting!OfPass(n))
      BY FS_Subset DEF MeetingInv, MeetingCounted, MeetingSpends, Meeting!OfPass
    <2>2. MeetingSpends(n)' \subseteq MeetingSpends(n)
      BY DEF MeetingMoved, MeetingBecomes, MeetingSpends
    <2>3. /\ Cardinality(MeetingSpends(n)') <= Cardinality(MeetingSpends(n))
          /\ Cardinality(Meeting!OfPass(n)) \in Nat
          /\ Cardinality(MeetingSpends(n)') \in Nat /\ Cardinality(MeetingSpends(n)) \in Nat
      BY <2>1, <2>2, MeetingNoMore, FS_CardinalityType
    <2>4. Meeting!OfPass(n)' = Meeting!OfPass(n)
      BY DEF Meeting!OfPass
    <2>5. Cardinality(Meeting!OfPass(n)) + Cardinality(MeetingSpends(n))
            <= CreditLimit + (IF n \in overlapped THEN AtOnce - 1 ELSE 0)
      BY DEF MeetingInv, MeetingCounted
    <2> QED
      BY <2>3, <2>4, <2>5
  <1> QED
    BY <1>1, <1>4, <1>5 DEF MeetingCounted, MeetingInv

LEMMA MeetingStepTyped ==
    ASSUME MeetingInv, NEW c \in directCalls, NEW d \in Meeting!Call, MeetingBecomes(c, d),
           UNCHANGED <<pass, page, directsSent>>,
           credits' \subseteq [pass : 1..MaxPasses, to : Meeting!Others], overlapped' \subseteq 1..MaxPasses,
           conversations' \subseteq Meeting!Others, met' \subseteq Meeting!Others, relation' \in [Meeting!Others -> Meeting!Relation]
    PROVE  Meeting!TypeOK'
  BY DEF MeetingInv, Meeting!TypeOK, MeetingBecomes

LEMMA MeetingStepFounded ==
    ASSUME MeetingInv, NEW c \in directCalls, NEW d, MeetingBecomes(c, d), MeetingCallOK(d)',
           credits \subseteq credits', met \subseteq met', conversations \subseteq conversations',
           conversations' \subseteq met' \cup MeetingCredited',
           \A v \in Meeting!Others : relation'[v].status = "ACCEPTED" => v \in met'
    PROVE  MeetingFounded'
  <1>1. MeetingCredited \subseteq MeetingCredited'
    BY DEF MeetingCredited
  <1>2. \A e \in directCalls : MeetingCallOK(e)'
    BY <1>1 DEF MeetingInv, MeetingFounded, MeetingCallOK, Meeting!Paying, Meeting!Other
  <1> QED
    BY <1>2 DEF MeetingBecomes, MeetingFounded

LEMMA MeetingMovesTyped ==
    ASSUME MeetingInv, NEW c \in directCalls, NEW d, MeetingMoved(c, d),
           UNCHANGED <<pass, credits, page, directsSent>>, overlapped' \subseteq 1..MaxPasses,
           conversations' \subseteq Meeting!Others, met' \subseteq Meeting!Others, relation' \in [Meeting!Others -> Meeting!Relation]
    PROVE  Meeting!TypeOK'
  <1>1. credits \subseteq [pass : 1..MaxPasses, to : Meeting!Others]
    BY DEF MeetingInv, Meeting!TypeOK
  <1> QED
    BY <1>1, MeetingStepTyped DEF MeetingMoved

LEMMA MeetingMovesFounded ==
    ASSUME MeetingInv, NEW c \in directCalls, NEW d, MeetingMoved(c, d), credits' = credits,
           met \subseteq met', conversations \subseteq conversations',
           conversations' \subseteq met' \cup MeetingCredited,
           \A v \in Meeting!Others : relation'[v].status = "ACCEPTED" => v \in met'
    PROVE  MeetingFounded'
  <1>1. MeetingCredited' = MeetingCredited
    BY DEF MeetingCredited
  <1> QED
    BY <1>1, MeetingStepFounded DEF MeetingMoved

LEMMA MeetingMoveTyped ==
    ASSUME MeetingInv, NEW c \in directCalls,
           NEW at \in {"joined", "connected", "blocked", "existing", "elite",
             "already", "count", "spend", "upsert", "write", "answer"}
    PROVE  /\ Meeting!To(c, at) \in Meeting!Call /\ Meeting!To(c, at).at = at
           /\ Meeting!To(c, at).by = c.by
           /\ Meeting!To(c, at).to = c.to /\ Meeting!To(c, at).op = c.op
           /\ Meeting!To(c, at).pass = c.pass
  <1>1. c \in Meeting!Call
    BY DEF MeetingInv, Meeting!TypeOK
  <1> QED
    BY <1>1 DEF Meeting!To, Meeting!Call

LEMMA MeetingWorksTyped ==
    ASSUME MeetingInv, NEW c \in directCalls
    PROVE  /\ Meeting!Works(c) \in Meeting!Call /\ Meeting!Works(c).at = "answer"
           /\ Meeting!Works(c).by = c.by
           /\ Meeting!Works(c).to = c.to /\ Meeting!Works(c).op = c.op
           /\ Meeting!Works(c).pass = c.pass
           /\ \A row \in Meeting!Relation : [Meeting!Works(c) EXCEPT !.row = row] \in Meeting!Call
  <1>1. Meeting!To(c, "answer") \in Meeting!Call
    BY MeetingMoveTyped
  <1>2. Meeting!Works(c) \in Meeting!Call
    BY <1>1 DEF Meeting!Works, Meeting!Call
  <1>3. \A row \in Meeting!Relation : [Meeting!Works(c) EXCEPT !.row = row] \in Meeting!Call
    BY <1>2 DEF Meeting!Call
  <1>4. /\ Meeting!To(c, "answer").at = "answer" /\ Meeting!To(c, "answer").by = c.by
        /\ Meeting!To(c, "answer").to = c.to
        /\ Meeting!To(c, "answer").op = c.op /\ Meeting!To(c, "answer").pass = c.pass
    BY MeetingMoveTyped
  <1>5. Meeting!Works(c).at = "answer" /\ Meeting!Works(c).by = c.by
        /\ Meeting!Works(c).to = c.to /\ Meeting!Works(c).op = c.op
        /\ Meeting!Works(c).pass = c.pass
    BY <1>1, <1>4 DEF Meeting!Works, Meeting!Call
  <1> QED
    BY <1>2, <1>3, <1>5

LEMMA MeetingCheckKeeps ==
    ASSUME MeetingInv, NEW c \in directCalls, Meeting!Check(c)
    PROVE  MeetingInv'
  <1> USE MeetingAssumption, FilesAssumption
  <1>0. c \in Meeting!Call /\ MeetingCallOK(c) /\ Meeting!Other(c) \in Meeting!Others
    BY DEF MeetingInv, Meeting!TypeOK, MeetingFounded, MeetingCallOK, Meeting!Other, Meeting!Others
  <1>1. ASSUME NEW at \in {"connected", "blocked", "existing", "elite", "upsert", "answer"},
               Meeting!On(c, Meeting!To(c, at)), c.at \notin {"answer", "write"},
               at = "upsert" => Meeting!Other(c) \in met \cup conversations
        PROVE  MeetingMoved(c, Meeting!To(c, at))
    <2>1. /\ Meeting!To(c, at) \in Meeting!Call /\ Meeting!To(c, at).at = at
          /\ Meeting!To(c, at).by = c.by
          /\ Meeting!To(c, at).to = c.to /\ Meeting!To(c, at).op = c.op
          /\ Meeting!To(c, at).pass = c.pass
      BY MeetingMoveTyped
    <2>2. MeetingCallOK(Meeting!To(c, at))'
      BY <1>0, <1>1, <2>1 DEF Meeting!Check, MeetingCallOK, Meeting!Paying, Meeting!Other
    <2> QED
      BY <1>1, <2>1, <2>2 DEF MeetingMoved, MeetingBecomes, Meeting!On, Meeting!Paying
  <1>2. \E at \in {"connected", "blocked", "existing", "elite", "upsert", "answer"} :
          /\ Meeting!On(c, Meeting!To(c, at)) /\ c.at \notin {"answer", "write"}
          /\ at = "upsert" => Meeting!Other(c) \in met \cup conversations
    <2>1. CASE c.at = "joined"
      BY <2>1 DEF Meeting!Check, Meeting!Fails
    <2>2. CASE c.at = "connected"
      <3>1. Meeting!AreConnected(relation[Meeting!Other(c)]) => Meeting!Other(c) \in met
        BY <1>0 DEF MeetingInv, MeetingFounded, Meeting!AreConnected
      <3> QED
        BY <2>2, <3>1 DEF Meeting!Check
    <2>3. CASE c.at = "blocked"
      BY <2>3 DEF Meeting!Check, Meeting!Fails
    <2>4. CASE c.at = "existing"
      BY <2>4 DEF Meeting!Check
    <2> QED
      BY <2>1, <2>2, <2>3, <2>4 DEF Meeting!Check
  <1>3. PICK at \in {"connected", "blocked", "existing", "elite", "upsert", "answer"} :
          MeetingMoved(c, Meeting!To(c, at)) /\ Meeting!On(c, Meeting!To(c, at))
    BY <1>1, <1>2
  <1>4. UNCHANGED <<relation, pass, credits, conversations, met, overlapped, page, directsSent>>
    BY <1>3 DEF Meeting!Check, Meeting!On
  <1>5. Meeting!TypeOK'
    <2>1. /\ relation \in [Meeting!Others -> Meeting!Relation] /\ met \subseteq Meeting!Others
          /\ conversations \subseteq Meeting!Others /\ overlapped \subseteq 1..MaxPasses
      BY DEF MeetingInv, Meeting!TypeOK
    <2> QED
      BY <1>3, <1>4, <2>1, MeetingMovesTyped
  <1>6. MeetingFounded'
    BY <1>3, <1>4, MeetingMovesFounded DEF MeetingInv, MeetingFounded
  <1> QED
    BY <1>3, <1>4, <1>5, <1>6, MeetingMovesCounted DEF MeetingInv

LEMMA MeetingUpsertKeeps ==
    ASSUME MeetingInv, NEW c \in directCalls, Meeting!Upsert(c)
    PROVE  MeetingInv'
  <1> USE MeetingAssumption, FilesAssumption
  <1> DEFINE d == Meeting!Works(c)
  <1>0. c \in Meeting!Call /\ MeetingCallOK(c) /\ Meeting!Other(c) \in Meeting!Others
    BY DEF MeetingInv, Meeting!TypeOK, MeetingFounded, MeetingCallOK, Meeting!Other, Meeting!Others
  <1>1. /\ d \in Meeting!Call /\ d.at = "answer" /\ d.by = c.by /\ d.to = c.to /\ d.op = c.op
        /\ d.pass = c.pass
    BY MeetingWorksTyped
  <1>2. MeetingCallOK(d)'
    BY <1>0, <1>1 DEF MeetingCallOK, Meeting!Paying, Meeting!Other, Meeting!Upsert
  <1>3. MeetingMoved(c, d)
    BY <1>1, <1>2 DEF MeetingMoved, MeetingBecomes, Meeting!Upsert, Meeting!On, Meeting!Paying
  <1>4. UNCHANGED <<relation, pass, credits, met, overlapped, page, directsSent>>
    BY DEF Meeting!Upsert, Meeting!On
  <1>5. conversations' \subseteq met \cup MeetingCredited /\ conversations \subseteq conversations'
        /\ conversations' \subseteq Meeting!Others
    BY <1>0 DEF MeetingInv, MeetingFounded, MeetingCallOK, Meeting!Upsert, Meeting!TypeOK
  <1>6. Meeting!TypeOK'
    <2>1. /\ relation \in [Meeting!Others -> Meeting!Relation] /\ met \subseteq Meeting!Others
          /\ overlapped \subseteq 1..MaxPasses
      BY DEF MeetingInv, Meeting!TypeOK
    <2> QED
      BY <1>3, <1>4, <1>5, <2>1, MeetingMovesTyped
  <1>7. MeetingFounded'
    <2>1. \A v \in Meeting!Others : relation[v].status = "ACCEPTED" => v \in met
      BY DEF MeetingInv, MeetingFounded
    <2> QED
      BY <1>3, <1>4, <1>5, <2>1, MeetingMovesFounded
  <1> QED
    BY <1>3, <1>4, <1>6, <1>7, MeetingMovesCounted DEF MeetingInv

LEMMA MeetingRelatesTyped ==
    ASSUME NEW c \in Meeting!Call, NEW row \in Meeting!Relation
    PROVE  Meeting!Relates(c, row) \in Meeting!Relation
  BY DEF Meeting!Relates, Meeting!Relation, Meeting!Call

LEMMA MeetingRelateKeeps ==
    ASSUME MeetingInv, NEW c \in directCalls, Meeting!Relate(c)
    PROVE  MeetingInv'
  <1> USE MeetingAssumption, FilesAssumption
  <1> DEFINE old == relation[Meeting!Other(c)]
             row == IF Meeting!NeedsPass(c.op) /\ Meeting!PlanOf(c.by) = Meeting!None THEN old ELSE Meeting!Relates(c, old)
             good == c.op = "BLOCK" \/ row # old \/ (c.op = "LOAD" /\ Meeting!PlanOf(c.by) # Meeting!None)
             d == IF good THEN [Meeting!Works(c) EXCEPT !.row = row] ELSE Meeting!Fails(c)
  <1>0. c \in Meeting!Call /\ MeetingCallOK(c) /\ Meeting!Other(c) \in Meeting!Others
    BY DEF MeetingInv, Meeting!TypeOK, MeetingFounded, MeetingCallOK, Meeting!Other, Meeting!Others
  <1>1. row \in Meeting!Relation
    BY <1>0, MeetingRelatesTyped DEF MeetingInv, Meeting!TypeOK
  <1>2. /\ relation' = [relation EXCEPT ![Meeting!Other(c)] = row]
        /\ met' = IF row.status = "ACCEPTED" THEN met \cup {Meeting!Other(c)} ELSE met
        /\ Meeting!On(c, d)
    BY DEF Meeting!Relate
  <1>3. /\ d \in Meeting!Call /\ d.at = "answer" /\ d.by = c.by /\ d.to = c.to /\ d.op = c.op
        /\ d.pass = c.pass
    <2>1. /\ Meeting!Works(c) \in Meeting!Call /\ Meeting!Works(c).at = "answer"
          /\ Meeting!Works(c).by = c.by /\ Meeting!Works(c).to = c.to
          /\ Meeting!Works(c).op = c.op /\ Meeting!Works(c).pass = c.pass
      BY MeetingWorksTyped
    <2>2. CASE good
      BY <1>1, <2>1, <2>2, MeetingWorksTyped DEF Meeting!Call
    <2>3. CASE ~good
      BY <2>3, MeetingMoveTyped DEF Meeting!Fails
    <2> QED
      BY <2>2, <2>3
  <1> HIDE DEF d, row
  <1>a. PICK e : e = d
    OBVIOUS
  <1>b. /\ e \in Meeting!Call /\ e.at = "answer" /\ e.by = c.by /\ e.to = c.to /\ e.op = c.op
        /\ e.pass = c.pass
        /\ Meeting!On(c, e)
    BY <1>a, <1>2, <1>3
  <1>4. MeetingCallOK(e)'
    BY <1>0, <1>b DEF MeetingCallOK, Meeting!Paying, Meeting!Other, Meeting!Relate
  <1>5. MeetingMoved(c, e)
    BY <1>b, <1>4 DEF MeetingMoved, MeetingBecomes, Meeting!Relate, Meeting!On, Meeting!Paying
  <1>6. UNCHANGED <<pass, credits, conversations, overlapped, page, directsSent>>
    BY <1>b DEF Meeting!Relate, Meeting!On
  <1>7. /\ relation' \in [Meeting!Others -> Meeting!Relation] /\ met' \subseteq Meeting!Others
        /\ met \subseteq met'
    BY <1>0, <1>1, <1>2 DEF MeetingInv, Meeting!TypeOK
  <1>8. \A v \in Meeting!Others : relation'[v].status = "ACCEPTED" => v \in met'
    BY <1>0, <1>2 DEF MeetingInv, Meeting!TypeOK, MeetingFounded
  <1>9. /\ conversations' \subseteq Meeting!Others
        /\ conversations' \subseteq met' \cup MeetingCredited
    BY <1>6, <1>7 DEF MeetingInv, Meeting!TypeOK, MeetingFounded
  <1>10. Meeting!TypeOK'
    <2>1. overlapped \subseteq 1..MaxPasses
      BY DEF MeetingInv, Meeting!TypeOK
    <2> QED
      BY <1>5, <1>6, <1>7, <1>9, <2>1, MeetingMovesTyped
  <1>11. MeetingFounded'
    BY <1>5, <1>6, <1>7, <1>8, <1>9, MeetingMovesFounded
  <1> QED
    BY <1>5, <1>6, <1>10, <1>11, MeetingMovesCounted DEF MeetingInv

LEMMA MeetingCrashKeeps ==
    ASSUME MeetingInv, NEW c \in directCalls, Meeting!Crash(c)
    PROVE  MeetingInv'
  <1> DEFINE d == Meeting!Fails(c)
  <1>0. c \in Meeting!Call /\ MeetingCallOK(c)
    BY DEF MeetingInv, Meeting!TypeOK, MeetingFounded
  <1>1. /\ d \in Meeting!Call /\ d.at = "answer" /\ d.by = c.by /\ d.to = c.to /\ d.op = c.op
        /\ d.pass = c.pass
    BY MeetingMoveTyped DEF Meeting!Fails
  <1>2. MeetingCallOK(d)'
    BY <1>0, <1>1 DEF MeetingCallOK, Meeting!Paying, Meeting!Other, Meeting!Crash
  <1>3. MeetingMoved(c, d)
    BY <1>1, <1>2 DEF MeetingMoved, MeetingBecomes, Meeting!Crash, Meeting!On, Meeting!Paying
  <1>4. UNCHANGED <<relation, pass, credits, conversations, met, overlapped, page, directsSent>>
    BY DEF Meeting!Crash, Meeting!On
  <1>5. Meeting!TypeOK'
    <2>1. /\ relation \in [Meeting!Others -> Meeting!Relation] /\ met \subseteq Meeting!Others
          /\ conversations \subseteq Meeting!Others /\ overlapped \subseteq 1..MaxPasses
      BY DEF MeetingInv, Meeting!TypeOK
    <2> QED
      BY <1>3, <1>4, <2>1, MeetingMovesTyped
  <1>6. MeetingFounded'
    BY <1>3, <1>4, MeetingMovesFounded DEF MeetingInv, MeetingFounded
  <1> QED
    BY <1>3, <1>4, <1>5, <1>6, MeetingMovesCounted DEF MeetingInv

LEMMA MeetingSpendLooks ==
    ASSUME MeetingInv, NEW c \in directCalls, Meeting!Spend(c),
           c.at \in {"elite", "already", "count"},
           NEW at \in {"upsert", "count", "answer"}, Meeting!On(c, Meeting!To(c, at)),
           credits' = credits,
           at = "upsert" => Meeting!Already(c), at \in {"upsert", "count"} => Meeting!Paying(c)
    PROVE  MeetingMoved(c, Meeting!To(c, at))
  <1>0. c \in Meeting!Call /\ MeetingCallOK(c)
    BY DEF MeetingInv, Meeting!TypeOK, MeetingFounded
  <1>1. /\ Meeting!To(c, at) \in Meeting!Call /\ Meeting!To(c, at).at = at
        /\ Meeting!To(c, at).by = c.by
        /\ Meeting!To(c, at).to = c.to /\ Meeting!To(c, at).op = c.op
        /\ Meeting!To(c, at).pass = c.pass
    BY MeetingMoveTyped
  <1>2. at = "upsert" => Meeting!Other(c) \in MeetingCredited
    BY <1>0 DEF MeetingCallOK, Meeting!Paying, Meeting!Other, Meeting!Already, MeetingCredited
  <1>3. MeetingCallOK(Meeting!To(c, at))'
    BY <1>0, <1>1, <1>2, MeetingCardinality DEF Meeting!Spend, MeetingCallOK, Meeting!Paying,
       Meeting!Other, MeetingCredited
  <1> QED
    BY <1>1, <1>3 DEF MeetingMoved, MeetingBecomes, Meeting!On, Meeting!Paying

\* Two first messages that overlap on one pass are noted.
LEMMA MeetingOverlapNoted ==
    ASSUME MeetingInv, NEW c \in directCalls, Meeting!Spend(c), NEW n, n = pass.n
    PROVE  /\ overlapped \subseteq overlapped' /\ overlapped' \subseteq 1..MaxPasses
           /\ n \notin overlapped' => Cardinality(MeetingCharges(n)') <= 1
  <1>1. overlapped' = IF Cardinality({d \in directCalls' : d.pass = n /\ Meeting!Paying(d)}) > 1
                      THEN overlapped \cup {n} ELSE overlapped
    BY MeetingCardinality DEF Meeting!Spend
  <1>2. overlapped \subseteq 1..MaxPasses /\ n \in 1..MaxPasses
    BY DEF MeetingInv, Meeting!TypeOK
  <1>3. IsFiniteSet(MeetingCharges(n)')
    <2>1. PICK d : directCalls' = (directCalls \ {c}) \cup {d}
      BY MeetingCardinality DEF Meeting!Spend, Meeting!On
    <2>2. IsFiniteSet(directCalls')
      BY <2>1, MeetingOneReplaced DEF MeetingInv, MeetingCounted
    <2> QED
      BY <2>2, FS_Subset DEF MeetingCharges
  <1>4. Cardinality(MeetingCharges(n)') \in Nat
    BY <1>3, FS_CardinalityType
  <1>5. MeetingCharges(n)' = {d \in directCalls' : d.pass = n /\ Meeting!Paying(d)}
    BY DEF MeetingCharges, Meeting!Paying
  <1>6. overlapped \subseteq overlapped' /\ overlapped' \subseteq 1..MaxPasses
    BY <1>1, <1>2
  <1>7. n \notin overlapped' => ~(Cardinality(MeetingCharges(n)') > 1)
    BY <1>1, <1>5
  <1> QED
    BY <1>4, <1>6, <1>7

\* What a step of the payment means for the first messages under way on each pass.
LEMMA MeetingSpendChargesBounded ==
    ASSUME MeetingInv, NEW c \in directCalls, Meeting!Spend(c), NEW d, MeetingBecomes(c, d), NEW m,
           m = pass.n,
           Meeting!Paying(d) => d.pass = m \/ (Meeting!Paying(c) /\ d.pass = c.pass),
           NEW n \in 1..MaxPasses, n \notin overlapped'
    PROVE  Cardinality(MeetingCharges(n)') <= 1
  <1>1. CASE n = m
    BY <1>1, MeetingOverlapNoted
  <1>2. CASE n # m
    <2>0. n \notin overlapped
      BY MeetingOverlapNoted
    <2>1. IsFiniteSet(MeetingCharges(n)) /\ Cardinality(MeetingCharges(n)) <= 1
      BY <2>0, FS_Subset DEF MeetingInv, MeetingCounted, MeetingCharges
    <2>2. CASE c \in MeetingCharges(n)
      <3>1. MeetingCharges(n)' \subseteq (MeetingCharges(n) \ {c}) \cup {d}
        BY <1>2, <2>2 DEF MeetingBecomes, MeetingCharges, Meeting!Paying
      <3>2. /\ Cardinality(MeetingCharges(n)') <= Cardinality(MeetingCharges(n))
            /\ Cardinality(MeetingCharges(n)') \in Nat
            /\ Cardinality(MeetingCharges(n)) \in Nat
        BY <2>1, <2>2, <3>1, MeetingOneReplaced
      <3> QED
        BY <2>1, <3>2
    <2>3. CASE c \notin MeetingCharges(n)
      <3>1. MeetingCharges(n)' \subseteq MeetingCharges(n)
        BY <1>2, <2>3 DEF MeetingBecomes, MeetingCharges, Meeting!Paying
      <3> QED
        BY <2>1, <3>1, MeetingNoMore
    <2> QED
      BY <2>2, <2>3
  <1> QED
    BY <1>1, <1>2

\* A step of the payment that is not just a move: the bounds hold if they do for what is spent.
LEMMA MeetingSpendCounted ==
    ASSUME MeetingInv, NEW c \in directCalls, Meeting!Spend(c), NEW d, MeetingBecomes(c, d), NEW m,
           m = pass.n,
           Meeting!Paying(d) => d.pass = m \/ (Meeting!Paying(c) /\ d.pass = c.pass),
           IsFiniteSet(credits'),
           \A n \in 1..MaxPasses :
             n # d.pass => Meeting!OfPass(n)' = Meeting!OfPass(n) /\ MeetingSpends(n)' \subseteq MeetingSpends(n),
           d.pass \in 1..MaxPasses =>
             Cardinality(Meeting!OfPass(d.pass)') + Cardinality(MeetingSpends(d.pass)')
               <= CreditLimit + (IF d.pass \in overlapped' THEN AtOnce - 1 ELSE 0)
    PROVE  MeetingCounted'
  <1> USE MeetingAssumption, FilesAssumption
  <1>1. IsFiniteSet(directCalls') /\ Meeting!UnderWay(Buyer)' <= AtOnce
    BY MeetingBusyBounded
  <1>2. \A n \in 1..MaxPasses : n \notin overlapped' => Cardinality(MeetingCharges(n)') <= 1
    BY MeetingSpendChargesBounded
  <1>3. ASSUME NEW n \in 1..MaxPasses, n # d.pass
        PROVE  Cardinality(Meeting!OfPass(n)') + Cardinality(MeetingSpends(n)')
                 <= CreditLimit + (IF n \in overlapped' THEN AtOnce - 1 ELSE 0)
    <2>0. /\ Meeting!OfPass(n)' = Meeting!OfPass(n)
          /\ MeetingSpends(n)' \subseteq MeetingSpends(n) /\ overlapped \subseteq overlapped'
      BY <1>3, MeetingOverlapNoted
    <2>1. IsFiniteSet(MeetingSpends(n)) /\ IsFiniteSet(Meeting!OfPass(n))
      BY FS_Subset DEF MeetingInv, MeetingCounted, MeetingSpends, Meeting!OfPass
    <2>2. /\ Cardinality(MeetingSpends(n)') <= Cardinality(MeetingSpends(n))
          /\ Cardinality(Meeting!OfPass(n)) \in Nat
          /\ Cardinality(MeetingSpends(n)') \in Nat /\ Cardinality(MeetingSpends(n)) \in Nat
      BY <2>0, <2>1, MeetingNoMore, FS_CardinalityType
    <2>3. Cardinality(Meeting!OfPass(n)) + Cardinality(MeetingSpends(n))
            <= CreditLimit + (IF n \in overlapped THEN AtOnce - 1 ELSE 0)
      BY DEF MeetingInv, MeetingCounted
    <2> QED
      BY <2>0, <2>2, <2>3
  <1> QED
    BY <1>1, <1>2, <1>3 DEF MeetingCounted

\* The Elite Pass a request found is the one it will spend a credit of.
LEMMA MeetingChargesKeeps ==
    ASSUME MeetingInv, NEW c \in directCalls, Meeting!Spend(c), c.at = "elite",
           Meeting!PlanOf(c.by) = "ELITE",
           NEW m, m = pass.n, Meeting!On(c, [Meeting!To(c, "already") EXCEPT !.pass = m]), credits' = credits
    PROVE  MeetingInv'
  <1> USE MeetingAssumption, FilesAssumption
  <1>d. PICK d : d = [Meeting!To(c, "already") EXCEPT !.pass = m]
    OBVIOUS
  <1>0. c \in Meeting!Call /\ MeetingCallOK(c) /\ m \in 1..MaxPasses /\ c.by = Buyer
    BY DEF MeetingInv, Meeting!TypeOK, MeetingFounded, Meeting!PlanOf
  <1>1. /\ d \in Meeting!Call /\ d.at = "already" /\ d.by = c.by /\ d.to = c.to /\ d.op = c.op
        /\ d.pass = m
    <2>1. /\ Meeting!To(c, "already") \in Meeting!Call /\ Meeting!To(c, "already").at = "already"
          /\ Meeting!To(c, "already").by = c.by
          /\ Meeting!To(c, "already").to = c.to /\ Meeting!To(c, "already").op = c.op
      BY MeetingMoveTyped
    <2> QED
      BY <1>d, <1>0, <2>1 DEF Meeting!Call
  <1>2. MeetingBecomes(c, d)
    BY <1>d, <1>1 DEF MeetingBecomes, Meeting!On
  <1>3. MeetingCallOK(d)'
    BY <1>0, <1>1, MeetingCardinality DEF Meeting!Spend, MeetingCallOK, Meeting!Paying,
       Meeting!Other
  <1>4. UNCHANGED <<relation, pass, conversations, met, credits, page, directsSent>>
    BY MeetingCardinality DEF Meeting!Spend, Meeting!On
  <1>5. overlapped' \subseteq 1..MaxPasses /\ overlapped \subseteq overlapped'
    BY MeetingOverlapNoted
  <1>6. Meeting!TypeOK'
    <2>1. /\ relation \in [Meeting!Others -> Meeting!Relation] /\ met \subseteq Meeting!Others
          /\ conversations \subseteq Meeting!Others
          /\ credits \subseteq [pass : 1..MaxPasses, to : Meeting!Others]
      BY DEF MeetingInv, Meeting!TypeOK
    <2> QED
      BY <1>1, <1>2, <1>4, <1>5, <2>1, MeetingStepTyped
  <1>7. MeetingFounded'
    <2>1. MeetingCredited' = MeetingCredited
      BY <1>4 DEF MeetingCredited
    <2>2. conversations \subseteq met \cup MeetingCredited
          /\ \A v \in Meeting!Others : relation[v].status = "ACCEPTED" => v \in met
      BY DEF MeetingInv, MeetingFounded
    <2> QED
      BY <1>2, <1>3, <1>4, <2>1, <2>2, MeetingStepFounded
  <1>8. \A n \in 1..MaxPasses : Meeting!OfPass(n)' = Meeting!OfPass(n) /\ MeetingSpends(n)' \subseteq MeetingSpends(n)
    BY <1>1, <1>2, <1>4 DEF Meeting!OfPass, MeetingSpends, MeetingBecomes
  <1>9. Cardinality(Meeting!OfPass(m)') + Cardinality(MeetingSpends(m)')
          <= CreditLimit + (IF m \in overlapped' THEN AtOnce - 1 ELSE 0)
    <2>1. IsFiniteSet(MeetingSpends(m)) /\ IsFiniteSet(Meeting!OfPass(m))
      BY FS_Subset DEF MeetingInv, MeetingCounted, MeetingSpends, Meeting!OfPass
    <2>2. /\ Cardinality(MeetingSpends(m)') <= Cardinality(MeetingSpends(m))
          /\ Cardinality(Meeting!OfPass(m)) \in Nat
          /\ Cardinality(MeetingSpends(m)') \in Nat /\ Cardinality(MeetingSpends(m)) \in Nat
      BY <1>0, <1>8, <2>1, MeetingNoMore, FS_CardinalityType
    <2>3. Cardinality(Meeting!OfPass(m)) + Cardinality(MeetingSpends(m))
            <= CreditLimit + (IF m \in overlapped THEN AtOnce - 1 ELSE 0)
      BY <1>0 DEF MeetingInv, MeetingCounted
    <2> QED
      BY <1>0, <1>5, <1>8, <2>2, <2>3
  <1>10. MeetingCounted'
    BY <1>1, <1>2, <1>4, <1>8, <1>9, MeetingSpendCounted DEF MeetingInv, MeetingCounted
  <1> QED
    BY <1>6, <1>7, <1>10 DEF MeetingInv

\* It counted fewer credits than there are, and is the only one to have, unless it is noted.
LEMMA MeetingCountKeeps ==
    ASSUME MeetingInv, NEW c \in directCalls, Meeting!Spend(c), c.at = "count", Meeting!MayCount(c),
           Meeting!On(c, Meeting!To(c, "spend")), credits' = credits
    PROVE  MeetingInv'
  <1> USE MeetingAssumption, FilesAssumption
  <1>d. PICK d : d = Meeting!To(c, "spend")
    OBVIOUS
  <1>m. PICK m : m = pass.n
    OBVIOUS
  <1>0. c \in Meeting!Call /\ MeetingCallOK(c) /\ c.by = Buyer /\ c.pass \in 1..MaxPasses
    BY DEF MeetingInv, Meeting!TypeOK, MeetingFounded, MeetingCallOK, Meeting!Paying, Meeting!Call
  <1>1. /\ d \in Meeting!Call /\ d.at = "spend" /\ d.by = c.by /\ d.to = c.to /\ d.op = c.op
        /\ d.pass = c.pass
    BY <1>d, MeetingMoveTyped
  <1>2. MeetingBecomes(c, d)
    BY <1>d, <1>1 DEF MeetingBecomes, Meeting!On
  <1>3. MeetingCallOK(d)'
    BY <1>0, <1>1, MeetingCardinality DEF Meeting!Spend, MeetingCallOK, Meeting!Paying,
       Meeting!Other
  <1>4. UNCHANGED <<relation, pass, conversations, met, credits, page, directsSent>>
    BY MeetingCardinality DEF Meeting!Spend, Meeting!On
  <1>5. overlapped' \subseteq 1..MaxPasses /\ overlapped \subseteq overlapped'
    BY MeetingOverlapNoted
  <1>6. Meeting!TypeOK'
    <2>1. /\ relation \in [Meeting!Others -> Meeting!Relation] /\ met \subseteq Meeting!Others
          /\ conversations \subseteq Meeting!Others
          /\ credits \subseteq [pass : 1..MaxPasses, to : Meeting!Others]
      BY DEF MeetingInv, Meeting!TypeOK
    <2> QED
      BY <1>1, <1>2, <1>4, <1>5, <2>1, MeetingStepTyped
  <1>7. MeetingFounded'
    <2>1. MeetingCredited' = MeetingCredited
      BY <1>4 DEF MeetingCredited
    <2>2. conversations \subseteq met \cup MeetingCredited
          /\ \A v \in Meeting!Others : relation[v].status = "ACCEPTED" => v \in met
      BY DEF MeetingInv, MeetingFounded
    <2> QED
      BY <1>2, <1>3, <1>4, <2>1, <2>2, MeetingStepFounded
  <1>8. \A n \in 1..MaxPasses : Meeting!OfPass(n)' = Meeting!OfPass(n) /\ (n # d.pass => MeetingSpends(n)' \subseteq MeetingSpends(n))
    BY <1>1, <1>2, <1>4 DEF Meeting!OfPass, MeetingSpends, MeetingBecomes
  <1>9. \A n \in 1..MaxPasses : n = d.pass =>
          Cardinality(Meeting!OfPass(n)') + Cardinality(MeetingSpends(n)')
            <= CreditLimit + (IF n \in overlapped' THEN AtOnce - 1 ELSE 0)
    <2> SUFFICES ASSUME NEW n \in 1..MaxPasses, n = d.pass
                 PROVE  Cardinality(Meeting!OfPass(n)') + Cardinality(MeetingSpends(n)')
                          <= CreditLimit + (IF n \in overlapped' THEN AtOnce - 1 ELSE 0)
      OBVIOUS
    <2>1. /\ IsFiniteSet(Meeting!OfPass(n)) /\ Cardinality(Meeting!OfPass(n)) \in Nat
          /\ Cardinality(Meeting!OfPass(n)) < CreditLimit
      BY <1>1, FS_Subset, FS_CardinalityType, MeetingCardinality DEF MeetingInv, MeetingCounted,
         Meeting!OfPass, Meeting!MayCount
    <2>2. IsFiniteSet(directCalls') /\ Meeting!UnderWay(Buyer)' <= AtOnce
      BY <1>2, MeetingBusyBounded
    <2>3. IsFiniteSet(MeetingCharges(n)') /\ IsFiniteSet(MeetingBusy(Buyer)')
      BY <2>2, FS_Subset DEF MeetingCharges, MeetingBusy
    <2>4. MeetingSpends(n)' \subseteq MeetingCharges(n)'
      BY DEF MeetingSpends, MeetingCharges, Meeting!Paying
    <2>5. /\ Cardinality(MeetingSpends(n)') <= Cardinality(MeetingCharges(n)')
          /\ Cardinality(MeetingSpends(n)') \in Nat
          /\ Cardinality(MeetingCharges(n)') \in Nat
      BY <2>3, <2>4, MeetingNoMore
    <2>6. CASE n \notin overlapped'
      <3>1. Cardinality(MeetingCharges(n)') <= 1
        BY <1>m, <1>1, <1>2, <2>6, MeetingSpendChargesBounded DEF Meeting!Paying
      <3> QED
        BY <1>8, <2>1, <2>5, <2>6, <3>1
    <2>7. CASE n \in overlapped'
      <3>1. \A e \in directCalls' : e.at = "spend" => e.by = Buyer
        BY <1>7 DEF MeetingFounded, MeetingCallOK, Meeting!Paying
      <3>2. MeetingSpends(n)' \subseteq MeetingBusy(Buyer)'
        BY <3>1 DEF MeetingSpends, MeetingBusy
      <3>3. /\ Cardinality(MeetingSpends(n)') <= Cardinality(MeetingBusy(Buyer)')
            /\ Cardinality(MeetingBusy(Buyer)') \in Nat
        BY <2>3, <3>2, MeetingNoMore
      <3>4. Cardinality(MeetingBusy(Buyer)') <= AtOnce
        BY <2>2, MeetingCardinality DEF Meeting!UnderWay, MeetingBusy
      <3> QED
        BY <1>8, <2>1, <2>5, <2>7, <3>3, <3>4
    <2> QED
      BY <2>6, <2>7
  <1>10. MeetingCounted'
    <2>1. IsFiniteSet(credits')
      BY <1>4 DEF MeetingInv, MeetingCounted
    <2>2. Meeting!Paying(d) => d.pass = m \/ (Meeting!Paying(c) /\ d.pass = c.pass)
      BY <1>1 DEF Meeting!Paying
    <2> QED
      BY <1>m, <1>2, <1>8, <1>9, <2>1, <2>2, MeetingSpendCounted
  <1> QED
    BY <1>6, <1>7, <1>10 DEF MeetingInv

\* What it may spend it spends.
LEMMA MeetingPaysKeeps ==
    ASSUME MeetingInv, NEW c \in directCalls, Meeting!Spend(c), c.at = "spend", NEW r,
           r = [pass |-> c.pass, to |-> c.to],
           Meeting!On(c, Meeting!To(c, "upsert")), credits' = credits \cup {r}
    PROVE  MeetingInv'
  <1> USE MeetingAssumption, FilesAssumption
  <1>d. PICK d : d = Meeting!To(c, "upsert")
    OBVIOUS
  <1>m. PICK m : m = pass.n
    OBVIOUS
  <1>0. /\ c \in Meeting!Call /\ MeetingCallOK(c) /\ c.by = Buyer /\ c.pass \in 1..MaxPasses
        /\ c.to \in Meeting!Others
    BY DEF MeetingInv, Meeting!TypeOK, MeetingFounded, MeetingCallOK, Meeting!Paying,
       Meeting!Call, Meeting!Others
  <1>1. /\ d \in Meeting!Call /\ d.at = "upsert" /\ d.by = c.by /\ d.to = c.to /\ d.op = c.op
        /\ d.pass = c.pass
    BY <1>d, MeetingMoveTyped
  <1>2. MeetingBecomes(c, d)
    BY <1>d, <1>1 DEF MeetingBecomes, Meeting!On
  <1>3. MeetingCallOK(d)'
    <2>1. c.to \in MeetingCredited'
      BY DEF MeetingCredited
    <2> QED
      BY <1>0, <1>1, <2>1, MeetingCardinality DEF Meeting!Spend, MeetingCallOK, Meeting!Paying,
         Meeting!Other
  <1>4. UNCHANGED <<relation, pass, conversations, met, page, directsSent>>
    BY MeetingCardinality DEF Meeting!Spend, Meeting!On
  <1>5. overlapped' \subseteq 1..MaxPasses /\ overlapped \subseteq overlapped'
    BY <1>m, MeetingOverlapNoted
  <1>6. Meeting!TypeOK'
    <2>1. /\ relation \in [Meeting!Others -> Meeting!Relation] /\ met \subseteq Meeting!Others
          /\ conversations \subseteq Meeting!Others
          /\ credits' \subseteq [pass : 1..MaxPasses, to : Meeting!Others]
      BY <1>0 DEF MeetingInv, Meeting!TypeOK
    <2> QED
      BY <1>1, <1>2, <1>4, <1>5, <2>1, MeetingStepTyped
  <1>7. MeetingFounded'
    <2>1. MeetingCredited \subseteq MeetingCredited' /\ credits \subseteq credits'
      BY DEF MeetingCredited
    <2>2. conversations \subseteq met \cup MeetingCredited
          /\ \A v \in Meeting!Others : relation[v].status = "ACCEPTED" => v \in met
      BY DEF MeetingInv, MeetingFounded
    <2>3. conversations' \subseteq met' \cup MeetingCredited'
      BY <1>4, <2>1, <2>2
    <2> QED
      BY <1>2, <1>3, <1>4, <2>1, <2>2, <2>3, MeetingStepFounded
  <1>8. \A n \in 1..MaxPasses : n # d.pass => Meeting!OfPass(n)' = Meeting!OfPass(n) /\ MeetingSpends(n)' \subseteq MeetingSpends(n)
    BY <1>1, <1>2 DEF Meeting!OfPass, MeetingSpends, MeetingBecomes
  <1>9. \A n \in 1..MaxPasses : n = d.pass =>
          Cardinality(Meeting!OfPass(n)') + Cardinality(MeetingSpends(n)')
            <= CreditLimit + (IF n \in overlapped' THEN AtOnce - 1 ELSE 0)
    <2> SUFFICES ASSUME NEW n \in 1..MaxPasses, n = d.pass
                 PROVE  Cardinality(Meeting!OfPass(n)') + Cardinality(MeetingSpends(n)')
                          <= CreditLimit + (IF n \in overlapped' THEN AtOnce - 1 ELSE 0)
      OBVIOUS
    <2>1. IsFiniteSet(Meeting!OfPass(n)) /\ IsFiniteSet(MeetingSpends(n))
      BY FS_Subset DEF MeetingInv, MeetingCounted, Meeting!OfPass, MeetingSpends
    <2>a. r.pass = n /\ c.pass = n
      BY <1>1
    <2>2. Meeting!OfPass(n)' = Meeting!OfPass(n) \cup {r} /\ c \in MeetingSpends(n)
      BY <2>a DEF Meeting!OfPass, MeetingSpends
    <2>3. /\ Cardinality(Meeting!OfPass(n)') <= Cardinality(Meeting!OfPass(n)) + 1
          /\ Cardinality(Meeting!OfPass(n)') \in Nat
          /\ Cardinality(Meeting!OfPass(n)) \in Nat
      BY <2>1, <2>2, MeetingOneAdded
    <2>4. MeetingSpends(n)' = MeetingSpends(n) \ {c}
      BY <1>1, <1>2 DEF MeetingSpends, MeetingBecomes
    <2>5. /\ Cardinality(MeetingSpends(n)') = Cardinality(MeetingSpends(n)) - 1
          /\ Cardinality(MeetingSpends(n)) \in Nat
      BY <2>1, <2>2, <2>4, FS_RemoveElement, FS_CardinalityType
    <2>6. Cardinality(Meeting!OfPass(n)) + Cardinality(MeetingSpends(n))
            <= CreditLimit + (IF n \in overlapped THEN AtOnce - 1 ELSE 0)
      BY DEF MeetingInv, MeetingCounted
    <2> QED
      BY <1>5, <2>3, <2>5, <2>6
  <1>10. MeetingCounted'
    <2>1. IsFiniteSet(credits')
      BY FS_AddElement DEF MeetingInv, MeetingCounted
    <2>2. Meeting!Paying(d) => d.pass = m \/ (Meeting!Paying(c) /\ d.pass = c.pass)
      BY <1>1 DEF Meeting!Paying
    <2> QED
      BY <1>m, <1>2, <1>8, <1>9, <2>1, <2>2, MeetingSpendCounted
  <1> QED
    BY <1>6, <1>7, <1>10 DEF MeetingInv

LEMMA MeetingSpendKeeps ==
    ASSUME MeetingInv, NEW c \in directCalls, Meeting!Spend(c)
    PROVE  MeetingInv'
  <1>m. PICK m : m = pass.n
    OBVIOUS
  <1>1. ASSUME NEW at \in {"upsert", "count", "answer"}, Meeting!On(c, Meeting!To(c, at)),
               credits' = credits,
               c.at \in {"elite", "already", "count"}, at = "upsert" => Meeting!Already(c),
               at \in {"upsert", "count"} => Meeting!Paying(c)
        PROVE  MeetingInv'
    <2>1. MeetingMoved(c, Meeting!To(c, at))
      BY <1>1, MeetingSpendLooks
    <2>2. UNCHANGED <<relation, pass, conversations, met, credits, page, directsSent>>
      BY <1>1, MeetingCardinality DEF Meeting!Spend, Meeting!On
    <2>3. overlapped' \subseteq 1..MaxPasses /\ overlapped \subseteq overlapped'
      BY <1>m, MeetingOverlapNoted
    <2>4. /\ relation \in [Meeting!Others -> Meeting!Relation] /\ met \subseteq Meeting!Others
          /\ conversations \subseteq Meeting!Others
          /\ conversations \subseteq met \cup MeetingCredited
          /\ \A v \in Meeting!Others : relation[v].status = "ACCEPTED" => v \in met
      BY DEF MeetingInv, Meeting!TypeOK, MeetingFounded
    <2>5. Meeting!TypeOK'
      BY <2>1, <2>2, <2>3, <2>4, MeetingMovesTyped
    <2>6. MeetingFounded'
      BY <2>1, <2>2, <2>4, MeetingMovesFounded
    <2> QED
      BY <2>1, <2>2, <2>3, <2>5, <2>6, MeetingMovesCounted DEF MeetingInv
  <1>2. CASE c.at = "elite"
    <2>1. CASE Meeting!PlanOf(c.by) # "ELITE"
      <3>1. Meeting!On(c, Meeting!To(c, "answer")) /\ credits' = credits
        BY <1>2, <2>1, MeetingCardinality DEF Meeting!Spend, Meeting!Fails
      <3> QED
        BY <1>1, <1>2, <3>1
    <2>2. CASE Meeting!PlanOf(c.by) = "ELITE"
      <3>1. Meeting!On(c, [Meeting!To(c, "already") EXCEPT !.pass = m]) /\ credits' = credits
        BY <1>m, <1>2, <2>2, MeetingCardinality DEF Meeting!Spend
      <3> QED
        BY <1>m, <1>2, <2>2, <3>1, MeetingChargesKeeps
    <2> QED
      BY <2>1, <2>2
  <1>3. CASE c.at = "already"
    <2>1. Meeting!On(c, Meeting!To(c, IF Meeting!Already(c) THEN "upsert" ELSE "count")) /\ credits' = credits
      BY <1>3, MeetingCardinality DEF Meeting!Spend
    <2> QED
      BY <1>1, <1>3, <2>1 DEF Meeting!Paying
  <1>4. CASE c.at = "count"
    <2>1. CASE Meeting!MayCount(c)
      <3>1. Meeting!On(c, Meeting!To(c, "spend")) /\ credits' = credits
        BY <1>4, <2>1, MeetingCardinality DEF Meeting!Spend
      <3> QED
        BY <1>4, <2>1, <3>1, MeetingCountKeeps
    <2>2. CASE ~Meeting!MayCount(c)
      <3>1. Meeting!On(c, Meeting!To(c, "answer")) /\ credits' = credits
        BY <1>4, <2>2, MeetingCardinality DEF Meeting!Spend, Meeting!Fails
      <3> QED
        BY <1>1, <1>4, <3>1
    <2> QED
      BY <2>1, <2>2
  <1>5. CASE c.at = "spend"
    <2>1. /\ Meeting!On(c, Meeting!To(c, "upsert"))
          /\ credits' = credits \cup {[pass |-> c.pass, to |-> c.to]}
      BY <1>5, MeetingCardinality DEF Meeting!Spend
    <2> QED
      BY <1>5, <2>1, MeetingPaysKeeps
  <1> QED
    BY <1>2, <1>3, <1>4, <1>5, MeetingCardinality DEF Meeting!Spend

LEMMA MeetingSendKeeps ==
    ASSUME MeetingInv, NEW u \in Users, NEW v \in Users,
           (u = Buyer /\ v \in Meeting!Others) \/ (u \in Meeting!Others /\ v = Buyer),
           NEW op \in {"LOAD", "OPEN", "REQUEST", "ACCEPT", "CANCEL", "BLOCK"}, Meeting!Send(u, v, op), page' \in Meeting!Page
    PROVE  MeetingInv'
  <1> USE MeetingAssumption, FilesAssumption
  <1>r. PICK r : r = Meeting!Request(u, v, op)
    OBVIOUS
  <1>0. directsSent \in 0..MaxCalls /\ directsSent + 1 \in 1..MaxCalls
    BY DEF Meeting!Send, MeetingInv, Meeting!TypeOK
  <1>1. r.by = u /\ r.to = v /\ r.op = op /\ r.at = (IF op = "OPEN" THEN "joined" ELSE "write") /\ r \in Meeting!Call
    BY <1>0, <1>r DEF Meeting!Request, Meeting!Call, Meeting!Stranger, Meeting!Relation
  <1>2. /\ directCalls' = directCalls \cup {r}
        /\ UNCHANGED <<relation, pass, credits, conversations, met, overlapped>>
        /\ directsSent' = directsSent + 1
    BY <1>r DEF Meeting!Send
  <1>3. Meeting!TypeOK'
    BY <1>0, <1>1, <1>2 DEF MeetingInv, Meeting!TypeOK
  <1>4. MeetingFounded'
    <2>1. MeetingCallOK(r)'
      BY <1>1 DEF MeetingCallOK, Meeting!Paying
    <2>2. \A e \in directCalls : MeetingCallOK(e)'
      BY <1>2 DEF MeetingInv, MeetingFounded, MeetingCallOK, Meeting!Paying, Meeting!Other,
         MeetingCredited
    <2>3. MeetingCredited' = MeetingCredited
      BY <1>2 DEF MeetingCredited
    <2> QED
      BY <1>2, <2>1, <2>2, <2>3 DEF MeetingInv, MeetingFounded
  <1>5. MeetingCounted'
    <2>1. IsFiniteSet(directCalls) /\ IsFiniteSet(directCalls')
      BY <1>2, FS_AddElement DEF MeetingInv, MeetingCounted
    <2>2. /\ IsFiniteSet(MeetingBusy(Buyer)) /\ Cardinality(MeetingBusy(Buyer)) \in Nat
          /\ Cardinality(MeetingBusy(Buyer)) <= AtOnce
      BY <2>1, FS_Subset, FS_CardinalityType, MeetingCardinality DEF MeetingInv, MeetingCounted,
         Meeting!UnderWay, MeetingBusy
    <2>3. Meeting!UnderWay(Buyer)' <= AtOnce
      <3>1. CASE u = Buyer
        <4>1. Cardinality(MeetingBusy(Buyer)) < AtOnce
          BY <3>1, MeetingCardinality DEF Meeting!Send, Meeting!UnderWay, MeetingBusy
        <4>2. MeetingBusy(Buyer)' = MeetingBusy(Buyer) \cup {r}
          BY <1>1, <1>2, <3>1 DEF MeetingBusy
        <4>3. /\ Cardinality(MeetingBusy(Buyer)') <= Cardinality(MeetingBusy(Buyer)) + 1
              /\ Cardinality(MeetingBusy(Buyer)') \in Nat
          BY <2>2, <4>2, MeetingOneAdded
        <4> QED
          BY <2>2, <4>1, <4>3, MeetingCardinality DEF Meeting!UnderWay, MeetingBusy
      <3>2. CASE u # Buyer
        <4>1. MeetingBusy(Buyer)' = MeetingBusy(Buyer)
          BY <1>1, <1>2, <3>2 DEF MeetingBusy
        <4> QED
          BY <2>2, <4>1, MeetingCardinality DEF Meeting!UnderWay, MeetingBusy
      <3> QED
        BY <3>1, <3>2
    <2>4. \A n \in 1..MaxPasses :
            MeetingCharges(n)' = MeetingCharges(n) /\ MeetingSpends(n)' = MeetingSpends(n) /\ Meeting!OfPass(n)' = Meeting!OfPass(n)
      BY <1>1, <1>2 DEF MeetingCharges, Meeting!Paying, MeetingSpends, Meeting!OfPass
    <2> QED
      BY <1>2, <2>1, <2>3, <2>4 DEF MeetingInv, MeetingCounted
  <1> QED
    BY <1>3, <1>4, <1>5 DEF MeetingInv

LEMMA MeetingVisitKeeps ==
    ASSUME MeetingInv, NEW v \in Meeting!Others, Meeting!Visit(v)
    PROVE  MeetingInv'
  <1>1. page' \in Meeting!Page
    BY DEF Meeting!Visit, MeetingInv, Meeting!TypeOK, Meeting!Page, Meeting!Stranger,
       Meeting!Relation
  <1>2. Meeting!Send(Buyer, v, "LOAD")
    BY DEF Meeting!Visit
  <1>3. Buyer \in Users /\ v \in Users
    BY MeetingAssumption, FilesAssumption DEF Meeting!Others
  <1> QED
    BY <1>1, <1>2, <1>3, MeetingSendKeeps DEF Meeting!Others

LEMMA MeetingPressKeeps ==
    ASSUME MeetingInv, Meeting!Press \/ Meeting!PressMessage \/ Meeting!PressBlock
    PROVE  MeetingInv'
  <1>0. page \in Meeting!Page
    BY DEF MeetingInv, Meeting!TypeOK
  <1>1. page' \in Meeting!Page /\ page.of \in Meeting!Others
    BY <1>0 DEF Meeting!Press, Meeting!PressMessage, Meeting!PressBlock, Meeting!Page
  <1>2. \E op \in {"OPEN", "REQUEST", "ACCEPT", "CANCEL", "BLOCK"} : Meeting!Send(Buyer, page.of, op)
    <2>1. CASE Meeting!Press
      <3>1. Meeting!Button \in {"OPEN", "CANCEL", "ACCEPT", "REQUEST", Meeting!None}
        BY DEF Meeting!Button
      <3> QED
        BY <2>1, <3>1 DEF Meeting!Press
    <2> QED
      BY <2>1 DEF Meeting!PressMessage, Meeting!PressBlock
  <1>3. PICK v \in Meeting!Others, op \in {"OPEN", "REQUEST", "ACCEPT", "CANCEL", "BLOCK"} : Meeting!Send(Buyer, v, op)
    BY <1>1, <1>2
  <1>4. Buyer \in Users /\ v \in Users
    BY MeetingAssumption, FilesAssumption DEF Meeting!Others
  <1> QED
    BY <1>1, <1>3, <1>4, MeetingSendKeeps DEF Meeting!Others

LEMMA MeetingOtherKeeps ==
    ASSUME MeetingInv, NEW v \in Meeting!Others,
           NEW op \in {"OPEN", "REQUEST", "ACCEPT", "CANCEL", "BLOCK"},
           Meeting!OtherDoes(v, op)
    PROVE  MeetingInv'
  <1>1. page' \in Meeting!Page /\ Meeting!Send(v, Buyer, op)
    BY DEF Meeting!OtherDoes, MeetingInv, Meeting!TypeOK
  <1> QED
    BY <1>1, MeetingSendKeeps, MeetingAssumption, FilesAssumption DEF Meeting!Others

\* Fewer requests count for no more.
LEMMA MeetingFewerCounted ==
    ASSUME MeetingInv, directCalls' \subseteq directCalls, UNCHANGED <<credits, overlapped>>
    PROVE  MeetingCounted'
  <1> USE MeetingAssumption, FilesAssumption
  <1>1. IsFiniteSet(directCalls) /\ IsFiniteSet(directCalls')
    BY FS_Subset DEF MeetingInv, MeetingCounted
  <1>2. Meeting!UnderWay(Buyer)' <= AtOnce
    <2>1. IsFiniteSet(MeetingBusy(Buyer)) /\ Cardinality(MeetingBusy(Buyer)) <= AtOnce
      BY <1>1, FS_Subset, MeetingCardinality DEF MeetingInv, MeetingCounted, Meeting!UnderWay,
         MeetingBusy
    <2>2. MeetingBusy(Buyer)' \subseteq MeetingBusy(Buyer)
      BY DEF MeetingBusy
    <2>3. /\ Cardinality(MeetingBusy(Buyer)') <= Cardinality(MeetingBusy(Buyer))
          /\ Cardinality(MeetingBusy(Buyer)') \in Nat
          /\ Cardinality(MeetingBusy(Buyer)) \in Nat
      BY <2>1, <2>2, MeetingNoMore
    <2> QED
      BY <2>1, <2>3, MeetingCardinality DEF Meeting!UnderWay, MeetingBusy
  <1>3. ASSUME NEW n \in 1..MaxPasses
        PROVE  /\ n \notin overlapped' => Cardinality(MeetingCharges(n)') <= 1
               /\ Cardinality(Meeting!OfPass(n)') + Cardinality(MeetingSpends(n)')
                    <= CreditLimit + (IF n \in overlapped' THEN AtOnce - 1 ELSE 0)
    <2>1. /\ IsFiniteSet(MeetingCharges(n)) /\ IsFiniteSet(MeetingSpends(n))
          /\ IsFiniteSet(Meeting!OfPass(n))
      BY <1>1, FS_Subset DEF MeetingInv, MeetingCounted, MeetingCharges, MeetingSpends,
         Meeting!OfPass
    <2>2. /\ MeetingCharges(n)' \subseteq MeetingCharges(n)
          /\ MeetingSpends(n)' \subseteq MeetingSpends(n)
          /\ Meeting!OfPass(n)' = Meeting!OfPass(n)
      BY DEF MeetingCharges, MeetingSpends, Meeting!OfPass, Meeting!Paying
    <2>3. /\ Cardinality(MeetingCharges(n)') <= Cardinality(MeetingCharges(n))
          /\ Cardinality(MeetingCharges(n)') \in Nat
          /\ Cardinality(MeetingCharges(n)) \in Nat
      BY <2>1, <2>2, MeetingNoMore
    <2>4. /\ Cardinality(MeetingSpends(n)') <= Cardinality(MeetingSpends(n))
          /\ Cardinality(MeetingSpends(n)') \in Nat
          /\ Cardinality(MeetingSpends(n)) \in Nat /\ Cardinality(Meeting!OfPass(n)) \in Nat
      BY <2>1, <2>2, MeetingNoMore, FS_CardinalityType
    <2>5. /\ n \notin overlapped => Cardinality(MeetingCharges(n)) <= 1
          /\ Cardinality(Meeting!OfPass(n)) + Cardinality(MeetingSpends(n))
               <= CreditLimit + (IF n \in overlapped THEN AtOnce - 1 ELSE 0)
      BY DEF MeetingInv, MeetingCounted
    <2> QED
      BY <2>2, <2>3, <2>4, <2>5
  <1> QED
    BY <1>1, <1>2, <1>3 DEF MeetingCounted, MeetingInv

LEMMA MeetingAnswerKeeps ==
    ASSUME MeetingInv, NEW c \in directCalls, Meeting!Answer(c)
    PROVE  MeetingInv'
  <1>0. /\ c \in Meeting!Call /\ page \in Meeting!Page
        /\ pass \in [plan : Meeting!Plans, n : 1..MaxPasses]
    BY DEF MeetingInv, Meeting!TypeOK
  <1>1. directCalls' = directCalls \ {c}
        /\ UNCHANGED <<relation, pass, credits, conversations, met, overlapped, directsSent>>
    BY DEF Meeting!Answer
  <1>2. page' \in Meeting!Page
    <2>1. c.row \in Meeting!Relation /\ c.ok \in BOOLEAN
      BY <1>0 DEF Meeting!Call
    <2>2. \/ page' = page
          \/ page' = [page EXCEPT !.loaded = TRUE, !.shown = c.row, !.elite = pass.plan = "ELITE"]
          \/ page' = [page EXCEPT !.loaded = @ /\ ~c.ok]
          \/ page' = [page EXCEPT !.busy = FALSE]
          \/ page' = [page EXCEPT !.busy = FALSE, !.shown = c.row]
      <3>1. CASE c.by # Buyer \/ c.to # page.of
        BY <3>1 DEF Meeting!Answer
      <3>2. CASE c.op = "LOAD" /\ ~(c.by # Buyer \/ c.to # page.of)
        BY <2>1, <3>2 DEF Meeting!Answer
      <3>3. CASE c.op = "BLOCK" /\ ~(c.by # Buyer \/ c.to # page.of)
        BY <3>3 DEF Meeting!Answer
      <3>4. CASE c.op \notin {"LOAD", "BLOCK"} /\ ~(c.by # Buyer \/ c.to # page.of)
        BY <2>1, <3>4 DEF Meeting!Answer
      <3> QED
        BY <3>1, <3>2, <3>3, <3>4
    <2> QED
      BY <1>0, <2>1, <2>2 DEF Meeting!Page
  <1>3. Meeting!TypeOK'
    BY <1>1, <1>2 DEF MeetingInv, Meeting!TypeOK
  <1>4. MeetingFounded'
    <2>1. \A e \in directCalls : MeetingCallOK(e)'
      BY <1>1 DEF MeetingInv, MeetingFounded, MeetingCallOK, Meeting!Paying, Meeting!Other,
         MeetingCredited
    <2>2. MeetingCredited' = MeetingCredited
      BY <1>1 DEF MeetingCredited
    <2> QED
      BY <1>1, <2>1, <2>2 DEF MeetingInv, MeetingFounded
  <1>5. MeetingCounted'
    BY <1>1, MeetingFewerCounted DEF MeetingInv, MeetingCounted
  <1> QED
    BY <1>3, <1>4, <1>5 DEF MeetingInv

LEMMA MeetingPassChangesKeeps ==
    ASSUME MeetingInv, NEW newPlan \in Meeting!Plans, Meeting!PassChanges(newPlan)
    PROVE  MeetingInv'
  <1>1. UNCHANGED <<relation, credits, conversations, met, overlapped, page, directCalls>>
        /\ directsSent' = directsSent + 1 /\ directsSent < MaxCalls
        /\ pass' = [plan |-> newPlan, n |-> IF newPlan = Meeting!None THEN pass.n ELSE pass.n + 1]
        /\ (newPlan # Meeting!None => pass.n < MaxPasses)
    BY DEF Meeting!PassChanges
  <1>2. pass.n \in 1..MaxPasses
    BY DEF MeetingInv, Meeting!TypeOK
  <1>3. pass' \in [plan : Meeting!Plans, n : 1..MaxPasses]
    BY <1>1, <1>2, MeetingAssumption, FilesAssumption
  <1>4. directsSent' \in 0..MaxCalls
    BY <1>1, MeetingAssumption, FilesAssumption DEF MeetingInv, Meeting!TypeOK
  <1>5. Meeting!TypeOK'
    BY <1>1, <1>3, <1>4 DEF MeetingInv, Meeting!TypeOK
  <1>6. MeetingFounded'
    <2>1. \A e \in directCalls : MeetingCallOK(e)'
      BY <1>1 DEF MeetingInv, MeetingFounded, MeetingCallOK, Meeting!Paying, Meeting!Other,
         MeetingCredited
    <2>2. MeetingCredited' = MeetingCredited
      BY <1>1 DEF MeetingCredited
    <2> QED
      BY <1>1, <2>1, <2>2 DEF MeetingInv, MeetingFounded
  <1>7. MeetingCounted'
    BY <1>1, MeetingCardinality DEF MeetingInv, MeetingCounted, Meeting!UnderWay, MeetingCharges,
       Meeting!Paying, MeetingSpends, Meeting!OfPass
  <1> QED
    BY <1>5, <1>6, <1>7 DEF MeetingInv

LEMMA MeetingInitially == Meeting!Init => MeetingInv
  <1> SUFFICES ASSUME Meeting!Init PROVE MeetingInv
    OBVIOUS
  <1> USE MeetingAssumption, FilesAssumption
  <1>1. relation \in [Meeting!Others -> Meeting!Relation]
    <2>1. /\ Meeting!Stranger \in Meeting!Relation
          /\ [status |-> "ACCEPTED", mine |-> TRUE] \in Meeting!Relation
      BY DEF Meeting!Relation, Meeting!Stranger
    <2>2. relation \in [Meeting!Others -> {Meeting!Stranger, [status |-> "ACCEPTED", mine |-> TRUE]}]
      BY DEF Meeting!Init
    <2> QED
      BY <2>1, <2>2
  <1>2. Meeting!TypeOK
    BY <1>1 DEF Meeting!Init, Meeting!TypeOK, Meeting!Page, Meeting!Plans
  <1>3. MeetingFounded
    BY DEF Meeting!Init, MeetingFounded
  <1>4. MeetingCounted
    <2>1. /\ IsFiniteSet(directCalls) /\ IsFiniteSet(credits) /\ Meeting!UnderWay(Buyer) = 0
          /\ \A n \in 1..MaxPasses :
               Cardinality(MeetingCharges(n)) = 0 /\ Cardinality(Meeting!OfPass(n)) = 0 /\ Cardinality(MeetingSpends(n)) = 0
      BY FS_EmptySet, MeetingCardinality DEF Meeting!Init, Meeting!UnderWay, MeetingCharges,
         Meeting!OfPass, MeetingSpends
    <2> QED
      BY <2>1 DEF MeetingCounted, Meeting!Init
  <1> QED
    BY <1>2, <1>3, <1>4 DEF MeetingInv

LEMMA MeetingSteps == ASSUME MeetingInv, Meeting!Next PROVE MeetingInv'
  <1>1. ASSUME NEW c \in directCalls,
               Meeting!Check(c) \/ Meeting!Spend(c) \/ Meeting!Upsert(c) \/ Meeting!Relate(c) \/ Meeting!Crash(c) \/ Meeting!Answer(c)
        PROVE  MeetingInv'
    BY <1>1, MeetingCheckKeeps, MeetingSpendKeeps, MeetingUpsertKeeps, MeetingRelateKeeps,
       MeetingCrashKeeps, MeetingAnswerKeeps
  <1>2. ASSUME NEW v \in Meeting!Others,
               Meeting!Visit(v) \/ \E op \in {"OPEN", "REQUEST", "ACCEPT", "CANCEL", "BLOCK"} : Meeting!OtherDoes(v, op)
        PROVE  MeetingInv'
    BY <1>2, MeetingVisitKeeps, MeetingOtherKeeps
  <1>3. CASE \E newPlan \in Meeting!Plans : Meeting!PassChanges(newPlan)
    BY <1>3, MeetingPassChangesKeeps
  <1> QED
    BY <1>1, <1>2, <1>3, MeetingPressKeeps DEF Meeting!Next

LEMMA MeetingShows ==
    ASSUME MeetingInv
    PROVE  Meeting!CreditsWithinLimit /\ Meeting!ConversationIsPaidFor
  <1> USE MeetingAssumption, FilesAssumption
  <1>1. Meeting!ConversationIsPaidFor
    BY DEF MeetingInv, MeetingFounded, MeetingCredited, Meeting!ConversationIsPaidFor
  <1>2. ASSUME NEW n \in 1..MaxPasses
        PROVE  Cardinality(Meeting!OfPass(n)) < CreditLimit + (IF n \in overlapped THEN AtOnce ELSE 1)
    <2>1. IsFiniteSet(MeetingSpends(n)) /\ IsFiniteSet(Meeting!OfPass(n))
      BY FS_Subset DEF MeetingInv, MeetingCounted, MeetingSpends, Meeting!OfPass
    <2>2. Cardinality(Meeting!OfPass(n)) \in Nat /\ Cardinality(MeetingSpends(n)) \in Nat
      BY <2>1, FS_CardinalityType
    <2>3. Cardinality(Meeting!OfPass(n)) + Cardinality(MeetingSpends(n))
            <= CreditLimit + (IF n \in overlapped THEN AtOnce - 1 ELSE 0)
      BY DEF MeetingInv, MeetingCounted
    <2> QED
      BY <2>2, <2>3
  <1> QED
    BY <1>1, <1>2, MeetingCardinality DEF Meeting!CreditsWithinLimit

-----------------------------------------------------------------------------
(* Joining (Joining): whoever is in, or is told so, has been in since they pressed the button. *)

GettingRemembered ==
    /\ \A p \in Joiners : Getting!InOne(p) => beenIn[p]
    /\ \A c \in joins : c.heard /\ c.kind = "join" =>
         /\ phone[c.who].busy /\ phone[c.who].page = "collective"
         /\ c.status = "ACTIVE" => beenIn[c.who]
    /\ \A c, d \in joins : c.heard /\ c.kind = "join" /\ d.heard /\ d.kind = "join" /\ c.who = d.who => c = d
    /\ \A c \in joins : c.heard /\ c.kind = "confirm" => phone[c.who].page = "success"
    /\ \A p \in Joiners : phone[p].page = "success" => beenIn[p]
    /\ \A p \in Joiners : phone[p].says = "in" => phone[p].page = "success"

GettingInv == Getting!TypeOK /\ GettingRemembered

LEMMA GettingLatestTyped == ASSUME Getting!TypeOK PROVE Getting!Latest \in 0..MaxRooms
  <1> USE BoundsAssumption
  <1>1. CASE Getting!Open = {}
    BY <1>1 DEF Getting!Latest
  <1>2. CASE Getting!Open # {}
    <2> DEFINE T == {MaxRooms - r : r \in Getting!Open}
    <2>1. T \subseteq Nat /\ T # {}
      BY <1>2 DEF Getting!Open, Getting!Numbers
    <2>2. PICK m \in T : \A n \in T : <<n, m>> \notin OpToRel(<, Nat)
      BY <2>1, WFMin, NatLessThanWellFounded, Zenon
    <2>3. \A n \in T : ~(n < m)
      BY <2>1, <2>2, Zenon DEF OpToRel
    <2>4. PICK r \in Getting!Open : m = MaxRooms - r
      BY <2>2
    <2>5. ASSUME NEW q \in Getting!Open PROVE q <= r
      <3>1. ~(MaxRooms - q < MaxRooms - r)
        BY <2>3, <2>4
      <3>2. q \in 1..MaxRooms /\ r \in 1..MaxRooms
        BY DEF Getting!Open, Getting!Numbers
      <3> QED
        BY <3>1, <3>2
    <2>6. Getting!Latest \in Getting!Open
      BY <1>2, <2>4, <2>5 DEF Getting!Latest
    <2> QED
      BY <2>6 DEF Getting!Open, Getting!Numbers
  <1> QED
    BY <1>1, <1>2

LEMMA GettingPutKeeps ==
    ASSUME GettingInv, NEW p \in Joiners, NEW ms \in [Getting!Numbers -> Getting!Membership],
           Getting!Put(p, ms)
    PROVE  /\ member' \in [Joiners -> [Getting!Numbers -> Getting!Membership]] /\ beenIn' \in [Joiners -> BOOLEAN]
           /\ \A q \in Joiners : (beenIn[q] => beenIn'[q]) /\ (Getting!InOne(q)' => beenIn'[q])
  <1>1. member \in [Joiners -> [Getting!Numbers -> Getting!Membership]] /\ beenIn \in [Joiners -> BOOLEAN]
        /\ \A q \in Joiners : Getting!InOne(q) => beenIn[q]
    BY DEF GettingInv, Getting!TypeOK, GettingRemembered
  <1>2. member' = [member EXCEPT ![p] = ms]
        /\ beenIn' = [beenIn EXCEPT ![p] = @ \/ \E r \in Getting!Numbers : ms[r].status = "ACTIVE"]
    BY DEF Getting!Put
  <1>3. member' \in [Joiners -> [Getting!Numbers -> Getting!Membership]] /\ beenIn' \in [Joiners -> BOOLEAN]
    <2>1. (beenIn[p] \/ \E r \in Getting!Numbers : ms[r].status = "ACTIVE") \in BOOLEAN
      BY <1>1
    <2> QED
      BY <1>1, <1>2, <2>1
  <1>4. ASSUME NEW q \in Joiners
        PROVE  (beenIn[q] => beenIn'[q]) /\ (Getting!InOne(q)' => beenIn'[q])
    <2>1. CASE q = p
      <3>1. beenIn'[q] = (beenIn[p] \/ \E r \in Getting!Numbers : ms[r].status = "ACTIVE") /\ member'[q] = ms
        BY <1>1, <1>2, <2>1
      <3>2. Getting!InOne(q)' => \E r \in Getting!Numbers : ms[r].status = "ACTIVE"
        BY <3>1 DEF Getting!InOne, Getting!Status, Getting!Numbers
      <3> QED
        BY <2>1, <3>1, <3>2
    <2>2. CASE q # p
      BY <1>1, <1>2, <1>4, <2>2 DEF Getting!InOne, Getting!Status
    <2> QED
      BY <2>1, <2>2
  <1> QED
    BY <1>3, <1>4

\* The people and the other data a step leaves typed.
GettingDataOK ==
    /\ rooms \in [Getting!Numbers -> {"none", "ACTIVE", "CLOSED"}]
    /\ member \in [Joiners -> [Getting!Numbers -> Getting!Membership]]
    /\ free \in [Joiners -> {"none", "ACTIVE", "ENDED"}]
    /\ elite \in [Joiners -> {"none", "paying", "here", "elsewhere"}]
    /\ post \in [Joiners -> {"ACTIVE", "PAUSED"}]
    /\ beenIn \in [Joiners -> BOOLEAN]

LEMMA GettingStepKeeps ==
    ASSUME GettingInv, NEW c \in joins, NEW d \in Getting!Call, Getting!Becomes(c, d),
           d.who = c.who, d.heard = c.heard, d.kind = c.kind,
           UNCHANGED <<phone, presses, elsewhere>>, GettingDataOK',
           \A q \in Joiners : (beenIn[q] => beenIn'[q]) /\ (Getting!InOne(q)' => beenIn'[q]),
           d.status = "ACTIVE" => c.status = "ACTIVE" \/ Getting!InOne(c.who)'
    PROVE  GettingInv'
  <1>0. c \in Getting!Call /\ c.who \in Joiners
    BY DEF GettingInv, Getting!TypeOK, Getting!Call
  <1>1. Getting!TypeOK'
    BY DEF GettingInv, Getting!TypeOK, GettingDataOK, Getting!Becomes
  <1>2. GettingRemembered'
    <2>1. \A e \in joins : e \in Getting!Call /\ e.who \in Joiners
      BY DEF GettingInv, Getting!TypeOK, Getting!Call
    <2>2. ASSUME NEW e \in joins', e.heard, e.kind = "join"
          PROVE  /\ phone'[e.who].busy /\ phone'[e.who].page = "collective"
                 /\ e.status = "ACTIVE" => beenIn'[e.who]
      BY <1>0, <2>1, <2>2 DEF Getting!Becomes, GettingInv, GettingRemembered
    <2>3. \A e \in joins' : e.heard /\ e.kind = "confirm" => phone'[e.who].page = "success"
      BY DEF Getting!Becomes, GettingInv, GettingRemembered
    <2>4. \A e, f \in joins' : e.heard /\ e.kind = "join" /\ f.heard /\ f.kind = "join" /\ e.who = f.who => e = f
      BY DEF Getting!Becomes, GettingInv, GettingRemembered
    <2>5. \A p \in Joiners : /\ phone'[p].page = "success" => beenIn'[p]
                             /\ phone'[p].says = "in" => phone'[p].page = "success"
      BY DEF GettingInv, GettingRemembered
    <2> QED
      BY <2>2, <2>3, <2>4, <2>5 DEF GettingRemembered
  <1> QED
    BY <1>1, <1>2 DEF GettingInv

LEMMA GettingReadsKeep ==
    ASSUME GettingInv, NEW c \in joins, NEW d \in Getting!Call, Getting!Becomes(c, d),
           Getting!Reads,
           d.who = c.who, d.heard = c.heard, d.kind = c.kind,
           d.status = "ACTIVE" => c.status = "ACTIVE" \/ Getting!InOne(c.who)
    PROVE  GettingInv'
  <1>1. GettingDataOK'
    BY DEF GettingInv, Getting!TypeOK, GettingDataOK, Getting!Reads, Getting!data
  <1>2. \A q \in Joiners : Getting!InOne(q)' = Getting!InOne(q)
    BY DEF Getting!Reads, Getting!data, Getting!InOne, Getting!Status
  <1>3. \A q \in Joiners : (beenIn[q] => beenIn'[q]) /\ (Getting!InOne(q)' => beenIn'[q])
    BY <1>2 DEF GettingInv, GettingRemembered, Getting!Reads
  <1>4. c.who \in Joiners
    BY DEF GettingInv, Getting!TypeOK, Getting!Call
  <1> QED
    BY <1>1, <1>2, <1>3, <1>4, GettingStepKeeps DEF Getting!Reads

LEMMA GettingGoesTyped ==
    ASSUME GettingInv, NEW c \in joins, NEW step \in Getting!Steps
    PROVE  /\ [c EXCEPT !.step = step] \in Getting!Call
           /\ [c EXCEPT !.step = step].who = c.who /\ [c EXCEPT !.step = step].heard = c.heard
           /\ [c EXCEPT !.step = step].kind = c.kind /\ [c EXCEPT !.step = step].status = c.status
  <1>1. c \in Getting!Call
    BY DEF GettingInv, Getting!TypeOK
  <1> QED
    BY <1>1 DEF Getting!Call

LEMMA GettingAnswersTyped ==
    ASSUME GettingInv, NEW c \in joins, NEW status \in {"none", "PENDING_PAYMENT", "error"}, NEW d,
           d = [c EXCEPT !.step = "answer", !.status = status]
    PROVE  /\ d \in Getting!Call /\ d.who = c.who /\ d.heard = c.heard /\ d.kind = c.kind
           /\ d.status = status
  <1>1. c \in Getting!Call
    BY DEF GettingInv, Getting!TypeOK
  <1> QED
    BY <1>1 DEF Getting!Call, Getting!Steps

LEMMA GettingGoingKeeps ==
    ASSUME GettingInv, NEW c \in joins, Getting!Reads,
           \/ \E step \in Getting!Steps : Getting!Goes(c, step)
           \/ Getting!Throws(c)
    PROVE  GettingInv'
  <1>1. ASSUME NEW step \in Getting!Steps, Getting!Goes(c, step) PROVE GettingInv'
    BY <1>1, GettingGoesTyped, GettingReadsKeep DEF Getting!Goes
  <1>2. CASE Getting!Throws(c)
    <2>1. PICK d : d = [c EXCEPT !.step = "answer", !.status = "error"]
      OBVIOUS
    <2>2. Getting!Becomes(c, d)
      BY <1>2, <2>1 DEF Getting!Throws, Getting!Answers
    <2> QED
      BY <2>1, <2>2, GettingAnswersTyped, GettingReadsKeep
  <1> QED
    BY <1>1, <1>2

LEMMA GettingShownIn ==
    ASSUME GettingInv, NEW p \in Joiners, NEW r
    PROVE  /\ Getting!Shown(p, r) \in {"none", "PENDING_PAYMENT", "ACTIVE"}
           /\ Getting!Shown(p, r) = "ACTIVE" => Getting!InOne(p)
           /\ Getting!Status(p, r) = "ACTIVE" /\ r \in Getting!Numbers => Getting!InOne(p)
  BY DEF Getting!Shown, Getting!LiveIn, Getting!InOne

\* The steps that only look.
LEMMA GettingLooksKeep ==
    ASSUME GettingInv, NEW c \in joins,
           Getting!RequireRoom(c) \/ Getting!RequireActiveIntent(c) \/ Getting!FindLive(c) \/ Getting!FindElsewhere(c)
    PROVE  GettingInv'
  <1>1. Getting!Reads
    BY DEF Getting!RequireRoom, Getting!RequireActiveIntent, Getting!FindLive, Getting!FindElsewhere
  <1>2. (\E step \in Getting!Steps : Getting!Goes(c, step)) \/ Getting!Throws(c)
    BY DEF Getting!RequireRoom, Getting!RequireActiveIntent, Getting!FindLive,
       Getting!FindElsewhere, Getting!Steps
  <1> QED
    BY <1>1, <1>2, GettingGoingKeeps

LEMMA GettingFindKeeps == ASSUME GettingInv, NEW c \in joins, Getting!Find(c) PROVE GettingInv'
  <1>0. c \in Getting!Call
    BY DEF GettingInv, Getting!TypeOK
  <1>1. CASE Getting!Goes(c, "make")
    BY <1>1, GettingGoingKeeps DEF Getting!Find, Getting!Steps
  <1>2. ASSUME NEW r \in Getting!Open, Getting!Becomes(c, [c EXCEPT !.room = r, !.step = "live"])
        PROVE  GettingInv'
    <2>1. PICK d : d = [c EXCEPT !.room = r, !.step = "live"]
      OBVIOUS
    <2>a. r \in 0..MaxRooms
      BY BoundsAssumption DEF Getting!Open, Getting!Numbers
    <2>2. /\ d \in Getting!Call /\ d.who = c.who /\ d.heard = c.heard /\ d.kind = c.kind
          /\ d.status = c.status
      BY <1>0, <2>1, <2>a DEF Getting!Call, Getting!Steps
    <2> QED
      BY <1>2, <2>1, <2>2, GettingReadsKeep DEF Getting!Find
  <1> QED
    BY <1>1, <1>2 DEF Getting!Find

LEMMA GettingMakeKeeps == ASSUME GettingInv, NEW c \in joins, Getting!Make(c) PROVE GettingInv'
  <1>0. c \in Getting!Call
    BY DEF GettingInv, Getting!TypeOK
  <1>1. PICK r \in Getting!Numbers : /\ rooms' = [rooms EXCEPT ![r] = "ACTIVE"]
                                     /\ Getting!Becomes(c, [c EXCEPT !.room = r, !.step = "live"])
    BY DEF Getting!Make
  <1>2. PICK d : d = [c EXCEPT !.room = r, !.step = "live"]
    OBVIOUS
  <1>a. r \in 0..MaxRooms
    BY BoundsAssumption DEF Getting!Numbers
  <1>3. /\ d \in Getting!Call /\ d.who = c.who /\ d.heard = c.heard /\ d.kind = c.kind
        /\ d.status = c.status
    BY <1>0, <1>2, <1>a DEF Getting!Call, Getting!Steps
  <1>4. UNCHANGED <<member, free, elite, post, phone, presses, elsewhere, beenIn>>
    BY DEF Getting!Make
  <1>5. GettingDataOK'
    BY <1>1, <1>4 DEF GettingInv, Getting!TypeOK, GettingDataOK
  <1>6. \A q \in Joiners : (beenIn[q] => beenIn'[q]) /\ (Getting!InOne(q)' => beenIn'[q])
    BY <1>4 DEF GettingInv, GettingRemembered, Getting!InOne, Getting!Status
  <1> QED
    BY <1>1, <1>2, <1>3, <1>4, <1>5, <1>6, GettingStepKeeps

\* A step that writes the person's memberships.
LEMMA GettingWritesKeep ==
    ASSUME GettingInv, NEW c \in joins, NEW d \in Getting!Call, Getting!Becomes(c, d),
           d.who = c.who, d.heard = c.heard, d.kind = c.kind, d.status # "ACTIVE" \/ d.status = c.status,
           NEW ms \in [Getting!Numbers -> Getting!Membership], Getting!Put(c.who, ms),
           free' \in [Joiners -> {"none", "ACTIVE", "ENDED"}],
           UNCHANGED <<rooms, elite, post, phone, presses, elsewhere>>
    PROVE  GettingInv'
  <1>1. c.who \in Joiners
    BY DEF GettingInv, Getting!TypeOK, Getting!Call
  <1>2. GettingDataOK' /\ \A q \in Joiners : (beenIn[q] => beenIn'[q]) /\ (Getting!InOne(q)' => beenIn'[q])
    BY <1>1, GettingPutKeeps DEF GettingInv, Getting!TypeOK, GettingDataOK
  <1> QED
    BY <1>2, GettingStepKeeps

LEMMA GettingMembersTyped ==
    ASSUME GettingInv, NEW p \in Joiners, NEW r \in Getting!Numbers
    PROVE  /\ \A m \in Getting!Membership : [member[p] EXCEPT ![r] = m] \in [Getting!Numbers -> Getting!Membership]
           /\ [member[p] EXCEPT ![r].status = "LEFT"] \in [Getting!Numbers -> Getting!Membership]
  <1>1. member[p] \in [Getting!Numbers -> Getting!Membership] /\ member[p][r] \in Getting!Membership
    BY DEF GettingInv, Getting!TypeOK
  <1>2. [member[p][r] EXCEPT !.status = "LEFT"] \in Getting!Membership
    BY <1>1 DEF Getting!Membership
  <1>3. [member[p] EXCEPT ![r].status = "LEFT"] = [member[p] EXCEPT ![r] = [member[p][r] EXCEPT !.status = "LEFT"]]
    BY <1>1
  <1> QED
    BY <1>1, <1>2, <1>3

LEMMA GettingInsertKeeps == ASSUME GettingInv, NEW c \in joins, Getting!Insert(c) PROVE GettingInv'
  <1>0. /\ c \in Getting!Call /\ c.who \in Joiners
        /\ UNCHANGED <<rooms, free, elite, post, phone, presses, elsewhere>>
    BY DEF GettingInv, Getting!TypeOK, Getting!Call, Getting!Insert
  <1>1. CASE c.room \in Getting!LiveIn(c.who)
    BY <1>0, <1>1, GettingGoingKeeps DEF Getting!Insert, Getting!Reads, Getting!data
  <1>2. CASE c.room \notin Getting!LiveIn(c.who)
    <2>1. /\ Getting!Put(c.who, [member[c.who] EXCEPT ![c.room] = Getting!Pending])
          /\ Getting!Becomes(c, [c EXCEPT !.step = "dto"])
      BY <1>2 DEF Getting!Insert, Getting!Goes
    <2>2. [member[c.who] EXCEPT ![c.room] = Getting!Pending] \in [Getting!Numbers -> Getting!Membership]
      BY <1>0 DEF GettingInv, Getting!TypeOK, Getting!Membership, Getting!Pending
    <2>3. free' \in [Joiners -> {"none", "ACTIVE", "ENDED"}]
      BY <1>0 DEF GettingInv, Getting!TypeOK
    <2>4. "dto" \in Getting!Steps
      BY DEF Getting!Steps
    <2>5. PICK ms \in [Getting!Numbers -> Getting!Membership] : Getting!Put(c.who, ms)
      BY <2>1, <2>2
    <2>6. PICK d : Getting!Becomes(c, d) /\ d = [c EXCEPT !.step = "dto"]
      BY <2>1
    <2> QED
      BY <1>0, <2>3, <2>4, <2>5, <2>6, GettingGoesTyped, GettingWritesKeep
  <1> QED
    BY <1>1, <1>2

LEMMA GettingReadDtoKeeps ==
    ASSUME GettingInv, NEW c \in joins, Getting!ReadDto(c)
    PROVE  GettingInv'
  <1>0. c \in Getting!Call /\ c.who \in Joiners
    BY DEF GettingInv, Getting!TypeOK, Getting!Call
  <1>1. PICK d : d = [c EXCEPT !.status = Getting!Shown(c.who, c.room),
                               !.step = IF Getting!Shown(c.who, c.room) = "PENDING_PAYMENT" THEN "elite" ELSE "answer"]
    OBVIOUS
  <1>2. Getting!Shown(c.who, c.room) \in {"none", "PENDING_PAYMENT", "ACTIVE"}
        /\ (Getting!Shown(c.who, c.room) = "ACTIVE" => Getting!InOne(c.who))
    BY <1>0, GettingShownIn
  <1>3. /\ d \in Getting!Call /\ d.who = c.who /\ d.heard = c.heard /\ d.kind = c.kind
        /\ d.status = Getting!Shown(c.who, c.room)
    BY <1>0, <1>1, <1>2 DEF Getting!Call, Getting!Steps
  <1>4. Getting!Becomes(c, d) /\ Getting!Reads
    BY <1>1 DEF Getting!ReadDto
  <1> QED
    BY <1>2, <1>3, <1>4, GettingReadsKeep

LEMMA GettingJoinWithEliteKeeps ==
    ASSUME GettingInv, NEW c \in joins, Getting!JoinWithElite(c)
    PROVE  GettingInv'
  <1>0. /\ c \in Getting!Call /\ c.who \in Joiners
        /\ UNCHANGED <<rooms, free, elite, post, phone, presses, elsewhere>>
    BY DEF GettingInv, Getting!TypeOK, Getting!Call, Getting!JoinWithElite
  <1>s. "get" \in Getting!Steps /\ "free" \in Getting!Steps
    BY DEF Getting!Steps
  <1> DEFINE may == Getting!Status(c.who, c.room) = "PENDING_PAYMENT" /\ Getting!HasElite(c.who)
  <1>1. CASE ~may
    <2>1. Getting!Goes(c, "free") /\ Getting!Reads
      BY <1>0, <1>1 DEF Getting!JoinWithElite, Getting!Reads, Getting!data
    <2> QED
      BY <1>s, <2>1, GettingGoingKeeps
  <1>2. CASE may
    <2>1. Getting!Put(c.who, [member[c.who] EXCEPT ![c.room] = [status |-> "ACTIVE", on |-> "ELITE"]])
          /\ Getting!Becomes(c, [c EXCEPT !.step = "get"])
      BY <1>2 DEF Getting!JoinWithElite, Getting!Goes
    <2>2. [member[c.who] EXCEPT ![c.room] = [status |-> "ACTIVE", on |-> "ELITE"]] \in [Getting!Numbers -> Getting!Membership]
      BY <1>0 DEF GettingInv, Getting!TypeOK, Getting!Membership
    <2>3. free' \in [Joiners -> {"none", "ACTIVE", "ENDED"}]
      BY <1>0 DEF GettingInv, Getting!TypeOK
    <2>5. PICK ms \in [Getting!Numbers -> Getting!Membership] : Getting!Put(c.who, ms)
      BY <2>1, <2>2
    <2>6. PICK d : Getting!Becomes(c, d) /\ d = [c EXCEPT !.step = "get"]
      BY <2>1
    <2> QED
      BY <1>0, <1>s, <2>3, <2>5, <2>6, GettingGoesTyped, GettingWritesKeep
  <1> QED
    BY <1>1, <1>2

LEMMA GettingStartFreePassKeeps ==
    ASSUME GettingInv, NEW c \in joins, Getting!StartFreePass(c)
    PROVE  GettingInv'
  <1>0. /\ c \in Getting!Call /\ c.who \in Joiners
        /\ UNCHANGED <<rooms, elite, post, phone, presses, elsewhere>>
    BY DEF GettingInv, Getting!TypeOK, Getting!Call, Getting!StartFreePass
  <1>s. "get" \in Getting!Steps
    BY DEF Getting!Steps
  <1>1. CASE ~Getting!MayStart(c)
    <2>1. PICK d : d = [c EXCEPT !.step = "answer", !.status = "PENDING_PAYMENT"]
      OBVIOUS
    <2>2. Getting!Becomes(c, d) /\ Getting!Reads
      BY <1>0, <1>1, <2>1 DEF Getting!StartFreePass, Getting!Answers, Getting!Reads, Getting!data
    <2> QED
      BY <2>1, <2>2, GettingAnswersTyped, GettingReadsKeep
  <1>2. CASE Getting!MayStart(c)
    <2>1. /\ Getting!Put(c.who, [member[c.who] EXCEPT ![c.room] = [status |-> "ACTIVE", on |-> "FREE"]])
          /\ Getting!Becomes(c, [c EXCEPT !.step = "get"])
          /\ free' = [free EXCEPT ![c.who] = "ACTIVE"]
      BY <1>2 DEF Getting!StartFreePass, Getting!Goes
    <2>2. [member[c.who] EXCEPT ![c.room] = [status |-> "ACTIVE", on |-> "FREE"]] \in [Getting!Numbers -> Getting!Membership]
      BY <1>0 DEF GettingInv, Getting!TypeOK, Getting!Membership
    <2>3. free' \in [Joiners -> {"none", "ACTIVE", "ENDED"}]
      BY <1>0, <2>1 DEF GettingInv, Getting!TypeOK
    <2>5. PICK ms \in [Getting!Numbers -> Getting!Membership] : Getting!Put(c.who, ms)
      BY <2>1, <2>2
    <2>6. PICK d : Getting!Becomes(c, d) /\ d = [c EXCEPT !.step = "get"]
      BY <2>1
    <2> QED
      BY <1>0, <1>s, <2>3, <2>5, <2>6, GettingGoesTyped, GettingWritesKeep
  <1> QED
    BY <1>1, <1>2

LEMMA GettingGetKeeps == ASSUME GettingInv, NEW c \in joins, Getting!Get(c) PROVE GettingInv'
  <1>0. c \in Getting!Call /\ c.who \in Joiners
    BY DEF GettingInv, Getting!TypeOK, Getting!Call
  <1>1. PICK d : d = [c EXCEPT !.step = "answer", !.status = Getting!Shown(c.who, c.room),
                               !.readOnly = Getting!Status(c.who, c.room) = "EXPIRED"]
    OBVIOUS
  <1>2. Getting!Shown(c.who, c.room) \in {"none", "PENDING_PAYMENT", "ACTIVE"}
        /\ (Getting!Shown(c.who, c.room) = "ACTIVE" => Getting!InOne(c.who))
    BY <1>0, GettingShownIn
  <1>3. /\ d \in Getting!Call /\ d.who = c.who /\ d.heard = c.heard /\ d.kind = c.kind
        /\ d.status = Getting!Shown(c.who, c.room)
    BY <1>0, <1>1, <1>2 DEF Getting!Call, Getting!Steps
  <1>4. Getting!Becomes(c, d) /\ Getting!Reads
    BY <1>1 DEF Getting!Get
  <1> QED
    BY <1>2, <1>3, <1>4, GettingReadsKeep

LEMMA GettingLeaveKeeps == ASSUME GettingInv, NEW c \in joins, Getting!Leave(c) PROVE GettingInv'
  <1>0. /\ c \in Getting!Call /\ c.who \in Joiners
        /\ UNCHANGED <<rooms, free, elite, post, phone, presses, elsewhere>>
    BY DEF GettingInv, Getting!TypeOK, Getting!Call, Getting!Leave
  <1>1. CASE c.room \notin Getting!LiveIn(c.who)
    BY <1>0, <1>1, GettingGoingKeeps DEF Getting!Leave, Getting!Reads, Getting!data
  <1>2. CASE c.room \in Getting!LiveIn(c.who)
    <2>1. PICK d : d = [c EXCEPT !.step = "answer", !.status = "none"]
      OBVIOUS
    <2>2. /\ Getting!Put(c.who, [member[c.who] EXCEPT ![c.room].status = "LEFT"])
          /\ Getting!Becomes(c, d)
      BY <1>2, <2>1 DEF Getting!Leave, Getting!Answers
    <2>3. [member[c.who] EXCEPT ![c.room].status = "LEFT"] \in [Getting!Numbers -> Getting!Membership]
      BY <1>0, <1>2, GettingMembersTyped DEF Getting!LiveIn
    <2>4. free' \in [Joiners -> {"none", "ACTIVE", "ENDED"}]
      BY <1>0 DEF GettingInv, Getting!TypeOK
    <2>5. PICK ms \in [Getting!Numbers -> Getting!Membership] : Getting!Put(c.who, ms)
      BY <2>2, <2>3
    <2> QED
      BY <1>0, <2>1, <2>2, <2>4, <2>5, GettingAnswersTyped, GettingWritesKeep
  <1> QED
    BY <1>1, <1>2

LEMMA GettingReadIntentKeeps ==
    ASSUME GettingInv, NEW c \in joins, Getting!ReadIntent(c)
    PROVE  GettingInv'
  <1>0. c \in Getting!Call /\ c.who \in Joiners /\ Getting!Reads
    BY DEF GettingInv, Getting!TypeOK, Getting!Call, Getting!ReadIntent
  <1>1. CASE c.kind = "load"
    <2>1. PICK d : d = [c EXCEPT !.step = "list", !.free = free[c.who] = "none",
                                 !.post = post[c.who], !.joined = Getting!InOne(c.who)]
      OBVIOUS
    <2>2. post[c.who] \in {"ACTIVE", "PAUSED"} /\ Getting!InOne(c.who) \in BOOLEAN
      BY <1>0 DEF GettingInv, Getting!TypeOK, Getting!InOne
    <2>3. /\ d \in Getting!Call /\ d.who = c.who /\ d.heard = c.heard /\ d.kind = c.kind
          /\ d.status = c.status
      BY <1>0, <2>1, <2>2 DEF Getting!Call, Getting!Steps
    <2>4. Getting!Becomes(c, d)
      BY <1>1, <2>1 DEF Getting!ReadIntent
    <2> QED
      BY <1>0, <2>3, <2>4, GettingReadsKeep
  <1>2. CASE c.kind # "load"
    <2>1. PICK r \in (IF Getting!LiveIn(c.who) = {} THEN {0} ELSE Getting!LiveIn(c.who)) :
            Getting!Becomes(c, [c EXCEPT !.step = "answer", !.active = Getting!PassActive(c.who), !.room = r])
      BY <1>2 DEF Getting!ReadIntent
    <2>2. PICK d : d = [c EXCEPT !.step = "answer", !.active = Getting!PassActive(c.who), !.room = r]
      OBVIOUS
    <2>3. Getting!PassActive(c.who) \in BOOLEAN /\ r \in 0..MaxRooms
      BY <2>1, BoundsAssumption DEF Getting!PassActive, Getting!LiveIn, Getting!Numbers
    <2>4. /\ d \in Getting!Call /\ d.who = c.who /\ d.heard = c.heard /\ d.kind = c.kind
          /\ d.status = c.status
      BY <1>0, <2>2, <2>3 DEF Getting!Call, Getting!Steps
    <2> QED
      BY <1>0, <2>1, <2>2, <2>4, GettingReadsKeep
  <1> QED
    BY <1>1, <1>2

LEMMA GettingListKeeps == ASSUME GettingInv, NEW c \in joins, Getting!List(c) PROVE GettingInv'
  <1>0. c \in Getting!Call /\ c.who \in Joiners /\ Getting!Reads
    BY DEF GettingInv, Getting!TypeOK, Getting!Call, Getting!List
  <1>1. CASE c.joined /\ ~Getting!InOne(c.who)
    BY <1>0, <1>1, GettingGoingKeeps DEF Getting!List
  <1>2. CASE ~(c.joined /\ ~Getting!InOne(c.who))
    <2>1. PICK d : d = [c EXCEPT !.step = "answer", !.room = Getting!Latest, !.joined = FALSE,
                                 !.status = Getting!Shown(c.who, Getting!Latest)]
      OBVIOUS
    <2>2. /\ Getting!Latest \in 0..MaxRooms
          /\ Getting!Shown(c.who, Getting!Latest) \in {"none", "PENDING_PAYMENT", "ACTIVE"}
          /\ (Getting!Shown(c.who, Getting!Latest) = "ACTIVE" => Getting!InOne(c.who))
      BY <1>0, GettingShownIn, GettingLatestTyped DEF GettingInv
    <2>3. /\ d \in Getting!Call /\ d.who = c.who /\ d.heard = c.heard /\ d.kind = c.kind
          /\ d.status = Getting!Shown(c.who, Getting!Latest)
      BY <1>0, <2>1, <2>2 DEF Getting!Call, Getting!Steps
    <2>4. Getting!Becomes(c, d)
      BY <1>2, <2>1 DEF Getting!List
    <2> QED
      BY <1>0, <2>2, <2>3, <2>4, GettingReadsKeep
  <1> QED
    BY <1>1, <1>2

LEMMA GettingServerKeeps == ASSUME GettingInv, NEW c \in joins, Getting!Step(c) PROVE GettingInv'
  BY GettingLooksKeep, GettingFindKeeps, GettingMakeKeeps, GettingInsertKeeps,
     GettingReadDtoKeeps, GettingJoinWithEliteKeeps,
     GettingStartFreePassKeeps, GettingGetKeeps, GettingLeaveKeeps, GettingReadIntentKeeps, GettingListKeeps DEF Getting!Step

\* The steps of the phones: only the requests of the person, and the screen, change.
LEMMA GettingPhoneTyped ==
    ASSUME GettingInv, NEW p \in Joiners, NEW s \in Getting!Screen, Getting!Set(p, s),
           joins' \subseteq Getting!Call,
           UNCHANGED <<Getting!data, elsewhere>>, presses' \in 0..MaxPresses, beenIn' \in [Joiners -> BOOLEAN]
    PROVE  Getting!TypeOK'
  BY DEF GettingInv, Getting!TypeOK, Getting!Set, Getting!data

LEMMA GettingSetOthers ==
    ASSUME GettingInv, NEW p \in Joiners, NEW s, Getting!Set(p, s)
    PROVE  phone'[p] = s /\ \A q \in Joiners \ {p} : phone'[q] = phone[q]
  BY DEF GettingInv, Getting!TypeOK, Getting!Set

LEMMA GettingInOnesSame == ASSUME UNCHANGED member PROVE \A q : Getting!InOne(q)' = Getting!InOne(q)
  BY DEF Getting!InOne, Getting!Status

LEMMA GettingAskTyped ==
    ASSUME NEW p \in Joiners, NEW kind \in Getting!Kinds, NEW step \in Getting!Steps,
           NEW r \in 0..MaxRooms
    PROVE  /\ Getting!Ask(p, kind, step, r) \in Getting!Call
           /\ Getting!Ask(p, kind, step, r).who = p /\ Getting!Ask(p, kind, step, r).heard
           /\ Getting!Ask(p, kind, step, r).kind = kind
           /\ Getting!Ask(p, kind, step, r).status = "none"
  BY DEF Getting!Ask, Getting!Call

LEMMA GettingUnheardTyped ==
    ASSUME GettingInv, NEW p \in Joiners
    PROVE  Getting!Unheard(p) \subseteq Getting!Call /\ \A c \in Getting!Unheard(p) : ~c.heard
  <1>1. ASSUME NEW e \in Getting!Unheard(p) PROVE e \in Getting!Call /\ ~e.heard
    <2>1. PICK c \in joins : e = [c EXCEPT !.heard = FALSE]
      BY DEF Getting!Unheard
    <2>2. c \in Getting!Call
      BY DEF GettingInv, Getting!TypeOK
    <2> QED
      BY <2>1, <2>2 DEF Getting!Call
  <1> QED
    BY <1>1

\* A screen is left: what was heard for it is no longer.
LEMMA GettingTurnKeeps ==
    ASSUME GettingInv, NEW p \in Joiners, NEW s \in Getting!Screen, Getting!Set(p, s),
           NEW old \in SUBSET Getting!Unheard(p),
           NEW queries \in SUBSET Getting!Call, joins' = Getting!Others(p) \cup old \cup queries,
           \A a \in queries : a.who = p /\ a.kind # "join" /\ (a.kind = "confirm" => s.page = "success"),
           s.page = "success" => beenIn[p], s.says # "in",
           UNCHANGED <<Getting!data, elsewhere, presses, beenIn>>
    PROVE  GettingInv'
  <1>0. phone'[p] = s /\ \A q \in Joiners \ {p} : phone'[q] = phone[q]
    BY GettingSetOthers
  <1>1. old \subseteq Getting!Call /\ \A c \in old : ~c.heard
    BY GettingUnheardTyped
  <1>2. \A c \in Getting!Others(p) : c \in joins /\ c \in Getting!Call /\ c.who \in Joiners \ {p}
    BY DEF Getting!Others, GettingInv, Getting!TypeOK, Getting!Call
  <1>3. Getting!TypeOK'
    <2>1. /\ presses' \in 0..MaxPresses /\ beenIn' \in [Joiners -> BOOLEAN]
          /\ joins' \subseteq Getting!Call
      BY <1>1, <1>2 DEF GettingInv, Getting!TypeOK
    <2> QED
      BY <2>1, GettingPhoneTyped
  <1>4. GettingRemembered'
    <2>1. \A q \in Joiners : Getting!InOne(q)' => beenIn'[q]
      BY GettingInOnesSame DEF Getting!data, GettingInv, GettingRemembered
    <2>2. \A c \in joins' : c.heard /\ c.kind = "join" => c \in Getting!Others(p)
      BY <1>1
    <2>3. \A c \in joins' : c.heard /\ c.kind = "join" =>
            /\ phone'[c.who].busy /\ phone'[c.who].page = "collective"
            /\ c.status = "ACTIVE" => beenIn'[c.who]
      BY <1>0, <1>2, <2>2 DEF GettingInv, GettingRemembered
    <2>4. \A c, d \in joins' :
            c.heard /\ c.kind = "join" /\ d.heard /\ d.kind = "join" /\ c.who = d.who => c = d
      BY <1>2, <2>2 DEF GettingInv, GettingRemembered
    <2>5. \A c \in joins' : c.heard /\ c.kind = "confirm" => phone'[c.who].page = "success"
      BY <1>0, <1>1, <1>2 DEF GettingInv, GettingRemembered
    <2>6. \A q \in Joiners : /\ phone'[q].page = "success" => beenIn'[q]
                             /\ phone'[q].says = "in" => phone'[q].page = "success"
      BY <1>0 DEF GettingInv, GettingRemembered
    <2> QED
      BY <2>1, <2>3, <2>4, <2>5, <2>6 DEF GettingRemembered
  <1> QED
    BY <1>3, <1>4 DEF GettingInv

\* A screen stays.  Its buttons may be freed once no request to join is heard for it.
LEMMA GettingStayKeeps ==
    ASSUME GettingInv, NEW p \in Joiners, NEW s \in Getting!Screen, Getting!Set(p, s),
           joins' \subseteq Getting!Call,
           s.page = phone[p].page, s.says = "in" => s.page = "success",
           \A c \in joins' : c.heard /\ c.kind \in {"join", "confirm"} => c \in joins,
           s.busy = phone[p].busy \/ (\A c \in joins' : ~(c.heard /\ c.kind = "join" /\ c.who = p)),
           UNCHANGED <<Getting!data, elsewhere, beenIn>>, presses' \in 0..MaxPresses
    PROVE  GettingInv'
  <1>0. phone'[p] = s /\ \A q \in Joiners \ {p} : phone'[q] = phone[q]
    BY GettingSetOthers
  <1>1. \A c \in joins : c.who \in Joiners
    BY DEF GettingInv, Getting!TypeOK, Getting!Call
  <1>3. Getting!TypeOK'
    <2>1. beenIn' \in [Joiners -> BOOLEAN]
      BY DEF GettingInv, Getting!TypeOK
    <2> QED
      BY <2>1, GettingPhoneTyped
  <1>4. GettingRemembered'
    <2>1. \A q \in Joiners : Getting!InOne(q)' => beenIn'[q]
      BY GettingInOnesSame DEF Getting!data, GettingInv, GettingRemembered
    <2>3. ASSUME NEW c \in joins', c.heard, c.kind = "join"
          PROVE  /\ phone'[c.who].busy /\ phone'[c.who].page = "collective"
                 /\ c.status = "ACTIVE" => beenIn'[c.who]
      <3>1. c \in joins /\ c.who \in Joiners
        BY <1>1, <2>3
      <3>2. /\ phone[c.who].busy /\ phone[c.who].page = "collective"
            /\ c.status = "ACTIVE" => beenIn[c.who]
        BY <2>3, <3>1 DEF GettingInv, GettingRemembered
      <3> QED
        BY <1>0, <2>3, <3>1, <3>2
    <2>4. \A c, d \in joins' :
            c.heard /\ c.kind = "join" /\ d.heard /\ d.kind = "join" /\ c.who = d.who => c = d
      BY DEF GettingInv, GettingRemembered
    <2>5. \A c \in joins' : c.heard /\ c.kind = "confirm" => phone'[c.who].page = "success"
      BY <1>0, <1>1 DEF GettingInv, GettingRemembered
    <2>6. \A q \in Joiners : /\ phone'[q].page = "success" => beenIn'[q]
                             /\ phone'[q].says = "in" => phone'[q].page = "success"
      BY <1>0 DEF GettingInv, GettingRemembered
    <2> QED
      BY <2>1, <2>3, <2>4, <2>5, <2>6 DEF GettingRemembered
  <1> QED
    BY <1>3, <1>4 DEF GettingInv

LEMMA GettingFreshTyped ==
    ASSUME GettingInv, NEW p \in Joiners, NEW pg \in {"away", "collective", "success", "hub"},
           NEW r \in 0..MaxRooms
    PROVE  /\ Getting!Fresh(p, pg, r) \in Getting!Screen /\ Getting!Fresh(p, pg, r).page = pg
           /\ Getting!Fresh(p, pg, r).says = "nothing"
  <1>1. phone[p].elite \in BOOLEAN
    BY DEF GettingInv, Getting!TypeOK, Getting!Screen
  <1> QED
    BY <1>1 DEF Getting!Fresh, Getting!Screen

LEMMA GettingScreenTyped ==
    ASSUME GettingInv, NEW p \in Joiners
    PROVE  phone[p] \in Getting!Screen /\ phone[p].room \in 0..MaxRooms
  BY DEF GettingInv, Getting!TypeOK, Getting!Screen

LEMMA GettingTurnsKeep ==
    ASSUME GettingInv, NEW p \in Joiners, NEW pg \in {"away", "collective", "hub"},
           NEW r \in 0..MaxRooms,
           NEW queries \in SUBSET Getting!Call, Getting!Turns(p, pg, r, queries),
           \A a \in queries : a.who = p /\ a.kind \notin {"join", "confirm"},
           UNCHANGED <<Getting!data, elsewhere, presses, beenIn>>
    PROVE  GettingInv'
  <1>1. PICK s : s = Getting!Fresh(p, pg, r)
    OBVIOUS
  <1>2. s \in Getting!Screen /\ s.page = pg /\ s.says = "nothing" /\ Getting!Set(p, s)
    BY <1>1, GettingFreshTyped DEF Getting!Turns
  <1>3. PICK old \in SUBSET Getting!Unheard(p) : joins' = Getting!Others(p) \cup old \cup queries
    BY DEF Getting!Turns
  <1> QED
    BY <1>2, <1>3, GettingTurnKeeps

LEMMA GettingScreensKeep ==
    ASSUME GettingInv, NEW p \in Joiners,
           Getting!OpenCollective(p) \/ Getting!OpenHub(p) \/ Getting!Close(p)
    PROVE  GettingInv'
  <1> USE BoundsAssumption
  <1>0. UNCHANGED <<Getting!data, elsewhere, presses, beenIn>> /\ 0 \in 0..MaxRooms
    BY DEF Getting!OpenCollective, Getting!OpenHub, Getting!Close, Getting!OnPhone
  <1>1. CASE Getting!OpenCollective(p)
    <2>1. PICK queries : queries = {Getting!Ask(p, "load", "intent", 0)}
      OBVIOUS
    <2>2. queries \in SUBSET Getting!Call /\ \A a \in queries : a.who = p /\ a.kind = "load"
      BY <1>0, <2>1, GettingAskTyped DEF Getting!Kinds, Getting!Steps
    <2>3. Getting!Turns(p, "collective", 0, queries)
      BY <1>1, <2>1 DEF Getting!OpenCollective
    <2> QED
      BY <1>0, <2>2, <2>3, GettingTurnsKeep
  <1>2. CASE Getting!OpenHub(p)
    <2>0. PICK r : r = phone[p].room
      OBVIOUS
    <2>1. PICK queries : queries = {Getting!Ask(p, "hub", "get", r)}
      OBVIOUS
    <2>2. r \in 0..MaxRooms
      BY <2>0, GettingScreenTyped
    <2>3. queries \in SUBSET Getting!Call /\ \A a \in queries : a.who = p /\ a.kind = "hub"
      BY <2>1, <2>2, GettingAskTyped DEF Getting!Kinds, Getting!Steps
    <2>4. Getting!Turns(p, "hub", r, queries)
      BY <1>2, <2>0, <2>1 DEF Getting!OpenHub
    <2> QED
      BY <1>0, <2>2, <2>3, <2>4, GettingTurnsKeep
  <1>3. CASE Getting!Close(p)
    <2>1. Getting!Turns(p, "away", 0, {})
      BY <1>3 DEF Getting!Close
    <2> QED
      BY <1>0, <2>1, GettingTurnsKeep
  <1> QED
    BY <1>1, <1>2, <1>3

LEMMA GettingPressTyped == ASSUME GettingInv, Getting!Press PROVE presses' \in 0..MaxPresses
  BY BoundsAssumption DEF GettingInv, Getting!TypeOK, Getting!Press

LEMMA GettingSameScreen ==
    ASSUME GettingInv, NEW p \in Joiners, UNCHANGED phone PROVE Getting!Set(p, phone[p])
  BY DEF GettingInv, Getting!TypeOK, Getting!Set

LEMMA GettingButtonsKeep ==
    ASSUME GettingInv, NEW p \in Joiners, Getting!Reload(p) \/ Getting!PressLeave(p)
    PROVE  GettingInv'
  <1> USE BoundsAssumption
  <1>0. UNCHANGED <<Getting!data, elsewhere, beenIn, phone>> /\ presses' \in 0..MaxPresses
    BY GettingPressTyped DEF Getting!Reload, Getting!PressLeave, Getting!OnPhone
  <1>1. PICK s : s = phone[p]
    OBVIOUS
  <1>2. s \in Getting!Screen /\ s.room \in 0..MaxRooms /\ (s.says = "in" => s.page = "success") /\ Getting!Set(p, s)
    BY <1>0, <1>1, GettingScreenTyped, GettingSameScreen DEF GettingInv, GettingRemembered
  <1>3. \E a \in Getting!Call : joins' = joins \cup {a} /\ a.kind \notin {"join", "confirm"}
    <2>1. CASE Getting!Reload(p)
      <3>1. /\ Getting!Ask(p, "load", "intent", 0) \in Getting!Call
            /\ Getting!Ask(p, "load", "intent", 0).kind = "load"
        BY GettingAskTyped DEF Getting!Kinds, Getting!Steps
      <3> QED
        BY <2>1, <3>1 DEF Getting!Reload
    <2>2. CASE Getting!PressLeave(p)
      <3>1. /\ Getting!Ask(p, "leave", "live", s.room) \in Getting!Call
            /\ Getting!Ask(p, "leave", "live", s.room).kind = "leave"
        BY <1>2, GettingAskTyped DEF Getting!Kinds, Getting!Steps
      <3> QED
        BY <1>1, <2>2, <3>1 DEF Getting!PressLeave
    <2> QED
      BY <2>1, <2>2
  <1>4. joins' \subseteq Getting!Call /\ \A c \in joins' : c.heard /\ c.kind \in {"join", "confirm"} => c \in joins
    BY <1>3 DEF GettingInv, Getting!TypeOK
  <1> QED
    BY <1>0, <1>1, <1>2, <1>4, GettingStayKeeps

LEMMA GettingJoinKeeps == ASSUME GettingInv, NEW p \in Joiners, Getting!Join(p) PROVE GettingInv'
  <1> USE BoundsAssumption
  <1>0. UNCHANGED <<Getting!data, elsewhere>> /\ presses' \in 0..MaxPresses
    BY GettingPressTyped DEF Getting!Join, Getting!OnPhone
  <1>1. PICK s : s = [phone[p] EXCEPT !.busy = TRUE]
    OBVIOUS
  <1>2. /\ s \in Getting!Screen /\ Getting!Set(p, s) /\ s.busy /\ s.page = "collective"
        /\ s.says = "nothing"
        /\ phone[p].page = "collective" /\ ~phone[p].busy
    BY <1>1, GettingScreenTyped DEF Getting!Join, Getting!Offered, Getting!At, Getting!Screen
  <1>3. PICK a \in Getting!Call : joins' = joins \cup {a} /\ a.who = p /\ a.status = "none" /\ a.kind = "join"
    <2>1. PICK step \in Getting!Steps : step = IF phone[p].room = 0 THEN "post" ELSE "room"
      BY DEF Getting!Steps
    <2>2. joins' = joins \cup {Getting!Ask(p, "join", step, phone[p].room)}
      BY <2>1 DEF Getting!Join
    <2>3. "join" \in Getting!Kinds /\ phone[p].room \in 0..MaxRooms
      BY GettingScreenTyped DEF Getting!Kinds
    <2> QED
      BY <2>2, <2>3, GettingAskTyped
  <1>4. phone'[p] = s /\ \A q \in Joiners \ {p} : phone'[q] = phone[q]
    BY <1>2, GettingSetOthers
  <1>5. Getting!InOne(p) \in BOOLEAN
    BY DEF Getting!InOne
  <1>6. beenIn' \in [Joiners -> BOOLEAN] /\ beenIn'[p] = Getting!InOne(p)
        /\ \A q \in Joiners \ {p} : beenIn'[q] = beenIn[q]
    BY <1>5 DEF Getting!Join, GettingInv, Getting!TypeOK
  <1>7. Getting!TypeOK'
    <2>1. joins' \subseteq Getting!Call
      BY <1>3 DEF GettingInv, Getting!TypeOK
    <2> QED
      BY <1>0, <1>2, <1>6, <2>1, GettingPhoneTyped
  <1>8. GettingRemembered'
    <2>0. \A c \in joins : c.who \in Joiners
      BY DEF GettingInv, Getting!TypeOK, Getting!Call
    <2>1. \A q \in Joiners : Getting!InOne(q)' => beenIn'[q]
      BY <1>0, <1>6, GettingInOnesSame DEF Getting!data, GettingInv, GettingRemembered
    <2>2. \A c \in joins : c.heard /\ c.kind = "join" => c.who # p
      BY <1>2 DEF GettingInv, GettingRemembered
    <2>3. \A c \in joins' : c.heard /\ c.kind = "join" =>
            /\ phone'[c.who].busy /\ phone'[c.who].page = "collective"
            /\ c.status = "ACTIVE" => beenIn'[c.who]
      BY <1>2, <1>3, <1>4, <1>6, <2>0, <2>2 DEF GettingInv, GettingRemembered
    <2>4. \A c, d \in joins' :
            c.heard /\ c.kind = "join" /\ d.heard /\ d.kind = "join" /\ c.who = d.who => c = d
      BY <1>3, <2>2 DEF GettingInv, GettingRemembered
    <2>5. \A c \in joins' : c.heard /\ c.kind = "confirm" => phone'[c.who].page = "success"
      BY <1>2, <1>3, <1>4, <2>0 DEF GettingInv, GettingRemembered
    <2>6. \A q \in Joiners : /\ phone'[q].page = "success" => beenIn'[q]
                             /\ phone'[q].says = "in" => phone'[q].page = "success"
      BY <1>2, <1>4, <1>6 DEF GettingInv, GettingRemembered
    <2> QED
      BY <2>1, <2>3, <2>4, <2>5, <2>6 DEF GettingRemembered
  <1> QED
    BY <1>7, <1>8 DEF GettingInv

LEMMA GettingDismissKeeps ==
    ASSUME GettingInv, NEW p \in Joiners, Getting!Dismiss(p)
    PROVE  GettingInv'
  <1> USE BoundsAssumption
  <1>0. UNCHANGED <<Getting!data, elsewhere, presses, beenIn>> /\ 0 \in 0..MaxRooms
    BY DEF Getting!Dismiss, Getting!OnPhone
  <1>1. CASE Getting!Turns(p, "away", 0, {})
    BY <1>0, <1>1, GettingTurnsKeep
  <1>2. CASE /\ Getting!Set(p, [phone[p] EXCEPT !.says = "nothing"])
             /\ UNCHANGED joins \/ joins' = joins \cup {Getting!Ask(p, "load", "intent", 0)}
    <2>1. PICK s : s = [phone[p] EXCEPT !.says = "nothing"]
      OBVIOUS
    <2>2. /\ s \in Getting!Screen /\ s.says = "nothing" /\ s.page = phone[p].page
          /\ s.busy = phone[p].busy /\ Getting!Set(p, s)
      BY <1>2, <2>1, GettingScreenTyped DEF Getting!Screen
    <2>3. /\ Getting!Ask(p, "load", "intent", 0) \in Getting!Call
          /\ Getting!Ask(p, "load", "intent", 0).kind = "load"
      BY GettingAskTyped DEF Getting!Kinds, Getting!Steps
    <2>4. joins' \subseteq Getting!Call /\ \A c \in joins' : c.heard /\ c.kind \in {"join", "confirm"} => c \in joins
      BY <1>2, <2>3 DEF GettingInv, Getting!TypeOK
    <2>5. presses' \in 0..MaxPresses
      BY <1>0 DEF GettingInv, Getting!TypeOK
    <2> QED
      BY <1>0, <2>2, <2>4, <2>5, GettingStayKeeps
  <1> QED
    BY <1>1, <1>2 DEF Getting!Dismiss

\* What an answer shows: its screen stays, says "in" only to confirm, and keeps waiting for a
\* request to join that was not answered.
LEMMA GettingToldStays ==
    ASSUME GettingInv, NEW c \in Getting!Call, c.heard,
           c.kind = "confirm" => phone[c.who].page = "success",
           c.kind = "join" => c.status # "ACTIVE", c.kind = "leave" => c.status = "error"
    PROVE  /\ Getting!Told(c) \in Getting!Screen /\ Getting!Told(c).page = phone[c.who].page
           /\ Getting!Told(c).says = "in" => Getting!Told(c).page = "success"
           /\ c.kind # "join" => Getting!Told(c).busy = phone[c.who].busy
  <1>0. phone[c.who] \in Getting!Screen /\ c.who \in Joiners
        /\ (phone[c.who].says = "in" => phone[c.who].page = "success")
    BY GettingScreenTyped DEF Getting!Call, GettingInv, GettingRemembered
  <1>f. /\ c.room \in 0..MaxRooms /\ c.status \in {"none", "PENDING_PAYMENT", "ACTIVE", "error"}
        /\ c.free \in BOOLEAN /\ c.post \in {"ACTIVE", "PAUSED"} /\ c.readOnly \in BOOLEAN
    BY DEF Getting!Call
  <1>k. /\ c.kind \in {"load", "join", "confirm", "hub", "leave"}
        /\ Getting!HasElite(c.who) \in BOOLEAN
    BY DEF Getting!Call, Getting!Kinds, Getting!HasElite
  <1>1. CASE c.kind = "load"
    <2>1. Getting!Told(c) = Getting!Loaded(c)
      BY <1>1 DEF Getting!Told
    <2>2. CASE c.status = "error"
      BY <1>0, <1>1, <2>1, <2>2 DEF Getting!Loaded
    <2>3. CASE c.status # "error"
      <3>1. Getting!Loaded(c) = [phone[c.who] EXCEPT !.loaded = TRUE, !.room = c.room, !.status = c.status,
                                      !.free = c.free, !.post = c.post]
        BY <2>3 DEF Getting!Loaded
      <3>2. c.status \in {"none", "PENDING_PAYMENT", "ACTIVE"}
        BY <1>f, <2>3
      <3>3. /\ Getting!Loaded(c) \in Getting!Screen /\ Getting!Loaded(c).page = phone[c.who].page
            /\ Getting!Loaded(c).says = phone[c.who].says
            /\ Getting!Loaded(c).busy = phone[c.who].busy
        BY <1>0, <1>f, <3>1, <3>2 DEF Getting!Screen
      <3> QED
        BY <1>0, <1>1, <2>1, <3>3
    <2> QED
      BY <2>2, <2>3
  <1>2. CASE c.kind = "join"
    <2>1. Getting!Told(c) = [phone[c.who] EXCEPT !.busy = FALSE,
                                                 !.says = IF c.status = "error" THEN "failed" ELSE "used"]
      BY <1>2 DEF Getting!Told, Getting!Joined
    <2> QED
      BY <1>0, <1>2, <2>1 DEF Getting!Screen
  <1>3. CASE c.kind = "confirm"
    <2>1. Getting!Told(c) = Getting!Confirmed(c)
      BY <1>3 DEF Getting!Told
    <2>2. CASE c.status = "error" \/ ~c.active
      BY <1>0, <1>3, <2>1, <2>2 DEF Getting!Confirmed, Getting!Screen
    <2>3. CASE ~(c.status = "error" \/ ~c.active)
      BY <1>0, <1>k, <1>f, <1>3, <2>1, <2>3 DEF Getting!Confirmed, Getting!Screen
    <2> QED
      BY <2>2, <2>3
  <1>4. CASE c.kind = "hub"
    <2>1. Getting!Told(c) = Getting!Hub(c)
      BY <1>4 DEF Getting!Told
    <2>2. CASE c.status = "error"
      BY <1>0, <1>4, <2>1, <2>2 DEF Getting!Hub
    <2>3. CASE c.status # "error"
      <3>1. Getting!Hub(c) = [phone[c.who] EXCEPT !.loaded = TRUE, !.status = c.status, !.readOnly = c.readOnly]
        BY <2>3 DEF Getting!Hub
      <3>2. c.status \in {"none", "PENDING_PAYMENT", "ACTIVE"}
        BY <1>f, <2>3
      <3>3. /\ Getting!Hub(c) \in Getting!Screen /\ Getting!Hub(c).page = phone[c.who].page
            /\ Getting!Hub(c).says = phone[c.who].says /\ Getting!Hub(c).busy = phone[c.who].busy
        BY <1>0, <1>f, <3>1, <3>2 DEF Getting!Screen
      <3> QED
        BY <1>0, <1>4, <2>1, <3>3
    <2> QED
      BY <2>2, <2>3
  <1>5. CASE c.kind = "leave"
    <2>1. Getting!Told(c) = [phone[c.who] EXCEPT !.says = "failed"]
      BY <1>5 DEF Getting!Told, Getting!Left
    <2> QED
      BY <1>0, <1>5, <2>1 DEF Getting!Screen
  <1> QED
    BY <1>k, <1>1, <1>2, <1>3, <1>4, <1>5

LEMMA GettingLoseKeeps == ASSUME GettingInv, NEW c \in joins, Getting!Lose(c) PROVE GettingInv'
  <1>0. /\ c \in Getting!Call /\ c.who \in Joiners /\ c.heard
        /\ UNCHANGED <<Getting!data, elsewhere, presses, beenIn>>
        /\ (c.kind = "confirm" => phone[c.who].page = "success")
    BY DEF GettingInv, Getting!TypeOK, Getting!Call, Getting!Lose, GettingRemembered,
       Getting!OnPhone
  <1>1. PICK d : d = [c EXCEPT !.status = "error"]
    OBVIOUS
  <1>2. d \in Getting!Call /\ d.who = c.who /\ d.heard /\ d.kind = c.kind /\ d.status = "error"
    BY <1>0, <1>1 DEF Getting!Call
  <1>3. PICK s : s = Getting!Told(d)
    OBVIOUS
  <1>4. /\ s \in Getting!Screen /\ s.page = phone[c.who].page /\ (s.says = "in" => s.page = "success")
        /\ c.kind # "join" => s.busy = phone[c.who].busy
    BY <1>0, <1>2, <1>3, GettingToldStays
  <1>5. Getting!Set(c.who, s)
    BY <1>1, <1>3 DEF Getting!Lose
  <1>6. PICK e : e = [c EXCEPT !.heard = FALSE]
    OBVIOUS
  <1>7. e \in Getting!Call /\ ~e.heard
    BY <1>0, <1>6 DEF Getting!Call
  <1>8. joins' = (joins \ {c}) \cup {e} \/ joins' = joins \ {c}
    BY <1>6 DEF Getting!Lose, Getting!Becomes
  <1>9. joins' \subseteq Getting!Call /\ \A f \in joins' : f.heard => f \in joins \ {c}
    BY <1>7, <1>8 DEF GettingInv, Getting!TypeOK
  <1>10. c.kind = "join" => \A f \in joins' : ~(f.heard /\ f.kind = "join" /\ f.who = c.who)
    BY <1>0, <1>9 DEF GettingInv, GettingRemembered
  <1>11. presses' \in 0..MaxPresses
    BY <1>0 DEF GettingInv, Getting!TypeOK
  <1> QED
    BY <1>0, <1>4, <1>5, <1>9, <1>10, <1>11, GettingStayKeeps

LEMMA GettingAnswerKeeps == ASSUME GettingInv, NEW c \in joins, Getting!Answer(c) PROVE GettingInv'
  <1> USE BoundsAssumption
  <1>0. /\ c \in Getting!Call /\ c.who \in Joiners
        /\ UNCHANGED <<Getting!data, elsewhere, presses, beenIn>>
        /\ (c.heard /\ c.kind = "confirm" => phone[c.who].page = "success")
        /\ (c.heard /\ c.kind = "join" => phone[c.who].page = "collective")
        /\ (c.heard /\ c.kind = "join" /\ c.status = "ACTIVE" => beenIn[c.who])
        /\ 0 \in 0..MaxRooms
    BY DEF GettingInv, Getting!TypeOK, Getting!Call, Getting!Answer, GettingRemembered,
       Getting!OnPhone
  <1>p. PICK p \in Joiners : p = c.who
    BY <1>0
  <1>s. PICK s : s = IF c.heard THEN Getting!Told(c) ELSE phone[p]
    OBVIOUS
  <1>1. /\ Getting!Set(p, s)
        /\ s.page = phone[p].page => joins' = joins \ {c}
        /\ s.page # phone[p].page =>
             joins' = Getting!Others(p) \cup (Getting!Unheard(p) \ {[c EXCEPT !.heard = FALSE]})
                        \cup (IF s.page = "success" THEN {Getting!Ask(p, "confirm", "intent", 0)} ELSE {})
    BY <1>p, <1>s DEF Getting!Answer
  <1>2. presses' \in 0..MaxPresses /\ joins \subseteq Getting!Call
    BY <1>0 DEF GettingInv, Getting!TypeOK
  <1>3. CASE ~c.heard
    <2>1. s = phone[p] /\ s \in Getting!Screen /\ (s.says = "in" => s.page = "success") /\ joins' = joins \ {c}
      BY <1>1, <1>3, <1>s, GettingScreenTyped DEF GettingInv, GettingRemembered
    <2> QED
      BY <1>0, <1>1, <1>2, <2>1, GettingStayKeeps
  <1>4. CASE c.heard /\ (c.kind = "join" => c.status # "ACTIVE") /\ (c.kind = "leave" => c.status = "error")
    <2>1. /\ s \in Getting!Screen /\ s.page = phone[p].page /\ (s.says = "in" => s.page = "success")
          /\ c.kind # "join" => s.busy = phone[p].busy
      BY <1>0, <1>4, <1>p, <1>s, GettingToldStays
    <2>2. joins' = joins \ {c}
      BY <1>1, <2>1
    <2>3. c.kind = "join" => \A f \in joins' : ~(f.heard /\ f.kind = "join" /\ f.who = p)
      BY <1>p, <1>4, <2>2 DEF GettingInv, GettingRemembered
    <2> QED
      BY <1>0, <1>1, <1>2, <2>1, <2>2, <2>3, GettingStayKeeps
  <1>5. CASE c.heard /\ c.kind = "join" /\ c.status = "ACTIVE"
    <2>1. s = Getting!Fresh(p, "success", 0)
      BY <1>5, <1>p, <1>s DEF Getting!Told, Getting!Joined
    <2>2. s \in Getting!Screen /\ s.page = "success" /\ s.says = "nothing"
      BY <1>0, <2>1, GettingFreshTyped
    <2>3. PICK queries : queries = {Getting!Ask(p, "confirm", "intent", 0)}
      OBVIOUS
    <2>4. queries \in SUBSET Getting!Call /\ \A a \in queries : a.who = p /\ a.kind = "confirm"
      BY <1>0, <2>3, GettingAskTyped DEF Getting!Kinds, Getting!Steps
    <2>5. PICK old \in SUBSET Getting!Unheard(p) : joins' = Getting!Others(p) \cup old \cup queries
      BY <1>0, <1>1, <1>5, <1>p, <2>2, <2>3
    <2> QED
      BY <1>0, <1>1, <1>5, <1>p, <2>2, <2>4, <2>5, GettingTurnKeeps
  <1>6. CASE c.heard /\ c.kind = "leave" /\ c.status # "error"
    <2>1. s = Getting!Fresh(p, "away", 0)
      BY <1>6, <1>p, <1>s DEF Getting!Told, Getting!Left
    <2>2. s \in Getting!Screen /\ s.page = "away" /\ s.says = "nothing"
      BY <1>0, <2>1, GettingFreshTyped
    <2>3. CASE phone[p].page # "away"
      <3>1. PICK queries \in SUBSET Getting!Call : queries = {}
        OBVIOUS
      <3>2. PICK old \in SUBSET Getting!Unheard(p) : joins' = Getting!Others(p) \cup old \cup queries
        BY <1>1, <2>2, <2>3, <3>1
      <3> QED
        BY <1>0, <1>1, <2>2, <3>1, <3>2, GettingTurnKeeps
    <2>4. CASE phone[p].page = "away"
      <3>0. joins' = joins \ {c}
        BY <1>1, <2>2, <2>4
      <3>1. \A f \in joins' : ~(f.heard /\ f.kind = "join" /\ f.who = p)
        BY <2>4, <3>0 DEF GettingInv, GettingRemembered
      <3> QED
        BY <1>0, <1>1, <1>2, <2>2, <2>4, <3>1, GettingStayKeeps
    <2> QED
      BY <2>3, <2>4
  <1> QED
    BY <1>3, <1>4, <1>5, <1>6

\* What happens elsewhere changes neither screens nor requests.
LEMMA GettingAwayKeeps ==
    ASSUME GettingInv, Getting!Elsewhere, GettingDataOK',
           \A q \in Joiners : (beenIn[q] => beenIn'[q]) /\ (Getting!InOne(q)' => beenIn'[q])
    PROVE  GettingInv'
  <1>0. UNCHANGED <<phone, joins, presses>> /\ elsewhere' \in 0..MaxChanges
    BY BoundsAssumption DEF Getting!Elsewhere, GettingInv, Getting!TypeOK
  <1>1. Getting!TypeOK'
    BY <1>0 DEF GettingDataOK, GettingInv, Getting!TypeOK
  <1>2. \A c \in joins : c.who \in Joiners
    BY DEF GettingInv, Getting!TypeOK, Getting!Call
  <1>3. GettingRemembered'
    BY <1>0, <1>2 DEF GettingInv, GettingRemembered
  <1> QED
    BY <1>1, <1>3 DEF GettingInv

LEMMA GettingMembersKept ==
    ASSUME GettingInv, UNCHANGED <<member, beenIn>>
    PROVE  \A q \in Joiners : (beenIn[q] => beenIn'[q]) /\ (Getting!InOne(q)' => beenIn'[q])
  BY GettingInOnesSame DEF GettingInv, GettingRemembered

LEMMA GettingElsewhereKeeps ==
    ASSUME GettingInv, NEW p \in Joiners,
           \/ Getting!Pay(p) \/ Getting!PaymentFails(p) \/ Getting!PauseOrResume(p)
           \/ \E where \in {"here", "elsewhere"} : Getting!Activate(p, where)
           \/ \E passPlan \in {"FREE", "ELITE"} : Getting!Expire(p, passPlan)
           \/ \E r \in Getting!Numbers : Getting!LeaveElsewhere(p, r)
    PROVE  GettingInv'
  <1>0. /\ member[p] \in [Getting!Numbers -> Getting!Membership] /\ post[p] \in {"ACTIVE", "PAUSED"}
        /\ GettingDataOK
    BY DEF GettingInv, Getting!TypeOK, GettingDataOK
  <1>1. CASE Getting!Pay(p) \/ Getting!PaymentFails(p) \/ Getting!PauseOrResume(p)
    <2>1. GettingDataOK' /\ Getting!Elsewhere /\ UNCHANGED <<member, beenIn>>
      BY <1>0, <1>1 DEF Getting!Pay, Getting!PaymentFails, Getting!PauseOrResume, GettingDataOK
    <2> QED
      BY <2>1, GettingMembersKept, GettingAwayKeeps
  <1>2. ASSUME NEW where \in {"here", "elsewhere"}, Getting!Activate(p, where) PROVE GettingInv'
    <2>1. PICK ms : ms = [r \in Getting!Numbers |-> IF r \in Getting!LiveIn(p) THEN [status |-> "ACTIVE", on |-> "ELITE"]
                                                    ELSE member[p][r]]
      OBVIOUS
    <2>2. ms \in [Getting!Numbers -> Getting!Membership] /\ Getting!Put(p, ms)
      BY <1>0, <1>2, <2>1 DEF Getting!Activate, Getting!Membership
    <2>3. /\ member' \in [Joiners -> [Getting!Numbers -> Getting!Membership]] /\ beenIn' \in [Joiners -> BOOLEAN]
          /\ \A q \in Joiners : (beenIn[q] => beenIn'[q]) /\ (Getting!InOne(q)' => beenIn'[q])
      BY <2>2, GettingPutKeeps
    <2>4. /\ free' = [free EXCEPT ![p] = IF @ = "ACTIVE" THEN "ENDED" ELSE @]
          /\ elite' = [elite EXCEPT ![p] = where] /\ UNCHANGED <<rooms, post>> /\ Getting!Elsewhere
      BY <1>2 DEF Getting!Activate
    <2>5. free' \in [Joiners -> {"none", "ACTIVE", "ENDED"}]
          /\ elite' \in [Joiners -> {"none", "paying", "here", "elsewhere"}]
      BY <1>0, <2>4 DEF GettingDataOK
    <2> QED
      BY <1>0, <2>3, <2>4, <2>5, GettingAwayKeeps DEF GettingDataOK
  <1>3. ASSUME NEW passPlan \in {"FREE", "ELITE"}, Getting!Expire(p, passPlan) PROVE GettingInv'
    <2>1. PICK ms : ms = [r \in Getting!Numbers |->
                            IF Getting!Status(p, r) = "ACTIVE" /\ member[p][r].on = passPlan
                            THEN [member[p][r] EXCEPT !.status = "EXPIRED"] ELSE member[p][r]]
      OBVIOUS
    <2>2. ms \in [Getting!Numbers -> Getting!Membership] /\ Getting!Put(p, ms)
      BY <1>0, <1>3, <2>1 DEF Getting!Expire, Getting!Membership
    <2>3. /\ member' \in [Joiners -> [Getting!Numbers -> Getting!Membership]] /\ beenIn' \in [Joiners -> BOOLEAN]
          /\ \A q \in Joiners : (beenIn[q] => beenIn'[q]) /\ (Getting!InOne(q)' => beenIn'[q])
      BY <2>2, GettingPutKeeps
    <2>4. /\ free' = IF passPlan = "FREE" THEN [free EXCEPT ![p] = "ENDED"] ELSE free
          /\ elite' = IF passPlan = "ELITE" THEN [elite EXCEPT ![p] = "none"] ELSE elite
          /\ UNCHANGED <<rooms, post>> /\ Getting!Elsewhere
      BY <1>3 DEF Getting!Expire
    <2>5. free' \in [Joiners -> {"none", "ACTIVE", "ENDED"}]
          /\ elite' \in [Joiners -> {"none", "paying", "here", "elsewhere"}]
      BY <1>0, <2>4 DEF GettingDataOK
    <2> QED
      BY <1>0, <2>3, <2>4, <2>5, GettingAwayKeeps DEF GettingDataOK
  <1>4. ASSUME NEW r \in Getting!Numbers, Getting!LeaveElsewhere(p, r) PROVE GettingInv'
    <2>1. PICK ms \in [Getting!Numbers -> Getting!Membership] : Getting!Put(p, ms)
      BY <1>4, GettingMembersTyped DEF Getting!LeaveElsewhere
    <2>3. /\ member' \in [Joiners -> [Getting!Numbers -> Getting!Membership]] /\ beenIn' \in [Joiners -> BOOLEAN]
          /\ \A q \in Joiners : (beenIn[q] => beenIn'[q]) /\ (Getting!InOne(q)' => beenIn'[q])
      BY <2>1, GettingPutKeeps
    <2>4. UNCHANGED <<rooms, free, elite, post>> /\ Getting!Elsewhere
      BY <1>4 DEF Getting!LeaveElsewhere
    <2> QED
      BY <1>0, <2>3, <2>4, GettingAwayKeeps DEF GettingDataOK
  <1> QED
    BY <1>1, <1>2, <1>3, <1>4

LEMMA GettingRoomsKeep ==
    ASSUME GettingInv, NEW r \in Getting!Numbers, Getting!CloseOrReopen(r)
    PROVE  GettingInv'
  <1>1. GettingDataOK' /\ Getting!Elsewhere /\ UNCHANGED <<member, beenIn>>
    BY DEF Getting!CloseOrReopen, GettingDataOK, GettingInv, Getting!TypeOK
  <1> QED
    BY <1>1, GettingMembersKept, GettingAwayKeeps

LEMMA GettingInitially == Getting!Init => GettingInv
  <1> SUFFICES ASSUME Getting!Init PROVE GettingInv
    OBVIOUS
  <1> USE BoundsAssumption
  <1>1. GettingDataOK
    BY DEF Getting!Init, GettingDataOK, Getting!Membership, Getting!Never
  <1>2. phone \in [Joiners -> Getting!Screen] /\ \A p \in Joiners : phone[p].page = "away" /\ phone[p].says = "nothing"
    BY DEF Getting!Init, Getting!Screen, Getting!HasElite
  <1>3. joins = {} /\ presses = 0 /\ elsewhere = 0
    BY DEF Getting!Init
  <1>4. Getting!TypeOK
    BY <1>1, <1>2, <1>3 DEF GettingDataOK, Getting!TypeOK
  <1>5. \A p \in Joiners : ~Getting!InOne(p)
    BY DEF Getting!Init, Getting!InOne, Getting!Status, Getting!Never, Getting!Numbers
  <1>6. GettingRemembered
    BY <1>2, <1>3, <1>5 DEF GettingRemembered
  <1> QED
    BY <1>4, <1>6 DEF GettingInv

LEMMA GettingSteps == ASSUME GettingInv, Getting!Next PROVE GettingInv'
  BY GettingServerKeeps, GettingAnswerKeeps, GettingLoseKeeps, GettingScreensKeep,
     GettingButtonsKeep, GettingJoinKeeps, GettingDismissKeeps,
     GettingElsewhereKeeps, GettingRoomsKeep DEF Getting!Next

LEMMA GettingShows == ASSUME GettingInv PROVE Getting!ConfirmedMeansIn
  BY DEF GettingInv, GettingRemembered, Getting!ConfirmedMeansIn

-----------------------------------------------------------------------------
(* Holiday trips (Trips): what has been checked was right when it was, and time only passes. *)

\* A trip that can be taken at a moment: its week is not over, and its month is on offer.
TravellingInTime(trip, t) ==
    /\ Travelling!IsTravelWeekOpen(trip.month, trip.week, t)
    /\ trip.month <= Travelling!Indian(t).month + MonthsAhead

TravellingForm == [screen : {"home", "form", "register"}, trip : Travelling!Draft]
TravellingCreating == [step : {"none", "month", "week", "insert", "answer"}, heard : BOOLEAN,
                       trip : Travelling!Draft, ok : BOOLEAN, at : Travelling!Moment]

\* Whatever has been checked was right when it was, and time only passes.
TravellingChecked ==
    /\ form.screen = "register" => Travelling!Complete(draft)
    /\ creating.step # "none" => Travelling!Complete(creating.trip)
    /\ creating.step = "week" => creating.trip.month <= Travelling!Indian(clock).month + MonthsAhead
    /\ creating.step = "insert" => TravellingInTime(creating.trip, creating.at)
    /\ \A p \in holidays : TravellingInTime(p.trip, p.at)

TravellingInv == Travelling!TypeOK /\ form \in TravellingForm /\ TravellingChecked

-----------------------------------------------------------------------------
(* The calendar *)

LEMMA TravellingMonthsAre ==
    /\ \A m \in Travelling!Months : m \in Nat /\ Length[m] \in 28..31
    /\ \A m \in 1..(LastMonth + 1 + MonthsAhead) : m \in Travelling!Months
  <1>1. Travelling!Months = 1..Len(Length) /\ Len(Length) \in Nat /\ \A m \in Travelling!Months : Length[m] \in 28..31
    BY CalendarAssumption DEF Travelling!Months
  <1>2. PICK n \in Nat : n = Len(Length)
    BY <1>1
  <1>3. /\ LastMonth + 1 + MonthsAhead <= n /\ LastMonth \in Nat /\ MonthsAhead \in Nat
        /\ Travelling!Months = 1..n
    BY <1>1, <1>2, CalendarAssumption
  <1> HIDE DEF Travelling!Months
  <1>4. \A m \in 1..(LastMonth + 1 + MonthsAhead) : m \in Travelling!Months
    BY <1>3
  <1>5. \A m \in Travelling!Months : m \in Nat
    BY <1>3
  <1> QED
    BY <1>1, <1>4, <1>5

LEMMA TravellingBoundsAre ==
    /\ \A d \in Marks : d \in Nat /\ 1 <= d /\ d <= 28
    /\ LastMonth \in Nat /\ 1 <= LastMonth /\ MonthsAhead \in Nat
  <1>1. Marks \subseteq 1..28 /\ LastMonth \in Nat \ {0} /\ MonthsAhead \in Nat
    BY CalendarAssumption
  <1> QED
    BY <1>1

LEMMA TravellingMomentIs ==
    ASSUME NEW t \in Travelling!Moment
    PROVE  /\ t.month \in 1..LastMonth /\ t.month \in Travelling!Months /\ t.late \in BOOLEAN
           /\ t.day \in 1..31 /\ t.day <= Length[t.month] /\ Length[t.month] \in 28..31
           /\ t = [month |-> t.month, day |-> t.day, late |-> t.late]
  <1>1. /\ t.month \in 1..LastMonth /\ t.late \in BOOLEAN /\ t.day \in 1..31
        /\ t.day \in Marks \cup {Length[t.month]}
        /\ t = [month |-> t.month, day |-> t.day, late |-> t.late]
    BY DEF Travelling!Moment
  <1>2. t.month \in Travelling!Months /\ Length[t.month] \in 28..31
    <2>1. t.month \in 1..(LastMonth + 1 + MonthsAhead)
      BY <1>1, CalendarAssumption
    <2> QED
      BY <2>1, TravellingMonthsAre
  <1>3. t.day <= Length[t.month]
    BY <1>1, <1>2, TravellingBoundsAre
  <1> QED
    BY <1>1, <1>2, <1>3

LEMMA TravellingIndianIs ==
    ASSUME NEW t \in Travelling!Moment
    PROVE  /\ ~t.late => Travelling!Indian(t).month = t.month /\ Travelling!Indian(t).day = t.day
           /\ t.late /\ t.day < Length[t.month] => Travelling!Indian(t).month = t.month /\ Travelling!Indian(t).day = t.day + 1
           /\ t.late /\ t.day = Length[t.month] => Travelling!Indian(t).month = t.month + 1 /\ Travelling!Indian(t).day = 1
           /\ Travelling!Indian(t).month \in 1..(LastMonth + 1) /\ Travelling!Indian(t).day \in Nat
  <1>1. PICK m, d, l : m = t.month /\ d = t.day /\ l = Length[m]
    OBVIOUS
  <1>2. m \in 1..LastMonth /\ d \in 1..31 /\ d <= l /\ l \in 28..31 /\ t.late \in BOOLEAN
    BY <1>1, TravellingMomentIs
  <1>3. Travelling!Indian(t) = IF ~t.late THEN [month |-> m, day |-> d]
                               ELSE IF d < l THEN [month |-> m, day |-> d + 1] ELSE [month |-> m + 1, day |-> 1]
    BY <1>1 DEF Travelling!Indian
  <1>4. m \in 1..(LastMonth + 1) /\ m + 1 \in 1..(LastMonth + 1) /\ d \in Nat /\ d + 1 \in Nat
    BY <1>2, CalendarAssumption
  <1>5. CASE ~t.late
    BY <1>1, <1>3, <1>4, <1>5
  <1>6. CASE t.late /\ d < l
    BY <1>1, <1>3, <1>4, <1>6
  <1>7. CASE t.late /\ d = l
    <2>1. ~(d < l)
      BY <1>2, <1>7
    <2> QED
      BY <1>1, <1>3, <1>4, <1>7, <2>1
  <1> QED
    BY <1>1, <1>2, <1>5, <1>6, <1>7

LEMMA TravellingMonthsPass ==
    ASSUME NEW s \in Travelling!Moment, NEW t \in Travelling!Moment, Travelling!Before(s, t)
    PROVE  Travelling!Indian(s).month <= Travelling!Indian(t).month
  <1>1. s.month \in Nat /\ t.month \in Nat /\ s.day \in Nat /\ t.day \in Nat
        /\ s.day <= Length[s.month] /\ t.day <= Length[t.month] /\ Length[s.month] \in Nat
    BY TravellingMomentIs
  <1>2. /\ Travelling!Indian(s).month = s.month \/ (Travelling!Indian(s).month = s.month + 1 /\ s.late /\ s.day = Length[s.month])
        /\ Travelling!Indian(t).month = t.month \/ (Travelling!Indian(t).month = t.month + 1 /\ t.late /\ t.day = Length[t.month])
    <2>1. ASSUME NEW r \in Travelling!Moment
          PROVE  Travelling!Indian(r).month = r.month \/ (Travelling!Indian(r).month = r.month + 1 /\ r.late /\ r.day = Length[r.month])
      <3>1. ~r.late \/ (r.late /\ r.day < Length[r.month]) \/ (r.late /\ r.day = Length[r.month])
        BY TravellingMomentIs
      <3> QED
        BY <3>1, TravellingIndianIs
    <2> QED
      BY <2>1
  <1>3. CASE s.month < t.month
    BY <1>1, <1>2, <1>3
  <1>4. CASE s.month = t.month /\ ~(s.late /\ s.day = Length[s.month])
    BY <1>1, <1>2, <1>4
  <1>5. CASE s.month = t.month /\ s.late /\ s.day = Length[s.month]
    BY <1>1, <1>5 DEF Travelling!Before
  <1> QED
    BY <1>3, <1>4, <1>5 DEF Travelling!Before

LEMMA TravellingOptionsAre ==
    ASSUME NEW t \in Travelling!Moment
    PROVE  /\ Travelling!TravelMonthOptions(t) \subseteq Travelling!Months
           /\ \A m \in Travelling!TravelMonthOptions(t) : m <= Travelling!Indian(t).month + MonthsAhead
  <1>1. ASSUME NEW i \in 0..MonthsAhead
        PROVE  /\ Travelling!Indian(t).month + i \in Travelling!Months
               /\ Travelling!Indian(t).month + i <= Travelling!Indian(t).month + MonthsAhead
    <2>1. Travelling!Indian(t).month \in 1..(LastMonth + 1)
      BY TravellingIndianIs
    <2>2. Travelling!Indian(t).month + i \in 1..(LastMonth + 1 + MonthsAhead)
          /\ Travelling!Indian(t).month + i <= Travelling!Indian(t).month + MonthsAhead
      BY <2>1, CalendarAssumption
    <2> QED
      BY <2>2, TravellingMonthsAre
  <1> QED
    BY <1>1 DEF Travelling!TravelMonthOptions

\* There is a first moment.
LEMMA TravellingFirstIs == Travelling!First \in Travelling!Moment
  <1> DEFINE D == Marks \cup {Length[1]}
  <1>1. 1 \in Travelling!Months /\ Length[1] \in 28..31 /\ 1 \in 1..LastMonth
    BY TravellingMonthsAre, CalendarAssumption
  <1>2. D \subseteq 1..31 /\ D # {}
    BY <1>1, TravellingBoundsAre
  <1>3. D \subseteq Nat
    BY <1>2
  <1> HIDE DEF D
  <1>4. PICK d \in D : \A e \in D : <<e, d>> \notin OpToRel(<, Nat)
    BY <1>2, <1>3, WFMin, NatLessThanWellFounded, Zenon
  <1>5. \A e \in D : ~(e < d)
    BY <1>3, <1>4, Zenon DEF OpToRel
  <1>6. PICK t : t = [month |-> 1, day |-> d, late |-> FALSE]
    OBVIOUS
  <1>7. t \in Travelling!Moment
    BY <1>1, <1>2, <1>6 DEF Travelling!Moment, D
  <1>8. ASSUME NEW s \in Travelling!Moment \ {t} PROVE Travelling!Before(t, s)
    <2>1. /\ s.month \in 1..LastMonth /\ s.day \in 1..31
          /\ s = [month |-> s.month, day |-> s.day, late |-> s.late]
          /\ s.late \in BOOLEAN
      BY TravellingMomentIs
    <2>2. CASE s.month # 1
      BY <1>6, <2>1, <2>2, CalendarAssumption DEF Travelling!Before
    <2>3. CASE s.month = 1
      <3>1. s.day \in D
        BY <2>3 DEF Travelling!Moment, D
      <3>2. s.day >= d /\ d \in 1..31
        BY <1>2, <1>5, <2>1, <3>1
      <3>3. s.day # d \/ s.late
        BY <1>6, <2>1, <2>3
      <3> QED
        BY <1>6, <2>1, <2>3, <3>2, <3>3 DEF Travelling!Before
    <2> QED
      BY <2>2, <2>3
  <1> QED
    BY <1>7, <1>8 DEF Travelling!First

-----------------------------------------------------------------------------
(* Trips as they are filled in *)

LEMMA TravellingNoTripTyped == Travelling!NoTrip \in Travelling!Draft
  <1>1. <<>> \in [1..0 -> Ages \cup {Travelling!Unset}] /\ 0 \in 0..MaxChildren
    BY CalendarAssumption
  <1> QED
    BY <1>1 DEF Travelling!NoTrip, Travelling!Draft, Travelling!Lists

LEMMA TravellingRequestsTyped ==
    /\ Travelling!NoRequest \in TravellingCreating /\ Travelling!NoRequest.step = "none"
    /\ \A trip \in Travelling!Draft : Travelling!Asking(trip) \in TravellingCreating /\ Travelling!Asking(trip).trip = trip /\ Travelling!Asking(trip).step = "month"
  BY TravellingNoTripTyped, TravellingFirstIs DEF Travelling!NoRequest, Travelling!Asking,
     TravellingCreating

LEMMA TravellingListsAre ==
    ASSUME NEW S, NEW list \in Travelling!Lists(S)
    PROVE  Len(list) \in 0..MaxChildren /\ DOMAIN list = 1..Len(list) /\ \A i \in 1..Len(list) : list[i] \in S
  <1>1. PICK n \in 0..MaxChildren : list \in [1..n -> S]
    BY DEF Travelling!Lists
  <1>2. n \in Nat
    BY <1>1, CalendarAssumption
  <1>3. list \in Seq(S)
    BY <1>1, <1>2, SeqDef
  <1> QED
    BY <1>1, <1>2, <1>3

-----------------------------------------------------------------------------
(* The steps *)

\* Nothing happens to the request, and time does not pass.
LEMMA TravellingFormKeeps ==
    ASSUME TravellingInv, UNCHANGED <<clock, creating, holidays>>, form' \in TravellingForm,
           signedIn' \in BOOLEAN,
           options' \subseteq Travelling!Months, drawn' \in Travelling!Moment, draft' \in Travelling!Draft, created' \in 0..MaxCreated,
           form'.screen = "register" => Travelling!Complete(draft')
    PROVE  TravellingInv'
  <1>1. Travelling!TypeOK'
    BY DEF TravellingInv, Travelling!TypeOK, TravellingForm, Travelling!Complete
  <1>2. TravellingChecked'
    BY DEF TravellingInv, TravellingChecked, TravellingInTime, Travelling!IsTravelWeekOpen,
       Travelling!Indian, Travelling!LastDayOf, Travelling!Complete
  <1> QED
    BY <1>1, <1>2 DEF TravellingInv

\* The request takes a step.
LEMMA TravellingRequestKeeps ==
    ASSUME TravellingInv, UNCHANGED <<clock, holidays>>, form' \in TravellingForm,
           signedIn' \in BOOLEAN,
           options' \subseteq Travelling!Months, drawn' \in Travelling!Moment, draft' \in Travelling!Draft, created' \in 0..MaxCreated,
           form'.screen = "register" => Travelling!Complete(draft'),
           NEW r \in TravellingCreating, creating' = r,
           r.step # "none" => Travelling!Complete(r.trip),
           r.step = "week" => r.trip.month <= Travelling!Indian(clock).month + MonthsAhead,
           r.step = "insert" => TravellingInTime(r.trip, r.at)
    PROVE  TravellingInv'
  <1>1. Travelling!TypeOK'
    BY DEF TravellingInv, Travelling!TypeOK, TravellingForm, Travelling!Complete, TravellingCreating
  <1>2. TravellingChecked'
    BY DEF TravellingInv, TravellingChecked, TravellingInTime, Travelling!IsTravelWeekOpen,
       Travelling!Indian, Travelling!LastDayOf, Travelling!Complete
  <1> QED
    BY <1>1, <1>2 DEF TravellingInv

LEMMA TravellingTyped ==
    ASSUME TravellingInv
    PROVE  /\ form \in TravellingForm /\ form.trip \in Travelling!Draft /\ signedIn \in BOOLEAN
           /\ options \subseteq Travelling!Months
           /\ drawn \in Travelling!Moment /\ draft \in Travelling!Draft
           /\ created \in 0..MaxCreated /\ creating \in TravellingCreating
           /\ clock \in Travelling!Moment /\ creating.trip \in Travelling!Draft
  BY DEF TravellingInv, Travelling!TypeOK, TravellingForm, TravellingCreating

LEMMA TravellingChangeKeeps ==
    ASSUME TravellingInv, NEW trip \in Travelling!Draft, Travelling!Change(trip)
    PROVE  TravellingInv'
  <1>1. form' \in TravellingForm /\ form'.screen = "form"
    BY TravellingTyped DEF Travelling!Change, TravellingForm, Travelling!OnForm
  <1> QED
    BY <1>1, TravellingTyped, TravellingFormKeeps DEF Travelling!Change

LEMMA TravellingChoicesKeep ==
    ASSUME TravellingInv,
           \/ \E m \in Travelling!Months : Travelling!ChooseMonth(m)
           \/ \E w \in Travelling!Weeks : Travelling!ChooseWeek(w)
           \/ \E n \in 0..MaxChildren : Travelling!ChooseChildren(n)
           \/ \E i \in DOMAIN form.trip.childAges, a \in Ages : Travelling!ChooseAge(i, a)
    PROVE  TravellingInv'
  <1>0. PICK trip \in Travelling!Draft : trip = form.trip
    BY TravellingTyped
  <1>1. ASSUME NEW m \in Travelling!Months, Travelling!ChooseMonth(m) PROVE TravellingInv'
    <2>1. [trip EXCEPT !.month = m, !.week = 0] \in Travelling!Draft
      BY DEF Travelling!Draft
    <2> QED
      BY <1>0, <1>1, <2>1, TravellingChangeKeeps DEF Travelling!ChooseMonth
  <1>2. ASSUME NEW w \in Travelling!Weeks, Travelling!ChooseWeek(w) PROVE TravellingInv'
    <2>1. [trip EXCEPT !.week = w] \in Travelling!Draft
      BY DEF Travelling!Draft
    <2> QED
      BY <1>0, <1>2, <2>1, TravellingChangeKeeps DEF Travelling!ChooseWeek
  <1>3. ASSUME NEW n \in 0..MaxChildren, Travelling!ChooseChildren(n) PROVE TravellingInv'
    <2>1. PICK ages : ages = [i \in 1..n |-> IF i <= Len(trip.childAges) THEN trip.childAges[i] ELSE Travelling!Unset]
      OBVIOUS
    <2>2. trip.childAges \in Travelling!Lists(Ages \cup {Travelling!Unset})
      BY DEF Travelling!Draft
    <2>3. ASSUME NEW i \in 1..n PROVE ages[i] \in Ages \cup {Travelling!Unset}
      <3>1. i \in Nat \ {0} /\ Len(trip.childAges) \in Nat
        BY <2>2, TravellingListsAre, CalendarAssumption
      <3> QED
        BY <2>1, <2>2, <3>1, TravellingListsAre
    <2>4. ages \in [1..n -> Ages \cup {Travelling!Unset}]
      BY <2>1, <2>3
    <2>5. ages \in Travelling!Lists(Ages \cup {Travelling!Unset})
      BY <2>4 DEF Travelling!Lists
    <2>6. [trip EXCEPT !.counted = TRUE, !.childAges = ages] \in Travelling!Draft
      BY <2>5 DEF Travelling!Draft
    <2> QED
      BY <1>0, <1>3, <2>1, <2>6, TravellingChangeKeeps DEF Travelling!ChooseChildren
  <1>4. ASSUME NEW i \in DOMAIN form.trip.childAges, NEW a \in Ages, Travelling!ChooseAge(i, a)
        PROVE  TravellingInv'
    <2>1. trip.childAges \in Travelling!Lists(Ages \cup {Travelling!Unset})
      BY DEF Travelling!Draft
    <2>2. PICK n \in 0..MaxChildren : trip.childAges \in [1..n -> Ages \cup {Travelling!Unset}]
      BY <2>1 DEF Travelling!Lists
    <2>3. PICK ages : ages = [trip.childAges EXCEPT ![i] = a]
      OBVIOUS
    <2>4. ages \in [1..n -> Ages \cup {Travelling!Unset}]
      BY <2>2, <2>3
    <2>5. ages \in Travelling!Lists(Ages \cup {Travelling!Unset})
      BY <2>4 DEF Travelling!Lists
    <2>6. [trip EXCEPT !.childAges = ages] \in Travelling!Draft
      BY <2>5 DEF Travelling!Draft
    <2>7. Travelling!Change([trip EXCEPT !.childAges = ages])
      BY <1>0, <1>4, <2>3 DEF Travelling!ChooseAge, Travelling!Draft
    <2> QED
      BY <2>6, <2>7, TravellingChangeKeeps
  <1> QED
    BY <1>1, <1>2, <1>3, <1>4

LEMMA TravellingOpenFormKeeps == ASSUME TravellingInv, Travelling!OpenForm PROVE TravellingInv'
  <1>1. form' \in TravellingForm /\ form'.screen = "form"
    BY TravellingNoTripTyped DEF Travelling!OpenForm, TravellingForm
  <1> QED
    BY <1>1, TravellingTyped, TravellingOptionsAre, TravellingFormKeeps DEF Travelling!OpenForm

LEMMA TravellingCreateKeeps == ASSUME TravellingInv, Travelling!Create PROVE TravellingInv'
  <1>0. /\ created' \in 0..MaxCreated /\ Travelling!Complete(form.trip)
        /\ UNCHANGED <<clock, signedIn, options, holidays>>
    BY TravellingTyped, CalendarAssumption DEF Travelling!Create
  <1>1. CASE signedIn
    <2>1. creating' = Travelling!Asking(form.trip) /\ drawn' = clock /\ UNCHANGED <<form, draft>>
      BY <1>1 DEF Travelling!Create
    <2>2. PICK r \in TravellingCreating : r = Travelling!Asking(form.trip) /\ r.trip = form.trip /\ r.step = "month"
      BY TravellingTyped, TravellingRequestsTyped
    <2>3. form.screen = "form"
      BY DEF Travelling!Create, Travelling!OnForm
    <2> QED
      BY <1>0, <2>1, <2>2, <2>3, TravellingTyped, TravellingRequestKeeps
  <1>2. CASE ~signedIn
    <2>1. /\ draft' = form.trip /\ form' = [form EXCEPT !.screen = "register"]
          /\ UNCHANGED <<creating, drawn>>
      BY <1>2 DEF Travelling!Create
    <2>2. form' \in TravellingForm
      BY <2>1, TravellingTyped DEF TravellingForm
    <2> QED
      BY <1>0, <2>1, <2>2, TravellingTyped, TravellingFormKeeps
  <1> QED
    BY <1>1, <1>2

LEMMA TravellingSignInKeeps == ASSUME TravellingInv, Travelling!SignIn PROVE TravellingInv'
  <1>1. PICK r \in TravellingCreating : r = Travelling!Asking(draft) /\ r.trip = draft /\ r.step = "month"
    BY TravellingTyped, TravellingRequestsTyped
  <1>2. Travelling!Complete(draft)
    BY DEF Travelling!SignIn, TravellingInv, TravellingChecked
  <1>3. form' \in TravellingForm /\ form'.screen = "form"
    BY TravellingTyped DEF Travelling!SignIn, TravellingForm
  <1>4. options' \subseteq Travelling!Months
    BY TravellingTyped, TravellingOptionsAre DEF Travelling!SignIn
  <1>5. /\ UNCHANGED <<clock, created, holidays>> /\ signedIn' \in BOOLEAN
        /\ drawn' \in Travelling!Moment /\ draft' \in Travelling!Draft
        /\ created' \in 0..MaxCreated /\ creating' = r
    BY <1>1, TravellingTyped, TravellingNoTripTyped DEF Travelling!SignIn
  <1> QED
    BY <1>1, <1>2, <1>3, <1>4, <1>5, TravellingRequestKeeps

LEMMA TravellingAnswerKeeps == ASSUME TravellingInv, Travelling!Answer PROVE TravellingInv'
  <1>1. form' \in TravellingForm /\ (form'.screen = "register" => form.screen = "register") /\ drawn' \in Travelling!Moment
    BY TravellingTyped, TravellingNoTripTyped DEF Travelling!Answer, TravellingForm
  <1>2. form'.screen = "register" => Travelling!Complete(draft)
    BY <1>1 DEF TravellingInv, TravellingChecked
  <1>3. PICK r \in TravellingCreating : r = Travelling!NoRequest /\ r.step = "none"
    BY TravellingRequestsTyped
  <1>4. creating' = r /\ UNCHANGED <<clock, signedIn, options, draft, created, holidays>>
    BY <1>3 DEF Travelling!Answer
  <1> QED
    BY <1>1, <1>2, <1>3, <1>4, TravellingTyped, TravellingRequestKeeps

LEMMA TravellingLoseKeeps == ASSUME TravellingInv, Travelling!Lose PROVE TravellingInv'
  <1>1. PICK r : r = [creating EXCEPT !.heard = FALSE]
    OBVIOUS
  <1>2. /\ r \in TravellingCreating /\ r.step = creating.step /\ r.trip = creating.trip
        /\ r.at = creating.at
    BY <1>1, TravellingTyped DEF TravellingCreating
  <1>3. /\ creating' = r /\ drawn' = clock
        /\ UNCHANGED <<clock, signedIn, form, options, draft, created, holidays>>
    BY <1>1 DEF Travelling!Lose
  <1>4. TravellingChecked
    BY DEF TravellingInv
  <1> QED
    BY <1>2, <1>3, <1>4, TravellingTyped, TravellingRequestKeeps DEF TravellingChecked

LEMMA TravellingCheckMonthKeeps == ASSUME TravellingInv, Travelling!CheckMonth PROVE TravellingInv'
  <1>1. PICK step \in {"week", "answer"} :
            /\ step = IF creating.trip.month \in Travelling!TravelMonthOptions(clock) THEN "week" ELSE "answer"
            /\ Travelling!Goes(step, Travelling!First)
    BY DEF Travelling!CheckMonth
  <1>2. PICK r : r = [creating EXCEPT !.step = step, !.at = Travelling!First]
    OBVIOUS
  <1>3. r \in TravellingCreating /\ r.step = step /\ r.trip = creating.trip
    BY <1>2, TravellingTyped, TravellingFirstIs DEF TravellingCreating
  <1>4. step = "week" => r.trip.month <= Travelling!Indian(clock).month + MonthsAhead
    BY <1>1, <1>3, TravellingTyped, TravellingOptionsAre
  <1>5. /\ creating' = r
        /\ UNCHANGED <<clock, signedIn, form, options, drawn, draft, created, holidays>>
    BY <1>1, <1>2 DEF Travelling!CheckMonth, Travelling!Goes, Travelling!Unmoved
  <1>6. TravellingChecked /\ creating.step # "none"
    BY DEF TravellingInv, Travelling!CheckMonth
  <1> QED
    BY <1>1, <1>3, <1>4, <1>5, <1>6, TravellingTyped, TravellingRequestKeeps DEF TravellingChecked

LEMMA TravellingCheckWeekKeeps == ASSUME TravellingInv, Travelling!CheckWeek PROVE TravellingInv'
  <1>1. PICK step \in {"insert", "answer"}, at \in Travelling!Moment :
            /\ Travelling!Goes(step, at)
            /\ step = "insert" => at = clock /\ Travelling!IsTravelWeekOpen(creating.trip.month, creating.trip.week, clock)
    BY TravellingTyped, TravellingFirstIs DEF Travelling!CheckWeek
  <1>2. PICK r : r = [creating EXCEPT !.step = step, !.at = at]
    OBVIOUS
  <1>3. r \in TravellingCreating /\ r.step = step /\ r.trip = creating.trip /\ r.at = at
    BY <1>2, TravellingTyped DEF TravellingCreating
  <1>4. TravellingChecked /\ creating.step = "week"
    BY DEF TravellingInv, Travelling!CheckWeek
  <1>5. step = "insert" => TravellingInTime(r.trip, r.at)
    BY <1>1, <1>3, <1>4 DEF TravellingInTime, TravellingChecked
  <1>6. /\ creating' = r
        /\ UNCHANGED <<clock, signedIn, form, options, drawn, draft, created, holidays>>
    BY <1>1, <1>2 DEF Travelling!CheckWeek, Travelling!Goes, Travelling!Unmoved
  <1> QED
    BY <1>1, <1>3, <1>4, <1>5, <1>6, TravellingTyped, TravellingRequestKeeps DEF TravellingChecked

LEMMA TravellingInsertKeeps == ASSUME TravellingInv, Travelling!Insert PROVE TravellingInv'
  <1>0. TravellingChecked /\ creating.step = "insert" /\ Travelling!TypeOK
    BY DEF TravellingInv, Travelling!Insert
  <1>1. PICK ok \in BOOLEAN : ok = (holidays = {})
    OBVIOUS
  <1>2. PICK r : r = [creating EXCEPT !.step = "answer", !.ok = ok, !.at = Travelling!First]
    OBVIOUS
  <1>3. r \in TravellingCreating /\ r.step = "answer" /\ r.trip = creating.trip
    BY <1>2, TravellingTyped, TravellingFirstIs DEF TravellingCreating
  <1>4. creating' = r /\ UNCHANGED <<clock, signedIn, form, options, drawn, draft, created>>
    BY <1>1, <1>2 DEF Travelling!Insert, Travelling!Unmoved
  <1>5. PICK p : p = [trip |-> creating.trip, at |-> creating.at]
    OBVIOUS
  <1>6. /\ p.trip = creating.trip /\ p.at = creating.at /\ p.at \in Travelling!Moment
        /\ Travelling!Complete(p.trip) /\ p.trip \in Travelling!Draft
        /\ TravellingInTime(p.trip, p.at)
    BY <1>0, <1>5, TravellingTyped DEF TravellingChecked, TravellingCreating
  <1>7. \A q \in holidays' : q = p \/ q \in holidays
    BY <1>5 DEF Travelling!Insert
  <1>8. \A q \in holidays' : Travelling!Complete(q.trip) /\ q.trip \in Travelling!Draft /\ q.at \in Travelling!Moment /\ TravellingInTime(q.trip, q.at)
    BY <1>0, <1>6, <1>7 DEF Travelling!TypeOK, TravellingChecked
  <1>9. Travelling!TypeOK'
    BY <1>0, <1>3, <1>4, <1>8 DEF Travelling!TypeOK, TravellingCreating, Travelling!Complete
  <1>10. TravellingChecked'
    BY <1>0, <1>3, <1>4, <1>8 DEF TravellingChecked, Travelling!Complete, TravellingInTime,
       Travelling!IsTravelWeekOpen, Travelling!Indian, Travelling!LastDayOf
  <1> QED
    BY <1>4, <1>9, <1>10 DEF TravellingInv

LEMMA TravellingPassKeeps == ASSUME TravellingInv, Travelling!Pass PROVE TravellingInv'
  <1>1. PICK t \in Travelling!Moment : Travelling!Before(clock, t) /\ clock' = t
    BY DEF Travelling!Pass
  <1>2. UNCHANGED <<signedIn, form, options, drawn, draft, created, creating, holidays>>
    BY DEF Travelling!Pass
  <1>3. /\ Travelling!Indian(clock).month <= Travelling!Indian(t).month
        /\ Travelling!Indian(clock).month \in Nat /\ Travelling!Indian(t).month \in Nat
    BY <1>1, TravellingTyped, TravellingMonthsPass, TravellingIndianIs, CalendarAssumption
  <1>4. Travelling!TypeOK'
    BY <1>1, <1>2 DEF TravellingInv, Travelling!TypeOK, Travelling!Complete
  <1>5. creating.step = "week" => creating.trip.month <= Travelling!Indian(t).month + MonthsAhead
    <2>1. creating.trip.month \in Int
      <3>1. creating.trip.month \in Travelling!Months \cup {0}
        BY TravellingTyped DEF Travelling!Draft
      <3> QED
        BY <3>1, TravellingMonthsAre
    <2>2. creating.step = "week" => creating.trip.month <= Travelling!Indian(clock).month + MonthsAhead
      BY DEF TravellingInv, TravellingChecked
    <2> QED
      BY <1>3, <2>1, <2>2, CalendarAssumption
  <1>6. TravellingChecked'
    BY <1>1, <1>2, <1>5 DEF TravellingInv, TravellingChecked, TravellingInTime,
       Travelling!IsTravelWeekOpen, Travelling!Indian, Travelling!LastDayOf, Travelling!Complete
  <1> QED
    BY <1>2, <1>4, <1>6 DEF TravellingInv

LEMMA TravellingInitially == Travelling!Init => TravellingInv
  <1> SUFFICES ASSUME Travelling!Init PROVE TravellingInv
    OBVIOUS
  <1>1. form \in TravellingForm /\ form.screen = "home"
    BY TravellingNoTripTyped DEF Travelling!Init, TravellingForm
  <1>2. creating \in TravellingCreating /\ creating.step = "none"
    BY TravellingRequestsTyped DEF Travelling!Init
  <1>3. Travelling!TypeOK
    BY <1>1, <1>2, TravellingFirstIs, TravellingNoTripTyped, CalendarAssumption
       DEF Travelling!Init, Travelling!TypeOK, TravellingForm, TravellingCreating
  <1>4. TravellingChecked
    BY <1>1, <1>2 DEF Travelling!Init, TravellingChecked
  <1> QED
    BY <1>1, <1>3, <1>4 DEF TravellingInv

LEMMA TravellingSteps == ASSUME TravellingInv, Travelling!Next PROVE TravellingInv'
  BY TravellingOpenFormKeeps, TravellingCreateKeeps, TravellingSignInKeeps, TravellingAnswerKeeps,
     TravellingLoseKeeps, TravellingChoicesKeep,
     TravellingCheckMonthKeeps, TravellingCheckWeekKeeps, TravellingInsertKeeps, TravellingPassKeeps DEF Travelling!Next

\* What was in time lies in the days it was offered for.
LEMMA TravellingShows == ASSUME TravellingInv PROVE Travelling!TripCanBeTaken
  <1> SUFFICES ASSUME NEW p \in holidays
      PROVE  /\ ~Travelling!Before([month |-> p.trip.month, day |-> Travelling!LastDayOf(p.trip.month, p.trip.week), late |-> FALSE], p.at)
             /\ p.trip.month - MonthsAhead - 1 \in Travelling!Months =>
                  ~Travelling!Before(p.at, [month |-> p.trip.month - MonthsAhead - 1,
                                            day |-> Length[p.trip.month - MonthsAhead - 1], late |-> TRUE])
    BY DEF Travelling!TripCanBeTaken
  <1>1. /\ Travelling!Complete(p.trip) /\ p.trip \in Travelling!Draft
        /\ p.at \in Travelling!Moment /\ TravellingInTime(p.trip, p.at)
    BY DEF TravellingInv, Travelling!TypeOK, TravellingChecked
  <1>2. PICK t \in Travelling!Moment : t = p.at
    BY <1>1
  <1>3. PICK m \in Travelling!Months, w \in Travelling!Weeks : m = p.trip.month /\ w = p.trip.week
    BY <1>1 DEF Travelling!Complete, Travelling!Draft
  <1>4. m \in Nat /\ Length[m] \in 28..31
    BY TravellingMonthsAre
  <1>5. Travelling!LastDayOf(m, w) \in Nat
    BY <1>4 DEF Travelling!LastDayOf, Travelling!Weeks
  <1>6. Travelling!IsTravelWeekOpen(m, w, t) /\ m <= Travelling!Indian(t).month + MonthsAhead
    BY <1>1, <1>2, <1>3 DEF TravellingInTime
  <1>i. PICK i : /\ i = Travelling!Indian(t)
                 /\ t.month \in Nat /\ t.day \in Nat /\ i.month \in Nat /\ i.day \in Nat
                 /\ \/ i.month = t.month /\ i.day = t.day /\ ~t.late
                    \/ i.month = t.month /\ i.day = t.day + 1
                    \/ i.month = t.month + 1 /\ t.late /\ t.day = Length[t.month]
    <2>1. ~t.late \/ (t.late /\ t.day < Length[t.month]) \/ (t.late /\ t.day = Length[t.month])
      BY TravellingMomentIs
    <2>2. /\ t.month \in Nat /\ t.day \in Nat /\ Travelling!Indian(t).month \in Nat
          /\ Travelling!Indian(t).day \in Nat
      BY TravellingMomentIs, TravellingIndianIs, TravellingBoundsAre
    <2> QED
      BY <2>1, <2>2, TravellingIndianIs
  <1>7. ~Travelling!Before([month |-> m, day |-> Travelling!LastDayOf(m, w), late |-> FALSE], t)
    <2>1. PICK last \in Nat : last = Travelling!LastDayOf(m, w)
      BY <1>5
    <2>2. m > i.month \/ (m = i.month /\ last >= i.day)
      BY <1>4, <1>5, <1>6, <1>i, <2>1 DEF Travelling!IsTravelWeekOpen
    <2>3. /\ ~(m < t.month) /\ ~(m = t.month /\ last < t.day)
          /\ ~(m = t.month /\ last = t.day /\ t.late)
      BY <1>4, <1>i, <2>1, <2>2
    <2>4. ~Travelling!Before([month |-> m, day |-> last, late |-> FALSE], t)
      BY <2>3 DEF Travelling!Before
    <2> QED
      BY <2>1, <2>4
  <1>8. ASSUME NEW opens \in Travelling!Months, opens = m - MonthsAhead - 1
        PROVE  ~Travelling!Before(t, [month |-> opens, day |-> Length[opens], late |-> TRUE])
    <2>1. opens \in Nat /\ opens + MonthsAhead + 1 = m /\ Length[opens] \in 28..31
      BY <1>4, <1>8, TravellingMonthsAre, CalendarAssumption
    <2>2. opens + 1 <= i.month
      BY <1>4, <1>6, <1>i, <2>1, TravellingBoundsAre
    <2>3. ~(t.month < opens) /\ (t.month = opens => t.late /\ t.day = Length[opens])
      BY <1>i, <2>1, <2>2
    <2>4. PICK day \in Nat : day = Length[opens]
      BY <2>1
    <2>5. ~Travelling!Before(t, [month |-> opens, day |-> day, late |-> TRUE])
      BY <1>i, <2>1, <2>3, <2>4 DEF Travelling!Before
    <2> QED
      BY <2>4, <2>5
  <1> QED
    BY <1>2, <1>3, <1>7, <1>8

-----------------------------------------------------------------------------
(* Insights (Insights): what a load has found was for the viewer to see since it was asked for. *)

\* What a load has, or a screen shows, was for the viewer to see.
LookingSeen(data) ==
           /\ data.nearby \/ data.members \/ data.matches => data.wasElite
           /\ data.matches => data.wasIn
           /\ \A r \in data.rows : r.of \in data.clear

\* A load remembers what holds now and what its checks have found.
LookingLoadOK(c) ==
    /\ held = "ELITE" => c.data.wasElite
    /\ isIn => c.data.wasIn
    /\ Looking!Unblocked \subseteq c.data.clear
    /\ c.count \in {"nearby", "members"} => c.data.wasElite
    /\ c.match \in {"elite", "blocked", "rows", "connections"} => c.data.wasIn
    /\ c.match \in {"blocked", "rows", "connections"} => c.data.wasElite
    /\ c.match = "rows" => Matches \ c.blocked \subseteq c.data.clear
    /\ c.found \subseteq c.data.clear

LookingPanel == [open : BOOLEAN, joined : BOOLEAN, loaded : BOOLEAN, data : Looking!Data]

LookingInv ==
    /\ Looking!TypeOK
    /\ panel \in LookingPanel
    /\ LookingSeen(panel.data)
    /\ \A c \in looking : LookingSeen(c.data)
    /\ \A c \in looking : c.kind = "load" => LookingLoadOK(c)

LEMMA LookingCallTyped == ASSUME LookingInv, NEW c \in looking
                          PROVE  /\ c \in Looking!Load \cup Looking!Connect /\ LookingSeen(c.data)
                                 /\ c.data \in Looking!Data
                                 /\ c.kind = "load" => c \in Looking!Load /\ LookingLoadOK(c)
                                 /\ c.kind = "connect" => c \in Looking!Connect
    BY DEF LookingInv, Looking!TypeOK, Looking!Load, Looking!Connect

LEMMA LookingLoadTyped ==
    ASSUME LookingInv, NEW c \in looking, c.kind = "load" \/ c.count # "done" \/ c.match # "done"
    PROVE  c \in Looking!Load /\ c.kind = "load" /\ LookingLoadOK(c) /\ LookingSeen(c.data)
  <1>1. c \in Looking!Load \cup Looking!Connect
    BY DEF LookingInv, Looking!TypeOK
  <1>2. c.kind = "load"
    BY <1>1 DEF Looking!Load, Looking!Connect
  <1> QED
    BY <1>2, LookingCallTyped

\* A request takes a step that changes nothing else.
LEMMA LookingStepKeeps ==
    ASSUME LookingInv, NEW c \in looking, NEW d \in Looking!Load, Looking!Becomes(c, d),
           Looking!Reads, LookingSeen(d.data), LookingLoadOK(d)
    PROVE  LookingInv'
  <1>1. Looking!TypeOK' /\ panel' \in LookingPanel /\ LookingSeen(panel.data)'
    BY DEF LookingInv, Looking!TypeOK, Looking!Becomes, Looking!Reads, LookingSeen
  <1>2. \A e \in looking' : LookingSeen(e.data)'
    BY DEF LookingInv, Looking!Becomes, LookingSeen
  <1>3. ASSUME NEW e, LookingLoadOK(e) PROVE LookingLoadOK(e)'
    BY <1>3 DEF LookingLoadOK, Looking!Reads, Looking!Unblocked
  <1>4. \A e \in looking' : e.kind = "load" => LookingLoadOK(e)'
    BY <1>3 DEF LookingInv, Looking!Becomes
  <1> QED
    BY <1>1, <1>2, <1>4 DEF LookingInv

LEMMA LookingPlanKeeps == ASSUME LookingInv, NEW c \in looking, Looking!Plan(c) PROVE LookingInv'
  <1>1. c \in Looking!Load /\ LookingLoadOK(c) /\ LookingSeen(c.data)
    BY LookingLoadTyped DEF Looking!Plan
  <1>2. PICK d : d = [c EXCEPT !.count = IF held = "ELITE" THEN "nearby" ELSE "done"]
    OBVIOUS
  <1>3. d \in Looking!Load
    BY <1>1, <1>2 DEF Looking!Load, Looking!CountSteps
  <1>4. LookingLoadOK(d) /\ LookingSeen(d.data)
    BY <1>1, <1>2 DEF Looking!Load, LookingLoadOK
  <1> QED
    BY <1>2, <1>3, <1>4, LookingStepKeeps DEF Looking!Plan

LEMMA LookingNearbyKeeps ==
    ASSUME LookingInv, NEW c \in looking, Looking!Nearby(c)
    PROVE  LookingInv'
  <1>1. c \in Looking!Load /\ LookingLoadOK(c) /\ LookingSeen(c.data)
    BY LookingLoadTyped DEF Looking!Nearby
  <1>h. PICK here \in BOOLEAN : Looking!Becomes(c, [c EXCEPT !.count = "members", !.data.nearby = here])
    BY DEF Looking!Nearby
  <1>d. PICK data : data = [c.data EXCEPT !.nearby = here]
    OBVIOUS
  <1>t. data \in Looking!Data
    BY <1>1, <1>d DEF Looking!Load, Looking!Data
  <1>s. /\ data.wasElite = c.data.wasElite /\ data.wasIn = c.data.wasIn /\ data.clear = c.data.clear
        /\ data.rows = c.data.rows /\ data.matches = c.data.matches
    BY <1>1, <1>d DEF Looking!Load, Looking!Data
  <1>2. PICK d : d = [c EXCEPT !.count = "members", !.data = data]
    OBVIOUS
  <1>e. [c EXCEPT !.count = "members", !.data.nearby = here] = d
    BY <1>1, <1>d, <1>2 DEF Looking!Load, Looking!Data
  <1>3. d \in Looking!Load /\ Looking!Becomes(c, d)
    BY <1>1, <1>h, <1>e, <1>t, <1>2 DEF Looking!Load, Looking!CountSteps
  <1>4. LookingLoadOK(d) /\ LookingSeen(d.data)
    BY <1>1, <1>s, <1>2 DEF Looking!Load, LookingLoadOK, LookingSeen, Looking!Nearby
  <1> QED
    BY <1>2, <1>3, <1>4, LookingStepKeeps DEF Looking!Nearby

LEMMA LookingBreakdownKeeps ==
    ASSUME LookingInv, NEW c \in looking, Looking!MemberBreakdown(c)
    PROVE  LookingInv'
  <1>1. c \in Looking!Load /\ LookingLoadOK(c) /\ LookingSeen(c.data)
    BY LookingLoadTyped DEF Looking!MemberBreakdown
  <1>d. PICK data : data = [c.data EXCEPT !.members = TRUE]
    OBVIOUS
  <1>t. data \in Looking!Data
    BY <1>1, <1>d DEF Looking!Load, Looking!Data
  <1>s. /\ data.wasElite = c.data.wasElite /\ data.wasIn = c.data.wasIn /\ data.clear = c.data.clear
        /\ data.rows = c.data.rows /\ data.matches = c.data.matches
    BY <1>1, <1>d DEF Looking!Load, Looking!Data
  <1>2. PICK d : d = [c EXCEPT !.count = "done", !.data = data]
    OBVIOUS
  <1>3. d \in Looking!Load /\ Looking!Becomes(c, d)
    BY <1>1, <1>d, <1>t, <1>2 DEF Looking!Load, Looking!CountSteps, Looking!MemberBreakdown
  <1>4. LookingLoadOK(d) /\ LookingSeen(d.data)
    BY <1>1, <1>s, <1>2 DEF Looking!Load, LookingLoadOK, LookingSeen, Looking!MemberBreakdown
  <1> QED
    BY <1>2, <1>3, <1>4, LookingStepKeeps DEF Looking!MemberBreakdown

\* The checks of the matches, and the two lists they lead to.
LEMMA LookingChecksKeep ==
    ASSUME LookingInv, NEW c \in looking,
           Looking!RequireJoined(c) \/ Looking!RequireElite(c) \/ Looking!BlockedUserIds(c) \/ Looking!FindPosts(c)
    PROVE  LookingInv'
  <1>0. c.match # "done" /\ others \subseteq Matches /\ Looking!Reads
    BY DEF Looking!RequireJoined, Looking!RequireElite, Looking!BlockedUserIds, Looking!FindPosts,
       LookingInv, Looking!TypeOK
  <1>1. /\ c \in Looking!Load /\ LookingLoadOK(c) /\ LookingSeen(c.data)
        /\ others \subseteq Matches /\ Looking!Reads
    BY <1>0, LookingLoadTyped
  <1>2. CASE Looking!RequireJoined(c)
    <2>1. PICK d : d = [c EXCEPT !.match = IF isIn THEN "elite" ELSE "failed"]
      OBVIOUS
    <2>2. d \in Looking!Load
      BY <1>1, <2>1 DEF Looking!Load, Looking!MatchSteps
    <2>3. LookingLoadOK(d) /\ LookingSeen(d.data)
      BY <1>1, <2>1 DEF Looking!Load, LookingLoadOK
    <2> QED
      BY <1>1, <1>2, <2>1, <2>2, <2>3, LookingStepKeeps DEF Looking!RequireJoined
  <1>3. CASE Looking!RequireElite(c)
    <2>1. PICK d : d = [c EXCEPT !.match = IF held = "ELITE" THEN "blocked" ELSE "done"]
      OBVIOUS
    <2>2. d \in Looking!Load
      BY <1>1, <2>1 DEF Looking!Load, Looking!MatchSteps
    <2>3. LookingLoadOK(d) /\ LookingSeen(d.data)
      BY <1>1, <1>3, <2>1 DEF Looking!Load, LookingLoadOK, Looking!RequireElite
    <2> QED
      BY <1>1, <1>3, <2>1, <2>2, <2>3, LookingStepKeeps DEF Looking!RequireElite
  <1>4. CASE Looking!BlockedUserIds(c)
    <2>1. PICK d : d = [c EXCEPT !.match = "rows", !.blocked = Matches \ Looking!Unblocked]
      OBVIOUS
    <2>2. d \in Looking!Load
      BY <1>1, <2>1 DEF Looking!Load, Looking!MatchSteps
    <2>3. LookingLoadOK(d) /\ LookingSeen(d.data)
      BY <1>1, <1>4, <2>1 DEF Looking!Load, LookingLoadOK, Looking!BlockedUserIds
    <2> QED
      BY <1>1, <1>4, <2>1, <2>2, <2>3, LookingStepKeeps DEF Looking!BlockedUserIds
  <1>5. CASE Looking!FindPosts(c)
    <2>1. PICK d : d = [c EXCEPT !.match = "connections", !.found = Looking!Found(c), !.blocked = {}]
      OBVIOUS
    <2>2. d \in Looking!Load /\ Looking!Found(c) \subseteq Matches \ c.blocked
      BY <1>1, <2>1 DEF Looking!Load, Looking!MatchSteps, Looking!Found
    <2>3. LookingLoadOK(d) /\ LookingSeen(d.data)
      BY <1>1, <1>5, <2>1, <2>2 DEF Looking!Load, LookingLoadOK, Looking!FindPosts
    <2> QED
      BY <1>1, <1>5, <2>1, <2>2, <2>3, LookingStepKeeps DEF Looking!FindPosts
  <1> QED
    BY <1>2, <1>3, <1>4, <1>5

LEMMA LookingConnectionsKeeps ==
    ASSUME LookingInv, NEW c \in looking, Looking!Connections(c)
    PROVE  LookingInv'
  <1>1. /\ c \in Looking!Load /\ LookingLoadOK(c) /\ LookingSeen(c.data)
        /\ pairs \in [Matches -> Looking!Relations]
    BY LookingLoadTyped DEF Looking!Connections, LookingInv, Looking!TypeOK
  <1>p. PICK best \in SUBSET c.found :
           Looking!Becomes(c, [c EXCEPT !.match = "done", !.found = {}, !.data.matches = TRUE,
                                        !.data.rows = {[of |-> b, connection |-> pairs[b]] : b \in best}])
    BY DEF Looking!Connections
  <1>r. PICK seenRows : seenRows = {[of |-> b, connection |-> pairs[b]] : b \in best}
    OBVIOUS
  <1>a. seenRows \subseteq Looking!Row /\ \A r \in seenRows : r.of \in c.found
    BY <1>1, <1>r DEF Looking!Load, Looking!Row
  <1>d. PICK data : data = [c.data EXCEPT !.matches = TRUE, !.rows = seenRows]
    OBVIOUS
  <1>t. data \in Looking!Data
    BY <1>1, <1>a, <1>d DEF Looking!Load, Looking!Data
  <1>s. /\ data.wasElite = c.data.wasElite /\ data.wasIn = c.data.wasIn /\ data.clear = c.data.clear
        /\ data.rows = seenRows
    BY <1>1, <1>d DEF Looking!Load, Looking!Data
  <1>2. PICK d : d = [c EXCEPT !.match = "done", !.found = {}, !.data = data]
    OBVIOUS
  <1>3. d \in Looking!Load
    BY <1>1, <1>t, <1>2 DEF Looking!Load, Looking!MatchSteps
  <1>b. Looking!Becomes(c, d)
    BY <1>1, <1>p, <1>r, <1>d, <1>2 DEF Looking!Load
  <1>4. LookingLoadOK(d) /\ LookingSeen(d.data)
    BY <1>1, <1>a, <1>s, <1>2 DEF Looking!Load, LookingLoadOK, LookingSeen, Looking!Connections
  <1> QED
    BY <1>3, <1>b, <1>4, LookingStepKeeps DEF Looking!Connections

LEMMA LookingFailKeeps == ASSUME LookingInv, NEW c \in looking, Looking!Fail(c) PROVE LookingInv'
  <1>1. c \in Looking!Load /\ LookingLoadOK(c) /\ LookingSeen(c.data)
    BY LookingLoadTyped DEF Looking!Fail
  <1>2. PICK d : /\ Looking!Becomes(c, d)
                 /\ \/ d = [c EXCEPT !.count = "failed"]
                    \/ d = [c EXCEPT !.match = "failed", !.blocked = {}, !.found = {}]
    BY DEF Looking!Fail
  <1>3. d \in Looking!Load
    BY <1>1, <1>2 DEF Looking!Load, Looking!CountSteps, Looking!MatchSteps
  <1>4. LookingLoadOK(d) /\ LookingSeen(d.data)
    BY <1>1, <1>2 DEF Looking!Load, LookingLoadOK
  <1> QED
    BY <1>2, <1>3, <1>4, LookingStepKeeps DEF Looking!Fail

\* What the screen does with what is there: what comes of it is still for the viewer to see.
LEMMA LookingScreenKeeps ==
    ASSUME LookingInv, UNCHANGED <<held, isIn, others, pairs, meanwhile>>, loads' \in 0..MaxLoads,
           panel' \in LookingPanel, LookingSeen(panel.data)',
           \A c \in looking' : c \in looking \/ (c \in Looking!Load /\ LookingSeen(c.data) /\ LookingLoadOK(c))
                                             \/ (c \in Looking!Connect /\ LookingSeen(c.data))
    PROVE  LookingInv'
  <1>1. Looking!TypeOK'
    BY DEF LookingInv, Looking!TypeOK, LookingPanel
  <1>2. ASSUME NEW e, LookingLoadOK(e) PROVE LookingLoadOK(e)'
    BY <1>2 DEF LookingLoadOK, Looking!Unblocked
  <1>3. \A c \in Looking!Connect : c.kind # "load"
    BY DEF Looking!Connect
  <1>4. \A c \in looking' : LookingSeen(c.data)' /\ (c.kind = "load" => LookingLoadOK(c)')
    BY <1>2, <1>3 DEF LookingInv, LookingSeen
  <1> QED
    BY <1>1, <1>4 DEF LookingInv

LEMMA LookingNothingSeen == Looking!Nothing \in Looking!Data /\ LookingSeen(Looking!Nothing)
  BY DEF Looking!Nothing, Looking!Data, LookingSeen

LEMMA LookingAsksKeep ==
    ASSUME LookingInv, Looking!Open \/ Looking!Focus \/ Looking!Around
    PROVE  LookingInv'
  <1>1. PICK joined \in BOOLEAN : Looking!Ask(joined)
    BY DEF LookingInv, Looking!TypeOK, Looking!Open, Looking!Focus, Looking!Around
  <1>a. PICK queries : queries = Looking!Asked
    OBVIOUS
  <1>b. /\ queries \in Looking!Data /\ LookingSeen(queries) /\ queries.wasElite = (held = "ELITE")
        /\ queries.wasIn = isIn
        /\ queries.clear = Looking!Unblocked
    BY <1>a DEF Looking!Asked, Looking!Nothing, Looking!Data, LookingSeen, Looking!Unblocked,
       LookingInv, Looking!TypeOK
  <1>2. PICK c : c = [kind |-> "load", count |-> "plan",
                      match |-> IF joined THEN "joined" ELSE "done", to |-> "none",
                      blocked |-> {}, found |-> {}, result |-> "none", heard |-> TRUE, data |-> queries]
    OBVIOUS
  <1>3. c \in Looking!Load
    BY <1>b, <1>2 DEF Looking!Load, Looking!CountSteps, Looking!MatchSteps
  <1>4. LookingSeen(c.data) /\ LookingLoadOK(c)
    BY <1>b, <1>2 DEF LookingLoadOK
  <1>5. looking' = looking \cup {c} /\ loads' = loads + 1 /\ loads < MaxLoads
    BY <1>1, <1>2, <1>a DEF Looking!Ask, Looking!CanAsk
  <1>6. loads' \in 0..MaxLoads
    BY <1>5, BoundsAssumption DEF LookingInv, Looking!TypeOK
  <1>7. panel' \in LookingPanel /\ LookingSeen(panel.data)'
    <2>1. CASE Looking!Open
      <3>1. /\ panel' = [open |-> TRUE, joined |-> isIn, loaded |-> FALSE, data |-> Looking!Nothing]
            /\ isIn \in BOOLEAN
        BY <2>1 DEF Looking!Open, LookingInv, Looking!TypeOK
      <3>2. panel' \in LookingPanel /\ panel'.data = Looking!Nothing
        BY <3>1, LookingNothingSeen DEF LookingPanel
      <3> QED
        BY <3>2, LookingNothingSeen DEF LookingSeen
    <2>2. CASE Looking!Focus
      BY <2>2 DEF Looking!Focus, LookingInv, LookingSeen
    <2>3. CASE Looking!Around
      <3>1. /\ panel' = [panel EXCEPT !.joined = isIn] /\ isIn \in BOOLEAN
            /\ panel \in LookingPanel /\ LookingSeen(panel.data)
        BY <2>3 DEF Looking!Around, LookingInv, Looking!TypeOK
      <3>2. panel' \in LookingPanel /\ panel'.data = panel.data
        BY <3>1 DEF LookingPanel
      <3> QED
        BY <3>1, <3>2 DEF LookingSeen
    <2> QED
      BY <2>1, <2>2, <2>3
  <1> QED
    BY <1>1, <1>3, <1>4, <1>5, <1>6, <1>7, LookingScreenKeeps DEF Looking!Ask

LEMMA LookingCloseKeeps == ASSUME LookingInv, Looking!Close PROVE LookingInv'
  <1>1. panel' \in LookingPanel /\ LookingSeen(panel.data)' /\ loads' \in 0..MaxLoads
    BY LookingNothingSeen DEF Looking!Close, LookingPanel, LookingSeen, LookingInv, Looking!TypeOK
  <1>2. ASSUME NEW d \in looking' PROVE d \in Looking!Connect /\ LookingSeen(d.data)
    <2>1. PICK c \in looking : c.kind = "connect" /\ d = [c EXCEPT !.heard = FALSE]
      BY DEF Looking!Close
    <2>2. c \in Looking!Connect /\ LookingSeen(c.data)
      BY <2>1, LookingCallTyped
    <2> QED
      BY <2>1, <2>2 DEF Looking!Connect
  <1> QED
    BY <1>1, <1>2, LookingScreenKeeps DEF Looking!Close

LEMMA LookingLoadedKeeps ==
    ASSUME LookingInv, NEW c \in looking, Looking!Loaded(c)
    PROVE  LookingInv'
  <1>1. /\ c.data \in Looking!Data /\ LookingSeen(c.data) /\ panel \in LookingPanel
        /\ LookingSeen(panel.data)
    BY LookingCallTyped DEF LookingInv
  <1>2. PICK s : s = IF "failed" \in {c.count, c.match} THEN panel
                     ELSE [panel EXCEPT !.loaded = TRUE, !.data = c.data]
    OBVIOUS
  <1>3. s \in LookingPanel /\ LookingSeen(s.data)
    BY <1>1, <1>2 DEF LookingPanel
  <1>4. panel' = s /\ looking' \subseteq looking /\ loads' \in 0..MaxLoads
    BY <1>2 DEF Looking!Loaded, LookingInv, Looking!TypeOK
  <1>5. panel' \in LookingPanel /\ LookingSeen(panel.data)'
    BY <1>3, <1>4 DEF LookingSeen
  <1> QED
    BY <1>4, <1>5, LookingScreenKeeps DEF Looking!Loaded

LEMMA LookingPressKeeps ==
    ASSUME LookingInv, NEW b \in Matches, Looking!PressConnect(b)
    PROVE  LookingInv'
  <1>1. PICK c : c = [kind |-> "connect", count |-> "done", match |-> "done", to |-> b,
                      blocked |-> {}, found |-> {}, result |-> "none", heard |-> TRUE, data |-> panel.data]
    OBVIOUS
  <1>2. c \in Looking!Connect /\ LookingSeen(c.data)
    BY <1>1 DEF LookingInv, Looking!TypeOK, Looking!Connect
  <1>3. /\ panel' \in LookingPanel /\ LookingSeen(panel.data)' /\ loads' \in 0..MaxLoads
        /\ looking' = looking \cup {c}
        /\ UNCHANGED <<held, isIn, others, pairs, meanwhile>>
    BY <1>1 DEF Looking!PressConnect, Looking!Reads, LookingInv, Looking!TypeOK, LookingSeen
  <1> QED
    BY <1>2, <1>3, LookingScreenKeeps

LEMMA LookingConnectedKeeps ==
    ASSUME LookingInv, NEW c \in looking, Looking!Connected(c)
    PROVE  LookingInv'
  <1>1. /\ c \in Looking!Connect /\ c.data \in Looking!Data /\ LookingSeen(c.data)
        /\ panel \in LookingPanel /\ LookingSeen(panel.data)
    BY LookingCallTyped DEF LookingInv, Looking!Connected
  <1>2. PICK s : s = IF c.result = "failed" \/ ~c.heard THEN panel
                     ELSE [panel EXCEPT !.data = Looking!WithConnection(c.data, c.to, c.result)]
    OBVIOUS
  <1>3. panel' = s /\ looking' \subseteq looking /\ loads' \in 0..MaxLoads
    BY <1>2 DEF Looking!Connected, LookingInv, Looking!TypeOK
  <1>4. s \in LookingPanel /\ LookingSeen(s.data)
    <2>1. CASE s = panel
      BY <1>1, <2>1
    <2>2. CASE s # panel
      <3>0. c.result \in Looking!Relations
        BY <1>1, <1>2, <2>2 DEF Looking!Connected, Looking!Connect, Looking!Relations
      <3>1. PICK seenRows : seenRows = {IF r.of = c.to THEN [r EXCEPT !.connection = c.result] ELSE r : r \in c.data.rows}
        OBVIOUS
      <3>2. \A r \in c.data.rows : r \in Looking!Row /\ r.of \in c.data.clear
        BY <1>1 DEF Looking!Data, LookingSeen
      <3>3. \A r \in seenRows : r \in Looking!Row /\ r.of \in c.data.clear
        BY <3>0, <3>1, <3>2 DEF Looking!Row
      <3>4. PICK data : data = [c.data EXCEPT !.rows = seenRows]
        OBVIOUS
      <3>5. data = Looking!WithConnection(c.data, c.to, c.result)
        BY <1>1, <3>1, <3>4 DEF Looking!WithConnection, Looking!Data
      <3>6. data \in Looking!Data
        BY <1>1, <3>3, <3>4 DEF Looking!Data
      <3>7. LookingSeen(data)
        BY <1>1, <3>3, <3>4 DEF Looking!Data, LookingSeen
      <3> QED
        BY <1>1, <1>2, <2>2, <3>5, <3>6, <3>7 DEF LookingPanel
    <2> QED
      BY <2>1, <2>2
  <1>5. panel' \in LookingPanel /\ LookingSeen(panel.data)'
    BY <1>3, <1>4 DEF LookingSeen
  <1> QED
    BY <1>3, <1>5, LookingScreenKeeps DEF Looking!Connected

LEMMA LookingRequestKeeps ==
    ASSUME LookingInv, NEW c \in looking, Looking!Request(c)
    PROVE  LookingInv'
  <1>1. c \in Looking!Connect /\ c.data \in Looking!Data /\ LookingSeen(c.data) /\ c.to \in Matches
    BY LookingCallTyped DEF Looking!Request, Looking!Connect
  <1>2. PICK d : /\ d = [c EXCEPT !.result = "PENDING"] \/ d = [c EXCEPT !.result = "failed"]
                 /\ Looking!Becomes(c, d)
    BY DEF Looking!Request
  <1>3. d \in Looking!Connect /\ LookingSeen(d.data) /\ d.kind # "load"
    BY <1>1, <1>2 DEF Looking!Connect, Looking!Relations
  <1>4. \/ pairs' = pairs
        \/ pairs[c.to] = "none" /\ pairs' = [pairs EXCEPT ![c.to] = "PENDING"]
    BY DEF Looking!Request
  <1>5. pairs' \in [Matches -> Looking!Relations] /\ Looking!Unblocked' = Looking!Unblocked
    BY <1>1, <1>4 DEF LookingInv, Looking!TypeOK, Looking!Relations, Looking!Unblocked
  <1>6. UNCHANGED <<held, isIn, others, panel, loads, meanwhile>>
    BY DEF Looking!Request
  <1>7. Looking!TypeOK' /\ panel' \in LookingPanel /\ LookingSeen(panel.data)'
    BY <1>2, <1>3, <1>5, <1>6 DEF LookingInv, Looking!TypeOK, Looking!Becomes, LookingSeen
  <1>8. ASSUME NEW e, LookingLoadOK(e) PROVE LookingLoadOK(e)'
    BY <1>5, <1>6, <1>8 DEF LookingLoadOK
  <1>9. \A e \in looking' : LookingSeen(e.data)' /\ (e.kind = "load" => LookingLoadOK(e)')
    BY <1>2, <1>3, <1>8 DEF LookingInv, Looking!Becomes, LookingSeen
  <1> QED
    BY <1>7, <1>9 DEF LookingInv

\* What happens meanwhile is remembered by the loads under way.
LEMMA LookingRememberKeeps ==
    ASSUME LookingInv, NEW wasElite \in BOOLEAN, NEW joined \in BOOLEAN,
           NEW clear \in SUBSET Matches,
           Looking!Remember(wasElite, joined, clear),
           held' \in Looking!Plans, isIn' \in BOOLEAN, others' \subseteq Matches, pairs' \in [Matches -> Looking!Relations],
           held' = "ELITE" => wasElite \/ held = "ELITE",
           isIn' => joined \/ isIn,
           Looking!Unblocked' \subseteq Looking!Unblocked \cup clear
    PROVE  LookingInv'
  <1>1. ASSUME NEW e \in looking'
        PROVE  e \in Looking!Load \cup Looking!Connect /\ LookingSeen(e.data) /\ (e.kind = "load" => LookingLoadOK(e)')
    <2>1. PICK c \in looking : e = IF c.kind = "connect" THEN c
                                   ELSE [c EXCEPT !.data.wasElite = @ \/ wasElite, !.data.wasIn = @ \/ joined,
                                                  !.data.clear = @ \cup clear]
      BY DEF Looking!Remember
    <2>2. CASE c.kind = "connect"
      BY <2>1, <2>2, LookingCallTyped
    <2>3. CASE c.kind # "connect"
      <3>1. c \in Looking!Load /\ LookingSeen(c.data) /\ LookingLoadOK(c) /\ c.data \in Looking!Data
        BY <2>3, LookingCallTyped DEF Looking!Load, Looking!Connect
      <3>2. PICK data : data = [c.data EXCEPT !.wasElite = @ \/ wasElite, !.wasIn = @ \/ joined, !.clear = @ \cup clear]
        OBVIOUS
      <3>3. e = [c EXCEPT !.data = data]
        BY <2>1, <2>3, <3>1, <3>2 DEF Looking!Load, Looking!Data
      <3>4. data \in Looking!Data
        BY <3>1, <3>2 DEF Looking!Data
      <3>5. /\ data.wasElite = (c.data.wasElite \/ wasElite) /\ data.wasIn = (c.data.wasIn \/ joined)
            /\ data.clear = c.data.clear \cup clear /\ data.rows = c.data.rows
            /\ data.nearby = c.data.nearby /\ data.members = c.data.members
            /\ data.matches = c.data.matches
        BY <3>1, <3>2 DEF Looking!Data
      <3>6. LookingSeen(data)
        BY <3>1, <3>5 DEF LookingSeen
      <3>7. e \in Looking!Load
        BY <3>1, <3>3, <3>4 DEF Looking!Load
      <3>8. /\ e.data = data /\ e.count = c.count /\ e.match = c.match /\ e.blocked = c.blocked
            /\ e.found = c.found
        BY <3>1, <3>3 DEF Looking!Load
      <3>9. LookingLoadOK(e)'
        BY <3>1, <3>5, <3>8 DEF LookingLoadOK
      <3> QED
        BY <3>6, <3>7, <3>8, <3>9
    <2> QED
      BY <2>2, <2>3
  <1>2. meanwhile' \in 0..MaxChanges /\ UNCHANGED <<panel, loads>>
    <2>1. meanwhile \in 0..MaxChanges /\ meanwhile < MaxChanges /\ meanwhile' = meanwhile + 1
          /\ UNCHANGED <<panel, loads>>
      BY DEF Looking!Remember, LookingInv, Looking!TypeOK
    <2> QED
      BY <2>1, BoundsAssumption
  <1>3. Looking!TypeOK'
    BY <1>1, <1>2 DEF LookingInv, Looking!TypeOK
  <1>4. panel' \in LookingPanel /\ LookingSeen(panel.data)'
    BY <1>2 DEF LookingInv, LookingSeen
  <1>5. \A e \in looking' : LookingSeen(e.data)'
    BY <1>1 DEF LookingSeen
  <1> QED
    BY <1>1, <1>3, <1>4, <1>5 DEF LookingInv

LEMMA LookingMeanwhileKeeps ==
    ASSUME LookingInv,
           Looking!PassChanges \/ Looking!JoinOrLeave \/ Looking!PostChanges \/ \E b \in Matches : Looking!Relate(b)
    PROVE  LookingInv'
  <1>0. /\ held \in Looking!Plans /\ isIn \in BOOLEAN /\ others \subseteq Matches
        /\ pairs \in [Matches -> Looking!Relations]
        /\ {} \in SUBSET Matches
    BY DEF LookingInv, Looking!TypeOK
  <1>1. CASE Looking!PassChanges
    <2>1. PICK wasElite \in BOOLEAN : wasElite = (held' = "ELITE") /\ Looking!Remember(wasElite, isIn, {})
      BY <1>1 DEF Looking!PassChanges
    <2>2. /\ held' \in Looking!Plans /\ UNCHANGED <<isIn, others, pairs>>
          /\ Looking!Unblocked' = Looking!Unblocked
      BY <1>1 DEF Looking!PassChanges, Looking!Unblocked
    <2> QED
      BY <1>0, <2>1, <2>2, LookingRememberKeeps
  <1>2. CASE Looking!JoinOrLeave
    <2>1. PICK joined \in BOOLEAN : joined = isIn' /\ Looking!Remember(FALSE, joined, {})
      BY <1>0, <1>2 DEF Looking!JoinOrLeave
    <2>2. UNCHANGED <<held, others, pairs>> /\ Looking!Unblocked' = Looking!Unblocked
      BY <1>2 DEF Looking!JoinOrLeave, Looking!Unblocked
    <2> QED
      BY <1>0, <2>1, <2>2, LookingRememberKeeps
  <1>3. CASE Looking!PostChanges
    <2>1. /\ Looking!Remember(FALSE, FALSE, {}) /\ UNCHANGED <<held, isIn, pairs>>
          /\ Looking!Unblocked' = Looking!Unblocked
          /\ others' \subseteq Matches
      BY <1>0, <1>3 DEF Looking!PostChanges, Looking!Unblocked
    <2> QED
      BY <1>0, <2>1, LookingRememberKeeps
  <1>4. ASSUME NEW b \in Matches, Looking!Relate(b) PROVE LookingInv'
    <2>1. PICK clear \in SUBSET Matches : /\ clear = IF pairs'[b] = "BLOCKED" THEN {} ELSE {b}
                                          /\ Looking!Remember(FALSE, FALSE, clear)
      BY <1>4 DEF Looking!Relate
    <2>2. PICK r \in Looking!Relations : pairs' = [pairs EXCEPT ![b] = r]
      BY <1>4 DEF Looking!Relate, Looking!Relations
    <2>3. pairs' \in [Matches -> Looking!Relations] /\ UNCHANGED <<held, isIn, others>>
      BY <1>0, <1>4, <2>2 DEF Looking!Relate
    <2>4. Looking!Unblocked' \subseteq Looking!Unblocked \cup clear
      BY <1>0, <2>1, <2>2 DEF Looking!Unblocked
    <2> QED
      BY <1>0, <2>1, <2>3, <2>4, LookingRememberKeeps
  <1> QED
    BY <1>1, <1>2, <1>3, <1>4

LEMMA LookingInitially == Looking!Init => LookingInv
  BY LookingNothingSeen, BoundsAssumption DEF Looking!Init, LookingInv, Looking!TypeOK,
     LookingPanel, Looking!Plans, Looking!Relations

LEMMA LookingSteps == ASSUME LookingInv, Looking!Next PROVE LookingInv'
  BY LookingPlanKeeps, LookingNearbyKeeps, LookingBreakdownKeeps, LookingChecksKeep,
     LookingConnectionsKeeps, LookingFailKeeps, LookingLoadedKeeps,
     LookingRequestKeeps, LookingConnectedKeeps, LookingAsksKeep, LookingCloseKeeps, LookingPressKeeps, LookingMeanwhileKeeps DEF Looking!Next

LEMMA LookingShows == ASSUME LookingInv PROVE Looking!SeesWhatMayBeSeen
  BY DEF LookingInv, LookingSeen, Looking!SeesWhatMayBeSeen

-----------------------------------------------------------------------------
(* Whatever goes on keeps its own invariant, and the files rest or keep theirs. *)

Doings == {"files", "activities", "search", "directs", "joining", "trips", "insights",
           "lists", "posts", "moderation", "matching"}

CommunityInv ==
    /\ doing \in Doings
    /\ doing = "files" => FilesInv
    /\ doing # "files" => FilesRest
    /\ doing = "activities" => PlanningInv
    /\ doing = "search" => ChoosingInv
    /\ doing = "directs" => MeetingInv
    /\ doing = "joining" => GettingInv
    /\ doing = "trips" => TravellingInv
    /\ doing = "insights" => LookingInv
    /\ doing = "lists" => ListingInv
    /\ doing = "posts" => PostingInv
    /\ doing = "moderation" => ModeratingInv
    /\ doing = "matching" => ScoringInv

LEMMA CommunityInitially == CommunityInit => CommunityInv
  <1> SUFFICES ASSUME CommunityInit PROVE CommunityInv
    OBVIOUS
  <1>1. doing \in Doings /\ (doing = "files" => Init) /\ (doing # "files" => FilesRest)
    BY DEF CommunityInit, Doings
  <1>2. /\ doing = "activities" => Planning!Init
        /\ doing = "search" => Choosing!Init
        /\ doing = "directs" => Meeting!Init
        /\ doing = "joining" => Getting!Init
        /\ doing = "trips" => Travelling!Init
        /\ doing = "insights" => Looking!Init
        /\ doing = "lists" => Listing!Init
        /\ doing = "posts" => Posting!Init
        /\ doing = "moderation" => Moderating!Init
        /\ doing = "matching" => Scoring!Init
    BY DEF CommunityInit
  <1> QED
    BY <1>1, <1>2, FilesInitially, PlanningInitially, ChoosingInitially, MeetingInitially,
       GettingInitially, TravellingInitially, LookingInitially, ListingInitially,
       PostingInitially, ModeratingInitially, ScoringInitially
       DEF CommunityInv

\* What rests stays at rest.
LEMMA FilesStay == ASSUME FilesRest, UNCHANGED filing PROVE FilesRest'
  BY DEF FilesRest, filing

\* What takes no step keeps its invariant.
LEMMA PlanningStays == ASSUME PlanningInv, UNCHANGED planning PROVE PlanningInv'
  BY DEF planning, PlanningInv, Planning!TypeOK, PlanningKnows, Planning!Exists, PlanningCallOK,
     PlanningSettled, PlanningPending, PlanningAgrees, Planning!Own

LEMMA ChoosingStays == ASSUME ChoosingInv, UNCHANGED choosing PROVE ChoosingInv'
  BY DEF choosing, ChoosingInv, Choosing!TypeOK, ChoosingCurrent, Choosing!Found

LEMMA MeetingStays == ASSUME MeetingInv, UNCHANGED meeting PROVE MeetingInv'
  BY DEF meeting, MeetingInv, Meeting!TypeOK, Meeting!Call, MeetingFounded, MeetingCredited,
     MeetingCallOK, MeetingCounted, MeetingSpends, Meeting!OfPass, Meeting!UnderWay,
     MeetingCharges

LEMMA GettingStays == ASSUME GettingInv, UNCHANGED getting PROVE GettingInv'
  BY DEF getting, GettingInv, GettingRemembered, Getting!InOne, Getting!Status, Getting!TypeOK,
     Getting!Call, Getting!Screen

LEMMA TravellingStays == ASSUME TravellingInv, UNCHANGED travelling PROVE TravellingInv'
  BY DEF travelling, TravellingInv, Travelling!TypeOK, TravellingChecked

LEMMA LookingStays == ASSUME LookingInv, UNCHANGED insights PROVE LookingInv'
  BY DEF insights, LookingInv, Looking!TypeOK, LookingSeen, LookingLoadOK, Looking!Unblocked

LEMMA ListingStays == ASSUME ListingInv, UNCHANGED listing PROVE ListingInv'
  BY DEF listing, ListingInv, ListingCoveredSoFar, ListingCovered, ListingLeft, Listing!After,
     Listing!Before, ListingAwaited, ListingAwaitedOne, ListingLoadsSent, ListingRowsExist,
     ListingKnown, ListingCreated, Listing!TypeOK, Listing!Flight, Listing!Screen,
     ListingAwaitedFit, ListingAsks, ListingAnswers, ListingSteadyMatch

LEMMA PostingStays == ASSUME PostingInv, UNCHANGED posting PROVE PostingInv'
  BY DEF posting, PostingInv, PostingCallsFit, PostingFits, Posting!Exists, PostingDevicesStand,
     PostingStands, Posting!TypeOK, Posting!HistoryTellsLevel, Posting!OneActivePost

LEMMA ModeratingStays == ASSUME ModeratingInv, UNCHANGED moderating PROVE ModeratingInv'
  BY DEF moderating, ModeratingInv, ModeratingLogOK, Moderating!AuditTellsState, Moderating!Tells,
     Moderating!About, ModeratingPagesOK, Moderating!TypeOK, ModeratingRequestOK,
     ModeratingFiledOnce, ModeratingUnfiled

LEMMA ScoringStays == ASSUME ScoringInv, UNCHANGED scoring PROVE ScoringInv'
  BY DEF scoring, ScoringInv, Scoring!TypeOK

\* Every step keeps the invariant of what goes on.
LEMMA CommunitySteps == CommunityInv /\ [CommunityNext]_community => CommunityInv'
  <1> SUFFICES ASSUME CommunityInv, [CommunityNext]_community PROVE CommunityInv'
    OBVIOUS
  <1>0. doing \in Doings /\ doing' = doing
    BY DEF CommunityInv, CommunityNext, community
  <1>1. doing' = "files" => FilesInv'
    <2> SUFFICES ASSUME doing = "files" PROVE FilesInv'
      BY <1>0
    <2>1. FilesInv /\ [Next]_filing
      BY DEF CommunityInv, CommunityNext, community
    <2> QED
      BY <2>1, FilesSteps
  <1>2. doing' # "files" => FilesRest'
    <2> SUFFICES ASSUME doing # "files" PROVE FilesRest'
      BY <1>0
    <2>1. FilesRest /\ UNCHANGED filing
      BY DEF CommunityInv, CommunityNext, community
    <2> QED
      BY <2>1, FilesStay
  <1>3. doing' = "activities" => PlanningInv'
    <2> SUFFICES ASSUME doing = "activities" PROVE PlanningInv'
      BY <1>0
    <2>1. PlanningInv /\ (Planning!Next \/ UNCHANGED planning)
      BY DEF CommunityInv, CommunityNext, community
    <2> QED
      BY <2>1, PlanningSteps, PlanningStays
  <1>4. doing' = "search" => ChoosingInv'
    <2> SUFFICES ASSUME doing = "search" PROVE ChoosingInv'
      BY <1>0
    <2>1. ChoosingInv /\ (Choosing!Next \/ UNCHANGED choosing)
      BY DEF CommunityInv, CommunityNext, community
    <2> QED
      BY <2>1, ChoosingSteps, ChoosingStays
  <1>5. doing' = "directs" => MeetingInv'
    <2> SUFFICES ASSUME doing = "directs" PROVE MeetingInv'
      BY <1>0
    <2>1. MeetingInv /\ (Meeting!Next \/ UNCHANGED meeting)
      BY DEF CommunityInv, CommunityNext, community
    <2> QED
      BY <2>1, MeetingSteps, MeetingStays
  <1>6. doing' = "joining" => GettingInv'
    <2> SUFFICES ASSUME doing = "joining" PROVE GettingInv'
      BY <1>0
    <2>1. GettingInv /\ (Getting!Next \/ UNCHANGED getting)
      BY DEF CommunityInv, CommunityNext, community
    <2> QED
      BY <2>1, GettingSteps, GettingStays
  <1>7. doing' = "trips" => TravellingInv'
    <2> SUFFICES ASSUME doing = "trips" PROVE TravellingInv'
      BY <1>0
    <2>1. TravellingInv /\ (Travelling!Next \/ UNCHANGED travelling)
      BY DEF CommunityInv, CommunityNext, community
    <2> QED
      BY <2>1, TravellingSteps, TravellingStays
  <1>8. doing' = "insights" => LookingInv'
    <2> SUFFICES ASSUME doing = "insights" PROVE LookingInv'
      BY <1>0
    <2>1. LookingInv /\ (Looking!Next \/ UNCHANGED insights)
      BY DEF CommunityInv, CommunityNext, community
    <2> QED
      BY <2>1, LookingSteps, LookingStays
  <1>9. doing' = "lists" => ListingInv'
    <2> SUFFICES ASSUME doing = "lists" PROVE ListingInv'
      BY <1>0
    <2>1. ListingInv /\ (Listing!Next \/ UNCHANGED listing)
      BY DEF CommunityInv, CommunityNext, community
    <2> QED
      BY <2>1, ListingSteps, ListingStays
  <1>10. doing' = "posts" => PostingInv'
    <2> SUFFICES ASSUME doing = "posts" PROVE PostingInv'
      BY <1>0
    <2>1. PostingInv /\ (Posting!Next \/ UNCHANGED posting)
      BY DEF CommunityInv, CommunityNext, community
    <2> QED
      BY <2>1, PostingSteps, PostingStays
  <1>11. doing' = "moderation" => ModeratingInv'
    <2> SUFFICES ASSUME doing = "moderation" PROVE ModeratingInv'
      BY <1>0
    <2>1. ModeratingInv /\ (Moderating!Next \/ UNCHANGED moderating)
      BY DEF CommunityInv, CommunityNext, community
    <2> QED
      BY <2>1, ModeratingSteps, ModeratingStays
  <1>12. doing' = "matching" => ScoringInv'
    <2> SUFFICES ASSUME doing = "matching" PROVE ScoringInv'
      BY <1>0
    <2>1. ScoringInv /\ (Scoring!Next \/ UNCHANGED scoring)
      BY DEF CommunityInv, CommunityNext, community
    <2> QED
      BY <2>1, ScoringSteps, ScoringStays
  <1> QED
    BY <1>0, <1>1, <1>2, <1>3, <1>4, <1>5, <1>6, <1>7, <1>8, <1>9, <1>10, <1>11,
       <1>12 DEF CommunityInv, Doings

\* Whatever goes on keeps its invariant for ever.
THEOREM CommunityInvariant == CommunitySpec => []CommunityInv
  <1> QED
    BY CommunityInitially, CommunitySteps, PTL DEF CommunitySpec

-----------------------------------------------------------------------------
(* The theorems *)

\* Rows, requests and screens of whatever goes on stay well formed.
THEOREM CommunityTyped == CommunitySpec => []CommunityOK
  <1>1. CommunityInv => CommunityOK
    BY DEF CommunityInv, CommunityOK, FilesInv, PlanningInv, ChoosingInv, MeetingInv, GettingInv,
           TravellingInv, LookingInv, ListingInv, PostingInv, ModeratingInv, ScoringInv
  <1> QED
    BY <1>1, CommunityInvariant, PTL

\* Whatever else goes on, a file is given to those it has been put before (authorizeRead()).
THEOREM FilesReachTheirAudience == CommunitySpec => []OnlyItsAudience
  <1>1. FilesInv => OnlyItsAudience
    BY DEF FilesInv, Remembered, OnlyItsAudience
  <1>2. FilesRest => OnlyItsAudience
    BY DEF FilesRest, OnlyItsAudience
  <1>3. CommunityInv => OnlyItsAudience
    BY <1>1, <1>2 DEF CommunityInv
  <1> QED
    BY <1>3, CommunityInvariant, PTL

\* A member alone on an activity sees the answer given last (rsvp(), cancel() and list() of activities).
THEOREM AnswersAreShown == CommunitySpec => []ShowsOwnAnswers
  <1>1. CommunityInv => ShowsOwnAnswers
    BY PlanningShows DEF CommunityInv, ShowsOwnAnswers
  <1> QED
    BY <1>1, CommunityInvariant, PTL

\* A quiet screen shows what there is for what was typed and chosen (the chooser).
THEOREM SearchIsCurrent == CommunitySpec => []ShowsFound
  <1>1. CommunityInv => ShowsFound
    BY ChoosingShows DEF CommunityInv, ShowsFound
  <1> QED
    BY <1>1, CommunityInvariant, PTL

\* A direct conversation was paid for, or is between people who were connected
\* (ConversationsService); and a pass pays for no more of them than its plan has, but where requests
\* overlapped: then for no more than one each beyond it (spendDirectMessageCredit()).
THEOREM DirectsArePaid == CommunitySpec => []DirectsArePaidFor
  <1>1. CommunityInv => DirectsArePaidFor
    BY MeetingShows DEF CommunityInv, DirectsArePaidFor
  <1> QED
    BY <1>1, CommunityInvariant, PTL

\* "You're in!" is shown to those who have been in since they pressed "Join" (join()).
THEOREM ConfirmedHaveBeenIn == CommunitySpec => []ConfirmedMeansIn
  <1>1. CommunityInv => ConfirmedMeansIn
    BY GettingShows DEF CommunityInv, ConfirmedMeansIn
  <1> QED
    BY <1>1, CommunityInvariant, PTL

\* A trip was still to come in India when it was checked (isTravelWeekOpen()).
THEOREM TripsAreToCome == CommunitySpec => []TripCanBeTaken
  <1>1. CommunityInv => TripCanBeTaken
    BY TravellingShows DEF CommunityInv, TripCanBeTaken
  <1> QED
    BY <1>1, CommunityInvariant, PTL

\* What insights show was for the viewer to see at some time since it was asked for
\* (matches(), count()).
THEOREM InsightsAreForTheViewer == CommunitySpec => []SeesWhatMayBeSeen
  <1>1. CommunityInv => SeesWhatMayBeSeen
    BY LookingShows DEF CommunityInv, SeesWhatMayBeSeen
  <1> QED
    BY <1>1, CommunityInvariant, PTL

\* The last page of a list completes what was asked for, each row once, however rows change and
\* answers come (usePaged(), toPage(), afterCursor()).
THEOREM ListsAreWhole == CommunitySpec => []ListIsWhole
  <1>1. CommunityInv => ListIsWhole
    BY ListingShows DEF CommunityInv, ListIsWhole
  <1> QED
    BY <1>1, CommunityInvariant, PTL

\* What the audit log says was done to a subject is what it is (AdminService).
THEOREM AuditIsTrue == CommunitySpec => []AuditTellsState
  <1>1. CommunityInv => AuditTellsState
    BY ModeratingShows DEF CommunityInv, AuditTellsState
  <1> QED
    BY <1>1, CommunityInvariant, PTL

\* A match's score and its reasons tell the truth of any two posts (matchScore()).
THEOREM MatchesAreExplained == CommunitySpec => []MatchIsExplained
  <1>1. CommunityInv => MatchIsExplained
    BY ScoringShows DEF CommunityInv, MatchIsExplained
  <1> QED
    BY <1>1, CommunityInvariant, PTL

\* A person has one ACTIVE post of a car and city, however requests about them interleave (create(),
\* transition()).
THEOREM PostsStayUnique == CommunitySpec => []OneActivePost
  <1>1. CommunityInv => OneActivePost
    BY PostingShows DEF CommunityInv, OneActivePost
  <1> QED
    BY <1>1, CommunityInvariant, PTL

\* The last entry of a post's history is the level it has (changeLevel()).
THEOREM HistoryIsTrue == CommunitySpec => []HistoryTellsLevel
  <1>1. CommunityInv => HistoryTellsLevel
    BY PostingShows DEF CommunityInv, HistoryTellsLevel
  <1> QED
    BY <1>1, CommunityInvariant, PTL
=============================================================================
