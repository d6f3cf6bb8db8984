------------------------------- MODULE Polls -------------------------------
(***************************************************************************)
(* One poll of a collective: its votes in the database, and the screens of *)
(* its voters.  A vote reads the poll, checks, then replaces the voter's   *)
(* votes under a lock on the poll; the answers that screens draw may come  *)
(* late.  Who is an active member changes outside this module.             *)
(***************************************************************************)
EXTENDS Naturals

CONSTANTS
    Voters,     \* people
    Options,    \* what is voted on
    Screens,    \* screens with the poll open; one person may have several
    Slow,       \* bound: the screens whose answers may come late
    Kinds,      \* bound: the kinds of poll, <<more than one option, votes may change>>
    Person(_)   \* whose screen it is

VARIABLES
    present,    \* the active members of the collective
    poll,       \* the poll's row
    votes,      \* rows <<voter, option>>
    ballot,     \* ballot[s]: the vote that screen s has sent
    screen,     \* screen[s]: what s shows
    answer      \* answer[s]: the poll as an answer on its way to s has it

polls == <<poll, votes, ballot, screen, answer>>

Statuses == {"none", "ACTIVE", "CLOSED"}

\* What toDto() says of the poll to one viewer.
View == [status : Statuses, mine : SUBSET Options]
Nothing == [status |-> "none", mine |-> {}]

Row == [status : Statuses, creator : Voters, multiple : BOOLEAN, change : BOOLEAN, due : BOOLEAN]

Ballot == [step : {"idle", "check", "lock", "existing", "write", "fresh"},
           wants : SUBSET Options, replaces : BOOLEAN]
NoBallot == [step |-> "idle", wants |-> {}, replaces |-> FALSE]

Of(v, rows) == {o \in Options : <<v, o>> \in rows}
Seen(v) == [status |-> poll.status, mine |-> Of(v, votes)]
At(s, step) == ballot[s].step = step
Locked == \E s \in Screens : ballot[s].step \in {"existing", "write"}

-----------------------------------------------------------------------------
(* The poll: create(), close() and closeExpiredPolls() *)

Create(v, kind) ==
    /\ poll.status = "none"
    /\ v \in present
    /\ poll' = [status |-> "ACTIVE", creator |-> v, multiple |-> kind[1], change |-> kind[2],
                due |-> FALSE]
    /\ UNCHANGED <<votes, ballot, screen, answer>>

\* Its expiresAt passes, if it has one.
FallDue ==
    /\ poll.status = "ACTIVE" /\ ~poll.due
    /\ poll' = [poll EXCEPT !.due = TRUE]
    /\ UNCHANGED <<votes, ballot, screen, answer>>

CloseExpiredPolls ==
    /\ poll.status = "ACTIVE" /\ poll.due
    /\ poll' = [poll EXCEPT !.status = "CLOSED"]
    /\ UNCHANGED <<votes, ballot, screen, answer>>

-----------------------------------------------------------------------------
(* The screen *)

\* canVote, once "Change Vote" has been pressed where it is needed.
Voted(s) == screen[s].mine # {}
CanVote(s) == screen[s].status = "ACTIVE" /\ (~Voted(s) \/ poll.change)

\* load(), also by pulling down
Load(s) ==
    /\ poll.status # "none"
    /\ Person(s) \in present
    /\ answer[s] = Nothing
    /\ IF s \in Slow
       THEN answer' = [answer EXCEPT ![s] = Seen(Person(s))] /\ UNCHANGED screen
       ELSE screen' = [screen EXCEPT ![s] = Seen(Person(s))] /\ UNCHANGED answer
    /\ UNCHANGED <<poll, votes, ballot>>

Answer(s) ==
    /\ answer[s] # Nothing
    /\ screen' = [screen EXCEPT ![s] = answer[s]]
    /\ answer' = [answer EXCEPT ![s] = Nothing]
    /\ UNCHANGED <<poll, votes, ballot>>

\* The creator's button, once it is not needed for voting.
Close(s) ==
    /\ screen[s].status = "ACTIVE" /\ ~CanVote(s)
    /\ Person(s) = poll.creator /\ Person(s) \in present
    /\ poll' = [poll EXCEPT !.status = "CLOSED"]
    /\ screen' = [screen EXCEPT ![s] = [status |-> "CLOSED", mine |-> Of(Person(s), votes)]]
    /\ UNCHANGED <<votes, ballot, answer>>

-----------------------------------------------------------------------------
(* vote() *)

\* What toggle() can have picked.
Picks == IF poll.multiple THEN (SUBSET Options) \ {{}} ELSE {{o} : o \in Options}

\* The button, which is off until the answer comes; the handler finds the poll open.
Vote(s, picked) ==
    /\ CanVote(s) /\ At(s, "idle")
    /\ poll.status = "ACTIVE"
    /\ ballot' = [ballot EXCEPT ![s] = [NoBallot EXCEPT !.step = "check", !.wants = picked]]
    /\ UNCHANGED <<poll, votes, screen, answer>>

\* "Vote not counted"
NotCounted(s) == ballot' = [ballot EXCEPT ![s] = NoBallot]

Check(s) ==
    /\ At(s, "check")
    /\ IF Person(s) \in present /\ ~poll.due
       THEN ballot' = [ballot EXCEPT ![s].step = "lock"]
       ELSE NotCounted(s)
    /\ UNCHANGED <<poll, votes, screen, answer>>

\* Fault: votes are not serialised.
NeverLocked == TRUE

Unlocked == ~Locked

\* SELECT ... FOR UPDATE on the poll
Lock(s) ==
    /\ At(s, "lock") /\ Unlocked
    /\ ballot' = [ballot EXCEPT ![s].step = "existing"]
    /\ UNCHANGED <<poll, votes, screen, answer>>

\* Fault: an earlier vote is replaced, whatever the poll says.
AlwaysReplaces == TRUE

MayReplace == poll.change

Existing(s) ==
    LET voted == Of(Person(s), votes) # {} IN
    /\ At(s, "existing")
    /\ IF voted /\ ~MayReplace THEN NotCounted(s)
       ELSE ballot' = [ballot EXCEPT ![s].step = "write", ![s].replaces = voted]
    /\ UNCHANGED <<poll, votes, screen, answer>>

\* deleteMany, createMany and commit
Write(s) ==
    LET v == Person(s)
        old == IF ballot[s].replaces THEN {v} \X Of(v, votes) ELSE {}
        new == {v} \X ballot[s].wants IN
    /\ At(s, "write")
    /\ IF new \cap (votes \ old) # {} THEN NotCounted(s) /\ UNCHANGED votes
       ELSE /\ votes' = (votes \ old) \cup new
            /\ ballot' = [ballot EXCEPT ![s] = [NoBallot EXCEPT !.step = "fresh"]]
    /\ UNCHANGED <<poll, screen, answer>>

\* The poll is read again for the answer, which may be lost.
Fresh(s) ==
    /\ At(s, "fresh")
    /\ \/ screen' = [screen EXCEPT ![s] = Seen(Person(s))]
       \/ UNCHANGED screen
    /\ ballot' = [ballot EXCEPT ![s] = NoBallot]
    /\ UNCHANGED <<poll, votes, answer>>

-----------------------------------------------------------------------------
Init ==
    /\ poll = [status |-> "none", creator |-> CHOOSE v \in Voters : TRUE, multiple |-> FALSE,
               change |-> FALSE, due |-> FALSE]
    /\ votes = {}
    /\ ballot = [s \in Screens |-> NoBallot]
    /\ screen = [s \in Screens |-> Nothing]
    /\ answer = [s \in Screens |-> Nothing]

Next ==
    \/ \E v \in Voters, kind \in Kinds : Create(v, kind)
    \/ FallDue \/ CloseExpiredPolls
    \/ \E s \in Screens :
         \/ Load(s) \/ Answer(s) \/ Close(s)
         \/ \E picked \in Picks : Vote(s, picked)
         \/ Check(s) \/ Lock(s) \/ Existing(s) \/ Write(s) \/ Fresh(s)

-----------------------------------------------------------------------------
(* Properties *)

TypeOK ==
    /\ poll \in Row
    /\ votes \subseteq Voters \X Options
    /\ ballot \in [Screens -> Ballot]
    /\ screen \in [Screens -> View]
    /\ answer \in [Screens -> View]

\* "Single-choice: exactly one option, one vote per user": however many screens a person
\* votes from at the same time, a single-choice poll counts them once.
OneChoice ==
    poll.status # "none" /\ ~poll.multiple =>
        \A v \in Voters : \A o, other \in Of(v, votes) : o = other

\* "Votes are final" (PollDetail): unless the poll allows changes, what a person has voted
\* stays as it is.
VotesAreFinal ==
    [][poll.status # "none" /\ ~poll.change =>
          \A v \in Voters : Of(v, votes) # {} => Of(v, votes)' = Of(v, votes)]_polls

\* "(your vote)": in a poll whose votes are final, what any screen shows as its person's vote
\* is what counts, whichever of that person's screens voted and whatever answers came late.
YourVoteCounts ==
    poll.status # "none" /\ ~poll.change =>
        \A s \in Screens : Voted(s) => screen[s].mine = Of(Person(s), votes)

\* "Polls past expiresAt close themselves": the votes of a closed poll stay as they are.
ClosedIsCounted == [][poll.status = "CLOSED" => votes' = votes]_polls

\* "Vote not counted" (PollDetail): a screen that is told so has voted for nothing.
NotCountedIsNot ==
    [][\A s \in Screens : ~At(s, "idle") /\ At(s, "idle")' /\ screen'[s].mine = {} =>
          Of(Person(s), votes)' = {}]_polls
=============================================================================
