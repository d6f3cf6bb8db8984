------------------------------- MODULE Rooms -------------------------------
(***************************************************************************)
(* A collective's room: its discussion (Messages) and a poll (Polls).  The *)
(* two share the memberships: who may vote is who may talk.  WholeRoom has *)
(* both at once; as neither writes what the other keeps, RoomSpec explores *)
(* a room in which they talk and one in which they vote.                   *)
(***************************************************************************)
EXTENDS Messages

CONSTANTS Voters, Options, Screens, Slow, Kinds, Person(_)

\* Somebody can create a poll, a screen is somebody's, and a kind of poll is two answers.
ASSUME RoomsAssumption ==
    /\ Voters # {} /\ Voters \subseteq Readers
    /\ \A s \in Screens : Person(s) \in Voters
    /\ Kinds \subseteq BOOLEAN \X BOOLEAN

VARIABLES doing, poll, votes, ballot, screen, answer

pvars == <<poll, votes, ballot, screen, answer>>

P == INSTANCE Polls WITH present <- {u \in People : Present(u)}

RoomInit == Init /\ P!Init /\ doing \in {"talking", "voting"}

\* The discussion goes on, and so does the poll.
WholeRoom == Init /\ P!Init /\ [][Next]_vars /\ [][P!Next]_pvars

\* One of them at a time, with members who come and go all the while.
ComeOrGo == \E u \in Readers : Leave(u, "LEFT") \/ Rejoin(u)

RoomNext ==
    /\ UNCHANGED doing
    /\ \/ doing = "talking" /\ Next /\ UNCHANGED pvars
       \/ doing = "voting" /\ ComeOrGo /\ UNCHANGED pvars
       \/ doing = "voting" /\ UNCHANGED vars /\ P!Next

RoomSpec == RoomInit /\ [][RoomNext]_<<vars, doing, pvars>> /\ Fairness

-----------------------------------------------------------------------------
(* Properties; those of the discussion are in Messages. *)

\* Both halves of the room hold what they should: rows, requests and screens are well formed.
RoomOK == TypeOK /\ P!TypeOK

\* Votes are final unless the poll allows changes (vote() in polls.service.ts; Polls).
VotesAreFinal == P!VotesAreFinal

\* What a screen shows as its person's final vote is what counts (toDto(); Polls).
YourVoteCounts == P!YourVoteCounts
=============================================================================
