---------------------------- MODULE Rooms_proofs ----------------------------
(***************************************************************************)
(* Proofs about a collective's discussion (Messages) and its polls         *)
(* (Polls): they hold for any number of people, screens, messages,         *)
(* requests under way and failures, and for any page size.                 *)
(***************************************************************************)
EXTENDS Rooms, FiniteSetTheorems, WellFoundedInduction, TLAPS

-----------------------------------------------------------------------------
(* A poll.  Who is present changes as the discussion's members come and go. *)

\* Before there is a poll nothing is voted on or shown.
QuietBefore ==
    poll.status = "none" =>
        votes = {} /\ \A s \in Screens : /\ ballot[s] = P!NoBallot
                                         /\ screen[s] = P!Nothing /\ answer[s] = P!Nothing

InTransaction(s) == ballot[s].step \in {"existing", "write"}

\* The lock on the poll: one vote at a time is in its transaction.
OneVoteAtATime == \A r, s \in Screens : InTransaction(r) /\ InTransaction(s) => r = s

\* Where votes are final, a vote is written for somebody who has none, ...
WritesFirstVote ==
    ~poll.change => \A s \in Screens : P!At(s, "write") =>
        P!Of(Person(s), votes) = {} /\ ~ballot[s].replaces

\* ... so that whatever a screen shows, or is about to, as its person's vote goes on counting.
ShownVotesCount ==
    ~poll.change => \A s \in Screens :
        /\ screen[s].mine # {} => screen[s].mine = P!Of(Person(s), votes)
        /\ answer[s].mine # {} => answer[s].mine = P!Of(Person(s), votes)

PollInv == P!TypeOK /\ QuietBefore /\ OneVoteAtATime /\ WritesFirstVote /\ ShownVotesCount

LEMMA PollInitially == P!Init => PollInv
  <1> SUFFICES ASSUME P!Init PROVE PollInv
    OBVIOUS
  <1>1. (CHOOSE v \in Voters : TRUE) \in Voters
    BY RoomsAssumption
  <1>2. P!TypeOK
    BY <1>1 DEF P!Init, P!TypeOK, P!Row, P!Statuses, P!Ballot, P!NoBallot, P!View, P!Nothing
  <1> QED
    BY <1>2 DEF P!Init, PollInv, QuietBefore, OneVoteAtATime, InTransaction, WritesFirstVote,
                ShownVotesCount, P!At, P!NoBallot, P!Nothing

LEMMA SeenTyped ==
    ASSUME P!TypeOK, NEW s \in Screens
    PROVE  P!Seen(Person(s)) \in P!View
  BY RoomsAssumption DEF P!TypeOK, P!Seen, P!View, P!Row, P!Of

LEMMA PollStepsTyped ==
    ASSUME P!TypeOK, [P!Next]_(P!polls)
    PROVE  P!TypeOK'
  <1>0. /\ ballot \in [Screens -> P!Ballot] /\ screen \in [Screens -> P!View]
        /\ answer \in [Screens -> P!View] /\ poll \in P!Row
        /\ P!NoBallot \in P!Ballot /\ P!Nothing \in P!View
    BY DEF P!TypeOK, P!NoBallot, P!Ballot, P!Nothing, P!View, P!Statuses
  <1>1. ASSUME NEW v \in Voters, NEW kind \in Kinds, P!Create(v, kind) PROVE P!TypeOK'
    <2>1. kind[1] \in BOOLEAN /\ kind[2] \in BOOLEAN
      BY RoomsAssumption
    <2> QED
      BY <1>1, <2>1 DEF P!Create, P!TypeOK, P!Row, P!Statuses
  <1>2. ASSUME P!FallDue \/ P!CloseExpiredPolls PROVE P!TypeOK'
    BY <1>0, <1>2 DEF P!FallDue, P!CloseExpiredPolls, P!TypeOK, P!Row, P!Statuses
  <1>3. ASSUME NEW s \in Screens, P!Load(s) \/ P!Answer(s) PROVE P!TypeOK'
    BY <1>0, <1>3, SeenTyped DEF P!Load, P!Answer, P!TypeOK
  <1>4. ASSUME NEW s \in Screens, P!Close(s) PROVE P!TypeOK'
    <2>1. [status |-> "CLOSED", mine |-> P!Of(Person(s), votes)] \in P!View
      BY DEF P!View, P!Statuses, P!Of
    <2> QED
      BY <1>0, <1>4, <2>1 DEF P!Close, P!TypeOK, P!Row, P!Statuses
  <1>5. ASSUME NEW s \in Screens, NEW picked \in P!Picks, P!Vote(s, picked) PROVE P!TypeOK'
    <2>1. picked \subseteq Options
      BY <1>5 DEF P!Picks
    <2>2. [P!NoBallot EXCEPT !.step = "check", !.wants = picked] \in P!Ballot
      BY <2>1 DEF P!Ballot, P!NoBallot
    <2> QED
      BY <1>0, <1>5, <2>2 DEF P!Vote, P!TypeOK
  <1>6. ASSUME NEW s \in Screens, P!Check(s) \/ P!Lock(s) \/ P!Existing(s) PROVE P!TypeOK'
    <2>1. ballot' \in [Screens -> P!Ballot]
      BY <1>0, <1>6 DEF P!Check, P!Lock, P!Existing, P!NotCounted, P!Ballot
    <2> QED
      BY <1>6, <2>1 DEF P!Check, P!Lock, P!Existing, P!TypeOK
  <1>7. ASSUME NEW s \in Screens, P!Write(s) PROVE P!TypeOK'
    <2>1. ballot[s].wants \subseteq Options /\ Person(s) \in Voters
      BY <1>0, RoomsAssumption DEF P!Ballot
    <2>2. [P!NoBallot EXCEPT !.step = "fresh"] \in P!Ballot
      BY DEF P!Ballot, P!NoBallot
    <2>3. votes' \subseteq Voters \X Options
      BY <1>7, <2>1 DEF P!Write, P!TypeOK
    <2>4. ballot' \in [Screens -> P!Ballot]
      BY <1>0, <1>7, <2>2 DEF P!Write, P!NotCounted
    <2> QED
      BY <1>7, <2>3, <2>4 DEF P!Write, P!TypeOK
  <1>8. ASSUME NEW s \in Screens, P!Fresh(s) PROVE P!TypeOK'
    BY <1>0, <1>8, SeenTyped DEF P!Fresh, P!NotCounted, P!TypeOK
  <1>9. CASE UNCHANGED P!polls
    BY <1>9 DEF P!polls, P!TypeOK
  <1> QED
    BY <1>1, <1>2, <1>3, <1>4, <1>5, <1>6, <1>7, <1>8, <1>9 DEF P!Next

LEMMA PollStepsQuiet ==
    ASSUME P!TypeOK, QuietBefore, [P!Next]_(P!polls)
    PROVE  QuietBefore'
  <1> SUFFICES ASSUME poll'.status = "none"
               PROVE  UNCHANGED <<votes, ballot, screen, answer>> /\ poll.status = "none"
    BY DEF QuietBefore
  <1>1. poll.status = "none"
    BY DEF P!Next, P!Create, P!FallDue, P!CloseExpiredPolls, P!Load, P!Answer, P!Close, P!Vote, P!Check,
           P!Lock, P!Existing, P!Write, P!Fresh, P!polls, P!TypeOK, P!Row
  <1>2. \A s \in Screens : ballot[s].step = "idle" /\ screen[s] = P!Nothing /\ answer[s] = P!Nothing
    BY <1>1 DEF QuietBefore, P!NoBallot
  <1>3. ASSUME NEW s \in Screens PROVE ~(P!Load(s) \/ P!Answer(s) \/ P!Close(s))
    BY <1>1, <1>2 DEF P!Load, P!Answer, P!Close, P!Nothing
  <1>4. ASSUME NEW s \in Screens
        PROVE  ~(P!Check(s) \/ P!Lock(s) \/ P!Existing(s) \/ P!Write(s) \/ P!Fresh(s))
    BY <1>2 DEF P!Check, P!Lock, P!Existing, P!Write, P!Fresh, P!At
  <1>5. ASSUME NEW s \in Screens, NEW picked PROVE ~P!Vote(s, picked)
    BY <1>1 DEF P!Vote
  <1>6. ASSUME NEW v, NEW kind PROVE ~P!Create(v, kind)
    BY DEF P!Create
  <1>7. ~P!FallDue /\ ~P!CloseExpiredPolls
    BY <1>1 DEF P!FallDue, P!CloseExpiredPolls
  <1> QED
    BY <1>1, <1>3, <1>4, <1>5, <1>6, <1>7 DEF P!Next, P!polls

\* What kind of poll it is was decided when it was created.
LEMMA KindStays ==
    ASSUME P!TypeOK, [P!Next]_(P!polls), poll.status # "none"
    PROVE  poll'.change = poll.change
  BY DEF P!Next, P!Create, P!FallDue, P!CloseExpiredPolls, P!Load, P!Answer, P!Close, P!Vote, P!Check,
         P!Lock, P!Existing, P!Write, P!Fresh, P!polls, P!TypeOK, P!Row

\* How a vote under way changes in a step.
LEMMA BallotSteps ==
    ASSUME P!TypeOK, [P!Next]_(P!polls), NEW s \in Screens
    PROVE  \/ ballot'[s] = ballot[s]
           \/ ~InTransaction(s)'
           \/ P!Lock(s) /\ \A r \in Screens : r # s => ballot'[r] = ballot[r]
           \/ P!Existing(s)
  <1> DEFINE G == \/ ballot'[s] = ballot[s]
                  \/ ~InTransaction(s)'
                  \/ P!Lock(s) /\ \A r \in Screens : r # s => ballot'[r] = ballot[r]
                  \/ P!Existing(s)
  <1>0. ballot \in [Screens -> P!Ballot]
    BY DEF P!TypeOK
  <1>1. ASSUME NEW x \in Screens, NEW b, ballot' = [ballot EXCEPT ![x] = b], b.step \notin {"existing", "write"}
        PROVE  G
    BY <1>0, <1>1 DEF InTransaction
  <1>2. ASSUME NEW x \in Screens, P!NotCounted(x) PROVE G
    BY <1>0, <1>2 DEF P!NotCounted, P!NoBallot, InTransaction
  <1>3. ASSUME NEW x \in Screens, NEW picked \in P!Picks, P!Vote(x, picked) PROVE G
    BY <1>0, <1>3 DEF P!Vote, P!NoBallot, InTransaction
  <1>4. ASSUME NEW x \in Screens, P!Check(x) PROVE G
    <2>1. CASE ballot' = [ballot EXCEPT ![x].step = "lock"]
      BY <1>0, <2>1 DEF InTransaction, P!Ballot
    <2> HIDE DEF G
    <2> QED
      BY <1>2, <1>4, <2>1 DEF P!Check
  <1>5. ASSUME NEW x \in Screens, P!Lock(x) PROVE G
    <2>1. \A r \in Screens : r # x => ballot'[r] = ballot[r]
      BY <1>0, <1>5 DEF P!Lock
    <2>2. CASE x = s
      BY <1>5, <2>1, <2>2
    <2>3. CASE x # s
      BY <2>1, <2>3
    <2> QED
      BY <2>2, <2>3
  <1>6. ASSUME NEW x \in Screens, P!Existing(x) PROVE G
    BY <1>0, <1>6 DEF P!Existing, P!NotCounted
  <1>7. ASSUME NEW x \in Screens, P!Write(x) PROVE G
    <2>1. CASE ballot' = [ballot EXCEPT ![x] = [P!NoBallot EXCEPT !.step = "fresh"]]
      BY <1>0, <2>1 DEF InTransaction, P!NoBallot
    <2> HIDE DEF G
    <2> QED
      BY <1>2, <1>7, <2>1 DEF P!Write
  <1>8. ASSUME NEW x \in Screens, P!Fresh(x) PROVE G
    <2> HIDE DEF G
    <2> QED
      BY <1>2, <1>8 DEF P!Fresh, P!NotCounted
  <1>9. ASSUME ballot' = ballot PROVE G
    BY <1>9
  <1> HIDE DEF G
  <1>10. G
    BY <1>3, <1>4, <1>5, <1>6, <1>7, <1>8, <1>9
       DEF P!Next, P!Create, P!FallDue, P!CloseExpiredPolls, P!Load, P!Answer, P!Close, P!polls
  <1> QED
    BY <1>10 DEF G

\* What a screen shows, or is about to, in the next state.
LEMMA ScreenSteps ==
    ASSUME P!TypeOK, [P!Next]_(P!polls), NEW s \in Screens
    PROVE  /\ \/ screen'[s] \in {screen[s], answer[s]}
              \/ screen'[s].mine = P!Of(Person(s), votes)
           /\ \/ answer'[s] \in {answer[s], P!Nothing}
              \/ answer'[s].mine = P!Of(Person(s), votes)
  <1> DEFINE G == /\ \/ screen'[s] \in {screen[s], answer[s]}
                     \/ screen'[s].mine = P!Of(Person(s), votes)
                  /\ \/ answer'[s] \in {answer[s], P!Nothing}
                     \/ answer'[s].mine = P!Of(Person(s), votes)
  <1>0. screen \in [Screens -> P!View] /\ answer \in [Screens -> P!View]
    BY DEF P!TypeOK
  <1>1. ASSUME UNCHANGED <<screen, answer>> PROVE G
    BY <1>1
  <1>2. ASSUME NEW x \in Screens, P!Load(x) PROVE G
    BY <1>0, <1>2 DEF P!Load, P!Seen
  <1>3. ASSUME NEW x \in Screens, P!Answer(x) PROVE G
    BY <1>0, <1>3 DEF P!Answer
  <1>4. ASSUME NEW x \in Screens, P!Close(x) PROVE G
    BY <1>0, <1>4 DEF P!Close
  <1>5. ASSUME NEW x \in Screens, P!Fresh(x) PROVE G
    BY <1>0, <1>5 DEF P!Fresh, P!Seen
  <1> HIDE DEF G
  <1>6. G
    BY <1>1, <1>2, <1>3, <1>4, <1>5
       DEF P!Next, P!Create, P!FallDue, P!CloseExpiredPolls, P!Vote, P!Check, P!Lock, P!Existing,
           P!Write, P!polls
  <1> QED
    BY <1>6 DEF G

LEMMA PollStepsLock ==
    ASSUME P!TypeOK, OneVoteAtATime, [P!Next]_(P!polls)
    PROVE  OneVoteAtATime'
  <1> SUFFICES ASSUME NEW r \in Screens, NEW s \in Screens, InTransaction(r)', InTransaction(s)'
               PROVE  r = s
    BY DEF OneVoteAtATime
  <1>1. ASSUME NEW x \in Screens, InTransaction(x)', ~InTransaction(x)
        PROVE  P!Lock(x) /\ \A y \in Screens : y # x => ballot'[y] = ballot[y]
    BY <1>1, BallotSteps DEF InTransaction, P!Existing, P!At
  <1>2. ASSUME NEW x \in Screens, NEW y \in Screens, InTransaction(x)', ~InTransaction(x), InTransaction(y)'
        PROVE  x = y
    <2>1. ~InTransaction(y) /\ (y # x => ballot'[y] = ballot[y])
      BY <1>1, <1>2 DEF P!Lock, P!Unlocked, P!Locked, InTransaction
    <2> QED
      BY <1>2, <2>1 DEF InTransaction
  <1> QED
    BY <1>2 DEF OneVoteAtATime

\* A step counts a vote only for somebody who has none, if votes are final.
LEMMA VotesStay ==
    ASSUME PollInv, [P!Next]_(P!polls), poll.status # "none", ~poll.change
    PROVE  \/ votes' = votes
           \/ \E s \in Screens :
                 /\ P!Write(s)
                 /\ P!Of(Person(s), votes) = {}
                 /\ votes' = votes \cup ({Person(s)} \X ballot[s].wants)
  <1>1. ASSUME NEW s \in Screens, P!Write(s), votes' # votes
        PROVE  /\ P!Of(Person(s), votes) = {}
               /\ votes' = votes \cup ({Person(s)} \X ballot[s].wants)
    <2>1. P!Of(Person(s), votes) = {} /\ ballot[s].replaces = FALSE
      BY <1>1 DEF PollInv, WritesFirstVote, P!Write, P!TypeOK, P!Ballot
    <2> QED
      BY <1>1, <2>1 DEF P!Write
  <1> QED
    BY <1>1 DEF P!Next, P!Create, P!FallDue, P!CloseExpiredPolls, P!Load, P!Answer, P!Close, P!Vote,
                P!Check, P!Lock, P!Existing, P!Fresh, P!polls

\* What somebody has voted stays theirs.
LEMMA FinalVotesStay ==
    ASSUME PollInv, [P!Next]_(P!polls), poll.status # "none", ~poll.change,
           NEW v, P!Of(v, votes) # {}
    PROVE  P!Of(v, votes') = P!Of(v, votes)
  <1>1. CASE votes' = votes
    BY <1>1
  <1>2. ASSUME NEW s \in Screens, P!Of(Person(s), votes) = {},
               votes' = votes \cup ({Person(s)} \X ballot[s].wants)
        PROVE  P!Of(v, votes') = P!Of(v, votes)
    <2>1. v # Person(s)
      BY <1>2
    <2> QED
      BY <1>2, <2>1 DEF P!Of
  <1> QED
    BY <1>1, <1>2, VotesStay

LEMMA PollStepsWriteFirst ==
    ASSUME PollInv, [P!Next]_(P!polls)
    PROVE  WritesFirstVote'
  <1> SUFFICES ASSUME ~poll'.change, NEW s \in Screens, P!At(s, "write")'
               PROVE  P!Of(Person(s), votes') = {} /\ ~ballot'[s].replaces
    BY DEF WritesFirstVote
  <1>0. /\ ballot \in [Screens -> P!Ballot] /\ ballot'[s].step = "write"
        /\ OneVoteAtATime /\ QuietBefore
    BY DEF PollInv, P!TypeOK, P!At
  <1>5. ballot'[s] = ballot[s] \/ P!Existing(s)
    <2>1. ~P!Lock(s)
      BY <1>0 DEF P!Lock, P!TypeOK, P!Ballot
    <2> QED
      BY <1>0, <2>1, BallotSteps DEF PollInv, InTransaction
  <1>1. poll.status # "none"
    <2> SUFFICES ASSUME poll.status = "none" PROVE FALSE
      OBVIOUS
    <2>1. \A r \in Screens : ballot[r].step = "idle"
      BY DEF PollInv, QuietBefore, P!NoBallot
    <2>2. ballot[s].step \in {"write", "existing", "lock"}
      BY <1>0, <1>5 DEF P!Existing, P!At
    <2> QED
      BY <2>1, <2>2
  <1>2. poll.change = FALSE
    BY <1>1, KindStays DEF PollInv, P!TypeOK, P!Row
  <1>3. CASE ballot'[s] = ballot[s]
    <2>1. P!Of(Person(s), votes) = {} /\ ~ballot'[s].replaces
      BY <1>0, <1>2, <1>3 DEF PollInv, WritesFirstVote, P!At
    <2>2. ASSUME NEW r \in Screens, P!Write(r), votes' # votes PROVE FALSE
      <3>1. r = s
        BY <1>0, <1>3, <2>2 DEF P!Write, P!At, OneVoteAtATime, InTransaction
      <3> QED
        BY <1>0, <2>2, <3>1 DEF P!Write, P!NotCounted, P!NoBallot
    <2>3. votes' = votes
      BY <1>1, <1>2, <2>2, VotesStay
    <2> QED
      BY <2>1, <2>3
  <1>4. CASE P!Existing(s)
    BY <1>0, <1>2, <1>4 DEF P!Existing, P!NotCounted, P!NoBallot, P!MayReplace, P!Ballot
  <1> QED
    BY <1>3, <1>4, <1>5

LEMMA PollStepsShown ==
    ASSUME PollInv, [P!Next]_(P!polls)
    PROVE  ShownVotesCount'
  <1> SUFFICES ASSUME ~poll'.change, NEW s \in Screens
               PROVE  /\ screen'[s].mine # {} => screen'[s].mine = P!Of(Person(s), votes')
                      /\ answer'[s].mine # {} => answer'[s].mine = P!Of(Person(s), votes')
    BY DEF ShownVotesCount
  <1>0. screen \in [Screens -> P!View] /\ answer \in [Screens -> P!View]
    BY DEF PollInv, P!TypeOK
  <1>1. CASE poll.status = "none"
    <2>1. \A r \in Screens : /\ ballot[r].step = "idle" /\ screen[r] = P!Nothing
                             /\ answer[r] = P!Nothing
      BY <1>1 DEF PollInv, QuietBefore, P!NoBallot
    <2>2. /\ screen'[s].mine \in {{}, P!Of(Person(s), votes)}
          /\ answer'[s].mine \in {{}, P!Of(Person(s), votes)}
      BY <2>1, ScreenSteps DEF PollInv, P!Nothing
    <2>3. votes = {}
      BY <1>1 DEF PollInv, QuietBefore
    <2> QED
      BY <2>2, <2>3 DEF P!Of
  <1>2. CASE poll.status # "none"
    <2>1. poll.change = FALSE
      BY <1>2, KindStays DEF PollInv, P!TypeOK, P!Row
    <2>2. P!Of(Person(s), votes) # {} => P!Of(Person(s), votes') = P!Of(Person(s), votes)
      BY <1>2, <2>1, FinalVotesStay
    <2>3. /\ screen[s].mine # {} => screen[s].mine = P!Of(Person(s), votes)
          /\ answer[s].mine # {} => answer[s].mine = P!Of(Person(s), votes)
      BY <2>1 DEF PollInv, ShownVotesCount
    <2>4. /\ \/ screen'[s] \in {screen[s], answer[s]}
             \/ screen'[s].mine = P!Of(Person(s), votes)
          /\ \/ answer'[s] \in {answer[s], P!Nothing}
             \/ answer'[s].mine = P!Of(Person(s), votes)
      BY ScreenSteps DEF PollInv
    <2> QED
      BY <2>2, <2>3, <2>4 DEF P!Nothing
  <1> QED
    BY <1>1, <1>2

LEMMA PollInvariant == P!Init /\ [][P!Next]_pvars => []PollInv
  <1>1. PollInv /\ [P!Next]_pvars => PollInv'
    BY PollStepsTyped, PollStepsQuiet, PollStepsLock, PollStepsWriteFirst, PollStepsShown
       DEF PollInv, pvars, P!polls
  <1> QED
    BY <1>1, PollInitially, PTL

\* Votes are final (vote() in polls.service.ts): in a poll that allows no changes nothing
\* that a person has voted is taken back or added to, from however many screens they vote.
THEOREM FinalVotes == WholeRoom => VotesAreFinal
  <1>1. PollInv /\ [P!Next]_pvars =>
          [poll.status # "none" /\ ~poll.change =>
              \A v \in Voters : P!Of(v, votes) # {} => P!Of(v, votes)' = P!Of(v, votes)]_(P!polls)
    BY FinalVotesStay DEF P!Of, pvars, P!polls
  <1> QED
    BY <1>1, PollInvariant, PTL DEF WholeRoom, VotesAreFinal, P!VotesAreFinal

\* In such a poll the vote that any screen shows as its person's own is the one that counts
\* (toDto() in polls.service.ts), however late the answers came that the screen drew.
THEOREM ShownVoteCounts == WholeRoom => []YourVoteCounts
  <1>1. PollInv => YourVoteCounts
    BY DEF PollInv, ShownVotesCount, YourVoteCounts, P!YourVoteCounts, P!Voted, P!TypeOK, P!Row
  <1> QED
    BY <1>1, PollInvariant, PTL DEF WholeRoom

-----------------------------------------------------------------------------
(* One choice: what a person has voted in a poll of single choice, changes included. *)

AtMostOne(picked) == \A a, b \in picked : a = b

\* The screens send one option, ...
WantsOne == ~poll.multiple => \A s \in Screens : AtMostOne(ballot[s].wants)

\* ... a vote that takes nothing back is for somebody who has none, ...
ReadBeforeWrite ==
    \A s \in Screens : P!At(s, "write") /\ ~ballot[s].replaces => P!Of(Person(s), votes) = {}

\* ... so that one is counted.
CountsOne == ~poll.multiple => \A v \in Voters : AtMostOne(P!Of(v, votes))

ChoiceInv == PollInv /\ WantsOne /\ ReadBeforeWrite /\ CountsOne

LEMMA KindStaysSingle ==
    ASSUME P!TypeOK, [P!Next]_(P!polls), poll.status # "none"
    PROVE  poll'.multiple = poll.multiple
  <1>1. CASE P!FallDue \/ P!CloseExpiredPolls
    BY <1>1 DEF P!FallDue, P!CloseExpiredPolls, P!TypeOK, P!Row
  <1>2. ASSUME NEW s \in Screens, P!Close(s) PROVE poll'.multiple = poll.multiple
    BY <1>2 DEF P!Close, P!TypeOK, P!Row
  <1>3. ASSUME poll' = poll PROVE poll'.multiple = poll.multiple
    BY <1>3
  <1> QED
    BY <1>1, <1>2, <1>3, Zenon
       DEF P!Next, P!Create, P!Load, P!Answer, P!Vote, P!Check, P!Lock, P!Existing, P!Write, P!Fresh,
           P!polls

\* What a step counts: nothing else, or the vote of one screen for what its person had.
LEMMA VotesSteps ==
    ASSUME ChoiceInv, [P!Next]_(P!polls)
    PROVE  \/ votes' = votes
           \/ \E s \in Screens :
                 /\ P!Write(s)
                 /\ ballot'[s] # ballot[s]
                 /\ P!Of(Person(s), votes') = ballot[s].wants
                 /\ \A v \in Voters \ {Person(s)} : P!Of(v, votes') = P!Of(v, votes)
  <1>1. ASSUME NEW s \in Screens, P!Write(s), votes' # votes
        PROVE  /\ ballot'[s] # ballot[s]
               /\ P!Of(Person(s), votes') = ballot[s].wants
               /\ \A v \in Voters \ {Person(s)} : P!Of(v, votes') = P!Of(v, votes)
    <2> DEFINE u == Person(s)
               old == IF ballot[s].replaces THEN {u} \X P!Of(u, votes) ELSE {}
               new == {u} \X ballot[s].wants
    <2>1. votes' = (votes \ old) \cup new
      BY <1>1 DEF P!Write
    <2>2. /\ ballot \in [Screens -> P!Ballot] /\ ballot[s].wants \subseteq Options
          /\ votes \subseteq Voters \X Options /\ ballot[s].replaces \in BOOLEAN
          /\ ballot[s].step = "write"
      BY <1>1 DEF ChoiceInv, PollInv, P!TypeOK, P!Ballot, P!Write, P!At
    <2>3. ballot'[s] # ballot[s]
      BY <1>1, <2>2 DEF P!Write, P!NoBallot
    <2>4. ASSUME NEW o \in Options PROVE <<u, o>> \in votes' <=> o \in ballot[s].wants
      <3>1. ASSUME <<u, o>> \in votes, <<u, o>> \notin old PROVE FALSE
        <4>1. o \in P!Of(u, votes)
          BY <3>1 DEF P!Of
        <4> QED
          BY <2>2, <3>1, <4>1 DEF ChoiceInv, ReadBeforeWrite, P!At
      <3> QED
        BY <2>1, <3>1
    <2>5. ASSUME NEW v \in Voters \ {u}, NEW o PROVE <<v, o>> \in votes' <=> <<v, o>> \in votes
      BY <2>1
    <2>6. P!Of(u, votes') = ballot[s].wants
      BY <2>2, <2>4 DEF P!Of
    <2>7. \A v \in Voters \ {u} : P!Of(v, votes') = P!Of(v, votes)
      BY <2>5 DEF P!Of
    <2> QED
      BY <2>3, <2>6, <2>7
  <1>2. votes' = votes \/ \E s \in Screens : P!Write(s)
    BY Zenon DEF P!Next, P!Create, P!FallDue, P!CloseExpiredPolls, P!Load, P!Answer, P!Close, P!Vote,
                 P!Check, P!Lock, P!Existing, P!Fresh, P!polls
  <1> QED
    BY <1>1, <1>2

LEMMA WantsSteps ==
    ASSUME P!TypeOK, WantsOne, [P!Next]_(P!polls), ~poll.multiple, NEW s \in Screens
    PROVE  AtMostOne(ballot'[s].wants)
  <1>0. ballot \in [Screens -> P!Ballot] /\ AtMostOne(ballot[s].wants) /\ AtMostOne({})
    BY DEF P!TypeOK, WantsOne, AtMostOne
  <1> DEFINE Same == ballot'[s].wants \in {ballot[s].wants, {}}
  <1>1. ASSUME NEW x \in Screens, P!NotCounted(x) PROVE Same
    BY <1>0, <1>1 DEF P!NotCounted, P!NoBallot
  <1>2. ASSUME NEW x \in Screens, NEW picked \in P!Picks, P!Vote(x, picked)
        PROVE  AtMostOne(ballot'[s].wants)
    <2>1. AtMostOne(picked)
      BY <1>2 DEF P!Picks, AtMostOne
    <2>2. CASE x = s
      BY <1>0, <1>2, <2>1, <2>2 DEF P!Vote, P!NoBallot
    <2>3. CASE x # s
      BY <1>0, <1>2, <2>3 DEF P!Vote
    <2> QED
      BY <2>2, <2>3
  <1>3. ASSUME NEW x \in Screens, P!Check(x) PROVE Same
    <2>1. CASE ballot' = [ballot EXCEPT ![x].step = "lock"]
      BY <1>0, <2>1 DEF P!Ballot
    <2> HIDE DEF Same
    <2> QED
      BY <1>1, <1>3, <2>1 DEF P!Check
  <1>4. ASSUME NEW x \in Screens, P!Lock(x) PROVE Same
    BY <1>0, <1>4 DEF P!Lock, P!Ballot
  <1>5. ASSUME NEW x \in Screens, P!Existing(x) PROVE Same
    <2>1. ASSUME NEW replaced, ballot' = [ballot EXCEPT ![x].step = "write", ![x].replaces = replaced]
          PROVE  Same
      BY <1>0, <2>1 DEF P!Ballot
    <2> HIDE DEF Same
    <2> QED
      BY <1>1, <1>5, <2>1 DEF P!Existing
  <1>6. ASSUME NEW x \in Screens, P!Write(x) PROVE Same
    <2>1. CASE ballot' = [ballot EXCEPT ![x] = [P!NoBallot EXCEPT !.step = "fresh"]]
      BY <1>0, <2>1 DEF P!NoBallot
    <2> HIDE DEF Same
    <2> QED
      BY <1>1, <1>6, <2>1 DEF P!Write
  <1>7. ASSUME NEW x \in Screens, P!Fresh(x) PROVE Same
    <2> HIDE DEF Same
    <2> QED
      BY <1>1, <1>7 DEF P!Fresh, P!NotCounted
  <1>8. ASSUME ballot' = ballot PROVE Same
    BY <1>8
  <1>9. ASSUME Same PROVE AtMostOne(ballot'[s].wants)
    BY <1>0, <1>9
  <1> HIDE DEF Same
  <1> QED
    BY <1>2, <1>3, <1>4, <1>5, <1>6, <1>7, <1>8, <1>9
       DEF P!Next, P!Create, P!FallDue, P!CloseExpiredPolls, P!Load, P!Answer, P!Close, P!polls

LEMMA ChoiceSteps ==
    ASSUME ChoiceInv, [P!Next]_(P!polls), PollInv'
    PROVE  ChoiceInv'
  <1>0. /\ P!TypeOK /\ QuietBefore /\ OneVoteAtATime /\ WantsOne /\ ReadBeforeWrite /\ CountsOne
        /\ P!TypeOK' /\ QuietBefore' /\ ballot \in [Screens -> P!Ballot]
    BY DEF ChoiceInv, PollInv, P!TypeOK
  <1>1. WantsOne'
    <2> SUFFICES ASSUME ~poll'.multiple, NEW s \in Screens PROVE AtMostOne(ballot'[s].wants)
      BY DEF WantsOne
    <2>1. CASE poll.status # "none"
      <3>1. ~poll.multiple
        BY <1>0, <2>1, KindStaysSingle
      <3> QED
        BY <1>0, <3>1, WantsSteps
    <2>2. CASE poll.status = "none"
      <3>1. ballot'[s] = P!NoBallot
        <4>1. \A r \in Screens : ballot[r].step = "idle" /\ screen[r] = P!Nothing
          BY <1>0, <2>2 DEF QuietBefore, P!NoBallot
        <4>2. ballot' = ballot
          BY <2>2, <4>1 DEF P!Next, P!Create, P!FallDue, P!CloseExpiredPolls, P!Load, P!Answer, P!Close,
             P!Vote, P!Check, P!Lock, P!Existing, P!Write, P!Fresh, P!polls, P!At
        <4> QED
          BY <1>0, <2>2, <4>2 DEF QuietBefore
      <3> QED
        BY <3>1 DEF P!NoBallot, AtMostOne
    <2> QED
      BY <2>1, <2>2
  <1>2. ReadBeforeWrite'
    <2> SUFFICES ASSUME NEW s \in Screens, ballot'[s].step = "write", ~ballot'[s].replaces
                 PROVE  P!Of(Person(s), votes') = {}
      BY DEF ReadBeforeWrite, P!At
    <2>1. ballot'[s] = ballot[s] \/ P!Existing(s)
      <3>1. ~P!Lock(s)
        BY <1>0 DEF P!Lock, P!Ballot
      <3> QED
        BY <1>0, <3>1, BallotSteps DEF InTransaction
    <2>2. CASE ballot'[s] = ballot[s]
      <3>1. P!Of(Person(s), votes) = {}
        BY <1>0, <2>2 DEF ReadBeforeWrite, P!At
      <3>2. ASSUME NEW r \in Screens, P!Write(r), ballot'[r] # ballot[r] PROVE FALSE
        BY <1>0, <2>2, <3>2 DEF P!Write, P!At, OneVoteAtATime, InTransaction
      <3> QED
        BY <3>1, <3>2, VotesSteps
    <2>3. CASE P!Existing(s)
      <3>1. votes' = votes /\ P!Of(Person(s), votes) \in {{}, P!Of(Person(s), votes)}
        BY <2>3 DEF P!Existing
      <3>2. ballot' = [ballot EXCEPT ![s].step = "write",
                                     ![s].replaces = (P!Of(Person(s), votes) # {})]
        BY <1>0, <2>3 DEF P!Existing, P!NotCounted, P!NoBallot
      <3> QED
        BY <1>0, <3>1, <3>2 DEF P!Ballot
    <2> QED
      BY <2>1, <2>2, <2>3
  <1>3. CountsOne'
    <2> SUFFICES ASSUME ~poll'.multiple, NEW v \in Voters PROVE AtMostOne(P!Of(v, votes'))
      BY DEF CountsOne, P!Of
    <2>1. CASE poll.status = "none"
      <3>1. votes' = {}
        <4>1. votes = {} /\ \A r \in Screens : ballot[r].step = "idle"
          BY <1>0, <2>1 DEF QuietBefore, P!NoBallot
        <4> QED
          BY <4>1, VotesSteps DEF P!Write, P!At
      <3> QED
        BY <3>1 DEF P!Of, AtMostOne
    <2>2. CASE poll.status # "none"
      <3>1. ~poll.multiple
        BY <1>0, <2>2, KindStaysSingle
      <3>2. AtMostOne(P!Of(v, votes)) /\ \A s \in Screens : AtMostOne(ballot[s].wants)
        BY <1>0, <3>1 DEF CountsOne, WantsOne
      <3>3. CASE votes' = votes
        BY <3>2, <3>3
      <3>4. ASSUME NEW s \in Screens, P!Of(Person(s), votes') = ballot[s].wants,
                   \A u \in Voters \ {Person(s)} : P!Of(u, votes') = P!Of(u, votes)
            PROVE  AtMostOne(P!Of(v, votes'))
        <4>1. CASE v = Person(s)
          BY <3>2, <3>4, <4>1
        <4>2. CASE v # Person(s)
          BY <3>2, <3>4, <4>2
        <4> QED
          BY <4>1, <4>2
      <3> QED
        BY <3>3, <3>4, VotesSteps
    <2> QED
      BY <2>1, <2>2
  <1> QED
    BY <1>1, <1>2, <1>3 DEF ChoiceInv

\* A single-choice poll counts one option of a person (vote() in polls.service.ts), from
\* however many screens they vote, first or over an earlier vote, at the same time.
THEOREM OneVoteEach == WholeRoom => []P!OneChoice
  <1>1. P!Init => WantsOne /\ ReadBeforeWrite /\ CountsOne
    BY DEF P!Init, WantsOne, ReadBeforeWrite, CountsOne, AtMostOne, P!NoBallot, P!At, P!Of
  <1>2. ChoiceInv /\ PollInv' /\ [P!Next]_pvars => ChoiceInv'
    BY ChoiceSteps DEF pvars, P!polls
  <1>3. ChoiceInv => P!OneChoice
    BY DEF ChoiceInv, CountsOne, AtMostOne, P!OneChoice
  <1> QED
    BY <1>1, <1>2, <1>3, PollInvariant, PTL DEF WholeRoom, ChoiceInv

-----------------------------------------------------------------------------
(* The discussion: its inductive invariant. *)

USE MessagesAssumption

\* Every message that was accepted has its number.
Accepted == {w \in Workers : task[w].step \in {"check", "stamp"}}
NumbersLast == Cardinality(Stamped) + Cardinality(Accepted) <= MaxMessages

\* What the step of a request says about it.  Those for a page belong to an open thread,
\* and so do those that send and are heard.
TaskOK(w) ==
    LET t == task[w] IN
    /\ t.step \in {"check", "stamp", "commit", "notify", "create"} => t.kind = "send"
    /\ t.step \in {"reader", "query", "answer"} => t.kind \in {"poll", "older"}
    /\ t.kind \in {"poll", "older"} => t.user \in Readers /\ thread[t.user].open
    /\ t.kind = "send" /\ t.heard /\ t.user \in Readers =>
          thread[t.user].open /\ ~thread[t.user].readOnly
    /\ t.step = "commit" => t.message \in Ids /\ messages[t.message] # "none"
    /\ t.step = "create" => t.next \in People

\* What a request for a page may find, or has found, for a thread that only reads on.
PageOK(w) ==
    LET t == task[w] IN
    t.kind \in {"poll", "older"} /\ thread[t.user].readOnly =>
        /\ t.step = "query" => t.upTo \subseteq until[t.user]
        /\ t.step = "answer" => \A m \in Ids : t.page[m] # "none" => m \in until[t.user]

\* Whoever a round is done with has been told.
RoundOK(w) == task[w].all \ task[w].to \subseteq notified

\* Nobody rejoins under a thread that only reads on.
ReadersArePast == \A u \in Readers : thread[u].open /\ thread[u].readOnly => ~Present(u)

Inv ==
    /\ TypeOK
    /\ NumbersLast
    /\ \A w \in Workers : TaskOK(w) /\ PageOK(w)
    /\ ReadersArePast
    /\ HistoryEndsWithPass
    /\ RoundReachesAll

-----------------------------------------------------------------------------
(* Pages and counts. *)

LEMMA SmallestExists ==
    ASSUME NEW T \in SUBSET Nat, T # {}
    PROVE  \E x \in T : \A y \in T : x <= y
  <1> DEFINE Less == {pair \in Nat \X Nat : pair[1] < pair[2]}
  <1>1. IsWellFoundedOn(Less, Nat)
    BY NatLessThanWellFounded DEF OpToRel
  <1>2. ASSUME NEW x \in Nat, NEW y \in Nat, <<y, x>> \notin Less PROVE x <= y
    BY <1>2
  <1>3. PICK x \in T : \A y \in T : <<y, x>> \notin Less
    <2> HIDE DEF Less
    <2> QED
      BY <1>1, WFMin
  <1> HIDE DEF Less
  <1> QED
    BY <1>2, <1>3

\* A set of messages that has any has a newest one.
LEMMA LatestExists ==
    ASSUME NEW T \in SUBSET Ids, T # {}
    PROVE  \E x \in T : \A y \in T : y <= x
  <1> DEFINE Back == {MaxMessages - x : x \in T}
  <1>1. Back \in SUBSET Nat /\ Back # {}
    <2>1. ASSUME NEW x \in T PROVE MaxMessages - x \in Nat
      <3>1. x \in 1..MaxMessages /\ MaxMessages \in Nat
        BY DEF Ids
      <3> QED
        BY <3>1
    <2> QED
      BY <2>1
  <1>2. PICK b \in Back : \A c \in Back : b <= c
    <2> HIDE DEF Back
    <2> QED
      BY <1>1, SmallestExists
  <1>3. PICK x \in T : b = MaxMessages - x
    OBVIOUS
  <1>4. ASSUME NEW y \in T PROVE y <= x
    <2>1. b <= MaxMessages - y
      BY <1>2
    <2> QED
      BY <1>3, <2>1 DEF Ids
  <1> QED
    BY <1>4

LEMMA CursorTyped ==
    ASSUME NEW set \in SUBSET Ids
    PROVE  NextCursor(set) \in 0..MaxMessages
  <1>1. CASE Newest(set) = set
    BY <1>1 DEF NextCursor
  <1>2. CASE Newest(set) # set
    <2>1. set # {}
      BY <1>2 DEF Newest
    <2>2. PICK x \in set : \A y \in set : y <= x
      BY <2>1, LatestExists
    <2>3. {y \in set : y > x} = {}
      <3>1. ASSUME NEW y \in set PROVE ~(y > x)
        <4>1. x \in Int /\ y \in Int /\ y <= x
          BY <2>2 DEF Ids
        <4> QED
          BY <4>1
      <3> QED
        BY <3>1
    <2>4. x \in Newest(set)
      BY <2>3, FS_EmptySet DEF Newest
    <2>5. Newest(set) \in SUBSET Nat /\ Newest(set) \subseteq Ids
      <3>1. Newest(set) \subseteq Ids
        BY DEF Newest
      <3>2. Ids \subseteq Nat
        BY DEF Ids
      <3> QED
        BY <3>1, <3>2
    <2>6. \E m \in Newest(set) : \A y \in Newest(set) : m <= y
      BY <2>4, <2>5, SmallestExists
    <2>7. Oldest(Newest(set)) \in Newest(set)
      BY <2>6 DEF Oldest
    <2> QED
      BY <1>2, <2>5, <2>7 DEF NextCursor, Ids
  <1> QED
    BY <1>1, <1>2

LEMMA Finite ==
    /\ IsFiniteSet(Stamped) /\ Cardinality(Stamped) \in Nat
    /\ IsFiniteSet(Accepted) /\ Cardinality(Accepted) \in Nat
  <1>1. IsFiniteSet(Ids) /\ IsFiniteSet(Workers)
    BY FS_Interval DEF Ids, Workers
  <1>2. Stamped \subseteq Ids /\ Accepted \subseteq Workers
    BY DEF Stamped, Accepted
  <1>3. IsFiniteSet(Stamped) /\ IsFiniteSet(Accepted)
    BY <1>1, <1>2, FS_Subset
  <1> QED
    BY <1>3, FS_CardinalityType

\* A message that is about to be stamped has a number left.
LEMMA NumberLeft ==
    ASSUME NumbersLast, NEW w \in Workers, At(w, "stamp")
    PROVE  Cardinality(Stamped) + 1 \in Ids
  <1>1. w \in Accepted
    BY DEF Accepted, At
  <1>2. Cardinality(Accepted) # 0
    BY <1>1, Finite, FS_EmptySet
  <1> QED
    BY <1>2, Finite DEF NumbersLast, Ids

-----------------------------------------------------------------------------
(* Types. *)

LEMMA IdleIsTask == Idle \in Task
  BY DEF Idle, Task, Steps, Blank, Looks

LEMMA ClosedIsThread == Closed \in Thread
  BY DEF Closed, Thread, Blank, Looks

LEMMA StepNames ==
    {"check", "stamp", "commit", "notify", "create", "reader", "query", "answer"} \subseteq Steps
  BY DEF Steps

LEMMA MergedTyped ==
    ASSUME NEW items \in Looks, NEW page \in Looks
    PROVE  Merged(items, page) \in Looks
  BY DEF Merged, Looks

LEMMA BegunTyped ==
    ASSUME TypeOK, NEW w \in Workers, NEW kind \in {"send", "poll", "older"}, NEW step \in Steps,
           NEW u \in People, NEW cursor \in 0..MaxMessages, Begin(w, kind, step, u, cursor)
    PROVE  task' \in [Workers -> Task]
  <1>1. [Idle EXCEPT !.kind = kind, !.step = step, !.user = u, !.heard = TRUE, !.cursor = cursor] \in Task
    BY IdleIsTask DEF Task
  <1> QED
    BY <1>1 DEF Begin, TypeOK

LEMMA StepsTyped == TypeOK /\ NumbersLast /\ (\A w \in Workers : TaskOK(w)) /\ [Next]_vars => TypeOK'
  <1> SUFFICES ASSUME TypeOK, NumbersLast, \A w \in Workers : TaskOK(w), [Next]_vars PROVE TypeOK'
    OBVIOUS
  <1> USE DEF server
  <1>0. /\ task \in [Workers -> Task] /\ thread \in [Readers -> Thread]
        /\ messages \in [Ids -> States]
        /\ membership \in [People -> {"ACTIVE", "EXPIRED", "LEFT"}]
        /\ until \in [People -> SUBSET Ids]
        /\ Readers \subseteq People /\ Senders \subseteq People
    BY DEF TypeOK
  <1>1. ASSUME NEW w \in Workers, NEW step \in Steps, Go(w, step) PROVE task' \in [Workers -> Task]
    BY <1>0, <1>1 DEF Go, Task
  <1>2. ASSUME NEW w \in Workers, Return(w) PROVE task' \in [Workers -> Task]
    BY <1>0, <1>2, IdleIsTask DEF Return
  <1>3. ASSUME NEW u \in Readers, NEW status \in {"EXPIRED", "LEFT"}, Leave(u, status) PROVE TypeOK'
    <2>1. Stamped \subseteq Ids
      BY DEF Stamped
    <2> QED
      BY <1>0, <1>3, <2>1 DEF Leave, TypeOK
  <1>4. ASSUME NEW u \in Readers, Rejoin(u) PROVE TypeOK'
    BY <1>0, <1>4 DEF Rejoin, TypeOK
  <1>5. ASSUME NEW u \in Senders, NEW w \in Workers, Send(u, w) PROVE TypeOK'
    BY <1>0, <1>5, BegunTyped, StepNames DEF Send, TypeOK
  <1>6. ASSUME NEW w \in Workers, CheckMember(w) PROVE TypeOK'
    <2>1. ASSUME NEW all \in SUBSET People
          PROVE  [task EXCEPT ![w].step = "stamp", ![w].all = all, ![w].to = all] \in [Workers -> Task]
      <3>1. task[w] \in Task
        BY <1>0
      <3>2. [task[w] EXCEPT !.step = "stamp", !.all = all, !.to = all] \in Task
        BY <3>1, StepNames DEF Task
      <3>3. [task EXCEPT ![w].step = "stamp", ![w].all = all, ![w].to = all]
                = [task EXCEPT ![w] = [task[w] EXCEPT !.step = "stamp", !.all = all, !.to = all]]
        BY <1>0
      <3> QED
        BY <1>0, <3>2, <3>3
    <2>2. task' \in [Workers -> Task]
      <3>1. {v \in People \ {task[w].user} : Present(v)} \in SUBSET People
        OBVIOUS
      <3> QED
        BY <1>2, <1>6, <2>1, <3>1 DEF CheckMember
    <2> QED
      BY <1>6, <2>2 DEF CheckMember, TypeOK
  <1>7. ASSUME NEW w \in Workers, Stamp(w) PROVE TypeOK'
    <2> DEFINE n == Cardinality(Stamped) + 1
    <2>1. n \in Ids
      BY <1>7, NumberLeft DEF Stamp
    <2> HIDE DEF n
    <2>2. /\ messages' = [messages EXCEPT ![n] = "writing"]
          /\ task' = [task EXCEPT ![w].step = "commit", ![w].message = n]
      BY <1>7 DEF Stamp, n
    <2>3. messages' \in [Ids -> States]
      BY <1>0, <2>1, <2>2 DEF States
    <2>4. n \in 0..MaxMessages
      BY <2>1 DEF Ids
    <2>5. task' \in [Workers -> Task]
      <3>1. task[w] \in Task
        BY <1>0
      <3>2. [task[w] EXCEPT !.step = "commit", !.message = n] \in Task
        BY <2>4, <3>1, StepNames DEF Task
      <3>3. task' = [task EXCEPT ![w] = [task[w] EXCEPT !.step = "commit", !.message = n]]
        BY <1>0, <2>2
      <3> QED
        BY <1>0, <3>2, <3>3
    <2> QED
      BY <1>7, <2>3, <2>5 DEF Stamp, TypeOK
  <1>8. ASSUME NEW w \in Workers, Commit(w) PROVE TypeOK'
    <2>1. messages' \in [Ids -> States]
      BY <1>0, <1>8 DEF Commit, States
    <2> QED
      BY <1>1, <1>8, <2>1, StepNames DEF Commit, TypeOK
  <1>9. ASSUME NEW w \in Workers, Notify(w) PROVE TypeOK'
    <2>1. ASSUME NEW v \in task[w].to, NotifyNext(w, v) PROVE task' \in [Workers -> Task]
      <3>1. v \in People
        BY <1>0 DEF Task
      <3>2. task[w] \in Task /\ "create" \in Steps
        BY <1>0, StepNames
      <3>3. /\ [task[w] EXCEPT !.to = @ \ {v}] \in Task
            /\ [task[w] EXCEPT !.step = "create", !.next = v] \in Task
        BY <3>1, <3>2 DEF Task
      <3>4. \/ task' = [task EXCEPT ![w] = [task[w] EXCEPT !.to = @ \ {v}]]
            \/ task' = [task EXCEPT ![w] = [task[w] EXCEPT !.step = "create", !.next = v]]
        <4>1. CASE v \in notified
          BY <1>0, <2>1, <4>1 DEF NotifyNext
        <4>2. CASE v \notin notified
          <5>1. task' = [task EXCEPT ![w].step = "create", ![w].next = v]
            BY <2>1, <4>2 DEF NotifyNext
          <5> QED
            BY <1>0, <5>1
        <4> QED
          BY <4>1, <4>2
      <3> QED
        BY <1>0, <3>3, <3>4
    <2>2. ASSUME Sent(w) PROVE task' \in [Workers -> Task] /\ thread' \in [Readers -> Thread]
      <3>1. task' \in [Workers -> Task]
        BY <1>2, <2>2 DEF Sent
      <3>2. CASE task[w].user \in Readers
        <4> DEFINE u == task[w].user
                   items == [thread[u].items EXCEPT ![task[w].message] = "text"]
        <4>1. thread[u] \in Thread
          BY <1>0, <3>2
        <4>2. items \in Looks
          BY <4>1 DEF Thread, Looks
        <4>3. [thread[u] EXCEPT !.items = items] \in Thread
          <5> HIDE DEF items
          <5> QED
            BY <4>1, <4>2 DEF Thread
        <4>4. thread' = thread \/ thread' = [thread EXCEPT ![u] = [thread[u] EXCEPT !.items = items]]
          BY <1>0, <2>2, <3>2, <4>1 DEF Sent, Thread
        <4> QED
          BY <1>0, <3>1, <4>3, <4>4
      <3> QED
        BY <1>0, <2>2, <3>1, <3>2 DEF Sent
    <2> QED
      BY <1>9, <2>1, <2>2 DEF Notify, TypeOK
  <1>10. ASSUME NEW w \in Workers, CreateNotification(w) PROVE TypeOK'
    <2>1. task[w].next \in People
      BY <1>10 DEF CreateNotification, At, TaskOK
    <2>2. [task EXCEPT ![w].step = "notify", ![w].to = @ \ {task[w].next}, ![w].next = Nobody]
              \in [Workers -> Task]
      <3> DEFINE new == [task[w] EXCEPT !.step = "notify", !.to = @ \ {task[w].next}, !.next = Nobody]
      <3>1. task[w] \in Task
        BY <1>0
      <3>2. new \in Task
        BY <3>1, StepNames DEF Task
      <3>3. [task EXCEPT ![w].step = "notify", ![w].to = @ \ {task[w].next}, ![w].next = Nobody]
                = [task EXCEPT ![w] = new]
        BY <1>0
      <3> QED
        BY <1>0, <3>2, <3>3
    <2>3. task' \in [Workers -> Task]
      BY <1>2, <1>10, <2>2 DEF CreateNotification
    <2> QED
      BY <1>10, <2>1, <2>3 DEF CreateNotification, TypeOK
  <1>11. ASSUME NEW m \in Ids, Delete(m) PROVE TypeOK'
    BY <1>0, <1>11 DEF Delete, TypeOK, States
  <1>12. ASSUME NEW u \in Readers, Open(u) PROVE TypeOK'
    <2>1. [Closed EXCEPT !.open = TRUE, !.readOnly = ~Present(u)] \in Thread
      BY ClosedIsThread DEF Thread
    <2> QED
      BY <1>0, <1>12, <2>1 DEF Open, TypeOK
  <1>13. ASSUME NEW u \in Readers, Close(u) PROVE TypeOK'
    <2>1. ASSUME NEW w \in Workers PROVE [task[w] EXCEPT !.heard = FALSE] \in Task
      <3>1. task[w] \in Task
        BY <1>0
      <3> QED
        BY <3>1 DEF Task
    <2> QED
      BY <1>0, <1>13, <2>1, ClosedIsThread, IdleIsTask DEF Close, TypeOK
  <1>14. ASSUME NEW u \in Readers, NEW w \in Workers, Poll(u, w) \/ Older(u, w) PROVE TypeOK'
    <2>1. thread[u].cursor \in 0..MaxMessages /\ 0 \in 0..MaxMessages
      BY <1>0 DEF Thread
    <2> QED
      BY <1>0, <1>14, <2>1, BegunTyped, StepNames DEF Poll, Older, TypeOK
  <1>15. ASSUME NEW w \in Workers, CheckReader(w) PROVE TypeOK'
    <2>1. task[w].user \in People
      BY <1>0, <1>15 DEF CheckReader, At, TaskOK
    <2>2. History(task[w].user) \subseteq Ids
      BY <1>0, <2>1 DEF History
    <2>3. [task EXCEPT ![w].step = "query", ![w].upTo = History(task[w].user)] \in [Workers -> Task]
      <3>1. task[w] \in Task
        BY <1>0
      <3>2. [task[w] EXCEPT !.step = "query", !.upTo = History(task[w].user)] \in Task
        BY <2>2, <3>1, StepNames DEF Task
      <3>3. [task EXCEPT ![w].step = "query", ![w].upTo = History(task[w].user)]
                = [task EXCEPT ![w] = [task[w] EXCEPT !.step = "query", !.upTo = History(task[w].user)]]
        BY <1>0
      <3> QED
        BY <1>0, <3>2, <3>3
    <2>4. task' \in [Workers -> Task]
      BY <1>2, <1>15, <2>3 DEF CheckReader
    <2> QED
      BY <1>15, <2>4 DEF CheckReader, TypeOK
  <1>16. ASSUME NEW w \in Workers, Query(w) PROVE TypeOK'
    <2> DEFINE set == {m \in Written \cap task[w].upTo : task[w].cursor = 0 \/ m < task[w].cursor}
               page == [m \in Ids |-> IF m \in Newest(set) THEN messages[m] ELSE "none"]
    <2>1. set \in SUBSET Ids /\ Newest(set) \subseteq Written
      BY DEF Written, Newest
    <2>2. NextCursor(set) \in 0..MaxMessages
      BY <2>1, CursorTyped
    <2>3. page \in Looks
      BY <2>1 DEF Looks, Written
    <2>4. task' = [task EXCEPT ![w].step = "answer", ![w].cursor = NextCursor(set), ![w].page = page]
      BY <1>16 DEF Query
    <2> HIDE DEF set, page
    <2>5. task' \in [Workers -> Task]
      <3> DEFINE cursor == NextCursor(set)
                 new == [task[w] EXCEPT !.step = "answer", !.cursor = cursor, !.page = page]
      <3>1. task[w] \in Task /\ cursor \in 0..MaxMessages
        BY <1>0, <2>2
      <3>2. task' = [task EXCEPT ![w] = new]
        BY <1>0, <2>4
      <3> HIDE DEF cursor
      <3>3. new \in Task
        BY <2>3, <3>1, StepNames DEF Task
      <3> QED
        BY <1>0, <3>2, <3>3
    <2> QED
      BY <1>16, <2>5 DEF Query, TypeOK
  <1>17. ASSUME NEW w \in Workers, AnswerPoll(w) \/ AnswerOlder(w) PROVE TypeOK'
    <2> DEFINE t == task[w]
    <2>1. t \in Task /\ t.user \in Readers
      BY <1>0, <1>17 DEF AnswerPoll, AnswerOlder, At, TaskOK
    <2>2. Merged(thread[t.user].items, t.page) \in Looks /\ t.cursor \in 0..MaxMessages
          /\ PolledCursor(t.user, t.cursor) \in 0..MaxMessages
      <3>1. thread[t.user] \in Thread
        BY <1>0, <2>1
      <3> QED
        BY <2>1, <3>1, MergedTyped DEF Thread, Task, PolledCursor
    <2>3. ASSUME NEW c \in 0..MaxMessages,
                 thread' = [thread EXCEPT ![t.user].items = Merged(@, t.page), ![t.user].cursor = c]
          PROVE  thread' \in [Readers -> Thread]
      <3> HIDE DEF t
      <3> QED
        BY <1>0, <2>1, <2>2, <2>3 DEF Thread
    <2>4. thread' \in [Readers -> Thread]
      BY <1>17, <2>2, <2>3 DEF AnswerPoll, AnswerOlder
    <2> QED
      BY <1>2, <1>17, <2>4 DEF AnswerPoll, AnswerOlder, TypeOK
  <1>18. ASSUME NEW w \in Workers, Break(w) PROVE TypeOK'
    <2>1. messages' \in [Ids -> States]
      BY <1>0, <1>18 DEF Break, States
    <2>2. failures' \in 0..MaxFaults
      BY <1>18 DEF Break, TypeOK
    <2> QED
      BY <1>2, <1>18, <2>1, <2>2 DEF Break, TypeOK
  <1>19. CASE UNCHANGED vars
    BY <1>19 DEF vars, TypeOK
  <1> QED
    BY <1>3, <1>4, <1>5, <1>6, <1>7, <1>8, <1>9, <1>10, <1>11, <1>12, <1>13, <1>14, <1>15, <1>16, <1>17,
       <1>18, <1>19 DEF Next, Step

-----------------------------------------------------------------------------
(* What a step leaves of the messages, the threads and the requests. *)

Grows ==
    /\ \A m \in Ids : messages[m] # "none" => messages'[m] # "none"
    /\ notified \subseteq notified'

\* The thread of u stays on the screen, or is not on it.
Stays(u) ==
    thread[u].open => thread'[u].open /\ thread'[u].readOnly = thread[u].readOnly

\* A membership that is read on after its end stays as it ended.
PastStays ==
    \A u \in Readers : thread[u].open /\ thread[u].readOnly =>
        until'[u] = until[u] /\ membership'[u] = membership[u]

LEMMA StepsGrow == TypeOK /\ NumbersLast /\ (\A w \in Workers : TaskOK(w)) /\ [Next]_vars => Grows
  <1> SUFFICES ASSUME TypeOK, NumbersLast, \A w \in Workers : TaskOK(w), [Next]_vars PROVE Grows
    OBVIOUS
  <1> USE DEF server
  <1>0. messages \in [Ids -> States]
    BY DEF TypeOK
  <1>1. ASSUME NEW w \in Workers, Stamp(w) PROVE Grows
    <2> DEFINE n == Cardinality(Stamped) + 1
    <2>1. messages' = [messages EXCEPT ![n] = "writing"] /\ notified' = notified
      BY <1>1 DEF Stamp
    <2> HIDE DEF n
    <2> QED
      BY <1>0, <2>1 DEF Grows
  <1>2. ASSUME NEW w \in Workers, Commit(w) \/ Break(w) PROVE Grows
    BY <1>0, <1>2 DEF Commit, Break, Grows
  <1>3. ASSUME NEW w \in Workers, CreateNotification(w) PROVE Grows
    BY <1>3 DEF CreateNotification, Grows
  <1>4. ASSUME NEW m \in Ids, Delete(m) PROVE Grows
    BY <1>0, <1>4 DEF Delete, Grows
  <1>5. ASSUME UNCHANGED <<messages, notified>> PROVE Grows
    BY <1>5 DEF Grows
  <1>6. ASSUME NEW w \in Workers, Step(w) PROVE Grows
    BY <1>1, <1>2, <1>3, <1>5, <1>6
       DEF Step, CheckMember, Notify, CheckReader, Query, AnswerPoll, AnswerOlder
  <1> QED
    BY <1>2, <1>4, <1>5, <1>6 DEF Next, Send, Open, Close, Poll, Older, Leave, Rejoin, vars

LEMMA StepsLeavePast == TypeOK /\ ReadersArePast /\ [Next]_vars => PastStays
  <1> SUFFICES ASSUME TypeOK, ReadersArePast, [Next]_vars PROVE PastStays
    OBVIOUS
  <1> USE DEF server
  <1>1. ASSUME NEW u \in Readers, NEW status, Leave(u, status) PROVE PastStays
    BY <1>1 DEF Leave, PastStays, ReadersArePast, TypeOK
  <1>2. ASSUME NEW u \in Readers, Rejoin(u) PROVE PastStays
    BY <1>2 DEF Rejoin, PastStays, TypeOK
  <1>3. ASSUME UNCHANGED <<membership, until>> PROVE PastStays
    BY <1>3 DEF PastStays
  <1> QED
    BY <1>1, <1>2, <1>3 DEF Next, Step, CheckMember, Stamp, Commit, Notify, CreateNotification, CheckReader,
                            Query, AnswerPoll, AnswerOlder, Break, Send, Delete, Open, Close, Poll, Older, vars

LEMMA ThreadSteps ==
    ASSUME TypeOK, [Next]_vars, NEW u \in Readers
    PROVE  Stays(u) \/ Close(u)
  <1> USE DEF server
  <1>0. thread \in [Readers -> Thread]
    BY DEF TypeOK
  <1>1. ASSUME NEW w \in Workers, AnswerPoll(w) \/ AnswerOlder(w) PROVE Stays(u)
    <2>1. PICK x, items, c : thread' = [thread EXCEPT ![x].items = items, ![x].cursor = c]
      BY <1>1 DEF AnswerPoll, AnswerOlder
    <2>2. thread'[u].open = thread[u].open /\ thread'[u].readOnly = thread[u].readOnly
      BY <1>0, <2>1 DEF Thread
    <2> QED
      BY <2>2 DEF Stays
  <1>2. ASSUME NEW w \in Workers, Notify(w) PROVE Stays(u)
    <2>1. CASE thread' = thread
      BY <2>1 DEF Stays
    <2>2. CASE Sent(w)
      BY <1>0, <2>2 DEF Sent, Stays, Thread
    <2> QED
      BY <1>2, <2>1, <2>2 DEF Notify
  <1>3. ASSUME NEW x \in Readers, Open(x) PROVE Stays(u)
    BY <1>0, <1>3 DEF Open, Stays
  <1>4. ASSUME NEW x \in Readers, Close(x) PROVE Stays(u) \/ Close(u)
    BY <1>0, <1>4 DEF Close, Stays
  <1>5. ASSUME thread' = thread PROVE Stays(u)
    BY <1>5 DEF Stays
  <1>6. ASSUME NEW w \in Workers, Step(w) PROVE Stays(u)
    BY <1>1, <1>2, <1>5, <1>6 DEF Step, CheckMember, Stamp, Commit, CreateNotification, CheckReader, Query
  <1> QED
    BY <1>3, <1>4, <1>5, <1>6 DEF Next, Break, Send, Delete, Poll, Older, Leave, Rejoin, vars

LEMMA TaskStays ==
    ASSUME TypeOK, Grows, PastStays, NEW w \in Workers, task'[w] = task[w],
           task[w].user \in Readers =>
               \/ Stays(task[w].user)
               \/ task[w].kind \notin {"poll", "older", "send"},
           TaskOK(w), PageOK(w), RoundOK(w)
    PROVE  TaskOK(w)' /\ PageOK(w)' /\ RoundOK(w)'
  <1> DEFINE t == task[w]
  <1>1. TaskOK(w)'
    <2>1. t.kind \in {"poll", "older"} => t.user \in Readers /\ thread'[t.user].open
      BY DEF TaskOK, Stays
    <2>2. t.kind = "send" /\ t.heard /\ t.user \in Readers =>
              thread'[t.user].open /\ ~thread'[t.user].readOnly
      BY DEF TaskOK, Stays
    <2>3. t.step = "commit" => t.message \in Ids /\ messages'[t.message] # "none"
      BY DEF TaskOK, Grows
    <2> QED
      BY <2>1, <2>2, <2>3 DEF TaskOK
  <1>2. PageOK(w)'
    <2> SUFFICES ASSUME t.kind \in {"poll", "older"}, thread'[t.user].readOnly PROVE PageOK(w)'
      BY DEF PageOK
    <2>1. t.user \in Readers /\ thread[t.user].open /\ thread[t.user].readOnly
      BY DEF TaskOK, Stays
    <2>2. until'[t.user] = until[t.user] /\ membership'[t.user] = membership[t.user]
      BY <2>1 DEF PastStays
    <2> QED
      BY <2>1, <2>2 DEF PageOK
  <1> QED
    BY <1>1, <1>2 DEF RoundOK, Grows

LEMMA IdleTaskOK ==
    ASSUME NEW w, task'[w] = Idle PROVE TaskOK(w)' /\ PageOK(w)' /\ RoundOK(w)'
  BY DEF Idle, TaskOK, PageOK, RoundOK

LEMMA StepsKeepTasks ==
    Inv /\ [Next]_vars => \A w \in Workers : TaskOK(w)' /\ PageOK(w)' /\ RoundOK(w)'
  <1> SUFFICES ASSUME Inv, [Next]_vars, NEW w \in Workers PROVE TaskOK(w)' /\ PageOK(w)' /\ RoundOK(w)'
    OBVIOUS
  <1> USE DEF server
  <1> DEFINE Fine == TaskOK(w)' /\ PageOK(w)' /\ RoundOK(w)'
  <1>0. /\ TypeOK /\ Grows /\ PastStays
        /\ task \in [Workers -> Task] /\ thread \in [Readers -> Thread]
        /\ TaskOK(w) /\ PageOK(w) /\ RoundOK(w)
        /\ ReadersArePast
    BY StepsGrow, StepsLeavePast DEF Inv, TypeOK, RoundReachesAll, RoundOK
  <1>1. ASSUME task'[w] = task[w], \A u \in Readers : Stays(u) PROVE Fine
    BY <1>0, <1>1, TaskStays
  <1>2. ASSUME NEW v \in Workers, Return(v), \A u \in Readers : Stays(u) PROVE Fine
    <2>1. CASE v = w
      BY <1>0, <1>2, <2>1, IdleTaskOK DEF Return
    <2>2. CASE v # w
      BY <1>0, <1>1, <1>2, <2>2 DEF Return
    <2> QED
      BY <2>1, <2>2
  <1>3. ASSUME NEW u \in Readers, Close(u) PROVE Fine
    <2>1. CASE task[w].user # u
      <3>1. task'[w] = task[w] /\ \A x \in Readers : x # u => Stays(x)
        BY <1>0, <1>3, <2>1 DEF Close, Stays
      <3> QED
        BY <1>0, <2>1, <3>1, TaskStays
    <2>2. CASE task[w].user = u /\ task[w].kind = "send"
      <3>1. task'[w] = [task[w] EXCEPT !.heard = FALSE] /\ task[w] \in Task
        BY <1>0, <1>3, <2>2 DEF Close
      <3>2. /\ task'[w].kind = "send" /\ task'[w].heard = FALSE
            /\ task'[w].step = task[w].step /\ task'[w].message = task[w].message
            /\ task'[w].next = task[w].next
            /\ task'[w].all = task[w].all /\ task'[w].to = task[w].to
        BY <2>2, <3>1 DEF Task
      <3> QED
        BY <1>0, <2>2, <3>2 DEF TaskOK, PageOK, RoundOK, Grows
    <2>3. CASE task[w].user = u /\ task[w].kind # "send"
      BY <1>3, <2>3, IdleTaskOK DEF Close
    <2> QED
      BY <2>1, <2>2, <2>3
  <1>4. ASSUME NEW v \in Workers, NEW kind, NEW step, NEW u, NEW cursor, Begin(v, kind, step, u, cursor),
               thread' = thread,
               \/ kind = "send" /\ step = "check" /\ (u \in Readers => thread[u].open /\ ~thread[u].readOnly)
               \/ kind \in {"poll", "older"} /\ step = "reader" /\ u \in Readers /\ thread[u].open
        PROVE  Fine
    <2>1. CASE v # w
      BY <1>0, <1>1, <1>4, <2>1 DEF Begin, Stays
    <2>2. CASE v = w
      <3>1. task'[w] = [Idle EXCEPT !.kind = kind, !.step = step, !.user = u, !.heard = TRUE,
                                    !.cursor = cursor]
        BY <1>0, <1>4, <2>2 DEF Begin
      <3>2. /\ task'[w].kind = kind /\ task'[w].step = step /\ task'[w].user = u
            /\ task'[w].all = {}
        BY <3>1 DEF Idle
      <3> QED
        BY <1>4, <3>2 DEF TaskOK, PageOK, RoundOK
    <2> QED
      BY <2>1, <2>2
  <1>5. ASSUME NEW v \in Workers, Step(v) \/ Break(v) PROVE \A u \in Readers : Stays(u)
    <2>1. ASSUME NEW u \in Readers, Close(u), ~Stays(u) PROVE FALSE
      <3>1. thread[u].open /\ thread'[u] = Closed
        BY <1>0, <2>1 DEF Close
      <3>2. ~thread'[u].open
        BY <3>1 DEF Closed
      <3>3. ASSUME Sent(v) PROVE thread'[u].open
        BY <1>0, <3>1, <3>3 DEF Sent, Thread
      <3>4. ASSUME NEW x, NEW items, NEW c, thread' = [thread EXCEPT ![x].items = items, ![x].cursor = c]
            PROVE  thread'[u].open
        BY <1>0, <3>1, <3>4 DEF Thread
      <3>5. thread' = thread \/ Sent(v) \/ AnswerPoll(v) \/ AnswerOlder(v)
        BY <1>5 DEF Step, Break, CheckMember, Stamp, Commit, Notify, CreateNotification, CheckReader, Query
      <3> QED
        BY <3>1, <3>2, <3>3, <3>4, <3>5 DEF AnswerPoll, AnswerOlder
    <2> QED
      BY <1>0, <2>1, ThreadSteps
  <1>6. ASSUME NEW v \in Workers, v # w, Step(v) \/ Break(v) PROVE Fine
    <2>1. task'[w] = task[w]
      BY <1>0, <1>6 DEF Step, Break, CheckMember, Stamp, Commit, Notify, NotifyNext, Sent, Go,
                        CreateNotification, CheckReader, Query, AnswerPoll, AnswerOlder, Return
    <2> QED
      BY <1>1, <1>5, <1>6, <2>1
  <1>7. task[w] \in Task
    BY <1>0
  <1>8. ASSUME CheckMember(w) PROVE Fine
    <2>1. CASE Present(task[w].user)
      <3>1. PICK all : task' = [task EXCEPT ![w].step = "stamp", ![w].all = all, ![w].to = all]
        BY <1>8, <2>1 DEF CheckMember
      <3>2. task' = [task EXCEPT ![w] = [task[w] EXCEPT !.step = "stamp", !.all = all, !.to = all]]
        BY <1>0, <3>1
      <3>3. /\ task'[w].step = "stamp" /\ task'[w].all = all /\ task'[w].to = all
            /\ task'[w].kind = task[w].kind /\ task'[w].user = task[w].user
            /\ task'[w].heard = task[w].heard
        BY <1>0, <1>7, <3>2 DEF Task
      <3>4. thread' = thread /\ task[w].kind = "send"
        BY <1>0, <1>8 DEF CheckMember, At, TaskOK
      <3> QED
        BY <1>0, <3>3, <3>4 DEF TaskOK, PageOK, RoundOK
    <2>2. CASE ~Present(task[w].user)
      BY <1>2, <1>5, <1>8, <2>2 DEF CheckMember, Step
    <2> QED
      BY <2>1, <2>2
  <1>9. ASSUME Stamp(w) PROVE Fine
    <2> DEFINE n == Cardinality(Stamped) + 1
    <2>1. n \in Ids
      BY <1>9, NumberLeft DEF Inv, Stamp
    <2> HIDE DEF n
    <2>2. /\ messages' = [messages EXCEPT ![n] = "writing"]
          /\ task' = [task EXCEPT ![w].step = "commit", ![w].message = n]
          /\ thread' = thread
      BY <1>9 DEF Stamp, n
    <2>3. task' = [task EXCEPT ![w] = [task[w] EXCEPT !.step = "commit", !.message = n]]
      BY <1>0, <2>2
    <2>4. /\ task'[w].step = "commit" /\ task'[w].message = n
          /\ task'[w].all = task[w].all /\ task'[w].to = task[w].to
          /\ task'[w].kind = task[w].kind /\ task'[w].user = task[w].user
          /\ task'[w].heard = task[w].heard
      BY <1>0, <1>7, <2>3 DEF Task
    <2>5. messages'[n] = "writing" /\ task[w].kind = "send"
      BY <1>0, <1>9, <2>1, <2>2 DEF TypeOK, Stamp, At, TaskOK
    <2> QED
      BY <1>0, <2>1, <2>2, <2>4, <2>5 DEF TaskOK, PageOK, RoundOK, Grows
  <1>10. ASSUME Commit(w) PROVE Fine
    <2>1. /\ task'[w].step = "notify"
          /\ task'[w].all = task[w].all /\ task'[w].to = task[w].to
          /\ task'[w].kind = task[w].kind /\ task'[w].user = task[w].user
          /\ task'[w].heard = task[w].heard
      BY <1>0, <1>10 DEF Commit, Go, Task
    <2>2. thread' = thread /\ task[w].kind = "send"
      BY <1>0, <1>10 DEF Commit, At, TaskOK
    <2> QED
      BY <1>0, <2>1, <2>2 DEF TaskOK, PageOK, RoundOK, Grows
  <1>11. ASSUME Notify(w) PROVE Fine
    <2>0. task[w].kind = "send" /\ task[w].step = "notify"
      BY <1>0, <1>11 DEF Notify, At, TaskOK
    <2>1. ASSUME NEW v \in task[w].to, v \in notified, task' = [task EXCEPT ![w].to = @ \ {v}], thread' = thread
          PROVE  Fine
      <3>1. /\ task'[w].step = "notify"
            /\ task'[w].all = task[w].all /\ task'[w].to = task[w].to \ {v}
            /\ task'[w].kind = task[w].kind /\ task'[w].user = task[w].user
            /\ task'[w].heard = task[w].heard
        BY <1>0, <2>0, <2>1 DEF Task
      <3> QED
        BY <1>0, <2>0, <2>1, <3>1 DEF TaskOK, PageOK, RoundOK, Grows
    <2>2. ASSUME NEW v \in task[w].to, task' = [task EXCEPT ![w].step = "create", ![w].next = v], thread' = thread
          PROVE  Fine
      <3>1. task' = [task EXCEPT ![w] = [task[w] EXCEPT !.step = "create", !.next = v]]
        BY <1>0, <2>2
      <3>2. /\ task'[w].step = "create" /\ task'[w].next = v
            /\ task'[w].all = task[w].all /\ task'[w].to = task[w].to
            /\ task'[w].kind = task[w].kind /\ task'[w].user = task[w].user
            /\ task'[w].heard = task[w].heard
        BY <1>0, <1>7, <3>1 DEF Task
      <3>3. v \in People
        BY <1>7 DEF Task
      <3> QED
        BY <1>0, <2>0, <2>2, <3>2, <3>3 DEF TaskOK, PageOK, RoundOK, Grows
    <2>3. ASSUME Sent(w) PROVE Fine
      BY <1>2, <1>5, <1>11, <2>3 DEF Sent, Step
    <2> QED
      BY <1>11, <2>1, <2>2, <2>3 DEF Notify, NotifyNext
  <1>12. ASSUME CreateNotification(w) PROVE Fine
    <2>1. CASE task[w].next \in notified
      BY <1>2, <1>5, <1>12, <2>1 DEF CreateNotification, Step
    <2>2. CASE task[w].next \notin notified
      <3> DEFINE to == task[w].to \ {task[w].next}
      <3>1. task' = [task EXCEPT ![w] = [task[w] EXCEPT !.step = "notify", !.to = to, !.next = Nobody]]
        BY <1>0, <1>12, <2>2 DEF CreateNotification
      <3>2. /\ task'[w].step = "notify"
            /\ task'[w].all = task[w].all /\ task'[w].to = to
            /\ task'[w].kind = task[w].kind /\ task'[w].user = task[w].user
            /\ task'[w].heard = task[w].heard
        BY <1>0, <1>7, <3>1 DEF Task
      <3>3. /\ thread' = thread /\ task[w].kind = "send"
            /\ task[w].next \in notified' /\ notified \subseteq notified'
        BY <1>0, <1>12, <2>2 DEF CreateNotification, At, TaskOK
      <3>4. RoundOK(w)'
        BY <1>0, <3>2, <3>3 DEF RoundOK
      <3> QED
        BY <1>0, <3>2, <3>3, <3>4 DEF TaskOK, PageOK
    <2> QED
      BY <2>1, <2>2
  <1>13. ASSUME CheckReader(w) PROVE Fine
    <2> DEFINE u == task[w].user
    <2>1. CASE membership[u] \in {"ACTIVE", "EXPIRED"}
      <3>1. task' = [task EXCEPT ![w] = [task[w] EXCEPT !.step = "query", !.upTo = History(u)]]
        BY <1>0, <1>13, <2>1 DEF CheckReader
      <3>2. /\ task'[w].step = "query" /\ task'[w].upTo = History(u)
            /\ task'[w].all = task[w].all /\ task'[w].to = task[w].to
            /\ task'[w].kind = task[w].kind /\ task'[w].user = task[w].user
            /\ task'[w].heard = task[w].heard
        BY <1>0, <1>7, <3>1 DEF Task
      <3>3. /\ UNCHANGED <<thread, until, notified>>
            /\ task[w].kind \in {"poll", "older"} /\ u \in Readers
        BY <1>0, <1>13 DEF CheckReader, At, TaskOK
      <3>4. thread[u].readOnly => History(u) = until[u]
        BY <1>0, <3>3 DEF TaskOK, ReadersArePast, History
      <3> QED
        BY <1>0, <3>2, <3>3, <3>4 DEF TaskOK, PageOK, RoundOK
    <2>2. CASE membership[u] \notin {"ACTIVE", "EXPIRED"}
      BY <1>2, <1>5, <1>13, <2>2 DEF CheckReader, Step
    <2> QED
      BY <2>1, <2>2
  <1>14. ASSUME Query(w) PROVE Fine
    <2> DEFINE set == {m \in Written \cap task[w].upTo : task[w].cursor = 0 \/ m < task[w].cursor}
               page == [m \in Ids |-> IF m \in Newest(set) THEN messages[m] ELSE "none"]
               cursor == NextCursor(set)
    <2>1. task' = [task EXCEPT ![w].step = "answer", ![w].cursor = cursor, ![w].page = page]
      BY <1>14 DEF Query
    <2>2. \A m \in Ids : page[m] # "none" => m \in task[w].upTo
      BY DEF Newest
    <2> HIDE DEF page, cursor
    <2>3. task' = [task EXCEPT ![w] = [task[w] EXCEPT !.step = "answer", !.cursor = cursor, !.page = page]]
      BY <1>0, <2>1
    <2>4. /\ task'[w].step = "answer" /\ task'[w].page = page
          /\ task'[w].all = task[w].all /\ task'[w].to = task[w].to
          /\ task'[w].kind = task[w].kind /\ task'[w].user = task[w].user
          /\ task'[w].heard = task[w].heard
      BY <1>0, <1>7, <2>3 DEF Task
    <2>5. /\ UNCHANGED <<thread, until, notified>> /\ task[w].step = "query"
          /\ task[w].kind \in {"poll", "older"}
      BY <1>0, <1>14 DEF Query, At, TaskOK
    <2> QED
      BY <1>0, <2>2, <2>4, <2>5 DEF TaskOK, PageOK, RoundOK
  <1>15. ASSUME AnswerPoll(w) \/ AnswerOlder(w) \/ Break(w) PROVE Fine
    <2>1. Return(w) /\ (Step(w) \/ Break(w))
      BY <1>15 DEF AnswerPoll, AnswerOlder, Break, Step
    <2> QED
      BY <1>2, <1>5, <2>1
  <1>17. ASSUME task' = task, UNCHANGED thread PROVE Fine
    BY <1>1, <1>17 DEF Stays
  <1>18. ASSUME NEW u \in Readers, Open(u) PROVE Fine
    <2>1. \A x \in Readers : Stays(x)
      BY <1>0, <1>18 DEF Open, Stays
    <2> QED
      BY <1>1, <1>18, <2>1 DEF Open
  <1>19. ASSUME NEW u \in Senders, NEW v \in Workers, Send(u, v) PROVE Fine
    BY <1>4, <1>19 DEF Send
  <1>20. ASSUME NEW u \in Readers, NEW v \in Workers, Poll(u, v) \/ Older(u, v) PROVE Fine
    BY <1>4, <1>20 DEF Poll, Older
  <1>21. ASSUME NEW v \in Workers, Step(v) \/ Break(v) PROVE Fine
    BY <1>6, <1>8, <1>9, <1>10, <1>11, <1>12, <1>13, <1>14, <1>15, <1>21 DEF Step
  <1> HIDE DEF Fine
  <1>22. Fine
    BY <1>3, <1>17, <1>18, <1>19, <1>20, <1>21 DEF Next, Delete, Leave, Rejoin, vars
  <1> QED
    BY <1>22 DEF Fine

LEMMA StepsKeepPast == Inv /\ [Next]_vars => ReadersArePast'
  <1> SUFFICES ASSUME Inv, [Next]_vars, NEW u \in Readers, thread'[u].open, thread'[u].readOnly
               PROVE  membership'[u] # "ACTIVE"
    BY DEF ReadersArePast, Present
  <1>0. thread \in [Readers -> Thread] /\ ReadersArePast /\ PastStays
    BY StepsLeavePast DEF Inv, TypeOK
  <1>1. CASE thread[u].open /\ thread[u].readOnly
    BY <1>0, <1>1 DEF ReadersArePast, PastStays, Present
  <1>2. CASE ~thread[u].open
    <2>1. ASSUME NEW x \in Readers, Open(x) PROVE membership'[u] # "ACTIVE"
      BY <1>0, <1>2, <2>1 DEF Open, Present, Closed, server
    <2>2. ASSUME NEW x, NEW items, NEW c, thread' = [thread EXCEPT ![x].items = items, ![x].cursor = c]
          PROVE  thread'[u].open = thread[u].open
      BY <1>0, <2>2 DEF Thread
    <2>3. ASSUME NEW w \in Workers, Sent(w) PROVE thread'[u].open = thread[u].open
      BY <1>0, <2>3 DEF Sent, Thread
    <2>4. ASSUME NEW x \in Readers, Close(x) PROVE ~thread'[u].open
      BY <1>0, <1>2, <2>4 DEF Close, Closed
    <2>5. \/ thread' = thread
          \/ \E x \in Readers : Open(x) \/ Close(x)
          \/ \E w \in Workers : Sent(w) \/ AnswerPoll(w) \/ AnswerOlder(w)
      BY DEF Next, Step, CheckMember, Stamp, Commit, Notify, CreateNotification, CheckReader, Query,
             Break, Send, Delete, Poll, Older, Leave, Rejoin, vars
    <2>6. ASSUME NEW w \in Workers, AnswerPoll(w) \/ AnswerOlder(w) PROVE thread'[u].open = thread[u].open
      BY <2>2, <2>6 DEF AnswerPoll, AnswerOlder
    <2> QED
      BY <1>2, <2>1, <2>3, <2>4, <2>5, <2>6
  <1>3. Stays(u) \/ Close(u)
    BY ThreadSteps DEF Inv
  <1>4. ASSUME Close(u) PROVE FALSE
    BY <1>0, <1>4 DEF Close, Closed
  <1> QED
    BY <1>1, <1>2, <1>3, <1>4 DEF Stays

LEMMA StepsKeepHistory == Inv /\ [Next]_vars => HistoryEndsWithPass'
  <1> SUFFICES ASSUME Inv, [Next]_vars, NEW u \in Readers, thread'[u].open, thread'[u].readOnly,
                      NEW m \in Ids, thread'[u].items[m] # "none"
               PROVE  m \in until'[u]
    BY DEF HistoryEndsWithPass
  <1>0. thread \in [Readers -> Thread] /\ PastStays
    BY StepsLeavePast DEF Inv, TypeOK
  <1>1. CASE thread[u].open /\ thread[u].readOnly
    <2>1. until'[u] = until[u]
      BY <1>0, <1>1 DEF PastStays
    <2>2. ASSUME thread[u].items[m] # "none" PROVE m \in until'[u]
      BY <1>1, <2>1, <2>2 DEF Inv, ReadersArePast, HistoryEndsWithPass
    <2>3. ASSUME NEW w \in Workers, AnswerPoll(w) \/ AnswerOlder(w), thread[u].items[m] = "none"
          PROVE  m \in until'[u]
      <3>1. task[w].kind \in {"poll", "older"} /\ task[w].step = "answer"
        BY <2>3 DEF AnswerPoll, AnswerOlder, At
      <3>2. PICK c : thread' = [thread EXCEPT ![task[w].user].items = Merged(@, task[w].page),
                                             ![task[w].user].cursor = c]
        BY <2>3 DEF AnswerPoll, AnswerOlder
      <3>3. task[w].user = u
        BY <1>0, <2>3, <3>2
      <3>4. thread'[u].items = Merged(thread[u].items, task[w].page)
        BY <1>0, <3>2, <3>3 DEF Thread
      <3>5. task[w].page[m] # "none"
        BY <2>3, <3>4 DEF Merged
      <3> QED
        BY <1>1, <2>1, <3>1, <3>3, <3>5 DEF Inv, PageOK
    <2>4. ASSUME NEW w \in Workers, Notify(w), Sent(w) PROVE thread'[u] = thread[u]
      <3>1. task[w].kind = "send"
        BY <2>4 DEF Notify, At, Inv, TaskOK
      <3>2. ~(task[w].heard /\ task[w].user = u)
        BY <1>1, <3>1 DEF Inv, TaskOK
      <3> QED
        BY <1>0, <2>4, <3>2 DEF Sent
    <2>5. ASSUME NEW x \in Readers, Open(x) \/ Close(x) PROVE thread'[u] = thread[u]
      BY <1>0, <1>1, <2>5 DEF Open, Close, Closed
    <2>6. \/ thread' = thread
          \/ \E x \in Readers : Open(x) \/ Close(x)
          \/ \E w \in Workers : (Notify(w) /\ Sent(w)) \/ AnswerPoll(w) \/ AnswerOlder(w)
      BY DEF Next, Step, CheckMember, Stamp, Commit, Notify, CreateNotification, CheckReader, Query,
             Break, Send, Delete, Poll, Older, Leave, Rejoin, vars
    <2> QED
      BY <2>2, <2>3, <2>4, <2>5, <2>6
  <1>2. CASE ~thread[u].open
    <2>1. ASSUME NEW x \in Readers, Open(x) PROVE FALSE
      BY <1>0, <1>2, <2>1 DEF Open, Closed, Blank
    <2>2. ASSUME NEW x, NEW items, NEW c, thread' = [thread EXCEPT ![x].items = items, ![x].cursor = c]
          PROVE  thread'[u].open = thread[u].open
      BY <1>0, <2>2 DEF Thread
    <2>3. ASSUME NEW w \in Workers, Sent(w) PROVE thread'[u].open = thread[u].open
      BY <1>0, <2>3 DEF Sent, Thread
    <2>4. ASSUME NEW x \in Readers, Close(x) PROVE ~thread'[u].open
      BY <1>0, <1>2, <2>4 DEF Close, Closed
    <2>5. \/ thread' = thread
          \/ \E x \in Readers : Open(x) \/ Close(x)
          \/ \E w \in Workers : Sent(w) \/ AnswerPoll(w) \/ AnswerOlder(w)
      BY DEF Next, Step, CheckMember, Stamp, Commit, Notify, CreateNotification, CheckReader, Query,
             Break, Send, Delete, Poll, Older, Leave, Rejoin, vars
    <2> QED
      BY <1>2, <2>1, <2>2, <2>3, <2>4, <2>5 DEF AnswerPoll, AnswerOlder
  <1>3. Stays(u) \/ Close(u)
    BY ThreadSteps DEF Inv
  <1>4. ASSUME Close(u) PROVE FALSE
    BY <1>0, <1>4 DEF Close, Closed
  <1> QED
    BY <1>1, <1>2, <1>3, <1>4 DEF Stays

-----------------------------------------------------------------------------
(* Every message that was accepted has its number. *)

LEMMA NoMoreNumbers ==
    ASSUME NumbersLast, Stamped' \subseteq Stamped, Accepted' \subseteq Accepted
    PROVE  NumbersLast'
  <1>1. /\ IsFiniteSet(Stamped) /\ IsFiniteSet(Accepted)
        /\ Cardinality(Stamped) \in Nat /\ Cardinality(Accepted) \in Nat
    BY Finite
  <1> DEFINE S == Stamped' A == Accepted'
  <1>2. S \in SUBSET Stamped /\ A \in SUBSET Accepted
    OBVIOUS
  <1> HIDE DEF S, A
  <1>3. Cardinality(S) <= Cardinality(Stamped) /\ Cardinality(A) <= Cardinality(Accepted)
        /\ Cardinality(S) \in Nat /\ Cardinality(A) \in Nat
    BY <1>1, <1>2, FS_Subset, FS_CardinalityType
  <1>4. Cardinality(S) + Cardinality(A) <= MaxMessages
    BY <1>1, <1>3 DEF NumbersLast
  <1> QED
    BY <1>4 DEF NumbersLast, S, A

LEMMA StepsKeepNumbers == Inv /\ [Next]_vars => NumbersLast'
  <1> SUFFICES ASSUME Inv, [Next]_vars PROVE NumbersLast'
    OBVIOUS
  <1> USE DEF server
  <1>0. /\ task \in [Workers -> Task] /\ messages \in [Ids -> States]
        /\ NumbersLast /\ \A w \in Workers : TaskOK(w)
    BY DEF Inv, TypeOK
  <1>1. ASSUME NEW u \in Senders, NEW w \in Workers, Send(u, w) PROVE NumbersLast'
    <2>1. Stamped' = Stamped
      BY <1>1 DEF Send, Stamped
    <2>2. Accepted' = Accepted \cup {w}
      <3>1. \A v \in Workers : v # w => task'[v] = task[v]
        BY <1>0, <1>1 DEF Send, Begin
      <3>2. task'[w].step = "check"
        BY <1>0, <1>1 DEF Send, Begin, Idle
      <3> QED
        BY <3>1, <3>2 DEF Accepted
    <2>3. w \notin Accepted
      BY <1>1 DEF Send, Begin, Idle, Accepted
    <2>4. Cardinality(Stamped) + Cardinality(Accepted) < MaxMessages
      BY <1>1 DEF Send, Accepted
    <2>5. Cardinality(Accepted \cup {w}) = Cardinality(Accepted) + 1
      BY <2>3, Finite, FS_AddElement
    <2> QED
      BY <2>1, <2>2, <2>4, <2>5, Finite DEF NumbersLast
  <1>2. ASSUME NEW w \in Workers, Stamp(w) PROVE NumbersLast'
    <2> DEFINE n == Cardinality(Stamped) + 1
    <2>1. n \in Ids
      BY <1>0, <1>2, NumberLeft DEF Stamp
    <2> HIDE DEF n
    <2>2. /\ messages' = [messages EXCEPT ![n] = "writing"]
          /\ task' = [task EXCEPT ![w].step = "commit", ![w].message = n]
      BY <1>2 DEF Stamp, n
    <2>3. Stamped' = Stamped \cup {n}
      BY <1>0, <2>1, <2>2 DEF Stamped
    <2>4. Accepted' = Accepted \ {w} /\ w \in Accepted
      <3>1. \A v \in Workers : v # w => task'[v] = task[v]
        BY <1>0, <2>2
      <3>2. task' = [task EXCEPT ![w] = [task[w] EXCEPT !.step = "commit", !.message = n]]
        BY <1>0, <2>2
      <3>3. task[w] \in Task
        BY <1>0
      <3>4. task'[w].step = "commit"
        BY <1>0, <3>2, <3>3 DEF Task
      <3> QED
        BY <1>2, <3>1, <3>4 DEF Accepted, Stamp, At
    <2>5. Cardinality(Stamped \cup {n}) <= Cardinality(Stamped) + 1
          /\ Cardinality(Stamped \cup {n}) \in Nat
      <3>1. Cardinality(Stamped \cup {n}) =
                IF n \in Stamped THEN Cardinality(Stamped) ELSE Cardinality(Stamped) + 1
        BY Finite, FS_AddElement
      <3> QED
        BY <3>1, Finite
    <2>6. Cardinality(Accepted \ {w}) = Cardinality(Accepted) - 1
      BY <2>4, Finite, FS_RemoveElement
    <2> QED
      BY <1>0, <2>3, <2>4, <2>5, <2>6, Finite DEF NumbersLast
  <1>3. ASSUME NEW w \in Workers, CheckMember(w) PROVE NumbersLast'
    <2>1. Accepted' \subseteq Accepted
      <3>1. \A v \in Workers : v # w => task'[v] = task[v]
        BY <1>0, <1>3 DEF CheckMember, Return
      <3> QED
        BY <1>3, <3>1 DEF Accepted, CheckMember, At
    <2> QED
      BY <1>0, <1>3, <2>1, NoMoreNumbers DEF CheckMember, Stamped
  <1>4. ASSUME \A w \in Workers : task'[w].step \in {"check", "stamp"} => task'[w].step = task[w].step,
               \A m \in Ids : messages[m] = "none" => messages'[m] = "none"
        PROVE  NumbersLast'
    <2>1. Stamped' \subseteq Stamped /\ Accepted' \subseteq Accepted
      BY <1>4 DEF Stamped, Accepted
    <2> QED
      BY <1>0, <2>1, NoMoreNumbers
  <1>5. ASSUME NEW w \in Workers, Commit(w) PROVE NumbersLast'
    <2>1. messages[task[w].message] # "none"
      BY <1>0, <1>5 DEF Commit, At, TaskOK
    <2> QED
      BY <1>0, <1>4, <1>5, <2>1 DEF Commit, Go, Task
  <1>6. ASSUME NEW w \in Workers, Break(w) PROVE NumbersLast'
    <2>1. At(w, "commit") => messages[task[w].message] # "none"
      BY <1>0 DEF At, TaskOK
    <2> QED
      BY <1>0, <1>4, <1>6, <2>1 DEF Break, Return, Idle
  <1>7. ASSUME NEW w \in Workers, Notify(w) \/ CreateNotification(w) \/ CheckReader(w) \/ Query(w)
                                  \/ AnswerPoll(w) \/ AnswerOlder(w)
        PROVE  NumbersLast'
    <2>1. messages' = messages
      BY <1>7 DEF Notify, CreateNotification, CheckReader, Query, AnswerPoll, AnswerOlder
    <2>2. \A v \in Workers : v # w => task'[v] = task[v]
      BY <1>0, <1>7 DEF Notify, NotifyNext, Sent, CreateNotification, CheckReader, Query, AnswerPoll,
                        AnswerOlder, Return
    <2>3. task'[w].step \notin {"check", "stamp"}
      <3>0. task[w] \in Task
        BY <1>0
      <3>1. CASE Return(w)
        BY <1>0, <3>1 DEF Return, Idle
      <3>2. CASE Notify(w) /\ ~Return(w)
        BY <1>0, <3>0, <3>2 DEF Notify, NotifyNext, Sent, At, Task
      <3>3. CASE CreateNotification(w) /\ ~Return(w)
        BY <1>0, <3>0, <3>3 DEF CreateNotification, Task
      <3>4. CASE CheckReader(w) /\ ~Return(w)
        BY <1>0, <3>0, <3>4 DEF CheckReader, Task
      <3>5. CASE Query(w)
        <4>1. PICK page, cursor : task' = [task EXCEPT ![w].step = "answer", ![w].cursor = cursor,
                                                       ![w].page = page]
          BY <3>5 DEF Query
        <4>2. task' = [task EXCEPT ![w] = [task[w] EXCEPT !.step = "answer", !.cursor = cursor, !.page = page]]
          BY <1>0, <4>1
        <4> QED
          BY <1>0, <3>0, <4>2 DEF Task
      <3> QED
        BY <1>7, <3>1, <3>2, <3>3, <3>4, <3>5 DEF AnswerPoll, AnswerOlder
    <2> QED
      BY <1>4, <2>1, <2>2, <2>3
  <1>8. ASSUME NEW u \in Readers, Close(u) PROVE NumbersLast'
    <2>1. ASSUME NEW w \in Workers PROVE task'[w].step \in {"idle", task[w].step}
      <3>0. task[w] \in Task
        BY <1>0
      <3> QED
        BY <1>8, <3>0 DEF Close, Task, Idle
    <2> QED
      BY <1>4, <1>8, <2>1 DEF Close
  <1>9. ASSUME NEW m \in Ids, Delete(m) PROVE NumbersLast'
    BY <1>0, <1>4, <1>9 DEF Delete
  <1>10. ASSUME NEW u \in Readers, NEW w \in Workers, Poll(u, w) \/ Older(u, w) PROVE NumbersLast'
    <2>1. \A v \in Workers : v # w => task'[v] = task[v]
      BY <1>0, <1>10 DEF Poll, Older, Begin
    <2>2. task'[w].step = "reader"
      <3>1. ASSUME NEW kind, NEW cursor, Begin(w, kind, "reader", u, cursor) PROVE task'[w].step = "reader"
        BY <1>0, <3>1 DEF Begin, Idle
      <3> QED
        BY <1>10, <3>1 DEF Poll, Older
    <2> QED
      BY <1>4, <1>10, <2>1, <2>2 DEF Poll, Older
  <1>11. ASSUME UNCHANGED <<messages, task>> PROVE NumbersLast'
    BY <1>4, <1>11
  <1> QED
    BY <1>1, <1>2, <1>3, <1>5, <1>6, <1>7, <1>8, <1>9, <1>10, <1>11
       DEF Next, Step, Open, Leave, Rejoin, vars

-----------------------------------------------------------------------------
(* The invariant, and the theorems. *)

LEMMA Initially == Init => Inv
  <1> SUFFICES ASSUME Init PROVE Inv
    OBVIOUS
  <1>1. TypeOK
    BY IdleIsTask, ClosedIsThread DEF Init, TypeOK, States
  <1>2. NumbersLast
    <2>1. Stamped = {} /\ Accepted = {}
      BY DEF Init, Stamped, Accepted, Idle
    <2> QED
      BY <2>1, FS_EmptySet DEF NumbersLast
  <1> QED
    BY <1>1, <1>2 DEF Init, Inv, TaskOK, PageOK, Idle, Closed, ReadersArePast, HistoryEndsWithPass,
                      RoundReachesAll

LEMMA Invariant == Init /\ [][Next]_vars => []Inv
  <1>1. Inv /\ [Next]_vars => Inv'
    <2> SUFFICES ASSUME Inv, [Next]_vars PROVE Inv'
      OBVIOUS
    <2>1. TypeOK'
      BY StepsTyped DEF Inv
    <2>2. \A w \in Workers : TaskOK(w)' /\ PageOK(w)' /\ RoundOK(w)'
      BY StepsKeepTasks
    <2> QED
      BY <2>1, <2>2, StepsKeepNumbers, StepsKeepPast, StepsKeepHistory DEF Inv, RoundReachesAll, RoundOK
  <1> QED
    BY <1>1, Initially, PTL

\* Rows, requests and screens are well formed: a message that was accepted always finds a
\* number of its own, and a page a cursor (send() and messages() in conversations.service.ts).
THEOREM RoomTyped == WholeRoom => []RoomOK
  <1>1. Inv /\ PollInv => RoomOK
    BY DEF Inv, PollInv, RoomOK
  <1> QED
    BY <1>1, Invariant, PollInvariant, PTL DEF WholeRoom

\* notify() in the send of a message leaves nobody out, however many rounds overlap: whoever
\* a round is done with has this hour's notification.
THEOREM RoundsReachAll == WholeRoom => []RoundReachesAll
  <1>1. Inv => RoundReachesAll
    BY DEF Inv
  <1> QED
    BY <1>1, Invariant, PTL DEF WholeRoom

\* A thread that somebody reads on after their pass ran out never shows what was said later
\* (requireReader() and messages()), whatever pages were on their way when it was opened.
THEOREM HistoryIsCutOff == WholeRoom => []HistoryEndsWithPass
  <1>1. Inv => HistoryEndsWithPass
    BY DEF Inv
  <1> QED
    BY <1>1, Invariant, PTL DEF WholeRoom

\* What TLC explores, talking and voting apart, is part of the whole room, so that all of the
\* above holds of it.
THEOREM PartOfTheRoom == RoomSpec => WholeRoom
  <1>1. [RoomNext]_<<vars, doing, pvars>> => [Next]_vars /\ [P!Next]_pvars
    <2>1. ComeOrGo => Next
      BY DEF ComeOrGo, Next
    <2> QED
      BY <2>1 DEF RoomNext
  <1> QED
    BY <1>1, PTL DEF RoomSpec, RoomInit, WholeRoom
=============================================================================
