-------------------------- MODULE PlanningBoardProofs --------------------------
(***************************************************************************)
(* What the board guarantees for any queue, deck, users and subtasks, any   *)
(* number of edits, messages and estimates under way, and whatever the      *)
(* server and Businessmap answer.                                          *)
(***************************************************************************)
EXTENDS PlanningBoard, ListLemmas

-----------------------------------------------------------------------------
(* Sessions *)

Good(s) == s \in RoomSession /\ s.revealed \in BOOLEAN /\ (s.isDemo => HasCurrent(s))

\* Slips aside, whoever may vote is a user, and a ballot begins blank.
LEMMA BlankType ==
  ASSUME NEW people \in SUBSET Users
  PROVE  BlankBallots(people) \in [people -> Ballot]
BY DEF BlankBallots, Ballot

\* A queue whose cards are replaced is a queue of the same length.
LEMMA QueueType ==
  ASSUME NEW s, Good(s), NEW q, q \in [DOMAIN s.queue -> Card]
  PROVE  q \in Seq(Card) /\ DOMAIN q = DOMAIN s.queue /\ Len(q) = Len(s.queue)
<1>1. s.queue \in Seq(Card)
  BY DEF Good, RoomSession
<1>2. DOMAIN s.queue = 1..Len(s.queue) /\ Len(s.queue) \in Nat
  BY <1>1, LenProperties
<1>3. q \in Seq(Card)
  BY <1>2, IsASeq
<1>4. QED
  BY <1>2, <1>3, LenProperties

LEMMA ReplaceQueue ==
  ASSUME NEW s, Good(s), NEW q, q \in [DOMAIN s.queue -> Card]
  PROVE  Good([s EXCEPT !.queue = q])
<1>1. q \in Seq(Card) /\ DOMAIN q = DOMAIN s.queue
  BY QueueType
<1>2. QED
  BY <1>1 DEF Good, RoomSession, HasCurrent

LEMMA CardsType == ASSUME NEW s, Good(s) PROVE s.queue \in [DOMAIN s.queue -> Card]
<1>1. s.queue \in Seq(Card)
  BY DEF Good, RoomSession
<1>2. QED
  BY <1>1, LenProperties

LEMMA CurrentType ==
  ASSUME NEW s, Good(s), HasCurrent(s)
  PROVE  Current(s) \in Card /\ Current(s).text \in Texts /\ Current(s).id \in CardIds
<1>1. Current(s) \in Card
  BY CardsType DEF Current, HasCurrent
<1>2. QED
  BY <1>1 DEF Card

LEMMA OpenRoundType == ASSUME NEW s, Good(s) PROVE Good(OpenRound(s))
<1>1. BlankBallots(Voters) \in [Voters -> Ballot] /\ Voters \in SUBSET Users
  BY BlankType, RolesAssumption
<1>2. QED
  BY <1>1 DEF OpenRound, Good, RoomSession, HasCurrent

LEMMA EstimatedType ==
  ASSUME NEW s, Good(s), NEW v \in Values
  PROVE  Good(Estimated(s, v)) /\ Estimated(s, v).isDemo = s.isDemo
<1> DEFINE q == [s.queue EXCEPT ![s.idx].estimated = v]
<1>1. CASE HasCurrent(s)
  <2>1. [s.queue[s.idx] EXCEPT !.estimated = v] \in Card
    BY <1>1, CurrentType DEF Current, Card
  <2>2. q \in [DOMAIN s.queue -> Card]
    BY <2>1, CardsType
  <2>3. Good([s EXCEPT !.queue = q])
    BY <2>2, ReplaceQueue
  <2>4. Estimated(s, v) = [[s EXCEPT !.queue = q] EXCEPT !.status = "consensus"]
    BY <1>1 DEF Estimated, Good, RoomSession
  <2>5. QED
    BY <2>3, <2>4 DEF Good, RoomSession, HasCurrent
<1>2. CASE ~HasCurrent(s)
  BY <1>2 DEF Estimated, Good, RoomSession, HasCurrent
<1>3. QED
  BY <1>1, <1>2

LEMMA NextInType == ASSUME NEW s, Good(s) PROVE Good(NextIn(s))
<1>1. s.queue \in Seq(Card) /\ s.idx \in Nat /\ DOMAIN s.queue = 1..Len(s.queue) /\ Len(s.queue) \in Nat
  BY LenProperties DEF Good, RoomSession
<1>2. CASE s.idx + 1 > Len(s.queue)
  BY <1>2 DEF NextIn, Good, RoomSession, HasCurrent
<1>3. CASE ~(s.idx + 1 > Len(s.queue))
  <2>1. s.idx + 1 \in DOMAIN s.queue /\ s.idx + 1 \in Nat
    BY <1>1, <1>3
  <2>2. Good([s EXCEPT !.idx = @ + 1])
    BY <2>1 DEF Good, RoomSession, HasCurrent
  <2>3. QED
    BY <1>3, <2>2, OpenRoundType DEF NextIn
<1>4. QED
  BY <1>2, <1>3

AllBallots == UNION {[us -> Ballot] : us \in SUBSET Users}
Phases == {"waiting", "voting", "revealed", "consensus", "closed"}

LEMMA VotesType ==
  ASSUME NEW s, Good(s)
  PROVE  DOMAIN s.votes \subseteq Users /\ s.votes \in [DOMAIN s.votes -> Ballot]
<1>1. s.votes \in AllBallots
  BY DEF Good, RoomSession, AllBallots
<1>2. PICK us \in SUBSET Users : s.votes \in [us -> Ballot]
  BY <1>1 DEF AllBallots
<1>3. QED
  BY <1>2

\* Another phase with other ballots.
WithRound(s, phase, votes, flag) ==
  [s EXCEPT !.status = phase, !.votes = votes, !.revealed = flag]

LEMMA ReplaceVotes ==
  ASSUME NEW s, NEW us, NEW votes, NEW phase, NEW flag, NEW t,
         Good(s), us \subseteq Users, votes \in [us -> Ballot],
         phase \in Phases, flag \in BOOLEAN,
         t = WithRound(s, phase, votes, flag)
  PROVE  /\ Good(t)
         /\ t.isDemo = s.isDemo /\ t.queue = s.queue /\ t.idx = s.idx /\ t.people = s.people
         /\ t.status = phase /\ t.votes = votes /\ t.revealed = flag
<1>1. votes \in AllBallots
  BY DEF AllBallots
<1>2. s \in [isDemo : BOOLEAN, status : Phases, queue : Seq(Card), idx : Nat,
             people : [Users -> {"online", "offline", "absent"}],
             votes : AllBallots, revealed : BOOLEAN \cup {None}]
  BY DEF Good, RoomSession, AllBallots, Phases
<1> USE DEF WithRound
<1>3. t \in [isDemo : BOOLEAN, status : Phases, queue : Seq(Card), idx : Nat,
             people : [Users -> {"online", "offline", "absent"}],
             votes : AllBallots, revealed : BOOLEAN \cup {None}]
  BY <1>1, <1>2
<1>4. /\ t.isDemo = s.isDemo /\ t.queue = s.queue /\ t.idx = s.idx /\ t.people = s.people
      /\ t.status = phase /\ t.votes = votes /\ t.revealed = flag
  BY <1>2
<1>5. t \in RoomSession
  BY <1>3 DEF RoomSession, AllBallots, Phases
<1>6. QED
  BY <1>4, <1>5 DEF Good, HasCurrent

\* What an operation makes of a session in the demo, it leaves to the server in
\* a live room.
LEMMA InModeType ==
  ASSUME Good(session), NEW s, Good(s), InMode(s)
  PROVE  Good(session') /\ (~session.isDemo => session' = session)
BY DEF InMode, Demo, SendLive

-----------------------------------------------------------------------------
(* Operations *)

Highlights == Values \cup {None}

\* What an operation of the page leaves behind: a session of the right type, of
\* the same kind, of which a live page has changed nothing that is shared.
Operated ==
  /\ Good(session') /\ session'.isDemo = session.isDemo
  /\ me' \in Users /\ selectedVote' \in Highlights
  /\ ~session.isDemo => Shared(session') = Shared(session)

Played == Good(session) /\ me \in Users /\ selectedVote \in Highlights

LEMMA ModeOperates ==
  ASSUME Played, NEW s, Good(s), s.isDemo = session.isDemo, InMode(s),
         me' \in Users, selectedVote' \in Highlights
  PROVE  Operated
<1>1. session' = s \/ session' = session
  BY DEF InMode, Demo, SendLive
<1>2. ~session.isDemo => session' = session
  BY DEF InMode, SendLive
<1>3. QED
  BY <1>1, <1>2 DEF Operated, Played

LEMMA OpenRoundKind == ASSUME NEW s, Good(s) PROVE OpenRound(s).isDemo = s.isDemo
BY DEF OpenRound, Good, RoomSession

LEMMA NextInKind == ASSUME NEW s, Good(s) PROVE NextIn(s).isDemo = s.isDemo
BY DEF NextIn, OpenRound, Good, RoomSession

LEMMA RoundOperates ==
  ASSUME Played, StartVoting \/ Revote
  PROVE  Operated
<1>1. InMode(OpenRound(session)) /\ me' = me /\ selectedVote' \in {None, selectedVote}
  BY DEF StartVoting, Revote, Forget
<1>2. QED
  BY <1>1, ModeOperates, OpenRoundType, OpenRoundKind DEF Played, Highlights

LEMMA RevealOperates == ASSUME Played, RevealVotes PROVE Operated
<1> DEFINE votes == [u \in DOMAIN session.votes |-> [session.votes[u] EXCEPT !.revealed = TRUE]]
           flag == TRUE
           s == [session EXCEPT !.status = "revealed", !.revealed = flag, !.votes = votes]
<1>1. session.votes \in [DOMAIN session.votes -> Ballot] /\ DOMAIN session.votes \in SUBSET Users
  BY VotesType DEF Played
<1>2. votes \in [DOMAIN session.votes -> Ballot]
  BY <1>1 DEF Ballot
<1>3. InMode(s) /\ UNCHANGED <<me, selectedVote>>
  BY DEF RevealVotes
<1> HIDE DEF votes
<1>4. s = WithRound(session, "revealed", votes, flag)
  BY DEF WithRound, Played, Good, RoomSession
<1> HIDE DEF s
<1>5. "revealed" \in Phases /\ flag \in BOOLEAN
  BY DEF Phases
<1> HIDE DEF flag
<1>6. Good(s) /\ s.isDemo = session.isDemo
  BY <1>1, <1>2, <1>4, <1>5, ReplaceVotes DEF Played
<1>7. QED
  BY <1>3, <1>6, ModeOperates DEF Played

LEMMA ApplyOperates ==
  ASSUME Played, NEW v \in Values, ApplyConsensusAndNext(v) PROVE Operated
<1> DEFINE s == NextIn(Estimated(session, v))
<1>1. Good(s) /\ s.isDemo = session.isDemo
  BY EstimatedType, NextInType, NextInKind DEF Played
<1>2. InMode(s) /\ me' = me /\ selectedVote' = None
  BY DEF ApplyConsensusAndNext, Forget
<1>3. QED
  BY <1>1, <1>2, ModeOperates DEF Played, Highlights

LEMMA VoteOperates ==
  ASSUME Played, NEW v \in Values, CastVote(v) PROVE Operated
<1>1. selectedVote' = v /\ me' = me
  BY DEF CastVote
<1>2. CASE me \in DOMAIN session.votes
  <2> DEFINE votes == [session.votes EXCEPT ![me].value = v]
  <2>1. session.votes \in [DOMAIN session.votes -> Ballot] /\ DOMAIN session.votes \in SUBSET Users
    BY VotesType DEF Played
  <2>2. /\ votes \in [DOMAIN session.votes -> Ballot]
        /\ \A u \in DOMAIN session.votes \ {me} : votes[u] = session.votes[u]
    BY <1>2, <2>1 DEF Ballot
  <2>3. session' = [session EXCEPT !.votes = votes]
    BY <1>2 DEF CastVote
  <2> HIDE DEF votes
  <2>4. session' = WithRound(session, session.status, votes, session.revealed)
    BY <2>3 DEF WithRound, Played, Good, RoomSession
  <2>5. session.status \in Phases /\ session.revealed \in BOOLEAN
    BY DEF Played, Good, RoomSession, Phases
  <2>6. /\ Good(session') /\ session'.isDemo = session.isDemo
        /\ session'.status = session.status /\ session'.idx = session.idx
        /\ session'.revealed = session.revealed /\ session'.queue = session.queue
        /\ session'.votes = votes
    BY <2>1, <2>2, <2>4, <2>5, ReplaceVotes DEF Played
  <2>7. [u \in DOMAIN session'.votes \ {me} |-> session'.votes[u]]
          = [u \in DOMAIN session.votes \ {me} |-> session.votes[u]]
    BY <2>2, <2>6
  <2>8. Shared(session') = Shared(session)
    BY <2>6, <2>7 DEF Shared
  <2>9. QED
    BY <1>1, <2>6, <2>8 DEF Operated, Played, Highlights
<1>3. CASE me \notin DOMAIN session.votes
  BY <1>1, <1>3 DEF CastVote, Operated, Played, Highlights
<1>4. QED
  BY <1>2, <1>3

LEMMA SelectOperates ==
  ASSUME Played, NEW i, SelectCurrentCard(i) PROVE Operated
<1>1. me' = me /\ selectedVote' = None
  BY DEF SelectCurrentCard, Forget
<1>2. CASE session.isDemo /\ i \in DOMAIN session.queue /\ i # session.idx
  <2>1. BlankBallots({}) \in [{} -> Ballot] /\ {} \in SUBSET Users
    BY BlankType
  <2>2. i \in Nat
    BY <1>2, LenProperties DEF Played, Good, RoomSession
  <2>3. session' = [session EXCEPT !.idx = i, !.status = "waiting",
                                   !.votes = BlankBallots({}), !.revealed = FALSE]
    BY <1>2 DEF SelectCurrentCard
  <2>4. Good(session') /\ session'.isDemo = session.isDemo
    BY <1>2, <2>1, <2>2, <2>3 DEF Played, Good, RoomSession, HasCurrent
  <2>5. QED
    BY <1>1, <1>2, <2>4 DEF Operated, Played, Highlights
<1>3. CASE ~(session.isDemo /\ i \in DOMAIN session.queue /\ i # session.idx)
  BY <1>1, <1>3 DEF SelectCurrentCard, Operated, Played, Highlights
<1>4. QED
  BY <1>2, <1>3

\* Cards whose estimates stay are all a live page changes in its queue.
LEMMA QueueOperates ==
  ASSUME Played, UNCHANGED <<me, selectedVote>>,
         NEW q, q \in [DOMAIN session.queue -> Card],
         \A i \in DOMAIN session.queue : q[i].estimated = session.queue[i].estimated,
         session' = [session EXCEPT !.queue = q]
  PROVE  Operated
<1>1. Good(session')
  BY ReplaceQueue DEF Played
<1>2. /\ session'.status = session.status /\ session'.idx = session.idx
      /\ session'.revealed = session.revealed /\ session'.votes = session.votes
      /\ session'.queue = q /\ session'.isDemo = session.isDemo
  BY DEF Played, Good, RoomSession
<1>3. DOMAIN q = DOMAIN session.queue
  OBVIOUS
<1>4. [i \in DOMAIN session'.queue |-> session'.queue[i].estimated]
        = [i \in DOMAIN session.queue |-> session.queue[i].estimated]
  BY <1>2, <1>3
<1>5. Shared(session') = Shared(session)
  BY <1>2, <1>4 DEF Shared
<1>6. QED
  BY <1>1, <1>2, <1>5 DEF Operated, Played

LEMMA CardOperates ==
  ASSUME Played, NEW card, UpdateCurrentCard(card),
         HasCurrent(session) => card \in Card /\ card.estimated = Current(session).estimated
  PROVE  Operated
<1> DEFINE q == [session.queue EXCEPT ![session.idx] = card]
<1>1. session.queue \in [DOMAIN session.queue -> Card] /\ HasCurrent(session)
  BY CardsType DEF Played, UpdateCurrentCard
<1>2. q \in [DOMAIN session.queue -> Card]
      /\ \A i \in DOMAIN session.queue : q[i].estimated = session.queue[i].estimated
  BY <1>1 DEF Current, HasCurrent
<1>3. session' = [session EXCEPT !.queue = q] /\ UNCHANGED <<me, selectedVote>>
  BY DEF UpdateCurrentCard
<1>4. QED
  BY <1>2, <1>3, QueueOperates

SubtaskSets == UNION {[ids -> Subtask] : ids \in SUBSET SubtaskIds}

LEMMA SubtasksOperate ==
  ASSUME Played, NEW sub \in SubtaskSets, SetSubtasks(sub) PROVE Operated
<1>0. HasCurrent(session)
  BY DEF SetSubtasks, UpdateCurrentCard
<1>1. [Current(session) EXCEPT !.subtasks = sub] \in Card
      /\ [Current(session) EXCEPT !.subtasks = sub].estimated = Current(session).estimated
  BY <1>0, CurrentType DEF Played, Card, SubtaskSets
<1>2. QED
  BY <1>1, CardOperates DEF SetSubtasks

LEMMA OldSubtasks ==
  ASSUME Played, HasCurrent(session)
  PROVE  \E ids \in SUBSET SubtaskIds : Current(session).subtasks \in [ids -> Subtask]
<1>1. Current(session).subtasks \in SubtaskSets
  BY CurrentType DEF Played, Card, SubtaskSets
<1>2. QED
  BY <1>1 DEF SubtaskSets

LEMMA EditOperates ==
  ASSUME Played, NEW id \in SubtaskIds, NEW t \in Texts,
         \/ SetDescription(t) \/ AddSubtask(id, t) \/ UpdateSubtask(id, t)
         \/ ToggleSubtask(id) \/ RemoveSubtask(id)
  PROVE  Operated
<1> DEFINE old == Current(session).subtasks
<1>0. HasCurrent(session)
  BY DEF SetDescription, AddSubtask, UpdateSubtask, ToggleSubtask, RemoveSubtask, OnSubtask,
         SetSubtasks, UpdateCurrentCard
<1>1. PICK ids \in SUBSET SubtaskIds : old \in [ids -> Subtask]
  BY <1>0, OldSubtasks
<1>2. CASE SetDescription(t)
  <2>1. [Current(session) EXCEPT !.text = t] \in Card
        /\ [Current(session) EXCEPT !.text = t].estimated = Current(session).estimated
    BY <1>0, CurrentType DEF Played, Card
  <2>2. QED
    BY <1>2, <2>1, CardOperates DEF SetDescription
<1>3. CASE AddSubtask(id, t)
  <2> DEFINE sub == [i \in DOMAIN old \cup {id} |->
                       IF i = id THEN [title |-> t, done |-> FALSE] ELSE old[i]]
  <2>1. sub \in [ids \cup {id} -> Subtask]
    BY <1>1 DEF Subtask
  <2>2. sub \in SubtaskSets /\ SetSubtasks(sub)
    BY <1>3, <2>1 DEF SubtaskSets, AddSubtask
  <2>3. QED
    BY <2>2, SubtasksOperate
<1>4. CASE UpdateSubtask(id, t)
  <2> DEFINE sub == [i \in DOMAIN old |-> IF i = id THEN [old[i] EXCEPT !.title = t] ELSE old[i]]
  <2>1. sub \in [ids -> Subtask]
    BY <1>1 DEF Subtask
  <2>2. sub \in SubtaskSets /\ SetSubtasks(sub)
    BY <1>4, <2>1 DEF SubtaskSets, UpdateSubtask, OnSubtask
  <2>3. QED
    BY <2>2, SubtasksOperate
<1>5. CASE ToggleSubtask(id)
  <2> DEFINE sub == [i \in DOMAIN old |-> IF i = id THEN [old[i] EXCEPT !.done = ~@] ELSE old[i]]
  <2>1. sub \in [ids -> Subtask]
    BY <1>1 DEF Subtask
  <2>2. sub \in SubtaskSets /\ SetSubtasks(sub)
    BY <1>5, <2>1 DEF SubtaskSets, ToggleSubtask, OnSubtask
  <2>3. QED
    BY <2>2, SubtasksOperate
<1>6. CASE RemoveSubtask(id)
  <2> DEFINE sub == Restrict(old, DOMAIN old \ {id})
  <2>1. sub \in [ids \ {id} -> Subtask]
    BY <1>1 DEF Restrict
  <2>2. sub \in SubtaskSets /\ SetSubtasks(sub)
    BY <1>6, <2>1 DEF SubtaskSets, RemoveSubtask
  <2>3. QED
    BY <2>2, SubtasksOperate
<1>7. QED
  BY <1>2, <1>3, <1>4, <1>5, <1>6

LEMMA ExcludeOperates ==
  ASSUME Played, NEW id, ToggleCardExcludedFromVoting(id) PROVE Operated
<1> DEFINE q == [i \in DOMAIN session.queue |->
                   IF session.queue[i].id = id
                   THEN [session.queue[i] EXCEPT !.excluded = ~@] ELSE session.queue[i]]
<1>1. session.queue \in [DOMAIN session.queue -> Card]
  BY CardsType DEF Played
<1>2. q \in [DOMAIN session.queue -> Card]
      /\ \A i \in DOMAIN session.queue : q[i].estimated = session.queue[i].estimated
  BY <1>1 DEF Card
<1>3. session' = [session EXCEPT !.queue = q] /\ UNCHANGED <<me, selectedVote>>
  BY DEF ToggleCardExcludedFromVoting, OnCard
<1>4. QED
  BY <1>2, <1>3, QueueOperates

-----------------------------------------------------------------------------
(* Messages of the server *)

\* A message changes a live session into another one.
Received ==
  /\ ~session.isDemo /\ ~session'.isDemo /\ Good(session') /\ UNCHANGED <<me, selectedVote>>

LEMMA FlagType ==
  ASSUME NEW room \in RoomSession
  PROVE  (IF room.revealed = None THEN room.status \in {"revealed", "consensus"}
                                  ELSE room.revealed) \in BOOLEAN
<1>1. CASE room.revealed = None
  <2>1. CASE room.status \in {"revealed", "consensus"}
    BY <1>1, <2>1
  <2>2. CASE room.status \notin {"revealed", "consensus"}
    BY <1>1, <2>2
  <2>3. QED
    BY <2>1, <2>2
<1>2. CASE room.revealed # None
  <2> DEFINE flag == IF room.revealed = None THEN room.status \in {"revealed", "consensus"}
                     ELSE room.revealed
  <2>1. room.revealed \in BOOLEAN \cup {None}
    BY DEF RoomSession
  <2>2. flag = room.revealed
    BY <1>2
  <2>3. flag \in BOOLEAN
    BY <1>2, <2>1, <2>2, Zenon
  <2>4. QED
    BY <2>3
<1>3. QED
  BY <1>1, <1>2

\* Whoever it is sent to, a room is a session of the page.
LEMMA MappedType ==
  ASSUME NEW room \in RoomSession
  PROVE  Good(MapRoomState(room)) /\ ~MapRoomState(room).isDemo
<1> DEFINE flag == IF room.revealed = None THEN room.status \in {"revealed", "consensus"}
                   ELSE room.revealed
<1>1. flag \in BOOLEAN
  BY FlagType
<1>2. MapRoomState(room) = [room EXCEPT !.isDemo = FALSE, !.revealed = flag]
  BY DEF MapRoomState
<1> HIDE DEF flag
<1>3. QED
  BY <1>1, <1>2 DEF RoomSession, Good

LEMMA SentType == ASSUME NEW room \in RoomSession PROVE SessionForUser(room) \in RoomSession
<1> DEFINE open == {c \in ToSet(room.queue) : InVotingQueue(c)}
           votable == Select(room.queue, open)
           shown == {i \in DOMAIN votable : HasCurrent(room) /\ votable[i].id = Current(room).id}
           idx == IF shown = {} THEN 0 ELSE Max(shown)
<1>1. room.queue \in Seq(Card)
  BY DEF RoomSession
<1>2. SessionForUser(room) \in {room, [room EXCEPT !.queue = votable, !.idx = idx]}
  BY DEF SessionForUser
<1> HIDE DEF open
<1>3. votable \in Seq(Card)
  BY <1>1, SelectPositions
<1>4. Len(votable) \in Nat /\ shown \subseteq 1..Len(votable)
  BY <1>3, LenProperties
<1> HIDE DEF votable, shown
<1>5. idx \in Nat
  <2>1. CASE shown = {}
    BY <2>1
  <2>2. CASE shown # {}
    <3>1. Max(shown) \in shown
      BY <1>4, <2>2, LargestPosition
    <3>2. Max(shown) \in 1..Len(votable)
      BY <1>4, <3>1, Zenon
    <3>3. Max(shown) \in Nat
      BY <1>4, <3>2
    <3>4. QED
      BY <2>2, <3>3, Zenon
  <2>3. QED
    BY <2>1, <2>2
<1> HIDE DEF idx
<1>6. QED
  BY <1>2, <1>3, <1>5 DEF RoomSession

LEMMA RoomStateArrives ==
  ASSUME Played, NEW room \in RoomStates, RoomState(room) PROVE Received
<1>1. room \in RoomSession
  BY QueueAssumption
<1>2. SessionForUser(room) \in RoomSession
  BY <1>1, SentType
<1>3. Good(session') /\ ~session'.isDemo
  BY <1>2, MappedType DEF RoomState, Receive
<1>4. QED
  BY <1>3 DEF RoomState, Receive, Received

\* What a live page begins with, however it came.
LEMMA LiveBegins ==
  ASSUME Init, session # BuildMockSession(DemoQueue)
  PROVE  Good(session) /\ ~session.isDemo
<1>1. PICK room \in RoomStates :
        session = MapRoomState(room) \/ session = MapRoomState(SessionForUser(room))
  BY DEF Init
<1>2. room \in RoomSession /\ SessionForUser(room) \in RoomSession
  BY QueueAssumption, SentType
<1>3. QED
  BY <1>1, <1>2, MappedType

\* A message about a card leaves the kind of session and its round alone.
LEMMA CardArrives ==
  ASSUME Played, NEW q, q \in [DOMAIN session.queue -> Card],
         NEW phase, phase \in Phases,
         Receive([session EXCEPT !.queue = q, !.status = phase])
  PROVE  Received
<1>1. q \in Seq(Card) /\ DOMAIN q = DOMAIN session.queue
  BY QueueType DEF Played
<1>2. Good(session') /\ session'.isDemo = session.isDemo
  BY <1>1 DEF Receive, Played, Good, RoomSession, HasCurrent, Phases
<1>3. QED
  BY <1>2 DEF Receive, Received

LEMMA UpdateArrives ==
  ASSUME Played, NEW id, NEW text, text \in Texts \cup {None},
         NEW flag, flag \in BOOLEAN \cup {None}, CardUpdated(id, text, None, flag)
  PROVE  Received
<1> DEFINE Changed(c) == [c EXCEPT !.text = IF text = None THEN @ ELSE text,
                                   !.subtasks = IF None = None THEN @ ELSE None,
                                   !.excluded = IF flag = None THEN @ ELSE flag]
           q == [i \in DOMAIN session.queue |->
                   IF session.queue[i].id = id THEN Changed(session.queue[i])
                                               ELSE session.queue[i]]
<1>1. session.queue \in [DOMAIN session.queue -> Card]
  BY CardsType DEF Played
<1>2. \A c \in Card : Changed(c) \in Card
  BY DEF Card
<1>3. Receive([session EXCEPT !.queue = q])
  BY DEF CardUpdated, OnCard
<1> HIDE DEF Changed
<1>4. q \in [DOMAIN session.queue -> Card]
  BY <1>1, <1>2
<1> HIDE DEF q
<1>5. [session EXCEPT !.queue = q] = [session EXCEPT !.queue = q, !.status = session.status]
      /\ session.status \in Phases
  BY DEF Played, Good, RoomSession, Phases
<1>6. QED
  BY <1>3, <1>4, <1>5, CardArrives

LEMMA EstimateArrives ==
  ASSUME Played, NEW id, NEW v \in Values, ConsensusApplied(id, v) PROVE Received
<1> DEFINE q == [i \in DOMAIN session.queue |->
                   IF session.queue[i].id = id THEN [session.queue[i] EXCEPT !.estimated = v]
                                               ELSE session.queue[i]]
<1>1. session.queue \in [DOMAIN session.queue -> Card]
  BY CardsType DEF Played
<1>2. q \in [DOMAIN session.queue -> Card]
  BY <1>1 DEF Card
<1>3. Receive([session EXCEPT !.queue = q, !.status = "consensus"])
  BY DEF ConsensusApplied, OnCard
<1> HIDE DEF q
<1>4. QED
  BY <1>2, <1>3, CardArrives DEF Phases

LEMMA PeopleArrive ==
  ASSUME Played, NEW u \in Users, ParticipantJoined(u) \/ ParticipantLeft(u) PROVE Received
<1>1. PICK mark \in {"online", "offline", "absent"} :
        session' = [session EXCEPT !.people = [@ EXCEPT ![u] = mark]]
  BY DEF ParticipantJoined, ParticipantLeft, Receive, Played, Good, RoomSession
<1>2. Good(session') /\ session'.isDemo = session.isDemo
  BY <1>1 DEF Played, Good, RoomSession, HasCurrent
<1>3. ~session.isDemo /\ UNCHANGED <<me, selectedVote>>
  BY DEF ParticipantJoined, ParticipantLeft, Receive
<1>4. QED
  BY <1>2, <1>3 DEF Received

\* A message about the round: another phase with other ballots.
LEMMA RoundArrives ==
  ASSUME Played, NEW s, NEW us, NEW votes, NEW phase, NEW flag,
         us \subseteq Users, votes \in [us -> Ballot], phase \in Phases, flag \in BOOLEAN,
         s = WithRound(session, phase, votes, flag), Receive(s)
  PROVE  Received
<1>1. Good(s) /\ s.isDemo = session.isDemo
  BY ReplaceVotes DEF Played
<1>2. QED
  BY <1>1 DEF Receive, Received

LEMMA RoundStartArrives == ASSUME Played, RoundStarted PROVE Received
<1> DEFINE people == Voters \cap Present(session)
           votes == BlankBallots(people)
           flag == FALSE
           s == [session EXCEPT !.status = "voting", !.revealed = flag, !.votes = votes]
<1>1. people \subseteq Users /\ votes \in [people -> Ballot]
  BY BlankType, RolesAssumption DEF Present
<1>2. flag \in BOOLEAN /\ "voting" \in Phases /\ Receive(s)
  BY DEF RoundStarted, Phases
<1> HIDE DEF people, votes, flag
<1>3. s = WithRound(session, "voting", votes, flag)
  BY DEF WithRound, Played, Good, RoomSession
<1> HIDE DEF s
<1>4. QED
  BY <1>1, <1>2, <1>3, RoundArrives

LEMMA VoteArrives == ASSUME Played, NEW u \in Users, VoteReceived(u) PROVE Received
<1> DEFINE people == DOMAIN session.votes \cup {u}
           votes == [w \in people |-> IF w \in DOMAIN session.votes THEN session.votes[w]
                                      ELSE [value |-> Blank, revealed |-> FALSE]]
           s == [session EXCEPT !.votes = votes]
<1>1. people \subseteq Users /\ votes \in [people -> Ballot]
  BY VotesType DEF Played, Ballot
<1>2. Receive(s)
  BY DEF VoteReceived
<1> HIDE DEF people, votes
<1>3. /\ s = WithRound(session, session.status, votes, session.revealed)
      /\ session.status \in Phases /\ session.revealed \in BOOLEAN
  BY DEF WithRound, Played, Good, RoomSession, Phases
<1> HIDE DEF s
<1>4. QED
  BY <1>1, <1>2, <1>3, RoundArrives

LEMMA RevealArrives ==
  ASSUME Played, NEW v \in Values,
         VotesRevealed([u \in DOMAIN session.votes |-> [value |-> v, revealed |-> TRUE]])
  PROVE  Received
<1> DEFINE votes == [u \in DOMAIN session.votes |-> [value |-> v, revealed |-> TRUE]]
           flag == TRUE
           s == [session EXCEPT !.status = "revealed", !.revealed = flag, !.votes = votes]
<1>1. DOMAIN session.votes \subseteq Users /\ votes \in [DOMAIN session.votes -> Ballot]
  BY VotesType DEF Played, Ballot
<1>2. flag \in BOOLEAN /\ "revealed" \in Phases /\ Receive(s)
  BY DEF VotesRevealed, Phases
<1> HIDE DEF votes, flag
<1>3. s = WithRound(session, "revealed", votes, flag)
  BY DEF WithRound, Played, Good, RoomSession
<1> HIDE DEF s
<1>4. QED
  BY <1>1, <1>2, <1>3, RoundArrives

LEMMA MessageArrives == Played /\ Message => Received
<1> SUFFICES ASSUME Played, Message PROVE Received
  OBVIOUS
<1>1. ASSUME NEW i \in DOMAIN session.queue, NEW t \in Texts,
             CardUpdated(session.queue[i].id, t, None, None)
      PROVE  Received
  BY <1>1, UpdateArrives
<1>2. ASSUME NEW i \in DOMAIN session.queue, CardUpdated(session.queue[i].id, None, None, TRUE)
      PROVE  Received
  <2> DEFINE flag == TRUE
  <2>1. flag \in BOOLEAN /\ CardUpdated(session.queue[i].id, None, None, flag)
    BY <1>2
  <2> HIDE DEF flag
  <2>2. QED
    BY <2>1, UpdateArrives
<1>3. QED
  BY <1>1, <1>2, RoomStateArrives, EstimateArrives, PeopleArrive, RoundStartArrives,
     VoteArrives, RevealArrives DEF Message

-----------------------------------------------------------------------------
(* The board *)

BoardInv == TypeOK /\ DraftFollowsCard

Writes == [card : CardIds, value : Values, mine : BOOLEAN]

LEMMA TypedIsPlayed == TypeOK => Played
BY DEF TypeOK, Played, Good, Highlights

\* Whatever a step does to the session, what is drawn afterwards fits it.
LEMMA RedrawFits ==
  ASSUME TypeOK, Good(session'), me' \in Users, selectedVote' \in Highlights,
         NEW open, NEW sub, NEW busy, NEW pending, open \in BOOLEAN, busy \in BOOLEAN,
         pending \subseteq Writes, busy => \E w \in pending : w.mine,
         Redraw(open, sub, busy, pending)
  PROVE  BoardInv'
<1>1. editing' \in BOOLEAN /\ (editing' => SeesCurrent')
  BY DEF Redraw, StaysOpen
<1>2. /\ applying' \in BOOLEAN
      /\ applying' => PanelShown' /\ busy
      /\ PanelShown' => writes' = pending
  BY DEF Redraw
<1>3. writes' \subseteq Writes
  BY DEF Redraw, Writes
<1>4. /\ draft' \in IF SeesCurrent' THEN Texts ELSE {None}
      /\ SeesCurrent' /\ ~editing' => draft' = Current(session').text
  <2>1. CASE SeesCurrent'
    <3>1. Current(session').text \in Texts
      BY <2>1, CurrentType DEF SeesCurrent
    <3>2. editing' => draft \in Texts
      BY DEF Redraw, StaysOpen, TypeOK
    <3>3. QED
      BY <2>1, <3>1, <3>2 DEF Redraw, FollowDraft
  <2>2. CASE ~SeesCurrent'
    BY <2>2 DEF Redraw, FollowDraft
  <2>3. QED
    BY <2>1, <2>2
<1>5. TypeOK'
  BY <1>1, <1>2, <1>3, <1>4 DEF TypeOK, Good, Highlights, Writes
<1>6. DraftFollowsCard'
  BY <1>4 DEF DraftFollowsCard
<1>7. QED
  BY <1>5, <1>6 DEF BoardInv

LEMMA OldWrites == TypeOK => writes \subseteq Writes /\ editing \in BOOLEAN /\ applying \in BOOLEAN
                             /\ (applying => \E w \in writes : w.mine)
BY DEF TypeOK, Writes

LEMMA RerenderFits ==
  ASSUME TypeOK, Operated, Rerender PROVE BoardInv'
BY RedrawFits, OldWrites DEF Rerender, Operated

\* While session and user stay, so does what is shown.
LEMMA SameView ==
  ASSUME UNCHANGED sessionVars
  PROVE  /\ SeesCurrent' = SeesCurrent /\ PanelShown' = PanelShown
         /\ Current(session') = Current(session)
BY DEF sessionVars, SeesCurrent, ParticipantSeesCurrent, CurrentInVotingQueue, InVotingQueue,
       PanelShown, BoardShown, Leading, InSession, IsRevealed,
       HasCurrent, Current

LEMMA PlayOperates ==
  ASSUME Played, Play
  PROVE  \/ Operated /\ Rerender
         \/ Operated /\ Redraw(editing, editingSub, applying, writes)
<1>1. CASE ClickStart \/ ClickRevote
  BY <1>1, RoundOperates DEF ClickStart, ClickRevote
<1>2. CASE ClickReveal
  BY <1>2, RevealOperates DEF ClickReveal
<1>3. ASSUME NEW v \in Values, ClickVote(v) PROVE Operated /\ Rerender
  BY <1>3, VoteOperates DEF ClickVote
<1>4. ASSUME NEW row, ClickRow(row) PROVE Operated /\ Rerender
  BY <1>4, SelectOperates DEF ClickRow
<1>5. ASSUME NEW i, ClickExclude(i)
      PROVE  Operated /\ Redraw(editing, editingSub, applying, writes)
  BY <1>5, ExcludeOperates DEF ClickExclude
<1>6. ASSUME NEW u \in Users, ClickPersona(u) PROVE Operated /\ Rerender
  BY <1>6 DEF ClickPersona, SetDemoPersona, Forget, Operated, Played, Highlights
<1>7. QED
  BY <1>1, <1>2, <1>3, <1>4, <1>5, <1>6 DEF Play

LEMMA PlayFits == ASSUME TypeOK, Play PROVE BoardInv'
<1>1. CASE Operated /\ Rerender
  BY <1>1, RerenderFits
<1>2. CASE Operated /\ Redraw(editing, editingSub, applying, writes)
  BY <1>2, RedrawFits, OldWrites DEF Operated
<1>3. QED
  BY <1>1, <1>2, PlayOperates, TypedIsPlayed

\* Only a card that is shown is edited.
LEMMA EditSees == EditCard => SeesCurrent
BY DEF EditCard, EditDescription, SaveDescription, CancelDescriptionEdit, CancelSubtaskEdit,
       TypeDescription, SaveSubtaskEdit, ClickAddSubtask, StartEditSubtask, ClickSubtask,
       SubtaskEditorShown, CanEdit

LEMMA EditFits == ASSUME BoardInv, EditCard PROVE BoardInv'
<1> USE DEF BoardInv
<1>1. Played /\ SeesCurrent /\ HasCurrent(session) /\ draft \in Texts
  BY EditSees, TypedIsPlayed DEF TypeOK, SeesCurrent
<1>2. CASE EditDescription \/ CancelDescriptionEdit \/ CancelSubtaskEdit
           \/ (\E t \in Texts : TypeDescription(t)) \/ \E id \in SubtaskIds : StartEditSubtask(id)
  <2>1. /\ UNCHANGED sessionVars /\ UNCHANGED <<applying, writes>>
        /\ SeesCurrent
    BY <1>2 DEF EditDescription, CancelDescriptionEdit, CancelSubtaskEdit, TypeDescription,
                StartEditSubtask, SubtaskEditorShown, CanEdit, Typed
  <2>2. /\ SeesCurrent' /\ PanelShown' = PanelShown /\ Current(session') = Current(session)
    BY <2>1, SameView
  <2>3. /\ editing' \in BOOLEAN /\ draft' \in Texts
        /\ ~editing' => draft' = Current(session).text
    BY <1>1, <1>2, <2>1, CurrentType
       DEF EditDescription, CancelDescriptionEdit, CancelSubtaskEdit, TypeDescription,
           StartEditSubtask, TypeOK, DraftFollowsCard, Played
  <2>4. UNCHANGED <<session, me, selectedVote>>
    BY <2>1 DEF sessionVars
  <2>5. QED
    BY <2>1, <2>2, <2>3, <2>4 DEF TypeOK, DraftFollowsCard
<1>3. CASE SaveDescription
  <2>1. SetDescription(draft) /\ Redraw(FALSE, editingSub, applying, writes)
    BY <1>3 DEF SaveDescription
  <2>2. Operated
    <3>1. [Current(session) EXCEPT !.text = draft] \in Card
          /\ [Current(session) EXCEPT !.text = draft].estimated = Current(session).estimated
      BY <1>1, CurrentType DEF Played, Card
    <3>2. QED
      BY <1>1, <2>1, <3>1, CardOperates DEF SetDescription
  <2> DEFINE no == FALSE
  <2>3. no \in BOOLEAN /\ Redraw(no, editingSub, applying, writes)
    BY <2>1
  <2> HIDE DEF no
  <2>4. QED
    BY <2>2, <2>3, RedrawFits, OldWrites DEF Operated
<1>4. ASSUME NEW id \in SubtaskIds, NEW t \in Texts, ClickAddSubtask(id, t) PROVE BoardInv'
  <2>1. Operated
    BY <1>1, <1>4, EditOperates DEF ClickAddSubtask
  <2>2. QED
    BY <1>4, <2>1, RedrawFits, OldWrites DEF ClickAddSubtask, Operated
<1>5. ASSUME NEW t \in Texts, SaveSubtaskEdit(t) PROVE BoardInv'
  <2>1. editingSub \in SubtaskIds
    <3>1. editingSub \in DOMAIN Current(session).subtasks
      BY <1>5 DEF SaveSubtaskEdit, SubtaskEditorShown
    <3>2. QED
      BY <1>1, <3>1, OldSubtasks
  <2>2. Operated
    BY <1>1, <1>5, <2>1, EditOperates DEF SaveSubtaskEdit
  <2>3. QED
    BY <1>5, <2>2, RedrawFits, OldWrites DEF SaveSubtaskEdit, Operated
<1>6. ASSUME NEW id \in SubtaskIds, ClickSubtask(id) PROVE BoardInv'
  <2>1. Operated
    BY <1>1, <1>6, EditOperates DEF ClickSubtask
  <2>2. QED
    BY <1>6, <2>1, RedrawFits, OldWrites DEF ClickSubtask, Operated
<1>7. QED
  BY <1>2, <1>3, <1>4, <1>5, <1>6 DEF EditCard

LEMMA PanelFits == ASSUME BoardInv, Panel PROVE BoardInv'
<1>1. Played /\ TypeOK
  BY TypedIsPlayed DEF BoardInv
<1>2. ASSUME NEW v \in Values, ApplyUnsynced(v) PROVE BoardInv'
  BY <1>1, <1>2, ApplyOperates, RerenderFits DEF ApplyUnsynced
<1>3. ASSUME NEW v \in Values, ApplySynced(v) PROVE BoardInv'
  <2> DEFINE flag == TRUE
             w == [card |-> Current(session).id, value |-> v, mine |-> flag]
  <2>1. /\ UNCHANGED sessionVars /\ UNCHANGED <<session, me, selectedVote>>
        /\ UNCHANGED <<editing, draft>> /\ applying' = TRUE /\ PanelShown
        /\ writes' = writes \cup {w}
    BY <1>3 DEF ApplySynced, CanApply, sessionVars
  <2>2. flag \in BOOLEAN /\ flag
    OBVIOUS
  <2> HIDE DEF flag
  <2>3. w \in Writes /\ w.mine
    BY <1>1, <1>3, <2>2, CurrentType DEF Writes, Played, ApplySynced
  <2>4. SeesCurrent' = SeesCurrent /\ PanelShown' /\ Current(session') = Current(session)
    BY <2>1, SameView
  <2>5. writes' \subseteq Writes /\ \E x \in writes' : x.mine
    BY <1>1, <2>1, <2>3, OldWrites
  <2>6. QED
    BY <2>1, <2>4, <2>5 DEF BoardInv, TypeOK, DraftFollowsCard, Writes
<1>4. ASSUME NEW w \in writes, WriteAnswered(w) PROVE BoardInv'
  <2> DEFINE busy == applying /\ ~w.mine
             pending == writes \ {w}
  <2>1. w \in Writes /\ w.value \in Values /\ w.mine \in BOOLEAN
    BY <1>1, OldWrites DEF Writes
  <2>2. Operated
    BY <1>1, <1>4, <2>1, ApplyOperates DEF WriteAnswered
  <2>3. Redraw(editing, editingSub, busy, pending)
    BY <1>4 DEF WriteAnswered
  <2>4. busy \in BOOLEAN /\ pending \subseteq Writes /\ (busy => \E x \in pending : x.mine)
    BY <1>1, <2>1, OldWrites
  <2> HIDE DEF busy, pending
  <2>5. QED
    BY <1>1, <2>2, <2>3, <2>4, RedrawFits, OldWrites DEF Operated
<1>5. ASSUME NEW w \in writes, WriteFails(w) PROVE BoardInv'
  <2>1. /\ UNCHANGED sessionVars /\ UNCHANGED <<session, me, selectedVote>>
        /\ UNCHANGED <<editing, draft>> /\ writes' = writes \ {w}
        /\ applying' = (applying /\ ~w.mine)
    BY <1>5 DEF WriteFails, sessionVars
  <2>2. SeesCurrent' = SeesCurrent /\ PanelShown' = PanelShown
        /\ Current(session') = Current(session)
    BY <2>1, SameView
  <2>3. /\ applying' \in BOOLEAN /\ writes' \subseteq Writes
        /\ applying' => applying /\ \E x \in writes' : x.mine
    BY <1>1, <2>1, OldWrites
  <2>4. QED
    BY <2>1, <2>2, <2>3 DEF BoardInv, TypeOK, DraftFollowsCard, Writes
<1>6. QED
  BY <1>2, <1>3, <1>4, <1>5 DEF Panel

LEMMA MessageFits == ASSUME BoardInv, ServerMessage PROVE BoardInv'
<1>1. TypeOK /\ Played
  BY TypedIsPlayed DEF BoardInv
<1>2. Received /\ Redraw(editing, editingSub, applying, writes)
  BY <1>1, MessageArrives DEF ServerMessage
<1>3. QED
  BY <1>1, <1>2, RedrawFits, OldWrites DEF Received, Played

LEMMA MockType ==
  /\ Good(BuildMockSession(DemoQueue)) /\ BuildMockSession(DemoQueue).isDemo
  /\ BuildMockSession(DemoQueue).status = "waiting"
  /\ BuildMockSession(DemoQueue).votes = BlankBallots({})
<1>1. DemoQueue \in Seq(Card) /\ 1 \in DOMAIN DemoQueue
  BY QueueAssumption, EmptySeq, LenProperties
<1>2. BlankBallots({}) \in AllBallots
  BY BlankType DEF AllBallots
<1>3. [u \in Users |-> "online"] \in [Users -> {"online", "offline", "absent"}]
  OBVIOUS
<1>4. QED
  BY <1>1, <1>2, <1>3 DEF BuildMockSession, Good, RoomSession, HasCurrent, AllBallots

LEMMA InitFits == Init => BoardInv
<1> SUFFICES ASSUME Init PROVE BoardInv
  OBVIOUS
<1>1. Good(session)
  BY MockType, LiveBegins
<1>2. me \in Users
  BY RolesAssumption DEF Init
<1>3. SeesCurrent => Current(session).text \in Texts
  BY <1>1, CurrentType DEF SeesCurrent
<1>4. QED
  BY <1>1, <1>2, <1>3 DEF Init, BoardInv, TypeOK, DraftFollowsCard, Good

LEMMA BoardStep == BoardInv /\ [Next]_vars => BoardInv'
<1> SUFFICES ASSUME BoardInv, [Next]_vars PROVE BoardInv'
  OBVIOUS
<1>1. CASE UNCHANGED vars
  <2>1. UNCHANGED sessionVars /\ UNCHANGED <<session, me, selectedVote>>
        /\ UNCHANGED <<editing, draft, applying, writes>>
    BY <1>1 DEF vars, localVars, sessionVars
  <2>2. QED
    BY <2>1, SameView DEF BoardInv, TypeOK, DraftFollowsCard
<1>2. QED
  BY <1>1, PlayFits, EditFits, PanelFits, MessageFits DEF Next, BoardInv

(* The type invariant, by which what is edited or applied is on the page:   *)
(* of the code's state PlanningContext.tsx:237-260 and what the components  *)
(* of the board keep beside it.                                            *)
THEOREM TypeCorrect == Spec => []TypeOK
<1>1. BoardInv => TypeOK
  BY DEF BoardInv
<1>2. QED
  BY <1>1, InitFits, BoardStep, PTL DEF Spec

-----------------------------------------------------------------------------
(* What a live page may change *)

LEMMA EditKeepsShared ==
  ASSUME BoardInv, EditCard
  PROVE  (Operated \/ UNCHANGED sessionVars) /\ UNCHANGED messages
<1>1. Played /\ HasCurrent(session) /\ draft \in Texts
  BY EditSees, TypedIsPlayed DEF BoardInv, TypeOK, SeesCurrent
<1>2. CASE EditDescription \/ CancelDescriptionEdit \/ CancelSubtaskEdit
           \/ (\E t \in Texts : TypeDescription(t)) \/ \E id \in SubtaskIds : StartEditSubtask(id)
  BY <1>2 DEF EditDescription, CancelDescriptionEdit, CancelSubtaskEdit, TypeDescription,
              StartEditSubtask, Typed
<1>3. CASE SaveDescription
  <2>1. [Current(session) EXCEPT !.text = draft] \in Card
        /\ [Current(session) EXCEPT !.text = draft].estimated = Current(session).estimated
    BY <1>1, CurrentType DEF Played, Card
  <2>2. QED
    BY <1>1, <1>3, <2>1, CardOperates DEF SaveDescription, SetDescription, Counted
<1>4. ASSUME NEW id \in SubtaskIds, NEW t \in Texts, ClickAddSubtask(id, t)
      PROVE  Operated /\ UNCHANGED messages
  BY <1>1, <1>4, EditOperates DEF ClickAddSubtask, Counted
<1>5. ASSUME NEW t \in Texts, SaveSubtaskEdit(t) PROVE Operated /\ UNCHANGED messages
  <2>1. editingSub \in DOMAIN Current(session).subtasks
    BY <1>5 DEF SaveSubtaskEdit, SubtaskEditorShown
  <2>2. editingSub \in SubtaskIds
    BY <1>1, <2>1, OldSubtasks
  <2>3. QED
    BY <1>1, <1>5, <2>2, EditOperates DEF SaveSubtaskEdit, Counted
<1>6. ASSUME NEW id \in SubtaskIds, ClickSubtask(id) PROVE Operated /\ UNCHANGED messages
  <2>1. ToggleSubtask(id) \/ RemoveSubtask(id)
    BY <1>6 DEF ClickSubtask
  <2>2. Operated
    BY <1>1, <1>6, <2>1, <1>1, EditOperates
  <2>3. QED
    BY <1>6, <2>2 DEF ClickSubtask, Counted
<1>7. QED
  BY <1>2, <1>3, <1>4, <1>5, <1>6 DEF EditCard

LEMMA PanelKeepsShared ==
  ASSUME BoardInv, Panel
  PROVE  (Operated \/ UNCHANGED sessionVars) /\ UNCHANGED messages
<1>1. Played /\ \A w \in writes : w.value \in Values
  BY TypedIsPlayed, OldWrites DEF BoardInv, Writes
<1>2. ASSUME NEW v \in Values, ApplyUnsynced(v) PROVE Operated /\ UNCHANGED messages
  BY <1>1, <1>2, ApplyOperates DEF ApplyUnsynced, Rerender
<1>3. ASSUME NEW w \in writes, WriteAnswered(w) PROVE Operated /\ UNCHANGED messages
  BY <1>1, <1>3, ApplyOperates DEF WriteAnswered
<1>4. QED
  BY <1>2, <1>3 DEF Panel, ApplySynced, WriteFails

LEMMA PlayKeepsShared == ASSUME BoardInv, Play PROVE Operated /\ UNCHANGED messages
<1>1. Played
  BY TypedIsPlayed DEF BoardInv
<1>2. UNCHANGED messages
  BY DEF Play, ClickStart, ClickRevote, ClickReveal, ClickVote, ClickRow, ClickExclude,
         ClickPersona, Rerender, Counted
<1>3. QED
  BY <1>1, <1>2, PlayOperates

LEMMA LiveStep ==
  ASSUME BoardInv, [Next]_vars
  PROVE  \/ (Operated \/ UNCHANGED sessionVars) /\ UNCHANGED messages
         \/ messages' = messages + 1
<1>1. CASE UNCHANGED vars
  BY <1>1 DEF vars
<1>2. QED
  BY <1>1, PlayKeepsShared, EditKeepsShared, PanelKeepsShared DEF Next, ServerMessage

(* What is shared in a live room is the server's: a click changes no phase,  *)
(* card, reveal or estimate and no ballot of another, however many edits    *)
(* and estimates are under way (PlanningContext.tsx:322-436).              *)
THEOREM LiveFollowsServer == Spec => LiveChangesComeFromServer
<1>1. Init => messages \in Nat
  BY DEF Init
<1>2. messages \in Nat /\ BoardInv /\ [Next]_vars => (messages \in Nat)'
  BY LiveStep
<1>3. messages \in Nat /\ BoardInv /\ [Next]_vars
        => [~session.isDemo /\ Shared(session') # Shared(session) => messages' # messages]_vars
  <2> SUFFICES ASSUME messages \in Nat, BoardInv, [Next]_vars,
                      ~session.isDemo, messages' = messages
               PROVE  Shared(session') = Shared(session)
    OBVIOUS
  <2>1. CASE Operated
    BY <2>1 DEF Operated
  <2>2. CASE UNCHANGED sessionVars
    <3>1. session' = session
      BY <2>2 DEF sessionVars
    <3>2. QED
      BY <3>1
  <2>3. QED
    BY <2>1, <2>2, LiveStep
<1>4. QED
  BY <1>1, <1>2, <1>3, InitFits, BoardStep, PTL DEF Spec, LiveChangesComeFromServer

-----------------------------------------------------------------------------
(* The demo *)

Round(s) == <<s.status, s.votes, s.revealed>>

\* What a step of the demo does to its round and to the highlighted card.
Begins == Round(session') = <<"voting", BlankBallots(Voters), FALSE>> /\ selectedVote' = None
Closes == session'.status = "closed" /\ selectedVote' = None
Waits == Round(session') = <<"waiting", BlankBallots({}), FALSE>> /\ selectedVote' = None
Votes == /\ session.status = "voting" /\ me = DemoVoter /\ me' = me
         /\ \E v \in Values : CastVote(v)
Shows == /\ session.status = "voting" /\ session'.status = "revealed" /\ session'.revealed = TRUE
         /\ session'.votes = [u \in DOMAIN session.votes |->
                                [session.votes[u] EXCEPT !.revealed = TRUE]]
         /\ UNCHANGED <<me, selectedVote>>
Stays == /\ Round(session') = Round(session)
         /\ selectedVote' = None \/ UNCHANGED <<me, selectedVote>>

DemoStep == Begins \/ Closes \/ Waits \/ Votes \/ Shows \/ Stays

LEMMA OpenRoundBegins ==
  ASSUME NEW s, Good(s)
  PROVE  Round(OpenRound(s)) = <<"voting", BlankBallots(Voters), FALSE>>
BY DEF Round, OpenRound, Good, RoomSession

LEMMA NextInBegins ==
  ASSUME NEW s, Good(s)
  PROVE  \/ Round(NextIn(s)) = <<"voting", BlankBallots(Voters), FALSE>>
         \/ NextIn(s).status = "closed"
<1>1. CASE s.idx + 1 > Len(s.queue)
  BY <1>1 DEF NextIn, Good, RoomSession
<1>2. CASE ~(s.idx + 1 > Len(s.queue))
  <2> DEFINE t == [s EXCEPT !.idx = @ + 1]
  <2>1. NextIn(s) = OpenRound(t)
    BY <1>2 DEF NextIn
  <2>2. Round(OpenRound(t)) = <<"voting", BlankBallots(Voters), FALSE>>
    BY DEF Round, OpenRound, Good, RoomSession
  <2>3. QED
    BY <2>1, <2>2
<1>3. QED
  BY <1>1, <1>2

LEMMA ApplyAdvances ==
  ASSUME Played, session.isDemo, NEW v \in Values, ApplyConsensusAndNext(v)
  PROVE  Begins \/ Closes
<1>1. session' = NextIn(Estimated(session, v)) /\ selectedVote' = None
  BY DEF ApplyConsensusAndNext, InMode, Demo, Forget
<1>2. Good(Estimated(session, v))
  BY EstimatedType DEF Played
<1>3. QED
  BY <1>1, <1>2, NextInBegins DEF Begins, Closes

\* A step about a card leaves the round alone.
LEMMA CardStays ==
  ASSUME Played, UNCHANGED <<me, selectedVote>>, NEW q, session' = [session EXCEPT !.queue = q]
  PROVE  Stays
BY DEF Played, Good, RoomSession, Stays, Round

LEMMA UpdateStays == ASSUME Played, NEW card, UpdateCurrentCard(card) PROVE Stays
<1> DEFINE q == [session.queue EXCEPT ![session.idx] = card]
<1>1. session' = [session EXCEPT !.queue = q] /\ UNCHANGED <<me, selectedVote>>
  BY DEF UpdateCurrentCard
<1>2. QED
  BY <1>1, CardStays

LEMMA PlayInDemo == ASSUME Played, session.isDemo, Play PROVE DemoStep
<1>1. Good(session)
  BY DEF Played
<1>2. CASE ClickStart \/ ClickRevote
  <2>1. session' = OpenRound(session) /\ selectedVote' = None
    BY <1>2 DEF ClickStart, ClickRevote, StartVoting, Revote, InMode, Demo, Forget
  <2>2. QED
    BY <1>1, <2>1, OpenRoundBegins DEF DemoStep, Begins
<1>3. CASE ClickReveal
  <2> DEFINE votes == [u \in DOMAIN session.votes |-> [session.votes[u] EXCEPT !.revealed = TRUE]]
  <2>1. /\ session.status = "voting" /\ UNCHANGED <<me, selectedVote>>
        /\ session' = [session EXCEPT !.status = "revealed", !.revealed = TRUE, !.votes = votes]
    BY <1>3 DEF ClickReveal, RevealVotes, IsVoting, InMode, Demo
  <2>2. session'.status = "revealed" /\ session'.revealed = TRUE /\ session'.votes = votes
    BY <1>1, <2>1 DEF Good, RoomSession
  <2>3. QED
    BY <2>1, <2>2 DEF DemoStep, Shows
<1>4. ASSUME NEW v \in Values, ClickVote(v) PROVE DemoStep
  BY <1>4 DEF ClickVote, DeckEnabled, MayVote, IsVoting, CastVote, DemoStep, Votes
<1>5. ASSUME NEW row, ClickRow(row) PROVE DemoStep
  <2> DEFINE i == ResolveIdx(row)
  <2>1. SelectCurrentCard(i) /\ selectedVote' = None
    BY <1>5 DEF ClickRow, SelectCurrentCard, Forget
  <2>2. CASE i \in DOMAIN session.queue /\ i # session.idx
    <3>1. session' = [session EXCEPT !.idx = i, !.status = "waiting",
                                     !.votes = BlankBallots({}), !.revealed = FALSE]
      BY <2>1, <2>2 DEF SelectCurrentCard
    <3>2. Round(session') = <<"waiting", BlankBallots({}), FALSE>>
      BY <1>1, <3>1 DEF Good, RoomSession, Round
    <3>3. QED
      BY <2>1, <3>2 DEF DemoStep, Waits
  <2>3. CASE ~(i \in DOMAIN session.queue /\ i # session.idx)
    BY <2>1, <2>3 DEF SelectCurrentCard, DemoStep, Stays
  <2>4. QED
    BY <2>2, <2>3
<1>6. ASSUME NEW i, ClickExclude(i) PROVE DemoStep
  <2>1. PICK q : session' = [session EXCEPT !.queue = q]
    BY <1>6 DEF ClickExclude, ToggleCardExcludedFromVoting, OnCard
  <2>2. UNCHANGED <<me, selectedVote>>
    BY <1>6 DEF ClickExclude, ToggleCardExcludedFromVoting
  <2>3. QED
    BY <2>1, <2>2, CardStays DEF DemoStep
<1>7. ASSUME NEW u, ClickPersona(u) PROVE DemoStep
  BY <1>7 DEF ClickPersona, SetDemoPersona, Forget, DemoStep, Stays
<1>8. QED
  BY <1>2, <1>3, <1>4, <1>5, <1>6, <1>7 DEF Play

LEMMA EditInDemo == ASSUME Played, EditCard PROVE DemoStep
<1>1. ASSUME NEW card, UpdateCurrentCard(card) PROVE DemoStep
  BY <1>1, UpdateStays DEF DemoStep
<1>2. CASE UNCHANGED sessionVars
  BY <1>2 DEF sessionVars, DemoStep, Stays
<1>3. \/ UNCHANGED sessionVars
      \/ \E card : UpdateCurrentCard(card)
  BY DEF EditCard, EditDescription, CancelDescriptionEdit, CancelSubtaskEdit, TypeDescription,
         StartEditSubtask, Typed, SaveDescription, ClickAddSubtask, SaveSubtaskEdit, ClickSubtask,
         SetDescription, AddSubtask, UpdateSubtask, ToggleSubtask, RemoveSubtask, OnSubtask,
         SetSubtasks
<1>4. QED
  BY <1>1, <1>2, <1>3

LEMMA PanelInDemo == ASSUME BoardInv, session.isDemo, Panel PROVE DemoStep
<1>1. Played /\ \A w \in writes : w.value \in Values
  BY TypedIsPlayed, OldWrites DEF BoardInv, Writes
<1>2. ASSUME NEW v \in Values, ApplyConsensusAndNext(v) PROVE DemoStep
  BY <1>1, <1>2, ApplyAdvances DEF DemoStep
<1>3. CASE UNCHANGED sessionVars
  BY <1>3 DEF sessionVars, DemoStep, Stays
<1>4. QED
  BY <1>1, <1>2, <1>3 DEF Panel, ApplyUnsynced, ApplySynced, WriteAnswered, WriteFails

LEMMA InDemo ==
  ASSUME BoardInv, session.isDemo, [Next]_vars PROVE DemoStep /\ session'.isDemo
<1>1. CASE UNCHANGED vars
  BY <1>1 DEF vars, sessionVars, DemoStep, Stays
<1>2. DemoStep
  <2>1. Played
    BY TypedIsPlayed DEF BoardInv
  <2>2. ~ServerMessage
    BY DEF ServerMessage, Message, RoomState, CardUpdated, ConsensusApplied, ParticipantJoined,
           ParticipantLeft, VoteReceived, RoundStarted, VotesRevealed, Receive
  <2>3. QED
    BY <1>1, <2>1, <2>2, PlayInDemo, EditInDemo, PanelInDemo DEF Next
<1>3. session'.isDemo
  <2>1. ~ServerMessage
    BY DEF ServerMessage, Message, RoomState, CardUpdated, ConsensusApplied, ParticipantJoined,
           ParticipantLeft, VoteReceived, RoundStarted, VotesRevealed, Receive
  <2>2. Operated \/ session' = session
    BY <1>1, <2>1, PlayKeepsShared, EditKeepsShared, PanelKeepsShared
       DEF Next, vars, sessionVars
  <2>3. QED
    BY <2>2 DEF Operated
<1>4. QED
  BY <1>2, <1>3

LEMMA InLive ==
  ASSUME BoardInv, ~session.isDemo, [Next]_vars PROVE ~session'.isDemo
<1>1. CASE ServerMessage
  BY <1>1, MessageArrives, TypedIsPlayed DEF BoardInv, ServerMessage, Received
<1>2. CASE ~ServerMessage
  <2>1. Operated \/ session' = session
    BY <1>2, PlayKeepsShared, EditKeepsShared, PanelKeepsShared DEF Next, vars, sessionVars
  <2>2. QED
    BY <2>1 DEF Operated
<1>3. QED
  BY <1>1, <1>2

\* While the demo is being voted on, its voter has a ballot; without it a vote
\* would be highlighted and count nowhere.
DemoVoterHasBallot == session.isDemo /\ session.status = "voting" => DemoVoter \in DOMAIN session.votes

DemoInv == DemoVoterHasBallot /\ HighlightIsMyVote

LEMMA DemoInvInit == Init => DemoInv
<1> SUFFICES ASSUME Init PROVE DemoInv
  OBVIOUS
<1>1. selectedVote = None
  BY DEF Init
<1>2. session.isDemo => session.status = "waiting"
  BY MockType, LiveBegins
<1>3. QED
  BY <1>1, <1>2 DEF DemoInv, DemoVoterHasBallot, HighlightIsMyVote

LEMMA DemoInvStep == BoardInv /\ DemoInv /\ [Next]_vars => DemoInv'
<1> SUFFICES ASSUME BoardInv, DemoInv, [Next]_vars, session'.isDemo PROVE DemoInv'
  BY DEF DemoInv, DemoVoterHasBallot, HighlightIsMyVote
<1>1. session.isDemo /\ Played
  BY InLive, TypedIsPlayed DEF BoardInv
<1>2. DemoStep
  BY <1>1, InDemo
<1>3. DemoVoter \in Voters /\ DemoVoter \in DOMAIN BlankBallots(Voters)
  BY RolesAssumption DEF BlankBallots
<1> USE DEF DemoInv, DemoVoterHasBallot, HighlightIsMyVote
<1>4. CASE Begins
  BY <1>3, <1>4 DEF Begins, Round
<1>5. CASE Closes
  BY <1>5 DEF Closes
<1>6. CASE Waits
  BY <1>6 DEF Waits, Round
<1>7. CASE Votes
  <2>1. PICK v \in Values : CastVote(v)
    BY <1>7 DEF Votes
  <2>2. me \in DOMAIN session.votes /\ me' = me /\ me = DemoVoter
    BY <1>1, <1>7 DEF Votes
  <2>3. selectedVote' = v /\ session' = [session EXCEPT !.votes[me].value = v]
    BY <2>1, <2>2 DEF CastVote
  <2>4. session.votes \in [DOMAIN session.votes -> Ballot]
    BY <1>1, VotesType DEF Played
  <2>5. session'.votes = [session.votes EXCEPT ![me].value = v]
    BY <1>1, <2>3 DEF Played, Good, RoomSession
  <2>6. me \in DOMAIN session'.votes /\ session'.votes[me].value = v
    BY <2>2, <2>4, <2>5 DEF Ballot
  <2>7. QED
    BY <2>2, <2>3, <2>6
<1>8. CASE Shows
  <2>1. session.votes \in [DOMAIN session.votes -> Ballot]
    BY <1>1, VotesType DEF Played
  <2>2. \A u \in DOMAIN session.votes :
          u \in DOMAIN session'.votes /\ session'.votes[u].value = session.votes[u].value
    BY <1>8, <2>1 DEF Shows, Ballot
  <2>3. QED
    BY <1>1, <1>8, <2>2 DEF Shows
<1>9. CASE Stays
  <2>1. session'.status = session.status /\ session'.votes = session.votes
    BY <1>9 DEF Stays, Round
  <2>2. QED
    BY <1>1, <1>9, <2>1 DEF Stays
<1>10. QED
  BY <1>2, <1>4, <1>5, <1>6, <1>7, <1>8, <1>9 DEF DemoStep

(* What the page keeps beside the session agrees with it: in the demo the   *)
(* highlighted card of the deck is the vote that counts, and a closed       *)
(* editor will open with the text of the card that is shown                 *)
(* (PlanningContext.tsx:237-240, 333-347, ActiveCard.tsx:90-94).           *)
THEOREM LocalStateIsCurrent == Spec => []LocalStateFollows
<1>1. BoardInv /\ DemoInv => LocalStateFollows
  BY DEF BoardInv, DemoInv, LocalStateFollows
<1>2. QED
  BY <1>1, InitFits, BoardStep, DemoInvInit, DemoInvStep, PTL DEF Spec

-----------------------------------------------------------------------------
(* The demo plays by the rules of a room *)

Playing(s) == s.isDemo /\ s.status # "closed"
PhaseOf(s) == IF Playing(s) THEN s.status ELSE "waiting"
VotedOf(s) == IF Playing(s) THEN {u \in DOMAIN s.votes : s.votes[u].value # Blank} ELSE {}
ShownOf(s) == Playing(s) /\ s.revealed

Abstracted(s) == <<PhaseOf(s), VotedOf(s), ShownOf(s)>>
Rested == <<"waiting", {}, FALSE>>

LEMMA NobodyVoted == ASSUME NEW people PROVE
  {u \in DOMAIN BlankBallots(people) : BlankBallots(people)[u].value # Blank} = {}
BY DEF BlankBallots

LEMMA LiveRests == ASSUME NEW s, ~s.isDemo \/ s.status = "closed" PROVE Abstracted(s) = Rested
BY DEF Abstracted, Rested, PhaseOf, VotedOf, ShownOf, Playing

LEMMA BlankAbstracted ==
  ASSUME NEW s, s.isDemo, NEW people, NEW phase, phase # "closed",
         Round(s) = <<phase, BlankBallots(people), FALSE>>
  PROVE  Abstracted(s) = <<phase, {}, FALSE>>
<1>1. s.status = phase /\ s.votes = BlankBallots(people) /\ s.revealed = FALSE
  BY DEF Round
<1>2. QED
  BY <1>1, NobodyVoted DEF Abstracted, PhaseOf, VotedOf, ShownOf, Playing

LEMMA LifecycleInit == Init => Lifecycle!Init
<1> SUFFICES ASSUME Init PROVE Lifecycle!Init
  OBVIOUS
<1>1. Abstracted(session) = Rested
  <2>1. CASE session = BuildMockSession(DemoQueue)
    <3>1. session.isDemo /\ Round(session) = <<"waiting", BlankBallots({}), FALSE>>
      BY <2>1 DEF BuildMockSession, Round
    <3>2. QED
      BY <3>1, BlankAbstracted DEF Rested
  <2>2. CASE session # BuildMockSession(DemoQueue)
    BY <2>2, LiveBegins, LiveRests
  <2>3. QED
    BY <2>1, <2>2
<1>2. QED
  BY <1>1 DEF Lifecycle!Init, Abstracted, Rested, PhaseOf, VotedOf, ShownOf, Playing

\* Between two abstract states, the lifecycle's steps.
LEMMA LifecycleMoves ==
  ASSUME PhaseOf(session) # "closed",
         \/ Abstracted(session') = <<"voting", {}, FALSE>>
         \/ Abstracted(session') = Rested
         \/ Abstracted(session') = Abstracted(session)
         \/ /\ PhaseOf(session) = "voting" /\ PhaseOf(session') = "voting"
            /\ \E u \in Users : VotedOf(session') = VotedOf(session) \cup {u}
            /\ ShownOf(session') = ShownOf(session)
         \/ /\ PhaseOf(session) = "voting" /\ PhaseOf(session') = "revealed"
            /\ VotedOf(session') = VotedOf(session) /\ ShownOf(session')
  PROVE  [Lifecycle!Next]_(Lifecycle!lifecycle)
<1> USE DEF PhaseOf, VotedOf, ShownOf, Playing, Abstracted
<1>1. CASE Abstracted(session') = <<"voting", {}, FALSE>>
  BY <1>1 DEF Lifecycle!Next, Lifecycle!Open
<1>2. CASE Abstracted(session') = Rested
  BY <1>2 DEF Lifecycle!Next, Lifecycle!Drop, Rested
<1>3. CASE Abstracted(session') = Abstracted(session)
  BY <1>3 DEF Lifecycle!lifecycle
<1>4. CASE /\ PhaseOf(session) = "voting" /\ PhaseOf(session') = "voting"
           /\ \E u \in Users : VotedOf(session') = VotedOf(session) \cup {u}
           /\ ShownOf(session') = ShownOf(session)
  BY <1>4 DEF Lifecycle!Next, Lifecycle!Cast, Lifecycle!InRound
<1>5. CASE /\ PhaseOf(session) = "voting" /\ PhaseOf(session') = "revealed"
           /\ VotedOf(session') = VotedOf(session) /\ ShownOf(session')
  BY <1>5 DEF Lifecycle!Next, Lifecycle!Show, Lifecycle!InRound
<1>6. QED
  BY <1>1, <1>2, <1>3, <1>4, <1>5

LEMMA LifecycleStep == BoardInv /\ [Next]_vars => [Lifecycle!Next]_(Lifecycle!lifecycle)
<1> SUFFICES ASSUME BoardInv, [Next]_vars PROVE [Lifecycle!Next]_(Lifecycle!lifecycle)
  OBVIOUS
<1>0. PhaseOf(session) # "closed" /\ Played
  BY TypedIsPlayed DEF PhaseOf, Playing, BoardInv
<1>1. CASE ~session.isDemo
  <2>1. Abstracted(session) = Rested /\ Abstracted(session') = Rested
    BY <1>1, InLive, LiveRests
  <2>2. QED
    BY <1>0, <2>1, LifecycleMoves
<1>2. CASE session.isDemo
  <2>1. DemoStep /\ session'.isDemo
    BY <1>2, InDemo
  <2>2. CASE Begins
    <3>1. Abstracted(session') = <<"voting", {}, FALSE>>
      BY <2>1, <2>2, BlankAbstracted DEF Begins
    <3>2. QED
      BY <1>0, <3>1, LifecycleMoves
  <2>3. CASE Closes
    BY <1>0, <2>3, LiveRests, LifecycleMoves DEF Closes
  <2>4. CASE Waits
    <3>1. Abstracted(session') = Rested
      BY <2>1, <2>4, BlankAbstracted DEF Waits, Rested
    <3>2. QED
      BY <1>0, <3>1, LifecycleMoves
  <2>5. CASE Votes
    <3>1. PICK v \in Values : CastVote(v)
      BY <2>5 DEF Votes
    <3>2. CASE me \notin DOMAIN session.votes
      <4>1. session' = session
        BY <3>1, <3>2 DEF CastVote
      <4>2. QED
        BY <1>0, <4>1, LifecycleMoves
    <3>3. CASE me \in DOMAIN session.votes
      <4>1. session' = [session EXCEPT !.votes[me].value = v]
        BY <3>1, <3>3 DEF CastVote
      <4>2. /\ session'.status = session.status /\ session'.revealed = session.revealed
            /\ session'.votes = [session.votes EXCEPT ![me].value = v]
        BY <1>0, <4>1 DEF Played, Good, RoomSession
      <4>3. session.votes \in [DOMAIN session.votes -> Ballot] /\ me \in Users /\ v # Blank
        BY <1>0, VotesType, BlankAssumption DEF Played
      <4>4. {u \in DOMAIN session'.votes : session'.votes[u].value # Blank}
              = {u \in DOMAIN session.votes : session.votes[u].value # Blank} \cup {me}
        BY <3>3, <4>2, <4>3 DEF Ballot
      <4>5. session.status = "voting"
        BY <2>5 DEF Votes
      <4>6. QED
        BY <1>0, <1>2, <2>1, <4>2, <4>3, <4>4, <4>5, LifecycleMoves
           DEF PhaseOf, VotedOf, ShownOf, Playing
    <3>4. QED
      BY <3>2, <3>3
  <2>6. CASE Shows
    <3>1. session.votes \in [DOMAIN session.votes -> Ballot]
      BY <1>0, VotesType DEF Played
    <3>2. {u \in DOMAIN session'.votes : session'.votes[u].value # Blank}
            = {u \in DOMAIN session.votes : session.votes[u].value # Blank}
      BY <2>6, <3>1 DEF Shows, Ballot
    <3>3. QED
      BY <1>0, <1>2, <2>1, <2>6, <3>2, LifecycleMoves
         DEF Shows, PhaseOf, VotedOf, ShownOf, Playing
  <2>7. CASE Stays
    <3>1. Abstracted(session') = Abstracted(session)
      BY <1>2, <2>1, <2>7 DEF Stays, Round, Abstracted, PhaseOf, VotedOf, ShownOf, Playing
    <3>2. QED
      BY <1>0, <3>1, LifecycleMoves
  <2>8. QED
    BY <2>1, <2>2, <2>3, <2>4, <2>5, <2>6, <2>7 DEF DemoStep
<1>3. QED
  BY <1>1, <1>2

(* The demo implements the lifecycle the server's rooms implement too: a    *)
(* round opens blank, ballots are shown only by the reveal, and nothing is  *)
(* seen between an estimate and the round that follows it                   *)
(* (PlanningContext.tsx:322-436).                                          *)
THEOREM DemoImplementsLifecycle == Spec => ImplementsLifecycle
<1>1. Init => Lifecycle!Init
  BY LifecycleInit
<1>2. BoardInv /\ [Next]_vars => [Lifecycle!Next]_(Lifecycle!lifecycle)
  BY LifecycleStep
<1>3. QED
  BY <1>1, <1>2, InitFits, BoardStep, PTL DEF Spec, ImplementsLifecycle, Lifecycle!Spec

-----------------------------------------------------------------------------
(* The rows of the queue *)

\* For who does not lead, a row stands for the place its card has in the queue, the
\* rows are in the queue's order, and every card that is not deferred has one.
LEMMA RowsStand ==
  ASSUME Good(session), ~Leading
  PROVE  /\ VotingIndices \in Seq(Nat) /\ SidebarQueue \in Seq(Card)
         /\ Picked(VotingIndices, SidebarQueue, session.queue,
                   {c \in ToSet(session.queue) : InVotingQueue(c)}, Len(session.queue))
<1> DEFINE queue == session.queue
           open == {c \in ToSet(queue) : InVotingQueue(c)}
<1>1. queue \in Seq(Card)
  BY DEF Good, RoomSession
<1>2. SidebarQueue = Select(queue, open)
  BY DEF SidebarQueue
<1>3. VotingIndices = Select(Positions(queue), Where(queue, open))
  <2>1. Where(queue, open) = {i \in DOMAIN queue : InVotingQueue(queue[i])}
    BY DEF Where, ToSet
  <2>2. QED
    BY <2>1 DEF VotingIndices, Positions
<1> HIDE DEF queue, open
<1>4. /\ Select(Positions(queue), Where(queue, open)) \in Seq(Nat) /\ Select(queue, open) \in Seq(Card)
      /\ Picked(Select(Positions(queue), Where(queue, open)), Select(queue, open), queue, open, Len(queue))
  BY <1>1, SelectPositions
<1>5. QED
  BY <1>2, <1>3, <1>4 DEF queue, open

LEMMA RowIsCurrent == TypeOK => ActiveRowIsCurrent
<1> SUFFICES ASSUME TypeOK PROVE ActiveRowIsCurrent
  OBVIOUS
<1> DEFINE queue == session.queue
           n == Len(queue)
           active == {row \in DOMAIN SidebarQueue : IsActiveAt(row)}
<1>1. Good(session) /\ queue \in Seq(Card)
  BY TypedIsPlayed DEF Played, Good, RoomSession
<1>2. CASE Leading
  <2>1. SidebarQueue = queue /\ \A row \in DOMAIN SidebarQueue : ResolveIdx(row) = row
    BY <1>2 DEF SidebarQueue, ResolveIdx
  <2>2. active = {row \in DOMAIN queue : row = session.idx}
    BY <2>1 DEF IsActiveAt
  <2>3. CASE HasCurrent(session)
    <3>1. session.idx \in active /\ active = {session.idx}
      BY <2>2, <2>3 DEF HasCurrent
    <3>2. QED
      BY <1>2, <2>1, <2>3, <3>1 DEF ActiveRowIsCurrent, Current
  <2>4. CASE ~HasCurrent(session)
    <3>1. active = {}
      BY <2>2, <2>4 DEF HasCurrent
    <3>2. QED
      BY <2>4, <3>1 DEF ActiveRowIsCurrent
  <2>5. QED
    BY <2>3, <2>4
<1>3. CASE ~Leading
  <2> DEFINE open == {c \in ToSet(queue) : InVotingQueue(c)}
             at == VotingIndices
             rows == SidebarQueue
  <2>1. Picked(at, rows, queue, open, n)
    BY <1>1, <1>3, RowsStand
  <2>2. at \in Seq(Nat) /\ rows \in Seq(Card)
    BY <1>1, <1>3, RowsStand
  <2>3. DOMAIN rows = 1..Len(at) /\ Len(at) \in Nat /\ DOMAIN queue = 1..n
    <3> HIDE DEF at, rows, queue
    <3>1. QED
      BY <1>1, <2>1, <2>2 DEF Picked
  <2>4. active = {row \in 1..Len(at) : at[row] = session.idx}
    BY <1>3, <2>3 DEF IsActiveAt, ResolveIdx
  <2>5. HasCurrent(session) => (Current(session) \in open <=> InVotingQueue(Current(session)))
    BY DEF HasCurrent, Current, ToSet
  <2>6. Current(session) = queue[session.idx]
    BY DEF Current
  <2> HIDE DEF at, rows, open, queue, active
  <2>7. CASE HasCurrent(session) /\ InVotingQueue(Current(session))
    <3>0. session.idx \in 1..n
      BY <2>3, <2>7 DEF HasCurrent, queue
    <3>1. PICK row \in 1..Len(at) : at[row] = session.idx
      BY <2>1, <2>5, <2>6, <2>7, <3>0 DEF Picked
    <3>2. rows[row] = Current(session)
      BY <2>1, <2>6, <3>1 DEF Picked
    <3>3. ASSUME NEW other \in 1..Len(at), at[other] = session.idx PROVE other = row
      <4>1. \A i, j \in 1..Len(at) : i < j => at[i] < at[j]
        BY <2>1 DEF Picked
      <4>2. at[row] \in Nat
        BY <2>2, <2>3
      <4>3. QED
        BY <2>3, <3>1, <3>3, <4>1, <4>2
    <3>4. active = {row} /\ row \in active
      BY <2>4, <3>1, <3>3
    <3>5. QED
      BY <1>3, <2>7, <3>2, <3>4 DEF ActiveRowIsCurrent, active, rows
  <2>8. CASE ~(HasCurrent(session) /\ InVotingQueue(Current(session)))
    <3>1. \A row \in 1..Len(at) : at[row] \in DOMAIN queue /\ queue[at[row]] \in open
      BY <2>1, <2>3 DEF Picked
    <3>2. ASSUME NEW row \in 1..Len(at), at[row] = session.idx PROVE FALSE
      <4>1. HasCurrent(session) /\ Current(session) \in open
        BY <2>6, <3>1, <3>2 DEF HasCurrent, queue
      <4>2. QED
        BY <2>5, <2>8, <4>1
    <3>3. active = {}
      BY <2>4, <3>2
    <3>4. QED
      BY <1>3, <2>8, <3>3 DEF ActiveRowIsCurrent, active
  <2>9. QED
    BY <2>7, <2>8
<1>4. QED
  BY <1>2, <1>3

\* Whatever is deferred, voted on or sent by the server, a room without a current card
\* for its reader included, the marked row of the queue is the current card's and no
\* other row is marked; where there is no current card to show, none is
\* (VotingBoard.tsx:84-91, TaskQueue.tsx:280-291, state.go:23-36).
THEOREM MarkedRowIsCurrent == Spec => []ActiveRowIsCurrent
BY TypeCorrect, RowIsCurrent, PTL
================================================================================
