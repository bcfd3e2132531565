--------------------------- MODULE VotingRoomProofs ---------------------------
(***************************************************************************)
(* What VotingRoom guarantees for every set of users, cards and values,    *)
(* every capacity and any number of calls in flight.                       *)
(***************************************************************************)
EXTENDS VotingRoom, ListLemmas

\* A partial map is a function on a set of keys with values in the range.
LEMMA MapsMember ==
  ASSUME NEW K, NEW T, NEW f
  PROVE  f \in Maps(K, T) <=> DOMAIN f \subseteq K /\ f \in [DOMAIN f -> T]
BY DEF Maps

LEMMA EmptyMapIsMap ==
  ASSUME NEW K, NEW T
  PROVE  EmptyMap \in Maps(K, T) /\ DOMAIN EmptyMap = {}
<1>1. EmptyMap \in [{} -> T] /\ DOMAIN EmptyMap = {}
  BY DEF EmptyMap
<1>2. QED
  BY <1>1, MapsMember

\* The ballots of a round are a map into ballots.
LEMMA BallotsIsMap ==
  ASSUME round \in Rounds \cup {Nil}
  PROVE  Ballots \in Maps(Users, BallotSet) /\ Voted = DOMAIN Ballots
BY EmptyMapIsMap DEF Ballots, Voted, Rounds

\* CalculateConsensus returns nil or a value for each counted vote.
LEMMA StatisticsType ==
  ASSUME NEW votes \in Maps(Users, BallotSet), NEW people
  PROVE  /\ Statistics(votes, people) \in Maps(Users, Values) \cup {Nil}
         /\ Statistics(votes, people) # Nil =>
              DOMAIN Statistics(votes, people) = Counted(votes, people)
<1> DEFINE counted == Counted(votes, people)
           values == [u \in counted |-> votes[u].value]
<1>1. counted \subseteq DOMAIN votes
  BY DEF Counted
<1>2. DOMAIN votes \subseteq Users /\ votes \in [DOMAIN votes -> BallotSet]
  BY MapsMember
<1>3. \A u \in counted : votes[u].value \in Values
  BY <1>1, <1>2 DEF BallotSet
<1>4. values \in [counted -> Values] /\ DOMAIN values = counted
  BY <1>3
<1>5. values \in Maps(Users, Values)
  BY <1>1, <1>2, <1>4, MapsMember
<1>6. Statistics(votes, people) = Nil \/ Statistics(votes, people) = values
  BY DEF Statistics
<1>7. QED
  BY <1>4, <1>5, <1>6

LEMMA FreshRoundType ==
  ASSUME NEW card \in CardIds
  PROVE  FreshRound(card) \in Rounds /\ FreshRound(card) # Nil
<1>1. EmptyMap \in Maps(Users, BallotSet)
  BY EmptyMapIsMap
<1>2. FreshRound(card) \in Rounds
  BY <1>1 DEF FreshRound, Rounds
<1>3. QED
  BY <1>2, NilAssumption

\* A vote's ballot goes into the round and leaves it a round.
LEMMA VoteType ==
  ASSUME TypeOK, NEW u \in Users, NEW value \in Values, Vote(u, value)
  PROVE  /\ round' \in Rounds /\ round' # Nil
         /\ Voted' = Voted \cup {u} /\ u \in issued
         /\ round' = [round EXCEPT !.votes = Ballots']
         /\ Ballots' = [p \in Voted \cup {u} |->
                          IF p = u
                          THEN [value |-> value,
                                revealed |-> CastRevealed]
                          ELSE Ballots[p]]
<1> DEFINE ballot == [value |-> value,
                      revealed |-> CastRevealed]
           votes == [p \in Voted \cup {u} |-> IF p = u THEN ballot ELSE Ballots[p]]
<1>1. ballot \in BallotSet
  BY DEF BallotSet, CastRevealed
<1>2. Ballots \in [Voted -> BallotSet] /\ Voted \subseteq Users
  BY BallotsIsMap, MapsMember DEF TypeOK
<1>3. votes \in [Voted \cup {u} -> BallotSet] /\ DOMAIN votes = Voted \cup {u}
  BY <1>1, <1>2
<1>4. votes \in Maps(Users, BallotSet)
  BY <1>2, <1>3, MapsMember
<1>5. round \in Rounds /\ round' = [round EXCEPT !.votes = votes]
  BY DEF Vote, TypeOK
<1>6. round' \in Rounds /\ round'.votes = votes
  BY <1>4, <1>5 DEF Rounds
<1>7. round' # Nil
  BY <1>6, NilAssumption
<1>8. Ballots' = votes /\ Voted' = Voted \cup {u}
  BY <1>3, <1>6, <1>7 DEF Ballots, Voted
<1>9. u \in issued
  BY MapsMember DEF Vote, CanCast, TypeOK
<1>10. QED
  BY <1>5, <1>6, <1>7, <1>8, <1>9

\* Reveal keeps the ballots and marks every one of them.
LEMMA RevealType ==
  ASSUME TypeOK, NEW u \in Users, Reveal(u)
  PROVE  /\ round' \in Rounds /\ round' # Nil
         /\ Voted' = Voted
         /\ \A v \in Voted : Ballots'[v].revealed
         /\ round'.revealedAt
         /\ round'.stats = Statistics(Ballots, participants)
         /\ round'.consensus = round.consensus
<1> DEFINE votes == [p \in Voted |-> [value |-> Ballots[p].value, revealed |-> TRUE]]
           stats == Statistics(Ballots, participants)
<1>1. Ballots \in Maps(Users, BallotSet)
  BY BallotsIsMap DEF TypeOK
<1>2. Ballots \in [Voted -> BallotSet] /\ Voted \subseteq Users
  BY <1>1, MapsMember DEF Voted
<1>3. votes \in [Voted -> BallotSet] /\ DOMAIN votes = Voted
  BY <1>2 DEF BallotSet
<1>4. votes \in Maps(Users, BallotSet)
  BY <1>2, <1>3, MapsMember
<1>5. stats \in Maps(Users, Values) \cup {Nil}
  BY <1>1, StatisticsType
<1>6. /\ round \in Rounds
      /\ round' = [round EXCEPT !.revealedAt = TRUE, !.votes = votes, !.stats = stats]
  BY DEF Reveal, TypeOK
<1>7. /\ round' \in Rounds
      /\ round'.votes = votes
      /\ round'.revealedAt
      /\ round'.stats = stats
      /\ round'.consensus = round.consensus
  BY <1>4, <1>5, <1>6 DEF Rounds
<1>8. round' # Nil
  BY <1>7, NilAssumption
<1>9. Ballots' = votes /\ Voted' = Voted
  BY <1>3, <1>7, <1>8 DEF Ballots, Voted
<1>10. QED
  BY <1>7, <1>8, <1>9

\* StartRound and Revote leave a round without ballots.
LEMMA ReopenType ==
  ASSUME TypeOK, NEW u \in Users, StartRound(u) \/ Revote(u)
  PROVE  /\ round' \in Rounds /\ round' # Nil
         /\ Voted' = {}
         /\ ~round'.revealedAt /\ round'.stats = Nil /\ round'.consensus = Nil
<1>1. EmptyMap \in Maps(Users, BallotSet) /\ DOMAIN EmptyMap = {}
  BY EmptyMapIsMap
<1>2. CASE StartRound(u)
  <2>1. queue[idx + 1].cardID \in CardIds
    <3>1. idx + 1 \in 1..Len(queue)
      BY <1>2, LenProperties DEF StartRound, HasActiveCard, TypeOK
    <3>2. queue[idx + 1] \in Cards
      BY <3>1, ElementOfSeq DEF TypeOK
    <3>3. QED
      BY <3>2 DEF Cards
  <2>2. round' \in Rounds /\ round' # Nil
    BY <1>2, <2>1, FreshRoundType DEF StartRound
  <2>3. /\ round'.votes = EmptyMap /\ round'.revealedAt = FALSE
        /\ round'.stats = Nil /\ round'.consensus = Nil
    BY <1>2 DEF StartRound, FreshRound
  <2>4. QED
    BY <1>1, <2>2, <2>3 DEF Voted, Ballots
<1>3. CASE Revote(u)
  <2>1. round \in Rounds
    BY <1>3 DEF Revote, TypeOK
  <2>2. /\ round' \in Rounds /\ round'.votes = EmptyMap
        /\ round'.revealedAt = FALSE
        /\ round'.stats = Nil /\ round'.consensus = Nil
    BY <1>1, <1>3, <2>1 DEF Revote, ClearedRound, Rounds
  <2>3. round' # Nil
    BY <2>2, NilAssumption
  <2>4. QED
    BY <1>1, <2>2, <2>3 DEF Voted, Ballots
<1>4. QED
  BY <1>2, <1>3

\* ApplyConsensus touches neither the ballots nor the statistics.
LEMMA ConsensusType ==
  ASSUME TypeOK, NEW u \in Users, NEW value \in Values, NEW sync \in BOOLEAN,
         ApplyConsensus(u, value, sync)
  PROVE  /\ round' \in Rounds /\ round' # Nil
         /\ Ballots' = Ballots /\ Voted' = Voted
         /\ round'.revealedAt = round.revealedAt
         /\ round'.stats = round.stats
         /\ queue' \in Seq(Cards) /\ Len(queue') = Len(queue)
<1>1. round \in Rounds /\ round # Nil
  BY DEF ApplyConsensus, TypeOK
<1>2. /\ round' \in Rounds
      /\ round'.votes = round.votes
      /\ round'.revealedAt = round.revealedAt
      /\ round'.stats = round.stats
  BY <1>1 DEF ApplyConsensus, Rounds
<1>3. round' # Nil
  BY <1>2, NilAssumption
<1>4. Ballots' = Ballots /\ Voted' = Voted
  BY <1>1, <1>2, <1>3 DEF Ballots, Voted
<1>5. queue' \in Seq(Cards) /\ Len(queue') = Len(queue)
  <2>1. CASE ~HasActiveCard
    BY <2>1 DEF ApplyConsensus, TypeOK
  <2>2. CASE HasActiveCard
    <3> DEFINE card == [queue[idx + 1] EXCEPT !.estimated = value]
    <3>1. idx + 1 \in 1..Len(queue)
      BY <2>2, LenProperties DEF HasActiveCard, TypeOK
    <3>2. queue[idx + 1] \in Cards
      BY <3>1, ElementOfSeq DEF TypeOK
    <3>3. card \in Cards
      BY <3>2 DEF Cards
    <3>4. queue' = [queue EXCEPT ![idx + 1] = card]
      BY <2>2 DEF ApplyConsensus
    <3>5. QED
      BY <3>1, <3>3, <3>4, ExceptSeq DEF TypeOK
  <2>3. QED
    BY <2>1, <2>2
<1>6. QED
  BY <1>2, <1>3, <1>4, <1>5

\* Patching a card keeps the queue a queue of the same length.
LEMMA UpdateCardType ==
  ASSUME TypeOK, NEW u \in Users, NEW card \in CardIds, NEW excluded \in BOOLEAN,
         UpdateCard(u, card, excluded)
  PROVE  queue' \in Seq(Cards) /\ Len(queue') = Len(queue)
<1>1. PICK i \in DOMAIN queue : queue' = [queue EXCEPT ![i].excluded = excluded]
  BY DEF UpdateCard
<1> DEFINE patched == [queue[i] EXCEPT !.excluded = excluded]
<1>2. i \in 1..Len(queue)
  BY LenProperties DEF TypeOK
<1>3. queue[i] \in Cards
  BY <1>2, ElementOfSeq DEF TypeOK
<1>4. patched \in Cards
  BY <1>3 DEF Cards
<1>5. queue' = [queue EXCEPT ![i] = patched]
  BY <1>1
<1>6. QED
  BY <1>2, <1>4, <1>5, ExceptSeq DEF TypeOK

-------------------------------------------------------------------------------
(* Type correctness *)

\* Every reachable session is well typed, and no more calls are in flight
\* than were when the room left the store.
LEMMA InitType == Init => TypeOK
<1> SUFFICES ASSUME Init PROVE TypeOK
  OBVIOUS
<1>1. PICK creator \in Users, votes \in BOOLEAN :
        /\ issued = {creator}
        /\ participants =
             [u \in {creator} |-> [isFacilitator |-> TRUE, canVote |-> votes]]
  BY DEF Init
<1>2. participants \in Maps(issued, Members)
  BY <1>1, MapsMember DEF Members
<1>3. queue \in Seq(Cards) /\ inflight = 0 /\ 0 \in 0..MaxInFlight
  BY QueuesAssumption, LimitAssumption DEF Init
<1>4. Voted = {}
  BY EmptyMapIsMap DEF Init, Voted, Ballots
<1>5. QED
  BY <1>1, <1>2, <1>3, <1>4 DEF Init, TypeOK, Statuses

\* An action that leaves the round alone leaves its ballots alone.
LEMMA SameRound ==
  ASSUME UNCHANGED round
  PROVE  Ballots' = Ballots /\ Voted' = Voted
BY DEF Ballots, Voted

LEMMA DroppedRound ==
  ASSUME round' = Nil
  PROVE  Voted' = {}
BY EmptyMapIsMap DEF Ballots, Voted

\* Access and LeaveStore keep the store's side of the state well typed.
LEMMA StoreSide ==
  ASSUME TypeOK, Access \/ LeaveStore
  PROVE  stored' \in BOOLEAN /\ inflight' \in 0..MaxInFlight /\ (stored' => stored)
<1>1. MaxInFlight \in Nat /\ inflight \in Int /\ inflight >= 0 /\ inflight <= MaxInFlight
  BY LimitAssumption DEF TypeOK
<1>2. CASE stored
  <2>1. inflight' = inflight \/ inflight' \in 0..MaxInFlight
    BY <1>2, Zenon DEF Access, LeaveStore
  <2>2. stored' \in BOOLEAN
    BY <1>2 DEF TypeOK, Access, LeaveStore
  <2>3. QED
    BY <1>1, <1>2, <2>1, <2>2
<1>3. CASE ~stored
  <2>1. inflight > 0 /\ inflight' = inflight - 1
    BY <1>3 DEF Access, LeaveStore
  <2>2. inflight' \in 0..MaxInFlight
    BY <1>1, <2>1
  <2>3. stored' = stored
    BY <1>3 DEF Access, LeaveStore
  <2>4. QED
    BY <2>2, <2>3 DEF TypeOK
<1>4. QED
  BY <1>2, <1>3

LEMMA StepType == TypeOK /\ [Next]_vars => TypeOK'
<1> SUFFICES ASSUME TypeOK, [Next]_vars PROVE TypeOK'
  OBVIOUS
<1> USE DEF TypeOK
<1>1. ASSUME NEW u \in Users, JoinRoom(u) PROVE TypeOK'
  <2>1. issued' = issued \cup {u} /\ participants \in [DOMAIN participants -> Members]
        /\ DOMAIN participants \subseteq issued
    BY <1>1, MapsMember DEF JoinRoom
  <2>2. /\ participants' \in [DOMAIN participants \cup {u} -> Members]
        /\ DOMAIN participants' = DOMAIN participants \cup {u}
    BY <1>1, <2>1 DEF JoinRoom, Members
  <2>3. participants' \in Maps(issued', Members)
    BY <2>1, <2>2, MapsMember
  <2>4. QED
    BY <1>1, <2>1, <2>3, StoreSide, SameRound DEF JoinRoom
<1>2. ASSUME NEW u \in Users, LeaveRoom(u) PROVE TypeOK'
  <2>1. participants \in [DOMAIN participants -> Members] /\ DOMAIN participants \subseteq issued
    BY MapsMember
  <2>2. /\ participants' \in [DOMAIN participants \ {u} -> Members]
        /\ DOMAIN participants' = DOMAIN participants \ {u}
    BY <1>2, <2>1 DEF LeaveRoom
  <2>3. participants' \in Maps(issued', Members)
    BY <1>2, <2>1, <2>2, MapsMember DEF LeaveRoom
  <2>4. QED
    BY <1>2, <2>3, StoreSide, SameRound DEF LeaveRoom
<1>3. ASSUME NEW u \in Users, DeleteRoom(u) PROVE TypeOK'
  BY <1>3, StoreSide, SameRound DEF DeleteRoom, Statuses
<1>4. ASSUME NEW u \in Users, StartRound(u) PROVE TypeOK'
  BY <1>4, StoreSide, ReopenType DEF StartRound, Statuses
<1>5. ASSUME NEW u \in Users, Reveal(u) PROVE TypeOK'
  BY <1>5, StoreSide, RevealType DEF Reveal, Statuses
<1>6. ASSUME NEW u \in Users, Revote(u) PROVE TypeOK'
  BY <1>6, StoreSide, ReopenType DEF Revote, Statuses
<1>7. ASSUME NEW u \in Users, Skip(u) PROVE TypeOK'
  BY <1>7, StoreSide, DroppedRound DEF Skip, DropRound, AtQueueEnd, Statuses
<1>8. ASSUME NEW u \in Users, NextCard(u) PROVE TypeOK'
  BY <1>8, StoreSide, DroppedRound DEF NextCard, DropRound, AtQueueEnd, Statuses
<1>9. ASSUME NEW u \in Users, NEW cards \in Queues, UpdateQueue(u, cards) PROVE TypeOK'
  BY <1>9, StoreSide, SameRound, QueuesAssumption DEF UpdateQueue
<1>10. ASSUME NEW u \in Users, NEW card \in CardIds, NEW excluded \in BOOLEAN,
              UpdateCard(u, card, excluded)
       PROVE  TypeOK'
  BY <1>10, StoreSide, SameRound, UpdateCardType DEF UpdateCard
<1>11. ASSUME NEW u \in Users, NEW value \in Values, Vote(u, value) PROVE TypeOK'
  BY <1>11, StoreSide, VoteType DEF Vote, CastRevealed
<1>12. ASSUME NEW u \in Users, NEW value \in Values, NEW sync \in BOOLEAN,
              ApplyConsensus(u, value, sync)
       PROVE  TypeOK'
  BY <1>12, StoreSide, ConsensusType DEF ApplyConsensus, Statuses
<1>13. ASSUME Expire PROVE TypeOK'
  BY <1>13, StoreSide, SameRound DEF Expire
<1>14. CASE UNCHANGED vars
  BY <1>14, SameRound DEF vars
<1>15. QED
  BY <1>1, <1>2, <1>3, <1>4, <1>5, <1>6, <1>7, <1>8, <1>9, <1>10, <1>11, <1>12,
     <1>13, <1>14
     DEF Next

\* The session keeps its Go types, and every id in use was handed out.
THEOREM TypeCorrect == Spec => []TypeOK
BY InitType, StepType, PTL DEF Spec

-------------------------------------------------------------------------------
(* The round and the status *)

\* RevealIsTotal is not inductive: a ballot cast after the reveal is marked
\* revealed only because the status still says so, which holds in a stored
\* room because such a room was never closed and because a round that is being
\* voted on is blank.  Hence the four parts together.
StoredIsOpen == stored => status # "closed"

PhaseInv == StoredIsOpen /\ RoundMatchesStatus /\ OpenRoundIsBlank /\ RevealIsTotal

\* What every operation's step establishes: a room still stored was stored
\* before.
LEMMA StillStored ==
  ASSUME TypeOK, Next
  PROVE  stored' => stored
BY StoreSide
   DEF Next, JoinRoom, LeaveRoom, DeleteRoom, StartRound, Reveal, Revote, Skip,
       NextCard, UpdateQueue, UpdateCard, Vote, ApplyConsensus, Expire

LEMMA InitPhase == Init => PhaseInv
BY DEF Init, PhaseInv, StoredIsOpen, RoundMatchesStatus, OpenRoundIsBlank, RevealIsTotal

LEMMA StepPhase == TypeOK /\ PhaseInv /\ [Next]_vars => PhaseInv'
<1> SUFFICES ASSUME TypeOK, PhaseInv, [Next]_vars PROVE PhaseInv'
  OBVIOUS
<1> USE DEF PhaseInv, StoredIsOpen, RoundMatchesStatus, OpenRoundIsBlank, RevealIsTotal
<1>1. CASE UNCHANGED <<stored, status, round>>
  BY <1>1, SameRound
<1>2. CASE Expire
  BY <1>2, SameRound DEF Expire, LeaveStore
<1>3. ASSUME NEW u \in Users, DeleteRoom(u) PROVE PhaseInv'
  <2>1. ~stored'
    BY <1>3 DEF DeleteRoom, LeaveStore
  <2>2. QED
    BY <1>3, <2>1 DEF DeleteRoom
<1>4. ASSUME NEW u \in Users, StartRound(u) \/ Revote(u) PROVE PhaseInv'
  <2>1. status' = "voting"
    BY <1>4 DEF StartRound, Revote
  <2>2. QED
    BY <1>4, <2>1, ReopenType
<1>5. ASSUME NEW u \in Users, Reveal(u) PROVE PhaseInv'
  <2>1. status' = "revealed"
    BY <1>5 DEF Reveal
  <2>2. QED
    BY <1>5, <2>1, RevealType
<1>6. ASSUME NEW u \in Users, Skip(u) \/ NextCard(u) PROVE PhaseInv'
  BY <1>6 DEF Skip, NextCard, DropRound
<1>7. ASSUME NEW u \in Users, NEW value \in Values, Vote(u, value) PROVE PhaseInv'
  <2>1. /\ round # Nil /\ status' = status /\ stored' = stored
        /\ round' # Nil
    BY <1>7, VoteType DEF Vote, Access
  <2>2. /\ round'.revealedAt = round.revealedAt
        /\ round'.stats = round.stats
        /\ round'.consensus = round.consensus
    <3>1. round \in Rounds /\ round' = [round EXCEPT !.votes = Ballots']
      BY <1>7, <2>1, VoteType DEF TypeOK
    <3>2. QED
      BY <3>1 DEF Rounds
  <2>3. /\ Voted' = Voted \cup {u}
        /\ \A v \in Voted \ {u} : Ballots'[v] = Ballots[v]
        /\ Ballots'[u] = [value |-> value,
                          revealed |-> CastRevealed]
    BY <1>7, VoteType
  <2>4. Ballots'[u].revealed <=> CastRevealed
    <3>1. CASE CastRevealed = TRUE
      BY <2>3, <3>1
    <3>2. CASE CastRevealed = FALSE
      BY <2>3, <3>2
    <3>3. CastRevealed \in BOOLEAN
      BY DEF CastRevealed
    <3>4. QED
      BY <3>1, <3>2, <3>3
  <2>5. OpenRoundIsBlank'
    BY <2>1, <2>2, <2>3, <2>4 DEF CastRevealed
  <2>6. RevealIsTotal'
    <3> SUFFICES ASSUME stored PROVE /\ round.revealedAt => \A v \in Voted' : Ballots'[v].revealed
                                     /\ round.stats # Nil => round.revealedAt
      BY <2>1, <2>2
    <3>1. round.stats # Nil => round.revealedAt
      BY <2>1
    <3>2. ASSUME round.revealedAt, NEW v \in Voted' PROVE Ballots'[v].revealed
      <4>1. CastRevealed
        BY <2>1, <3>2 DEF TypeOK, Statuses, CastRevealed
      <4>2. QED
        BY <2>1, <2>3, <2>4, <3>2, <4>1
    <3>3. QED
      BY <3>1, <3>2
  <2>7. QED
    BY <2>1, <2>5, <2>6
<1>8. ASSUME NEW u \in Users, NEW value \in Values, NEW sync \in BOOLEAN,
             ApplyConsensus(u, value, sync)
      PROVE  PhaseInv'
  <2>1. status' = "consensus" /\ stored' = stored /\ round # Nil
    BY <1>8 DEF ApplyConsensus, Access
  <2>2. QED
    BY <1>8, <2>1, ConsensusType
<1>9. QED
  BY <1>1, <1>2, <1>3, <1>4, <1>5, <1>6, <1>7, <1>8
     DEF Next, vars, JoinRoom, LeaveRoom, UpdateQueue, UpdateCard, Access

\* The reachable sessions satisfy the inductive invariant.
LEMMA PhaseCorrect == Spec => []PhaseInv
BY TypeCorrect, InitPhase, StepPhase, PTL DEF Spec

\* The status and the round agree in every order of calls.
THEOREM RoundAndStatusAgree == Spec => []RoundMatchesStatus
<1>1. PhaseInv => RoundMatchesStatus
  BY DEF PhaseInv
<1>2. QED
  BY <1>1, PhaseCorrect, PTL

\* Nothing of an earlier reveal survives into a round that is being voted on.
THEOREM NothingRevealedWhileVoting == Spec => []OpenRoundIsBlank
<1>1. PhaseInv => OpenRoundIsBlank
  BY DEF PhaseInv
<1>2. QED
  BY <1>1, PhaseCorrect, PTL

\* A stored room's reveal marks every ballot, the late ones included.
THEOREM RevealCoversEveryBallot == Spec => []RevealIsTotal
<1>1. PhaseInv => RevealIsTotal
  BY DEF PhaseInv
<1>2. QED
  BY <1>1, PhaseCorrect, PTL

-------------------------------------------------------------------------------
(* The index, and who counts *)

LEMMA StepIndex == TypeOK /\ IndexInQueue /\ [Next]_vars => IndexInQueue'
<1> SUFFICES ASSUME TypeOK, IndexInQueue, [Next]_vars PROVE IndexInQueue'
  OBVIOUS
<1>1. idx \in Nat /\ Len(queue) \in Nat
  BY LenProperties DEF TypeOK
<1>2. CASE UNCHANGED <<queue, idx>>
  BY <1>2 DEF IndexInQueue
<1>3. ASSUME NEW u \in Users, NEW card \in CardIds, NEW excluded \in BOOLEAN,
             UpdateCard(u, card, excluded)
      PROVE  IndexInQueue'
  BY <1>3, UpdateCardType DEF IndexInQueue, UpdateCard
<1>4. ASSUME NEW u \in Users, NEW value \in Values, NEW sync \in BOOLEAN,
             ApplyConsensus(u, value, sync)
      PROVE  IndexInQueue'
  BY <1>4, ConsensusType DEF IndexInQueue, ApplyConsensus
<1>5. ASSUME NEW u \in Users, Skip(u) \/ NextCard(u) PROVE IndexInQueue'
  BY <1>1, <1>5 DEF IndexInQueue, Skip, NextCard, AtQueueEnd
<1>6. ASSUME NEW u \in Users, NEW cards \in Queues, UpdateQueue(u, cards)
      PROVE  IndexInQueue'
  BY <1>6 DEF IndexInQueue, UpdateQueue
<1>7. QED
  BY <1>2, <1>3, <1>4, <1>5, <1>6
     DEF Next, vars, JoinRoom, LeaveRoom, DeleteRoom, StartRound, Reveal, Revote,
         Vote, Expire

\* The current index stays inside the queue.
THEOREM IndexStaysInQueue == Spec => []IndexInQueue
<1>1. Init => IndexInQueue
  BY DEF Init, IndexInQueue
<1>2. QED
  BY <1>1, TypeCorrect, StepIndex, PTL DEF Spec

LEMMA StepVoters == TypeOK /\ OnlyVotersCount /\ [Next]_vars => OnlyVotersCount'
<1> SUFFICES ASSUME TypeOK, OnlyVotersCount, [Next]_vars PROVE OnlyVotersCount'
  OBVIOUS
<1> USE DEF OnlyVotersCount, Counting
<1>1. CASE UNCHANGED <<participants, round>>
  BY <1>1, SameRound
<1>2. ASSUME NEW u \in Users, JoinRoom(u) PROVE OnlyVotersCount'
  BY <1>2, SameRound DEF JoinRoom
<1>3. ASSUME NEW u \in Users, LeaveRoom(u) PROVE OnlyVotersCount'
  BY <1>3, SameRound DEF LeaveRoom
<1>4. ASSUME NEW u \in Users, StartRound(u) \/ Revote(u) PROVE OnlyVotersCount'
  BY <1>4, ReopenType DEF StartRound, Revote
<1>5. ASSUME NEW u \in Users, Reveal(u) PROVE OnlyVotersCount'
  <2>1. /\ Voted' = Voted /\ participants' = participants
        /\ round'.stats = Statistics(Ballots, participants)
    BY <1>5, RevealType DEF Reveal
  <2>2. round'.stats # Nil => DOMAIN round'.stats = Counted(Ballots, participants)
    BY <2>1, BallotsIsMap, StatisticsType DEF TypeOK
  <2>3. QED
    BY <2>1, <2>2 DEF Counted
<1>6. ASSUME NEW u \in Users, Skip(u) \/ NextCard(u) PROVE OnlyVotersCount'
  BY <1>6, DroppedRound DEF Skip, NextCard, DropRound
<1>7. ASSUME NEW u \in Users, NEW value \in Values, Vote(u, value)
      PROVE  OnlyVotersCount'
  <2>1. round \in Rounds /\ round # Nil
    BY <1>7 DEF Vote, TypeOK
  <2>2. round' = [round EXCEPT !.votes = Ballots'] /\ Voted' = Voted \cup {u}
    BY <1>7, VoteType
  <2>3. round'.stats = round.stats
    BY <2>1, <2>2 DEF Rounds
  <2>4. participants' = participants /\ participants[u].canVote /\ round # Nil
    BY <1>7 DEF Vote, CanCast
  <2>5. QED
    BY <2>2, <2>3, <2>4
<1>8. ASSUME NEW u \in Users, NEW value \in Values, NEW sync \in BOOLEAN,
             ApplyConsensus(u, value, sync)
      PROVE  OnlyVotersCount'
  BY <1>8, ConsensusType DEF ApplyConsensus
<1>9. QED
  BY <1>1, <1>2, <1>3, <1>4, <1>5, <1>6, <1>7, <1>8
     DEF Next, vars, DeleteRoom, UpdateQueue, UpdateCard, Expire

\* A croupier has no ballot and is in no statistics, ever.
THEOREM CroupierNeverCounts == Spec => []OnlyVotersCount
<1>1. Init => OnlyVotersCount
  BY EmptyMapIsMap DEF Init, OnlyVotersCount, Counting, Voted, Ballots
<1>2. QED
  BY <1>1, TypeCorrect, StepVoters, PTL DEF Spec

-------------------------------------------------------------------------------
(* What a step may never do *)

LEMMA FrozenNext == TypeOK /\ [Next]_vars => [FrozenStep]_vars
<1> SUFFICES ASSUME TypeOK, Next,
                    \A u \in DOMAIN participants : ~participants[u].isFacilitator
             PROVE  /\ UNCHANGED <<queue, idx, status>>
                    /\ \A u \in DOMAIN participants' : ~participants'[u].isFacilitator
                    /\ round # Nil => /\ round' # Nil
                                      /\ round'.consensus = round.consensus
                                      /\ round'.stats = round.stats
  BY DEF FrozenStep
<1>1. \A u \in Users : ~IsFacilitator(u)
  BY DEF IsFacilitator
<1>2. ASSUME NEW u \in Users, JoinRoom(u)
      PROVE  /\ UNCHANGED <<queue, idx, status, round>>
             /\ \A p \in DOMAIN participants' : ~participants'[p].isFacilitator
  BY <1>2 DEF JoinRoom
<1>3. ASSUME NEW u \in Users, LeaveRoom(u)
      PROVE  /\ UNCHANGED <<queue, idx, status, round>>
             /\ \A p \in DOMAIN participants' : ~participants'[p].isFacilitator
  BY <1>3 DEF LeaveRoom
<1>4. ASSUME NEW u \in Users, NEW value \in Values, Vote(u, value)
      PROVE  /\ UNCHANGED <<queue, idx, status, participants>>
             /\ round' # Nil
             /\ round'.consensus = round.consensus
             /\ round'.stats = round.stats
  <2>1. round \in Rounds /\ round' # Nil /\ round' = [round EXCEPT !.votes = Ballots']
    BY <1>4, VoteType DEF Vote, TypeOK
  <2>2. round'.consensus = round.consensus /\ round'.stats = round.stats
    BY <2>1 DEF Rounds
  <2>3. QED
    BY <1>4, <2>1, <2>2 DEF Vote
<1>5. ASSUME Expire PROVE UNCHANGED <<queue, idx, status, round, participants>>
  BY <1>5 DEF Expire
<1>6. QED
  BY <1>1, <1>2, <1>3, <1>4, <1>5
     DEF Next, DeleteRoom, StartRound, Reveal, Revote, Skip, NextCard, UpdateQueue,
         UpdateCard, ApplyConsensus

\* A room whose facilitator left can never be moved on again.
THEOREM FrozenRoom == Spec => FrozenWithoutFacilitator
BY TypeCorrect, FrozenNext, PTL DEF Spec, FrozenWithoutFacilitator

LEMMA BallotNext == TypeOK /\ PhaseInv /\ [Next]_vars => [BallotStep]_vars
<1> SUFFICES ASSUME TypeOK, PhaseInv, Next PROVE BallotStep
  OBVIOUS
<1> USE DEF BallotStep
<1>1. CASE UNCHANGED round
  BY <1>1, SameRound
<1>2. ASSUME NEW u \in Users, StartRound(u) \/ Revote(u) PROVE BallotStep
  BY <1>2, ReopenType
<1>3. ASSUME NEW u \in Users, Reveal(u) PROVE BallotStep
  BY <1>3, RevealType
<1>4. ASSUME NEW u \in Users, Skip(u) \/ NextCard(u) PROVE BallotStep
  BY <1>4, DroppedRound DEF Skip, NextCard, DropRound
<1>5. ASSUME NEW u \in Users, NEW value \in Values, NEW sync \in BOOLEAN,
             ApplyConsensus(u, value, sync)
      PROVE  BallotStep
  BY <1>5, ConsensusType
<1>6. ASSUME NEW u \in Users, NEW value \in Values, Vote(u, value)
      PROVE  BallotStep
  <2>1. /\ Voted' = Voted \cup {u}
        /\ \A v \in Voted \ {u} : Ballots'[v] = Ballots[v]
        /\ Ballots'[u] = [value |-> value,
                          revealed |-> CastRevealed]
    BY <1>6, VoteType
  <2>2. ASSUME stored, u \in Voted, Ballots[u].revealed
        PROVE  Ballots'[u].revealed
    <3>1. round # Nil
      BY <1>6 DEF Vote
    <3>2. CastRevealed = TRUE
      BY <2>2, <3>1
         DEF PhaseInv, StoredIsOpen, RoundMatchesStatus, OpenRoundIsBlank, TypeOK,
             Statuses, CastRevealed
    <3>3. QED
      BY <2>1, <3>2
  <2>3. QED
    BY <2>1, <2>2
<1>7. QED
  BY <1>1, <1>2, <1>3, <1>4, <1>5, <1>6
     DEF Next, JoinRoom, LeaveRoom, DeleteRoom, UpdateQueue, UpdateCard, Expire

\* Ballots go only all together, and a revealed one stays revealed.
THEOREM BallotsStay == Spec => BallotsNeverLost
BY TypeCorrect, PhaseCorrect, BallotNext, PTL DEF Spec, BallotsNeverLost

-------------------------------------------------------------------------------
(* The session implements RoundLifecycle *)

Phase == IF stored THEN status ELSE "closed"
Told == IF stored THEN Voted ELSE {}
Shown == stored /\ round # Nil /\ round.revealedAt

\* Calls on a room that has left the store are stutters of the lifecycle.
LEMMA GoneIsClosed ==
  ASSUME ~stored, ~stored'
  PROVE  UNCHANGED <<Phase, Told, Shown>>
BY DEF Phase, Told, Shown

LEMMA LifecycleNext ==
  TypeOK /\ PhaseInv /\ [Next]_vars => [Lifecycle!Next]_(Lifecycle!lifecycle)
<1> SUFFICES ASSUME TypeOK, PhaseInv, [Next]_vars
             PROVE  Lifecycle!Next \/ UNCHANGED <<Phase, Told, Shown>>
  BY DEF Lifecycle!lifecycle, Phase, Told, Shown
<1> USE DEF Phase, Told, Shown
<1>1. CASE ~stored
  <2>1. ~stored'
    BY <1>1, StillStored DEF vars
  <2>2. QED
    BY <1>1, <2>1, GoneIsClosed
<1>2. CASE stored /\ ~stored'
  <2>1. Phase # "closed"
    BY <1>2 DEF PhaseInv, StoredIsOpen
  <2>2. Lifecycle!Close
    BY <1>2, <2>1 DEF Lifecycle!Close
  <2>3. QED
    BY <2>2 DEF Lifecycle!Next
<1>3. CASE stored /\ stored'
  <2>1. status # "closed" /\ Phase = status /\ Phase' = status' /\ Told = Voted
        /\ Told' = Voted'
    BY <1>3 DEF PhaseInv, StoredIsOpen
  <2>2. CASE UNCHANGED <<status, round>>
    <3>1. UNCHANGED <<Phase, Told, Shown>>
      BY <1>3, <2>2, SameRound
    <3>2. QED
      BY <3>1
  <2>3. ASSUME NEW u \in Users, StartRound(u) \/ Revote(u) PROVE Lifecycle!Open
    <3>1. status' = "voting" /\ Voted' = {} /\ ~Shown'
      BY <2>3, ReopenType DEF StartRound, Revote
    <3>2. QED
      BY <2>1, <3>1 DEF Lifecycle!Open
  <2>4. ASSUME NEW u \in Users, NEW value \in Values, Vote(u, value)
        PROVE  Lifecycle!Cast
    <3>1. round \in Rounds /\ round # Nil /\ status' = status
      BY <2>4 DEF Vote, TypeOK
    <3>2. /\ round' \in Rounds /\ round' # Nil
          /\ round' = [round EXCEPT !.votes = Ballots']
          /\ Voted' = Voted \cup {u}
      BY <2>4, VoteType
    <3>3. round'.revealedAt = round.revealedAt
      BY <3>2, <3>1 DEF Rounds
    <3>4. Shown' = Shown
      BY <1>3, <3>2, <3>3, <3>1
    <3>5. status \in {"voting", "revealed", "consensus"}
      BY <2>1, <3>1 DEF PhaseInv, RoundMatchesStatus, TypeOK, Statuses
    <3>6. QED
      BY <2>1, <3>2, <3>4, <3>5, <3>1 DEF Lifecycle!Cast, Lifecycle!InRound
  <2>5. ASSUME NEW u \in Users, Reveal(u) PROVE Lifecycle!Show
    <3>1. /\ round # Nil /\ status' = "revealed"
          /\ round' # Nil /\ round'.revealedAt /\ Voted' = Voted
      BY <2>5, RevealType DEF Reveal
    <3>2. status \in {"voting", "revealed", "consensus"}
      BY <2>1, <3>1 DEF PhaseInv, RoundMatchesStatus, TypeOK, Statuses
    <3>3. Shown' = TRUE
      BY <1>3, <3>1
    <3>4. QED
      BY <2>1, <3>1, <3>2, <3>3 DEF Lifecycle!Show, Lifecycle!InRound
  <2>6. ASSUME NEW u \in Users, NEW value \in Values, NEW sync \in BOOLEAN,
               ApplyConsensus(u, value, sync)
        PROVE  Lifecycle!Agree
    <3>1. /\ round # Nil /\ round' # Nil /\ status' = "consensus"
          /\ round'.revealedAt = round.revealedAt /\ Voted' = Voted
      BY <2>6, ConsensusType DEF ApplyConsensus
    <3>2. status \in {"voting", "revealed", "consensus"}
      BY <2>1, <3>1 DEF PhaseInv, RoundMatchesStatus, TypeOK, Statuses
    <3>3. Shown' = Shown
      BY <1>3, <3>1
    <3>4. QED
      BY <2>1, <3>1, <3>2, <3>3 DEF Lifecycle!Agree, Lifecycle!InRound
  <2>7. ASSUME NEW u \in Users, Skip(u) \/ NextCard(u) PROVE Lifecycle!Drop
    <3>1. status' = "waiting" /\ Voted' = {} /\ ~Shown'
      BY <2>7, DroppedRound DEF Skip, NextCard, DropRound
    <3>2. QED
      BY <2>1, <3>1 DEF Lifecycle!Drop
  <2>8. ASSUME NEW u \in Users, DeleteRoom(u) PROVE FALSE
    BY <1>3, <2>8 DEF DeleteRoom, LeaveStore
  <2>9. QED
    BY <2>2, <2>3, <2>4, <2>5, <2>6, <2>7, <2>8
       DEF Next, vars, JoinRoom, LeaveRoom, UpdateQueue, UpdateCard, Expire,
           Lifecycle!Next
<1>4. QED
  BY <1>1, <1>2, <1>3

\* The session's steps are steps of the lifecycle its people rely on.
THEOREM SessionImplementsLifecycle == Spec => ImplementsLifecycle
<1>1. Init => Lifecycle!Init
  BY EmptyMapIsMap DEF Init, Lifecycle!Init, Voted, Ballots
<1>2. QED
  BY <1>1, TypeCorrect, PhaseCorrect, LifecycleNext, PTL
     DEF Spec, ImplementsLifecycle, Lifecycle!Spec

-----------------------------------------------------------------------------
(* The session as one participant is sent it *)

\* A card is the index's in the view exactly when it is in the queue, and not excluded.
LEMMA ViewMembers ==
  ASSUME TypeOK, NEW u, ~IsFacilitator(u)
  PROVE  /\ ViewQueue(u) \in Seq(Cards)
         /\ ToSet(ViewQueue(u)) = {c \in ToSet(queue) : ~c.excluded}
<1> DEFINE open == {c \in ToSet(queue) : ~c.excluded}
<1>1. queue \in Seq(Cards) /\ ViewQueue(u) = Select(queue, open)
  BY DEF TypeOK, ViewQueue
<1>2. open \subseteq ToSet(queue)
  OBVIOUS
<1> HIDE DEF open
<1>3. Select(queue, open) \in Seq(Cards) /\ ToSet(Select(queue, open)) = ToSet(queue) \cap open
  BY <1>1, SelectMembers
<1>4. QED
  BY <1>1, <1>2, <1>3 DEF open

LEMMA ViewPoints == TypeOK => ViewShowsCurrentCard
<1> SUFFICES ASSUME TypeOK, NEW u \in DOMAIN participants, HasActiveCard
             PROVE  IF ViewIdx(u) = -1
                    THEN \A k \in DOMAIN queue :
                           queue[k].cardID = queue[idx + 1].cardID => queue[k].excluded
                    ELSE ViewQueue(u)[ViewIdx(u) + 1].cardID = queue[idx + 1].cardID
  BY DEF ViewShowsCurrentCard
<1>1. idx \in Nat
  BY DEF TypeOK
<1>2. CASE IsFacilitator(u)
  BY <1>1, <1>2 DEF ViewIdx, ViewQueue
<1>3. CASE ~IsFacilitator(u)
  <2> DEFINE view == ViewQueue(u)
             hits == {k \in DOMAIN view : /\ HasActiveCard
                                          /\ view[k].cardID = queue[idx + 1].cardID}
  <2>1. view \in Seq(Cards) /\ ToSet(view) = {c \in ToSet(queue) : ~c.excluded}
    BY <1>3, ViewMembers
  <2>2. ViewIdx(u) = IF hits = {} THEN -1 ELSE Max(hits) - 1
    BY <1>3 DEF ViewIdx
  <2>3. hits \subseteq 1..Len(view) /\ Len(view) \in Nat
    <3> HIDE DEF view
    <3>1. QED
      BY <2>1
  <2>4. CASE hits = {}
    <3>1. ASSUME NEW k \in DOMAIN queue, queue[k].cardID = queue[idx + 1].cardID
          PROVE  queue[k].excluded
      <4>1. CASE queue[k] \in ToSet(view)
        <5>1. PICK j \in DOMAIN view : view[j] = queue[k]
          BY <4>1 DEF ToSet
        <5>2. j \in hits
          BY <3>1, <5>1
        <5>3. QED
          BY <2>4, <5>2
      <4>2. CASE queue[k] \notin ToSet(view)
        <5>1. queue[k] \in ToSet(queue)
          BY DEF ToSet
        <5>2. QED
          BY <2>1, <4>2, <5>1
      <4>3. QED
        BY <4>1, <4>2
    <3>2. ViewIdx(u) = -1
      BY <2>2, <2>4
    <3>3. QED
      BY <3>1, <3>2
  <2>5. CASE hits # {}
    <3>1. Max(hits) \in hits /\ Max(hits) \in 1..Len(view)
      <4> HIDE DEF hits, view
      <4>1. QED
        BY <2>3, <2>5, LargestPosition
    <3>2. view[Max(hits)].cardID = queue[idx + 1].cardID
      BY <3>1
    <3>3. ViewIdx(u) = Max(hits) - 1
      BY <2>2, <2>5
    <3> HIDE DEF hits, view
    <3>4. ViewIdx(u) # -1 /\ ViewIdx(u) + 1 = Max(hits)
      BY <2>3, <3>1, <3>3
    <3>5. QED
      BY <3>2, <3>4 DEF view
  <2>6. QED
    BY <2>4, <2>5
<1>4. QED
  BY <1>2, <1>3

\* Whatever the facilitator excludes, reorders or sends anew, a participant's page
\* points at the card the room is at, or nowhere when that card is excluded
\* (sessionForUser, handlers/state.go).
THEOREM ViewFollowsFacilitator == Spec => []ViewShowsCurrentCard
BY TypeCorrect, ViewPoints, PTL
================================================================================
