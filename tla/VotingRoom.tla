----------------------------- MODULE VotingRoom -----------------------------
(***************************************************************************)
(* One planning room of the Go server: the session that RoomService        *)
(* (server/internal/services/room_service.go) and VotingService            *)
(* (voting_service.go) read and write.  Every operation of the two         *)
(* services looks the entry up in the store, takes the entry's lock, and   *)
(* does all its work under it, so it is one action here; a call the code   *)
(* answers with an error changes nothing and is no action.                 *)
(*                                                                         *)
(* The lookup and the lock are two steps of the code.  A call that has     *)
(* passed the lookup when the room leaves the store still works on the     *)
(* entry afterwards; inflight counts such calls.                           *)
(***************************************************************************)
EXTENDS Integers, FiniteSets, Lists

CONSTANTS
  Users,              \* ids generateUserID hands out, each at most once
  CardIds,            \* Businessmap card ids
  Values,             \* labels a vote or an estimate carries
  NumericValues,      \* the labels strconv.ParseFloat accepts
  Queues,             \* queues a client can send
  MaxParticipants,    \* RoomStore.maxParticipants
  ConsensusAlgorithm, \* Settings.ConsensusAlgorithm, fixed at creation
  MaxInFlight,        \* bound: calls between lookup and lock at removal
  Nil                 \* Go's nil

Maps(K, T) == UNION {[S -> T] : S \in SUBSET K}
EmptyMap == [k \in {} |-> Nil]

Cards == [cardID : CardIds, excluded : BOOLEAN, estimated : Values \cup {Nil}]
Members == [isFacilitator : BOOLEAN, canVote : BOOLEAN]
BallotSet == [value : Values, revealed : BOOLEAN]
Rounds ==
  [cardID : CardIds, votes : Maps(Users, BallotSet), revealedAt : BOOLEAN,
   consensus : Values \cup {Nil}, stats : Maps(Users, Values) \cup {Nil},
   sync : BOOLEAN]
Statuses == {"waiting", "voting", "revealed", "consensus", "closed"}

ASSUME ValuesAssumption == NumericValues \subseteq Values /\ Nil \notin Values
ASSUME QueuesAssumption == Queues \subseteq Seq(Cards)
ASSUME LimitAssumption == MaxParticipants \in Nat /\ MaxInFlight \in Nat
ASSUME NilAssumption == Nil \notin Rounds

VARIABLES
  stored,       \* is the entry in RoomStore.rooms?
  inflight,     \* calls that hold the entry of a room no longer stored
  issued,       \* user ids handed out so far
  participants, \* Session.Participants, a map from user id
  queue,        \* Session.Queue
  idx,          \* Session.CurrentCardIdx, counted from 0
  status,       \* Session.Status
  round         \* Session.CurrentRound

vars == <<stored, inflight, issued, participants, queue, idx, status, round>>

-----------------------------------------------------------------------------
(* What the services compute from a session. *)

Ballots == IF round = Nil THEN EmptyMap ELSE round.votes
Voted == DOMAIN Ballots
Counting == round # Nil /\ round.stats # Nil

\* Slips that the checks below must notice; no action uses them.
AnyMemberLeads(u) == u \in DOMAIN participants
AnyoneCasts(u) == TRUE
AnyMemberCasts(u) == u \in DOMAIN participants
LateBallotHidden == status = "revealed"
EndOffByOne == idx >= Len(queue)
RoundWithOldVotes(card) ==
  [cardID |-> card, votes |-> Ballots, revealedAt |-> FALSE,
   consensus |-> Nil, stats |-> Nil, sync |-> FALSE]
StaleStatistics == [round EXCEPT !.votes = EmptyMap, !.revealedAt = FALSE,
                                 !.consensus = Nil]
UnmappedIdx(u) == idx
RoundLeftBehind == UNCHANGED round /\ status' = "waiting"

\* requireFacilitator.
IsFacilitator(u) == u \in DOMAIN participants /\ participants[u].isFacilitator

\* Who Vote accepts a ballot from, and whether it counts as revealed.
CanCast(u) == u \in DOMAIN participants /\ participants[u].canVote
CastRevealed == status \in {"revealed", "consensus"}

\* activeCard finds one.
HasActiveCard == idx >= 0 /\ idx < Len(queue)
AtQueueEnd == idx >= Len(queue) - 1

\* The votes CalculateConsensus averages: of participants who are still in the
\* room and may vote, and numeric.
Counted(votes, people) ==
  {u \in DOMAIN votes : /\ u \in DOMAIN people
                        /\ people[u].canVote
                        /\ votes[u].value \in NumericValues}

\* CalculateConsensus: average, median and suggestion are functions of the
\* counted votes, which stand for them; with none, or with the manual
\* algorithm, all three stay nil.
Statistics(votes, people) ==
  LET counted == Counted(votes, people)
  IN  IF counted = {} \/ ConsensusAlgorithm = "manual"
      THEN Nil
      ELSE [u \in counted |-> votes[u].value]

FreshRound(card) ==
  [cardID |-> card, votes |-> EmptyMap, revealedAt |-> FALSE,
   consensus |-> Nil, stats |-> Nil, sync |-> FALSE]

\* What Revote leaves of a round: the card, the start and the sync flag.
ClearedRound ==
  [round EXCEPT !.votes = EmptyMap, !.revealedAt = FALSE,
                !.consensus = Nil, !.stats = Nil]

\* sessionForUser: the queue a participant is sent, and the index into it.
ViewQueue(u) ==
  IF IsFacilitator(u) THEN queue ELSE Select(queue, {c \in ToSet(queue) : ~c.excluded})

ViewIdx(u) ==
  LET view == ViewQueue(u)
      hits == {k \in DOMAIN view : /\ HasActiveCard
                                   /\ view[k].cardID = queue[idx + 1].cardID}
  IN  IF IsFacilitator(u) THEN idx
      ELSE IF hits = {} THEN -1
      ELSE Max(hits) - 1

\* The votes a participant is sent with the session: sessionForUser copies
\* CurrentRound as it is.
ViewBallots(u) == Ballots

-----------------------------------------------------------------------------
(* RoomStore.Get and the entry's lock: which calls reach the session. *)

Access ==
  /\ stored \/ inflight > 0
  /\ inflight' = IF stored THEN inflight ELSE inflight - 1
  /\ UNCHANGED stored

\* The entry leaves the store while some calls are past their lookup.
LeaveStore ==
  IF stored
  THEN stored' = FALSE /\ inflight' \in 0..MaxInFlight
  ELSE inflight > 0 /\ inflight' = inflight - 1 /\ UNCHANGED stored

-----------------------------------------------------------------------------
(* RoomService *)

\* CreateRoom: the creator is the facilitator, and votes only in the
\* participant role.
Init ==
  \E creator \in Users, votes \in BOOLEAN :
    /\ stored = TRUE
    /\ inflight = 0
    /\ issued = {creator}
    /\ participants =
         [u \in {creator} |-> [isFacilitator |-> TRUE, canVote |-> votes]]
    /\ queue \in Queues
    /\ idx = 0
    /\ status = "waiting"
    /\ round = Nil

JoinRoom(u) ==
  /\ Access
  /\ Cardinality(DOMAIN participants) < MaxParticipants
  /\ u \notin issued
  /\ issued' = issued \cup {u}
  /\ participants' =
       [p \in DOMAIN participants \cup {u} |->
          IF p = u THEN [isFacilitator |-> FALSE, canVote |-> TRUE]
                   ELSE participants[p]]
  /\ UNCHANGED <<queue, idx, status, round>>

LeaveRoom(u) ==
  /\ Access
  /\ u \in DOMAIN participants
  /\ participants' = [p \in DOMAIN participants \ {u} |-> participants[p]]
  /\ UNCHANGED <<issued, queue, idx, status, round>>

UpdateQueue(u, cards) ==
  /\ Access
  /\ IsFacilitator(u)
  /\ queue' = cards
  /\ idx' = 0
  /\ UNCHANGED <<issued, participants, status, round>>

\* The first entry with the id is patched; description and subtasks are text.
UpdateCard(u, card, excluded) ==
  /\ Access
  /\ IsFacilitator(u)
  /\ \E i \in DOMAIN queue :
       /\ queue[i].cardID = card
       /\ \A j \in 1..(i - 1) : queue[j].cardID # card
       /\ queue' = [queue EXCEPT ![i].excluded = excluded]
  /\ UNCHANGED <<issued, participants, idx, status, round>>

DeleteRoom(u) ==
  /\ LeaveStore
  /\ IsFacilitator(u)
  /\ status' = "closed"
  /\ UNCHANGED <<issued, participants, queue, idx, round>>

\* CleanupExpiredRooms drops the entry and leaves the session as it is.
Expire ==
  /\ stored
  /\ LeaveStore
  /\ UNCHANGED <<issued, participants, queue, idx, status, round>>

-----------------------------------------------------------------------------
(* VotingService *)

StartRound(u) ==
  /\ Access
  /\ IsFacilitator(u)
  /\ HasActiveCard
  /\ status' = "voting"
  /\ round' = FreshRound(queue[idx + 1].cardID)
  /\ UNCHANGED <<issued, participants, queue, idx>>

Vote(u, value) ==
  /\ Access
  /\ round # Nil
  /\ CanCast(u)
  /\ LET ballot == [value |-> value, revealed |-> CastRevealed]
     IN  round' = [round EXCEPT !.votes =
                     [p \in Voted \cup {u} |->
                        IF p = u THEN ballot ELSE Ballots[p]]]
  /\ UNCHANGED <<issued, participants, queue, idx, status>>

Reveal(u) ==
  /\ Access
  /\ IsFacilitator(u)
  /\ round # Nil
  /\ status' = "revealed"
  /\ round' = [round EXCEPT
                 !.revealedAt = TRUE,
                 !.votes = [p \in Voted |-> [value |-> Ballots[p].value,
                                              revealed |-> TRUE]],
                 !.stats = Statistics(Ballots, participants)]
  /\ UNCHANGED <<issued, participants, queue, idx>>

Revote(u) ==
  /\ Access
  /\ IsFacilitator(u)
  /\ round # Nil
  /\ status' = "voting"
  /\ round' = ClearedRound
  /\ UNCHANGED <<issued, participants, queue, idx>>

ApplyConsensus(u, value, sync) ==
  /\ Access
  /\ IsFacilitator(u)
  /\ round # Nil
  /\ status' = "consensus"
  /\ round' = [round EXCEPT !.consensus = value, !.sync = sync]
  /\ queue' = IF HasActiveCard
              THEN [queue EXCEPT ![idx + 1].estimated = value]
              ELSE queue
  /\ UNCHANGED <<issued, participants, idx>>

\* Skip and Next leave the card without a round.
DropRound == round' = Nil /\ status' = "waiting"

Skip(u) ==
  /\ Access
  /\ IsFacilitator(u)
  /\ DropRound
  /\ idx' = IF AtQueueEnd THEN idx ELSE idx + 1
  /\ UNCHANGED <<issued, participants, queue>>

NextCard(u) ==
  /\ Access
  /\ IsFacilitator(u)
  /\ ~AtQueueEnd
  /\ idx' = idx + 1
  /\ DropRound
  /\ UNCHANGED <<issued, participants, queue>>

-----------------------------------------------------------------------------
Next ==
  \/ \E u \in Users :
       \/ JoinRoom(u)
       \/ LeaveRoom(u)
       \/ DeleteRoom(u)
       \/ StartRound(u)
       \/ Reveal(u)
       \/ Revote(u)
       \/ Skip(u)
       \/ NextCard(u)
       \/ \E cards \in Queues : UpdateQueue(u, cards)
       \/ \E card \in CardIds, excluded \in BOOLEAN : UpdateCard(u, card, excluded)
       \/ \E value \in Values : Vote(u, value)
       \/ \E value \in Values, sync \in BOOLEAN : ApplyConsensus(u, value, sync)
  \/ Expire

Spec == Init /\ [][Next]_vars

-----------------------------------------------------------------------------
(* Properties *)

\* Every variable holds a value the Go types of models/room.go and
\* models/voting.go allow, and only ids that were handed out are in use.
TypeOK ==
  /\ stored \in BOOLEAN
  /\ inflight \in 0..MaxInFlight
  /\ issued \subseteq Users
  /\ participants \in Maps(issued, Members)
  /\ queue \in Seq(Cards)
  /\ idx \in Nat
  /\ status \in Statuses
  /\ round \in Rounds \cup {Nil}
  /\ Voted \subseteq issued

\* The status and the round agree whatever order the calls come in: no round
\* while the room waits, one in the three states of a round.  Only a room that
\* was closed may keep either.
RoundMatchesStatus ==
  /\ status = "waiting" => round = Nil
  /\ status \in {"voting", "revealed", "consensus"} => round # Nil

\* Nothing of an earlier reveal survives into a round that is being voted on:
\* no ballot is marked revealed, there is no reveal time, no statistics and no
\* agreed value (StartRound, Revote and the flag Vote computes).
OpenRoundIsBlank ==
  status = "voting" =>
    /\ \A u \in Voted : ~Ballots[u].revealed
    /\ ~round.revealedAt
    /\ round.stats = Nil
    /\ round.consensus = Nil

\* Once a stored room's round was revealed, every ballot of it is marked
\* revealed, the late ones and those of people who left included; statistics
\* exist only for such a round.
RevealIsTotal ==
  stored /\ round # Nil =>
    /\ round.revealedAt => \A u \in Voted : Ballots[u].revealed
    /\ round.stats # Nil => round.revealedAt

\* CurrentCardIdx stays inside the queue (or is 0 in an empty one) through
\* Skip, Next and every replacement of the queue, so that a room with cards
\* always has an active one.
IndexInQueue == idx = 0 \/ idx < Len(queue)

\* A croupier's ballot never exists and never counts (ADR-007), whoever joins
\* and leaves meanwhile: people in the room who have a ballot, or whose vote
\* went into the statistics, may vote.
OnlyVotersCount ==
  \A u \in DOMAIN participants :
    \/ participants[u].canVote
    \/ u \notin Voted /\ (Counting => u \notin DOMAIN round.stats)

\* What sessionForUser sends a participant points at the facilitator's current
\* card, or nowhere when every entry for that card is excluded.
ViewShowsCurrentCard ==
  \A u \in DOMAIN participants :
    HasActiveCard =>
      IF ViewIdx(u) = -1
      THEN \A k \in DOMAIN queue :
             queue[k].cardID = queue[idx + 1].cardID => queue[k].excluded
      ELSE ViewQueue(u)[ViewIdx(u) + 1].cardID = queue[idx + 1].cardID

\* Ballots are lost only all at once, when a round is replaced, cleared or
\* dropped; one that was revealed in a stored room never turns hidden again.
BallotStep ==
  Voted' = {} \/ \A u \in Voted :
                   /\ u \in Voted'
                   /\ stored /\ Ballots[u].revealed => Ballots'[u].revealed
BallotsNeverLost == [][BallotStep]_vars

\* Without its facilitator a room is frozen: nobody can move the queue, the
\* index, the status or the round's outcome, and nobody becomes facilitator.
FrozenStep ==
  (\A u \in DOMAIN participants : ~participants[u].isFacilitator) =>
    /\ UNCHANGED <<queue, idx, status>>
    /\ \A u \in DOMAIN participants' : ~participants'[u].isFacilitator
    /\ round # Nil => /\ round' # Nil
                      /\ round'.consensus = round.consensus
                      /\ round'.stats = round.stats
FrozenWithoutFacilitator == [][FrozenStep]_vars

\* The room as its people see it follows RoundLifecycle: once it has left the
\* store it is closed for good, whatever calls past their lookup still do.
Lifecycle == INSTANCE RoundLifecycle WITH
  phase <- IF stored THEN status ELSE "closed",
  voted <- IF stored THEN Voted ELSE {},
  shown <- stored /\ round # Nil /\ round.revealedAt
ImplementsLifecycle == Lifecycle!Spec

\* ADR-008, UX flow: "Votes hidden until reveal".  What a participant is sent
\* of a round being voted on holds no one else's value.
VotesHiddenUntilReveal ==
  status = "voting" =>
    \A u \in DOMAIN participants : DOMAIN ViewBallots(u) \subseteq {u}

\* voting_service.go: "Apply a consensus estimate to the current card", which
\* the handler announces with the round's card.  The card that gets the estimate
\* is the one that was voted on.
EstimateOnVotedCard ==
  [][\A u \in Users, value \in Values, sync \in BOOLEAN :
       ApplyConsensus(u, value, sync) /\ HasActiveCard
         => queue[idx + 1].cardID = round.cardID]_vars
=============================================================================
