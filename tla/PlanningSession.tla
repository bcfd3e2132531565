-------------------------- MODULE PlanningSession --------------------------
(***************************************************************************)
(* The page's session (context/PlanningContext.tsx): a demo session lives  *)
(* in the browser alone and every operation changes it; a live one is a    *)
(* copy of the room's, where an operation sends a message and the change   *)
(* comes back, or never does, as a message of the server.  Ballots and the *)
(* contents of cards are changed at once in both.                          *)
(***************************************************************************)
EXTENDS Naturals, Sequences, FiniteSets, Functions, Lists

CONSTANTS
  Users, Leaders, Voters,    \* participants, who facilitates, who may vote
  DemoLeader, DemoVoter,     \* the users of the two demo personas
  Values, Blank,             \* cards of the deck; a ballot nobody has filled in
  Texts,                     \* descriptions and titles
  CardIds, SubtaskIds,
  None

ASSUME RolesAssumption == /\ DemoLeader \in Leaders \ Voters /\ DemoVoter \in Voters \ Leaders
                          /\ Leaders \subseteq Users /\ Voters \subseteq Users
ASSUME BlankAssumption ==
  Blank \notin Values /\ None \notin Values \cup SubtaskIds \cup Users \cup Texts

VARIABLES
  session,      \* the session
  me,           \* currentUserId, or the persona's user in the demo
  selectedVote  \* the card of the deck that is highlighted

sessionVars == <<session, me, selectedVote>>

(* One ballot or none per user; the API's list or map of votes.            *)
Ballot == [value : Values \cup {Blank}, revealed : BOOLEAN]
BlankBallots(people) == [u \in people |-> [value |-> Blank, revealed |-> FALSE]]

(* A card has a text, subtasks with a title and a mark, what it was         *)
(* estimated at, and whether it is deferred.                               *)
Subtask == [title : Texts, done : BOOLEAN]

Card == [id : CardIds, text : Texts,
         subtasks : UNION {[ids -> Subtask] : ids \in SUBSET SubtaskIds},
         estimated : Values \cup {None}, excluded : BOOLEAN]

(* A room as the server sends it may say nothing of the reveal.  Cards are  *)
(* counted from one: an index of 0 is the server's -1.                     *)
RoomSession ==
  [isDemo : BOOLEAN, status : {"waiting", "voting", "revealed", "consensus", "closed"},
   queue : Seq(Card), idx : Nat, people : [Users -> {"online", "offline", "absent"}],
   votes : UNION {[us -> Ballot] : us \in SUBSET Users}, revealed : BOOLEAN \cup {None}]

HasCurrent(s) == s.idx \in DOMAIN s.queue
Current(s) == s.queue[s.idx]

InVotingQueue(card) == ~card.excluded

(* sessionForUser: who does not facilitate is sent the cards that are not   *)
(* deferred, and nowhere as the index when the current card is not there.   *)
SessionForUser(room) ==
  LET votable == Select(room.queue, {c \in ToSet(room.queue) : InVotingQueue(c)})
      shown == {i \in DOMAIN votable : HasCurrent(room) /\ votable[i].id = Current(room).id}
  IN IF me \in Leaders THEN room
     ELSE [room EXCEPT !.queue = votable, !.idx = IF shown = {} THEN 0 ELSE Max(shown)]

(* The room as the server describes it: the flag comes from the status     *)
(* where the payload has none.                                             *)
MapRoomState(room) ==
  [room EXCEPT !.isDemo = FALSE,
               !.revealed = IF @ = None THEN room.status \in {"revealed", "consensus"} ELSE @]

BuildMockSession(queue) ==
  [isDemo |-> TRUE, status |-> "waiting", queue |-> queue, idx |-> 1,
   people |-> [u \in Users |-> "online"], votes |-> BlankBallots({}), revealed |-> FALSE]

-----------------------------------------------------------------------------
(* Operations on a session, and what the live page does instead.           *)

(* sendLiveMessage: the page changes nothing and does not learn whether     *)
(* the socket was open.                                                    *)
SendLive == UNCHANGED session

Demo(s) == session' = s

\* Slips that the checks below must notice; no action uses them.
OptimisticMode(change) == Demo(change)
SelectionKept == UNCHANGED selectedVote
FlagKept(s) == [s EXCEPT !.status = "voting", !.votes = BlankBallots(Voters)]

InMode(change) == IF session.isDemo THEN Demo(change) ELSE SendLive

Forget == selectedVote' = None

(* A round begins: startVoting, revote and nextCard alike.                 *)
OpenRound(s) ==
  [s EXCEPT !.status = "voting", !.votes = BlankBallots(Voters), !.revealed = FALSE]

StartVoting ==
  /\ InMode(OpenRound(session))
  /\ IF session.isDemo THEN Forget ELSE UNCHANGED selectedVote
  /\ UNCHANGED me

CastVote(v) ==
  /\ selectedVote' = v
  /\ session' = IF me \in DOMAIN session.votes THEN [session EXCEPT !.votes[me].value = v]
                                               ELSE session
  /\ UNCHANGED me

RevealVotes ==
  /\ InMode([session EXCEPT !.status = "revealed", !.revealed = TRUE,
                            !.votes = [u \in DOMAIN @ |-> [@[u] EXCEPT !.revealed = TRUE]]])
  /\ UNCHANGED <<me, selectedVote>>

Estimated(s, v) ==
  [s EXCEPT !.status = "consensus",
            !.queue = IF HasCurrent(s) THEN [@ EXCEPT ![s.idx].estimated = v] ELSE @]

\* Slip: the end of the queue is noticed one card late.
NextPastEnd(s) ==
  IF s.idx > Len(s.queue) THEN [s EXCEPT !.status = "closed"]
                          ELSE OpenRound([s EXCEPT !.idx = @ + 1])

NextIn(s) ==
  IF s.idx + 1 > Len(s.queue) THEN [s EXCEPT !.status = "closed"]
                              ELSE OpenRound([s EXCEPT !.idx = @ + 1])

(* applyConsensus and nextCard, which the panel always calls in one go.    *)
ApplyConsensusAndNext(v) ==
  /\ InMode(NextIn(Estimated(session, v)))
  /\ Forget
  /\ UNCHANGED me

Revote ==
  /\ InMode(OpenRound(session))
  /\ Forget
  /\ UNCHANGED me

(* Only the demo moves to another card by a click.                         *)
SelectCurrentCard(i) ==
  /\ session' = IF session.isDemo /\ i \in DOMAIN session.queue /\ i # session.idx
                THEN [session EXCEPT !.idx = i, !.status = "waiting",
                                     !.votes = BlankBallots({}), !.revealed = FALSE]
                ELSE session
  /\ Forget
  /\ UNCHANGED me

SetDemoPersona(u) == me' = u /\ Forget /\ UNCHANGED session

(* updateCurrentCard                                                       *)
UpdateCurrentCard(card) ==
  /\ HasCurrent(session)
  /\ session' = [session EXCEPT !.queue[session.idx] = card]
  /\ UNCHANGED <<me, selectedVote>>

SetDescription(t) == UpdateCurrentCard([Current(session) EXCEPT !.text = t])

SetSubtasks(sub) == UpdateCurrentCard([Current(session) EXCEPT !.subtasks = sub])

AddSubtask(id, t) ==
  LET old == Current(session).subtasks
  IN SetSubtasks([i \in DOMAIN old \cup {id} |->
                    IF i = id THEN [title |-> t, done |-> FALSE] ELSE old[i]])

(* A subtask that has gone in the meantime stays gone.                     *)
OnSubtask(id, change(_)) ==
  LET old == Current(session).subtasks
  IN SetSubtasks([i \in DOMAIN old |-> IF i = id THEN change(old[i]) ELSE old[i]])

UpdateSubtask(id, t) == OnSubtask(id, LAMBDA st : [st EXCEPT !.title = t])
ToggleSubtask(id) == OnSubtask(id, LAMBDA st : [st EXCEPT !.done = ~@])
RemoveSubtask(id) == SetSubtasks(Restrict(Current(session).subtasks,
                                          DOMAIN Current(session).subtasks \ {id}))

OnCard(s, id, change(_)) ==
  [s EXCEPT !.queue = [i \in DOMAIN @ |-> IF @[i].id = id THEN change(@[i]) ELSE @[i]]]

ToggleCardExcludedFromVoting(id) ==
  /\ session' = OnCard(session, id, LAMBDA c : [c EXCEPT !.excluded = ~@])
  /\ UNCHANGED <<me, selectedVote>>

-----------------------------------------------------------------------------
(* applyServerMessage, which only a live session listens to.               *)
Receive(s) == ~session.isDemo /\ session' = s /\ UNCHANGED <<me, selectedVote>>

RoomState(room) == Receive(MapRoomState(SessionForUser(room)))

\* Fields the payload leaves out keep their value.
CardUpdated(id, text, sub, excluded) ==
  Receive(OnCard(session, id, LAMBDA c :
    [c EXCEPT !.text = IF text = None THEN @ ELSE text,
              !.subtasks = IF sub = None THEN @ ELSE sub,
              !.excluded = IF excluded = None THEN @ ELSE excluded]))

ParticipantJoined(u) == Receive([session EXCEPT !.people[u] = "online"])

ParticipantLeft(u) ==
  Receive([session EXCEPT !.people[u] = IF @ = "absent" THEN @ ELSE "offline"])

Present(s) == {u \in Users : s.people[u] # "absent"}

RoundStarted ==
  Receive([session EXCEPT !.status = "voting", !.revealed = FALSE,
                          !.votes = BlankBallots(Voters \cap Present(session))])

VoteReceived(u) ==
  Receive([session EXCEPT !.votes = [w \in DOMAIN @ \cup {u} |->
             IF w \in DOMAIN @ THEN @[w] ELSE [value |-> Blank, revealed |-> FALSE]]])

VotesRevealed(votes) ==
  Receive([session EXCEPT !.status = "revealed", !.revealed = TRUE, !.votes = votes])

ConsensusApplied(id, v) ==
  Receive([OnCard(session, id, LAMBDA c : [c EXCEPT !.estimated = v])
           EXCEPT !.status = "consensus"])
=============================================================================
