--------------------------- MODULE PlanningBoard ---------------------------
(***************************************************************************)
(* The board on which a session is played (components/voting/,             *)
(* components/consensus/, components/waiting/): which control is offered    *)
(* to whom, the editor of the active card, the queue as its reader sees it *)
(* and the panel that writes an estimate to Businessmap before it applies  *)
(* it.  Clicks, the server's messages and Businessmap's answers interleave; *)
(* what a control does is PlanningSession's.                               *)
(***************************************************************************)
EXTENDS PlanningSession

CONSTANTS
  DemoQueue,        \* the demo's cards
  RoomStates,       \* what the state of the room on the server may be
  Target,           \* where estimates go: "native_size", "number", "dropdown" or None
  Source,           \* "nearest_card" or "raw_average"
  NumberOf,         \* the number a card of the deck stands for, or None
  Options,          \* labels of the dropdown
  MaxEdits,         \* bound on edits of cards
  MaxMessages,      \* bound on messages of the server
  MaxWrites         \* bound on estimates under way at one time

ASSUME QueueAssumption ==
  DemoQueue \in Seq(Card) /\ DemoQueue # <<>> /\ RoomStates \subseteq RoomSession
ASSUME BudgetAssumption == {MaxEdits, MaxMessages, MaxWrites} \subseteq Nat

VARIABLES
  editing,     \* the description's editor is open
  draft,       \* what is typed into it
  editingSub,  \* the subtask whose title is being edited
  applying,    \* the panel's button says so
  writes,      \* estimates on their way to Businessmap
  edits, messages

localVars == <<editing, draft, editingSub, applying>>
vars == <<sessionVars, localVars, writes, edits, messages>>

-----------------------------------------------------------------------------
(* Who sees what.                                                          *)
InSession == session.people[me] # "absent"
Leading == IF session.isDemo THEN me = DemoLeader ELSE InSession /\ me \in Leaders
MayVote == IF session.isDemo THEN me = DemoVoter ELSE InSession /\ me \in Voters

IsVoting == session.status = "voting"
IsRevealed == session.status \in {"revealed", "consensus"}

\* The room page shows a waiting live room without the board.
BoardShown == session.isDemo \/ session.status # "waiting"
CurrentInVotingQueue == HasCurrent(session) /\ InVotingQueue(Current(session))
ParticipantSeesCurrent == BoardShown /\ (Leading \/ CurrentInVotingQueue)

\* Who leads has the panel and the deck without a current card too.
SeesCurrent == ParticipantSeesCurrent /\ HasCurrent(session)
PanelShown == ParticipantSeesCurrent /\ IsRevealed
DeckEnabled == ParticipantSeesCurrent /\ MayVote /\ IsVoting

AllVoted == \A u \in Voters \cap Present(session) :
              u \in DOMAIN session.votes /\ session.votes[u].value # Blank

CanEdit == SeesCurrent /\ Leading

(* The queue in the sidebar and the index each of its rows stands for.     *)
VotingIndices == Select([i \in DOMAIN session.queue |-> i],
                        {i \in DOMAIN session.queue : InVotingQueue(session.queue[i])})
SidebarQueue ==
  IF Leading THEN session.queue
             ELSE Select(session.queue, {c \in ToSet(session.queue) : InVotingQueue(c)})

\* Slip: a row of a filtered queue stands for its own number.
RowNumber(row) == row

ResolveIdx(row) == IF Leading THEN row ELSE VotingIndices[row]
IsActiveAt(row) == ResolveIdx(row) = session.idx

-----------------------------------------------------------------------------
(* React: what is no longer shown loses its state, what appears starts     *)
(* afresh, and the draft follows the card while its editor is closed.      *)
\* Slip: the draft is set when the card appears and never again.
DraftOnMount ==
  draft' = IF ~SeesCurrent' THEN None ELSE IF SeesCurrent THEN draft ELSE Current(session').text

FollowDraft ==
  draft' = IF ~SeesCurrent' THEN None ELSE IF editing' THEN draft ELSE Current(session').text

StaysOpen == SeesCurrent /\ SeesCurrent'

(* open and sub are what the editors, busy and pending what the panel would *)
(* keep, were they to stay on the page.                                    *)
Redraw(open, sub, busy, pending) ==
  /\ editing' = (open /\ StaysOpen)
  /\ editingSub' = IF StaysOpen THEN sub ELSE None
  /\ FollowDraft
  /\ applying' = (busy /\ PanelShown /\ PanelShown')
  /\ writes' = IF PanelShown' THEN pending ELSE {[w EXCEPT !.mine = FALSE] : w \in pending}

Rerender == Redraw(editing, editingSub, applying, writes) /\ UNCHANGED <<edits, messages>>

ClickStart == Leading /\ session.status = "waiting" /\ StartVoting /\ Rerender

\* "Clear votes" above the board, "Revote" in the panel.
ClickRevote == ((BoardShown /\ Leading /\ IsVoting) \/ PanelShown) /\ Revote /\ Rerender

ClickReveal ==
  /\ BoardShown /\ Leading /\ IsVoting
  /\ session.isDemo \/ AllVoted
  /\ RevealVotes /\ Rerender

ClickVote(v) == DeckEnabled /\ CastVote(v) /\ Rerender

\* A row of the queue, or an arrow of the carousel.
ClickRow(row) == BoardShown /\ Leading /\ SelectCurrentCard(ResolveIdx(row)) /\ Rerender

ClickPersona(u) ==
  /\ session.isDemo /\ u \in {DemoLeader, DemoVoter}
  /\ SetDemoPersona(u) /\ Rerender

-----------------------------------------------------------------------------
(* The active card.  Operations on a card count as edits.                  *)
Counted == edits < MaxEdits /\ edits' = edits + 1 /\ UNCHANGED messages
Typed == UNCHANGED <<sessionVars, applying, writes, edits, messages>>

ClickExclude(i) ==
  /\ BoardShown /\ Leading
  /\ ToggleCardExcludedFromVoting(session.queue[i].id)
  /\ Redraw(editing, editingSub, applying, writes) /\ Counted

EditDescription ==
  /\ CanEdit /\ ~editing
  /\ editing' = TRUE
  /\ UNCHANGED <<draft, editingSub>> /\ Typed

TypeDescription(t) ==
  /\ CanEdit /\ editing
  /\ draft' = t
  /\ UNCHANGED <<editing, editingSub>> /\ Typed

SaveDescription ==
  /\ CanEdit /\ editing
  /\ SetDescription(draft)
  /\ Redraw(FALSE, editingSub, applying, writes) /\ Counted

CancelDescriptionEdit ==
  /\ CanEdit /\ editing
  /\ editing' = FALSE /\ draft' = Current(session).text
  /\ UNCHANGED editingSub /\ Typed

ClickAddSubtask(id, t) ==
  /\ CanEdit /\ id \notin DOMAIN Current(session).subtasks
  /\ AddSubtask(id, t)
  /\ Redraw(editing, editingSub, applying, writes) /\ Counted

StartEditSubtask(id) ==
  /\ CanEdit /\ id \in DOMAIN Current(session).subtasks
  /\ editingSub' = id
  /\ UNCHANGED <<editing, draft>> /\ Typed

\* The editor of a title is shown in the row of its subtask.
SubtaskEditorShown == CanEdit /\ editingSub \in DOMAIN Current(session).subtasks

SaveSubtaskEdit(t) ==
  /\ SubtaskEditorShown
  /\ UpdateSubtask(editingSub, t)
  /\ Redraw(editing, None, applying, writes) /\ Counted

CancelSubtaskEdit ==
  /\ SubtaskEditorShown
  /\ editingSub' = None
  /\ UNCHANGED <<editing, draft>> /\ Typed

\* The buttons of a row give way to the editor of its title, the box stays.
ClickSubtask(id) ==
  /\ CanEdit /\ id \in DOMAIN Current(session).subtasks
  /\ ToggleSubtask(id) \/ (editingSub # id /\ RemoveSubtask(id))
  /\ Redraw(editing, editingSub, applying, writes) /\ Counted

EditCard ==
  \/ EditDescription \/ SaveDescription \/ CancelDescriptionEdit \/ CancelSubtaskEdit
  \/ \E t \in Texts : TypeDescription(t) \/ SaveSubtaskEdit(t)
                      \/ \E id \in SubtaskIds : ClickAddSubtask(id, t)
  \/ \E id \in SubtaskIds : StartEditSubtask(id) \/ ClickSubtask(id)

-----------------------------------------------------------------------------
(* The consensus panel, which everybody who sees the card has.             *)
CanApply == PanelShown /\ ~applying

\* Without "Sync with Businessmap" the value is applied at once.
ApplyUnsynced(v) == CanApply /\ ApplyConsensusAndNext(v) /\ Rerender

(* syncConsensusToBusinessmap: a number or an option's label, or None where *)
(* there is no mapping, no number or no such option.  Several means are all *)
(* "mean" here, which is no option.                                        *)
Mean == IF \E u \in Voters \cap DOMAIN session.votes :
             session.votes[u].value # Blank /\ NumberOf[session.votes[u].value] # None
        THEN "mean" ELSE None

Written(v) ==
  LET number == IF Source = "raw_average" THEN Mean ELSE NumberOf[v]
      label == IF Source = "raw_average" /\ Mean # None THEN Mean ELSE v
  IN CASE Target \in {"native_size", "number"} -> number
       [] Target = "dropdown" -> IF label \in Options THEN label ELSE None
       [] OTHER -> None

(* With it, the card that is current now is written first.  What cannot be *)
(* written, or no card, ends it with an error instead and changes nothing.  *)
ApplySynced(v) ==
  /\ CanApply /\ HasCurrent(session) /\ Written(v) # None /\ Cardinality(writes) < MaxWrites
  /\ applying' = TRUE
  /\ writes' = writes \cup {[card |-> Current(session).id, value |-> v, mine |-> TRUE]}
  /\ UNCHANGED <<sessionVars, editing, draft, editingSub, edits, messages>>

(* Businessmap took the estimate: it is applied to what is current by then, *)
(* whether or not the panel that asked is still shown.  The click's closure *)
(* holds the kind of session there was, which here is the kind there is.    *)
WriteAnswered(w) ==
  /\ w \in writes
  /\ ApplyConsensusAndNext(w.value)
  /\ Redraw(editing, editingSub, applying /\ ~w.mine, writes \ {w})
  /\ UNCHANGED <<edits, messages>>

WriteFails(w) ==
  /\ w \in writes
  /\ writes' = writes \ {w}
  /\ applying' = (applying /\ ~w.mine)
  /\ UNCHANGED <<sessionVars, editing, draft, editingSub, edits, messages>>

Panel ==
  \/ \E v \in Values : ApplyUnsynced(v) \/ ApplySynced(v)
  \/ \E w \in writes : WriteAnswered(w) \/ WriteFails(w)

-----------------------------------------------------------------------------
(* A message of the server.                                                *)
Message ==
  \/ \E room \in RoomStates : RoomState(room)
  \/ \E i \in DOMAIN session.queue : \E t \in Texts :
       CardUpdated(session.queue[i].id, t, None, None)
  \/ \E i \in DOMAIN session.queue :
       \/ CardUpdated(session.queue[i].id, None, None, TRUE)
       \/ \E v \in Values : ConsensusApplied(session.queue[i].id, v)
  \/ \E u \in Users : ParticipantJoined(u) \/ ParticipantLeft(u) \/ VoteReceived(u)
  \/ RoundStarted
  \/ \E v \in Values : VotesRevealed([u \in DOMAIN session.votes |->
                                        [value |-> v, revealed |-> TRUE]])

ServerMessage ==
  /\ messages < MaxMessages
  /\ Message
  /\ Redraw(editing, editingSub, applying, writes)
  /\ messages' = messages + 1
  /\ UNCHANGED edits

(* A room is first shown as GET /rooms describes it, where nothing is       *)
(* filtered for a page that does not say whose it is, or as the socket does. *)
Init ==
  /\ \/ session = BuildMockSession(DemoQueue) /\ me = DemoLeader
     \/ /\ me \in Users
        /\ session \in {MapRoomState(room) : room \in RoomStates}
                        \cup {MapRoomState(SessionForUser(room)) : room \in RoomStates}
  /\ selectedVote = None
  /\ editing = FALSE /\ editingSub = None /\ applying = FALSE /\ writes = {}
  /\ draft = IF SeesCurrent THEN Current(session).text ELSE None
  /\ edits = 0 /\ messages = 0

Play ==
  \/ ClickStart \/ ClickRevote \/ ClickReveal
  \/ \E v \in Values : ClickVote(v)
  \/ \E row \in DOMAIN SidebarQueue : ClickRow(row)
  \/ \E i \in DOMAIN session.queue : ClickExclude(i)
  \/ \E u \in Users : ClickPersona(u)

Next == Play \/ EditCard \/ Panel \/ ServerMessage

Spec == Init /\ [][Next]_vars
-----------------------------------------------------------------------------
(* Every variable of the board has its type; the demo has a current card,  *)
(* what is edited or applied is on the page, and a draft is kept for just   *)
(* as long as its card is shown.                                           *)
TypeOK ==
  /\ session \in RoomSession /\ session.revealed \in BOOLEAN
  /\ session.isDemo => HasCurrent(session)
  /\ me \in Users /\ selectedVote \in Values \cup {None}
  /\ draft \in IF SeesCurrent THEN Texts ELSE {None}
  /\ writes \subseteq [card : CardIds, value : Values, mine : BOOLEAN]
  /\ editing \in BOOLEAN /\ applying \in BOOLEAN
  /\ editing => SeesCurrent
  /\ applying => PanelShown /\ \E w \in writes : w.mine

(* In the demo the highlighted card of the deck is the vote that counts:   *)
(* no round, card or persona begins with the highlight of another          *)
(* (PlanningContext.tsx:237-240, 333-347, 381-436).                        *)
HighlightIsMyVote ==
  session.isDemo /\ selectedVote # None =>
    me \in DOMAIN session.votes /\ session.votes[me].value = selectedVote

(* A closed editor will open with the text of the card that is shown then, *)
(* whoever changed the text or the card meanwhile (ActiveCard.tsx:90-94).  *)
DraftFollowsCard == SeesCurrent /\ ~editing => draft = Current(session).text

(* What the page keeps beside the session agrees with it.                  *)
LocalStateFollows == HighlightIsMyVote /\ DraftFollowsCard

(* Deferred cards are left out of the rows twice, from the cards and from  *)
(* the indices: the row that is marked shows the current card, and there   *)
(* is one unless the current card is hidden, because the page filters it    *)
(* out or because the server, which does too, says there is none           *)
(* (TaskQueue.tsx:280-291, VotingBoard.tsx:84-91, state.go:23-36).         *)
ActiveRowIsCurrent ==
  LET active == {row \in DOMAIN SidebarQueue : IsActiveAt(row)}
  IN IF HasCurrent(session) /\ (Leading \/ InVotingQueue(Current(session)))
     THEN \E row \in active : active = {row} /\ SidebarQueue[row] = Current(session)
     ELSE active = {}

(* What is shared is the server's: no click in a live room changes phase,  *)
(* card, reveal or estimates, or the ballots of others, until the server   *)
(* has said so (PlanningContext.tsx:322-436).                              *)
Shared(s) ==
  <<s.status, s.idx, s.revealed, [i \in DOMAIN s.queue |-> s.queue[i].estimated],
    [u \in DOMAIN s.votes \ {me} |-> s.votes[u]]>>

LiveChangesComeFromServer ==
  [][~session.isDemo /\ Shared(session') # Shared(session) => messages' # messages]_vars

(* The demo plays by the rules of a room: its session implements           *)
(* RoundLifecycle, with nothing in between when an estimate is applied     *)
(* late.  A finished demo is like a waiting one: a click on a row starts    *)
(* it anew, where the server's room would stay closed.                     *)
Lifecycle == INSTANCE RoundLifecycle WITH
  phase <- IF session.isDemo /\ session.status # "closed" THEN session.status ELSE "waiting",
  voted <- IF session.isDemo /\ session.status # "closed"
           THEN {u \in DOMAIN session.votes : session.votes[u].value # Blank} ELSE {},
  shown <- session.isDemo /\ session.status # "closed" /\ session.revealed

ImplementsLifecycle == Lifecycle!Spec

(* ADR-008: "Facilitator confirms or edits final value".  A live page      *)
(* writes an estimate to Businessmap only for a facilitator.               *)
OnlyFacilitatorsEstimate ==
  [][~session.isDemo /\ ~applying /\ applying' => Leading]_vars
=============================================================================
