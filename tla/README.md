# bm-planning: TLA+ models and proofs

bm-planning is a planning-poker application: a Go server keeps rooms in memory
and serves them over REST and WebSocket, and a React page shows a room, votes in
it and writes estimates to Businessmap. This directory holds TLA+ modules that
model the program, TLC configurations that check them on small instances, and
theorems proved with TLAPS for instances of any size.

Paths below are relative to the repository; `services/`, `providers/`,
`models/` and `api/` are under `server/internal/`.

## 1. Inventory

| Component | Code | State | Operations | Modelled in |
|---|---|---|---|---|
| Session state machine | `services/room_service.go`, `voting_service.go`, `models/` | participants, queue, card index, status, current round | create, join, leave, queue and card updates, delete, start, vote, reveal, revote, apply, skip, next | `VotingRoom`, `RoundLifecycle` |
| Filtered view | `api/handlers/state.go` | none | `sessionForUser` | `VotingRoom` |
| Consensus calculation | `services/consensus.go`, `web/src/utils/consensus.ts` | none | average, median, nearest card, on the server and on the page | `Consensus` |
| Room store | `providers/room_store.go` | map of entries, connection count and expiry per entry, two levels of mutexes | get, create, delete, count up, count down, sweep | `RoomStore` |
| Broadcast hub | `providers/hub.go` | three bounded channels, clients per room | register, unregister, broadcast, event loop | `LiveRoom`, `Topic` |
| WebSocket handler | `api/handlers/websocket.go` | per connection: user id; per user: online flag | upgrade, join, act, clean up | `LiveRoom` (part) |
| REST handlers | `api/handlers/rooms.go`, `rounds.go`, `router.go` | none | one service call each; none broadcasts | `VotingRoom`, `LiveRoom` (part) |
| Runtime metrics | `api/handlers/runtime_metrics.go`, `metrics/` | gauges | set from counts | no |
| Rate limiter | `api/middlewares/ratelimit.go` | limiter per address | allow, evict idle ones | no |
| Middlewares, configuration, static files, docs, health | `api/middlewares/`, `config/`, `static/`, `cmd/` | none that changes | | no |
| Live client | `web/src/services/websocket.ts`, `hooks/useRoomWebSocket.ts`, `context/ConnectionContext.tsx` | closures with socket, timers and attempts; one shared status | connect, send, reconnect, give up, close | `RoomSocket` |
| Room page | `web/src/pages/RoomPage.tsx` | identity joined as, loading, error, requests on their way | load, join, leave, walk between pages | `RoomPage` |
| Planning state of the page | `web/src/context/PlanningContext.tsx` | session (demo or copy), own user id, highlighted card | a dozen local operations, ten messages of the server | `PlanningSession` |
| Voting board, consensus panel | `web/src/components/voting/`, `consensus/`, `waiting/` | editor, draft, applying, estimates under way | vote, reveal, edit a card, write to Businessmap and apply | `PlanningBoard`, `Consensus` (part) |
| Set-up pages, Businessmap proxy | `web/src/components/setup/`, `context/`, `services/businessmapApi.ts`, `cardSearch.ts` | credentials, catalog, queries, loads and searches under way | load, reload, search, select, create a room | `Workspace`, `CardSetup` (part) |
| Other components, mocks, theme, HTML | rest of `web/src/` | | rendering and fixed data | no |

How they interact:

* A REST handler calls one operation of a service. A WebSocket connection has a
  goroutine of its own that calls the services for each message, posts what
  happened on the hub's `broadcast` channel and then writes a filtered
  `room_state` to each client itself, past the hub.
* Every operation of a service gets the room's entry from the store, under the
  store's mutex, and then works under the entry's. `DeleteRoom` goes back to the
  store's mutex with the entry's in hand.
* The store's cleanup loop sweeps the rooms whose grace period has passed since
  their last connection ended. Connections are counted by the WebSocket handler.
* The hub is one goroutine; it takes from its three channels with `select` and
  writes to the clients of a room one after another.
* The page copies the session. In a live room most operations send a message and
  change nothing until the server's message comes back; ballots and the contents
  of cards are changed at once. A demo session is changed by the same operations,
  without a server. The page computes the consensus again from the ballots.
* The room page loads and joins over REST and then opens the socket; the set-up
  page asks Businessmap for boards, fields and cards and makes a room of them.

What is hard about it, and what makes each part correct:

* *Session*: a dozen operations set the status and the round by separate
  assignments and may come in any order from anyone; a call that holds the
  entry may outlive the room. Correct when status and round agree, a new round
  keeps nothing of an old one, a reveal is complete, the index stays in the queue,
  who may not vote never counts, and a room nobody leads stays as it is.
* *Store*: two locks taken in two orders, a decision taken under one and carried
  out under the other, a clock. Correct when counts are the connections that
  are live, expiry times belong to emptied rooms, and only those are swept.
* *Hub and connections*: bounded channels with waiting senders, a select that
  picks at random, hang-ups at any moment, users with two connections. Correct
  when every client receives the broadcasts in order without gaps, presence
  follows the connections, no live client is lost and no goroutine stays behind.
* *Consensus*: a random map order, ties, even and odd counts, unparseable cards,
  two implementations in two languages.
* *Socket of the page*: closures whose events outlive them, all writing one
  status. Correct when there is one socket, what was closed stays closed, the
  status has a ground and a page does not stay between connected and not.
* *Room page*: answers that arrive after the user has walked away. Correct when
  the page never waits for nothing, a joined page shows the room, and each
  participant the tab made is the one shown, on its way or known to be lost.
* *Board*: local state beside the session (highlight, draft, editors, a queue
  without deferred cards) that the server, a click or a late answer changes under
  it. Correct when it follows, and when a live page changes nothing by itself.
* *Set-up*: searches and loads answered for settings and queries that have changed
  since. Correct when a selection is what is listed, a query that says it is
  searching is, and a room gets exactly what was ticked.

`PROJECT.json` lists these hazards one by one with their line and the
properties that cover them; those without a property say why.

## 2. Modules

```
RoundLifecycle  <-- implemented by --  VotingRoom     <-- VotingRoomProofs, MCVotingRoom
                                       RoomStore      <-- RoomStoreProofs, MCRoomStore
Topic           <-- implemented by --  LiveRoom       <-- LiveRoomProofs, MCLiveRoom
                                       Consensus      <-- ConsensusProofs, MCConsensus
RoomSocket      <-- extended and
                    implemented by --  RoomPage       <-- RoomPageProofs, MCRoomPage
PlanningSession <-- extended by -----  PlanningBoard  <-- PlanningBoardProofs, MCPlanningBoard
RoundLifecycle  <-- implemented by --  PlanningBoard (in the demo)
Workspace       <-- extended and
                    implemented by --  CardSetup      <-- CardSetupProofs, MCCardSetup
Lists           <-- extended by -----  VotingRoom, Consensus, PlanningBoard, CardSetup
Lists           <-- ListLemmas         <-- the proofs of these four
```

`Lists` has what the code's loops and array methods do to a list: `Select` (a
filter), `Distinct`, `Concatenated` and `Total`, each a fold. `ListLemmas` proves what
they compute.

Each of `VotingRoom`, `RoomStore` and `LiveRoom` looks at the same server at
another grain: `VotingRoom` has the whole session and one atomic action per
operation, `RoomStore` has the locks and nothing of the session, `LiveRoom` has
the channels, goroutines and the presence flags. What one leaves out it replaces
by the nondeterminism that the other justifies, as said below. `RoomPage`,
`PlanningBoard` and `CardSetup` divide one browser tab in the same way: its
connection to a room, the room it plays in, and the page where a room is made.

### VotingRoom, RoundLifecycle

One room's session: the variables are the fields of `models.PlanningSession`
(participants, queue, current index, status, current round) with the ids handed
out and whether the room is in the store. One action per operation of
`RoomService` and `VotingService` of the same name; its guard is the conjunction
of the code's early returns. A call answered with an error changes nothing and is
no action.

*Atomicity.* An operation gets the entry from the store and locks it
afterwards, and works on the session under that lock alone, so it is one step.
But a call may be between the two when the room leaves the store, and then works
on a session that is gone: `inflight` counts such calls (at most `MaxInFlight`)
and `Access` lets an action use one up. `RoomStore` models the locks themselves.

*Data.* A ballot is a label and whether it is revealed; times are whether they
are set; the statistics of a reveal are represented by the votes that went into
them (`Statistics`), since which votes count is what the session decides; what is
computed from them is in `Consensus`. Titles, descriptions and subtasks are left
out, and so are the ids of cards beyond equality. Queues are drawn from
`Queues`, a set of any queues, which may contain a card twice.

`RoundLifecycle` states what people in the room can rely on, with three
variables: the phase, whose ballots are in and whether they were shown.
`ImplementsLifecycle` maps a room that has left the store to a closed one.

### RoomStore

The store's `sync.RWMutex` and each entry's mutex, connection goroutines (look
up, then count up; look up, then count down), closers (`DeleteRoom`: look up,
lock the entry, delete from the store) and the cleanup loop (read the clock, take
the store's mutex, then for each entry lock, inspect, unlock, drop). A critical
section that takes no other lock is one step; the two that do, the sweep and
`DeleteRoom`, are split where the second lock is taken. `sweep.busy` is a history
variable for `SweepSparesBusyRooms`: the rooms that had a connection when the
sweep read the clock. Time is counted in ticks up to `MaxTime`.

### LiveRoom, Topic

One room's live side. Each connection's goroutine (`Live`, `handleMessage`,
`handleJoin` and the deferred clean-up) has a `pc`; each call of a service, each
send on a channel and each write of the hub is a step. `register`, `unregister`
and `broadcast` are sequences no longer than their capacity; a sender waits while
its channel is full. `HubTake` takes a broadcast together with the snapshot of
the clients, and `HubSend` then writes to them in any order (Go ranges over a
map); until all are written the hub takes nothing else. A write to a client that
has gone has no effect. `RoomEnds` stands for a close or an expiry: from then on
every service call returns an error and the handler takes that path.

Abstracted: of the session only the participants and their online flags are
kept; all messages with an effect other than a join are `Act`; broadcasts are
numbered instead of carrying a payload; `room_state`, `pong` and `error`, which
are written to one client and change nothing on the server, are no steps. The
connection counts of the store are in `RoomStore`. `HangUp` may happen at any
moment, also before the goroutine has registered the client. `usedBy` is a
history variable: the connections that were ever joined as a user.

`Topic` is what the hub promises about broadcasts: one numbered log of which each
subscriber receives a contiguous piece. It says nothing of where a piece begins
or ends; that a client the hub knows goes on receiving is `KnownClientsHear`.

### Consensus

`CalculateConsensus` and `suggestConsensus`, over votes, deck and algorithm that
people change by voting and leaving. Numbers are integers: a label's number is
given in halves, results in parts of that (`Scale`, a number that is even and
that every number of voters divides), so that averages and medians are whole.
The code uses floating point; comparisons come out the same on decks of integers
and halves, since two cards are equally near only from a number that floating
point represents. The order in which Go ranges over the map is modelled by
computing the results of all orders (`GoResults`, `WebResults` are sets). How
the two languages parse a label is a constant of the model, so that "the two
read it alike" can be a hypothesis.

### RoomSocket, RoomPage

`RoomSocket` is `connectRoomWebSocket` with the hook that runs it. Every run of
the hook's effect makes a closure (`Enable`) and its clean-up closes it
(`Disable`); a closure keeps its handlers, so that its close event (`OnClose`) may
come after its successor has opened. A closure that can do nothing any more is
used again, so that runs are not bounded. The effect runs again while it is enabled
when the display name it joins with has changed; `Reopen` is its clean-up and that
run together. A missing pong has no effect in the code and is no step.

`RoomPage` adds the page around it. The tab is away, in the demo or in the room;
the demo and the room are one component under two ids, so that `Switch` keeps
`joined` and `me` where `Unmount` forgets them. React runs the effects of a
changed render together: each action ends in `Effects`, which leaves for the old
user (`LeaveEffect`) and opens or closes the socket (`SocketEffect`). The answer to
a second join of one page may bring another name, with which the socket is opened
again (`RejoinEffects`). A REST join is
sent, served and answered in three steps; its answer may be lost or be of no use
(`JoinFails`), and `joinReq[u].mine` says whether the component that sent it is
still there. `strays` is a history variable: the participants nobody will take out,
because the answer came too late, was lost, or the leave was. The participant
that the WebSocket's own join makes is the server's affair (`LiveRoom`), and
`members` has those of the REST joins.

### PlanningSession, PlanningBoard

`PlanningSession` has the operations of `PlanningContext` and its handling of each
message of the server (`Receive`). `InMode` is what the context does throughout: in
the demo the session changes, in a live room a message is sent (`SendLive`), of
which the page does not learn whether it went out. Statistics are left out.

`PlanningBoard` has what is offered to whom, the editors of the active card, the
sidebar's rows with the indices they stand for, and the consensus panel. State
that React keeps in a component goes when the component does: `Redraw`, the last
conjunct of each action, closes editors and forgets that an estimate is being
written when what holds it is no longer on the page, and lets the draft follow the
card (`FollowDraft`). An estimate goes to Businessmap first (`ApplySynced`); its
answer applies it to whatever card is current by then (`WriteAnswered`), whether
or not the panel is still there. The messages of the server come in any order
and with any content of `RoomStates`, of which the module assumes only the type
(`QueueAssumption`); of the phase, the ballots, the current card or the order in
which the server sends them it assumes nothing.

`RoomStates` is what the room is on the server. What a reader is sent of it is
`SessionForUser`: a facilitator gets it whole, anyone else the queue without its
deferred cards and, when the current card is among these, no index (`state.go:23-35`,
-1 there and 0 here, where indices begin with one). The page takes both as they
come, and filters once more what it shows. So a participant's page may have no
current card in two ways: it hides the one it has, as after `CardUpdated` and before
the `room_state` that follows, or it was sent none. The card itself, its editors and
the draft need a current card (`SeesCurrent`; without one `draft` is `None`); the
panel and the deck are shown to who leads without one too (`PanelShown`,
`DeckEnabled`).

### Workspace, CardSetup

`Workspace` has the settings that make an account and the catalog read with it.
The effect on the account gives up its previous load, the refresh button's load is
never given up (`Uncancelled`). `CardSetup` adds queries, searches, selection and
the room's creation; a search carries what it was asked with and is shown in the
query as it is by then (`ShowResults`). A card has the words and tags that match
it instead of strings. Columns stand for lanes too, and since the loads of columns
are left out any column may be chosen (`ChooseColumn`): what the model does not say
is which columns are on offer.

`OpenSetup` is the page opened again, or the tab reloaded, which ends its requests. A
room creation that was under way outlives the page otherwise: `abandoned` counts
those, and the answer of one takes the tab to its room wherever the user is by
then (`LateRoom`), the set-up page with other queries included.

## 3. Runs

Run one with `tlc -config X.cfg M`. Runs that end in a violation each check one
sentence of a document or comment that the code does not keep; their
counterexamples are described in section 5.

| Run | Instance | Checks |
|---|---|---|
| `MCVotingRoom.cfg` | 3 users, 2 cards, an empty and a two-card queue, one numeric and one other label, 1 late call | type, 6 invariants, 2 action properties, refinement of `RoundLifecycle` |
| `MCVotingRoomHidden.cfg`, `MCVotingRoomEstimate.cfg` | the same | violations |
| `MCRoomStore.cfg` | 2 rooms, 2 connections, 1 closer, grace 1, 4 ticks | type, 2 invariants, 1 action property |
| `MCRoomStoreStuck.cfg` | 1 room, `FairSpec` | violation |
| `MCLiveRoom.cfg` | 2 connections, 2 users, channels of 1, 1 and 2, 3 calls | type, 3 invariants, refinement of `Topic` |
| `MCLiveRoomProgress.cfg` | 2 connections, 1 user, channels of 1, 2 calls, `FairSpec` | 2 liveness properties |
| `MCConsensus.cfg` | 3 people, 5 labels, 3 decks, 3 algorithms | 4 invariants, 1 action property |
| `MCRoomPage.cfg` | 2 closures, 2 joins, 2 attempts, `FairSpec` | type, 4 invariants, 1 liveness property |
| `MCPlanningBoard.cfg` | 2 cards, 3 people, 2 values, 1 subtask, 5 room states; 2 edits, messages and writes | type, 2 invariants, 1 action property, refinement of `RoundLifecycle` |
| `MCPlanningBoardEstimate.cfg` | the same | violation |
| `MCCardSetup.cfg` | 1 subdomain, 2 keys, 2 boards, 3 cards, pages of 2; 2 queries, loads, changes and edits, 1 creation left behind | type, 1 invariant of 4 parts, 1 action property |

What the passing properties say:

* `RoundMatchesStatus`, `OpenRoundIsBlank`, `RevealIsTotal`: whatever the order of
  calls, status and round agree, a round that is open holds nothing of an
  earlier reveal, and after a reveal no ballot of a stored room is hidden, those
  that came late or whose voter has left included.
* `IndexInQueue`, `ViewShowsCurrentCard`: the index survives skips and queue
  replacements, and the index each participant is sent points at the current
  card in the queue that participant sees.
* `OnlyVotersCount`, `FrozenWithoutFacilitator`, `BallotsNeverLost`: a croupier
  never counts; once the facilitator has left nobody can move the room; ballots
  go only all at once and a revealed one does not turn hidden.
* `ExpiryIffEmptied`, `CountIsConnections`, `SweepSparesBusyRooms`: the count
  is the number of live connections, an expiry time is set exactly for rooms that
  emptied, and a sweep spares the rooms that were busy when it began.
* `NobodyLingersOnline`, `SoleConnectionIsOnline`: once all the connections that
  joined as a user are cleaned up the user is offline, and a user with a single
  connection is online throughout. That is what the presence flag does
  guarantee; what it does not is in section 5.
* `LiveClientsAreServed`, `ImplementsTopic`: from registration to unregistration a
  client is in the hub's map or on its way there, and what it receives is in
  order and without gaps.
* `HangupsAreCleaned`, `KnownClientsHear`: no goroutine waits for ever on the
  hub's channels, in its clean-up above all; a client the hub knows hears each
  broadcast that waits, unless it hangs up.
* `OrderIrrelevant`, `MedianIsCentral`, `SuggestionIsNearest`,
  `SuggestionMonotone`, `PageAgrees`: the result does not depend on the order
  of a map, the median has as many votes on either side, the suggestion is the
  first of the nearest numeric cards, raising a vote never lowers it, and
  the page computes the server's result wherever both parse the labels in play
  alike and the algorithm is not `manual`.
* `OneSocket`, `StatusHasGround`, `PageSettles`: however often a page enters and
  leaves, what it let go of never reconnects and no timer runs twice; "connecting"
  has a socket or a timer behind it; and a page in a room becomes connected,
  leaves, or has used up its attempts and says so. The status is not exact, and
  could not be claimed to be: see section 5.
* `PageShowsWhatIs`, `MembersAccountedFor`: no walk through the page leaves it
  loading without a request or joined without the room's session, and of the
  participants a tab made none is forgotten except in the ways `strays` names.
* `LocalStateFollows`, `ActiveRowIsCurrent`: in the demo the highlighted card is the
  vote that counts, the draft of a closed editor is the card's text, and the marked
  row of a queue without its deferred cards is the current card, no row where that
  card is hidden from its reader by the page or by the server.
* `LiveChangesComeFromServer`: no click in a live room moves the phase, the card, the
  reveal, an estimate or another's ballot before the server says so, a late answer
  of Businessmap included.
* `ImplementsLifecycle` (of `PlanningBoard`): the demo obeys the rules that
  `VotingRoom` is shown to obey, so that what is learnt in one is true in the other.
* `SetupShowsWhatIs`: `SelectionIsShown`, `SearchingIsReal`, `LoadingIsReal` and
  `EffectLoadsFollowAccount`: only listed cards are ticked, one search runs for each query
  that says so, a catalog that says it is loading is, and of the effect's loads the
  current account's alone goes on. `RoomGetsTheSelection`: the queue sent is
  what is ticked in all queries, each card once. Deadlock is checked here.

### Bounds, and why they are enough

* *Users*: three are a facilitator, a voter and one who leaves or comes late; ids
  are never reused, so a fourth behaves as the third. The limit of participants
  (3) is reached. `UserSymmetry` is sound: no property names a user.
* *Cards and queues*: two cards make a current and another one, the empty queue
  is the boundary of `Skip` and `Next`; the proofs cover every queue.
* *MaxInFlight* = 1: the entry's mutex serialises the calls that outlived the
  room; one shows what such a call can do. The proofs cover any number.
* *Clock*: with a grace of one tick, four ticks let a room empty, expire and be
  swept, and another empty while a sweep goes on. The check of `EmptiedRoomsGo`
  looks at rooms whose expiry lies before `MaxTime`, because the clock stops there.
* *Connections*: two are an old and a new connection of one user, or two users.
  A connection that ended does not come back: a reconnection is a new one.
* *Channels*: 32, 32 and 128 in the code; 1 and 2 (or 1) here, so that senders do
  wait. A bound on channels that is never reached would prove nothing.
* *MaxCalls*: messages with an effect; three are two joins and an action, or a
  join, a leave and a join. Liveness is checked with two. `MaxPosts` in
  `KnownClientsHear` is the number of broadcasts these and the clean-ups can make.
* *Votes*: three are the fewest with a median in the middle and an average that
  is no multiple of a half, two the fewest with a median between.

* *Closures*: two are an old one that is still closing and its successor; a third
  would be made only when one of these has finished. *Attempts*: with 2 instead of 20
  the limit is reached and counting starts again after a success.
* *Joins*: two, so that the first one's answer comes when the second is under way;
  the proofs cover any number of closures, attempts and joins.
* *Board*: the bounds on edits, messages and writes count those only; votes, rounds
  and walks through the queue are unbounded. Two messages are one that takes what is
  edited away and one that brings it back; two writes are one whose panel has gone
  and one that is shown. The five room states are a round on the first card, none
  on the second, a reveal on the second with the first deferred, one on the first
  deferred itself, of which a participant is sent no index, and a room without cards.
* *Set-up*: the second account lacks the first's first board; the first has one card
  beyond a page, and a card of the second board that two queries may both find.
  Two loads are one of the effect and one by hand, two queries one that is searched
  and one that is removed. *MaxAbandoned* = 1: one creation left behind may answer
  while the next page has none, or one of its own.

Deadlock is checked in `MCCardSetup.cfg` and `MCRoomPage.cfg` and not
in the others: a room that was closed takes no calls, every connection may have
ended, a board may have used up its messages and edits, and the store can
really lock up (a finding).

### Fairness

`RoomStore!FairSpec`: the clock goes on, and weak fairness for the sweep, for
each connection's calls once begun and for each closer. Go runs every goroutine
that can run, and its mutexes are handed to a waiter after at most a millisecond.
Nobody has to connect, to hang up or to close anything.

`LiveRoom!FairSpec`: strong fairness for each handler goroutine and for each of
the hub's three choices, weak fairness for its writes. Go serves the goroutines
that wait to send on a channel in the order they came, so a sender is not passed
over for ever though the channel fills again; `select` picks at random among the
channels that are ready, so none is starved for ever (with probability one). That
a write ends is an assumption about the clients, not something the code
ensures: it sets no write deadline, and one client that stops reading holds up
the broadcasts of all rooms until TCP gives up. No fairness is assumed of
clients: they need not join, act or hang up.

`RoomSocket!SocketFairness`: the browser ends every connection attempt, one way or
the other, and every close, and its timers fire. Nothing says that an attempt ever
succeeds, that a connection breaks, or that the user goes anywhere. That a
browser reports the loss of an open connection at all is left open too.

## 4. Proofs

Each `*Proofs` module is checked with `tlapm`:

```
VotingRoomProofs  RoomStoreProofs  LiveRoomProofs  ConsensusProofs
RoomPageProofs  PlanningBoardProofs  CardSetupProofs  ListLemmas
```

The theorems hold for all values of the constants that satisfy the named
assumptions of the modules: for `VotingRoom`, labels distinct from nil, queues
that are sequences of cards, bounds that are naturals; for `RoomStore`, nil is no
room and no time, connections are finitely many and no closers, the cleaner is no
closer, grace period and clock are naturals; for `LiveRoom`, channels that hold
at least one message and nil is no user; for `RoomPage`, the "none" values are no
user and no closure; for `PlanningBoard`, the two personas of the demo are a
leader who does not vote and a voter who does not lead, the blank ballot is no card
of the deck, the demo has cards, and rooms are typed; for `Workspace`, boards
and fields are given for every account, and for `CardSetup` boards and cards are
lists, and pages and creations left behind are numbered; for `Consensus`, voters are finitely many, `Scale` is
even, and how each side reads a label is a function to integers or nil.

`VotingRoomProofs`:

* `TypeCorrect`; the type invariant is inductive by itself.
* `RoundAndStatusAgree`, `NothingRevealedWhileVoting`, `RevealCoversEveryBallot`
  follow from one inductive invariant, `PhaseInv`: the three need one another (a
  ballot is marked by the status, the reveal time belongs to the round) and also
  `StoredIsOpen`, that a stored room is not closed, for after a deletion a late
  call may cast a ballot whose mark disagrees with its round's.
* `IndexStaysInQueue`: from the index invariant itself, with the typing.
* `CroupierNeverCounts`: needs that ids are never handed out twice, so that
  someone who joins is not someone whose old ballot still lies in the round.
* `FrozenRoom`, `BallotsStay`: action properties from the same invariants.
* `ViewFollowsFacilitator`: the queue that `sessionForUser` filters and the index it
  maps, by `SelectPositions`: a kept card is where as many kept cards precede it.
* `SessionImplementsLifecycle`: initial states map to initial states, every
  action to the step of `RoundLifecycle` it stands for or to a stutter.

`RoomStoreProofs`:

* `TypeCorrect`.
* `OnlyEmptiedRoomsExpire`, by `ExpiryInv`: what was ever counted up has been
  recorded (`CountedUp`), an entry never used has count and expiry unset.
* `CountCorrect`: the count as a cardinality; one counting lemma per way in
  which the set of a room's connections can change by one.
* `BusyRoomsAreSpared`, by `SweepInv`: the sweep holds the store's mutex while
  it scans, its time is not in the future, and a room that was busy then has an
  expiry that lies beyond that time, if any, until the sweep has ended.

* `OneCycleOnly`, by `LockInv` (who holds a mutex across a step, and where): unless
  the store is locked up as in `EmptiedRoomsGo`, whoever holds a mutex, or waits for
  the holder of the store's, can go on. `LockupIsForGood`: once it is locked up it
  stays so, and nobody finds, makes or drops a room. That needs two closers to be
  stated right: a second one may still lock an entry, and then waits too.

`LiveRoomProofs`:

* `TypeCorrect`.
* `NobodyStaysOnline`, `SoleConnectionCounts`, by `PresenceInv` with `HistoryInv`:
  the flag of a user is as the last of the user's connections to be joined or
  cleaned up left it, which settles it when there is one connection or none.
* `NoClientIsLost`, by `ServedInv` with `UnregisterInv`: a client is in the map, in
  the register channel, or its own unregistration has been sent; nobody sends
  another's.
* `HubPublishesTopic`: the refinement of `Topic`, by `DeliveryInv`. Broadcasts are
  numbered consecutively through the channel (`NumberedInv`), the hub writes the
  one it took last (`WritesInv`), a client in the map that is not still to be
  written to has all of them up to it since it came (`UpToDate`), and one that has
  left receives no more (`OpenInv`).

`RoomPageProofs`:

* `SocketInvariant`, then `PageImplementsSocket`: the page's steps are the socket's
  or leave it alone, so that `PageKeepsOneSocket` and `PageStatusHasGround` follow
  from the socket's invariant.
* `PageTypeCorrect`; `PageShows`, whose strengthening `LoadInv` relates the spinner
  to the request it waits for; `MembersAreAccountedFor`: each participant made is
  the one shown, one whose answer is on its way, or a stray.

`PlanningBoardProofs`:

* `TypeCorrect`, by `BoardInv`, which adds that the draft follows the card. That there
  is a current card is kept for the demo only. Every operation of a page keeps the
  session typed and, in a live room, what is shared (`Operated`); what a reader is
  sent of any room is a session again (`SentType`) and every message leaves a live
  one (`Received`); and what is drawn after either fits it (`RedrawFits`).
* `LiveFollowsServer`: the action property, from `Operated`.
* `LocalStateIsCurrent`: for the highlight one must know that while the demo is
  voted on its voter has a ballot (`DemoVoterHasBallot`): a vote with nowhere to go
  would be highlighted and count for nothing.
* `MarkedRowIsCurrent`: the row of the filtered queue that `resolveIdx` marks is the
  current card's, through the positions of the kept cards (`RowsStand`); a current
  card that is hidden, or not sent, has none.
* `DemoImplementsLifecycle`: `InDemo` says which six kinds of step the demo has, and
  each maps to a step of `RoundLifecycle` or to a stutter.

`CardSetupProofs`:

* `WorkspaceTypeCorrect`, `CatalogFollowsAccount`; `SetupImplementsWorkspace` carries
  them over to the set-up page.
* `TypeCorrect`, with what the searches, the ticked cards and their merger are lists
  of; `RoomIsTheSelection`: from `DistinctMembers` and `ConcatenatedMembers`.
* `SetupIsHonest`, by `QueryInv`: ids are not used twice and not beyond the number
  of queries made, so that a new query is not sent the answers of one removed; a
  query that is searching has one search under way, and none otherwise (`Honest`).

`ConsensusProofs`:

* `OrderDoesNotShow`: every list of integers can be sorted (`CanBeSorted`: each
  element goes where as many are before it), and two sorted lists of the same votes
  are one (`ArrangedOnce`), so there is one result however the map is ranged over.
* `MedianSplitsTheVotes`: voters and places of the sorted list correspond one to one
  (`PlacesHeld`), and so do their numbers on each side of the median; the cases are
  an odd number, an even number with one vote in the middle, and with two.
* `SuggestionIsClosest`: an invariant of the loop over the deck (`NearestFound`).
* `PageAndServerAgree`: of a sorted list and a deck there is one suggestion
  (`SuggestedOnce`), so two calculations that read the labels alike have the same.
* `RaisingNeverLowers`: the k smallest votes do not fall when one is raised
  (`SortedBelow`), so neither the average nor the median does (`MeansMonotone`), and
  the closest card does not either, ties included (`ClosestMonotone`).

`ListLemmas`: what a fold computes for every list. The library's induction theorems
take a predicate as a parameter, which the provers cannot instantiate. These proofs
are by the smallest counterexample instead (`SmallestNumber`, `CountUp`,
`SmallestSet`): the set of the numbers of turns after which a loop's invariant fails
is empty. `FoldSolution` shows that the equation by which `FoldLeft` is
defined has a solution, `FoldRuns` that its value is what the loop has after the last
turn; each operator of `Lists`, and the loop of `Nearest`, is an instance.

Model-checked only: liveness (`HangupsAreCleaned`, `KnownClientsHear`,
`PageSettles`), which the prover does not handle under fairness. Every other
property of a run that passes is also a theorem. The properties of the runs that
expect a violation are false; `OneCycleOnly` and `LockupIsForGood` say what is true
of the lock-up that the run `emptied_rooms` finds.

## 5. Where code and documents part

Shown by a run:

* *Votes are not hidden* (`VotesHiddenUntilReveal`). ADR-008 has votes hidden
  until the reveal. `sessionForUser` filters the queue but hands on the current
  round as it is, with every value, to whoever fetches or is sent the state.
* *The estimate goes to another card* (`EstimateOnVotedCard`). `UpdateQueue`
  resets the index and keeps the round; `ApplyConsensus` then writes the estimate
  on the card that is current now, as its comment says, and the handler announces it
  for the round's card (`websocket.go:236-240`), to which every page gives it.
* *The store locks up* (`EmptiedRoomsGo`). `DeleteRoom` takes the entry's mutex
  and then the store's, the sweep takes them the other way round. Each waits for
  the other; from then on no room is found, created or swept.
* *Anyone estimates* (`OnlyFacilitatorsEstimate`). ADR-008 has the facilitator
  confirm the final value. The panel is on the page of everyone who sees the card
  (`VotingBoard.tsx:179-181`) and its button asks for no role
  (`ConsensusPanel.tsx:204`); the server would refuse the message that follows, but
  by then the page has written the estimate to Businessmap.

Read from the code while modelling it, without a run of their own:

* A room nobody ever connected to has no expiry time and stays for good.
* The statistics of a round are those of the reveal: a ballot that comes later, or
  the leave of a voter, does not change them.
* A busy room may be dropped: the sweep inspects an entry under its lock and
  deletes it after releasing it; `IncrementConnection`, which looked the entry up
  before, may count a client up in between.
* A connected user may be marked offline: one who comes back before the server
  notices the end of the old connection is marked offline by that one's clean-up,
  and nothing marks the user online again. A second join on one connection puts
  another user in the first one's place, whom nothing marks offline any more.
* The hub may keep a client that has gone: registration and unregistration travel
  through two channels, and `select` may take the second first. Its writes have no
  deadline, so that one client that does not read holds up the broadcasts of all.
* Server and page compute different results from votes for a half, which is a number
  to the page only, and under the `manual` algorithm, which the page ignores.
* The page and the server do not agree on the wire: the page puts its fields beside
  `type` where the server reads `payload`, `next` and `revote` have no handler, the
  REST join answers with a user alone where the page wants the room's state and
  throws without it (`RoomPage.tsx:113-116`), and ballots are a map on one side and
  an array on the other. Each side is therefore modelled from what it accepts.
* *Socket*: the close event of a socket that was let go sets "disconnected" though
  its successor is open (`websocket.ts:118`), and while a reconnection timer runs
  after a drop the status still says connected.
* *Room page*: a tab that walks from a room to the demo leaves the room on the
  server and keeps `joinedIdentity`; back in the room it neither loads nor joins over
  REST again, and goes on under the user id that has left (`RoomPage.tsx:139, 175-187`).
* *Demo*: a finished demo starts anew by a click on a row.
* *Panel*: an estimate is applied to the card that is current when Businessmap
  answers, not the one it was written to; with the arithmetic mean as source the
  mean is written, whatever final value was confirmed (`ConsensusPanel.tsx:95-130`).
* *Set-up*: credentials that become incomplete while boards are loaded leave
  `loadingBoards` on; a reload by hand may answer with the boards of an older
  account; a query keeps a board, and the settings a field, that the account of now
  does not have; the results of earlier filters stay on the list after the board
  is changed, the text and tag filters look at the first hundred cards only; columns
  that arrive late may be those of another board, and a board without any is asked
  for again without end (`CardQuerySection.tsx:124`).

## 6. Not modelled, and why

* Metrics, middlewares, configuration, static files, health and documentation
  handlers: no state the rest of the program reads.
* The rate limiter: the bucket is a library's; what is the repository's own is a
  map with eviction of idle entries, by which time a bucket is full again.
* Payloads and JSON. A vote of `NaN` or `Inf` parses as a number and makes
  `json.Marshal` fail, so that the reveal is not broadcast: outside the models.
* The hub's and the store's `Stop`: no code but the tests calls them.
* Process restarts: rooms live in memory alone and nothing survives.
* The order of `room_state` snapshots relative to broadcasts, and the data race
  on `wsClient.userID` that decides who is sent one. `PlanningBoard` takes the
  messages of the server in any order, which covers what the page makes of them,
  but nothing is claimed about which snapshot is the latest.
* A tab whose board changes between the demo and a room: the kind of the session is
  fixed at the start of a behaviour. An estimate that was sent from the demo's panel and
  is answered after a room was entered is therefore outside; the code has captured the
  session's kind in the click's closure (`ConsensusPanel.tsx:211-216`,
  `PlanningContext.tsx:365-402`) and would apply it to the room's copy as in the demo.
* The switches that hide descriptions and subtasks, which are taken to be on; the
  migration of old storage; clearing the credentials and testing the connection;
  the loads of columns and lanes. None of these changes what the modelled parts
  read, except the columns, whose choice is left open.
* Links between the other components, mocks and themes: rendering.

## 7. Plan

Done: the server's session, store, hub and consensus; the page's socket, room page,
board and set-up; every safety property of the runs proved.

Left, in this order:

1. A composition of `LiveRoom` and `PlanningBoard` over one connection with
   snapshots, drops and reconnections, once both sides speak one wire format.
   Wanted: a page that stays connected ends up showing the server's session, and no
   state older than one it has shown.
2. The loads of columns and lanes in `CardSetup`, which would state the endless
   reload as a liveness property that fails.
3. The rate limiter's map under eviction.
