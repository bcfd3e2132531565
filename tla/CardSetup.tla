----------------------------- MODULE CardSetup -----------------------------
(***************************************************************************)
(* From Businessmap's cards to a room (components/setup/                   *)
(* CardQuerySection.tsx, services/businessmapApi.ts, services/              *)
(* cardSearch.ts): queries, one per board, each with its filters, results  *)
(* and selection, and the queue made of all of them.  A search answers     *)
(* while its query is being changed or removed, or another account is      *)
(* typed in.  Columns stand for lanes as well, which are read, chosen and  *)
(* sent with them.                                                         *)
(***************************************************************************)
EXTENDS Workspace, Lists

CONSTANTS
  CardsOf,      \* the active cards an account sees, as Businessmap lists them
  Columns,      \* of all the boards
  Words, Tags,  \* what may be typed as a text and as a tag, besides nothing
  PerPage,      \* how many cards Businessmap sends: 100
  MaxQueries,   \* bound on queries made
  MaxChanges,   \* bound on changes of the settings
  MaxEdits,     \* bound on edits of queries
  MaxAbandoned  \* bound on creations of pages that have gone

ASSUME ListsAssumption == /\ \A a \in Accounts : /\ BoardsOf[a] \in Seq(ToSet(BoardsOf[a]))
                                               /\ CardsOf[a] \in Seq(ToSet(CardsOf[a]))
                          /\ PerPage \in Nat
ASSUME AbandonedAssumption == MaxAbandoned \in Nat

VARIABLES
  queries,   \* the page's queries
  made,      \* how many there have been
  searches,  \* searches under way
  creating,  \* the queue on its way to the server, <<>> if none
  created,   \* the tab has gone to a room that was made
  abandoned, \* how many creations of pages that have gone are under way
  changes, edits

roomVars == <<creating, created, abandoned>>
queryVars == <<queries, made, searches, roomVars>>
budget == <<changes, edits>>
vars == <<workspaceVars, queryVars, budget>>

-----------------------------------------------------------------------------
(* services/cardSearch.ts: a text matches a card's title or custom id, a   *)
(* list of tags any of them.  A card's words and tags are those that match. *)
MatchesTextSearch(card, text) == text = None \/ text \in card.words
MatchesTagFilter(card, tags) == tags = {} \/ tags \cap card.tags # {}

(* The filters are put to the first page of the board's cards only.        *)
Listed(s, c) == c.board = s.board /\ (s.column = None \/ s.column = c.column)
Passes(s, c) == MatchesTextSearch(c, s.text) /\ MatchesTagFilter(c, s.tags)

SearchCards(s) ==
  LET cards == CardsOf[s.account]
      listed == Select(cards, {c \in ToSet(cards) : Listed(s, c)})
      page == SubSeq(listed, 1, IF PerPage < Len(listed) THEN PerPage ELSE Len(listed))
      found == Select(page, {c \in ToSet(cards) : Passes(s, c)})
  IN [i \in DOMAIN found |-> found[i].id]

EmptyQuery(id, board) ==
  [id |-> id, board |-> board, column |-> None, text |-> None, tags |-> {},
   results |-> <<>>, selected |-> {}, searched |-> FALSE, loading |-> FALSE, error |-> FALSE]

FirstBoard(boards) == IF boards = <<>> THEN None ELSE Head(boards)

UpdateQuery(id, change(_)) ==
  queries' = [i \in DOMAIN queries |->
                IF queries[i].id = id THEN change(queries[i]) ELSE queries[i]]

QueryIds == {queries[i].id : i \in DOMAIN queries}

OnPage == ~created
Kept == UNCHANGED <<made, searches, roomVars>>
QueriesOnly == UNCHANGED workspaceVars
Uncounted == UNCHANGED budget
Counted == edits < MaxEdits /\ edits' = edits + 1 /\ UNCHANGED changes

-----------------------------------------------------------------------------
(* The catalog and the settings.  Boards that arrive are chosen where none *)
(* is; a query keeps a board that another account does not have.           *)
DefaultBoard(q) == [q EXCEPT !.board = IF @ = None THEN FirstBoard(catalog'.boards) ELSE @]

BoardsArrive ==
  /\ \E l \in loads : LoadAnswered(l)
  /\ queries' = [i \in DOMAIN queries |-> DefaultBoard(queries[i])]
  /\ Kept /\ Uncounted

BoardsFail == (\E l \in loads : LoadFails(l)) /\ UNCHANGED <<queryVars, budget>>

ChangeSettings ==
  /\ changes < MaxChanges /\ changes' = changes + 1 /\ UNCHANGED edits
  /\ Settings
  /\ UNCHANGED queries /\ Kept

Refresh == ReloadCatalog /\ UNCHANGED <<queryVars, budget>>

-----------------------------------------------------------------------------
(* The form of a query.                                                    *)
Selectable == ~catalog.loading /\ catalog.boards # <<>>

HandleBoardChange(id, board) ==
  /\ Selectable
  /\ UpdateQuery(id, LAMBDA q : [q EXCEPT !.board = board, !.column = None])
  /\ QueriesOnly /\ Kept

(* The columns offered are those of the last answer.  An answer for a board *)
(* chosen before may come late, and a failure counts as a board without     *)
(* any: which columns are there is left open.                              *)
ChooseColumn(id, column) ==
  /\ UpdateQuery(id, LAMBDA q : [q EXCEPT !.column = column])
  /\ QueriesOnly /\ Kept

TypeFilters(id, text, tags) ==
  /\ UpdateQuery(id, LAMBDA q : [q EXCEPT !.text = text, !.tags = tags])
  /\ QueriesOnly /\ Kept

AddQuery ==
  /\ made < MaxQueries
  /\ made' = made + 1
  /\ queries' = Append(queries, EmptyQuery(made', FirstBoard(catalog.boards)))
  /\ QueriesOnly /\ UNCHANGED <<searches, roomVars>>

\* Slip: the last query can go as well.
RemoveAnyQuery(id) ==
  /\ \E i \in DOMAIN queries : queries[i].id = id /\ queries' = RemoveAt(queries, i)
  /\ QueriesOnly /\ Kept

\* The last query stays; an id is that of one query.
RemoveQuery(id) ==
  /\ Len(queries) > 1
  /\ \E i \in DOMAIN queries : queries[i].id = id /\ queries' = RemoveAt(queries, i)
  /\ QueriesOnly /\ Kept

\* What is in the list can be ticked, whatever has been typed since.
ToggleCard(id, card) ==
  /\ UpdateQuery(id, LAMBDA q : [q EXCEPT !.selected =
                       IF card \in @ THEN @ \ {card} ELSE @ \cup {card}])
  /\ QueriesOnly /\ Kept

ToggleAll(id) ==
  /\ UpdateQuery(id, LAMBDA q : [q EXCEPT !.selected =
                       IF Cardinality(@) = Len(q.results) THEN {} ELSE ToSet(q.results)])
  /\ QueriesOnly /\ Kept

EditQuery(q) ==
  \/ \E board \in ToSet(catalog.boards) : HandleBoardChange(q.id, board)
  \/ \E column \in Columns \cup {None} : ChooseColumn(q.id, column)
  \/ \E text \in Words \cup {None}, tags \in SUBSET Tags : TypeFilters(q.id, text, tags)
  \/ RemoveQuery(q.id)
  \/ q.searched /\ q.results # <<>> /\ ((\E c \in ToSet(q.results) : ToggleCard(q.id, c))
                                         \/ ToggleAll(q.id))

-----------------------------------------------------------------------------
(* Searches, answered for the account, board and filters of the time they   *)
(* were asked with, to the query as it is by then.                         *)
Asked(q) == [query |-> q.id, account |-> Account, board |-> q.board, column |-> q.column,
             text |-> q.text, tags |-> q.tags]

\* Slip: the button stays enabled.
SearchingUnmarked(q) == [q EXCEPT !.error = FALSE]

Searching(q) == [q EXCEPT !.loading = TRUE, !.error = FALSE]

HandleSearch(q) ==
  /\ ~q.loading /\ Account # None /\ q.board # None
  /\ searches' = searches \cup {Asked(q)}
  /\ UpdateQuery(q.id, Searching)
  /\ QueriesOnly /\ UNCHANGED <<made, roomVars>>

\* Slip: what was ticked stays ticked.
ResultsOnly(q, found) ==
  [q EXCEPT !.results = found, !.searched = TRUE, !.loading = FALSE]

ShowResults(q, found) ==
  [q EXCEPT !.results = found, !.selected = ToSet(found), !.searched = TRUE, !.loading = FALSE]

SearchAnswered(s) ==
  /\ searches' = searches \ {s}
  /\ UpdateQuery(s.query, LAMBDA q : ShowResults(q, SearchCards(s)))
  /\ QueriesOnly /\ UNCHANGED <<made, roomVars>>

SearchFails(s) ==
  /\ searches' = searches \ {s}
  /\ UpdateQuery(s.query, LAMBDA q : [ShowResults(q, <<>>) EXCEPT !.error = TRUE])
  /\ QueriesOnly /\ UNCHANGED <<made, roomVars>>

-----------------------------------------------------------------------------
(* The room.                                                               *)
Ticked(q) == Select(q.results, q.selected)

\* A room made of these, a slip, has a card twice that two queries found.
Unmerged == Concatenated([i \in DOMAIN queries |-> Ticked(queries[i])])

SelectedCards == Distinct(Unmerged)

CanCreate == SelectedCards # <<>> /\ IsEstimationTargetReady

HandleCreateRoom ==
  /\ CanCreate /\ creating = <<>>
  /\ creating' = SelectedCards
  /\ UNCHANGED <<workspaceVars, queries, made, searches, created, abandoned>>

\* The page goes to the room's.
CreateAnswered ==
  /\ creating # <<>>
  /\ created' = TRUE /\ creating' = <<>>
  /\ UNCHANGED <<workspaceVars, queries, made, searches, abandoned>>

CreateFails ==
  /\ creating # <<>>
  /\ creating' = <<>>
  /\ UNCHANGED <<workspaceVars, queries, made, searches, created, abandoned>>

\* With the creation that a page which goes now leaves behind.
Abandoned == abandoned + (IF creating = <<>> THEN 0 ELSE 1)

(* A page that has gone answers all the same: wherever the user is by then, *)
(* set-up with other queries or another room, the tab goes to the room.    *)
LateRoom ==
  /\ abandoned > 0
  /\ created' = TRUE /\ creating' = <<>> /\ abandoned' = Abandoned - 1
  /\ UNCHANGED <<workspaceVars, queries, made, searches, budget>>

LateFailure ==
  /\ abandoned > 0 /\ abandoned' = abandoned - 1
  /\ UNCHANGED <<workspaceVars, queries, made, searches, creating, created, budget>>

FreshQueries == <<EmptyQuery(1, None)>>

(* Set-up opened again, or the tab reloaded, which ends its requests: the   *)
(* settings are as they were, the rest is new.                             *)
OpenSetup ==
  /\ Reopen
  /\ queries' = FreshQueries /\ made' = 1
  /\ searches' = {} /\ creating' = <<>> /\ created' = FALSE
  /\ abandoned' \in {Abandoned, 0} /\ abandoned' <= MaxAbandoned
  /\ edits' = 0 /\ UNCHANGED changes

Init ==
  /\ WorkspaceInit
  /\ queries = FreshQueries /\ made = 1
  /\ searches = {} /\ creating = <<>> /\ created = FALSE /\ abandoned = 0
  /\ changes = 0 /\ edits = 0

Page ==
  \/ ChangeSettings \/ Refresh \/ BoardsArrive \/ BoardsFail
  \/ Counted /\ \E q \in ToSet(queries) : EditQuery(q)
  \/ Uncounted /\ ( \/ AddQuery \/ HandleCreateRoom \/ CreateAnswered \/ CreateFails
                    \/ \E q \in ToSet(queries) : HandleSearch(q)
                    \/ \E s \in searches : SearchAnswered(s) \/ SearchFails(s) )

Next == (OnPage /\ Page) \/ LateRoom \/ LateFailure \/ OpenSetup

Spec == Init /\ [][Next]_vars
-----------------------------------------------------------------------------
AllBoards == UNION {ToSet(BoardsOf[a]) : a \in Accounts}
AllCards == UNION {{c.id : c \in ToSet(CardsOf[a])} : a \in Accounts}

(* Settings, catalog and queries have their types; a query has an id of    *)
(* its own and there is always one.                                        *)
TypeOK ==
  /\ WorkspaceTypeOK
  /\ created \in BOOLEAN /\ abandoned \in 0..MaxAbandoned
  /\ queries # <<>> /\ Cardinality(QueryIds) = Len(queries) /\ QueryIds \subseteq 1..made
  /\ \A q \in ToSet(queries) :
       /\ q.board \in AllBoards \cup {None}
       /\ q.column \in Columns \cup {None}
       /\ ToSet(q.results) \subseteq AllCards
       /\ {q.searched, q.loading, q.error} \subseteq BOOLEAN
  /\ \A s \in searches : s.query \in 1..made /\ s.account \in Accounts /\ s.board \in AllBoards

(* Only cards in the list are selected: an answer that takes a card away   *)
(* takes its tick away, or the room would get, and the counter show, cards *)
(* nobody sees (CardQuerySection.tsx:158-172).                             *)
SelectionIsShown ==
  \A q \in ToSet(queries) : q.selected \subseteq ToSet(q.results)

(* A query that says it is searching has one search under way, and only    *)
(* then, whatever became of its board, its account or its neighbours: its  *)
(* button comes back and no two answers race (CardQuerySection.tsx:143-173). *)
SearchingIsReal ==
  \A q \in ToSet(queries) :
    Cardinality({s \in searches : s.query = q.id}) = IF q.loading THEN 1 ELSE 0

(* What the page shows is what goes on.                                    *)
SetupShowsWhatIs ==
  SelectionIsShown /\ SearchingIsReal /\ LoadingIsReal /\ EffectLoadsFollowAccount

(* A room is made of the cards ticked in any of the queries, each of them  *)
(* once, however many queries found it (CardQuerySection.tsx:211-230).     *)
RoomGetsTheSelection ==
  [][creating = <<>> /\ creating' # <<>> =>
       /\ ToSet(creating') = UNION {q.selected : q \in ToSet(queries)}
       /\ IsInjective(creating')]_vars
=============================================================================
