---------------------------- MODULE CardSetupProofs ----------------------------
(***************************************************************************)
(* What the set-up page guarantees for any accounts, boards and cards, any  *)
(* number of queries and any number of searches under way.                 *)
(***************************************************************************)
EXTENDS CardSetup, ListLemmas

-----------------------------------------------------------------------------
(* The workspace: settings and catalog, for any account and any number of   *)
(* loads under way                                                         *)

\* The account is one of the accounts, or none.
LEMMA AccountType ==
  ASSUME WorkspaceTypeOK
  PROVE  Account \in Accounts \cup {None}
<1>1. workspace.subdomain \in Subdomains \cup {None} /\ apiKey \in ApiKeys \cup {None}
  BY DEF WorkspaceTypeOK, Workspaces
<1>2. QED
  BY <1>1 DEF Account, Accounts

\* Either way to begin a load begins one of an account.
LEMMA LoadType ==
  \A a \in Accounts : EffectLoad(a) \in Load /\ [account |-> a, effect |-> FALSE] \in Load
BY DEF EffectLoad, Load

LEMMA FirstLoadsType == Account \in Accounts \cup {None} => FirstLoads \subseteq Load
BY LoadType DEF FirstLoads

LEMMA InitType == WorkspaceInit => WorkspaceTypeOK
<1> SUFFICES ASSUME WorkspaceInit PROVE WorkspaceTypeOK
  OBVIOUS
<1>1. workspace \in Workspaces /\ apiKey \in ApiKeys \cup {None}
  BY CatalogAssumption DEF WorkspaceInit
<1>2. Account \in Accounts \cup {None}
  BY <1>1 DEF Account, Accounts, Workspaces
<1>3. FirstLoads \subseteq Load
  BY <1>2, FirstLoadsType
<1>4. QED
  BY <1>1, <1>3 DEF WorkspaceInit, WorkspaceTypeOK, FreshCatalog

\* A change of the settings keeps the types, and what follows it does.
LEMMA FollowType ==
  ASSUME WorkspaceTypeOK, FollowAccount, Account' \in Accounts \cup {None}
  PROVE  /\ catalog' \in [boards : {BoardsOf[a] : a \in Accounts} \cup {<<>>},
                          fields : {FieldsOf[a] : a \in Accounts} \cup {{}},
                          loading : BOOLEAN, error : BOOLEAN]
         /\ loads' \subseteq Load
<1>1. EffectLoad(Account') \in Load \/ Account' = None
  BY LoadType
<1>2. loads' \subseteq Load
  BY <1>1 DEF FollowAccount, WorkspaceTypeOK, Uncancelled
<1>3. QED
  BY <1>2 DEF FollowAccount, WorkspaceTypeOK, Emptied, Started

LEMMA SettingsType == WorkspaceTypeOK /\ Settings => WorkspaceTypeOK'
<1> SUFFICES ASSUME WorkspaceTypeOK, Settings PROVE WorkspaceTypeOK'
  OBVIOUS
<1>1. ASSUME NEW text \in Subdomains \cup {None}, TypeSubdomain(text) PROVE WorkspaceTypeOK'
  <2>1. workspace' \in Workspaces /\ apiKey' \in ApiKeys \cup {None}
    BY <1>1 DEF TypeSubdomain, WorkspaceTypeOK, Workspaces
  <2>2. Account' \in Accounts \cup {None}
    BY <2>1 DEF Account, Accounts, Workspaces
  <2>3. QED
    BY <1>1, <2>1, <2>2, FollowType DEF TypeSubdomain, WorkspaceTypeOK
<1>2. ASSUME NEW text \in ApiKeys \cup {None}, TypeApiKey(text) PROVE WorkspaceTypeOK'
  <2>1. workspace' \in Workspaces /\ apiKey' \in ApiKeys \cup {None}
    BY <1>2 DEF TypeApiKey, WorkspaceTypeOK
  <2>2. Account' \in Accounts \cup {None}
    BY <2>1 DEF Account, Accounts, Workspaces
  <2>3. QED
    BY <1>2, <2>1, <2>2, FollowType DEF TypeApiKey, WorkspaceTypeOK
<1>3. ASSUME NEW field \in catalog.fields, ChooseField(field) PROVE WorkspaceTypeOK'
  <2>1. field \in UNION {FieldsOf[a] : a \in Accounts}
    BY DEF WorkspaceTypeOK
  <2>2. workspace' \in Workspaces
    BY <1>3, <2>1 DEF ChooseField, WorkspaceTypeOK, Workspaces
  <2>3. QED
    BY <1>3, <2>2 DEF ChooseField, WorkspaceTypeOK
<1>4. ASSUME NEW kind \in {"custom_field", "native_size"}, ChooseKind(kind) PROVE WorkspaceTypeOK'
  BY <1>4 DEF ChooseKind, WorkspaceTypeOK, Workspaces
<1>5. QED
  BY <1>1, <1>2, <1>3, <1>4 DEF Settings

LEMMA TypeStep == WorkspaceTypeOK /\ [WorkspaceNext]_workspaceVars => WorkspaceTypeOK'
<1> SUFFICES ASSUME WorkspaceTypeOK, [WorkspaceNext]_workspaceVars PROVE WorkspaceTypeOK'
  OBVIOUS
<1>1. CASE Settings
  BY <1>1, SettingsType
<1>2. CASE ReloadCatalog
  <2>1. Account \in Accounts
    BY <1>2, AccountType DEF ReloadCatalog
  <2>2. loads' \subseteq Load
    BY <1>2, <2>1, LoadType DEF ReloadCatalog, WorkspaceTypeOK
  <2>3. QED
    BY <1>2, <2>2 DEF ReloadCatalog, WorkspaceTypeOK, Started
<1>3. CASE Reopen
  <2>1. FirstLoads \subseteq Load
    BY AccountType, FirstLoadsType
  <2>2. QED
    BY <1>3, <2>1 DEF Reopen, WorkspaceTypeOK, FreshCatalog
<1>4. ASSUME NEW l \in loads, LoadAnswered(l) \/ LoadFails(l) PROVE WorkspaceTypeOK'
  <2>1. l.account \in Accounts
    BY DEF WorkspaceTypeOK, Load
  <2>2. QED
    BY <1>4, <2>1 DEF LoadAnswered, LoadFails, WorkspaceTypeOK
<1>5. CASE UNCHANGED workspaceVars
  BY <1>5 DEF workspaceVars, WorkspaceTypeOK
<1>6. QED
  BY <1>1, <1>2, <1>3, <1>4, <1>5 DEF WorkspaceNext

\* Settings, catalog and loads keep their types.
THEOREM WorkspaceTypeCorrect == WorkspaceSpec => []WorkspaceTypeOK
<1>1. QED
  BY InitType, TypeStep, PTL DEF WorkspaceSpec

-----------------------------------------------------------------------------
(* The catalog and the account *)

CatalogInv == EffectLoadsFollowAccount /\ LoadingIsReal

\* Where estimates go is no part of the account.
LEMMA SameAccount ==
  ASSUME WorkspaceTypeOK, UNCHANGED apiKey,
         \/ UNCHANGED workspace
         \/ \E field : workspace' = [workspace EXCEPT !.field = field]
         \/ \E kind : workspace' = [workspace EXCEPT !.kind = kind]
  PROVE  Account' = Account
<1>1. workspace'.subdomain = workspace.subdomain
  BY DEF WorkspaceTypeOK, Workspaces
<1>2. QED
  BY <1>1 DEF Account

\* A page that opens begins the load of its account, if it has one.
LEMMA FirstLoadsFollow ==
  (\A l \in FirstLoads : l.account = Account) /\ (Account # None => FirstLoads # {})
<1>1. EffectLoad(Account).account = Account
  BY DEF EffectLoad
<1>2. QED
  BY <1>1 DEF FirstLoads

LEMMA FollowInv == CatalogInv /\ WorkspaceTypeOK /\ FollowAccount => CatalogInv'
<1> SUFFICES ASSUME CatalogInv, WorkspaceTypeOK, FollowAccount PROVE CatalogInv'
  OBVIOUS
<1>1. CASE Account' = Account
  BY <1>1 DEF FollowAccount, CatalogInv, EffectLoadsFollowAccount, LoadingIsReal
<1>2. CASE Account' # Account /\ Account' = None
  BY <1>2 DEF FollowAccount, CatalogInv, EffectLoadsFollowAccount, LoadingIsReal, Uncancelled
<1>3. CASE Account' # Account /\ Account' # None
  <2>1. loads' = Uncancelled \cup {EffectLoad(Account')}
    BY <1>3 DEF FollowAccount
  <2>2. loads' # {} /\ EffectLoad(Account').account = Account'
    BY <2>1 DEF EffectLoad
  <2>3. \A l \in loads' : l.effect => l.account = Account'
    BY <2>1, <2>2 DEF Uncancelled
  <2>4. QED
    BY <2>2, <2>3 DEF CatalogInv, EffectLoadsFollowAccount, LoadingIsReal
<1>4. QED
  BY <1>1, <1>2, <1>3

LEMMA CatalogStep ==
  CatalogInv /\ WorkspaceTypeOK /\ [WorkspaceNext]_workspaceVars => CatalogInv'
<1> SUFFICES ASSUME CatalogInv, WorkspaceTypeOK, [WorkspaceNext]_workspaceVars PROVE CatalogInv'
  OBVIOUS
<1>1. CASE Settings
  <2>1. CASE FollowAccount
    BY <2>1, FollowInv
  <2>2. CASE (\E field \in catalog.fields : ChooseField(field))
             \/ \E kind \in {"custom_field", "native_size"} : ChooseKind(kind)
    <3>1. UNCHANGED <<catalog, loads>> /\ Account' = Account
      BY <2>2, SameAccount DEF ChooseField, ChooseKind
    <3>2. QED
      BY <3>1 DEF CatalogInv, EffectLoadsFollowAccount, LoadingIsReal
  <2>3. QED
    BY <1>1, <2>1, <2>2 DEF Settings, TypeSubdomain, TypeApiKey
<1>2. CASE ReloadCatalog
  <2>1. /\ Account' = Account
        /\ loads' = loads \cup {[account |-> Account, effect |-> FALSE]}
    BY <1>2, SameAccount DEF ReloadCatalog
  <2>2. ~[account |-> Account, effect |-> FALSE].effect
    OBVIOUS
  <2>3. \A l \in loads' : l.effect => l.account = Account'
    BY <2>1, <2>2 DEF CatalogInv, EffectLoadsFollowAccount
  <2>4. loads' # {}
    BY <2>1
  <2>5. QED
    BY <2>3, <2>4 DEF CatalogInv, EffectLoadsFollowAccount, LoadingIsReal
<1>3. CASE Reopen
  <2>1. /\ Account' = Account /\ catalog' = FreshCatalog /\ loads' = FirstLoads
    BY <1>3, SameAccount DEF Reopen
  <2>2. QED
    BY <2>1, FirstLoadsFollow DEF CatalogInv, EffectLoadsFollowAccount, LoadingIsReal
<1>4. ASSUME NEW l \in loads, LoadAnswered(l) \/ LoadFails(l) PROVE CatalogInv'
  <2>1. /\ Account' = Account /\ loads' = loads \ {l}
    BY <1>4, SameAccount DEF LoadAnswered, LoadFails
  <2>2. catalog'.loading = FALSE
    BY <1>4 DEF LoadAnswered, LoadFails, WorkspaceTypeOK
  <2>3. QED
    BY <2>1, <2>2 DEF CatalogInv, EffectLoadsFollowAccount, LoadingIsReal
<1>5. CASE UNCHANGED workspaceVars
  <2>1. Account' = Account /\ UNCHANGED <<catalog, loads>>
    BY <1>5, SameAccount DEF workspaceVars
  <2>2. QED
    BY <2>1 DEF CatalogInv, EffectLoadsFollowAccount, LoadingIsReal
<1>6. QED
  BY <1>1, <1>2, <1>3, <1>4, <1>5 DEF WorkspaceNext

\* Whatever is typed while the catalog is read, a catalog that says it is
\* loading is waiting for an answer, and of the loads the effect began only
\* the current account's goes on (context/BusinessmapProxyContext.tsx:118-153).
THEOREM CatalogFollowsAccount == WorkspaceSpec => [](LoadingIsReal /\ EffectLoadsFollowAccount)
<1>1. WorkspaceInit => CatalogInv
  BY FirstLoadsFollow DEF WorkspaceInit, CatalogInv, EffectLoadsFollowAccount, LoadingIsReal
<1>2. CatalogInv => LoadingIsReal /\ EffectLoadsFollowAccount
  BY DEF CatalogInv
<1>3. QED
  BY <1>1, <1>2, CatalogStep, WorkspaceTypeCorrect, PTL DEF WorkspaceSpec

-----------------------------------------------------------------------------
(* The page plays the workspace's rules *)

LEMMA PageIsWorkspace == [Next]_vars => [WorkspaceNext]_workspaceVars
<1> SUFFICES ASSUME [Next]_vars PROVE [WorkspaceNext]_workspaceVars
  OBVIOUS
<1>1. CASE ChangeSettings \/ Refresh \/ BoardsArrive \/ BoardsFail
  BY <1>1 DEF ChangeSettings, Refresh, BoardsArrive, BoardsFail, WorkspaceNext
<1>2. ASSUME NEW q, EditQuery(q) PROVE UNCHANGED workspaceVars
  BY <1>2 DEF EditQuery, HandleBoardChange, ChooseColumn, TypeFilters, RemoveQuery, ToggleCard,
              ToggleAll, QueriesOnly
<1>3. CASE AddQuery \/ HandleCreateRoom \/ CreateAnswered \/ CreateFails
  BY <1>3 DEF AddQuery, HandleCreateRoom, CreateAnswered, CreateFails, QueriesOnly
<1>4. ASSUME NEW q, HandleSearch(q) PROVE UNCHANGED workspaceVars
  BY <1>4 DEF HandleSearch, QueriesOnly
<1>5. ASSUME NEW s, SearchAnswered(s) \/ SearchFails(s) PROVE UNCHANGED workspaceVars
  BY <1>5 DEF SearchAnswered, SearchFails, QueriesOnly
<1>6. CASE OpenSetup
  BY <1>6 DEF OpenSetup, WorkspaceNext
<1>7. CASE LateRoom \/ LateFailure
  BY <1>7 DEF LateRoom, LateFailure
<1>8. CASE UNCHANGED vars
  BY <1>8 DEF vars
<1>9. QED
  BY <1>1, <1>2, <1>3, <1>4, <1>5, <1>6, <1>7, <1>8 DEF Next, Page

(* The settings and the catalog of the page behave as Workspace says: what  *)
(* is proved of it holds of the page (context/BusinessmapProxyContext.tsx). *)
THEOREM SetupImplementsWorkspace == Spec => WorkspaceSpec
<1>1. Init => WorkspaceInit
  BY DEF Init
<1>2. QED
  BY <1>1, PageIsWorkspace, PTL DEF Spec, WorkspaceSpec

-----------------------------------------------------------------------------
(* Queries and searches *)

Places == AllBoards \cup {None}

Search == [query : Nat, account : Accounts, board : AllBoards, column : Columns \cup {None},
           text : Words \cup {None}, tags : SUBSET Tags]

Query == [id : Nat, board : Places, column : Columns \cup {None}, text : Words \cup {None},
          tags : SUBSET Tags, results : Seq(AllCards), selected : SUBSET AllCards,
          searched : BOOLEAN, loading : BOOLEAN, error : BOOLEAN]

\* A query ticks what it shows, and says that it searches while one search of
\* its own is under way.
Honest(q, asked) ==
  /\ q.selected \subseteq ToSet(q.results)
  /\ IF q.loading THEN \E s \in asked : {t \in asked : t.query = q.id} = {s}
                  ELSE {t \in asked : t.query = q.id} = {}

QueryInv ==
  /\ queries \in Seq(Query) /\ 1 \in DOMAIN queries /\ made \in Nat /\ searches \subseteq Search
  /\ \A i \in DOMAIN queries : queries[i].id \in 1..made
  /\ \A i, j \in DOMAIN queries : queries[i].id = queries[j].id => i = j
  /\ \A s \in searches : s.query \in 1..made
  /\ \A i \in DOMAIN queries : Honest(queries[i], searches)

\* The board chosen where none is.
LEMMA BoardsType ==
  ASSUME NEW boards \in {BoardsOf[a] : a \in Accounts} \cup {<<>>}
  PROVE  ToSet(boards) \subseteq AllBoards /\ FirstBoard(boards) \in Places
<1>1. CASE boards = <<>>
  <2>1. ToSet(boards) = {}
    BY <1>1 DEF ToSet
  <2>2. QED
    BY <1>1, <2>1 DEF FirstBoard, Places
<1>2. CASE boards # <<>>
  <2>1. boards \in Seq(ToSet(boards)) /\ ToSet(boards) \subseteq AllBoards
    BY <1>2, ListsAssumption DEF AllBoards
  <2>2. Head(boards) \in ToSet(boards)
    BY <1>2, <2>1, HeadTailProperties
  <2>3. QED
    BY <1>2, <2>1, <2>2 DEF FirstBoard, Places
<1>3. QED
  BY <1>1, <1>2

\* A search finds cards of the account it asked with.
LEMMA SearchCardsType ==
  ASSUME NEW s \in Search
  PROVE  SearchCards(s) \in Seq(AllCards)
<1> DEFINE cards == CardsOf[s.account]
           E == ToSet(cards)
           onBoard == {c \in E : Listed(s, c)}
           listed == Select(cards, onBoard)
           n == IF PerPage < Len(listed) THEN PerPage ELSE Len(listed)
           page == SubSeq(listed, 1, n)
           passing == {c \in E : Passes(s, c)}
           found == Select(page, passing)
<1>1. s.account \in Accounts
  BY DEF Search
<1>2. cards \in Seq(E)
  BY <1>1, ListsAssumption
<1>3. \A c \in E : c.id \in AllCards
  BY <1>1 DEF AllCards
<1>4. SearchCards(s) = [i \in DOMAIN found |-> found[i].id]
  BY DEF SearchCards
<1> HIDE DEF cards, E, onBoard, passing
<1>5. listed \in Seq(E)
  BY <1>2, SelectMembers
<1> HIDE DEF listed
<1>6. page \in Seq(E)
  <2>1. n \in 0..Len(listed) /\ Len(listed) \in Nat
    BY <1>5, ListsAssumption, LenProperties
  <2> HIDE DEF n
  <2>2. QED
    BY <1>5, <2>1, SubSeqProperties
<1> HIDE DEF page
<1>7. found \in Seq(E)
  BY <1>6, SelectMembers
<1> HIDE DEF found
<1>8. [i \in DOMAIN found |-> found[i].id] \in [1..Len(found) -> AllCards] /\ Len(found) \in Nat
  BY <1>3, <1>7
<1>9. QED
  BY <1>4, <1>8, IsASeq

LEMMA QueriesAre ==
  ASSUME QueryInv
  PROVE  /\ queries \in [DOMAIN queries -> Query] /\ DOMAIN queries = 1..Len(queries)
         /\ Len(queries) \in Nat
         /\ ToSet(queries) = {queries[i] : i \in DOMAIN queries}
BY LenProperties DEF QueryInv, ToSet

\* A step about queries that leaves their number, their ids and the searches.
LEMMA ChangedQueries ==
  ASSUME QueryInv, UNCHANGED <<made, searches>>,
         NEW qs, qs \in [DOMAIN queries -> Query], queries' = qs,
         \A i \in DOMAIN queries : /\ qs[i].id = queries[i].id
                                   /\ qs[i].loading = queries[i].loading
                                   /\ qs[i].selected \subseteq ToSet(qs[i].results)
  PROVE  QueryInv'
<1>1. qs \in Seq(Query) /\ DOMAIN qs = DOMAIN queries
  BY QueriesAre, IsASeq
<1>2. \A i \in DOMAIN queries : Honest(qs[i], searches)
  BY DEF QueryInv, Honest
<1>3. QED
  BY <1>1, <1>2 DEF QueryInv

LEMMA EmptyQueryType ==
  ASSUME NEW id \in Nat, NEW board \in Places
  PROVE  /\ EmptyQuery(id, board) \in Query /\ EmptyQuery(id, board).id = id
         /\ \A asked : {t \in asked : t.query = id} = {} => Honest(EmptyQuery(id, board), asked)
<1>1. EmptyQuery(id, board) \in Query
  BY DEF EmptyQuery, Query
<1>2. /\ EmptyQuery(id, board).id = id /\ EmptyQuery(id, board).loading = FALSE
      /\ EmptyQuery(id, board).selected = {}
  BY DEF EmptyQuery
<1>3. QED
  BY <1>1, <1>2 DEF Honest

LEMMA FreshQueriesType ==
  /\ FreshQueries \in Seq(Query) /\ DOMAIN FreshQueries = {1}
  /\ FreshQueries[1].id = 1 /\ Honest(FreshQueries[1], {})
<1> DEFINE q == EmptyQuery(1, None)
<1>1. q \in Query /\ q.id = 1 /\ Honest(q, {})
  BY EmptyQueryType DEF Places
<1>2. FreshQueries = <<q>>
  BY DEF FreshQueries
<1> HIDE DEF q
<1>3. QED
  BY <1>1, <1>2

LEMMA AddFits == ASSUME QueryInv, WorkspaceTypeOK, AddQuery PROVE QueryInv'
<1> DEFINE q == EmptyQuery(made + 1, FirstBoard(catalog.boards))
<1>1. made' = made + 1 /\ queries' = Append(queries, q) /\ UNCHANGED searches
  BY DEF AddQuery
<1>2. FirstBoard(catalog.boards) \in Places
  BY BoardsType DEF WorkspaceTypeOK
<1>3. made \in Nat /\ \A s \in searches : s.query # made + 1
  BY DEF QueryInv
<1>4. q \in Query /\ q.id = made + 1 /\ Honest(q, searches)
  BY <1>2, <1>3, EmptyQueryType
<1> HIDE DEF q
<1>5. /\ queries' \in Seq(Query) /\ DOMAIN queries' = DOMAIN queries \cup {Len(queries) + 1}
      /\ Len(queries) + 1 \notin DOMAIN queries
      /\ \A i \in DOMAIN queries : queries'[i] = queries[i]
      /\ queries'[Len(queries) + 1] = q
  BY <1>1, <1>4, QueriesAre, AppendProperties DEF QueryInv
<1>6. \A i, j \in DOMAIN queries' : queries'[i].id = queries'[j].id => i = j
  BY <1>3, <1>4, <1>5 DEF QueryInv
<1>7. \A i \in DOMAIN queries' : queries'[i].id \in 1..made' /\ Honest(queries'[i], searches')
  BY <1>1, <1>3, <1>4, <1>5 DEF QueryInv
<1>8. QED
  BY <1>1, <1>3, <1>5, <1>6, <1>7 DEF QueryInv

LEMMA RemoveFits == ASSUME QueryInv, NEW id, RemoveQuery(id) PROVE QueryInv'
<1>1. PICK i \in DOMAIN queries : queries' = RemoveAt(queries, i)
  BY DEF RemoveQuery
<1>2. UNCHANGED <<made, searches>>
  BY DEF RemoveQuery, Kept
<1>3. /\ queries \in Seq(Query) /\ Len(queries) \in Nat /\ i \in 1..Len(queries)
      /\ DOMAIN queries = 1..Len(queries)
  BY QueriesAre DEF QueryInv
<1> DEFINE n == Len(queries)
           left == SubSeq(queries, 1, i - 1)
           right == SubSeq(queries, i + 1, n)
<1>4. /\ left \in Seq(Query) /\ Len(left) = i - 1
      /\ \A k \in 1..(i - 1) : left[k] = queries[k]
  BY <1>3, SubSeqProperties
<1>5. /\ right \in Seq(Query) /\ Len(right) = n - i
      /\ \A k \in 1..(n - i) : right[k] = queries[i + k]
  BY <1>3, SubSeqProperties
<1>6. queries' = left \o right
  BY <1>1 DEF RemoveAt
<1> HIDE DEF left, right
<1>7. /\ queries' \in Seq(Query) /\ Len(queries') = n - 1 /\ DOMAIN queries' = 1..(n - 1)
      /\ \A k \in 1..(n - 1) :
           queries'[k] = IF k < i THEN queries[k] ELSE queries[k + 1]
  <2>1. /\ left \o right \in Seq(Query) /\ Len(left \o right) = n - 1
        /\ \A k \in 1..(n - 1) :
             (left \o right)[k] = IF k <= i - 1 THEN left[k] ELSE right[k - (i - 1)]
    <3>1. Len(left \o right) = Len(left) + Len(right) /\ left \o right \in Seq(Query)
      BY <1>4, <1>5, ConcatProperties
    <3>2. Len(left) + Len(right) = n - 1 /\ n \in Nat
      BY <1>3, <1>4, <1>5
    <3>3. \A k \in 1..(Len(left) + Len(right)) :
            (left \o right)[k] = IF k <= Len(left) THEN left[k] ELSE right[k - Len(left)]
      BY <1>4, <1>5, ConcatProperties
    <3>4. QED
      BY <1>4, <3>1, <3>2, <3>3
  <2>2. ASSUME NEW k \in 1..(n - 1)
        PROVE  queries'[k] = IF k < i THEN queries[k] ELSE queries[k + 1]
    <3>1. CASE k < i
      BY <1>3, <1>4, <1>6, <2>1, <3>1
    <3>2. CASE ~(k < i)
      <4>1. k - (i - 1) \in 1..(n - i) /\ i + (k - (i - 1)) = k + 1
        BY <1>3, <3>2
      <4>2. QED
        BY <1>3, <1>5, <1>6, <2>1, <3>2, <4>1
    <3>3. QED
      BY <3>1, <3>2
  <2>3. QED
    BY <1>6, <2>1, <2>2, LenProperties
<1>8. \A k \in DOMAIN queries' : \E j \in DOMAIN queries : queries'[k] = queries[j]
  BY <1>3, <1>7
<1>9. \A k, l \in DOMAIN queries' : queries'[k].id = queries'[l].id => k = l
  <2> SUFFICES ASSUME NEW k \in 1..(n - 1), NEW l \in 1..(n - 1),
                      queries'[k].id = queries'[l].id
               PROVE  k = l
    BY <1>7
  <2> DEFINE At(x) == IF x < i THEN x ELSE x + 1
  <2>1. /\ At(k) \in DOMAIN queries /\ At(l) \in DOMAIN queries
        /\ queries'[k] = queries[At(k)] /\ queries'[l] = queries[At(l)]
    BY <1>3, <1>7
  <2>2. At(k) = At(l)
    BY <2>1 DEF QueryInv
  <2>3. QED
    BY <1>3, <2>2
<1>10. 1 \in DOMAIN queries'
  BY <1>3, <1>7 DEF RemoveQuery
<1>11. QED
  BY <1>2, <1>7, <1>8, <1>9, <1>10 DEF QueryInv

LEMMA EditFitsQuery ==
  ASSUME QueryInv, WorkspaceTypeOK, NEW q \in ToSet(queries), EditQuery(q)
  PROVE  QueryInv'
<1>1. /\ queries \in [DOMAIN queries -> Query] /\ q \in Query
      /\ \A i \in DOMAIN queries : queries[i].selected \subseteq ToSet(queries[i].results)
  BY QueriesAre DEF QueryInv, Honest
<1>2. ASSUME NEW board \in ToSet(catalog.boards), HandleBoardChange(q.id, board)
      PROVE  QueryInv'
  <2> DEFINE qs == [i \in DOMAIN queries |->
                      IF queries[i].id = q.id
                      THEN [queries[i] EXCEPT !.board = board, !.column = None] ELSE queries[i]]
  <2>1. board \in Places
    BY BoardsType DEF WorkspaceTypeOK, Places
  <2>2. /\ qs \in [DOMAIN queries -> Query]
        /\ \A i \in DOMAIN queries :
             /\ qs[i].id = queries[i].id /\ qs[i].loading = queries[i].loading
             /\ qs[i].selected = queries[i].selected /\ qs[i].results = queries[i].results
    BY <1>1, <2>1 DEF Query
  <2>3. queries' = qs /\ UNCHANGED <<made, searches>>
    BY <1>2 DEF HandleBoardChange, UpdateQuery, Kept
  <2> HIDE DEF qs
  <2>4. QED
    BY <1>1, <2>2, <2>3, ChangedQueries
<1>3. ASSUME NEW column \in Columns \cup {None}, ChooseColumn(q.id, column) PROVE QueryInv'
  <2> DEFINE qs == [i \in DOMAIN queries |->
                      IF queries[i].id = q.id THEN [queries[i] EXCEPT !.column = column]
                                              ELSE queries[i]]
  <2>1. /\ qs \in [DOMAIN queries -> Query]
        /\ \A i \in DOMAIN queries :
             /\ qs[i].id = queries[i].id /\ qs[i].loading = queries[i].loading
             /\ qs[i].selected = queries[i].selected /\ qs[i].results = queries[i].results
    BY <1>1 DEF Query
  <2>2. queries' = qs /\ UNCHANGED <<made, searches>>
    BY <1>3 DEF ChooseColumn, UpdateQuery, Kept
  <2> HIDE DEF qs
  <2>3. QED
    BY <1>1, <2>1, <2>2, ChangedQueries
<1>4. ASSUME NEW text \in Words \cup {None}, NEW tags \in SUBSET Tags,
             TypeFilters(q.id, text, tags)
      PROVE  QueryInv'
  <2> DEFINE qs == [i \in DOMAIN queries |->
                      IF queries[i].id = q.id
                      THEN [queries[i] EXCEPT !.text = text, !.tags = tags] ELSE queries[i]]
  <2>1. /\ qs \in [DOMAIN queries -> Query]
        /\ \A i \in DOMAIN queries :
             /\ qs[i].id = queries[i].id /\ qs[i].loading = queries[i].loading
             /\ qs[i].selected = queries[i].selected /\ qs[i].results = queries[i].results
    BY <1>1 DEF Query
  <2>2. queries' = qs /\ UNCHANGED <<made, searches>>
    BY <1>4 DEF TypeFilters, UpdateQuery, Kept
  <2> HIDE DEF qs
  <2>3. QED
    BY <1>1, <2>1, <2>2, ChangedQueries
\* What is ticked by hand is in the list of the query it is ticked in.
<1>5. ASSUME NEW c \in ToSet(q.results), ToggleCard(q.id, c) PROVE QueryInv'
  <2> DEFINE qs == [i \in DOMAIN queries |->
                      IF queries[i].id = q.id
                      THEN [queries[i] EXCEPT !.selected =
                              IF c \in @ THEN @ \ {c} ELSE @ \cup {c}]
                      ELSE queries[i]]
  <2>1. c \in AllCards
    BY <1>1 DEF Query, ToSet
  <2>2. \A i \in DOMAIN queries : queries[i].id = q.id => c \in ToSet(queries[i].results)
    <3>1. PICK j \in DOMAIN queries : q = queries[j]
      BY QueriesAre
    <3>2. QED
      BY <3>1 DEF QueryInv
  <2>3. /\ qs \in [DOMAIN queries -> Query]
        /\ \A i \in DOMAIN queries :
             /\ qs[i].id = queries[i].id /\ qs[i].loading = queries[i].loading
             /\ qs[i].results = queries[i].results
             /\ qs[i].selected \subseteq queries[i].selected \cup
                                         (IF queries[i].id = q.id THEN {c} ELSE {})
    BY <1>1, <2>1 DEF Query
  <2>4. queries' = qs /\ UNCHANGED <<made, searches>>
    BY <1>5 DEF ToggleCard, UpdateQuery, Kept
  <2> HIDE DEF qs
  <2>5. \A i \in DOMAIN queries : qs[i].selected \subseteq ToSet(qs[i].results)
    BY <1>1, <2>2, <2>3
  <2>6. QED
    BY <2>3, <2>4, <2>5, ChangedQueries
<1>6. CASE ToggleAll(q.id)
  <2> DEFINE qs == [i \in DOMAIN queries |->
                      IF queries[i].id = q.id
                      THEN [queries[i] EXCEPT !.selected =
                              IF Cardinality(@) = Len(queries[i].results) THEN {}
                              ELSE ToSet(queries[i].results)]
                      ELSE queries[i]]
  <2>1. \A i \in DOMAIN queries : ToSet(queries[i].results) \subseteq AllCards
    BY <1>1 DEF Query, ToSet
  <2>2. /\ qs \in [DOMAIN queries -> Query]
        /\ \A i \in DOMAIN queries :
             /\ qs[i].id = queries[i].id /\ qs[i].loading = queries[i].loading
             /\ qs[i].results = queries[i].results
             /\ qs[i].selected \in {{}, ToSet(queries[i].results), queries[i].selected}
    BY <1>1, <2>1 DEF Query
  <2>3. queries' = qs /\ UNCHANGED <<made, searches>>
    BY <1>6 DEF ToggleAll, UpdateQuery, Kept
  <2> HIDE DEF qs
  <2>4. \A i \in DOMAIN queries : qs[i].selected \subseteq ToSet(qs[i].results)
    BY <1>1, <2>2
  <2>5. QED
    BY <2>2, <2>3, <2>4, ChangedQueries
<1>7. QED
  BY <1>2, <1>3, <1>4, <1>5, <1>6, RemoveFits DEF EditQuery

LEMMA BoardsFit == ASSUME QueryInv, WorkspaceTypeOK', BoardsArrive PROVE QueryInv'
<1> DEFINE qs == [i \in DOMAIN queries |-> DefaultBoard(queries[i])]
<1>1. FirstBoard(catalog'.boards) \in Places
  BY BoardsType DEF WorkspaceTypeOK
<1>2. /\ queries \in [DOMAIN queries -> Query]
      /\ \A i \in DOMAIN queries : queries[i].selected \subseteq ToSet(queries[i].results)
  BY QueriesAre DEF QueryInv, Honest
<1>3. /\ qs \in [DOMAIN queries -> Query]
      /\ \A i \in DOMAIN queries :
           /\ qs[i].id = queries[i].id /\ qs[i].loading = queries[i].loading
           /\ qs[i].selected = queries[i].selected /\ qs[i].results = queries[i].results
  BY <1>1, <1>2 DEF Query, DefaultBoard
<1>4. queries' = qs /\ UNCHANGED <<made, searches>>
  BY DEF BoardsArrive, Kept
<1> HIDE DEF qs
<1>5. QED
  BY <1>2, <1>3, <1>4, ChangedQueries

\* A search begins for a query that has none.
LEMMA SearchFits ==
  ASSUME QueryInv, WorkspaceTypeOK, NEW q \in ToSet(queries), HandleSearch(q)
  PROVE  QueryInv'
<1> DEFINE qs == [i \in DOMAIN queries |->
                    IF queries[i].id = q.id THEN Searching(queries[i]) ELSE queries[i]]
           s == Asked(q)
<1>1. queries \in [DOMAIN queries -> Query]
  BY QueriesAre
<1>2. PICK j \in DOMAIN queries : q = queries[j]
  BY QueriesAre
<1>3. s \in Search /\ s.query = q.id
  <2>1. Account \in Accounts
    BY AccountType DEF HandleSearch
  <2>2. QED
    BY <1>1, <1>2, <2>1 DEF Asked, Search, Query, Places, HandleSearch
<1>4. /\ qs \in [DOMAIN queries -> Query]
      /\ \A i \in DOMAIN queries :
           /\ qs[i].id = queries[i].id /\ qs[i].results = queries[i].results
           /\ qs[i].selected = queries[i].selected
           /\ queries[i].id # q.id => qs[i] = queries[i]
           /\ queries[i].id = q.id => qs[i].loading
  BY <1>1 DEF Query, Searching
<1>5. queries' = qs /\ searches' = searches \cup {s} /\ UNCHANGED made
  BY DEF HandleSearch, UpdateQuery
<1>6. {t \in searches : t.query = q.id} = {}
  BY <1>2 DEF HandleSearch, QueryInv, Honest
<1> HIDE DEF qs, s
<1>7. {t \in searches' : t.query = q.id} = {s}
  BY <1>3, <1>5, <1>6
<1>8. \A i \in DOMAIN queries : Honest(qs[i], searches')
  <2> SUFFICES ASSUME NEW i \in DOMAIN queries PROVE Honest(qs[i], searches')
    OBVIOUS
  <2>1. Honest(queries[i], searches)
    BY DEF QueryInv
  <2>2. CASE queries[i].id = q.id
    BY <1>4, <1>5, <1>7, <2>1, <2>2 DEF Honest
  <2>3. CASE queries[i].id # q.id
    <3>1. {t \in searches' : t.query = queries[i].id} = {t \in searches : t.query = queries[i].id}
      BY <1>3, <1>5, <2>3
    <3>2. QED
      BY <1>4, <1>5, <2>1, <2>3, <3>1 DEF Honest
  <2>4. QED
    BY <2>2, <2>3
<1>9. qs \in Seq(Query) /\ DOMAIN qs = DOMAIN queries
  BY <1>4, QueriesAre, IsASeq
<1>10. s.query \in 1..made
  BY <1>2, <1>3 DEF QueryInv
<1>11. \A i \in DOMAIN qs : qs[i].id = queries[i].id /\ i \in DOMAIN queries
  BY <1>4, <1>9
<1>12. QED
  BY <1>3, <1>5, <1>8, <1>9, <1>10, <1>11 DEF QueryInv

\* An answer, or its failure, is the end of the one search its query has.
LEMMA AnswerFits ==
  ASSUME QueryInv, NEW s \in searches, SearchAnswered(s) \/ SearchFails(s)
  PROVE  QueryInv'
<1>1. queries \in [DOMAIN queries -> Query] /\ s \in Search
  BY QueriesAre DEF QueryInv
<1>2. PICK found \in Seq(AllCards), failed \in BOOLEAN :
        queries' = [i \in DOMAIN queries |->
                      IF queries[i].id = s.query
                      THEN IF failed THEN [ShowResults(queries[i], found) EXCEPT !.error = TRUE]
                                     ELSE ShowResults(queries[i], found)
                      ELSE queries[i]]
  <2>1. SearchCards(s) \in Seq(AllCards) /\ <<>> \in Seq(AllCards)
    BY <1>1, SearchCardsType
  <2>2. CASE SearchAnswered(s)
    <3>1. FALSE \in BOOLEAN
      OBVIOUS
    <3>2. QED
      BY <2>1, <2>2, <3>1 DEF SearchAnswered, UpdateQuery
  <2>3. CASE SearchFails(s)
    <3>1. TRUE \in BOOLEAN
      OBVIOUS
    <3>2. QED
      BY <2>1, <2>3, <3>1 DEF SearchFails, UpdateQuery
  <2>4. QED
    BY <2>2, <2>3
<1>3. searches' = searches \ {s} /\ UNCHANGED made
  BY DEF SearchAnswered, SearchFails
<1>4. /\ queries' \in [DOMAIN queries -> Query]
      /\ \A i \in DOMAIN queries :
           /\ queries'[i].id = queries[i].id
           /\ queries[i].id # s.query => queries'[i] = queries[i]
           /\ queries[i].id = s.query =>
                ~queries'[i].loading /\ queries'[i].selected = ToSet(queries'[i].results)
  <2> DEFINE Answered(q) == IF failed THEN [ShowResults(q, found) EXCEPT !.error = TRUE]
                                      ELSE ShowResults(q, found)
  <2>1. ToSet(found) \in SUBSET AllCards
    BY DEF ToSet
  <2>2. ASSUME NEW q \in Query
        PROVE  /\ Answered(q) \in Query /\ Answered(q).id = q.id /\ ~Answered(q).loading
               /\ Answered(q).selected = ToSet(Answered(q).results)
    <3>1. CASE failed
      BY <2>1, <3>1 DEF Query, ShowResults
    <3>2. CASE ~failed
      BY <2>1, <3>2 DEF Query, ShowResults
    <3>3. QED
      BY <3>1, <3>2
  <2>3. queries' = [i \in DOMAIN queries |->
                      IF queries[i].id = s.query THEN Answered(queries[i]) ELSE queries[i]]
    BY <1>2
  <2> HIDE DEF Answered
  <2>4. QED
    BY <1>1, <2>2, <2>3
<1>5. \A i \in DOMAIN queries : Honest(queries'[i], searches')
  <2> SUFFICES ASSUME NEW i \in DOMAIN queries PROVE Honest(queries'[i], searches')
    OBVIOUS
  <2>1. Honest(queries[i], searches)
    BY DEF QueryInv
  <2>2. CASE queries[i].id = s.query
    <3>1. {t \in searches : t.query = queries[i].id} = {s}
      BY <2>1, <2>2 DEF Honest
    <3>2. {t \in searches' : t.query = queries[i].id} = {}
      BY <1>3, <3>1
    <3>3. QED
      BY <1>4, <2>2, <3>2 DEF Honest
  <2>3. CASE queries[i].id # s.query
    <3>1. {t \in searches' : t.query = queries[i].id} = {t \in searches : t.query = queries[i].id}
      BY <1>3, <2>3
    <3>2. queries[i].loading => \E t \in searches : {u \in searches : u.query = queries[i].id} = {t}
      BY <2>1 DEF Honest
    <3>3. queries[i].loading => \E t \in searches' : {u \in searches' : u.query = queries[i].id} = {t}
      BY <3>1, <3>2
    <3>4. QED
      BY <1>4, <2>1, <2>3, <3>1, <3>3 DEF Honest
  <2>4. QED
    BY <2>2, <2>3
<1>6. queries' \in Seq(Query) /\ DOMAIN queries' = DOMAIN queries
  BY <1>4, QueriesAre, IsASeq
<1>7. QED
  BY <1>3, <1>4, <1>5, <1>6 DEF QueryInv

LEMMA QueryStep ==
  QueryInv /\ WorkspaceTypeOK /\ WorkspaceTypeOK' /\ [Next]_vars => QueryInv'
<1> SUFFICES ASSUME QueryInv, WorkspaceTypeOK, WorkspaceTypeOK', [Next]_vars PROVE QueryInv'
  OBVIOUS
<1>1. CASE UNCHANGED <<queries, made, searches>>
  BY <1>1 DEF QueryInv
<1>2. CASE OpenSetup
  <2>1. queries' = FreshQueries /\ made' = 1 /\ searches' = {}
    BY <1>2 DEF OpenSetup
  <2>2. QED
    BY <2>1, FreshQueriesType DEF QueryInv
<1>3. CASE Page
  <2>1. CASE ChangeSettings \/ Refresh \/ BoardsFail \/ HandleCreateRoom \/ CreateAnswered
             \/ CreateFails
    BY <1>1, <2>1 DEF ChangeSettings, Refresh, BoardsFail, HandleCreateRoom, CreateAnswered,
                      CreateFails, Kept, queryVars
  <2>2. QED
    BY <1>3, <2>1, EditFitsQuery, BoardsFit, AddFits, SearchFits, AnswerFits DEF Page
<1>4. CASE LateRoom \/ LateFailure
  BY <1>1, <1>4 DEF LateRoom, LateFailure
<1>5. QED
  BY <1>1, <1>2, <1>3, <1>4 DEF Next, vars, queryVars

\* The queries' and the searches' invariant holds beside the workspace's types.
LEMMA QueriesCorrect == Spec => [](WorkspaceTypeOK /\ QueryInv)
<1>1. Spec => []WorkspaceTypeOK
  BY SetupImplementsWorkspace, WorkspaceTypeCorrect, PTL
<1>2. Init => QueryInv
  BY FreshQueriesType DEF Init, QueryInv
<1>3. QED
  BY <1>1, <1>2, QueryStep, PTL DEF Spec

LEMMA InvShows == QueryInv => SelectionIsShown /\ SearchingIsReal
<1> SUFFICES ASSUME QueryInv PROVE SelectionIsShown /\ SearchingIsReal
  OBVIOUS
<1>1. ToSet(queries) = {queries[i] : i \in DOMAIN queries}
  BY QueriesAre
<1>2. \A i \in DOMAIN queries : Honest(queries[i], searches)
  BY DEF QueryInv
<1>3. \A s : Cardinality({s}) = 1
  BY FS_Singleton
<1>4. SelectionIsShown
  BY <1>1, <1>2 DEF SelectionIsShown, Honest
<1>5. SearchingIsReal
  <2> SUFFICES ASSUME NEW q \in ToSet(queries)
               PROVE  Cardinality({s \in searches : s.query = q.id}) = IF q.loading THEN 1 ELSE 0
    BY DEF SearchingIsReal
  <2>1. Honest(q, searches)
    BY <1>1, <1>2
  <2>2. CASE q.loading
    <3>1. PICK s : {t \in searches : t.query = q.id} = {s}
      BY <2>1, <2>2 DEF Honest
    <3>2. QED
      BY <1>3, <2>2, <3>1
  <2>3. CASE ~q.loading
    <3>1. {t \in searches : t.query = q.id} = {}
      BY <2>1, <2>3 DEF Honest
    <3>2. QED
      BY <2>3, <3>1, FS_EmptySet
  <2>4. QED
    BY <2>2, <2>3
<1>6. QED
  BY <1>4, <1>5

(* What the page shows is what goes on: what is ticked is in the list, a    *)
(* query that says it searches has one search under way and no other has    *)
(* any, and the catalog's loads are the account's, through removed queries,  *)
(* other boards and answers that come late (CardQuerySection.tsx:143-208).  *)
THEOREM SetupIsHonest == Spec => []SetupShowsWhatIs
<1>1. Spec => []WorkspaceTypeOK /\ [](LoadingIsReal /\ EffectLoadsFollowAccount)
  BY SetupImplementsWorkspace, WorkspaceTypeCorrect, CatalogFollowsAccount, PTL
<1>2. LoadingIsReal /\ EffectLoadsFollowAccount /\ QueryInv => SetupShowsWhatIs
  BY InvShows DEF SetupShowsWhatIs
<1>3. QED
  BY <1>1, <1>2, QueriesCorrect, PTL

-----------------------------------------------------------------------------
(* Types *)

\* As many ids as queries: no two queries have one.
LEMMA IdsAreOwn ==
  ASSUME QueryInv
  PROVE  Cardinality(QueryIds) = Len(queries)
<1> DEFINE n == Len(queries)
           id == [i \in 1..n |-> queries[i].id]
<1>1. n \in Nat /\ DOMAIN queries = 1..n
  BY QueriesAre
<1>2. QueryIds = {queries[i].id : i \in 1..n}
  BY <1>1 DEF QueryIds
<1>3. \A i, j \in 1..n : queries[i].id = queries[j].id => i = j
  BY <1>1 DEF QueryInv
<1>4. id \in Bijection(1..n, QueryIds)
  BY <1>2, <1>3, Fun_IsBij
<1> HIDE DEF id, n
<1>5. ExistsBijection(1..n, QueryIds)
  BY <1>4 DEF ExistsBijection
<1>6. QED
  BY <1>1, <1>5, FS_CountingElements DEF n

\* Whether the tab has gone to a room, and what gone pages have under way.
RoomTyped == created \in BOOLEAN /\ abandoned \in 0..MaxAbandoned

LEMMA RoomTypedStep == RoomTyped /\ [Next]_vars => RoomTyped'
<1> SUFFICES ASSUME RoomTyped, [Next]_vars PROVE RoomTyped'
  OBVIOUS
<1> USE AbandonedAssumption DEF RoomTyped
<1>1. CASE UNCHANGED <<created, abandoned>>
  BY <1>1
<1>2. CASE CreateAnswered
  BY <1>2 DEF CreateAnswered
<1>3. CASE LateRoom
  BY <1>3 DEF LateRoom, Abandoned
<1>4. CASE LateFailure
  BY <1>4 DEF LateFailure
<1>5. CASE OpenSetup
  <2>1. created' \in BOOLEAN
    BY <1>5, Zenon DEF OpenSetup
  <2>2. abandoned' \in {Abandoned, 0} /\ abandoned' <= MaxAbandoned
    BY <1>5 DEF OpenSetup
  <2>3. Abandoned \in Nat
    BY DEF Abandoned
  <2>4. QED
    BY <2>1, <2>2, <2>3
<1>6. CASE AddQuery \/ HandleCreateRoom \/ CreateFails
  BY <1>1, <1>6 DEF AddQuery, HandleCreateRoom, CreateFails, roomVars
<1>7. CASE ChangeSettings \/ Refresh \/ BoardsArrive \/ BoardsFail
  BY <1>1, <1>7 DEF ChangeSettings, Refresh, BoardsArrive, BoardsFail, Kept, queryVars, roomVars
<1>8. ASSUME NEW q, EditQuery(q) \/ HandleSearch(q) PROVE RoomTyped'
  BY <1>1, <1>8 DEF EditQuery, HandleBoardChange, ChooseColumn, TypeFilters, RemoveQuery,
                    ToggleCard, ToggleAll, HandleSearch, Kept, roomVars
<1>9. ASSUME NEW s, SearchAnswered(s) \/ SearchFails(s) PROVE RoomTyped'
  BY <1>1, <1>9 DEF SearchAnswered, SearchFails, roomVars
<1>10. CASE UNCHANGED vars
  BY <1>1, <1>10 DEF vars, queryVars, roomVars
<1>11. QED
  BY <1>2, <1>3, <1>4, <1>5, <1>6, <1>7, <1>8, <1>9, <1>10 DEF Next, Page

LEMMA InvTypes == WorkspaceTypeOK /\ QueryInv /\ RoomTyped => TypeOK
<1> SUFFICES ASSUME WorkspaceTypeOK, QueryInv, RoomTyped PROVE TypeOK
  OBVIOUS
<1>1. /\ queries \in [DOMAIN queries -> Query] /\ ToSet(queries) = {queries[i] : i \in DOMAIN queries}
      /\ queries # <<>>
  BY QueriesAre DEF QueryInv
<1>2. QueryIds \subseteq 1..made
  BY DEF QueryIds, QueryInv
<1>3. ASSUME NEW q \in ToSet(queries)
      PROVE  /\ q.board \in AllBoards \cup {None} /\ q.column \in Columns \cup {None}
             /\ ToSet(q.results) \subseteq AllCards
             /\ {q.searched, q.loading, q.error} \subseteq BOOLEAN
  <2>1. q \in Query
    BY <1>1
  <2>2. q.results \in Seq(AllCards)
    BY <2>1 DEF Query
  <2>3. ToSet(q.results) \subseteq AllCards
    BY <2>2 DEF ToSet
  <2>4. QED
    BY <2>1, <2>3 DEF Query, Places
<1>4. \A s \in searches : s.query \in 1..made /\ s.account \in Accounts /\ s.board \in AllBoards
  BY DEF QueryInv, Search
<1>5. QED
  BY <1>1, <1>2, <1>3, <1>4, IdsAreOwn DEF TypeOK, RoomTyped

(* Every query has an id of its own and there is always one, whatever is    *)
(* added, removed and answered late; what a query lists are cards of an     *)
(* account and what is searched is a board (CardQuerySection.tsx:43-208).   *)
THEOREM TypeCorrect == Spec => []TypeOK
<1>1. Init => RoomTyped
  <2> SUFFICES ASSUME Init PROVE RoomTyped
    OBVIOUS
  <2>1. created \in BOOLEAN
    BY Zenon DEF Init
  <2>2. abandoned \in 0..MaxAbandoned
    BY AbandonedAssumption DEF Init
  <2>3. QED
    BY <2>1, <2>2 DEF RoomTyped
<1>2. QED
  BY <1>1, RoomTypedStep, QueriesCorrect, InvTypes, PTL DEF Spec

-----------------------------------------------------------------------------
(* The room's queue *)

LEMMA SelectionMade ==
  ASSUME QueryInv
  PROVE  /\ ToSet(SelectedCards) = UNION {q.selected : q \in ToSet(queries)}
         /\ IsInjective(SelectedCards)
<1> DEFINE lists == [i \in DOMAIN queries |-> Ticked(queries[i])]
           n == Len(queries)
<1>1. /\ n \in Nat /\ DOMAIN queries = 1..n /\ queries \in [DOMAIN queries -> Query]
      /\ ToSet(queries) = {queries[i] : i \in DOMAIN queries}
  BY QueriesAre
<1>2. ASSUME NEW i \in DOMAIN queries
      PROVE  lists[i] \in Seq(AllCards) /\ ToSet(lists[i]) = queries[i].selected
  <2> DEFINE results == queries[i].results
             selected == queries[i].selected
  <2>1. results \in Seq(AllCards) /\ selected \subseteq ToSet(results)
    BY <1>1 DEF Query, QueryInv, Honest
  <2>2. lists[i] = Select(results, selected)
    BY DEF Ticked
  <2> HIDE DEF results, selected
  <2>3. Select(results, selected) \in Seq(AllCards)
        /\ ToSet(Select(results, selected)) = ToSet(results) \cap selected
    BY <2>1, SelectMembers
  <2>4. QED
    BY <2>1, <2>2, <2>3 DEF selected
<1>3. lists \in Seq(Seq(AllCards)) /\ DOMAIN lists = DOMAIN queries
  <2>1. lists \in [1..n -> Seq(AllCards)]
    <3>1. DOMAIN lists = 1..n /\ \A i \in 1..n : lists[i] \in Seq(AllCards)
      BY <1>1, <1>2
    <3>2. QED
      BY <1>1, <3>1
  <2> HIDE DEF lists, n
  <2>2. lists \in Seq(Seq(AllCards))
    BY <1>1, <2>1, IsASeq
  <2>3. QED
    BY <1>1, <2>1, <2>2
<1>4. SelectedCards = Distinct(Concatenated(lists))
  BY DEF SelectedCards, Unmerged
<1> HIDE DEF lists
<1>5. /\ Concatenated(lists) \in Seq(AllCards)
      /\ ToSet(Concatenated(lists)) = UNION {ToSet(lists[i]) : i \in DOMAIN lists}
  BY <1>3, ConcatenatedMembers
<1>6. /\ ToSet(Distinct(Concatenated(lists))) = ToSet(Concatenated(lists))
      /\ IsInjective(Distinct(Concatenated(lists)))
  BY <1>5, DistinctMembers
<1>7. UNION {ToSet(lists[i]) : i \in DOMAIN lists} = UNION {q.selected : q \in ToSet(queries)}
  BY <1>1, <1>2, <1>3
<1>8. QED
  BY <1>4, <1>5, <1>6, <1>7

\* Only the button makes a queue.
LEMMA RoomStep ==
  QueryInv /\ [Next]_vars =>
    [creating = <<>> /\ creating' # <<>> =>
       /\ ToSet(creating') = UNION {q.selected : q \in ToSet(queries)}
       /\ IsInjective(creating')]_vars
<1> SUFFICES ASSUME QueryInv, Next, creating = <<>>, creating' # <<>>
             PROVE  /\ ToSet(creating') = UNION {q.selected : q \in ToSet(queries)}
                    /\ IsInjective(creating')
  BY DEF vars, queryVars, roomVars
<1>1. CASE HandleCreateRoom
  BY <1>1, SelectionMade DEF HandleCreateRoom
<1>2. CASE OpenSetup \/ CreateAnswered \/ CreateFails \/ LateRoom \/ LateFailure
  BY <1>2 DEF OpenSetup, CreateAnswered, CreateFails, LateRoom, LateFailure
<1>3. CASE ChangeSettings \/ Refresh \/ BoardsArrive \/ BoardsFail \/ AddQuery
  BY <1>3 DEF ChangeSettings, Refresh, BoardsArrive, BoardsFail, AddQuery, Kept, queryVars,
              roomVars
<1>4. ASSUME NEW q, EditQuery(q) PROVE UNCHANGED creating
  BY <1>4 DEF EditQuery, HandleBoardChange, ChooseColumn, TypeFilters, RemoveQuery, ToggleCard,
              ToggleAll, Kept, roomVars
<1>5. ASSUME NEW q, HandleSearch(q) PROVE UNCHANGED creating
  BY <1>5 DEF HandleSearch, roomVars
<1>6. ASSUME NEW s, SearchAnswered(s) \/ SearchFails(s) PROVE UNCHANGED creating
  BY <1>6 DEF SearchAnswered, SearchFails, roomVars
<1>7. QED
  BY <1>1, <1>2, <1>3, <1>4, <1>5, <1>6 DEF Next, Page

(* However many queries found a card, however they were searched, edited    *)
(* and removed meanwhile, a room is made of exactly the cards that are      *)
(* ticked, each once (CardQuerySection.tsx:211-230).                        *)
THEOREM RoomIsTheSelection == Spec => RoomGetsTheSelection
BY QueriesCorrect, RoomStep, PTL DEF Spec, RoomGetsTheSelection
================================================================================
