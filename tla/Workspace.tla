----------------------------- MODULE Workspace -----------------------------
(***************************************************************************)
(* What the set-up page knows about Businessmap: the settings that make an *)
(* account (context/AuthContext.tsx, components/setup/) and the catalog of *)
(* boards and custom fields read with it                                   *)
(* (context/BusinessmapProxyContext.tsx).  A change of account begins a    *)
(* load of its own and gives up the one before; a load asked for by the    *)
(* refresh button is never given up, so that answers come in any order.    *)
(***************************************************************************)
EXTENDS Naturals, Sequences, FiniteSets

CONSTANTS
  Subdomains, ApiKeys,  \* what may be typed into the two fields, besides nothing
  None,
  BoardsOf, FieldsOf,   \* what Businessmap has for an account
  Stored,               \* the workspace and key that sessionStorage may hold at first
  MaxLoads              \* bound on loads under way at one time

Accounts == Subdomains \X ApiKeys

Workspaces == [subdomain : Subdomains \cup {None}, field : UNION {FieldsOf[a] : a \in Accounts} \cup {None},
               kind : {"custom_field", "native_size"}]

ASSUME CatalogAssumption == /\ DOMAIN BoardsOf = Accounts /\ DOMAIN FieldsOf = Accounts
                            /\ None \notin Accounts \cup Subdomains \cup ApiKeys
                            /\ Stored \subseteq Workspaces \X (ApiKeys \cup {None})
                            /\ MaxLoads \in Nat

VARIABLES
  workspace,  \* subdomain, where estimates go, and the custom field
  apiKey,     \* the profile's key
  catalog,    \* boards, fields, loading, error
  loads       \* loads of the catalog under way

workspaceVars == <<workspace, apiKey, catalog, loads>>

-----------------------------------------------------------------------------
(* useApiCredentials: an account, once both fields are filled in.          *)
Account == IF None \in {workspace.subdomain, apiKey} THEN None
           ELSE <<workspace.subdomain, apiKey>>

IsEstimationTargetReady == workspace.kind = "native_size" \/ workspace.field # None

Load == [account : Accounts, effect : BOOLEAN]
EffectLoad(account) == [account |-> account, effect |-> TRUE]

(* The page opens on the settings that sessionStorage kept.                *)
FreshCatalog ==
  [boards |-> <<>>, fields |-> {}, loading |-> Account # None, error |-> FALSE]

FirstLoads == IF Account = None THEN {} ELSE {EffectLoad(Account)}

\* Slip: the load for the account before goes on.
Overtaken == loads

(* The effect on the account.  Without one the catalog is emptied, and     *)
(* whether it says it is loading stays as it was.                          *)
Uncancelled == {l \in loads : ~l.effect}

Emptied == [catalog EXCEPT !.boards = <<>>, !.fields = {}, !.error = FALSE]
Started == [catalog EXCEPT !.loading = TRUE, !.error = FALSE]

FollowAccount ==
  IF Account' = Account THEN UNCHANGED <<catalog, loads>>
  ELSE IF Account' = None THEN catalog' = Emptied /\ loads' = Uncancelled
  ELSE catalog' = Started /\ loads' = Uncancelled \cup {EffectLoad(Account')}

TypeSubdomain(text) ==
  /\ workspace' = [workspace EXCEPT !.subdomain = text]
  /\ UNCHANGED apiKey
  /\ FollowAccount

TypeApiKey(text) ==
  /\ apiKey' = text
  /\ UNCHANGED workspace
  /\ FollowAccount

\* A field of the catalog, whatever account that was read with.
ChooseField(field) ==
  /\ workspace.kind = "custom_field" /\ Account # None /\ ~catalog.loading
  /\ workspace' = [workspace EXCEPT !.field = field]
  /\ UNCHANGED <<apiKey, catalog, loads>>

ChooseKind(kind) ==
  /\ workspace' = [workspace EXCEPT !.kind = kind]
  /\ UNCHANGED <<apiKey, catalog, loads>>

Settings ==
  \/ \E text \in Subdomains \cup {None} : TypeSubdomain(text)
  \/ \E text \in ApiKeys \cup {None} : TypeApiKey(text)
  \/ \E field \in catalog.fields : ChooseField(field)
  \/ \E kind \in {"custom_field", "native_size"} : ChooseKind(kind)

(* The button beside the error; loads alike count as one.                  *)
ReloadCatalog ==
  /\ catalog.error /\ Account # None /\ ~catalog.loading
  /\ Cardinality(loads) < MaxLoads
  /\ loads' = loads \cup {[account |-> Account, effect |-> FALSE]}
  /\ catalog' = Started
  /\ UNCHANGED <<workspace, apiKey>>

LoadAnswered(l) ==
  /\ l \in loads
  /\ loads' = loads \ {l}
  /\ catalog' = [catalog EXCEPT !.boards = BoardsOf[l.account], !.fields = FieldsOf[l.account],
                                !.loading = FALSE]
  /\ UNCHANGED <<workspace, apiKey>>

LoadFails(l) ==
  /\ l \in loads
  /\ loads' = loads \ {l}
  /\ catalog' = [catalog EXCEPT !.error = TRUE, !.loading = FALSE]
  /\ UNCHANGED <<workspace, apiKey>>

WorkspaceInit ==
  /\ \E stored \in Stored : workspace = stored[1] /\ apiKey = stored[2]
  /\ catalog = FreshCatalog /\ loads = FirstLoads

Reopen == catalog' = FreshCatalog /\ loads' = FirstLoads /\ UNCHANGED <<workspace, apiKey>>

WorkspaceNext ==
  \/ Settings \/ ReloadCatalog \/ Reopen
  \/ \E l \in loads : LoadAnswered(l) \/ LoadFails(l)

WorkspaceSpec == WorkspaceInit /\ [][WorkspaceNext]_workspaceVars
-----------------------------------------------------------------------------
(* Settings, catalog and loads have their types.                           *)
WorkspaceTypeOK ==
  /\ workspace \in Workspaces
  /\ apiKey \in ApiKeys \cup {None}
  /\ catalog \in [boards : {BoardsOf[a] : a \in Accounts} \cup {<<>>},
                  fields : {FieldsOf[a] : a \in Accounts} \cup {{}},
                  loading : BOOLEAN, error : BOOLEAN]
  /\ loads \subseteq Load

(* Of the loads the effect began only the last is not given up, and it is  *)
(* the current account's: no answer meant for an account that was typed    *)
(* over gets in that way (BusinessmapProxyContext.tsx:126, 149-151).       *)
EffectLoadsFollowAccount ==
  \A l \in loads : l.effect => l.account = Account

(* While there is an account, a catalog that says it is loading is waiting *)
(* for an answer: the board and field selectors and the refresh button,    *)
(* which it disables, come back (BusinessmapProxyContext.tsx:118-153).     *)
LoadingIsReal == catalog.loading /\ Account # None => loads # {}
=============================================================================
