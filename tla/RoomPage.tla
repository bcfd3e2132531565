------------------------------ MODULE RoomPage ------------------------------
(***************************************************************************)
(* The room page (pages/RoomPage.tsx) of one browser tab: how it loads a   *)
(* room, joins it over REST, opens the socket of RoomSocket and leaves,    *)
(* while the user walks between the room, the demo room and other pages.   *)
(* The requests, the socket's events and the navigation interleave.        *)
(*                                                                         *)
(* The demo room is the same React component under another id, so that its *)
(* state survives a walk from the room to the demo and back.  The session  *)
(* is kept above the pages (PlanningContext) and survives every walk.      *)
(***************************************************************************)
EXTENDS RoomSocket

CONSTANTS Users,    \* the ids the server gives to the joins, one each
          NoUser

ASSUME UsersAssumption == NoUser \notin Users

VARIABLES
  route,      \* where the tab is
  joined,     \* joinedIdentity is set
  session,    \* whose session PlanningContext holds
  me,         \* currentUserId
  loading,    \* isLoading
  loadError,  \* loadError is set
  loadReq,    \* a getRoom that was not cancelled is on its way
  joinReq,    \* the joinRoom that is given each id
  members,    \* the participants of the room that came from this tab
  leaving,    \* those a leaveRoom is on its way for
  strays      \* those nobody will ever take out: history

pageVars == <<route, joined, session, me, loading, loadError, loadReq, joinReq,
              members, leaving, strays>>
vars == <<socketVars, pageVars>>

Routes == {"away", "demo", "room"}

(* A join is sent, served by the server and then answered; mine says that  *)
(* the component that sent it is still mounted.                            *)
Join == [phase : {"none", "sent", "served", "done"}, mine : BOOLEAN]

Init ==
  /\ SocketInit
  /\ route = "away"
  /\ joined = FALSE /\ session = "none" /\ me = NoUser
  /\ loading = FALSE /\ loadError = FALSE /\ loadReq = FALSE
  /\ joinReq = [u \in Users |-> [phase |-> "none", mine |-> FALSE]]
  /\ members = {} /\ leaving = {} /\ strays = {}

(* The user the page would leave the room for.                             *)
Present == IF route = "room" THEN me ELSE NoUser

(* useRoomWebSocket's enabled                                              *)
Live == route = "room" /\ joined

\* Slip: the effect has no cleanup.
NoLeaveEffect == leaving' = leaving

(* Effect of a changed id or room: its cleanup leaves for the old user.    *)
LeaveEffect == leaving' = leaving \cup ({Present} \ {Present', NoUser})

SocketEffect ==
  IF Live' = Live THEN UNCHANGED socketVars
  ELSE IF Live' THEN Enable ELSE Disable

Effects == LeaveEffect /\ SocketEffect

(* A page that has joined joins again, perhaps under another name: a second *)
(* request was on its way.                                                 *)
RejoinEffects(u) ==
  LeaveEffect /\ (SocketEffect \/ (Live /\ Live' /\ joinReq[u].mine /\ Reopen))

\* Slip: the demo room makes a session whatever there is.
DemoAlways == session' = IF route' = "demo" THEN "demo" ELSE session

(* The demo room makes its own session, unless there is one.               *)
DemoEffect ==
  session' = IF route' = "demo" /\ session = "none" THEN "demo" ELSE session

(* The effect that loads the room, for a component that has not joined.    *)
LoadEffect ==
  /\ loadReq' = (route' = "room" /\ ~joined)
  /\ IF loadReq' THEN loading' = TRUE /\ loadError' = FALSE
                 ELSE UNCHANGED <<loading, loadError>>

Mount(r) ==
  /\ route = "away" /\ r # "away"
  /\ route' = r
  /\ DemoEffect /\ LoadEffect
  /\ UNCHANGED <<joined, me, joinReq, members, strays>>
  /\ Effects

(* Between the room and the demo room, either way.                         *)
Switch ==
  /\ route # "away"
  /\ route' = IF route = "room" THEN "demo" ELSE "room"
  /\ DemoEffect /\ LoadEffect
  /\ UNCHANGED <<joined, me, joinReq, members, strays>>
  /\ Effects

Unmount ==
  /\ route # "away"
  /\ route' = "away"
  /\ joined' = FALSE /\ loading' = FALSE /\ loadError' = FALSE /\ loadReq' = FALSE
  /\ joinReq' = [u \in Users |-> [joinReq[u] EXCEPT !.mine = FALSE]]
  /\ UNCHANGED <<session, me, members, strays>>
  /\ Effects

(* joinLiveRoom up to its request                                          *)
SendJoin(u) ==
  /\ joinReq[u].phase = "none"
  /\ joinReq' = [joinReq EXCEPT ![u] = [phase |-> "sent", mine |-> TRUE]]
  /\ loading' = TRUE /\ loadError' = FALSE

(* getRoom answers: whoever the page was is forgotten, and a facilitator   *)
(* who comes from the set-up page joins at once.                           *)
LoadAnswered(auto) ==
  /\ loadReq
  /\ loadReq' = FALSE
  /\ session' = "live" /\ me' = NoUser
  /\ IF auto THEN \E u \in Users : SendJoin(u)
             ELSE loading' = FALSE /\ UNCHANGED <<loadError, joinReq>>
  /\ UNCHANGED <<route, joined, members, strays>>
  /\ Effects

LoadFails ==
  /\ loadReq
  /\ loadReq' = FALSE /\ loading' = FALSE /\ loadError' = TRUE
  /\ UNCHANGED <<route, joined, session, me, joinReq, members, strays>>
  /\ Effects

(* The gates before the form: the spinner and the error of an empty page.  *)
FormShown ==
  /\ route = "room" /\ ~joined
  /\ session = "none" => ~loading /\ ~loadError

ClickJoin(u) ==
  /\ FormShown /\ ~loading
  /\ SendJoin(u)
  /\ UNCHANGED <<route, joined, session, me, loadReq, members, strays>>
  /\ Effects

JoinServed(u) ==
  /\ joinReq[u].phase = "sent"
  /\ joinReq' = [joinReq EXCEPT ![u].phase = "served"]
  /\ members' = members \cup {u}
  /\ UNCHANGED <<route, joined, session, me, loading, loadError, loadReq, strays>>
  /\ Effects

(* The answer holds the room's state.  A component that has gone sets the   *)
(* shared session all the same.                                            *)
JoinAnswered(u) ==
  /\ joinReq[u].phase = "served"
  /\ joinReq' = [joinReq EXCEPT ![u].phase = "done"]
  /\ session' = "live" /\ me' = u
  /\ IF joinReq[u].mine
     THEN joined' = TRUE /\ loading' = FALSE /\ loadReq' = FALSE
     ELSE UNCHANGED <<joined, loading, loadReq>>
  /\ strays' = IF route = "room" THEN strays ELSE strays \cup {u}
  /\ UNCHANGED <<route, loadError, members>>
  /\ RejoinEffects(u)

\* Slip: no finally, the button stays disabled.
ErrorWithoutFinally(u) ==
  IF joinReq[u].mine THEN loadError' = TRUE /\ UNCHANGED loading
                     ELSE UNCHANGED <<loading, loadError>>

(* The catch and the finally of joinLiveRoom                               *)
JoinError(u) ==
  IF joinReq[u].mine THEN loading' = FALSE /\ loadError' = TRUE
                     ELSE UNCHANGED <<loading, loadError>>

(* The join is refused, or its answer is lost or holds no room state: then  *)
(* it has happened on the server and the page knows nothing of its user.   *)
JoinFails(u) ==
  /\ joinReq[u].phase \in {"sent", "served"}
  /\ joinReq' = [joinReq EXCEPT ![u].phase = "done"]
  /\ JoinError(u)
  /\ strays' = IF joinReq[u].phase = "served" THEN strays \cup {u} ELSE strays
  /\ UNCHANGED <<route, joined, session, me, loadReq, members>>
  /\ Effects

(* leaveRoom arrives, or fails, which the page ignores.                    *)
LeaveServed(u) ==
  /\ u \in leaving
  /\ leaving' = leaving \ {u} /\ members' = members \ {u}
  /\ UNCHANGED <<socketVars, route, joined, session, me, loading, loadError, loadReq,
                 joinReq, strays>>

LeaveLost(u) ==
  /\ u \in leaving
  /\ leaving' = leaving \ {u} /\ strays' = strays \cup {u}
  /\ UNCHANGED <<socketVars, route, joined, session, me, loading, loadError, loadReq,
                 joinReq, members>>

Navigation == Switch \/ Unmount \/ \E r \in Routes : Mount(r)

Request(u) ==
  ClickJoin(u) \/ JoinServed(u) \/ JoinAnswered(u) \/ JoinFails(u) \/ LeaveServed(u) \/ LeaveLost(u)

Next ==
  \/ Navigation
  \/ LoadFails \/ \E auto \in BOOLEAN : LoadAnswered(auto)
  \/ \E u \in Users : Request(u)
  \/ \E c \in Clients : SocketEvent(c) /\ UNCHANGED pageVars

Spec == Init /\ [][Next]_vars

FairSpec == Spec /\ SocketFairness

-----------------------------------------------------------------------------
(* Every variable of the page and its socket has its type.                 *)
TypeOK ==
  /\ SocketTypeOK
  /\ route \in Routes
  /\ joined \in BOOLEAN /\ loading \in BOOLEAN /\ loadError \in BOOLEAN /\ loadReq \in BOOLEAN
  /\ session \in {"none", "demo", "live"}
  /\ me \in Users \cup {NoUser}
  /\ joinReq \in [Users -> Join]
  /\ members \subseteq Users /\ leaving \subseteq Users /\ strays \subseteq Users

(* A page that has joined shows the room and never the demo, whatever way  *)
(* the user took in between (RoomPage.tsx:85-90, 127-128).                 *)
JoinedPageIsLive == joined => session = "live"

(* A room page that says it is loading is waiting for an answer that will  *)
(* end it: no way through the page leaves it loading, or its button         *)
(* disabled, for ever (RoomPage.tsx:102-133, 138-173).                     *)
LoadingHasReason ==
  route = "room" /\ loading =>
    loadReq \/ \E u \in Users : joinReq[u].mine /\ joinReq[u].phase \in {"sent", "served"}

(* What the page shows is what goes on.                                    *)
PageShowsWhatIs == JoinedPageIsLive /\ LoadingHasReason

(* Every participant this tab has put into the room is the one it shows, on *)
(* the way out, on the way in, or one of the strays: a join whose answer    *)
(* did not reach a room page, or a leave that was lost (RoomPage.tsx:182-   *)
(* 187).                                                                   *)
MembersAccountedFor ==
  members \subseteq {Present} \cup leaving \cup strays
                    \cup {u \in Users : joinReq[u].phase = "served"}
=============================================================================
