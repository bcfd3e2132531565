---------------------------- MODULE RoomPageProofs ----------------------------
(***************************************************************************)
(* What a room page and its socket guarantee for any number of clients,    *)
(* users and reconnection attempts.  The socket's invariant is proved of   *)
(* RoomSocket alone; the page inherits it, for each of its steps is a step *)
(* of the socket or leaves it alone.                                       *)
(***************************************************************************)
EXTENDS RoomPage, TLAPS

-----------------------------------------------------------------------------
(* The socket.                                                             *)

SocketInv == SocketTypeOK /\ OneSocket /\ StatusHasGround

\* Only the current client can have a socket that is not being closed.
LEMMA OthersAreDone ==
  ASSUME SocketInv, NEW c \in Clients
  PROVE  client[c].ws \in {"connecting", "open"} \/ client[c].reconnectTimer
           => c = current /\ current # NoClient
<1> SUFFICES ASSUME client[c].ws \in {"connecting", "open"} \/ client[c].reconnectTimer
             PROVE  c = current /\ current # NoClient
  OBVIOUS
<1>1. c = current
  <2> SUFFICES ASSUME c # current PROVE FALSE
    OBVIOUS
  <2>1. \/ client[c].ws = "none"
        \/ /\ client[c].ws \in {"closing", "closed"}
           /\ client[c].manuallyClosed /\ ~client[c].reconnectTimer
    BY DEF SocketInv, OneSocket, NoClientLingers
  <2>2. client[c].reconnectTimer => client[c].ws = "closed"
    BY DEF SocketInv, OneSocket, TimersFollowSocket
  <2>3. QED
    BY <2>1, <2>2
<1>2. QED
  BY <1>1, ClientsAssumption

LEMMA SocketInitInv == SocketInit => SocketInv
<1> SUFFICES ASSUME SocketInit PROVE SocketInv
  OBVIOUS
<1> USE DEF SocketInit
<1>1. Unused \in ClientState
  BY AttemptsAssumption DEF Unused, ClientState
<1>2. SocketTypeOK
  BY <1>1 DEF SocketTypeOK, Statuses
<1>3. OneSocket
  BY DEF OneSocket, NoClientLingers, TimersFollowSocket, Unused
<1>4. StatusHasGround
  BY DEF StatusHasGround
<1>5. QED
  BY <1>2, <1>3, <1>4 DEF SocketInv

\* What becomes of one closure is again a closure, and agrees with its timers.
LEMMA ClosureSteps ==
  ASSUME NEW s \in ClientState,
         s.pingTimer = (s.ws = "open"), s.reconnectTimer => s.ws = "closed"
  PROVE  /\ Closed(s) \in ClientState
         /\ Closed(s).ws \in {"closing", "closed"} /\ Closed(s).manuallyClosed
         /\ ~Closed(s).pingTimer /\ ~Closed(s).reconnectTimer
         /\ Connecting(s) \in ClientState
         /\ Connecting(s).ws = "connecting"
         /\ ~Connecting(s).pingTimer /\ ~Connecting(s).reconnectTimer
BY DEF ClientState, Closed, Connecting, Timerless

LEMMA RescheduledType ==
  ASSUME NEW s \in ClientState
  PROVE  LET t == Rescheduled([Timerless(s) EXCEPT !.ws = "closed"])
         IN /\ t \in ClientState
            /\ t.ws = "closed" /\ ~t.pingTimer
            /\ t.manuallyClosed = s.manuallyClosed
            /\ t.reconnectTimer <=> ~GivesUp(s)
<1> DEFINE r == [Timerless(s) EXCEPT !.ws = "closed"]
           t == Rescheduled(r)
<1> SUFFICES /\ t \in ClientState
             /\ t.ws = "closed" /\ ~t.pingTimer
             /\ t.manuallyClosed = s.manuallyClosed
             /\ t.reconnectTimer <=> ~GivesUp(s)
  OBVIOUS
<1>1. /\ r \in ClientState
      /\ r.ws = "closed" /\ ~r.pingTimer /\ ~r.reconnectTimer
      /\ r.manuallyClosed = s.manuallyClosed /\ r.attempts = s.attempts
  BY DEF ClientState, Timerless
<1>2. GivesUp(r) = GivesUp(s)
  BY <1>1 DEF GivesUp
<1>3. CASE GivesUp(s)
  <2>1. Rescheduled(r) = r
    BY <1>2, <1>3 DEF Rescheduled
  <2>2. QED
    BY <2>1, <1>1, <1>3
<1>4. CASE ~GivesUp(s)
  <2>1. Rescheduled(r) = [r EXCEPT !.attempts = @ + 1, !.reconnectTimer = TRUE]
    BY <1>2, <1>4 DEF Rescheduled
  <2>2. r.attempts + 1 \in 0..MaxReconnectAttempts
    BY <1>1, <1>4, AttemptsAssumption DEF GivesUp, ClientState
  <2> HIDE DEF r
  <2>3. QED
    BY <2>1, <2>2, <1>1, <1>4 DEF ClientState, t
<1>5. QED
  BY <1>3, <1>4

\* What a closure is, as its own two facts and as what others may rely on.
LEMMA CloseClient ==
  ASSUME SocketInv, NEW c \in Clients
  PROVE  /\ client[c] \in ClientState
         /\ client[c].pingTimer = (client[c].ws = "open")
         /\ client[c].reconnectTimer => client[c].ws = "closed"
BY DEF SocketInv, SocketTypeOK, OneSocket, TimersFollowSocket

LEMMA EnableInv == SocketInv /\ Enable => SocketInv'
<1> SUFFICES ASSUME SocketInv, Enable PROVE SocketInv'
  OBVIOUS
<1>1. PICK c \in Clients : /\ Finished(c)
                           /\ client' = [client EXCEPT ![c] = Connecting(Unused)]
                           /\ current' = c
  BY DEF Enable
<1>2. Unused \in ClientState /\ Unused.ws = "none" /\ ~Unused.pingTimer /\ ~Unused.reconnectTimer
  BY AttemptsAssumption DEF Unused, ClientState
<1>3. /\ Connecting(Unused) \in ClientState /\ Connecting(Unused).ws = "connecting"
      /\ ~Connecting(Unused).pingTimer /\ ~Connecting(Unused).reconnectTimer
  <2>1. Unused.pingTimer = FALSE /\ (Unused.ws = "open") = FALSE
    BY DEF Unused
  <2>2. QED
    BY <1>2, <2>1, ClosureSteps
<1>4. client \in [Clients -> ClientState] /\ current = NoClient /\ status' = "connecting"
  BY DEF SocketInv, SocketTypeOK, Enable
<1>5. /\ client'[c] = Connecting(Unused)
      /\ \A d \in Clients \ {c} : client'[d] = client[d]
  BY <1>1, <1>4
<1>6. SocketTypeOK'
  BY <1>1, <1>3, <1>4 DEF SocketTypeOK, Statuses
<1>7. NoClientLingers'
  BY <1>1, <1>4, <1>5, ClientsAssumption DEF SocketInv, OneSocket, NoClientLingers
<1>8. TimersFollowSocket'
  <2> SUFFICES ASSUME NEW d \in Clients
               PROVE  /\ client'[d].pingTimer = (client'[d].ws = "open")
                      /\ client'[d].reconnectTimer => client'[d].ws = "closed"
    BY DEF TimersFollowSocket
  <2>1. CASE d = c
    <3>1. client'[d].pingTimer = FALSE
      BY <2>1, <1>3, <1>5 DEF ClientState
    <3>2. QED
      BY <2>1, <1>3, <1>5, <3>1
  <2>2. CASE d # c
    BY <2>2, <1>5, CloseClient
  <2>3. QED
    BY <2>1, <2>2
<1>9. StatusHasGround'
  BY <1>1, <1>3, <1>4, <1>5, ClientsAssumption DEF StatusHasGround
<1>10. QED
  BY <1>6, <1>7, <1>8, <1>9 DEF SocketInv, OneSocket

LEMMA DisableInv == SocketInv /\ Disable => SocketInv'
<1> SUFFICES ASSUME SocketInv, Disable PROVE SocketInv'
  OBVIOUS
<1>1. /\ current \in Clients /\ client \in [Clients -> ClientState]
      /\ client' = [client EXCEPT ![current] = Closed(client[current])]
      /\ current' = NoClient /\ status' = "disconnected"
  BY DEF SocketInv, SocketTypeOK, Disable, ReportClosed
<1>2. /\ Closed(client[current]) \in ClientState
      /\ Closed(client[current]).ws \in {"closing", "closed"}
      /\ Closed(client[current]).manuallyClosed
      /\ ~Closed(client[current]).pingTimer /\ ~Closed(client[current]).reconnectTimer
  BY <1>1, CloseClient, ClosureSteps
<1>3. /\ client'[current] = Closed(client[current])
      /\ \A d \in Clients \ {current} : client'[d] = client[d]
  BY <1>1
<1>4. SocketTypeOK'
  BY <1>1, <1>2 DEF SocketTypeOK, Statuses
<1>5. NoClientLingers'
  BY <1>1, <1>2, <1>3 DEF SocketInv, OneSocket, NoClientLingers
<1>6. TimersFollowSocket'
  <2> SUFFICES ASSUME NEW d \in Clients
               PROVE  /\ client'[d].pingTimer = (client'[d].ws = "open")
                      /\ client'[d].reconnectTimer => client'[d].ws = "closed"
    BY DEF TimersFollowSocket
  <2>1. CASE d = current
    <3>1. client'[d].pingTimer = FALSE
      BY <2>1, <1>2, <1>3 DEF ClientState
    <3>2. QED
      BY <2>1, <1>2, <1>3, <3>1
  <2>2. CASE d # current
    BY <2>2, <1>3, CloseClient
  <2>3. QED
    BY <2>1, <2>2
<1>7. StatusHasGround'
  BY <1>1 DEF StatusHasGround
<1>8. QED
  BY <1>4, <1>5, <1>6, <1>7 DEF SocketInv, OneSocket

LEMMA ReopenInv == SocketInv /\ Reopen => SocketInv'
<1> SUFFICES ASSUME SocketInv, Reopen PROVE SocketInv'
  OBVIOUS
<1> DEFINE fresh == Connecting(Unused)
           left == Closed(client[current])
<1>1. /\ current \in Clients /\ client \in [Clients -> ClientState]
      /\ status' = "connecting"
  BY DEF SocketInv, SocketTypeOK, Reopen
<1>2. PICK c \in Clients :
        /\ client' = [client EXCEPT ![current] = left, ![c] = fresh] /\ current' = c
  BY DEF Reopen
<1>3. /\ fresh \in ClientState /\ fresh.ws = "connecting"
      /\ ~fresh.pingTimer /\ ~fresh.reconnectTimer
  <2>1. Unused \in ClientState /\ ~Unused.reconnectTimer
    BY AttemptsAssumption DEF Unused, ClientState
  <2>2. Unused.pingTimer = FALSE /\ (Unused.ws = "open") = FALSE
    BY DEF Unused
  <2>3. QED
    BY <2>1, <2>2, ClosureSteps
<1>4. /\ left \in ClientState /\ left.ws \in {"closing", "closed"} /\ left.manuallyClosed
      /\ ~left.pingTimer /\ ~left.reconnectTimer
  BY <1>1, CloseClient, ClosureSteps
<1> HIDE DEF fresh, left
<1>5. /\ client'[c] = fresh
      /\ current # c => client'[current] = left
      /\ \A d \in Clients \ {c, current} : client'[d] = client[d]
  BY <1>1, <1>2
<1>6. SocketTypeOK'
  BY <1>1, <1>2, <1>3, <1>4 DEF SocketTypeOK, Statuses
<1>7. NoClientLingers'
  BY <1>2, <1>4, <1>5 DEF SocketInv, OneSocket, NoClientLingers
<1>8. TimersFollowSocket'
  <2> SUFFICES ASSUME NEW d \in Clients
               PROVE  /\ client'[d].pingTimer = (client'[d].ws = "open")
                      /\ client'[d].reconnectTimer => client'[d].ws = "closed"
    BY DEF TimersFollowSocket
  <2>1. CASE d \in {c, current}
    <3>1. client'[d].pingTimer = FALSE
      BY <2>1, <1>3, <1>4, <1>5 DEF ClientState
    <3>2. QED
      BY <2>1, <1>3, <1>4, <1>5, <3>1
  <2>2. CASE d \notin {c, current}
    BY <2>2, <1>5, CloseClient
  <2>3. QED
    BY <2>1, <2>2
<1>9. StatusHasGround'
  BY <1>1, <1>2, <1>3, <1>5, ClientsAssumption DEF StatusHasGround
<1>10. QED
  BY <1>6, <1>7, <1>8, <1>9 DEF SocketInv, OneSocket

\* A step of one closure that keeps its own two facts keeps the invariant, if
\* the closure is the current one or stays let go of, and the status has ground.
LEMMA OneClosureChanges ==
  ASSUME SocketInv, NEW c \in Clients, NEW t \in ClientState,
         client' = [client EXCEPT ![c] = t], current' = current, status' \in Statuses,
         t.pingTimer = (t.ws = "open"), t.reconnectTimer => t.ws = "closed",
         \/ c = current
         \/ t.ws \in {"closing", "closed"} /\ t.manuallyClosed /\ ~t.pingTimer /\ ~t.reconnectTimer,
         StatusHasGround'
  PROVE  SocketInv'
<1>1. client \in [Clients -> ClientState]
  BY DEF SocketInv, SocketTypeOK
<1>2. client'[c] = t /\ \A d \in Clients \ {c} : client'[d] = client[d]
  BY <1>1
<1>3. SocketTypeOK'
  BY <1>1 DEF SocketInv, SocketTypeOK
<1>4. NoClientLingers'
  BY <1>2 DEF SocketInv, OneSocket, NoClientLingers
<1>5. TimersFollowSocket'
  BY <1>2 DEF SocketInv, OneSocket, TimersFollowSocket
<1>6. QED
  BY <1>3, <1>4, <1>5 DEF SocketInv, OneSocket

LEMMA OnOpenInv == \A c \in Clients : SocketInv /\ OnOpen(c) => SocketInv'
<1> SUFFICES ASSUME NEW c \in Clients, SocketInv, OnOpen(c) PROVE SocketInv'
  OBVIOUS
<1> DEFINE t == [client[c] EXCEPT !.ws = "open", !.attempts = 0, !.pingTimer = TRUE]
<1>1. client[c] \in ClientState /\ client[c].ws = "connecting" /\ ~client[c].reconnectTimer
  BY CloseClient DEF OnOpen
<1>2. c = current /\ current # NoClient
  BY <1>1, OthersAreDone
<1>3. client \in [Clients -> ClientState]
  BY DEF SocketInv, SocketTypeOK
<1>4. client' = [client EXCEPT ![c] = t] /\ current' = current /\ status' = "connected"
  BY <1>3 DEF OnOpen
<1>5. t \in ClientState /\ t.ws = "open" /\ t.pingTimer = TRUE /\ ~t.reconnectTimer
  <2>1. 0 \in 0..MaxReconnectAttempts
    BY AttemptsAssumption
  <2>2. t \in ClientState /\ t.ws = "open" /\ t.pingTimer = TRUE
    BY <1>1, <2>1 DEF ClientState
  <2>3. t.reconnectTimer = client[c].reconnectTimer
    BY <1>1 DEF ClientState
  <2>4. QED
    BY <1>1, <2>2, <2>3
<1>6. StatusHasGround'
  BY <1>2, <1>4 DEF StatusHasGround
<1>7. QED
  <2> HIDE DEF t
  <2>1. t.pingTimer = (t.ws = "open")
    BY <1>5
  <2>2. QED
    BY <2>1, <1>2, <1>4, <1>5, <1>6, OneClosureChanges DEF Statuses

LEMMA OnCloseInv == \A c \in Clients : SocketInv /\ OnClose(c) => SocketInv'
<1> SUFFICES ASSUME NEW c \in Clients, SocketInv, OnClose(c) PROVE SocketInv'
  OBVIOUS
<1> DEFINE t == Rescheduled([Timerless(client[c]) EXCEPT !.ws = "closed"])
<1>1. client[c] \in ClientState /\ client[c].ws # "none"
  BY CloseClient DEF OnClose
<1>2. /\ t \in ClientState /\ t.ws = "closed" /\ ~t.pingTimer
      /\ t.manuallyClosed = client[c].manuallyClosed
      /\ t.reconnectTimer <=> ~GivesUp(client[c])
  BY <1>1, RescheduledType
<1>3. client \in [Clients -> ClientState] /\ status \in Statuses
  BY DEF SocketInv, SocketTypeOK
<1>4. /\ client' = [client EXCEPT ![c] = t] /\ current' = current
      /\ status' = IF GivesUp(client[c]) THEN "disconnected" ELSE status
  BY <1>3 DEF OnClose
<1> HIDE DEF t
<1>5. client'[c] = t /\ status' \in Statuses
  BY <1>3, <1>4 DEF Statuses
<1>6. c = current \/ (t.manuallyClosed /\ ~t.reconnectTimer)
  <2> SUFFICES ASSUME c # current PROVE t.manuallyClosed /\ ~t.reconnectTimer
    OBVIOUS
  <2>1. client[c].manuallyClosed
    BY <1>1 DEF SocketInv, OneSocket, NoClientLingers
  <2>2. QED
    BY <2>1, <1>2 DEF GivesUp
<1>7. StatusHasGround'
  <2>1. CASE GivesUp(client[c])
    BY <2>1, <1>4 DEF StatusHasGround
  <2>2. CASE ~GivesUp(client[c])
    <3>1. c = current /\ t.reconnectTimer /\ status' = status
      BY <2>2, <1>2, <1>4, <1>6
    <3>2. current # NoClient
      BY <3>1, ClientsAssumption
    <3>3. QED
      BY <3>1, <3>2, <1>4, <1>5 DEF StatusHasGround
  <2>3. QED
    BY <2>1, <2>2
<1>8. t.pingTimer = (t.ws = "open")
  <2>1. t.pingTimer = FALSE
    BY <1>2 DEF ClientState
  <2>2. QED
    BY <2>1, <1>2
<1>9. QED
  BY <1>2, <1>4, <1>5, <1>6, <1>7, <1>8, OneClosureChanges

LEMMA ReconnectInv == \A c \in Clients : SocketInv /\ Reconnect(c) => SocketInv'
<1> SUFFICES ASSUME NEW c \in Clients, SocketInv, Reconnect(c) PROVE SocketInv'
  OBVIOUS
<1> DEFINE t == Connecting(client[c])
<1>1. client[c] \in ClientState /\ client[c].reconnectTimer
  BY CloseClient DEF Reconnect
<1>2. c = current /\ current # NoClient
  BY <1>1, OthersAreDone
<1>3. /\ t \in ClientState /\ t.ws = "connecting" /\ ~t.pingTimer /\ ~t.reconnectTimer
  BY CloseClient, ClosureSteps
<1>4. client \in [Clients -> ClientState]
  BY DEF SocketInv, SocketTypeOK
<1>5. client' = [client EXCEPT ![c] = t] /\ current' = current /\ status' = "connecting"
  BY <1>4 DEF Reconnect
<1> HIDE DEF t
<1>6. StatusHasGround'
  BY <1>2, <1>3, <1>4, <1>5 DEF StatusHasGround
<1>7. t.pingTimer = (t.ws = "open")
  <2>1. t.pingTimer = FALSE
    BY <1>3 DEF ClientState
  <2>2. QED
    BY <2>1, <1>3
<1>8. QED
  BY <1>2, <1>3, <1>5, <1>6, <1>7, OneClosureChanges DEF Statuses

LEMMA SocketStepInv == SocketInv /\ [SocketNext]_socketVars => SocketInv'
<1> SUFFICES ASSUME SocketInv, [SocketNext]_socketVars PROVE SocketInv'
  OBVIOUS
<1>1. CASE Enable
  BY <1>1, EnableInv
<1>2. CASE Disable
  BY <1>2, DisableInv
<1>3. CASE \E c \in Clients : SocketEvent(c)
  BY <1>3, OnOpenInv, OnCloseInv, ReconnectInv DEF SocketEvent
<1>4. CASE UNCHANGED socketVars
  BY <1>4 DEF socketVars, SocketInv, SocketTypeOK, OneSocket, NoClientLingers,
              TimersFollowSocket, StatusHasGround
<1>5. CASE Reopen
  BY <1>5, ReopenInv
<1>6. QED
  BY <1>1, <1>2, <1>3, <1>4, <1>5 DEF SocketNext

\* However clients are opened, closed, connected and lost, whatever the order
\* of their events, there is one socket and the status has a ground
\* (services/websocket.ts, hooks/useRoomWebSocket.ts).
THEOREM SocketInvariant == SocketSpec => []SocketInv
<1>1. QED
  BY SocketInitInv, SocketStepInv, PTL DEF SocketSpec

-----------------------------------------------------------------------------
(* The page.  Its steps are the socket's, or leave the socket alone.       *)

\* The effects are the hook's: it opens a client, closes one, or does nothing.
LEMMA EffectsOnSocket ==
  (Effects => [SocketNext]_socketVars) /\ \A u : RejoinEffects(u) => [SocketNext]_socketVars
BY DEF Effects, RejoinEffects, SocketEffect, SocketNext

LEMMA PageStepIsSocketStep == [Next]_vars => [SocketNext]_socketVars
<1> SUFFICES ASSUME [Next]_vars PROVE [SocketNext]_socketVars
  OBVIOUS
<1>1. CASE Navigation
  BY <1>1, EffectsOnSocket DEF Navigation, Mount, Switch, Unmount
<1>2. CASE LoadFails \/ \E auto \in BOOLEAN : LoadAnswered(auto)
  BY <1>2, EffectsOnSocket DEF LoadFails, LoadAnswered
<1>3. ASSUME NEW u \in Users, Request(u) PROVE [SocketNext]_socketVars
  <2>1. CASE ClickJoin(u) \/ JoinServed(u) \/ JoinAnswered(u) \/ JoinFails(u)
    BY <2>1, EffectsOnSocket DEF ClickJoin, JoinServed, JoinAnswered, JoinFails
  <2>2. CASE LeaveServed(u) \/ LeaveLost(u)
    BY <2>2 DEF LeaveServed, LeaveLost, socketVars
  <2>3. QED
    BY <1>3, <2>1, <2>2 DEF Request
<1>4. CASE \E c \in Clients : SocketEvent(c) /\ UNCHANGED pageVars
  BY <1>4 DEF SocketNext
<1>5. CASE UNCHANGED vars
  BY <1>5 DEF vars, socketVars
<1>6. QED
  BY <1>1, <1>2, <1>3, <1>4, <1>5 DEF Next

\* A room page is a user of the socket that RoomSocket describes
\* (pages/RoomPage.tsx:175-180).
THEOREM PageImplementsSocket == Spec => SocketSpec
<1>1. Init => SocketInit
  BY DEF Init
<1>2. QED
  BY <1>1, PageStepIsSocketStep, PTL DEF Spec, SocketSpec

\* Wherever the user walks and whatever the requests do, the page keeps one
\* socket, without a timer or a connection of a room it has left.
THEOREM PageKeepsOneSocket == Spec => []OneSocket
<1>1. SocketInv => OneSocket
  BY DEF SocketInv
<1>2. QED
  BY <1>1, PageImplementsSocket, SocketInvariant, PTL

\* What the header says of the connection has a ground on every page.
THEOREM PageStatusHasGround == Spec => []StatusHasGround
<1>1. SocketInv => StatusHasGround
  BY DEF SocketInv
<1>2. QED
  BY <1>1, PageImplementsSocket, SocketInvariant, PTL

-----------------------------------------------------------------------------
(* Types.                                                                  *)

LEMMA InitType == Init => TypeOK
<1> SUFFICES ASSUME Init PROVE TypeOK
  OBVIOUS
<1>1. SocketTypeOK
  BY SocketInitInv DEF Init, SocketInv
<1>2. QED
  BY <1>1 DEF Init, TypeOK, Join, Routes

\* One join of the page changes its phase, or whose it is.
LEMMA JoinReqType ==
  ASSUME joinReq \in [Users -> Join], NEW u \in Users,
         NEW p \in {"none", "sent", "served", "done"}, NEW b \in BOOLEAN
  PROVE  /\ [joinReq EXCEPT ![u] = [phase |-> p, mine |-> b]] \in [Users -> Join]
         /\ [joinReq EXCEPT ![u].phase = p] \in [Users -> Join]
BY DEF Join

\* Whoever the page is, leaving is about users.
LEMMA LeaveEffectType ==
  ASSUME TypeOK, me' \in Users \cup {NoUser}, LeaveEffect
  PROVE  leaving' \subseteq Users
BY DEF TypeOK, LeaveEffect, Present

LEMMA PageTypeStep == TypeOK /\ SocketTypeOK' /\ [Next]_vars => TypeOK'
<1> SUFFICES ASSUME TypeOK, SocketTypeOK', [Next]_vars PROVE TypeOK'
  OBVIOUS
<1> USE DEF TypeOK
<1>1. ASSUME NEW r \in Routes, Mount(r) PROVE TypeOK'
  BY <1>1, LeaveEffectType DEF Mount, DemoEffect, LoadEffect, Effects
<1>2. CASE Switch
  BY <1>2, LeaveEffectType DEF Switch, DemoEffect, LoadEffect, Effects, Routes
<1>3. CASE Unmount
  <2>1. joinReq' \in [Users -> Join]
    BY <1>3 DEF Unmount, Join
  <2>2. QED
    BY <1>3, <2>1, LeaveEffectType DEF Unmount, Effects, Routes
<1>4. CASE LoadFails
  BY <1>4, LeaveEffectType DEF LoadFails, Effects
<1>5. ASSUME NEW auto \in BOOLEAN, LoadAnswered(auto) PROVE TypeOK'
  <2>1. joinReq' \in [Users -> Join] /\ loading' \in BOOLEAN /\ loadError' \in BOOLEAN
    <3>1. CASE auto
      <4>1. PICK u \in Users : SendJoin(u)
        BY <1>5, <3>1 DEF LoadAnswered
      <4>2. QED
        BY <4>1, JoinReqType DEF SendJoin
    <3>2. CASE ~auto
      BY <1>5, <3>2 DEF LoadAnswered
    <3>3. QED
      BY <3>1, <3>2
  <2>2. QED
    BY <1>5, <2>1, LeaveEffectType DEF LoadAnswered, Effects
<1>6. ASSUME NEW u \in Users, Request(u) PROVE TypeOK'
  <2>1. CASE ClickJoin(u)
    BY <2>1, JoinReqType, LeaveEffectType DEF ClickJoin, SendJoin, Effects
  <2>2. CASE JoinServed(u)
    BY <2>2, JoinReqType, LeaveEffectType DEF JoinServed, Effects
  <2>3. CASE JoinAnswered(u)
    <3>1. joinReq' \in [Users -> Join]
      BY <2>3, JoinReqType DEF JoinAnswered
    <3>2. joined' \in BOOLEAN /\ loading' \in BOOLEAN /\ loadReq' \in BOOLEAN
      BY <2>3 DEF JoinAnswered
    <3>3. QED
      BY <2>3, <3>1, <3>2, LeaveEffectType DEF JoinAnswered, RejoinEffects
  <2>4. CASE JoinFails(u)
    <3>1. joinReq' \in [Users -> Join]
      BY <2>4, JoinReqType DEF JoinFails
    <3>2. loading' \in BOOLEAN /\ loadError' \in BOOLEAN
      BY <2>4 DEF JoinFails, JoinError
    <3>3. QED
      BY <2>4, <3>1, <3>2, LeaveEffectType DEF JoinFails, Effects
  <2>5. CASE LeaveServed(u) \/ LeaveLost(u)
    BY <2>5 DEF LeaveServed, LeaveLost
  <2>6. QED
    BY <1>6, <2>1, <2>2, <2>3, <2>4, <2>5 DEF Request
<1>7. CASE \E c \in Clients : SocketEvent(c) /\ UNCHANGED pageVars
  BY <1>7 DEF pageVars
<1>8. CASE UNCHANGED vars
  BY <1>8 DEF vars, pageVars
<1>9. QED
  BY <1>1, <1>2, <1>3, <1>4, <1>5, <1>6, <1>7, <1>8 DEF Next, Navigation

\* Every variable of the page keeps its type.
THEOREM PageTypeCorrect == Spec => []TypeOK
<1>1. SocketInv => SocketTypeOK
  BY DEF SocketInv
<1>2. QED
  BY <1>1, InitType, PageTypeStep, PageImplementsSocket, SocketInvariant, PTL DEF Spec

-----------------------------------------------------------------------------
(* What the page shows.  LoadingHasReason alone is not inductive: a page   *)
(* that goes to the demo room gives its load up and still says it is        *)
(* loading, and is saved by the load it begins when it comes back, which   *)
(* it does as long as it has not joined.                                   *)

Pending == \E u \in Users : joinReq[u].mine /\ joinReq[u].phase \in {"sent", "served"}

LoadInv ==
  /\ loadReq => route = "room" /\ ~joined
  /\ route = "away" => ~loading /\ ~joined /\ \A u \in Users : ~joinReq[u].mine
  /\ loading => loadReq \/ Pending \/ (route = "demo" /\ ~joined)

PageInv == TypeOK /\ LoadInv /\ JoinedPageIsLive

LEMMA InitPage == Init => LoadInv /\ JoinedPageIsLive
BY DEF Init, LoadInv, JoinedPageIsLive

\* A step that leaves the loading state alone keeps its reasons.
LEMMA LoadInvKept ==
  ASSUME LoadInv, JoinedPageIsLive,
         UNCHANGED <<route, joined, session, loading, loadReq, joinReq>>
  PROVE  LoadInv' /\ JoinedPageIsLive'
BY DEF LoadInv, JoinedPageIsLive, Pending

\* What a navigation may leave of the reasons.
LEMMA NavigationInv == PageInv /\ Navigation => LoadInv' /\ JoinedPageIsLive'
<1> SUFFICES ASSUME PageInv, Navigation PROVE LoadInv' /\ JoinedPageIsLive'
  OBVIOUS
<1> USE DEF PageInv, LoadInv, JoinedPageIsLive
<1>1. ASSUME NEW r \in Routes, Mount(r) PROVE LoadInv' /\ JoinedPageIsLive'
  BY <1>1 DEF Mount, LoadEffect, DemoEffect, Pending
<1>2. CASE Switch
  <2>1. (joined' <=> joined) /\ (Pending' <=> Pending) /\ route' \in {"demo", "room"}
    BY <1>2 DEF Switch, Pending
  <2>2. loadReq' <=> route' = "room" /\ ~joined
    BY <1>2 DEF Switch, LoadEffect
  <2>3. ~loadReq' => (loading' <=> loading)
    BY <1>2 DEF Switch, LoadEffect
  <2>4. joined => session' = "live"
    BY <1>2 DEF Switch, DemoEffect
  <2>5. loading' => loadReq' \/ Pending' \/ (route' = "demo" /\ ~joined')
    BY <2>1, <2>2, <2>3
  <2>6. QED
    BY <2>1, <2>2, <2>4, <2>5
<1>3. CASE Unmount
  <2>1. \A u \in Users : ~joinReq'[u].mine
    BY <1>3 DEF Unmount, TypeOK, Join
  <2>2. route' = "away" /\ joined' = FALSE /\ loading' = FALSE /\ loadReq' = FALSE
    BY <1>3 DEF Unmount
  <2>3. QED
    BY <2>1, <2>2
<1>4. QED
  BY <1>1, <1>2, <1>3 DEF Navigation

\* A join that is sent is a reason.
LEMMA SentIsPending == \A u \in Users : TypeOK /\ SendJoin(u) => Pending'
<1> SUFFICES ASSUME NEW u \in Users, TypeOK, SendJoin(u) PROVE Pending'
  OBVIOUS
<1>1. joinReq'[u] = [phase |-> "sent", mine |-> TRUE]
  BY DEF SendJoin, TypeOK
<1>2. QED
  BY <1>1 DEF Pending

LEMMA LoadStepInv ==
  PageInv /\ (LoadFails \/ \E auto \in BOOLEAN : LoadAnswered(auto)) => LoadInv' /\ JoinedPageIsLive'
<1> SUFFICES ASSUME PageInv, LoadFails \/ \E auto \in BOOLEAN : LoadAnswered(auto)
             PROVE  LoadInv' /\ JoinedPageIsLive'
  OBVIOUS
<1> USE DEF PageInv, LoadInv, JoinedPageIsLive
<1>1. CASE LoadFails
  BY <1>1 DEF LoadFails
<1>2. ASSUME NEW auto \in BOOLEAN, LoadAnswered(auto) PROVE LoadInv' /\ JoinedPageIsLive'
  <2>1. route' = "room" /\ loadReq' = FALSE /\ ~joined'
    BY <1>2 DEF LoadAnswered
  <2>2. loading' => Pending'
    BY <1>2, SentIsPending DEF LoadAnswered
  <2>3. QED
    BY <2>1, <2>2
<1>3. QED
  BY <1>1, <1>2

\* The answer to one join leaves every other join that is waited for.
LEMMA OthersStayPending ==
  ASSUME TypeOK, NEW u \in Users, NEW p \in {"served", "done"},
         joinReq' = [joinReq EXCEPT ![u].phase = p]
  PROVE  /\ \A w \in Users : joinReq'[w].mine = joinReq[w].mine
         /\ Pending /\ (~joinReq[u].mine \/ p = "served") => Pending'
<1>1. /\ joinReq'[u].mine = joinReq[u].mine /\ joinReq'[u].phase = p
      /\ \A w \in Users \ {u} : joinReq'[w] = joinReq[w]
  BY DEF TypeOK, Join
<1>2. ASSUME Pending, ~joinReq[u].mine \/ p = "served" PROVE Pending'
  <2>1. PICK w \in Users : joinReq[w].mine /\ joinReq[w].phase \in {"sent", "served"}
    BY <1>2 DEF Pending
  <2>2. joinReq'[w].mine /\ joinReq'[w].phase \in {"sent", "served"}
    BY <1>1, <1>2, <2>1
  <2>3. QED
    BY <2>2 DEF Pending
<1>3. QED
  BY <1>1, <1>2

LEMMA JoinStepInv ==
  \A u \in Users : PageInv /\ Request(u) => LoadInv' /\ JoinedPageIsLive'
<1> SUFFICES ASSUME NEW u \in Users, PageInv, Request(u) PROVE LoadInv' /\ JoinedPageIsLive'
  OBVIOUS
<1> USE DEF PageInv
<1>1. CASE ClickJoin(u)
  <2>1. Pending' /\ route = "room"
    BY <1>1, SentIsPending DEF ClickJoin, FormShown
  <2>2. QED
    BY <1>1, <2>1 DEF ClickJoin, LoadInv, JoinedPageIsLive
<1>2. CASE JoinServed(u)
  <2>1. /\ joinReq' = [joinReq EXCEPT ![u].phase = "served"]
        /\ UNCHANGED <<route, joined, session, loading, loadReq>>
    BY <1>2 DEF JoinServed
  <2>2. (\A w \in Users : joinReq'[w].mine = joinReq[w].mine) /\ (Pending => Pending')
    BY <2>1, OthersStayPending
  <2>3. QED
    BY <2>1, <2>2 DEF LoadInv, JoinedPageIsLive
<1>3. CASE JoinAnswered(u)
  <2>1. /\ joinReq' = [joinReq EXCEPT ![u].phase = "done"]
        /\ route' = route /\ session' = "live"
    BY <1>3 DEF JoinAnswered
  <2>2. /\ \A w \in Users : joinReq'[w].mine = joinReq[w].mine
        /\ ~joinReq[u].mine /\ Pending => Pending'
    BY <2>1, OthersStayPending
  <2>3. CASE joinReq[u].mine
    <3>1. joined' = TRUE /\ loading' = FALSE /\ loadReq' = FALSE /\ route # "away"
      BY <1>3, <2>3 DEF JoinAnswered, LoadInv
    <3>2. QED
      BY <2>1, <3>1 DEF LoadInv, JoinedPageIsLive
  <2>4. CASE ~joinReq[u].mine
    <3>1. UNCHANGED <<joined, loading, loadReq>>
      BY <1>3, <2>4 DEF JoinAnswered
    <3>2. QED
      BY <2>1, <2>2, <2>4, <3>1 DEF LoadInv, JoinedPageIsLive
  <2>5. QED
    BY <2>3, <2>4
<1>4. CASE JoinFails(u)
  <2>1. /\ joinReq' = [joinReq EXCEPT ![u].phase = "done"]
        /\ UNCHANGED <<route, joined, session, loadReq>>
    BY <1>4 DEF JoinFails
  <2>2. /\ \A w \in Users : joinReq'[w].mine = joinReq[w].mine
        /\ ~joinReq[u].mine /\ Pending => Pending'
    BY <2>1, OthersStayPending
  <2>3. IF joinReq[u].mine THEN loading' = FALSE ELSE loading' = loading
    BY <1>4 DEF JoinFails, JoinError
  <2>4. QED
    BY <2>1, <2>2, <2>3 DEF LoadInv, JoinedPageIsLive
<1>5. CASE LeaveServed(u) \/ LeaveLost(u)
  BY <1>5, LoadInvKept DEF LeaveServed, LeaveLost
<1>6. QED
  BY <1>1, <1>2, <1>3, <1>4, <1>5 DEF Request

LEMMA PageInvStep == PageInv /\ [Next]_vars => LoadInv' /\ JoinedPageIsLive'
<1> SUFFICES ASSUME PageInv, [Next]_vars PROVE LoadInv' /\ JoinedPageIsLive'
  OBVIOUS
<1>1. CASE (\E c \in Clients : SocketEvent(c) /\ UNCHANGED pageVars) \/ UNCHANGED vars
  BY <1>1, LoadInvKept DEF PageInv, vars, pageVars
<1>2. QED
  BY <1>1, NavigationInv, LoadStepInv, JoinStepInv DEF Next

\* A page that has joined shows a live room, and one that says it is loading
\* is waiting for an answer, on every way through loads, joins and walks.
THEOREM PageShows == Spec => []PageShowsWhatIs
<1>1. PageInv => PageShowsWhatIs
  BY DEF PageInv, LoadInv, Pending, PageShowsWhatIs, LoadingHasReason
<1>2. Init /\ TypeOK => PageInv
  BY InitPage DEF PageInv
<1>3. PageInv /\ TypeOK' /\ [Next]_vars => PageInv'
  BY PageInvStep DEF PageInv
<1>4. Spec => []PageInv
  BY <1>2, <1>3, PageTypeCorrect, PTL DEF Spec
<1>5. QED
  BY <1>1, <1>4, PTL

-----------------------------------------------------------------------------
(* Whom the tab has put into the room.                                     *)

Served == {u \in Users : joinReq[u].phase = "served"}

\* Whoever stops being the page's user is on the way out.
LEMMA PresentLeaves ==
  ASSUME TypeOK, LeaveEffect
  PROVE  {Present} \cup leaving \subseteq {Present'} \cup leaving' \cup {NoUser}
BY DEF LeaveEffect

LEMMA AccountedKept ==
  ASSUME TypeOK, MembersAccountedFor, LeaveEffect,
         members' = members, strays \subseteq strays', Served \subseteq Served' \cup {Present'} \cup strays'
  PROVE  MembersAccountedFor'
<1>1. NoUser \notin members
  BY UsersAssumption DEF TypeOK
<1>2. members \subseteq {Present} \cup leaving \cup strays \cup Served
  BY DEF MembersAccountedFor, Served
<1>3. members' \subseteq {Present'} \cup leaving' \cup strays' \cup Served'
  BY <1>1, <1>2, PresentLeaves
<1>4. QED
  BY <1>3 DEF MembersAccountedFor, Served

\* What is done to one join leaves the others where they are.
LEMMA ServedAfter ==
  ASSUME TypeOK, NEW u \in Users, NEW p \in {"sent", "served", "done"},
         \/ joinReq' = [joinReq EXCEPT ![u].phase = p]
         \/ joinReq' = [joinReq EXCEPT ![u] = [phase |-> p, mine |-> TRUE]]
  PROVE  Served \ {u} \subseteq Served' /\ (p = "served" => u \in Served')
<1>1. joinReq'[u].phase = p /\ \A w \in Users \ {u} : joinReq'[w] = joinReq[w]
  BY DEF TypeOK, Join
<1>2. QED
  BY <1>1 DEF Served

LEMMA NotServedBefore == \A u \in Users : SendJoin(u) /\ TypeOK => Served \subseteq Served'
<1> SUFFICES ASSUME NEW u \in Users, SendJoin(u), TypeOK PROVE Served \subseteq Served'
  OBVIOUS
<1>1. u \notin Served
  BY DEF SendJoin, Served
<1>2. Served \ {u} \subseteq Served'
  <2>1. joinReq' = [joinReq EXCEPT ![u] = [phase |-> "sent", mine |-> TRUE]]
    BY DEF SendJoin
  <2>2. QED
    BY <2>1, ServedAfter
<1>3. QED
  BY <1>1, <1>2

LEMMA AccountedStep ==
  TypeOK /\ MembersAccountedFor /\ [Next]_vars => MembersAccountedFor'
<1> SUFFICES ASSUME TypeOK, MembersAccountedFor, [Next]_vars PROVE MembersAccountedFor'
  OBVIOUS
<1>1. CASE Navigation
  <2>1. Served \subseteq Served'
    <3>1. joinReq' = joinReq \/ \A w \in Users : joinReq'[w].phase = joinReq[w].phase
      BY <1>1 DEF Navigation, Mount, Switch, Unmount, TypeOK, Join
    <3>2. QED
      BY <3>1 DEF Served
  <2>2. QED
    BY <1>1, <2>1, AccountedKept DEF Navigation, Mount, Switch, Unmount, Effects
<1>2. CASE LoadFails
  BY <1>2, AccountedKept DEF LoadFails, Effects, Served
<1>3. ASSUME NEW auto \in BOOLEAN, LoadAnswered(auto) PROVE MembersAccountedFor'
  <2>1. Served \subseteq Served'
    BY <1>3, NotServedBefore DEF LoadAnswered, Served
  <2>2. QED
    BY <1>3, <2>1, AccountedKept DEF LoadAnswered, Effects
<1>4. ASSUME NEW u \in Users, Request(u) PROVE MembersAccountedFor'
  <2>1. CASE ClickJoin(u)
    <3>1. Served \subseteq Served'
      BY <2>1, NotServedBefore DEF ClickJoin
    <3>2. QED
      BY <2>1, <3>1, AccountedKept DEF ClickJoin, Effects
  <2>2. CASE JoinServed(u)
    <3>1. Served \subseteq Served' /\ u \in Served'
      BY <2>2, ServedAfter DEF JoinServed
    <3>2. /\ UNCHANGED <<strays, leaving>> /\ Present' = Present
          /\ members' = members \cup {u}
      <4>1. UNCHANGED <<route, me, strays>> /\ members' = members \cup {u} /\ LeaveEffect
        BY <2>2 DEF JoinServed, Effects
      <4>2. QED
        BY <4>1 DEF LeaveEffect, Present
    <3>3. QED
      BY <3>1, <3>2 DEF MembersAccountedFor, Served
  <2>3. CASE JoinAnswered(u)
    <3>1. Served \ {u} \subseteq Served'
      BY <2>3, ServedAfter DEF JoinAnswered
    <3>2. u \in {Present'} \cup strays' /\ strays \subseteq strays'
      BY <2>3 DEF JoinAnswered, Present
    <3>3. QED
      BY <2>3, <3>1, <3>2, AccountedKept DEF JoinAnswered, RejoinEffects
  <2>4. CASE JoinFails(u)
    <3>1. Served \ {u} \subseteq Served'
      BY <2>4, ServedAfter DEF JoinFails
    <3>2. (u \in Served => u \in strays') /\ strays \subseteq strays'
      BY <2>4 DEF JoinFails, Served
    <3>3. QED
      BY <2>4, <3>1, <3>2, AccountedKept DEF JoinFails, Effects
  <2>5. CASE LeaveServed(u)
    BY <2>5 DEF LeaveServed, MembersAccountedFor, Present
  <2>6. CASE LeaveLost(u)
    BY <2>6 DEF LeaveLost, MembersAccountedFor, Present
  <2>7. QED
    BY <1>4, <2>1, <2>2, <2>3, <2>4, <2>5, <2>6 DEF Request
<1>5. CASE (\E c \in Clients : SocketEvent(c) /\ UNCHANGED pageVars) \/ UNCHANGED vars
  BY <1>5 DEF MembersAccountedFor, Present, pageVars, vars
<1>6. QED
  BY <1>1, <1>2, <1>3, <1>4, <1>5 DEF Next

\* Every participant a tab has put into the room is shown, on the way in, on
\* the way out, or a stray (pages/RoomPage.tsx:182-187).
THEOREM MembersAreAccountedFor == Spec => []MembersAccountedFor
<1>1. Init => MembersAccountedFor
  BY DEF Init, MembersAccountedFor
<1>2. QED
  BY <1>1, AccountedStep, PageTypeCorrect, PTL DEF Spec
=============================================================================
