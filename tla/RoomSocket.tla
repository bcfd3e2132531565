----------------------------- MODULE RoomSocket -----------------------------
(***************************************************************************)
(* The reconnecting WebSocket of a room page: connectRoomWebSocket         *)
(* (services/websocket.ts), the hook that opens and closes it              *)
(* (hooks/useRoomWebSocket.ts) and the status both write                   *)
(* (context/ConnectionContext.tsx).                                        *)
(*                                                                         *)
(* Every run of the hook's effect makes a client, a closure with a socket, *)
(* two timers and a count of attempts, whose event handlers stay attached  *)
(* when the client is closed.  Events of an old client and of its          *)
(* successor interleave; all of them write the one shared status.          *)
(***************************************************************************)
EXTENDS Naturals

CONSTANTS Clients,                \* closures that may exist at one time
          NoClient,
          MaxReconnectAttempts    \* 20 in the code

ASSUME ClientsAssumption == NoClient \notin Clients
ASSUME AttemptsAssumption == MaxReconnectAttempts \in Nat

VARIABLES
  client,     \* the closures: socket, timers, attempts, manuallyClosed
  current,    \* the client liveSender sends through, NoClient when null
  status      \* what ConnectionContext shows

socketVars == <<client, current, status>>

Statuses == {"connecting", "connected", "disconnected"}

(* The state of one closure; ws is the readyState of its latest socket.     *)
ClientState == [ws : {"none", "connecting", "open", "closing", "closed"},
                manuallyClosed : BOOLEAN, pingTimer : BOOLEAN, reconnectTimer : BOOLEAN,
                attempts : 0..MaxReconnectAttempts]

Unused == [ws |-> "none", manuallyClosed |-> FALSE, pingTimer |-> FALSE,
           reconnectTimer |-> FALSE, attempts |-> 0]

(* A closure that was never made, or that can do nothing any more.         *)
Finished(c) ==
  \/ client[c].ws = "none"
  \/ client[c].ws = "closed" /\ client[c].manuallyClosed

Timerless(s) == [s EXCEPT !.pingTimer = FALSE, !.reconnectTimer = FALSE]

Connecting(s) == [Timerless(s) EXCEPT !.ws = "connecting"]

SocketInit ==
  /\ client = [c \in Clients |-> Unused]
  /\ current = NoClient
  /\ status = "disconnected"

(* The hook's effect with enabled: a new client connects at once.          *)
Enable ==
  /\ current = NoClient
  /\ \E c \in Clients :
       /\ Finished(c)
       /\ client' = [client EXCEPT ![c] = Connecting(Unused)]
       /\ current' = c
  /\ status' = "connecting"

\* Slip: close forgets to say that it was asked for.
ClosedUnasked(s) ==
  [Timerless(s) EXCEPT !.ws = IF s.ws = "closed" THEN "closed" ELSE "closing"]

Closed(s) ==
  [Timerless(s) EXCEPT !.manuallyClosed = TRUE,
                       !.ws = IF s.ws = "closed" THEN "closed" ELSE "closing"]

\* Slip: close leaves it to the close event to set the status.
SilentClose == UNCHANGED status

ReportClosed == status' = "disconnected"

(* The effect's cleanup: liveSender is cleared, the client closed.  Its    *)
(* socket's close event is still to come.                                  *)
Disable ==
  /\ current # NoClient
  /\ client' = [client EXCEPT ![current] = Closed(@)]
  /\ current' = NoClient
  /\ ReportClosed

(* The effect's cleanup and its next run at once: the name that is sent as  *)
(* the join has changed.  A client that was closed before is done with.    *)
Reopen ==
  /\ current # NoClient
  /\ \E c \in Clients :
       /\ Finished(c) \/ (c = current /\ client[c].ws = "closed")
       /\ client' = [client EXCEPT ![current] = Closed(@), ![c] = Connecting(Unused)]
       /\ current' = c
  /\ status' = "connecting"

(* onopen; the join it sends is the first message of the connection.       *)
OnOpen(c) ==
  /\ client[c].ws = "connecting"
  /\ client' = [client EXCEPT ![c].ws = "open", ![c].attempts = 0, ![c].pingTimer = TRUE]
  /\ status' = "connected"
  /\ UNCHANGED current

\* Slip: one attempt too many.
GivesUpLate(s) == s.manuallyClosed \/ s.attempts > MaxReconnectAttempts

GivesUp(s) == s.manuallyClosed \/ s.attempts >= MaxReconnectAttempts

\* Slip: the attempts are not counted.
RescheduledUncounted(s) == IF GivesUp(s) THEN s ELSE [s EXCEPT !.reconnectTimer = TRUE]

(* scheduleReconnect                                                       *)
Rescheduled(s) ==
  IF GivesUp(s) THEN s ELSE [s EXCEPT !.attempts = @ + 1, !.reconnectTimer = TRUE]

(* onclose: the attempt failed, the connection broke, or close was called.  *)
OnClose(c) ==
  /\ client[c].ws \in {"connecting", "open", "closing"}
  /\ client' = [client EXCEPT ![c] = Rescheduled([Timerless(@) EXCEPT !.ws = "closed"])]
  /\ status' = IF GivesUp(client[c]) THEN "disconnected" ELSE status
  /\ UNCHANGED current

(* The reconnect timer calls connect.                                      *)
Reconnect(c) ==
  /\ client[c].reconnectTimer
  /\ client' = [client EXCEPT ![c] = Connecting(@)]
  /\ status' = "connecting"
  /\ UNCHANGED current

SocketEvent(c) == OnOpen(c) \/ OnClose(c) \/ Reconnect(c)

SocketNext == Enable \/ Disable \/ Reopen \/ \E c \in Clients : SocketEvent(c)

SocketSpec == SocketInit /\ [][SocketNext]_socketVars

(* The browser answers every connection attempt and every close, and its   *)
(* timers fire.  Nothing says that an attempt succeeds.                    *)
SocketFairness ==
  \A c \in Clients : /\ WF_socketVars(client[c].ws = "connecting" /\ (OnOpen(c) \/ OnClose(c)))
                     /\ WF_socketVars(client[c].ws = "closing" /\ OnClose(c))
                     /\ WF_socketVars(Reconnect(c))

-----------------------------------------------------------------------------
(* Every variable of the socket has its type.                              *)
SocketTypeOK ==
  /\ client \in [Clients -> ClientState]
  /\ current \in Clients \cup {NoClient}
  /\ status \in Statuses

(* A client the page has let go of can never come back: it is closed or    *)
(* closing, by hand, and holds no timer.  Otherwise a late close event     *)
(* would reconnect a room the user has left (websocket.ts:81-84, 127-131). *)
NoClientLingers ==
  \A c \in Clients \ {current} :
    \/ client[c].ws = "none"
    \/ /\ client[c].ws \in {"closing", "closed"}
       /\ client[c].manuallyClosed
       /\ ~client[c].pingTimer /\ ~client[c].reconnectTimer

(* A client pings exactly while its socket is open and waits to reconnect  *)
(* only when it is closed, so that there is never a second interval and    *)
(* never a second socket beside a live one (websocket.ts:67-76, 115-121).  *)
TimersFollowSocket ==
  \A c \in Clients : /\ client[c].pingTimer = (client[c].ws = "open")
                     /\ client[c].reconnectTimer => client[c].ws = "closed"

(* The two together: whatever the page goes through, it keeps one socket.   *)
OneSocket == NoClientLingers /\ TimersFollowSocket

(* What the page says has a ground: a page without a client says           *)
(* "disconnected", and one that says "connecting" has a socket on its way   *)
(* or a timer that will open one, whatever the close events of earlier     *)
(* sockets still report (websocket.ts:90-92, 115-121).                     *)
StatusHasGround ==
  /\ status # "disconnected" => current # NoClient
  /\ status = "connecting" => \/ client[current].ws = "connecting"
                              \/ client[current].reconnectTimer

(* A page in a room is connected, has given up after the last attempt, or  *)
(* has left: it never stays in between (websocket.ts:81-88, 115-122).      *)
PageSettles ==
  \A c \in Clients :
    current = c ~> \/ current # c
                   \/ client[c].ws = "open"
                   \/ client[c].ws = "closed" /\ client[c].attempts = MaxReconnectAttempts
                      /\ ~client[c].reconnectTimer /\ status = "disconnected"
=============================================================================
