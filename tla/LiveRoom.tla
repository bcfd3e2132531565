------------------------------ MODULE LiveRoom ------------------------------
(***************************************************************************)
(* The live side of one room: the goroutine that serves each WebSocket     *)
(* connection (api/handlers/websocket.go) and the hub's event loop         *)
(* (providers/hub.go), joined by the hub's three bounded channels.         *)
(*                                                                         *)
(* A connection's goroutine registers the client, calls its messages one   *)
(* after another, and cleans up when a read fails.  Each call of a         *)
(* service, each send on a channel and each message the hub writes is a    *)
(* step of its own.  Of the session only the participants and their online *)
(* flags are kept (VotingRoom has the rest), and of the messages only the  *)
(* broadcasts, numbered in the order in which they enter the channel: a    *)
(* write to a single client (room_state, pong, error) changes no state of  *)
(* the server.  Once the room is closed or has expired every call of a     *)
(* service returns an error.                                               *)
(***************************************************************************)
EXTENDS Integers, Sequences, FiniteSets

CONSTANTS
  Conns,          \* connections; a client that reconnects has another one
  Users,          \* ids generateUserID hands out
  RegisterCap,    \* capacity of hub.register, and of hub.unregister
  BroadcastCap,   \* capacity of hub.broadcast
  MaxCalls,       \* bound: client messages and REST calls that have an effect
  Nil

ASSUME CapAssumption == /\ RegisterCap \in Nat \ {0}
                        /\ BroadcastCap \in Nat \ {0}
                        /\ MaxCalls \in Nat
ASSUME NilAssumption == Nil \notin Users

VARIABLES
  stored,      \* is the room in the store?
  issued,      \* user ids handed out
  members,     \* keys of Session.Participants
  online,      \* those whose IsOnline is set
  open,        \* connections whose client is still there
  pc,          \* where each connection's goroutine is
  joining,     \* handleJoin's user
  user,        \* wsClient.userID
  register, unregister, broadcast,  \* the hub's channels
  posted,      \* broadcasts that entered the channel so far
  clients,     \* hub.rooms[room]
  todo,        \* the writes the hub still has to make: client and message
  got,         \* last broadcast each client received
  calls,       \* client messages and REST calls with an effect so far
  usedBy       \* for the properties: who was ever joined as each user

session == <<stored, issued, members, online>>
channels == <<register, unregister, broadcast, posted>>
hub == <<clients, todo, got>>
vars == <<session, open, pc, joining, user, channels, hub, calls, usedBy>>

Init ==
  /\ stored = TRUE
  /\ \E creator \in Users : issued = {creator} /\ members = {creator}
  /\ online = {}
  /\ open = {}
  /\ pc = [c \in Conns |-> "out"]
  /\ joining = [c \in Conns |-> Nil]
  /\ user = [c \in Conns |-> Nil]
  /\ register = <<>> /\ unregister = <<>> /\ broadcast = <<>>
  /\ posted = 0
  /\ clients = {} /\ todo = {}
  /\ got = [c \in Conns |-> 0]
  /\ calls = 0
  /\ usedBy = [u \in Users |-> {}]

-----------------------------------------------------------------------------
(* Steps of a goroutine *)

\* Slips that the checks below must notice; no action uses them.
AnyoneJoins(u) == TRUE
StaysAsItWas(u) == UNCHANGED online
RoomGoes(c) == clients' = {}
Newest == broadcast[Len(broadcast)]
WrittenIfOpen(w) == IF w[1] \in open THEN todo \ {w} ELSE todo

Goto(c, label) == pc' = [pc EXCEPT ![c] = label]

\* hub.Broadcast: the goroutine waits while the channel is full.
Post ==
  /\ Len(broadcast) < BroadcastCap
  /\ broadcast' = Append(broadcast, posted + 1)
  /\ posted' = posted + 1
  /\ UNCHANGED <<register, unregister>>

\* A call that has an effect.
Served ==
  /\ stored
  /\ calls < MaxCalls
  /\ calls' = calls + 1

-----------------------------------------------------------------------------
(* Live: a connection comes and goes *)

Upgrade(c) ==
  /\ pc[c] = "out"
  /\ stored
  /\ open' = open \cup {c}
  /\ Goto(c, "upgraded")
  /\ UNCHANGED <<session, joining, user, channels, hub, calls, usedBy>>

\* MarkConnectionStart fails when the room went meanwhile.
MarkStart(c) ==
  /\ pc[c] = "upgraded"
  /\ IF stored
     THEN Goto(c, "registering") /\ UNCHANGED open
     ELSE Goto(c, "gone") /\ open' = open \ {c}
  /\ UNCHANGED <<session, joining, user, channels, hub, calls, usedBy>>

Register(c) ==
  /\ pc[c] = "registering"
  /\ Len(register) < RegisterCap
  /\ register' = Append(register, c)
  /\ Goto(c, "reading")
  /\ UNCHANGED <<session, open, joining, user, unregister, broadcast, posted, hub,
                 calls, usedBy>>

\* The client hangs up or drops out of the network; what it sent before can
\* still be read.
HangUp(c) ==
  /\ c \in open
  /\ open' = open \ {c}
  /\ UNCHANGED <<session, pc, joining, user, channels, hub, calls, usedBy>>

\* ReadMessage fails, and the deferred function runs.
ReadFails(c) ==
  /\ pc[c] = "reading"
  /\ c \notin open
  /\ Goto(c, "unregistering")
  /\ UNCHANGED <<session, open, joining, user, channels, hub, calls, usedBy>>

Unregister(c) ==
  /\ pc[c] = "unregistering"
  /\ Len(unregister) < RegisterCap
  /\ unregister' = Append(unregister, c)
  /\ Goto(c, IF user[c] = Nil THEN "gone" ELSE "leaving")
  /\ UNCHANGED <<session, open, joining, user, register, broadcast, posted, hub,
                 calls, usedBy>>

TakeOffline(u) == online' = IF stored THEN online \ {u} ELSE online

SetOffline(c) ==
  /\ pc[c] = "leaving"
  /\ TakeOffline(user[c])
  /\ Goto(c, "parting")
  /\ UNCHANGED <<stored, issued, members, open, joining, user, channels, hub, calls,
                 usedBy>>

\* Broadcasts participant_left.
PostLeft(c) ==
  /\ pc[c] = "parting"
  /\ Post
  /\ Goto(c, "gone")
  /\ UNCHANGED <<session, open, joining, user, hub, calls, usedBy>>

-----------------------------------------------------------------------------
(* handleMessage; a message answered with an error alone is no step *)

Read(c) == pc[c] = "reading" /\ Served

\* join with a user_id, found by GetUser.
JoinKnown(c, u) ==
  /\ Read(c)
  /\ u \in members
  /\ joining' = [joining EXCEPT ![c] = u]
  /\ Goto(c, "joining")
  /\ UNCHANGED <<session, open, user, channels, hub, usedBy>>

\* join without one: JoinRoom.
JoinNew(c, u) ==
  /\ Read(c)
  /\ u \notin issued
  /\ issued' = issued \cup {u}
  /\ members' = members \cup {u}
  /\ joining' = [joining EXCEPT ![c] = u]
  /\ Goto(c, "joining")
  /\ UNCHANGED <<stored, online, open, user, channels, hub, usedBy>>

\* The participant may have left, or the room have gone, since it was found.
StillThere(u) == stored /\ u \in members
TakeOnline(u) == online' = online \cup {u}

SetOnline(c) ==
  /\ pc[c] = "joining"
  /\ LET u == joining[c]
     IN  IF StillThere(u)
         THEN /\ TakeOnline(u)
              /\ user' = [user EXCEPT ![c] = u]
              /\ usedBy' = [usedBy EXCEPT ![u] = @ \cup {c}]
              /\ Goto(c, "joined")
         ELSE /\ Goto(c, "reading")
              /\ UNCHANGED <<online, user, usedBy>>
  /\ joining' = [joining EXCEPT ![c] = Nil]
  /\ UNCHANGED <<stored, issued, members, open, channels, hub, calls>>

\* GetRoom, for the room_state the joining client is sent.
FetchState(c) ==
  /\ pc[c] = "joined"
  /\ Goto(c, IF stored THEN "posting" ELSE "reading")
  /\ UNCHANGED <<session, open, joining, user, channels, hub, calls, usedBy>>

\* Any other message: a service changes the session and the handler
\* broadcasts what happened.
Act(c) ==
  /\ Read(c)
  /\ user[c] \in members
  /\ Goto(c, "posting")
  /\ UNCHANGED <<session, open, joining, user, channels, hub, usedBy>>

\* Broadcasts the event; the room_state writes that follow change nothing here.
PostEvent(c) ==
  /\ pc[c] = "posting"
  /\ Post
  /\ Goto(c, "reading")
  /\ UNCHANGED <<session, open, joining, user, hub, calls, usedBy>>

-----------------------------------------------------------------------------
(* The REST handlers, which broadcast nothing, and the room's end *)

RestJoin(u) ==
  /\ Served
  /\ u \notin issued
  /\ issued' = issued \cup {u}
  /\ members' = members \cup {u}
  /\ UNCHANGED <<stored, online, open, pc, joining, user, channels, hub, usedBy>>

RestLeave(u) ==
  /\ Served
  /\ u \in members
  /\ members' = members \ {u}
  /\ online' = online \ {u}
  /\ UNCHANGED <<stored, issued, open, pc, joining, user, channels, hub, usedBy>>

RoomEnds ==
  /\ stored
  /\ stored' = FALSE
  /\ UNCHANGED <<issued, members, online, open, pc, joining, user, channels, hub, calls,
                 usedBy>>

-----------------------------------------------------------------------------
(* Hub.run: select picks any channel that has something *)

Idle == todo = {}

HubRegister ==
  /\ Idle
  /\ register # <<>>
  /\ clients' = clients \cup {Head(register)}
  /\ register' = Tail(register)
  /\ UNCHANGED <<session, open, pc, joining, user, unregister, broadcast, posted, todo,
                 got, calls, usedBy>>

Forget(c) == clients' = clients \ {c}

HubUnregister ==
  /\ Idle
  /\ unregister # <<>>
  /\ Forget(Head(unregister))
  /\ unregister' = Tail(unregister)
  /\ UNCHANGED <<session, open, pc, joining, user, register, broadcast, posted, todo,
                 got, calls, usedBy>>

Oldest == Head(broadcast)

HubTake ==
  /\ Idle
  /\ broadcast # <<>>
  /\ todo' = clients \X {Oldest}
  /\ broadcast' = Tail(broadcast)
  /\ UNCHANGED <<session, open, pc, joining, user, register, unregister, posted, clients,
                 got, calls, usedBy>>

\* client.Send; the error of a write to a closed connection is ignored.
Written(w) == todo \ {w}

HubSend(d) ==
  \E n \in 1..posted :
    /\ <<d, n>> \in todo
    /\ todo' = Written(<<d, n>>)
    /\ got' = IF d \in open THEN [got EXCEPT ![d] = n] ELSE got
    /\ UNCHANGED <<session, open, pc, joining, user, channels, clients, calls, usedBy>>

-----------------------------------------------------------------------------
Handler(c) ==
  \/ MarkStart(c)
  \/ ReadFails(c)
  \/ SetOffline(c)
  \/ SetOnline(c)
  \/ FetchState(c)
  \/ PostEvent(c)
  \/ PostLeft(c)
  \/ Register(c)
  \/ Unregister(c)

Client(c) ==
  \/ Upgrade(c)
  \/ HangUp(c)
  \/ Act(c)
  \/ \E u \in Users : JoinKnown(c, u) \/ JoinNew(c, u)

Hub == HubRegister \/ HubUnregister \/ HubTake \/ \E d \in Conns : HubSend(d)

Next ==
  \/ \E c \in Conns : Handler(c) \/ Client(c)
  \/ \E u \in Users : RestJoin(u) \/ RestLeave(u)
  \/ RoomEnds
  \/ Hub

Spec == Init /\ [][Next]_vars

\* Every goroutine that can run does; Go serves the goroutines that wait to
\* send on a channel in the order they came, and select chooses at random among
\* the channels that are ready, so none of them is passed over for ever.  The
\* writes of the hub end: that needs clients that read or connections that
\* break.
FairSpec ==
  /\ Spec
  /\ \A c \in Conns : SF_vars(Handler(c))
  /\ SF_vars(HubRegister) /\ SF_vars(HubUnregister) /\ SF_vars(HubTake)
  /\ WF_vars(\E d \in Conns : HubSend(d))

-----------------------------------------------------------------------------
(* Properties *)

Labels == {"out", "upgraded", "registering", "reading", "joining", "joined", "posting",
           "unregistering", "leaving", "parting", "gone"}
Attached == {"reading", "joining", "joined", "posting", "unregistering"}
Left == {"parting", "gone"}

\* The variables are of the code's types, the channels keep to their capacity,
\* and only participants are online (SetUserOnline looks the user up again).
TypeOK ==
  /\ stored \in BOOLEAN
  /\ members \subseteq issued
  /\ issued \subseteq Users
  /\ online \subseteq members
  /\ open \subseteq Conns
  /\ pc \in [Conns -> Labels]
  /\ joining \in [Conns -> Users \cup {Nil}]
  /\ user \in [Conns -> Users \cup {Nil}]
  /\ register \in Seq(Conns) /\ Len(register) <= RegisterCap
  /\ unregister \in Seq(Conns) /\ Len(unregister) <= RegisterCap
  /\ broadcast \in Seq(1..posted) /\ Len(broadcast) <= BroadcastCap
  /\ posted \in Nat
  /\ clients \subseteq Conns
  /\ todo \subseteq Conns \X (1..posted)
  /\ got \in [Conns -> 0..posted]
  /\ calls \in 0..MaxCalls
  /\ usedBy \in [Users -> SUBSET Conns]

\* SetUserOnline and the deferred clean-up: a participant is offline once every
\* connection that joined as that user has been cleaned up, in whatever order
\* the connections came and went.  (One that joined again as somebody else no
\* longer stands for its first user.)
NobodyLingersOnline ==
  stored =>
    \A u \in members :
      (\A c \in usedBy[u] : user[c] = u /\ pc[c] \in Left) => u \notin online

\* A participant with one connection only is online for as long as it lasts.
SoleConnectionIsOnline ==
  \A u \in members, c \in Conns :
    usedBy[u] = {c} /\ user[c] = u /\ pc[c] \notin Left => u \in online

\* Hub.run never loses a client: from the moment a connection is registered
\* until it asks to be unregistered it is in the hub's map or on its way there.
LiveClientsAreServed ==
  \A c \in Conns :
    pc[c] \in Attached => c \in clients \/ \E i \in DOMAIN register : register[i] = c

\* The hub publishes a topic: every client receives a contiguous piece of the
\* room's broadcasts, in the order in which they were posted.
Broadcasts == INSTANCE Topic WITH Subscribers <- Conns, log <- posted, last <- got
ImplementsTopic == Broadcasts!Spec

\* A goroutine whose client has gone finishes its clean-up: it waits for ever
\* on none of the hub's channels.
HangupsAreCleaned ==
  \A c \in Conns : (pc[c] # "out" /\ c \notin open) ~> pc[c] = "gone"

\* A client the hub knows hears every broadcast that is waiting then or posted
\* later, unless it hangs up.
MaxPosts == MaxCalls + Cardinality(Conns)
Waiting(n) == \E i \in DOMAIN broadcast : broadcast[i] = n
KnownClientsHear ==
  \A c \in Conns, n \in 1..MaxPosts :
    (c \in clients /\ Waiting(n)) ~> (got[c] >= n \/ c \notin open)
=============================================================================
