------------------------------ MODULE RoomStore ------------------------------
(***************************************************************************)
(* The room store (server/internal/providers/room_store.go) at the grain   *)
(* of its locks: the store's mutex over the map, each entry's mutex over   *)
(* its session, connection count and expiry time, and the goroutines that  *)
(* take them:                                                              *)
(*                                                                         *)
(*   - one per WebSocket connection, counted by MarkConnectionStart and    *)
(*     MarkConnectionEnd (api/handlers/websocket.go, Live);                *)
(*   - one per facilitator's request to close a room                       *)
(*     (services/room_service.go, DeleteRoom);                             *)
(*   - the store's cleanup loop.                                           *)
(*                                                                         *)
(* RoomStore.Get releases the store's mutex before its caller takes the    *)
(* entry's, so every operation has a step between the two.  A section      *)
(* under a mutex in which the goroutine waits for nothing is one step; it  *)
(* needs the mutex free.                                                   *)
(***************************************************************************)
EXTENDS Integers, FiniteSets

CONSTANTS
  Rooms,       \* room ids generateRoomID can return
  Conns,       \* goroutines that serve a WebSocket connection
  Closers,     \* goroutines that serve a request to close a room
  Cleaner,     \* the cleanup goroutine
  Grace,       \* RoomStore.graceAfterDisconnect
  MaxTime,     \* bound: the clock stops here
  Nil

ASSUME TimeAssumption == Grace \in Nat /\ MaxTime \in Nat
ASSUME NilAssumption == Nil \notin Rooms \cup Nat \cup Closers \cup {Cleaner}
ASSUME ConnsAssumption == IsFiniteSet(Conns) /\ Conns \cap Closers = {}
ASSUME CleanerAssumption == Cleaner \notin Closers

VARIABLES
  now,        \* the clock
  rooms,      \* keys of RoomStore.rooms
  clients,    \* ConnectedClients of every entry ever created
  expiry,     \* DisconnectAt of every entry ever created
  storeLock,  \* who holds RoomStore.mu
  entryLock,  \* who holds each entry's mu across a step
  created,    \* ids handed out
  connected,  \* ids whose entry was ever counted up
  pc,         \* where each connection and each closer is
  at,         \* the room each of them works on
  sweep       \* the cleanup goroutine's locals

vars == <<now, rooms, clients, expiry, storeLock, entryLock, created, connected,
          pc, at, sweep>>

store == <<rooms, clients, expiry, created, connected>>
locks == <<storeLock, entryLock>>
callers == <<pc, at>>

NoSweep == [phase |-> "idle", time |-> 0, todo |-> {}, target |-> Nil, busy |-> {}]

Init ==
  /\ now = 0
  /\ rooms = {}
  /\ clients = [r \in Rooms |-> 0]
  /\ expiry = [r \in Rooms |-> Nil]
  /\ storeLock = Nil
  /\ entryLock = [r \in Rooms |-> Nil]
  /\ created = {}
  /\ connected = {}
  /\ pc = [g \in Conns \cup Closers |-> "idle"]
  /\ at = [g \in Conns \cup Closers |-> Nil]
  /\ sweep = NoSweep

Tick ==
  /\ now < MaxTime
  /\ now' = now + 1
  /\ UNCHANGED <<store, locks, callers, sweep>>

-----------------------------------------------------------------------------
(* Steps the goroutines share *)

Goto(g, label) == pc' = [pc EXCEPT ![g] = label]

\* Leave: the goroutine is done with its room.
Leave(g) == Goto(g, "idle") /\ at' = [at EXCEPT ![g] = Nil]

\* RoomStore.Get, answered from the map: on to the given label with the entry
\* in hand, or out when the room is missing.
Lookup(g, label) ==
  /\ storeLock = Nil
  /\ IF at[g] \in rooms THEN Goto(g, label) /\ UNCHANGED at ELSE Leave(g)

\* A section under the entry's mutex that waits for nothing.
InEntry(r) == entryLock[r] = Nil

-----------------------------------------------------------------------------
(* Rooms come into being *)

\* RoomStore.Create; a random id does not come up twice.
Create(r) ==
  /\ storeLock = Nil
  /\ r \notin created
  /\ created' = created \cup {r}
  /\ rooms' = rooms \cup {r}
  /\ UNCHANGED <<now, clients, expiry, connected, locks, callers, sweep>>

-----------------------------------------------------------------------------
(* A WebSocket connection: Live *)

\* Slips that the checks below must notice; no action uses them.
ExpiryKept(r) == UNCHANGED expiry
CountToZero(n) == 0
GraceSubtracted == now - Grace
GraceIgnored(r) == clients[r] = 0

ClearExpiry(r) == expiry' = [expiry EXCEPT ![r] = Nil]
CountDown(n) == IF n > 0 THEN n - 1 ELSE 0
GraceEnd == now + Grace

\* GetRoom finds the room and the connection is upgraded.
Upgrade(g, r) ==
  /\ pc[g] = "idle"
  /\ storeLock = Nil
  /\ r \in rooms
  /\ InEntry(r)
  /\ Goto(g, "upgraded")
  /\ at' = [at EXCEPT ![g] = r]
  /\ UNCHANGED <<now, store, locks, sweep>>

\* MarkConnectionStart looks the room up again; a connection to a room that
\* is gone by now is closed.
LookupStart(g) ==
  /\ pc[g] = "upgraded"
  /\ Lookup(g, "starting")
  /\ UNCHANGED <<now, store, locks, sweep>>

IncrementConnection(g) ==
  /\ pc[g] = "starting"
  /\ InEntry(at[g])
  /\ clients' = [clients EXCEPT ![at[g]] = @ + 1]
  /\ ClearExpiry(at[g])
  /\ connected' = connected \cup {at[g]}
  /\ Goto(g, "live")
  /\ UNCHANGED <<now, rooms, created, locks, at, sweep>>

\* The connection ends, and MarkConnectionEnd looks the room up.
LookupEnd(g) ==
  /\ pc[g] = "live"
  /\ Lookup(g, "ending")
  /\ UNCHANGED <<now, store, locks, sweep>>

DecrementConnection(g) ==
  /\ pc[g] = "ending"
  /\ InEntry(at[g])
  /\ LET r == at[g]
         left == CountDown(clients[r])
     IN  /\ clients' = [clients EXCEPT ![r] = left]
         /\ expiry' = IF left = 0 THEN [expiry EXCEPT ![r] = GraceEnd] ELSE expiry
  /\ Leave(g)
  /\ UNCHANGED <<now, rooms, created, connected, locks, sweep>>

-----------------------------------------------------------------------------
(* A facilitator's request to close a room: DeleteRoom *)

LookupClose(g, r) ==
  /\ pc[g] = "idle"
  /\ storeLock = Nil
  /\ r \in rooms
  /\ Goto(g, "closing")
  /\ at' = [at EXCEPT ![g] = r]
  /\ UNCHANGED <<now, store, locks, sweep>>

\* The entry's mutex is kept while RoomStore.Delete waits for the store's.
LockEntry(g) ==
  /\ pc[g] = "closing"
  /\ entryLock[at[g]] = Nil
  /\ entryLock' = [entryLock EXCEPT ![at[g]] = g]
  /\ Goto(g, "deleting")
  /\ UNCHANGED <<now, store, storeLock, at, sweep>>

Delete(g) ==
  /\ pc[g] = "deleting"
  /\ storeLock = Nil
  /\ rooms' = rooms \ {at[g]}
  /\ entryLock' = [entryLock EXCEPT ![at[g]] = Nil]
  /\ Leave(g)
  /\ UNCHANGED <<now, clients, expiry, created, connected, storeLock, sweep>>

-----------------------------------------------------------------------------
(* CleanupExpiredRooms, run by cleanupLoop on every tick of its timer *)

\* The time is read before the store's mutex is taken.  busy records, for the
\* properties only, who had a connection then.
SweepStart ==
  /\ sweep.phase = "idle"
  /\ sweep' = [NoSweep EXCEPT !.phase = "locking", !.time = now,
                              !.busy = {r \in rooms : clients[r] > 0}]
  /\ UNCHANGED <<now, store, locks, callers>>

SweepLock ==
  /\ sweep.phase = "locking"
  /\ storeLock = Nil
  /\ storeLock' = Cleaner
  /\ sweep' = [sweep EXCEPT !.phase = "scanning", !.todo = rooms]
  /\ UNCHANGED <<now, store, entryLock, callers>>

\* The loop over the map turns to a room, in any order, and then waits for
\* that room's mutex.
SweepPick(r) ==
  /\ sweep.phase = "scanning"
  /\ r \in sweep.todo
  /\ sweep' = [sweep EXCEPT !.phase = "inspecting", !.target = r, !.todo = @ \ {r}]
  /\ UNCHANGED <<now, store, locks, callers>>

Expired(r) == expiry[r] # Nil /\ sweep.time > expiry[r]

\* The entry's mutex is released again before the map entry is deleted.
SweepInspect ==
  /\ sweep.phase = "inspecting"
  /\ entryLock[sweep.target] = Nil
  /\ sweep' = [sweep EXCEPT
                 !.phase = IF Expired(sweep.target) THEN "dropping" ELSE "scanning"]
  /\ UNCHANGED <<now, store, locks, callers>>

SweepDrop ==
  /\ sweep.phase = "dropping"
  /\ rooms' = rooms \ {sweep.target}
  /\ sweep' = [sweep EXCEPT !.phase = "scanning"]
  /\ UNCHANGED <<now, clients, expiry, created, connected, locks, callers>>

SweepEnd ==
  /\ sweep.phase = "scanning"
  /\ sweep.todo = {}
  /\ storeLock' = Nil
  /\ sweep' = NoSweep
  /\ UNCHANGED <<now, store, entryLock, callers>>

-----------------------------------------------------------------------------
ConnStep(g) == LookupStart(g) \/ IncrementConnection(g) \/ DecrementConnection(g)
CloserStep(g) == LockEntry(g) \/ Delete(g)
Sweep ==
  \/ SweepStart
  \/ SweepLock
  \/ \E r \in Rooms : SweepPick(r)
  \/ SweepInspect
  \/ SweepDrop
  \/ SweepEnd

Next ==
  \/ Tick
  \/ \E r \in Rooms : Create(r)
  \/ \E g \in Conns : ConnStep(g) \/ LookupEnd(g) \/ \E r \in Rooms : Upgrade(g, r)
  \/ \E g \in Closers : CloserStep(g) \/ \E r \in Rooms : LookupClose(g, r)
  \/ Sweep

Spec == Init /\ [][Next]_vars

\* Go runs every goroutine that can run, its mutexes are handed on, the timer
\* goes on ticking and so does the clock.  Nobody has to connect or hang up.
FairSpec ==
  /\ Spec
  /\ WF_vars(Tick)
  /\ WF_vars(Sweep)
  /\ \A g \in Conns : WF_vars(ConnStep(g))
  /\ \A g \in Closers : WF_vars(CloserStep(g))

-----------------------------------------------------------------------------
(* Properties *)

\* The store's and the goroutines' variables are of the code's types.
TypeOK ==
  /\ now \in 0..MaxTime
  /\ rooms \subseteq created
  /\ created \subseteq Rooms
  /\ connected \subseteq created
  /\ clients \in [Rooms -> Nat]
  /\ expiry \in [Rooms -> Nat \cup {Nil}]
  /\ storeLock \in {Nil, Cleaner}
  /\ entryLock \in [Rooms -> Closers \cup {Nil}]
  /\ pc \in [Conns \cup Closers -> {"idle", "upgraded", "starting", "live", "ending",
                                    "closing", "deleting"}]
  /\ at \in [Conns \cup Closers -> created \cup {Nil}]
  /\ \A g \in Conns \cup Closers : pc[g] # "idle" => at[g] # Nil
  /\ sweep \in [phase : {"idle", "locking", "scanning", "inspecting", "dropping"},
                time : 0..MaxTime, todo : SUBSET created,
                target : created \cup {Nil}, busy : SUBSET created]
  /\ sweep.phase \in {"inspecting", "dropping"} => sweep.target # Nil

\* IncrementConnection and DecrementConnection together: an entry has an
\* expiry time exactly when it has no connection left but had one, so that no
\* room with people in it is scheduled to go and none that emptied is kept.
ExpiryIffEmptied ==
  \A r \in created : expiry[r] # Nil <=> r \in connected /\ clients[r] = 0

\* ConnectedClients of a stored room is the number of connections that were
\* counted up and not yet down, so that one that hangs up never takes another
\* one's place.
Counted(r) == {g \in Conns : at[g] = r /\ pc[g] \in {"live", "ending"}}
CountIsConnections == \A r \in rooms : clients[r] = Cardinality(Counted(r))

\* A sweep never drops a room that had a connection when the sweep read the
\* clock, even if the room empties while the sweep goes on.
SweepSparesBusyRooms ==
  [][\A r \in rooms \ rooms' : sweep.phase = "dropping" => r \notin sweep.busy]_vars

\* room_store.go: "Periodically delete rooms whose grace period after last
\* disconnect has expired".  A room that emptied goes, unless someone returns.
EmptiedRoomsGo ==
  \A r \in Rooms :
    (r \in rooms /\ expiry[r] # Nil /\ expiry[r] < MaxTime)
      ~> (r \notin rooms \/ clients[r] > 0)
=============================================================================
