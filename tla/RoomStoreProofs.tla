--------------------------- MODULE RoomStoreProofs ---------------------------
(***************************************************************************)
(* What RoomStore guarantees for any number of rooms, connections and      *)
(* closers and any grace period.                                           *)
(***************************************************************************)
EXTENDS RoomStore, FiniteSetTheorems, TLAPS

LEMMA InitType == Init => TypeOK
BY TimeAssumption DEF Init, TypeOK, NoSweep

\* A goroutine that looks a room up keeps it or leaves it.
LEMMA LookupType ==
  ASSUME TypeOK, NEW g \in Conns \cup Closers, at[g] # Nil,
         NEW label \in {"starting", "ending"}, Lookup(g, label)
  PROVE  /\ pc' \in [Conns \cup Closers -> {"idle", "upgraded", "starting", "live",
                                            "ending", "closing", "deleting"}]
         /\ at' \in [Conns \cup Closers -> created \cup {Nil}]
         /\ \A h \in Conns \cup Closers : pc'[h] # "idle" => at'[h] # Nil
<1>1. CASE at[g] \in rooms
  BY <1>1 DEF TypeOK, Lookup, Goto
<1>2. CASE at[g] \notin rooms
  BY <1>2 DEF TypeOK, Lookup, Goto, Leave
<1>3. QED
  BY <1>1, <1>2

LEMMA StepType == TypeOK /\ [Next]_vars => TypeOK'
<1> SUFFICES ASSUME TypeOK, [Next]_vars PROVE TypeOK'
  OBVIOUS
<1> USE TimeAssumption, NilAssumption DEF TypeOK, store, locks, callers
<1>1. ASSUME Tick PROVE TypeOK'
  BY <1>1 DEF Tick
<1>2. ASSUME NEW r \in Rooms, Create(r) PROVE TypeOK'
  BY <1>2 DEF Create
<1>3. ASSUME NEW g \in Conns, NEW r \in Rooms, Upgrade(g, r) PROVE TypeOK'
  BY <1>3 DEF Upgrade, Goto
<1>4. ASSUME NEW g \in Conns, LookupStart(g) PROVE TypeOK'
  BY <1>4, LookupType DEF LookupStart
<1>5. ASSUME NEW g \in Conns, IncrementConnection(g) PROVE TypeOK'
  BY <1>5 DEF IncrementConnection, ClearExpiry, Goto
<1>6. ASSUME NEW g \in Conns, LookupEnd(g) PROVE TypeOK'
  BY <1>6, LookupType DEF LookupEnd
<1>7. ASSUME NEW g \in Conns, DecrementConnection(g) PROVE TypeOK'
  BY <1>7 DEF DecrementConnection, CountDown, GraceEnd, Leave, Goto
<1>8. ASSUME NEW g \in Closers, NEW r \in Rooms, LookupClose(g, r) PROVE TypeOK'
  BY <1>8 DEF LookupClose, Goto
<1>9. ASSUME NEW g \in Closers, LockEntry(g) PROVE TypeOK'
  BY <1>9 DEF LockEntry, Goto
<1>10. ASSUME NEW g \in Closers, Delete(g) PROVE TypeOK'
  BY <1>10 DEF Delete, Leave, Goto
<1>11. ASSUME SweepStart PROVE TypeOK'
  BY <1>11 DEF SweepStart, NoSweep
<1>12. ASSUME SweepLock PROVE TypeOK'
  BY <1>12 DEF SweepLock
<1>13. ASSUME NEW r \in Rooms, SweepPick(r) PROVE TypeOK'
  BY <1>13 DEF SweepPick
<1>14. ASSUME SweepInspect PROVE TypeOK'
  BY <1>14 DEF SweepInspect
<1>15. ASSUME SweepDrop PROVE TypeOK'
  BY <1>15 DEF SweepDrop
<1>16. ASSUME SweepEnd PROVE TypeOK'
  BY <1>16 DEF SweepEnd, NoSweep
<1>17. CASE UNCHANGED vars
  BY <1>17 DEF vars
<1>18. QED
  BY <1>1, <1>2, <1>3, <1>4, <1>5, <1>6, <1>7, <1>8, <1>9, <1>10, <1>11, <1>12,
     <1>13, <1>14, <1>15, <1>16, <1>17
     DEF Next, ConnStep, CloserStep, Sweep

\* The store's state keeps its types.
THEOREM TypeCorrect == Spec => []TypeOK
BY InitType, StepType, PTL DEF Spec

-------------------------------------------------------------------------------
(* Expiry *)

\* DecrementConnection schedules a room only if it counted a connection down,
\* so a goroutine that will count down was counted up before.
CountedUp == \A g \in Conns : pc[g] \in {"live", "ending"} => at[g] \in connected

\* Sections of the store and of the lookups leave the schedule alone.
Scheduled == <<clients, expiry, created, connected>>

LEMMA StepCountedUp == TypeOK /\ CountedUp /\ [Next]_vars => CountedUp'
<1> SUFFICES ASSUME TypeOK, CountedUp, [Next]_vars PROVE CountedUp'
  OBVIOUS
<1> USE ConnsAssumption DEF TypeOK, CountedUp, store, locks, callers
<1>1. CASE UNCHANGED <<pc, at, connected>>
  BY <1>1
<1>2. ASSUME NEW g \in Conns, NEW r \in Rooms, Upgrade(g, r) PROVE CountedUp'
  BY <1>2 DEF Upgrade, Goto
<1>3. ASSUME NEW g \in Conns, LookupStart(g) PROVE CountedUp'
  BY <1>3 DEF LookupStart, Lookup, Goto, Leave
<1>4. ASSUME NEW g \in Conns, IncrementConnection(g) PROVE CountedUp'
  BY <1>4 DEF IncrementConnection, Goto
<1>5. ASSUME NEW g \in Conns, LookupEnd(g) PROVE CountedUp'
  BY <1>5 DEF LookupEnd, Lookup, Goto, Leave
<1>6. ASSUME NEW g \in Conns, DecrementConnection(g) PROVE CountedUp'
  BY <1>6 DEF DecrementConnection, Goto, Leave
<1>7. ASSUME NEW g \in Closers, NEW r \in Rooms, LookupClose(g, r) PROVE CountedUp'
  BY <1>7 DEF LookupClose, Goto
<1>8. ASSUME NEW g \in Closers, LockEntry(g) PROVE CountedUp'
  BY <1>8 DEF LockEntry, Goto
<1>9. ASSUME NEW g \in Closers, Delete(g) PROVE CountedUp'
  BY <1>9 DEF Delete, Goto, Leave
<1>10. QED
  BY <1>1, <1>2, <1>3, <1>4, <1>5, <1>6, <1>7, <1>8, <1>9
     DEF Next, ConnStep, CloserStep, Sweep, Tick, Create, SweepStart, SweepLock,
         SweepPick, SweepInspect, SweepDrop, SweepEnd, vars

\* What is new in the schedule when a room is created: nothing is counted.
Unused == \A r \in Rooms \ created : clients[r] = 0 /\ expiry[r] = Nil

ExpiryInv == CountedUp /\ Unused /\ ExpiryIffEmptied

LEMMA StepExpiry == TypeOK /\ ExpiryInv /\ [Next]_vars => ExpiryInv'
<1> SUFFICES ASSUME TypeOK, ExpiryInv, [Next]_vars PROVE Unused' /\ ExpiryIffEmptied'
  BY StepCountedUp DEF ExpiryInv
<1> USE NilAssumption, TimeAssumption
    DEF TypeOK, ExpiryInv, Unused, ExpiryIffEmptied, store, locks, callers
<1>1. CASE UNCHANGED Scheduled
  BY <1>1 DEF Scheduled
<1>2. ASSUME NEW r \in Rooms, Create(r) PROVE Unused' /\ ExpiryIffEmptied'
  BY <1>2 DEF Create
<1>3. ASSUME NEW g \in Conns, IncrementConnection(g)
      PROVE  Unused' /\ ExpiryIffEmptied'
  <2>1. at[g] \in created
    BY <1>3 DEF IncrementConnection
  <2>2. clients'[at[g]] > 0 /\ expiry'[at[g]] = Nil
    BY <1>3, <2>1 DEF IncrementConnection, ClearExpiry
  <2>3. \A r \in Rooms \ {at[g]} : /\ clients'[r] = clients[r]
                                   /\ expiry'[r] = expiry[r]
                                   /\ r \in connected' <=> r \in connected
    BY <1>3, <2>1 DEF IncrementConnection, ClearExpiry
  <2>4. created' = created
    BY <1>3 DEF IncrementConnection
  <2>5. QED
    BY <2>1, <2>2, <2>3, <2>4
<1>4. ASSUME NEW g \in Conns, DecrementConnection(g)
      PROVE  Unused' /\ ExpiryIffEmptied'
  <2> DEFINE room == at[g]
  <2>1. room \in created /\ room \in connected /\ clients[room] \in Nat
    BY <1>4 DEF DecrementConnection, CountedUp
  <2>2. clients'[room] = CountDown(clients[room])
    BY <1>4, <2>1 DEF DecrementConnection
  <2>3. expiry'[room] = IF clients'[room] = 0 THEN now + Grace ELSE expiry[room]
    BY <1>4, <2>1, <2>2 DEF DecrementConnection, GraceEnd
  <2>4. \A r \in Rooms \ {room} : clients'[r] = clients[r] /\ expiry'[r] = expiry[r]
    BY <1>4, <2>1 DEF DecrementConnection
  <2>5. created' = created /\ connected' = connected
    BY <1>4 DEF DecrementConnection
  <2>6. now + Grace # Nil
    OBVIOUS
  <2>7. expiry'[room] # Nil <=> clients'[room] = 0
    BY <2>1, <2>2, <2>3, <2>6 DEF CountDown
  <2>8. QED
    BY <2>1, <2>4, <2>5, <2>7
<1>5. QED
  BY <1>1, <1>2, <1>3, <1>4
     DEF Next, ConnStep, CloserStep, Sweep, Tick, Upgrade, LookupStart, LookupEnd,
         LookupClose, LockEntry, Delete, SweepStart, SweepLock, SweepPick,
         SweepInspect, SweepDrop, SweepEnd, vars, Scheduled

LEMMA ExpiryCorrect == Spec => []ExpiryInv
<1>1. Init => ExpiryInv
  BY DEF Init, ExpiryInv, CountedUp, Unused, ExpiryIffEmptied
<1>2. QED
  BY <1>1, TypeCorrect, StepExpiry, PTL DEF Spec

\* A room is scheduled to go exactly when it has emptied.
THEOREM OnlyEmptiedRoomsExpire == Spec => []ExpiryIffEmptied
<1>1. ExpiryInv => ExpiryIffEmptied
  BY DEF ExpiryInv
<1>2. QED
  BY <1>1, ExpiryCorrect, PTL

-------------------------------------------------------------------------------
(* The connection count *)

\* Sections that count nobody leave who is counted alone.
LEMMA SameCounted ==
  ASSUME UNCHANGED clients, rooms' \subseteq rooms, CountIsConnections,
         \A r \in rooms' : Counted(r)' = Counted(r)
  PROVE  CountIsConnections'
BY DEF CountIsConnections

LEMMA CountedFinite == \A r : IsFiniteSet(Counted(r))
<1>1. \A r : Counted(r) \subseteq Conns
  BY DEF Counted
<1>2. QED
  BY <1>1, ConnsAssumption, FS_Subset

LEMMA StepCount ==
  TypeOK /\ ExpiryInv /\ CountIsConnections /\ [Next]_vars => CountIsConnections'
<1> SUFFICES ASSUME TypeOK, ExpiryInv, CountIsConnections, [Next]_vars
             PROVE  CountIsConnections'
  OBVIOUS
<1> USE NilAssumption, ConnsAssumption DEF TypeOK, store, locks, callers
<1>1. CASE UNCHANGED <<clients, pc, at>> /\ rooms' \subseteq rooms
  BY <1>1, SameCounted DEF Counted
<1>2. ASSUME NEW r \in Rooms, Create(r) PROVE CountIsConnections'
  <2>1. clients[r] = 0 /\ clients' = clients
    BY <1>2 DEF Create, ExpiryInv, Unused
  <2>2. Counted(r) = {}
    BY <1>2 DEF Create, Counted
  <2>3. \A q : Counted(q)' = Counted(q)
    BY <1>2 DEF Create, Counted
  <2>4. rooms' = rooms \cup {r}
    BY <1>2 DEF Create
  <2>5. QED
    BY <2>1, <2>2, <2>3, <2>4, FS_EmptySet DEF CountIsConnections
<1>3. ASSUME NEW g \in Conns, NEW r \in Rooms, Upgrade(g, r)
      PROVE  CountIsConnections'
  <2>1. \A q \in rooms' : Counted(q)' = Counted(q)
    BY <1>3 DEF Upgrade, Goto, Counted
  <2>2. QED
    BY <1>3, <2>1, SameCounted DEF Upgrade
<1>4. ASSUME NEW g \in Conns, LookupStart(g) PROVE CountIsConnections'
  <2>1. \A q \in rooms' : Counted(q)' = Counted(q)
    BY <1>4 DEF LookupStart, Lookup, Leave, Goto, Counted
  <2>2. QED
    BY <1>4, <2>1, SameCounted DEF LookupStart
<1>5. ASSUME NEW g \in Conns, IncrementConnection(g) PROVE CountIsConnections'
  <2>1. PICK room \in Rooms : room = at[g]
    BY <1>5 DEF IncrementConnection
  <2>2. g \notin Counted(room) /\ Counted(room)' = Counted(room) \cup {g}
    BY <1>5, <2>1 DEF IncrementConnection, Goto, Counted
  <2>3. \A q \in rooms \ {room} : Counted(q)' = Counted(q)
    BY <1>5, <2>1 DEF IncrementConnection, Goto, Counted
  <2>4. clients' = [clients EXCEPT ![room] = @ + 1]
    BY <1>5, <2>1 DEF IncrementConnection
  <2>5. rooms' = rooms
    BY <1>5, <2>1 DEF IncrementConnection
  <2>6. Cardinality(Counted(room)') = Cardinality(Counted(room)) + 1
    BY <2>2, CountedFinite, FS_AddElement
  <2>7. QED
    BY <2>3, <2>4, <2>5, <2>6 DEF CountIsConnections
<1>6. ASSUME NEW g \in Conns, LookupEnd(g) PROVE CountIsConnections'
  <2>1. \A q \in rooms' : Counted(q)' = Counted(q)
    BY <1>6 DEF LookupEnd, Lookup, Leave, Goto, Counted
  <2>2. QED
    BY <1>6, <2>1, SameCounted DEF LookupEnd
<1>7. ASSUME NEW g \in Conns, DecrementConnection(g) PROVE CountIsConnections'
  <2>1. PICK room \in Rooms : room = at[g]
    BY <1>7 DEF DecrementConnection
  <2>2. g \in Counted(room) /\ Counted(room)' = Counted(room) \ {g}
    BY <1>7, <2>1 DEF DecrementConnection, Leave, Goto, Counted
  <2>3. \A q \in rooms \ {room} : Counted(q)' = Counted(q)
    BY <1>7, <2>1 DEF DecrementConnection, Leave, Goto, Counted
  <2>4. clients' = [clients EXCEPT ![room] = CountDown(@)]
    BY <1>7, <2>1 DEF DecrementConnection
  <2>5. rooms' = rooms
    BY <1>7, <2>1 DEF DecrementConnection
  <2>6. Cardinality(Counted(room)') = Cardinality(Counted(room)) - 1
    BY <2>2, CountedFinite, FS_RemoveElement
  <2>7. Cardinality(Counted(room)') \in Nat /\ Cardinality(Counted(room)) \in Nat
    BY <2>2, CountedFinite, FS_CardinalityType, FS_RemoveElement
  <2>8. room \in rooms => clients'[room] = Cardinality(Counted(room)')
    BY <2>4, <2>6, <2>7 DEF CountIsConnections, CountDown
  <2>9. QED
    BY <2>3, <2>4, <2>5, <2>8 DEF CountIsConnections
<1>8. ASSUME NEW g \in Closers, NEW r \in Rooms, LookupClose(g, r)
      PROVE  CountIsConnections'
  <2>1. \A q \in rooms' : Counted(q)' = Counted(q)
    BY <1>8 DEF LookupClose, Goto, Counted
  <2>2. QED
    BY <1>8, <2>1, SameCounted DEF LookupClose
<1>9. ASSUME NEW g \in Closers, CloserStep(g) PROVE CountIsConnections'
  <2>1. \A q \in rooms' : Counted(q)' = Counted(q)
    BY <1>9 DEF CloserStep, LockEntry, Delete, Leave, Goto, Counted
  <2>2. QED
    BY <1>9, <2>1, SameCounted DEF CloserStep, LockEntry, Delete
<1>10. QED
  BY <1>1, <1>2, <1>3, <1>4, <1>5, <1>6, <1>7, <1>8, <1>9
     DEF Next, ConnStep, Sweep, Tick, SweepStart, SweepLock, SweepPick, SweepInspect,
         SweepDrop, SweepEnd, vars

\* The count of a stored room is the number of its connections, however they
\* interleave with its removal and with each other.
THEOREM CountCorrect == Spec => []CountIsConnections
<1>1. Init => CountIsConnections
  BY DEF Init, CountIsConnections
<1>2. QED
  BY <1>1, TypeCorrect, ExpiryCorrect, StepCount, PTL DEF Spec

-------------------------------------------------------------------------------
(* What a sweep spares *)

\* The clock the sweep compares with is never ahead of the real one, so a room
\* that was busy at that time either has no expiry time or a later one, and
\* the sweep never marks it for dropping.  The store's mutex is the sweep's
\* from SweepLock to SweepEnd, so nobody else deletes a room in between.
SweepInv ==
  /\ sweep.phase \in {"scanning", "inspecting", "dropping"} => storeLock = Cleaner
  /\ sweep.time <= now
  /\ \A r \in sweep.busy : expiry[r] = Nil \/ expiry[r] >= sweep.time
  /\ sweep.phase = "dropping" => sweep.target \notin sweep.busy

LEMMA StepSweep == TypeOK /\ ExpiryInv /\ SweepInv /\ [Next]_vars => SweepInv'
<1> SUFFICES ASSUME TypeOK, ExpiryInv, SweepInv, [Next]_vars PROVE SweepInv'
  OBVIOUS
<1> USE NilAssumption, TimeAssumption DEF TypeOK, SweepInv, store, locks, callers
<1>1. CASE UNCHANGED <<now, expiry, storeLock, sweep>>
  BY <1>1
<1>2. ASSUME Tick PROVE SweepInv'
  BY <1>2 DEF Tick
<1>3. ASSUME NEW g \in Conns, IncrementConnection(g) PROVE SweepInv'
  BY <1>3 DEF IncrementConnection, ClearExpiry
<1>4. ASSUME NEW g \in Conns, DecrementConnection(g) PROVE SweepInv'
  BY <1>4 DEF DecrementConnection, GraceEnd
<1>5. ASSUME SweepStart PROVE SweepInv'
  <2>1. \A r \in rooms : clients[r] > 0 => expiry[r] = Nil
    BY DEF ExpiryInv, ExpiryIffEmptied
  <2>2. QED
    BY <1>5, <2>1 DEF SweepStart, NoSweep
<1>6. ASSUME SweepLock PROVE SweepInv'
  BY <1>6 DEF SweepLock
<1>7. ASSUME NEW r \in Rooms, SweepPick(r) PROVE SweepInv'
  BY <1>7 DEF SweepPick
<1>8. ASSUME SweepInspect PROVE SweepInv'
  BY <1>8 DEF SweepInspect, Expired
<1>9. ASSUME SweepDrop PROVE SweepInv'
  BY <1>9 DEF SweepDrop
<1>10. ASSUME SweepEnd PROVE SweepInv'
  BY <1>10 DEF SweepEnd, NoSweep
<1>11. QED
  BY <1>1, <1>2, <1>3, <1>4, <1>5, <1>6, <1>7, <1>8, <1>9, <1>10
     DEF Next, ConnStep, CloserStep, Sweep, Create, Upgrade, LookupStart, LookupEnd,
         LookupClose, LockEntry, Delete, vars

\* A sweep drops no room that was busy when it read the clock.
THEOREM BusyRoomsAreSpared == Spec => SweepSparesBusyRooms
<1>1. Init => SweepInv
  BY DEF Init, SweepInv, NoSweep
<1>2. SweepInv /\ [Next]_vars =>
        [\A r \in rooms \ rooms' : sweep.phase = "dropping" => r \notin sweep.busy]_vars
  <2> SUFFICES ASSUME SweepInv, Next, NEW r \in rooms \ rooms', sweep.phase = "dropping"
               PROVE  r \notin sweep.busy
    OBVIOUS
  <2>1. CASE SweepDrop
    BY <2>1 DEF SweepDrop, SweepInv
  <2>2. ASSUME NEW g \in Closers, Delete(g) PROVE FALSE
    BY <2>2, NilAssumption DEF Delete, SweepInv
  <2>3. QED
    BY <2>1, <2>2
       DEF Next, ConnStep, CloserStep, Sweep, Tick, Create, Upgrade, LookupStart,
           IncrementConnection, LookupEnd, DecrementConnection, LookupClose, LockEntry,
           SweepStart, SweepLock, SweepPick, SweepInspect, SweepEnd, store
<1>3. QED
  BY <1>1, <1>2, TypeCorrect, ExpiryCorrect, StepSweep, PTL
     DEF Spec, SweepSparesBusyRooms

-------------------------------------------------------------------------------
(* Who waits for whom *)

\* The mutexes are held where the code holds them across a step: the store's by a
\* sweep from SweepLock to SweepEnd, an entry's by a closer that waits to delete it.
LockInv ==
  /\ storeLock = Cleaner <=> sweep.phase \in {"scanning", "inspecting", "dropping"}
  /\ \A r \in Rooms : entryLock[r] # Nil => pc[entryLock[r]] = "deleting" /\ at[entryLock[r]] = r
  /\ \A g \in Closers : pc[g] = "deleting" => entryLock[at[g]] = g

\* The sweep waits for the entry of a room whose closer waits for the store.
LockedUp ==
  /\ storeLock = Cleaner /\ sweep.phase = "inspecting"
  /\ \E g \in Closers : /\ entryLock[sweep.target] = g
                        /\ pc[g] = "deleting" /\ at[g] = sweep.target

\* What the holder of the store's mutex, and of an entry's, waits for is free.
SweepGoesOn ==
  \/ sweep.phase = "scanning" /\ (sweep.todo = {} \/ \E r \in Rooms : r \in sweep.todo)
  \/ sweep.phase = "inspecting" /\ entryLock[sweep.target] = Nil
  \/ sweep.phase = "dropping"
CloserGoesOn(g) == pc[g] = "deleting" /\ storeLock = Nil

\* That is the only cycle: unless the store is locked up, whoever holds the store's
\* mutex can go on, and so can whoever holds an entry's or waits for the holder of
\* the store's.
HoldersGoOn ==
  ~LockedUp =>
    /\ storeLock # Nil => SweepGoesOn
    /\ \A r \in Rooms : entryLock[r] # Nil => CloserGoesOn(entryLock[r]) \/ SweepGoesOn

\* Once locked up, the store stays so: no room is found, made or dropped any more,
\* and what is held across a step is not let go.
StaysLockedUp ==
  /\ LockedUp' /\ UNCHANGED <<rooms, created, storeLock, sweep>>
  /\ \A r \in Rooms : entryLock[r] # Nil => entryLock'[r] = entryLock[r]
  /\ \A g \in Conns \cup Closers : at'[g] # at[g] => at'[g] = Nil
LockupLasts == [][LockedUp => StaysLockedUp]_vars

LEMMA StepLocks == TypeOK /\ LockInv /\ [Next]_vars => LockInv'
<1> SUFFICES ASSUME TypeOK, LockInv, [Next]_vars PROVE LockInv'
  OBVIOUS
<1> USE NilAssumption, CleanerAssumption DEF TypeOK, LockInv, store, locks, callers
<1>1. CASE UNCHANGED <<storeLock, entryLock, pc, at, sweep>>
  BY <1>1
<1>2. ASSUME NEW g \in Conns, pc' = [pc EXCEPT ![g] = pc'[g]], at' = [at EXCEPT ![g] = at'[g]],
             pc'[g] # "deleting", pc[g] # "deleting", UNCHANGED <<storeLock, entryLock, sweep>>
      PROVE  LockInv'
  <2>1. g \notin Closers
    BY ConnsAssumption
  <2>2. \A c \in Closers : pc'[c] = pc[c] /\ at'[c] = at[c]
    BY <1>2, <2>1
  <2>3. \A r \in Rooms : entryLock[r] # Nil => entryLock[r] \in Closers
    OBVIOUS
  <2>4. QED
    BY <1>2, <2>2, <2>3
<1>3. ASSUME NEW g \in Conns, NEW r \in Rooms, Upgrade(g, r) PROVE LockInv'
  BY <1>3, <1>2 DEF Upgrade, Goto
<1>4. ASSUME NEW g \in Conns, LookupStart(g) PROVE LockInv'
  BY <1>4, <1>2 DEF LookupStart, Lookup, Goto, Leave
<1>5. ASSUME NEW g \in Conns, IncrementConnection(g) PROVE LockInv'
  BY <1>5, <1>2 DEF IncrementConnection, Goto
<1>6. ASSUME NEW g \in Conns, LookupEnd(g) PROVE LockInv'
  BY <1>6, <1>2 DEF LookupEnd, Lookup, Goto, Leave
<1>7. ASSUME NEW g \in Conns, DecrementConnection(g) PROVE LockInv'
  BY <1>7, <1>2 DEF DecrementConnection, Goto, Leave
<1>8. ASSUME NEW g \in Closers, NEW r \in Rooms, LookupClose(g, r) PROVE LockInv'
  BY <1>8 DEF LookupClose, Goto
<1>9. ASSUME NEW g \in Closers, LockEntry(g) PROVE LockInv'
  BY <1>9 DEF LockEntry, Goto
<1>10. ASSUME NEW g \in Closers, Delete(g) PROVE LockInv'
  BY <1>10 DEF Delete, Goto, Leave
<1>11. ASSUME Sweep PROVE LockInv'
  <2>1. UNCHANGED <<entryLock, pc, at>>
    BY <1>11 DEF Sweep, SweepStart, SweepLock, SweepPick, SweepInspect, SweepDrop, SweepEnd
  <2>2. storeLock' = Cleaner <=> sweep'.phase \in {"scanning", "inspecting", "dropping"}
    <3>1. CASE SweepStart
      BY <3>1 DEF SweepStart, NoSweep
    <3>2. CASE SweepLock
      BY <3>2 DEF SweepLock
    <3>3. ASSUME NEW r \in Rooms, SweepPick(r)
          PROVE  storeLock' = Cleaner <=> sweep'.phase \in {"scanning", "inspecting", "dropping"}
      BY <3>3 DEF SweepPick
    <3>4. CASE SweepInspect
      BY <3>4 DEF SweepInspect
    <3>5. CASE SweepDrop
      BY <3>5 DEF SweepDrop
    <3>6. CASE SweepEnd
      BY <3>6 DEF SweepEnd, NoSweep
    <3>7. QED
      BY <1>11, <3>1, <3>2, <3>3, <3>4, <3>5, <3>6 DEF Sweep
  <2>3. QED
    BY <2>1, <2>2
<1>12. QED
  BY <1>1, <1>3, <1>4, <1>5, <1>6, <1>7, <1>8, <1>9, <1>10, <1>11
     DEF Next, ConnStep, CloserStep, Tick, Create, vars

\* No goroutine of the store waits in a cycle but a closer and the sweep.
THEOREM OneCycleOnly == Spec => []HoldersGoOn
<1>1. Init => LockInv
  BY NilAssumption DEF Init, LockInv, NoSweep
<1>2. TypeOK /\ LockInv => HoldersGoOn
  <2> SUFFICES ASSUME TypeOK, LockInv, ~LockedUp
               PROVE  /\ storeLock # Nil => SweepGoesOn
                      /\ \A r \in Rooms : entryLock[r] # Nil => CloserGoesOn(entryLock[r]) \/ SweepGoesOn
    BY DEF HoldersGoOn
  <2> USE NilAssumption DEF TypeOK, LockInv
  <2>1. storeLock # Nil => SweepGoesOn
    <3> SUFFICES ASSUME storeLock # Nil PROVE SweepGoesOn
      OBVIOUS
    <3>1. storeLock = Cleaner
      OBVIOUS
    <3>2. CASE sweep.phase = "inspecting"
      <4>1. sweep.target \in Rooms
        BY <3>2
      <4>2. entryLock[sweep.target] # Nil => entryLock[sweep.target] \in Closers
        BY <4>1
      <4>3. entryLock[sweep.target] = Nil
        BY <3>1, <3>2, <4>1, <4>2 DEF LockedUp
      <4>4. QED
        BY <3>2, <4>3 DEF SweepGoesOn
    <3>3. CASE sweep.phase = "scanning"
      BY <3>3 DEF SweepGoesOn
    <3>4. QED
      BY <3>1, <3>2, <3>3 DEF SweepGoesOn
  <2>2. ASSUME NEW r \in Rooms, entryLock[r] # Nil
        PROVE  CloserGoesOn(entryLock[r]) \/ SweepGoesOn
    BY <2>1, <2>2 DEF CloserGoesOn
  <2>3. QED
    BY <2>1, <2>2
<1>3. QED
  BY <1>1, <1>2, TypeCorrect, StepLocks, PTL DEF Spec

\* DeleteRoom and CleanupExpiredRooms that wait for each other wait for good, and the
\* store serves nobody from then on.
THEOREM LockupIsForGood == Spec => LockupLasts
<1>1. TypeOK /\ [Next]_vars => [LockedUp => StaysLockedUp]_vars
  <2> SUFFICES ASSUME TypeOK, Next, LockedUp PROVE StaysLockedUp
    OBVIOUS
  <2> DEFINE Kept == UNCHANGED <<rooms, created, storeLock, entryLock, sweep>>
             Alone(g) == pc' = [pc EXCEPT ![g] = pc'[g]] /\ at' = [at EXCEPT ![g] = at'[g]]
  <2>1. storeLock # Nil /\ entryLock[sweep.target] # Nil /\ sweep.phase = "inspecting"
    BY NilAssumption DEF LockedUp
  <2>2. CASE Kept /\ UNCHANGED <<pc, at>>
    BY <2>2 DEF LockedUp, StaysLockedUp
  <2>3. ASSUME NEW h \in Conns, Kept, Alone(h), at'[h] # at[h] => at'[h] = Nil
        PROVE  StaysLockedUp
    <3>1. h \notin Closers
      BY ConnsAssumption
    <3>2. \A g \in Conns \cup Closers : g # h => pc'[g] = pc[g] /\ at'[g] = at[g]
      BY <2>3 DEF TypeOK
    <3>3. LockedUp'
      BY <2>3, <3>1, <3>2 DEF LockedUp
    <3>4. QED
      BY <2>3, <3>2, <3>3 DEF StaysLockedUp
  <2>4. ASSUME NEW g \in Conns, IncrementConnection(g) PROVE StaysLockedUp
    BY <2>3, <2>4 DEF IncrementConnection, Goto, locks, TypeOK
  <2>5. ASSUME NEW g \in Conns, DecrementConnection(g) PROVE StaysLockedUp
    BY <2>3, <2>5 DEF DecrementConnection, Goto, Leave, locks, TypeOK
  <2>6. ASSUME NEW g \in Closers, LockEntry(g) PROVE StaysLockedUp
    <3>1. UNCHANGED <<rooms, created, storeLock, at, sweep>>
      BY <2>6 DEF LockEntry, store
    <3>2. entryLock' = [entryLock EXCEPT ![at[g]] = g] /\ entryLock[at[g]] = Nil
      BY <2>6 DEF LockEntry
    <3>3. pc' = [pc EXCEPT ![g] = "deleting"]
      BY <2>6 DEF LockEntry, Goto
    <3>4. at[g] \in Rooms /\ sweep.target \in Rooms
      BY <2>1, <2>6 DEF LockEntry, TypeOK
    <3>5. \A r \in Rooms : entryLock[r] # Nil => entryLock'[r] = entryLock[r]
      BY <3>2, <3>4 DEF TypeOK
    <3>6. LockedUp'
      <4>1. PICK c \in Closers : entryLock[sweep.target] = c /\ pc[c] = "deleting" /\ at[c] = sweep.target
        BY DEF LockedUp
      <4>2. entryLock'[sweep.target] = c
        BY <2>1, <3>4, <3>5, <4>1
      <4>3. pc'[c] = "deleting"
        BY <3>3, <4>1 DEF TypeOK
      <4>4. QED
        BY <3>1, <4>1, <4>2, <4>3 DEF LockedUp
    <3>7. QED
      BY <3>1, <3>5, <3>6 DEF StaysLockedUp
  <2>7. QED
    BY <2>1, <2>2, <2>4, <2>5, <2>6
       DEF Next, ConnStep, CloserStep, Sweep, Tick, Create, Upgrade, LookupStart, LookupEnd,
           Lookup, LookupClose, Delete, SweepStart, SweepLock, SweepPick, SweepInspect,
           SweepDrop, SweepEnd, store, locks, callers
<1>2. QED
  BY <1>1, TypeCorrect, PTL DEF Spec, LockupLasts
===============================================================================
