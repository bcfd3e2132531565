---------------------------- MODULE LiveRoomProofs ----------------------------
(***************************************************************************)
(* What LiveRoom guarantees for any number of connections, users and calls *)
(* and any capacity of the hub's channels.                                 *)
(***************************************************************************)
EXTENDS LiveRoom, SequenceTheorems, TLAPS

-----------------------------------------------------------------------------
(* Types *)

\* A goroutine's steps move it to a label.
LEMMA GotoType ==
  ASSUME pc \in [Conns -> Labels], NEW c \in Conns, NEW label \in Labels, Goto(c, label)
  PROVE  pc' \in [Conns -> Labels]
BY DEF Goto

\* A broadcast enters the channel with the next number and room to spare.
LEMMA PostType ==
  ASSUME TypeOK, Post
  PROVE  /\ posted' \in Nat /\ posted' = posted + 1
         /\ broadcast' \in Seq(1..posted') /\ Len(broadcast') = Len(broadcast) + 1
         /\ Len(broadcast') <= BroadcastCap
         /\ \A i \in 1..Len(broadcast) : broadcast'[i] = broadcast[i]
         /\ broadcast'[Len(broadcast) + 1] = posted + 1
         /\ 1..posted \subseteq 1..posted' /\ 0..posted \subseteq 0..posted'
<1>1. posted' \in Nat /\ posted' = posted + 1 /\ posted + 1 \in 1..posted'
  BY DEF TypeOK, Post
<1>2. 1..posted \subseteq 1..posted' /\ 0..posted \subseteq 0..posted'
  BY <1>1 DEF TypeOK
<1>3. broadcast \in Seq(1..posted')
  BY <1>2, SeqMonotonic DEF TypeOK
<1>4. broadcast' = Append(broadcast, posted + 1)
  BY DEF Post
<1>5. Len(broadcast) \in Nat /\ BroadcastCap \in Nat /\ Len(broadcast) < BroadcastCap
  BY <1>3, CapAssumption, LenProperties DEF Post
<1>6. /\ broadcast' \in Seq(1..posted') /\ Len(broadcast') = Len(broadcast) + 1
      /\ \A i \in 1..Len(broadcast) : broadcast'[i] = broadcast[i]
      /\ broadcast'[Len(broadcast) + 1] = posted + 1
  BY <1>1, <1>3, <1>4, AppendProperties
<1>7. QED
  BY <1>1, <1>2, <1>5, <1>6

\* What posting leaves alone keeps its type.
LEMMA PostKeepsTypes ==
  ASSUME TypeOK, Post, UNCHANGED <<session, open, joining, user, hub, calls, usedBy>>,
         pc' \in [Conns -> Labels]
  PROVE  TypeOK'
<1>1. /\ posted' \in Nat /\ broadcast' \in Seq(1..posted') /\ Len(broadcast') <= BroadcastCap
      /\ 1..posted \subseteq 1..posted' /\ 0..posted \subseteq 0..posted'
  BY PostType
<1>2. todo' \subseteq Conns \X (1..posted') /\ got' \in [Conns -> 0..posted']
  BY <1>1 DEF TypeOK, hub
<1>3. UNCHANGED <<register, unregister>>
  BY DEF Post
<1>4. QED
  BY <1>1, <1>2, <1>3 DEF TypeOK, session, hub

LEMMA InitType == Init => TypeOK
<1> SUFFICES ASSUME Init PROVE TypeOK
  OBVIOUS
<1>1. /\ register \in Seq(Conns) /\ unregister \in Seq(Conns) /\ broadcast \in Seq(1..posted)
      /\ Len(register) = 0 /\ Len(unregister) = 0 /\ Len(broadcast) = 0
  BY EmptySeq DEF Init
<1>2. QED
  BY <1>1, CapAssumption DEF Init, TypeOK, Labels

\* The channels after a connection has been appended, or the first taken out.
LEMMA ChannelType ==
  ASSUME NEW q \in Seq(Conns), Len(q) <= RegisterCap
  PROVE  /\ \A c \in Conns : Len(q) < RegisterCap =>
              Append(q, c) \in Seq(Conns) /\ Len(Append(q, c)) <= RegisterCap
         /\ q # <<>> => /\ Head(q) \in Conns
                        /\ Tail(q) \in Seq(Conns) /\ Len(Tail(q)) <= RegisterCap
<1>1. Len(q) \in Nat /\ RegisterCap \in Nat
  BY CapAssumption, LenProperties
<1>2. ASSUME NEW c \in Conns, Len(q) < RegisterCap
      PROVE  Append(q, c) \in Seq(Conns) /\ Len(Append(q, c)) <= RegisterCap
  BY <1>1, <1>2, AppendProperties
<1>3. ASSUME q # <<>>
      PROVE  Head(q) \in Conns /\ Tail(q) \in Seq(Conns) /\ Len(Tail(q)) <= RegisterCap
  BY <1>1, <1>3, HeadTailProperties
<1>4. QED
  BY <1>2, <1>3

LEMMA HandlerType == ASSUME TypeOK, NEW c \in Conns, Handler(c) PROVE TypeOK'
<1> USE DEF session, channels, hub
<1>1. CASE MarkStart(c)
  BY <1>1, GotoType DEF MarkStart, TypeOK, Labels
<1>2. CASE ReadFails(c)
  BY <1>2, GotoType DEF ReadFails, TypeOK, Labels
<1>3. CASE SetOffline(c)
  BY <1>3, GotoType DEF SetOffline, TakeOffline, TypeOK, Labels
<1>4. CASE SetOnline(c)
  <2>1. pc' \in [Conns -> Labels]
    BY <1>4, GotoType DEF SetOnline, TypeOK, Labels
  <2>2. joining' \in [Conns -> Users \cup {Nil}]
    BY <1>4 DEF SetOnline, TypeOK
  <2>3. CASE StillThere(joining[c])
    <3> DEFINE u == joining[c]
    <3>1. u \in members /\ u \in Users
      BY <2>3 DEF StillThere, TypeOK
    <3>2. online' = online \cup {u} /\ user' = [user EXCEPT ![c] = u]
          /\ usedBy' = [usedBy EXCEPT ![u] = @ \cup {c}]
      BY <1>4, <2>3 DEF SetOnline, TakeOnline
    <3>3. user' \in [Conns -> Users \cup {Nil}] /\ usedBy' \in [Users -> SUBSET Conns]
      BY <3>1, <3>2 DEF TypeOK
    <3>4. UNCHANGED <<stored, issued, members, open, channels, hub, calls>>
      BY <1>4 DEF SetOnline
    <3> HIDE DEF u
    <3>5. QED
      BY <2>1, <2>2, <3>1, <3>2, <3>3, <3>4 DEF TypeOK
  <2>4. CASE ~StillThere(joining[c])
    BY <1>4, <2>1, <2>2, <2>4 DEF SetOnline, TypeOK
  <2>5. QED
    BY <2>3, <2>4
<1>5. CASE FetchState(c)
  BY <1>5, GotoType DEF FetchState, TypeOK, Labels
<1>6. CASE PostEvent(c)
  BY <1>6, GotoType, PostKeepsTypes DEF PostEvent, TypeOK, Labels
<1>7. CASE PostLeft(c)
  BY <1>7, GotoType, PostKeepsTypes DEF PostLeft, TypeOK, Labels
<1>8. CASE Register(c)
  <2>1. register' \in Seq(Conns) /\ Len(register') <= RegisterCap
    BY <1>8, ChannelType DEF Register, TypeOK
  <2>2. pc' \in [Conns -> Labels]
    BY <1>8, GotoType DEF Register, TypeOK, Labels
  <2>3. QED
    BY <1>8, <2>1, <2>2 DEF Register, TypeOK
<1>9. CASE Unregister(c)
  <2>1. unregister' \in Seq(Conns) /\ Len(unregister') <= RegisterCap
    BY <1>9, ChannelType DEF Unregister, TypeOK
  <2>2. pc' \in [Conns -> Labels]
    BY <1>9, GotoType DEF Unregister, TypeOK, Labels
  <2>3. QED
    BY <1>9, <2>1, <2>2 DEF Unregister, TypeOK
<1>10. QED
  BY <1>1, <1>2, <1>3, <1>4, <1>5, <1>6, <1>7, <1>8, <1>9 DEF Handler

\* The bound on calls is kept.
LEMMA ServedType == TypeOK /\ Served => calls' \in 0..MaxCalls
BY CapAssumption DEF Served, TypeOK

LEMMA ClientType == ASSUME TypeOK, NEW c \in Conns, Client(c) PROVE TypeOK'
<1> USE DEF session, channels, hub
<1>1. CASE Upgrade(c)
  BY <1>1, GotoType DEF Upgrade, TypeOK, Labels
<1>2. CASE HangUp(c)
  BY <1>2 DEF HangUp, TypeOK
<1>3. CASE Act(c)
  BY <1>3, GotoType, ServedType DEF Act, Read, TypeOK, Labels
<1>4. ASSUME NEW u \in Users, JoinKnown(c, u) PROVE TypeOK'
  BY <1>4, GotoType, ServedType DEF JoinKnown, Read, TypeOK, Labels
<1>5. ASSUME NEW u \in Users, JoinNew(c, u) PROVE TypeOK'
  BY <1>5, GotoType, ServedType DEF JoinNew, Read, TypeOK, Labels
<1>6. QED
  BY <1>1, <1>2, <1>3, <1>4, <1>5 DEF Client

\* What the hub takes from the channel, and what stays there.
LEMMA TakeType ==
  ASSUME TypeOK, broadcast # <<>>
  PROVE  /\ Oldest \in 1..posted /\ Oldest = broadcast[1]
         /\ Tail(broadcast) \in Seq(1..posted) /\ Len(Tail(broadcast)) = Len(broadcast) - 1
         /\ Len(broadcast) \in Nat \ {0} /\ Len(Tail(broadcast)) <= BroadcastCap
         /\ \A i \in 1..Len(Tail(broadcast)) : Tail(broadcast)[i] = broadcast[i + 1]
<1>1. broadcast \in Seq(1..posted) /\ Len(broadcast) \in Nat /\ BroadcastCap \in Nat
      /\ Len(broadcast) <= BroadcastCap
  BY CapAssumption, LenProperties DEF TypeOK
<1>2. Len(broadcast) # 0
  BY <1>1, EmptySeq
<1>3. /\ Head(broadcast) \in 1..posted
      /\ Tail(broadcast) \in Seq(1..posted) /\ Len(Tail(broadcast)) = Len(broadcast) - 1
      /\ \A i \in 1..Len(Tail(broadcast)) : Tail(broadcast)[i] = broadcast[i + 1]
  BY <1>1, HeadTailProperties
<1>4. Head(broadcast) = broadcast[1]
  BY <1>1
<1>5. QED
  BY <1>1, <1>2, <1>3, <1>4 DEF Oldest

LEMMA HubType == TypeOK /\ Hub => TypeOK'
<1> SUFFICES ASSUME TypeOK, Hub PROVE TypeOK'
  OBVIOUS
<1> USE DEF session, channels
<1>1. CASE HubRegister
  <2>1. /\ Head(register) \in Conns
        /\ register' \in Seq(Conns) /\ Len(register') <= RegisterCap
    BY <1>1, ChannelType DEF HubRegister, TypeOK
  <2>2. QED
    BY <1>1, <2>1 DEF HubRegister, TypeOK
<1>2. CASE HubUnregister
  <2>1. unregister' \in Seq(Conns) /\ Len(unregister') <= RegisterCap
    BY <1>2, ChannelType DEF HubUnregister, TypeOK
  <2>2. QED
    BY <1>2, <2>1 DEF HubUnregister, Forget, TypeOK
<1>3. CASE HubTake
  <2>1. /\ broadcast' \in Seq(1..posted) /\ Len(broadcast') <= BroadcastCap
        /\ todo' \subseteq Conns \X (1..posted)
    BY <1>3, TakeType DEF HubTake, TypeOK
  <2>2. QED
    BY <1>3, <2>1 DEF HubTake, TypeOK
<1>4. ASSUME NEW d \in Conns, HubSend(d) PROVE TypeOK'
  BY <1>4 DEF HubSend, Written, TypeOK
<1>5. QED
  BY <1>1, <1>2, <1>3, <1>4 DEF Hub

LEMMA StepType == TypeOK /\ [Next]_vars => TypeOK'
<1> SUFFICES ASSUME TypeOK, [Next]_vars PROVE TypeOK'
  OBVIOUS
<1>1. ASSUME NEW u \in Users, RestJoin(u) PROVE TypeOK'
  BY <1>1, ServedType DEF RestJoin, TypeOK, channels, hub
<1>2. ASSUME NEW u \in Users, RestLeave(u) PROVE TypeOK'
  BY <1>2, ServedType DEF RestLeave, TypeOK, channels, hub
<1>3. CASE RoomEnds
  BY <1>3 DEF RoomEnds, TypeOK, channels, hub
<1>4. CASE UNCHANGED vars
  BY <1>4 DEF vars, TypeOK, session, channels, hub
<1>5. QED
  BY <1>1, <1>2, <1>3, <1>4, HandlerType, ClientType, HubType DEF Next

\* The live side of the room keeps its types, and its channels their capacity.
THEOREM TypeCorrect == Spec => []TypeOK
<1>1. QED
  BY InitType, StepType, PTL DEF Spec

-----------------------------------------------------------------------------
(* Presence *)

\* A connection that stands for a user was joined as that user, and nobody was
\* joined as a user before the id was handed out.
HistoryInv ==
  /\ \A c \in Conns : user[c] # Nil => c \in usedBy[user[c]]
  /\ \A u \in Users : usedBy[u] # {} => u \in issued

PresenceInv == HistoryInv /\ NobodyLingersOnline /\ SoleConnectionIsOnline

\* A goroutine that neither joins nor takes its user offline, and does not end
\* while it stands for somebody, leaves presence as it was.
LEMMA OtherStepKeepsPresence ==
  ASSUME TypeOK, PresenceInv,
         UNCHANGED <<members, issued, online, user, usedBy>>, stored' = stored,
         \A c \in Conns : (pc'[c] \in Left /\ pc[c] \notin Left /\ user[c] # Nil) => ~stored,
         \A c \in Conns : pc[c] \in Left => pc'[c] \in Left
  PROVE  PresenceInv'
<1>1. HistoryInv'
  BY DEF PresenceInv, HistoryInv
<1>2. NobodyLingersOnline'
  <2> SUFFICES ASSUME stored, NEW u \in members,
                      \A c \in usedBy[u] : user[c] = u /\ pc'[c] \in Left
               PROVE  u \notin online
    BY DEF NobodyLingersOnline
  <2>1. usedBy[u] \subseteq Conns /\ u # Nil
    BY NilAssumption DEF TypeOK
  <2>2. \A c \in usedBy[u] : user[c] = u /\ pc[c] \in Left
    BY <2>1
  <2>3. QED
    BY <2>2 DEF PresenceInv, NobodyLingersOnline
<1>3. SoleConnectionIsOnline'
  BY DEF PresenceInv, SoleConnectionIsOnline
<1>4. QED
  BY <1>1, <1>2, <1>3 DEF PresenceInv

\* The participant who joins is online, and the connection stands for nobody
\* else from then on.
LEMMA SetOnlineKeepsPresence ==
  ASSUME TypeOK, PresenceInv, NEW c \in Conns, SetOnline(c), StillThere(joining[c])
  PROVE  PresenceInv'
<1> DEFINE u == joining[c]
<1>1. u \in members /\ u \in Users /\ u \in issued /\ u # Nil
  BY NilAssumption DEF StillThere, TypeOK
<1>2. /\ online' = online \cup {u} /\ user' = [user EXCEPT ![c] = u]
      /\ usedBy' = [usedBy EXCEPT ![u] = @ \cup {c}]
      /\ pc' = [pc EXCEPT ![c] = "joined"]
      /\ UNCHANGED <<stored, issued, members>>
  BY DEF SetOnline, TakeOnline, Goto
<1> HIDE DEF u
<1>3. /\ user'[c] = u /\ pc'[c] = "joined" /\ usedBy'[u] = usedBy[u] \cup {c}
      /\ \A d \in Conns \ {c} : user'[d] = user[d] /\ pc'[d] = pc[d]
      /\ \A v \in Users \ {u} : usedBy'[v] = usedBy[v]
  BY <1>1, <1>2 DEF TypeOK
<1>4. user \in [Conns -> Users \cup {Nil}] /\ usedBy \in [Users -> SUBSET Conns] /\ members \subseteq Users
  BY DEF TypeOK
<1>5. HistoryInv'
  <2>1. ASSUME NEW d \in Conns, user'[d] # Nil PROVE d \in usedBy'[user'[d]]
    <3>1. CASE d = c
      BY <1>3, <3>1
    <3>2. CASE d # c
      <4>1. user'[d] = user[d] /\ user[d] \in Users /\ d \in usedBy[user[d]]
        BY <1>3, <1>4, <2>1, <3>2 DEF PresenceInv, HistoryInv
      <4>2. QED
        BY <1>3, <4>1
    <3>3. QED
      BY <3>1, <3>2
  <2>2. ASSUME NEW v \in Users, usedBy'[v] # {} PROVE v \in issued'
    BY <1>1, <1>2, <1>3, <2>2 DEF PresenceInv, HistoryInv
  <2>3. QED
    BY <2>1, <2>2 DEF HistoryInv
<1>6. NobodyLingersOnline'
  <2> SUFFICES ASSUME stored, NEW v \in members,
                      \A d \in usedBy'[v] : user'[d] = v /\ pc'[d] \in Left
               PROVE  v \notin online'
    BY <1>2 DEF NobodyLingersOnline
  <2>1. v # u
    BY <1>3 DEF Left
  <2>2. c \notin usedBy[v]
    BY <1>3, <1>4, <2>1
  <2>3. \A d \in usedBy[v] : user[d] = v /\ pc[d] \in Left
    BY <1>3, <1>4, <2>1, <2>2
  <2>4. QED
    BY <1>2, <2>1, <2>3 DEF PresenceInv, NobodyLingersOnline
<1>7. SoleConnectionIsOnline'
  <2> SUFFICES ASSUME NEW v \in members, NEW d \in Conns,
                      usedBy'[v] = {d}, user'[d] = v, pc'[d] \notin Left
               PROVE  v \in online'
    BY <1>2 DEF SoleConnectionIsOnline
  <2>1. CASE v = u
    BY <1>2, <2>1
  <2>2. CASE v # u
    <3>1. d # c /\ usedBy[v] = {d} /\ user[d] = v /\ pc[d] \notin Left
      BY <1>3, <1>4, <2>2
    <3>2. QED
      BY <1>2, <3>1 DEF PresenceInv, SoleConnectionIsOnline
  <2>3. QED
    BY <2>1, <2>2
<1>8. QED
  BY <1>5, <1>6, <1>7 DEF PresenceInv

\* The clean-up of a user's connection is that of all there were, or the user
\* had several.
LEMMA SetOfflineKeepsPresence ==
  ASSUME TypeOK, PresenceInv, NEW c \in Conns, SetOffline(c)
  PROVE  PresenceInv'
<1>1. /\ pc[c] = "leaving" /\ pc' = [pc EXCEPT ![c] = "parting"]
      /\ online' = IF stored THEN online \ {user[c]} ELSE online
      /\ UNCHANGED <<stored, issued, members, user, usedBy>>
  BY DEF SetOffline, TakeOffline, Goto
<1>2. pc'[c] = "parting" /\ \A d \in Conns \ {c} : pc'[d] = pc[d]
  BY <1>1 DEF TypeOK
<1>3. usedBy \in [Users -> SUBSET Conns] /\ members \subseteq Users
  BY DEF TypeOK
<1>4. HistoryInv'
  BY <1>1 DEF PresenceInv, HistoryInv
<1>5. NobodyLingersOnline'
  <2> SUFFICES ASSUME stored, NEW v \in members,
                      \A d \in usedBy[v] : user[d] = v /\ pc'[d] \in Left
               PROVE  v \notin online'
    BY <1>1 DEF NobodyLingersOnline
  <2>1. CASE v = user[c]
    BY <1>1, <2>1
  <2>2. CASE v # user[c]
    <3>1. \A d \in usedBy[v] : user[d] = v /\ pc[d] \in Left
      BY <1>2, <1>3, <2>2
    <3>2. QED
      BY <1>1, <3>1 DEF PresenceInv, NobodyLingersOnline
  <2>3. QED
    BY <2>1, <2>2
<1>6. SoleConnectionIsOnline'
  <2> SUFFICES ASSUME NEW v \in members, NEW d \in Conns,
                      usedBy[v] = {d}, user[d] = v, pc'[d] \notin Left
               PROVE  v \in online'
    BY <1>1 DEF SoleConnectionIsOnline
  <2>1. d # c /\ pc[d] \notin Left
    BY <1>2 DEF Left
  <2>2. user[c] # v
    BY <1>3, <2>1, NilAssumption DEF PresenceInv, HistoryInv
  <2>3. v \in online
    BY <2>1 DEF PresenceInv, SoleConnectionIsOnline
  <2>4. QED
    BY <1>1, <2>2, <2>3
<1>7. QED
  BY <1>4, <1>5, <1>6 DEF PresenceInv

\* Whoever is given an id is a participant who was never joined as before.
LEMMA NewUserKeepsPresence ==
  ASSUME TypeOK, PresenceInv, NEW u \in Users, u \notin issued,
         issued' = issued \cup {u}, members' = members \cup {u},
         UNCHANGED <<stored, online, user, usedBy>>,
         \A c \in Conns : pc'[c] \in Left <=> pc[c] \in Left
  PROVE  PresenceInv'
<1>1. u \notin online /\ usedBy[u] = {} /\ usedBy \in [Users -> SUBSET Conns] /\ members \subseteq Users
  BY DEF TypeOK, PresenceInv, HistoryInv
<1>2. HistoryInv'
  BY DEF PresenceInv, HistoryInv
<1>3. NobodyLingersOnline'
  <2> SUFFICES ASSUME stored, NEW v \in members \cup {u},
                      \A d \in usedBy[v] : user[d] = v /\ pc'[d] \in Left
               PROVE  v \notin online
    BY DEF NobodyLingersOnline
  <2>1. CASE v \in members
    <3>1. \A d \in usedBy[v] : user[d] = v /\ pc[d] \in Left
      BY <1>1, <2>1
    <3>2. QED
      BY <2>1, <3>1 DEF PresenceInv, NobodyLingersOnline
  <2>2. QED
    BY <1>1, <2>1
<1>4. SoleConnectionIsOnline'
  <2> SUFFICES ASSUME NEW v \in members \cup {u}, NEW d \in Conns,
                      usedBy[v] = {d}, user[d] = v, pc'[d] \notin Left
               PROVE  v \in online
    BY DEF SoleConnectionIsOnline
  <2>1. v \in members /\ pc[d] \notin Left
    BY <1>1
  <2>2. QED
    BY <2>1 DEF PresenceInv, SoleConnectionIsOnline
<1>5. QED
  BY <1>2, <1>3, <1>4 DEF PresenceInv

LEMMA HandlerKeepsPresence ==
  ASSUME TypeOK, PresenceInv, NEW c \in Conns, Handler(c) PROVE PresenceInv'
<1> USE DEF session
<1>1. pc \in [Conns -> Labels]
  BY DEF TypeOK
<1>2. CASE SetOnline(c)
  <2>1. CASE StillThere(joining[c])
    BY <1>2, <2>1, SetOnlineKeepsPresence
  <2>2. CASE ~StillThere(joining[c])
    <3>1. /\ UNCHANGED <<stored, members, issued, online, user, usedBy>>
          /\ pc[c] = "joining" /\ pc' = [pc EXCEPT ![c] = "reading"]
      BY <1>2, <2>2 DEF SetOnline, Goto
    <3>2. \A d \in Conns : pc'[d] \in Left <=> pc[d] \in Left
      BY <1>1, <3>1 DEF Left
    <3>3. QED
      BY <3>1, <3>2, OtherStepKeepsPresence
  <2>3. QED
    BY <2>1, <2>2
<1>3. CASE SetOffline(c)
  BY <1>3, SetOfflineKeepsPresence
<1>4. CASE MarkStart(c) \/ ReadFails(c) \/ FetchState(c) \/ PostEvent(c) \/ PostLeft(c)
           \/ Register(c) \/ Unregister(c)
  <2>1. UNCHANGED <<stored, members, issued, online, user, usedBy>>
    BY <1>4 DEF MarkStart, ReadFails, FetchState, PostEvent, PostLeft, Register, Unregister
  <2>2. \A d \in Conns : pc[d] \in Left => pc'[d] \in Left
    BY <1>1, <1>4
       DEF MarkStart, ReadFails, FetchState, PostEvent, PostLeft, Register, Unregister, Goto, Left
  <2>3. \A d \in Conns : (pc'[d] \in Left /\ pc[d] \notin Left /\ user[d] # Nil) => ~stored
    BY <1>1, <1>4
       DEF MarkStart, ReadFails, FetchState, PostEvent, PostLeft, Register, Unregister, Goto, Left
  <2>4. QED
    BY <2>1, <2>2, <2>3, OtherStepKeepsPresence
<1>5. QED
  BY <1>2, <1>3, <1>4 DEF Handler

LEMMA ClientKeepsPresence ==
  ASSUME TypeOK, PresenceInv, NEW c \in Conns, Client(c) PROVE PresenceInv'
<1> USE DEF session
<1>1. pc \in [Conns -> Labels]
  BY DEF TypeOK
<1>2. ASSUME NEW u \in Users, JoinNew(c, u) PROVE PresenceInv'
  <2>1. \A d \in Conns : pc'[d] \in Left <=> pc[d] \in Left
    BY <1>1, <1>2 DEF JoinNew, Read, Goto, Left
  <2>2. QED
    BY <1>2, <2>1, NewUserKeepsPresence DEF JoinNew
<1>3. CASE Upgrade(c) \/ HangUp(c) \/ Act(c) \/ \E u \in Users : JoinKnown(c, u)
  <2>1. UNCHANGED <<stored, members, issued, online, user, usedBy>>
    BY <1>3 DEF Upgrade, HangUp, Act, JoinKnown
  <2>2. \A d \in Conns : pc'[d] \in Left <=> pc[d] \in Left
    BY <1>1, <1>3 DEF Upgrade, HangUp, Act, JoinKnown, Read, Goto, Left
  <2>3. QED
    BY <2>1, <2>2, OtherStepKeepsPresence
<1>4. QED
  BY <1>2, <1>3 DEF Client

LEMMA PresenceStep == TypeOK /\ PresenceInv /\ [Next]_vars => PresenceInv'
<1> SUFFICES ASSUME TypeOK, PresenceInv, [Next]_vars PROVE PresenceInv'
  OBVIOUS
<1> USE DEF session
<1>1. ASSUME NEW u \in Users, RestJoin(u) PROVE PresenceInv'
  BY <1>1, NewUserKeepsPresence DEF RestJoin
<1>2. ASSUME NEW u \in Users, RestLeave(u) PROVE PresenceInv'
  BY <1>2 DEF RestLeave, PresenceInv, HistoryInv, NobodyLingersOnline, SoleConnectionIsOnline
<1>3. CASE RoomEnds
  BY <1>3 DEF RoomEnds, PresenceInv, HistoryInv, NobodyLingersOnline, SoleConnectionIsOnline
<1>4. CASE Hub \/ UNCHANGED vars
  <2>1. UNCHANGED <<stored, members, issued, online, user, usedBy, pc>>
    BY <1>4 DEF Hub, HubRegister, HubUnregister, HubTake, HubSend, vars
  <2>2. QED
    BY <2>1, OtherStepKeepsPresence
<1>5. QED
  BY <1>1, <1>2, <1>3, <1>4, HandlerKeepsPresence, ClientKeepsPresence DEF Next

LEMMA PresenceInit == Init => PresenceInv
BY DEF Init, PresenceInv, HistoryInv, NobodyLingersOnline, SoleConnectionIsOnline

LEMMA PresenceCorrect == Spec => []PresenceInv
<1>1. QED
  BY PresenceInit, PresenceStep, TypeCorrect, PTL DEF Spec

\* Whatever the order in which the connections of a user come, join, hang up
\* and are cleaned up, the user is offline once they all have been
\* (api/handlers/websocket.go:138-147).
THEOREM NobodyStaysOnline == Spec => []NobodyLingersOnline
<1>1. QED
  BY PresenceCorrect, PTL DEF PresenceInv

\* A participant with one connection only is online as long as it lasts
\* (api/handlers/websocket.go:322-326).
THEOREM SoleConnectionCounts == Spec => []SoleConnectionIsOnline
<1>1. QED
  BY PresenceCorrect, PTL DEF PresenceInv

-----------------------------------------------------------------------------
(* The hub's clients and what they receive *)

Signed == {"leaving", "parting", "gone"}
Unread == {"unregistering"} \cup Signed

\* Who has asked to be unregistered is past reading and stays so.
UnregisterInv == \A i \in DOMAIN unregister : pc[unregister[i]] \in Signed

ServedInv == LiveClientsAreServed /\ UnregisterInv

\* Steps after which no connection is attached that was not.
LEMMA PcKeepsServed ==
  ASSUME ServedInv, UNCHANGED <<clients, register, unregister>>,
         TypeOK,
         \A c \in Conns : pc'[c] \in Attached => pc[c] \in Attached,
         \A c \in Conns : pc[c] \in Signed => pc'[c] \in Signed
  PROVE  ServedInv'
<1>1. \A i \in DOMAIN unregister : unregister[i] \in Conns
  BY DEF TypeOK
<1>2. QED
  BY <1>1 DEF ServedInv, LiveClientsAreServed, UnregisterInv

LEMMA RegisterKeepsServed ==
  ASSUME TypeOK, ServedInv, NEW c \in Conns, Register(c) PROVE ServedInv'
<1>1. /\ register' = Append(register, c) /\ pc[c] = "registering"
      /\ pc' = [pc EXCEPT ![c] = "reading"] /\ UNCHANGED <<clients, unregister>>
  BY DEF Register, Goto, hub
<1>2. register \in Seq(Conns) /\ unregister \in Seq(Conns) /\ pc \in [Conns -> Labels]
  BY DEF TypeOK
<1>3. /\ DOMAIN register' = 1..(Len(register) + 1) /\ DOMAIN register = 1..Len(register)
      /\ Len(register) \in Nat
      /\ \A i \in 1..Len(register) : register'[i] = register[i]
      /\ register'[Len(register) + 1] = c
  BY <1>1, <1>2, AppendProperties, LenProperties
<1>4. LiveClientsAreServed'
  <2> SUFFICES ASSUME NEW d \in Conns, pc'[d] \in Attached
               PROVE  d \in clients \/ \E i \in DOMAIN register' : register'[i] = d
    BY <1>1 DEF LiveClientsAreServed
  <2>1. CASE d = c
    BY <1>3, <2>1
  <2>2. CASE d # c
    <3>1. pc[d] \in Attached
      BY <1>1, <1>2, <2>2
    <3>2. CASE \E i \in DOMAIN register : register[i] = d
      BY <1>3, <3>2
    <3>3. QED
      BY <3>1, <3>2 DEF ServedInv, LiveClientsAreServed
  <2>3. QED
    BY <2>1, <2>2
<1>5. UnregisterInv'
  <2>1. ASSUME NEW i \in DOMAIN unregister PROVE pc'[unregister[i]] \in Signed
    <3>1. unregister[i] \in Conns /\ pc[unregister[i]] \in Signed
      BY <1>2 DEF ServedInv, UnregisterInv
    <3>2. unregister[i] # c
      BY <1>1, <3>1 DEF Signed
    <3>3. QED
      BY <1>1, <1>2, <3>1, <3>2
  <2>2. QED
    BY <1>1, <2>1 DEF UnregisterInv
<1>6. QED
  BY <1>4, <1>5 DEF ServedInv

LEMMA UnregisterKeepsServed ==
  ASSUME TypeOK, ServedInv, NEW c \in Conns, Unregister(c) PROVE ServedInv'
<1>1. /\ unregister' = Append(unregister, c) /\ pc[c] = "unregistering"
      /\ \E label \in Signed : pc' = [pc EXCEPT ![c] = label]
      /\ UNCHANGED <<clients, register>>
  BY DEF Unregister, Goto, hub, Signed
<1>2. unregister \in Seq(Conns) /\ pc \in [Conns -> Labels]
  BY DEF TypeOK
<1>3. /\ pc'[c] \in Signed /\ \A d \in Conns \ {c} : pc'[d] = pc[d]
  BY <1>1, <1>2
<1>4. /\ DOMAIN unregister' = 1..(Len(unregister) + 1) /\ DOMAIN unregister = 1..Len(unregister)
      /\ Len(unregister) \in Nat
      /\ \A i \in 1..Len(unregister) : unregister'[i] = unregister[i]
      /\ unregister'[Len(unregister) + 1] = c
  BY <1>1, <1>2, AppendProperties, LenProperties
<1>5. LiveClientsAreServed'
  <2>1. \A d \in Conns : pc'[d] \in Attached => pc[d] \in Attached
    BY <1>3 DEF Signed, Attached
  <2>2. QED
    BY <1>1, <2>1 DEF ServedInv, LiveClientsAreServed
<1>6. UnregisterInv'
  <2>1. ASSUME NEW i \in 1..(Len(unregister) + 1) PROVE pc'[unregister'[i]] \in Signed
    <3>1. CASE i = Len(unregister) + 1
      BY <1>3, <1>4, <3>1
    <3>2. CASE i # Len(unregister) + 1
      <4>1. i \in 1..Len(unregister)
        BY <1>4, <3>2
      <4>2. unregister[i] \in Conns /\ pc[unregister[i]] \in Signed
        BY <1>2, <1>4, <4>1 DEF ServedInv, UnregisterInv
      <4>3. QED
        BY <1>3, <1>4, <4>1, <4>2
    <3>3. QED
      BY <3>1, <3>2
  <2>2. QED
    BY <1>4, <2>1 DEF UnregisterInv
<1>7. QED
  BY <1>5, <1>6 DEF ServedInv

\* What waits in a channel is at its head or in its tail.
LEMMA HeadOrTail ==
  ASSUME NEW q \in Seq(Conns), q # <<>>
  PROVE  /\ \A i \in DOMAIN q : q[i] = Head(q) \/ \E j \in DOMAIN Tail(q) : Tail(q)[j] = q[i]
         /\ \A j \in DOMAIN Tail(q) : \E i \in DOMAIN q : q[i] = Tail(q)[j]
         /\ \E i \in DOMAIN q : q[i] = Head(q)
<1>1. /\ Len(q) \in Nat /\ DOMAIN q = 1..Len(q) /\ Len(q) # 0
  BY LenProperties, EmptySeq
<1>2. /\ Tail(q) \in Seq(Conns) /\ Len(Tail(q)) = Len(q) - 1
      /\ \A i \in 1..Len(Tail(q)) : Tail(q)[i] = q[i + 1]
  BY HeadTailProperties
<1>3. DOMAIN Tail(q) = 1..(Len(q) - 1)
  BY <1>2, LenProperties
<1>4. Head(q) = q[1]
  OBVIOUS
<1>5. ASSUME NEW i \in 1..Len(q)
      PROVE  q[i] = Head(q) \/ \E j \in 1..(Len(q) - 1) : Tail(q)[j] = q[i]
  <2>1. CASE i = 1
    BY <1>4, <2>1
  <2>2. CASE i # 1
    <3>1. i - 1 \in 1..(Len(q) - 1) /\ (i - 1) + 1 = i
      BY <1>1, <2>2
    <3>2. Tail(q)[i - 1] = q[i]
      BY <1>2, <3>1
    <3>3. QED
      BY <3>1, <3>2
  <2>3. QED
    BY <2>1, <2>2
<1>6. ASSUME NEW j \in 1..(Len(q) - 1) PROVE \E i \in 1..Len(q) : q[i] = Tail(q)[j]
  <2>1. j + 1 \in 1..Len(q) /\ Tail(q)[j] = q[j + 1]
    BY <1>1, <1>2
  <2>2. QED
    BY <2>1
<1>7. 1 \in DOMAIN q /\ q[1] = Head(q)
  BY <1>1, <1>4
<1>8. \A i \in DOMAIN q : q[i] = Head(q) \/ \E j \in DOMAIN Tail(q) : Tail(q)[j] = q[i]
  BY <1>1, <1>3, <1>5
<1>9. \A j \in DOMAIN Tail(q) : \E i \in DOMAIN q : q[i] = Tail(q)[j]
  BY <1>1, <1>3, <1>6
<1>10. QED
  BY <1>7, <1>8, <1>9, Zenon

LEMMA HubKeepsServed == TypeOK /\ ServedInv /\ Hub => ServedInv'
<1> SUFFICES ASSUME TypeOK, ServedInv, Hub PROVE ServedInv'
  OBVIOUS
<1> USE DEF session, channels
<1>1. CASE HubRegister
  <2>1. /\ register # <<>> /\ register \in Seq(Conns)
        /\ clients' = clients \cup {Head(register)} /\ register' = Tail(register)
        /\ UNCHANGED <<pc, unregister>>
    BY <1>1 DEF HubRegister, TypeOK
  <2>2. \A i \in DOMAIN register :
          register[i] \in clients' \/ \E j \in DOMAIN register' : register'[j] = register[i]
    BY <2>1, HeadOrTail
  <2>3. QED
    BY <2>1, <2>2 DEF ServedInv, LiveClientsAreServed, UnregisterInv
<1>2. CASE HubUnregister
  <2>1. /\ unregister # <<>> /\ unregister \in Seq(Conns)
        /\ clients' = clients \ {Head(unregister)} /\ unregister' = Tail(unregister)
        /\ UNCHANGED <<pc, register>>
    BY <1>2 DEF HubUnregister, Forget, TypeOK
  <2>2. /\ \A j \in DOMAIN unregister' : \E i \in DOMAIN unregister : unregister[i] = unregister'[j]
        /\ \E i \in DOMAIN unregister : unregister[i] = Head(unregister)
    BY <2>1, HeadOrTail
  <2>3. pc[Head(unregister)] \notin Attached
    BY <2>2 DEF ServedInv, UnregisterInv, Signed, Attached
  <2>4. LiveClientsAreServed'
    BY <2>1, <2>3 DEF ServedInv, LiveClientsAreServed
  <2>5. UnregisterInv'
    BY <2>1, <2>2 DEF ServedInv, UnregisterInv
  <2>6. QED
    BY <2>4, <2>5 DEF ServedInv
<1>3. CASE HubTake \/ \E d \in Conns : HubSend(d)
  BY <1>3 DEF HubTake, HubSend, ServedInv, LiveClientsAreServed, UnregisterInv
<1>4. QED
  BY <1>1, <1>2, <1>3 DEF Hub

LEMMA ServedStep == TypeOK /\ ServedInv /\ [Next]_vars => ServedInv'
<1> SUFFICES ASSUME TypeOK, ServedInv, [Next]_vars PROVE ServedInv'
  OBVIOUS
<1>1. pc \in [Conns -> Labels]
  BY DEF TypeOK
<1>2. ASSUME NEW c \in Conns, Register(c) \/ Unregister(c) PROVE ServedInv'
  BY <1>2, RegisterKeepsServed, UnregisterKeepsServed
<1>3. CASE Hub
  BY <1>3, HubKeepsServed
<1>4. ASSUME NEW c \in Conns, \/ MarkStart(c) \/ ReadFails(c) \/ SetOffline(c) \/ SetOnline(c)
                              \/ FetchState(c) \/ PostEvent(c) \/ PostLeft(c) \/ Client(c)
      PROVE  ServedInv'
  <2>1. UNCHANGED <<clients, register, unregister>>
    BY <1>4 DEF MarkStart, ReadFails, SetOffline, SetOnline, FetchState, PostEvent, PostLeft,
                Client, Upgrade, HangUp, Act, JoinKnown, JoinNew, Post, channels, hub
  <2>2. /\ \A d \in Conns : pc'[d] \in Attached => pc[d] \in Attached
        /\ \A d \in Conns : pc[d] \in Signed => pc'[d] \in Signed
    BY <1>1, <1>4
       DEF MarkStart, ReadFails, SetOffline, SetOnline, FetchState, PostEvent, PostLeft,
           Client, Upgrade, HangUp, Act, JoinKnown, JoinNew, Read, Goto, Attached, Signed
  <2>3. QED
    BY <2>1, <2>2, PcKeepsServed
<1>5. CASE RoomEnds \/ UNCHANGED vars \/ \E u \in Users : RestJoin(u) \/ RestLeave(u)
  BY <1>5 DEF RoomEnds, RestJoin, RestLeave, vars, session, channels, hub,
              ServedInv, LiveClientsAreServed, UnregisterInv
<1>6. QED
  BY <1>2, <1>3, <1>4, <1>5 DEF Next, Handler

LEMMA ServedInit == Init => ServedInv
BY DEF Init, ServedInv, LiveClientsAreServed, UnregisterInv, Attached

LEMMA ServedCorrect == Spec => []ServedInv
<1>1. QED
  BY ServedInit, ServedStep, TypeCorrect, PTL DEF Spec

\* The hub's loop loses no client that is still served, though select takes
\* registrations and unregistrations in any order (providers/hub.go:111-130).
THEOREM NoClientIsLost == Spec => []LiveClientsAreServed
<1>1. QED
  BY ServedCorrect, PTL DEF ServedInv

-----------------------------------------------------------------------------
(* The hub publishes a topic *)

\* The broadcast the hub took last.
Taken == posted - Len(broadcast)

\* Broadcasts wait in the order of their numbers.
NumberedInv == \A i \in 1..Len(broadcast) : broadcast[i] = Taken + i

\* The hub writes the broadcast it took last, to clients it knows.
WritesInv == todo \subseteq clients \X {Taken}

\* A client that is there and has received anything is known to the hub, and has
\* received all up to the last one, but for the write that is still to come.
UpToDate ==
  \A d \in open : got[d] # 0 =>
    /\ d \in clients
    /\ got[d] = IF <<d, Taken>> \in todo THEN Taken - 1 ELSE Taken

\* A connection begins with nothing received, and is cleaned up only after its
\* client has gone.
OpenInv ==
  \A c \in Conns : /\ pc[c] = "out" => c \notin open /\ got[c] = 0
                   /\ pc[c] \in Unread => c \notin open

DeliveryInv == NumberedInv /\ WritesInv /\ UpToDate /\ OpenInv /\ UnregisterInv

LEMMA DeliveryInit == Init => NumberedInv /\ WritesInv /\ UpToDate /\ OpenInv
<1> SUFFICES ASSUME Init PROVE NumberedInv /\ WritesInv /\ UpToDate /\ OpenInv
  OBVIOUS
<1>1. Len(broadcast) = 0 /\ todo = {} /\ open = {}
  BY DEF Init
<1>2. QED
  BY <1>1 DEF Init, NumberedInv, WritesInv, UpToDate, OpenInv, Unread, Signed

\* Posting numbers one more broadcast and takes none.
LEMMA PostNumbers ==
  ASSUME TypeOK, NumberedInv, Post
  PROVE  NumberedInv' /\ Taken' = Taken
<1>1. /\ posted \in Nat /\ Len(broadcast) \in Nat
      /\ posted' = posted + 1 /\ Len(broadcast') = Len(broadcast) + 1
      /\ \A i \in 1..Len(broadcast) : broadcast'[i] = broadcast[i]
      /\ broadcast'[Len(broadcast) + 1] = posted + 1
  BY PostType, LenProperties DEF TypeOK
<1>2. Taken' = Taken /\ Taken \in Int /\ Taken + Len(broadcast) + 1 = posted + 1
  BY <1>1 DEF Taken
<1>3. ASSUME NEW i \in 1..Len(broadcast') PROVE broadcast'[i] = Taken' + i
  <2>1. CASE i = Len(broadcast) + 1
    BY <1>1, <1>2, <2>1
  <2>2. CASE i # Len(broadcast) + 1
    <3>1. i \in 1..Len(broadcast)
      BY <1>1, <2>2
    <3>2. QED
      BY <1>1, <1>2, <3>1 DEF NumberedInv
  <2>3. QED
    BY <2>1, <2>2
<1>4. QED
  BY <1>2, <1>3 DEF NumberedInv

\* Steps of the goroutines and the clients; the hub takes nothing and writes
\* nothing.
LEMMA ConnKeepsDelivery ==
  ASSUME TypeOK, DeliveryInv, NEW c \in Conns, Handler(c) \/ Client(c)
  PROVE  NumberedInv' /\ WritesInv' /\ UpToDate' /\ OpenInv'
<1> USE DEF session, channels, hub
<1>1. pc \in [Conns -> Labels] /\ got \in [Conns -> 0..posted]
  BY DEF TypeOK
<1>2. UNCHANGED <<clients, todo, got>>
  BY DEF Handler, Client, MarkStart, ReadFails, SetOffline, SetOnline, FetchState, PostEvent,
         PostLeft, Register, Unregister, Upgrade, HangUp, Act, JoinKnown, JoinNew
<1>3. NumberedInv' /\ Taken' = Taken
  <2>1. CASE PostEvent(c) \/ PostLeft(c)
    BY <2>1, PostNumbers DEF PostEvent, PostLeft, DeliveryInv
  <2>2. CASE ~(PostEvent(c) \/ PostLeft(c))
    <3>1. UNCHANGED <<broadcast, posted>>
      BY <2>2 DEF Handler, Client, MarkStart, ReadFails, SetOffline, SetOnline, FetchState,
                  Register, Unregister, Upgrade, HangUp, Act, JoinKnown, JoinNew
    <3>2. QED
      BY <3>1 DEF DeliveryInv, NumberedInv, Taken
  <2>3. QED
    BY <2>1, <2>2
<1>4. WritesInv'
  BY <1>2, <1>3 DEF DeliveryInv, WritesInv
<1>5. \A d \in open' : d \in open \/ (pc[d] = "out" /\ d \in Conns)
  BY DEF Handler, Client, MarkStart, ReadFails, SetOffline, SetOnline, FetchState, PostEvent,
         PostLeft, Register, Unregister, Upgrade, HangUp, Act, JoinKnown, JoinNew
<1>6. UpToDate'
  <2> SUFFICES ASSUME NEW d \in open', got[d] # 0
               PROVE  /\ d \in clients
                      /\ got[d] = IF <<d, Taken>> \in todo THEN Taken - 1 ELSE Taken
    BY <1>2, <1>3 DEF UpToDate
  <2>1. d \in open
    BY <1>5 DEF DeliveryInv, OpenInv
  <2>2. QED
    BY <2>1 DEF DeliveryInv, UpToDate
<1>7. OpenInv'
  <2> SUFFICES ASSUME NEW d \in Conns
               PROVE  /\ pc'[d] = "out" => d \notin open' /\ got[d] = 0
                      /\ pc'[d] \in Unread => d \notin open'
    BY <1>2 DEF OpenInv
  <2>1. CASE Handler(c)
    <3>1. open' = open \/ (open' = open \ {c} /\ pc' = [pc EXCEPT ![c] = "gone"])
      BY <2>1 DEF Handler, MarkStart, ReadFails, SetOffline, SetOnline, FetchState, PostEvent,
                  PostLeft, Register, Unregister, Goto
    <3>2. pc'[d] = pc[d] \/ (d = c /\ pc'[d] # "out")
      BY <1>1, <2>1 DEF Handler, MarkStart, ReadFails, SetOffline, SetOnline, FetchState,
                        PostEvent, PostLeft, Register, Unregister, Goto
    <3>3. pc'[d] \in Unread /\ pc[d] \notin Unread => d \notin open'
      BY <1>1, <2>1 DEF Handler, MarkStart, ReadFails, SetOffline, SetOnline, FetchState,
                        PostEvent, PostLeft, Register, Unregister, Goto, Unread, Signed
    <3>4. QED
      BY <3>1, <3>2, <3>3 DEF DeliveryInv, OpenInv
  <2>2. CASE Client(c)
    <3>1. \/ open' = open \cup {c} /\ pc' = [pc EXCEPT ![c] = "upgraded"]
          \/ open' \subseteq open /\ pc' = pc
          \/ open' = open /\ pc[c] = "reading"
             /\ \E label \in {"joining", "posting"} : pc' = [pc EXCEPT ![c] = label]
      BY <2>2 DEF Client, Upgrade, HangUp, Act, JoinKnown, JoinNew, Read, Goto
    <3>2. QED
      BY <1>1, <3>1 DEF DeliveryInv, OpenInv, Unread, Signed
  <2>3. QED
    BY <2>1, <2>2
<1>8. QED
  BY <1>3, <1>4, <1>6, <1>7

LEMMA HubKeepsDelivery ==
  ASSUME TypeOK, DeliveryInv, Hub
  PROVE  NumberedInv' /\ WritesInv' /\ UpToDate' /\ OpenInv'
<1> USE DEF session
<1>1. CASE HubRegister
  <2>1. /\ clients \subseteq clients' /\ UNCHANGED <<broadcast, posted, todo, got, open, pc>>
    BY <1>1 DEF HubRegister
  <2>2. Taken' = Taken
    BY <2>1 DEF Taken
  <2>3. QED
    BY <2>1, <2>2 DEF DeliveryInv, NumberedInv, WritesInv, UpToDate, OpenInv
<1>2. CASE HubUnregister
  <2>1. /\ unregister # <<>> /\ unregister \in Seq(Conns) /\ todo = {}
        /\ clients' = clients \ {Head(unregister)}
        /\ UNCHANGED <<broadcast, posted, todo, got, open, pc>>
    BY <1>2 DEF HubUnregister, Forget, Idle, TypeOK
  <2>2. PICK i \in DOMAIN unregister : unregister[i] = Head(unregister)
    BY <2>1, HeadOrTail
  <2>3. Head(unregister) \in Conns /\ pc[Head(unregister)] \in Signed
    BY <2>1, <2>2, HeadTailProperties DEF DeliveryInv, UnregisterInv
  <2>4. Head(unregister) \notin open
    BY <2>3 DEF DeliveryInv, OpenInv, Unread
  <2>5. Taken' = Taken
    BY <2>1 DEF Taken
  <2>6. QED
    BY <2>1, <2>4, <2>5 DEF DeliveryInv, NumberedInv, WritesInv, UpToDate, OpenInv
<1>3. CASE HubTake
  <2>1. /\ todo = {} /\ broadcast # <<>> /\ broadcast' = Tail(broadcast)
        /\ todo' = clients \X {Oldest}
        /\ UNCHANGED <<posted, clients, got, open, pc>>
    BY <1>3 DEF HubTake, Idle
  <2>2. /\ Len(broadcast) \in Nat \ {0} /\ Len(broadcast') = Len(broadcast) - 1
        /\ Oldest = broadcast[1] /\ posted \in Nat
        /\ \A i \in 1..Len(broadcast') : broadcast'[i] = broadcast[i + 1]
    BY <2>1, TakeType DEF TypeOK
  <2>3. Taken \in Int /\ Taken' = Taken + 1
    BY <2>1, <2>2 DEF Taken
  <2>4. Oldest = Taken'
    BY <2>2, <2>3 DEF DeliveryInv, NumberedInv
  <2>5. NumberedInv'
    <3>1. ASSUME NEW i \in 1..Len(broadcast') PROVE broadcast'[i] = Taken' + i
      <4>1. i + 1 \in 1..Len(broadcast) /\ i \in Int
        BY <2>2
      <4>2. broadcast[i + 1] = Taken + (i + 1)
        BY <4>1 DEF DeliveryInv, NumberedInv
      <4>3. QED
        BY <2>2, <2>3, <4>1, <4>2
    <3>2. QED
      BY <3>1 DEF NumberedInv
  <2>6. WritesInv'
    BY <2>1, <2>4 DEF WritesInv
  <2>7. UpToDate'
    <3> SUFFICES ASSUME NEW d \in open, got[d] # 0
                 PROVE  d \in clients /\ <<d, Taken'>> \in todo' /\ got[d] = Taken' - 1
      BY <2>1 DEF UpToDate
    <3>1. d \in clients /\ got[d] = Taken
      BY <2>1 DEF DeliveryInv, UpToDate
    <3>2. QED
      BY <2>1, <2>3, <2>4, <3>1
  <2>8. OpenInv'
    BY <2>1 DEF DeliveryInv, OpenInv
  <2>9. QED
    BY <2>5, <2>6, <2>7, <2>8
<1>4. ASSUME NEW d \in Conns, HubSend(d)
      PROVE  NumberedInv' /\ WritesInv' /\ UpToDate' /\ OpenInv'
  <2>1. PICK n \in 1..posted :
          /\ <<d, n>> \in todo /\ todo' = todo \ {<<d, n>>}
          /\ got' = IF d \in open THEN [got EXCEPT ![d] = n] ELSE got
          /\ UNCHANGED <<broadcast, posted, clients, open, pc>>
    BY <1>4 DEF HubSend, Written, channels
  <2>2. n = Taken /\ d \in clients /\ Taken' = Taken
    BY <2>1 DEF DeliveryInv, WritesInv, Taken
  <2>3. got \in [Conns -> 0..posted]
    BY DEF TypeOK
  <2>4. NumberedInv' /\ WritesInv'
    BY <2>1, <2>2 DEF DeliveryInv, NumberedInv, WritesInv
  <2>5. UpToDate'
    <3> SUFFICES ASSUME NEW e \in open, got'[e] # 0
                 PROVE  /\ e \in clients
                        /\ got'[e] = IF <<e, Taken>> \in todo' THEN Taken - 1 ELSE Taken
      BY <2>1, <2>2 DEF UpToDate
    <3>1. e \in Conns
      BY DEF TypeOK
    <3>2. CASE e = d
      BY <2>1, <2>2, <2>3, <3>1, <3>2
    <3>3. CASE e # d
      <4>1. got'[e] = got[e] /\ (<<e, Taken>> \in todo' <=> <<e, Taken>> \in todo)
        BY <2>1, <2>3, <3>1, <3>3
      <4>2. QED
        BY <4>1 DEF DeliveryInv, UpToDate
    <3>4. QED
      BY <3>2, <3>3
  <2>6. OpenInv'
    BY <2>1, <2>3 DEF DeliveryInv, OpenInv
  <2>7. QED
    BY <2>4, <2>5, <2>6
<1>5. QED
  BY <1>1, <1>2, <1>3, <1>4 DEF Hub

LEMMA DeliveryStep ==
  TypeOK /\ ServedInv /\ DeliveryInv /\ [Next]_vars
    => NumberedInv' /\ WritesInv' /\ UpToDate' /\ OpenInv'
<1> SUFFICES ASSUME TypeOK, DeliveryInv, [Next]_vars
             PROVE  NumberedInv' /\ WritesInv' /\ UpToDate' /\ OpenInv'
  OBVIOUS
<1>1. CASE RoomEnds \/ UNCHANGED vars \/ \E u \in Users : RestJoin(u) \/ RestLeave(u)
  <2>1. UNCHANGED <<broadcast, posted, clients, todo, got, open, pc>>
    BY <1>1 DEF RoomEnds, RestJoin, RestLeave, vars, channels, hub
  <2>2. QED
    BY <2>1 DEF DeliveryInv, NumberedInv, WritesInv, UpToDate, OpenInv, Taken
<1>2. QED
  BY <1>1, ConnKeepsDelivery, HubKeepsDelivery DEF Next

LEMMA DeliveryCorrect == Spec => []DeliveryInv
<1> DEFINE Rest == NumberedInv /\ WritesInv /\ UpToDate /\ OpenInv
<1>1. Init => Rest
  BY DeliveryInit
<1>2. TypeOK /\ ServedInv /\ Rest /\ [Next]_vars => Rest'
  BY DeliveryStep DEF DeliveryInv, ServedInv
<1>3. ServedInv /\ Rest => DeliveryInv
  BY DEF ServedInv, DeliveryInv
<1> HIDE DEF Rest
<1>4. QED
  BY <1>1, <1>2, <1>3, TypeCorrect, ServedCorrect, PTL DEF Spec

\* A write to a client that is there is the next one it had to receive; every
\* other step publishes one broadcast or none.
LEMMA TopicStep ==
  ASSUME TypeOK, DeliveryInv, [Next]_vars
  PROVE  [Broadcasts!Next]_(Broadcasts!topic)
<1> USE DEF session, channels, hub
<1>1. CASE \E c \in Conns : PostEvent(c) \/ PostLeft(c)
  <2>1. posted' = posted + 1 /\ UNCHANGED got
    BY <1>1 DEF PostEvent, PostLeft, Post
  <2>2. QED
    BY <2>1 DEF Broadcasts!Next, Broadcasts!Publish
<1>2. ASSUME NEW d \in Conns, HubSend(d) PROVE [Broadcasts!Next]_(Broadcasts!topic)
  <2>1. PICK n \in 1..posted :
          /\ <<d, n>> \in todo
          /\ got' = IF d \in open THEN [got EXCEPT ![d] = n] ELSE got
          /\ UNCHANGED posted
    BY <1>2 DEF HubSend
  <2>2. CASE d \in open
    <3>1. n = Taken /\ Taken \in Int
      BY <2>1 DEF DeliveryInv, WritesInv
    <3>2. got[d] # 0 => got[d] = n - 1
      BY <2>1, <2>2, <3>1 DEF DeliveryInv, UpToDate
    <3>3. got[d] # 0 => n = got[d] + 1
      BY <3>1, <3>2
    <3>4. Broadcasts!Receive(d)
      BY <2>1, <2>2, <3>3 DEF Broadcasts!Receive
    <3>5. QED
      BY <3>4 DEF Broadcasts!Next
  <2>3. CASE d \notin open
    BY <2>1, <2>3 DEF Broadcasts!topic
  <2>4. QED
    BY <2>2, <2>3
<1>3. CASE ~(\E c \in Conns : PostEvent(c) \/ PostLeft(c)) /\ ~(\E d \in Conns : HubSend(d))
  <2>1. UNCHANGED <<posted, got>>
    BY <1>3 DEF Next, Handler, Client, Hub, MarkStart, ReadFails, SetOffline, SetOnline,
                FetchState, Register, Unregister, Upgrade, HangUp, Act, JoinKnown, JoinNew,
                RestJoin, RestLeave, RoomEnds, HubRegister, HubUnregister, HubTake, vars
  <2>2. QED
    BY <2>1 DEF Broadcasts!topic
<1>4. QED
  BY <1>1, <1>2, <1>3

\* The hub, with its channels, its loop and clients that come and go, publishes a
\* topic: each client receives a contiguous piece of the room's broadcasts, in
\* order (providers/hub.go:111-138).
THEOREM HubPublishesTopic == Spec => ImplementsTopic
<1>1. Init => Broadcasts!Init
  BY DEF Init, Broadcasts!Init
<1>2. QED
  BY <1>1, TopicStep, TypeCorrect, DeliveryCorrect, PTL
     DEF Spec, ImplementsTopic, Broadcasts!Spec
=============================================================================
