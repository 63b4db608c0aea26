-------------------------- MODULE SocketHubProofs --------------------------
(***************************************************************************)
(* Theorems about SocketHub, for any sets of sockets, rooms and listeners  *)
(* and any number of events.                                               *)
(***************************************************************************)
EXTENDS SocketHub, TLAPS

----------------------------------------------------------------------------
\* Type correctness, and that the hub knows every connection it accepted.
THEOREM TypeCorrect == Spec => []TypeOK
<1>1. Init => TypeOK
  BY MaxEventsAssumption DEF Init, TypeOK, Accepted, States
<1>2. TypeOK /\ [Next]_vars => TypeOK'
  <2>. SUFFICES ASSUME TypeOK, [Next]_vars PROVE TypeOK'
    OBVIOUS
  <2>. USE DEF TypeOK, Accepted, hubVars, socketVars, ghostVars
  <2>1. ASSUME NEW s \in Sockets, HandleRequest(s) PROVE TypeOK'
    <3>1. byId' = {t \in Sockets : state'[t] # "new"}
      BY <2>1 DEF HandleRequest
    <3>. QED
      BY <2>1, <3>1 DEF HandleRequest, States
  <2>2. ASSUME NEW s \in Sockets, Open(s) PROVE TypeOK'
    BY <2>2 DEF Open, States
  <2>3. ASSUME NEW s \in Sockets, LeavesOpen(s) PROVE TypeOK'
    BY <2>3 DEF LeavesOpen, States
  <2>4. ASSUME NEW s \in Sockets, Close(s) PROVE TypeOK'
    BY <2>4 DEF Close, States
  <2>5. ASSUME NEW s \in Sockets, NEW l \in Listeners, OnClose(s, l) PROVE TypeOK'
    BY <2>5 DEF OnClose
  <2>6. ASSUME NEW s \in Sockets, NEW r \in Rooms, Join(s, r) PROVE TypeOK'
    BY <2>6 DEF Join
  <2>7. ASSUME NEW s \in Sockets, NEW r \in Rooms, Leave(s, r) PROVE TypeOK'
    BY <2>7 DEF Leave, DeleteFrom
  <2>8. ASSUME NEW s \in Sockets, LeaveAllRooms(s) PROVE TypeOK'
    BY <2>8 DEF LeaveAllRooms, DeleteFrom
  <2>9. ASSUME NEW r \in Rooms, NEW out, EmitToRoom(r, out) PROVE TypeOK'
    <3>1. sent' \in 0 .. MaxEvents /\ sent' \in Events
      BY <2>9, MaxEventsAssumption DEF EmitToRoom, Send, Events
    <3>. QED
      BY <2>9, <3>1 DEF EmitToRoom, Send, Owe
  <2>10. ASSUME NEW t \in Sockets, EmitToSocket(t) PROVE TypeOK'
    <3>1. sent' \in 0 .. MaxEvents /\ sent' \in Events
      BY <2>10, MaxEventsAssumption DEF EmitToSocket, Send, Events
    <3>. QED
      BY <2>10, <3>1 DEF EmitToSocket, Send, Owe
  <2>11. CASE UNCHANGED vars
    BY <2>11 DEF vars
  <2>. QED
    BY <2>1, <2>2, <2>3, <2>4, <2>5, <2>6, <2>7, <2>8, <2>9, <2>10, <2>11
       DEF Next, Native, Application, PeerCloses, Heartbeat, SocketEmits,
           SocketBroadcasts, SystemEmits
<1>. QED
  BY <1>1, <1>2, PTL DEF Spec

----------------------------------------------------------------------------
\* The socket's rooms and the hub's rooms agree until the socket is closed.
THEOREM ViewsAlwaysAgree == Spec => []ViewsAgree
<1>1. Init => ViewsAgree
  BY DEF Init, ViewsAgree
<1>2. TypeOK /\ ViewsAgree /\ [Next]_vars => ViewsAgree'
  <2>. SUFFICES ASSUME TypeOK, ViewsAgree, [Next]_vars PROVE ViewsAgree'
    OBVIOUS
  <2>. USE DEF TypeOK, ViewsAgree, Accepted, hubVars, socketVars
  <2>1. ASSUME NEW s \in Sockets, Native(s) PROVE ViewsAgree'
    BY <2>1 DEF Native, HandleRequest, Open, PeerCloses, Heartbeat, LeavesOpen, Close
  <2>2. ASSUME NEW s \in Sockets, NEW l \in Listeners, OnClose(s, l) PROVE ViewsAgree'
    BY <2>2 DEF OnClose
  <2>3. ASSUME NEW s \in Sockets, NEW r \in Rooms, Join(s, r) PROVE ViewsAgree'
    BY <2>3 DEF Join
  <2>4. ASSUME NEW s \in Sockets, NEW r \in Rooms, Leave(s, r) PROVE ViewsAgree'
    BY <2>4 DEF Leave, DeleteFrom
  <2>5. ASSUME NEW s \in Sockets, LeaveAllRooms(s) PROVE ViewsAgree'
    BY <2>5 DEF LeaveAllRooms, DeleteFrom
  <2>6. ASSUME UNCHANGED <<state, members, rooms>> PROVE ViewsAgree'
    BY <2>6
  <2>. QED
    BY <2>1, <2>2, <2>3, <2>4, <2>5, <2>6
       DEF Next, Application, SocketEmits, SocketBroadcasts, SystemEmits, EmitToRoom,
           EmitToSocket, vars
<1>. QED
  BY <1>1, <1>2, TypeCorrect, PTL DEF Spec

\* The delivery loop reaches only sockets that say they are in the room.
LEMMA ReachedAreOwed ==
  ASSUME ViewsAgree, NEW r \in Rooms, NEW out, TypeOK
  PROVE  Reached(r, out) \subseteq {t \in Sockets \ out : state[t] = "open" /\ r \in rooms[t]}
BY DEF Reached, ViewsAgree, TypeOK

\* Nobody gets an event it should not get.
THEOREM NothingUndueEver == Spec => []NothingUndue
<1>1. Init => NothingUndue
  BY DEF Init, NothingUndue
<1>2. TypeOK /\ ViewsAgree /\ NothingUndue /\ [Next]_vars => NothingUndue'
  <2>. SUFFICES ASSUME TypeOK, ViewsAgree, NothingUndue, [Next]_vars PROVE NothingUndue'
    OBVIOUS
  <2>1. ASSUME NEW r \in Rooms, NEW out, EmitToRoom(r, out) PROVE NothingUndue'
    BY <2>1, ReachedAreOwed DEF EmitToRoom, Send, Owe, NothingUndue
  <2>2. ASSUME NEW t \in Sockets, EmitToSocket(t) PROVE NothingUndue'
    BY <2>2 DEF EmitToSocket, Send, Owe, NothingUndue
  <2>3. ASSUME UNCHANGED <<inbox, due>> PROVE NothingUndue'
    BY <2>3 DEF NothingUndue
  <2>. QED
    BY <2>1, <2>2, <2>3
       DEF Next, Native, Application, SocketEmits, SocketBroadcasts, SystemEmits, vars,
           ghostVars, HandleRequest, Open, PeerCloses, Heartbeat, LeavesOpen, Close,
           OnClose, Join, Leave, LeaveAllRooms
<1>. QED
  BY <1>1, <1>2, TypeCorrect, ViewsAlwaysAgree, PTL DEF Spec

----------------------------------------------------------------------------
\* While the application is disciplined, the hub's rooms hold open sockets only.
OpenMembers == \A r \in Rooms : \A s \in members[r] : state[s] = "open"

DisciplineInv == disciplined => OpenMembers /\ inbox = due

\* In a room of open sockets the delivery loop reaches whoever is in the room.
LEMMA OwedAreReached ==
  ASSUME TypeOK, ViewsAgree, OpenMembers, NEW r \in Rooms, NEW out
  PROVE  Reached(r, out) = {t \in Sockets \ out : state[t] = "open" /\ r \in rooms[t]}
BY DEF Reached, ViewsAgree, TypeOK, OpenMembers

\* A disciplined application loses no event: DisciplineInv is inductive, since a socket
\* that stops being open has left its rooms, and so, by ViewsAgree, the hub's.
THEOREM DisciplineNeverLoses == Spec => []DisciplineLosesNothing
<1>1. Init => DisciplineInv
  BY DEF Init, DisciplineInv, OpenMembers
<1>2. TypeOK /\ ViewsAgree /\ DisciplineInv /\ [Next]_vars => DisciplineInv'
  <2>. SUFFICES ASSUME TypeOK, ViewsAgree, DisciplineInv, [Next]_vars, disciplined'
                PROVE  OpenMembers' /\ inbox' = due'
    BY DEF DisciplineInv
  <2>0. disciplined
    BY DEF Next, Native, Application, HandleRequest, Open, PeerCloses, Heartbeat, LeavesOpen,
           Close, OnClose, Join, Leave, LeaveAllRooms, SocketEmits, SocketBroadcasts,
           SystemEmits, EmitToRoom, EmitToSocket, vars, ghostVars
  <2>1. OpenMembers /\ inbox = due
    BY <2>0 DEF DisciplineInv
  <2>. USE DEF TypeOK, hubVars, ghostVars, socketVars
  <2>2. ASSUME NEW s \in Sockets, HandleRequest(s) \/ Open(s) \/ Close(s)
        PROVE  OpenMembers' /\ inbox' = due'
    BY <2>1, <2>2 DEF HandleRequest, Open, Close, OpenMembers
  <2>3. ASSUME NEW s \in Sockets, LeavesOpen(s) PROVE OpenMembers' /\ inbox' = due'
    <3>1. rooms[s] = {} /\ state[s] = "open"
      BY <2>3 DEF LeavesOpen
    <3>2. \A r \in Rooms : s \notin members[r]
      BY <3>1 DEF ViewsAgree
    <3>. QED
      BY <2>1, <2>3, <3>2 DEF LeavesOpen, OpenMembers
  <2>4. ASSUME NEW s \in Sockets, NEW r \in Rooms, Join(s, r)
        PROVE  OpenMembers' /\ inbox' = due'
    BY <2>1, <2>4 DEF Join, OpenMembers
  <2>5. ASSUME NEW s \in Sockets, NEW rs, DeleteFrom(s, rs), UNCHANGED <<state, inbox, due>>
        PROVE  OpenMembers' /\ inbox' = due'
    BY <2>1, <2>5 DEF DeleteFrom, OpenMembers
  <2>6. ASSUME NEW r \in Rooms, NEW out, EmitToRoom(r, out)
        PROVE  OpenMembers' /\ inbox' = due'
    <3>1. Reached(r, out) = {t \in Sockets \ out : state[t] = "open" /\ r \in rooms[t]}
      BY <2>1, OwedAreReached
    <3>. QED
      BY <2>1, <2>6, <3>1 DEF EmitToRoom, Send, Owe, OpenMembers
  <2>7. ASSUME NEW t \in Sockets, EmitToSocket(t) PROVE OpenMembers' /\ inbox' = due'
    <3>1. {u \in byId : u = t /\ state[u] = "open"} = {u \in {t} : state[u] = "open"}
      BY DEF Accepted
    <3>. QED
      BY <2>1, <2>7, <3>1 DEF EmitToSocket, Send, Owe, OpenMembers
  <2>8. ASSUME UNCHANGED <<state, members, inbox, due>> PROVE OpenMembers' /\ inbox' = due'
    BY <2>1, <2>8 DEF OpenMembers
  <2>. QED
    BY <2>2, <2>3, <2>4, <2>5, <2>6, <2>7, <2>8
       DEF Next, Native, Application, PeerCloses, Heartbeat, OnClose, Leave, LeaveAllRooms,
           SocketEmits, SocketBroadcasts, SystemEmits, vars
<1>3. DisciplineInv => DisciplineLosesNothing
  BY DEF DisciplineInv, DisciplineLosesNothing
<1>. QED
  BY <1>1, <1>2, <1>3, TypeCorrect, ViewsAlwaysAgree, PTL DEF Spec

----------------------------------------------------------------------------
\* The events of the hub and of the room service are the same numbers; an abstract
\* hand-out is a send to the sockets reached, all of which are members that are up.
LEMMA EmissionIsPublished ==
  ASSUME TypeOK, NEW r \in Rooms, NEW out \in SUBSET Sockets, EmitToRoom(r, out)
  PROVE  \E e \in Events : Service!Publish(e, r, out)
<1>1. sent' \in Events
  BY MaxEventsAssumption DEF EmitToRoom, Send, Events, TypeOK
<1>2. Reached(r, out) \in SUBSET (Service!InRoom(r) \ out)
  BY DEF Reached, Service!InRoom, Up, Member, TypeOK
<1>3. Up' = Up /\ Member' = Member
  BY DEF EmitToRoom, hubVars, Up, Member
<1>4. Service!HandOut(sent', Reached(r, out))
  BY <1>3 DEF Service!HandOut, EmitToRoom, Send
<1>. QED
  BY <1>1, <1>2, <1>4 DEF Service!Publish

\* So is a message to one socket, or it is lost and nothing happens.
LEMMA MessageIsTold ==
  ASSUME TypeOK, NEW t \in Sockets, EmitToSocket(t)
  PROVE  (\E e \in Events : Service!Tell(e, t)) \/ UNCHANGED <<Up, Member, inbox>>
<1>1. sent' \in Events
  BY MaxEventsAssumption DEF EmitToSocket, Send, Events, TypeOK
<1>2. Up' = Up /\ Member' = Member
  BY DEF EmitToSocket, hubVars, Up, Member
<1>3. CASE state[t] = "open"
  <2>1. {u \in byId : u = t /\ state[u] = "open"} = {t}
    BY <1>3 DEF TypeOK, Accepted
  <2>2. t \in Up
    BY <1>3 DEF Up
  <2>. QED
    BY <1>1, <1>2, <2>1, <2>2 DEF Service!Tell, Service!HandOut, EmitToSocket, Send
<1>4. CASE state[t] # "open"
  <2>1. {u \in byId : u = t /\ state[u] = "open"} = {}
    BY <1>4
  <2>2. inbox' = inbox
    BY <2>1 DEF EmitToSocket, Send, TypeOK
  <2>. QED
    BY <1>2, <2>2
<1>. QED
  BY <1>3, <1>4

\* The hub implements the room service: a step of the hub is a step of the service, or
\* changes nothing the service shows (such as a join of a socket that was closed).
THEOREM HubImplementsRoomService == Spec => ImplementsRoomService
<1>1. Init => Service!RoomInit
  BY DEF Init, Service!RoomInit, Up, Member
<1>2. TypeOK /\ ViewsAgree /\ [Next]_vars => [Service!RoomNext]_(Service!roomVars)
  <2>. SUFFICES ASSUME TypeOK, ViewsAgree, [Next]_vars
                PROVE  Service!RoomNext \/ UNCHANGED <<Up, Member, inbox>>
    BY DEF Service!roomVars
  <2>. USE DEF TypeOK, hubVars, socketVars, ghostVars
  <2>1. ASSUME NEW s \in Sockets, HandleRequest(s) PROVE Service!Arrive(s)
    <3>1. \A r \in Rooms : s \notin members[r]
      BY <2>1 DEF HandleRequest, ViewsAgree, Accepted
    <3>. QED
      BY <2>1, <3>1 DEF HandleRequest, Service!Arrive, Up, Member
  <2>2. ASSUME NEW s \in Sockets, Open(s) \/ LeavesOpen(s)
        PROVE  UNCHANGED <<Up, Member, inbox>>
    BY <2>2 DEF Open, LeavesOpen, Up, Member
  <2>3. ASSUME NEW s \in Sockets, Close(s) PROVE Service!Depart(s)
    BY <2>3 DEF Close, Service!Depart, Up, Member
  <2>4. ASSUME NEW s \in Sockets, NEW r \in Rooms, Join(s, r)
        PROVE  Service!Enter(s, r) \/ UNCHANGED <<Up, Member, inbox>>
    BY <2>4 DEF Join, Accepted, Service!Enter, Up, Member
  <2>5. ASSUME NEW s \in Sockets, NEW rs \in SUBSET Rooms,
               DeleteFrom(s, rs), UNCHANGED <<state, inbox>>
        PROVE  Service!Exit(s, rs) \/ UNCHANGED <<Up, Member, inbox>>
    BY <2>5 DEF DeleteFrom, Service!Exit, Up, Member
  <2>6. ASSUME UNCHANGED <<state, members, inbox>> PROVE UNCHANGED <<Up, Member, inbox>>
    BY <2>6 DEF Up, Member
  <2>7. ASSUME NEW s \in Sockets, Native(s)
        PROVE  Service!RoomNext \/ UNCHANGED <<Up, Member, inbox>>
    BY <2>1, <2>2, <2>3, <2>7 DEF Native, PeerCloses, Heartbeat, Service!RoomNext
  <2>8. ASSUME NEW s \in Sockets, Application(s)
        PROVE  Service!RoomNext \/ UNCHANGED <<Up, Member, inbox>>
    <3>1. CASE \E l \in Listeners : OnClose(s, l)
      BY <2>6, <3>1 DEF OnClose
    <3>2. CASE LeaveAllRooms(s)
      BY <2>5, <3>2 DEF LeaveAllRooms, Service!RoomNext
    <3>3. CASE EmitToSocket(s)
      BY <3>3, MessageIsTold DEF Service!RoomNext
    <3>4. CASE \E r \in Rooms : Join(s, r)
      BY <2>4, <3>4 DEF Service!RoomNext
    <3>5. CASE \E r \in Rooms : Leave(s, r)
      BY <2>5, <3>5 DEF Leave, Service!RoomNext
    <3>6. CASE \E r \in Rooms : SocketEmits(s, r) \/ SocketBroadcasts(s, r)
      <4>1. PICK r \in Rooms : EmitToRoom(r, {}) \/ EmitToRoom(r, {s})
        BY <3>6 DEF SocketEmits, SocketBroadcasts
      <4>. QED
        BY <4>1, EmissionIsPublished DEF Service!RoomNext
    <3>. QED
      BY <2>8, <3>1, <3>2, <3>3, <3>4, <3>5, <3>6 DEF Application
  <2>9. ASSUME NEW r \in Rooms, SystemEmits(r) PROVE Service!RoomNext
    BY <2>9, EmissionIsPublished DEF SystemEmits, Service!RoomNext
  <2>. QED
    BY <2>6, <2>7, <2>8, <2>9 DEF Next, vars
<1>. QED
  BY <1>1, <1>2, TypeCorrect, ViewsAlwaysAgree, PTL
     DEF Spec, ImplementsRoomService, Service!RoomSpec
=============================================================================
