----------------------------- MODULE SocketHub -----------------------------
(***************************************************************************)
(* The server's WebSocket hub: ConcreteWebSocketConnectionHandler, the     *)
(* ConcreteServerSocket it makes for every connection, and the default     *)
(* EventTargetGossipRelay between them, which hands an emitted event over  *)
(* within the call of emit.                                                *)
(*                                                                         *)
(* The server is single threaded and none of these calls awaits, so every  *)
(* call and every listener of the native socket is one step.  Socket       *)
(* handlers are any application: they call the operations in any order, at *)
(* any time after the connection was accepted, also after it was closed    *)
(* (a handler may be asynchronous and keeps its ServerSocket object).      *)
(*                                                                         *)
(* Membership is kept twice: in the rooms of the socket and in the rooms   *)
(* of the hub.  A room of the hub is a Map, which is iterated in the order *)
(* of insertion: before[r] has <<s, t>> when s was inserted before t.      *)
(***************************************************************************)
EXTENDS Naturals

CONSTANTS
  Sockets,     \* connections (ids are random UUIDs: never used twice)
  Rooms,       \* room names
  Listeners,   \* close callbacks of the application
  MaxEvents    \* bound: events emitted

ASSUME MaxEventsAssumption == MaxEvents \in Nat

VARIABLES
  state,       \* state[s]: the native socket, "closing" until its close event
  byId,        \* #socketIdToServerSocket
  members,     \* #roomToServerSocketsMap: a room that has no socket is not in it
  before,      \* the order of insertion in each room's Map
  rooms,       \* rooms[s]: #rooms of s (an array, where a name may be twice)
  onClose,     \* onClose[s]: #closeListeners of s
  timer,       \* timer[s]: the heartbeat interval of s is set
  inbox,       \* inbox[s]: the events that were sent to client s
  sent,        \* number of events emitted
  \* history
  called,      \* called[s]: the close callbacks of s that were called
  due,         \* due[s]: the events s should get by the rooms it says it is in
  disciplined  \* sockets only were in rooms while they were open

hubVars == <<byId, members, before>>
socketVars == <<rooms, onClose, timer>>
ghostVars == <<called, due, disciplined>>
vars == <<state, hubVars, socketVars, inbox, sent, ghostVars>>

Events == 1 .. MaxEvents
States == {"new", "connecting", "open", "closing", "closed"}
Accepted(s) == state[s] # "new"

----------------------------------------------------------------------------
(* The native socket and its listeners.                                    *)

\* Mutant: the connection is not registered.
HandleUnregistered(s) ==
  /\ state[s] = "new"
  /\ state' = [state EXCEPT ![s] = "connecting"]
  /\ UNCHANGED <<hubVars, socketVars, inbox, sent, ghostVars>>

HandleRequest(s) ==
  /\ state[s] = "new"
  /\ state' = [state EXCEPT ![s] = "connecting"]
  /\ byId' = byId \cup {s}
  /\ UNCHANGED <<members, before, socketVars, inbox, sent, ghostVars>>

Open(s) ==
  /\ state[s] = "connecting"
  /\ state' = [state EXCEPT ![s] = "open"]
  /\ timer' = [timer EXCEPT ![s] = TRUE]
  /\ UNCHANGED <<hubVars, rooms, onClose, inbox, sent, ghostVars>>

LeavesOpen(s) ==
  /\ state[s] = "open"
  /\ state' = [state EXCEPT ![s] = "closing"]
  /\ disciplined' = (disciplined /\ rooms[s] = {})
  /\ UNCHANGED <<hubVars, socketVars, inbox, sent, called, due>>

\* The peer closes, or the network fails.
PeerCloses(s) == LeavesOpen(s)

\* A tick of the heartbeat whose ping throws closes the socket.  Other ticks change
\* nothing: a ping is sent, or close() is called on a socket that is closing.
Heartbeat(s) == timer[s] /\ LeavesOpen(s)

\* The close event: the socket's lists are emptied, and then the loop over the close
\* listeners runs on the emptied list.  Nothing tells the hub's maps.
Close(s) ==
  /\ state[s] \in {"connecting", "closing"}
  /\ state' = [state EXCEPT ![s] = "closed"]
  /\ rooms' = [rooms EXCEPT ![s] = {}]
  /\ onClose' = [onClose EXCEPT ![s] = {}]
  /\ called' = [called EXCEPT ![s] = called[s] \cup onClose'[s]]
  /\ timer' = [timer EXCEPT ![s] = FALSE]
  /\ UNCHANGED <<hubVars, inbox, sent, due, disciplined>>

\* A callback is one registration: it is on one list at a time.
OnClose(s, l) ==
  /\ Accepted(s)
  /\ \A t \in Sockets : l \notin onClose[t]
  /\ onClose' = [onClose EXCEPT ![s] = onClose[s] \cup {l}]
  /\ UNCHANGED <<state, hubVars, rooms, timer, inbox, sent, ghostVars>>

----------------------------------------------------------------------------
(* Rooms.                                                                  *)

\* Setting a key that the Map has keeps its place.
Join(s, r) ==
  /\ Accepted(s)
  /\ rooms' = [rooms EXCEPT ![s] = rooms[s] \cup {r}]
  /\ members' = [members EXCEPT ![r] = members[r] \cup {s}]
  /\ before' = IF s \in members[r] THEN before
               ELSE [before EXCEPT ![r] = before[r] \cup (members[r] \X {s})]
  /\ disciplined' = (disciplined /\ state[s] = "open")
  /\ UNCHANGED <<state, byId, onClose, timer, inbox, sent, called, due>>

\* room.delete(socket.id) in the rooms rs.
DeleteFrom(s, rs) ==
  /\ members' = [r \in Rooms |-> IF r \in rs THEN members[r] \ {s} ELSE members[r]]
  /\ before' = [r \in Rooms |->
                  IF r \in rs THEN {pair \in before[r] : s \notin {pair[1], pair[2]}}
                  ELSE before[r]]

Leave(s, r) ==
  /\ Accepted(s)
  /\ rooms' = [rooms EXCEPT ![s] = rooms[s] \ {r}]
  /\ DeleteFrom(s, {r})
  /\ UNCHANGED <<state, byId, onClose, timer, inbox, sent, ghostVars>>

\* Mutant: the socket's list is emptied before it is iterated.
LeaveAllTooEarly(s) ==
  /\ Accepted(s)
  /\ rooms' = [rooms EXCEPT ![s] = {}]
  /\ DeleteFrom(s, rooms'[s])
  /\ UNCHANGED <<state, byId, onClose, timer, inbox, sent, ghostVars>>

\* The hub's rooms are found by the socket's own list.
LeaveAllRooms(s) ==
  /\ Accepted(s)
  /\ DeleteFrom(s, rooms[s])
  /\ rooms' = [rooms EXCEPT ![s] = {}]
  /\ UNCHANGED <<state, byId, onClose, timer, inbox, sent, ghostVars>>

----------------------------------------------------------------------------
(* Events.  send() of the native socket throws unless the socket is open.  *)

Send(to) ==
  /\ sent < MaxEvents
  /\ sent' = sent + 1
  /\ inbox' = [s \in Sockets |-> IF s \in to THEN inbox[s] \cup {sent'} ELSE inbox[s]]

Owe(to) ==
  due' = [s \in Sockets |-> IF s \in to THEN due[s] \cup {sent'} ELSE due[s]]

\* Mutant: the sender is not skipped.
ReachedWithSender(r, out) ==
  {t \in members[r] : state[t] = "open"
                      /\ \A u \in members[r] : <<u, t>> \in before[r] => state[u] = "open"}

\* Mutant: the loop stops behind the first socket.
ReachedFirst(r, out) ==
  {t \in members[r] \ out :
     state[t] = "open" /\ \A u \in members[r] \ out : <<u, t>> \notin before[r]}

\* Mutant: the event goes to every open socket of the hub.
ReachedEverywhere(r, out) == {t \in byId \ out : state[t] = "open"}

\* The sockets of room r that the delivery loop reaches when it skips the sockets in
\* out: a send that throws ends the loop, and dispatchEvent reports the exception.
Reached(r, out) ==
  {t \in members[r] \ out :
     /\ state[t] = "open"
     /\ \A u \in members[r] \ out : <<u, t>> \in before[r] => state[u] = "open"}

EmitToRoom(r, out) ==
  /\ Send(Reached(r, out))
  /\ Owe({t \in Sockets \ out : state[t] = "open" /\ r \in rooms[t]})
  /\ UNCHANGED <<state, hubVars, socketVars, called, disciplined>>

SocketEmits(s, r)      == Accepted(s) /\ EmitToRoom(r, {})
SocketBroadcasts(s, r) == Accepted(s) /\ EmitToRoom(r, {s})
SystemEmits(r)         == EmitToRoom(r, {})

\* toSocket(...).emit of a socket or of the system: an id that is not known is ignored.
EmitToSocket(t) ==
  /\ Send({u \in byId : u = t /\ state[u] = "open"})
  /\ Owe({u \in {t} : state[u] = "open"})
  /\ UNCHANGED <<state, hubVars, socketVars, called, disciplined>>

----------------------------------------------------------------------------
Init ==
  /\ state = [s \in Sockets |-> "new"]
  /\ byId = {}
  /\ members = [r \in Rooms |-> {}]
  /\ before = [r \in Rooms |-> {}]
  /\ rooms = [s \in Sockets |-> {}]
  /\ onClose = [s \in Sockets |-> {}]
  /\ timer = [s \in Sockets |-> FALSE]
  /\ inbox = [s \in Sockets |-> {}]
  /\ sent = 0
  /\ called = [s \in Sockets |-> {}]
  /\ due = [s \in Sockets |-> {}]
  /\ disciplined = TRUE

Native(s) == HandleRequest(s) \/ Open(s) \/ PeerCloses(s) \/ Heartbeat(s) \/ Close(s)

Application(s) ==
  \/ \E l \in Listeners : OnClose(s, l)
  \/ LeaveAllRooms(s)
  \/ EmitToSocket(s)
  \/ \E r \in Rooms : Join(s, r) \/ Leave(s, r) \/ SocketEmits(s, r) \/ SocketBroadcasts(s, r)

Next ==
  \/ \E s \in Sockets : Native(s) \/ Application(s)
  \/ \E r \in Rooms : SystemEmits(r)

Spec == Init /\ [][Next]_vars

----------------------------------------------------------------------------
(* Properties.                                                             *)

\* Every variable keeps to its type, and the hub knows every connection it accepted.
TypeOK ==
  /\ state \in [Sockets -> States]
  /\ byId = {s \in Sockets : Accepted(s)}
  /\ members \in [Rooms -> SUBSET Sockets]
  /\ before \in [Rooms -> SUBSET (Sockets \X Sockets)]
  /\ rooms \in [Sockets -> SUBSET Rooms]
  /\ onClose \in [Sockets -> SUBSET Listeners]
  /\ timer \in [Sockets -> BOOLEAN]
  /\ inbox \in [Sockets -> SUBSET Events]
  /\ sent \in 0 .. MaxEvents
  /\ called \in [Sockets -> SUBSET Listeners]
  /\ due \in [Sockets -> SUBSET Events]
  /\ disciplined \in BOOLEAN

\* The two records of membership agree: a room an accepted socket says it is in has it,
\* and until the socket is closed the hub has it in no other room.
ViewsAgree ==
  \A s \in Sockets, r \in Rooms :
    /\ r \in rooms[s] => s \in members[r] /\ Accepted(s)
    /\ s \in members[r] /\ state[s] # "closed" => r \in rooms[s]

\* Nobody gets an event of a room it has left, of a room it never joined, or its own
\* broadcast, however joins, departures, closes and events interleave.
NothingUndue == \A s \in Sockets : inbox[s] \subseteq due[s]

\* An application whose sockets join only when open and leave before they close loses
\* no event: every open socket of a room gets every event of the room.
DisciplineLosesNothing == disciplined => inbox = due

\* socket.server.core.d.ts:64, "Broadcasts a message to all clients in the room", without
\* the discipline: every open socket of a room gets every event of the room.
EveryMemberReceives == \A s \in Sockets : due[s] \subseteq inbox[s]

\* server-socket.ts:105, "Calls the close listeners": the close event calls every
\* listener that was registered by then.
CloseListenersAreCalled ==
  [][\A s \in Sockets : state[s] # "closed" /\ state'[s] = "closed"
                          => onClose[s] \subseteq called'[s]]_vars

\* The hub implements the room service, where the members of a room are those in the
\* hub's Map that are not closed.
Up     == {s \in Sockets : state[s] \notin {"new", "closed"}}
Member == {m \in Up \X Rooms : m[1] \in members[m[2]]}
Service == INSTANCE RoomService WITH up <- Up, member <- Member
ImplementsRoomService == Service!RoomSpec
=============================================================================
