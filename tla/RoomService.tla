---------------------------- MODULE RoomService ----------------------------
(***************************************************************************)
(* What a room service promises its clients, whoever keeps the books: a    *)
(* connection that has ended is in no room, an event goes to members of    *)
(* its room only and never to a sender that is to be left out, and what a  *)
(* client was handed it was handed for good.  It does not promise that     *)
(* every member gets every event.                                          *)
(***************************************************************************)
EXTENDS Naturals

CONSTANTS Sockets, Rooms, Events

VARIABLES
  up,       \* connections that have not ended
  member,   \* pairs <<s, r>>: s is in room r
  inbox     \* inbox[s]: the events handed to client s

roomVars == <<up, member, inbox>>

InRoom(r) == {s \in up : <<s, r>> \in member}

RoomInit == up = {} /\ member = {} /\ inbox = [s \in Sockets |-> {}]

Arrive(s) == /\ s \notin up
             /\ up' = up \cup {s}
             /\ UNCHANGED <<member, inbox>>

Depart(s) == /\ s \in up
             /\ up' = up \ {s}
             /\ member' = {m \in member : m[1] # s}
             /\ UNCHANGED inbox

Enter(s, r) == /\ s \in up
               /\ member' = member \cup {<<s, r>>}
               /\ UNCHANGED <<up, inbox>>

Exit(s, rs) == /\ s \in up
               /\ member' = {m \in member : ~(m[1] = s /\ m[2] \in rs)}
               /\ UNCHANGED <<up, inbox>>

HandOut(e, to) ==
  /\ inbox' = [s \in Sockets |-> IF s \in to THEN inbox[s] \cup {e} ELSE inbox[s]]
  /\ UNCHANGED <<up, member>>

Publish(e, r, out) == \E to \in SUBSET (InRoom(r) \ out) : HandOut(e, to)

Tell(e, s) == s \in up /\ HandOut(e, {s})

RoomNext ==
  \/ \E s \in Sockets : Arrive(s) \/ Depart(s)
  \/ \E s \in Sockets, r \in Rooms : Enter(s, r)
  \/ \E s \in Sockets, rs \in SUBSET Rooms : Exit(s, rs)
  \/ \E e \in Events, r \in Rooms, out \in SUBSET Sockets : Publish(e, r, out)
  \/ \E e \in Events, s \in Sockets : Tell(e, s)

RoomSpec == RoomInit /\ [][RoomNext]_roomVars
=============================================================================
