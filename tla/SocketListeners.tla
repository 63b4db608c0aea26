-------------------------- MODULE SocketListeners --------------------------
(***************************************************************************)
(* How one ConcreteServerSocket hands the opening of its native socket and *)
(* the messages of its client to the listeners of the application.  The    *)
(* native listeners loop over the arrays of listeners without awaiting, so *)
(* that nothing happens during a loop but what the called listener does:   *)
(* it may register listeners, on the array that is being iterated too, and *)
(* throw.  Between the loops the application may register listeners at any *)
(* time, an asynchronous socket handler also long after the opening.       *)
(***************************************************************************)
EXTENDS Naturals, SequencesExt

CONSTANTS
  Callbacks,     \* functions of the application, each registered once at most
  EventNames,
  MaxMessages    \* bound: messages of the client

VARIABLES
  state,     \* the native socket
  openers,   \* #openListeners
  on,        \* on[e]: #clientEventListeners.get(e)
  loop,      \* the loop that is running, or NoLoop
  messages,  \* number of messages
  \* history
  opened,    \* the open listeners that were called
  heard,     \* heard[l]: the messages that l was called with
  due        \* due[l]: those that came while l was registered for their event

vars == <<state, openers, on, loop, messages, opened, heard, due>>

\* A loop is at a place of its array, where the listener runs or is still to be called.
NoLoop         == [over |-> "none", place |-> 0, runs |-> FALSE]
OpenLoop       == [over |-> "openers", place |-> 1, runs |-> FALSE]
MessageLoop(e) == [over |-> e, place |-> 1, runs |-> FALSE]
Idle == loop = NoLoop

Array  == IF loop.over = "openers" THEN openers ELSE on[loop.over]
Caller == Array[loop.place]

Registered == Range(openers) \cup UNION {Range(on[e]) : e \in EventNames}

----------------------------------------------------------------------------
(* The application: between loops, and the listener that is called.        *)

MayRegister(l) == (Idle \/ loop.runs) /\ l \notin Registered

OnOpen(l) ==
  /\ MayRegister(l)
  /\ openers' = Append(openers, l)
  /\ UNCHANGED <<state, on, loop, messages, opened, heard, due>>

\* A listener that is registered while its event is handed out is reached by the loop.
On(e, l) ==
  /\ MayRegister(l)
  /\ on' = [on EXCEPT ![e] = Append(on[e], l)]
  /\ due' = IF loop.over = e THEN [due EXCEPT ![l] = Append(due[l], messages)] ELSE due
  /\ UNCHANGED <<state, openers, loop, messages, opened, heard>>

\* Mutant: an exception ends the loop.
ThrowsOut ==
  /\ ~Idle /\ loop.over # "openers" /\ loop.runs
  /\ loop' = NoLoop
  /\ UNCHANGED <<state, openers, on, messages, opened, heard, due>>

\* The listener comes back, or throws and is caught.
Returns ==
  /\ ~Idle /\ loop.runs
  /\ loop' = [loop EXCEPT !.place = loop.place + 1, !.runs = FALSE]
  /\ UNCHANGED <<state, openers, on, messages, opened, heard, due>>

\* An open listener is called outside the try: its exception leaves the loop.
OpenerThrows ==
  /\ ~Idle /\ loop.over = "openers" /\ loop.runs
  /\ loop' = NoLoop
  /\ UNCHANGED <<state, openers, on, messages, opened, heard, due>>

----------------------------------------------------------------------------
(* The native socket.                                                      *)

Open ==
  /\ Idle /\ state = "connecting"
  /\ state' = "open"
  /\ loop' = OpenLoop
  /\ UNCHANGED <<openers, on, messages, opened, heard, due>>

Message(e) ==
  /\ Idle /\ state = "open" /\ messages < MaxMessages
  /\ messages' = messages + 1
  /\ loop' = MessageLoop(e)
  /\ due' = [l \in Callbacks |-> IF l \in Range(on[e]) THEN Append(due[l], messages')
                                 ELSE due[l]]
  /\ UNCHANGED <<state, openers, on, opened, heard>>

\* A message that does not parse, which throws out of the native listener, or that is not
\* of the shape of an event.
NoEvent ==
  /\ Idle /\ state = "open" /\ messages < MaxMessages
  /\ messages' = messages + 1
  /\ UNCHANGED <<state, openers, on, loop, opened, heard, due>>

CallNext ==
  /\ ~Idle /\ ~loop.runs /\ loop.place <= Len(Array)
  /\ loop' = [loop EXCEPT !.runs = TRUE]
  /\ IF loop.over = "openers"
     THEN opened' = Append(opened, Caller) /\ UNCHANGED heard
     ELSE heard' = [heard EXCEPT ![Caller] = Append(heard[Caller], messages)]
          /\ UNCHANGED opened
  /\ UNCHANGED <<state, openers, on, messages, due>>

EndLoop ==
  /\ ~Idle /\ ~loop.runs /\ loop.place > Len(Array)
  /\ loop' = NoLoop
  /\ UNCHANGED <<state, openers, on, messages, opened, heard, due>>

\* The close event.  The close listeners are in SocketHub.
Close ==
  /\ Idle /\ state # "closed"
  /\ state' = "closed"
  /\ openers' = <<>>
  /\ on' = [e \in EventNames |-> <<>>]
  /\ UNCHANGED <<loop, messages, opened, heard, due>>

----------------------------------------------------------------------------
Init ==
  /\ state = "connecting"
  /\ openers = <<>> /\ on = [e \in EventNames |-> <<>>]
  /\ loop = NoLoop
  /\ messages = 0
  /\ opened = <<>>
  /\ heard = [l \in Callbacks |-> <<>>]
  /\ due = [l \in Callbacks |-> <<>>]

Next ==
  \/ \E l \in Callbacks : OnOpen(l)
  \/ \E l \in Callbacks, e \in EventNames : On(e, l)
  \/ Returns \/ OpenerThrows
  \/ Open \/ CallNext \/ EndLoop \/ Close
  \/ NoEvent \/ \E e \in EventNames : Message(e)

Spec == Init /\ [][Next]_vars

----------------------------------------------------------------------------
(* Properties.                                                             *)

OpenersCalled ==
  /\ IsPrefix(opened, openers) \/ state = "closed"
  /\ state = "connecting" => opened = <<>>
  /\ loop.over = "openers" /\ loop.place > Len(openers) => opened = openers

\* Between the loops every listener has heard, once and in their order, the messages of its
\* event that came since it was registered, and the one it was registered during: whatever
\* the others throw and register.  The open listeners are called in the order of
\* registration, with those that open listeners register: all of them, unless one throws.
ListenersAreCalled == (Idle => heard = due) /\ OpenersCalled
=============================================================================
