---------------------------- MODULE MCLibraries ----------------------------
(* A small instance of X3DH, beside small instances of two libraries that    *)
(* share nothing with it: in a behaviour one of the three acts, and the      *)
(* others stay as they began.                                                *)
EXTENDS X3DH, Integers

CONSTANTS Views, MaxDepths, Depths, startView, Callbacks, EventNames, MaxMessages

\* Any numbers; and no event is taken for the two loops that are over no event.
ASSUME ViewsAssumption  == startView \in Views /\ MaxDepths \cup Depths \subseteq Int
ASSUME EventsAssumption == EventNames \cap {"none", "openers"} = {}

VARIABLES
  part,                                                          \* which one acts
  maxDepth, stack, running,                                      \* ViewStack
  state, openers, on, loop, messages, opened, heard, due         \* SocketListeners

stackVars  == <<maxDepth, stack, running>>
socketVars == <<state, openers, on, loop, messages, opened, heard, due>>

Stack  == INSTANCE ViewStack
Socket == INSTANCE SocketListeners

LibrariesInit ==
  /\ Init /\ Stack!Init /\ Socket!Init
  /\ part \in {"agreement", "stack", "socket"}
  /\ part # "stack" => maxDepth = 0 /\ stack = <<startView>>

LibrariesNext ==
  \/ part = "agreement" /\ Next         /\ UNCHANGED <<part, stackVars, socketVars>>
  \/ part = "stack"     /\ Stack!Next   /\ UNCHANGED <<part, vars, socketVars>>
  \/ part = "socket"    /\ Socket!Next  /\ UNCHANGED <<part, vars, stackVars>>

LibrariesSpec == LibrariesInit /\ [][LibrariesNext]_<<part, vars, stackVars, socketVars>>

\* See ViewStack: between one view and as many as the options allow.
StackIsBounded == Stack!StackIsBounded

\* See SocketListeners: every message once, in order, to all that are registered.
ListenersAreCalled == Socket!ListenersAreCalled
=============================================================================
