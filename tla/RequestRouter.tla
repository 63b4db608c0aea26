--------------------------- MODULE RequestRouter ---------------------------
(***************************************************************************)
(* How ConcreteAppRouter and ConcreteRouter take one request through the   *)
(* handlers of a router and its sub-routers.  Requests share nothing but   *)
(* the registered entries, so one request is enough.                       *)
(*                                                                         *)
(* A call of channelRequestThroughRequestHandlers is a frame: its loop     *)
(* counters and its nextFnState.  The frame of a sub-router is on top of   *)
(* the frame whose loop awaits it.  Handlers are any code: they may call   *)
(* next, with or without an error, throw, return something or nothing, or  *)
(* never come back, and a handler that has come back may still call its    *)
(* next from a callback (LateNext).                                        *)
(***************************************************************************)
EXTENDS RouteTable

CONSTANTS
  Cases,        \* pairs of a table an application may register and a request
  ErrorValues,  \* errors of handlers: "falsy" (0, "", false) or "truthy"
  MaxLate       \* bound: late calls of next

ASSUME CasesAssumption == \A c \in Cases : WellFormed(c[1]) /\ c[2] \in Request
ASSUME ErrorsAssumption == ErrorValues \subseteq {"falsy", "truthy"}
ASSUME MaxLateAssumption == MaxLate \in Nat

VARIABLES
  table,    \* the registered entries
  request,  \* method and pathname
  phase,    \* what the request is at
  stack,    \* the frames
  params,   \* request.params
  route,    \* request.routePathname, as the sequence of its parts
  outcome,  \* what the channel returned or threw
  \* history
  called,   \* the handlers that were called, as <<entry, function>>
  late      \* see MaxLate

vars == <<table, request, phase, stack, params, route, outcome, called, late>>

Phases   == {"parsing", "looking", "running", "returning", "waiting", "answered"}
Outcomes == {"pending", "something", "nothing", "failed", "unmatched", "unreadable"}
Errors   == ErrorValues \cup {"none"}

----------------------------------------------------------------------------
(* Frames.  rest is the pathname to be matched; above and route are what   *)
(* the mount has put into params and routePathname; the error "none" is    *)
(* null or undefined.                                                      *)

Frame(r, rest, above, parts) ==
  [router |-> r, entry |-> FirstFrom(table, r, 1), function |-> 1, forward |-> FALSE,
   error |-> "none", rest |-> rest, above |-> above, route |-> parts]

Depth == Len(stack)
Top   == stack[Depth]
SetTop(f) == [stack EXCEPT ![Depth] = f]
Pop       == SubSeq(stack, 1, Depth - 1)

AtEnd == Top.entry = End(table)
Here  == table[Top.entry]

\* nextFn
Nexted(f, e) == [f EXCEPT !.forward = TRUE, !.error = e]

\* Mutant: the loop does not get past the entry.
StuckAtEntry(f) ==
  [f EXCEPT !.entry = FirstFrom(table, f.router, f.entry), !.function = 1]

NextEntry(f) ==
  [f EXCEPT !.entry = FirstFrom(table, f.router, f.entry + 1), !.function = 1]

\* A router behind the functions of an entry is one more function of it.
Size(i) == table[i].handlers + (IF table[i].sub = NoRouter THEN 0 ELSE 1)

\* Mutant: only an error ends the inner loop.
OnwardWithin(f) == IF f.error = "truthy" THEN NextEntry(f)
                   ELSE [f EXCEPT !.function = f.function + 1]

\* Where the loops go when a handler or a sub-router was awaited and has forwarded.  An
\* error breaks the inner loop only if it is truthy.
Onward(f) == IF f.error = "truthy" \/ f.function = Size(f.entry) THEN NextEntry(f)
             ELSE [f EXCEPT !.function = f.function + 1]

----------------------------------------------------------------------------
(* The loops.                                                              *)

\* createFromDenoRequest: a body that is no JSON is answered with 400 or 415.
RejectBody ==
  /\ phase = "parsing"
  /\ phase' = "answered"
  /\ outcome' = "unreadable"
  /\ UNCHANGED <<table, request, stack, params, route, called, late>>

Parse ==
  /\ phase = "parsing"
  /\ phase' = "looking"
  /\ stack' = <<Frame(Root, Normalize(request.path), <<>>, <<>>)>>
  /\ UNCHANGED <<table, request, params, route, outcome, called, late>>

\* The pathname of the entry, with a wildcard appended if it is a sub-router's, matches
\* what the frame has to match.
HereMatches ==
  /\ Here.method \in {AnyMethod, request.method}
  /\ Here.path # NoPathname => Matches(Here.path, Top.rest, Open(Here))

\* The task type is looked at when the loop comes to an entry.
Fits == IF Top.error = "none" THEN ~Here.error /\ HereMatches ELSE Here.error

SkipEntry ==
  /\ phase = "looking" /\ ~AtEnd
  /\ Top.function = 1 /\ ~Fits
  /\ stack' = SetTop(NextEntry(Top))
  /\ UNCHANGED <<table, request, phase, params, route, outcome, called, late>>

\* What an entry is given: the parameters of its mount and its own, which prevail.
EntryParams == IF Here.path = NoPathname THEN Top.above
               ELSE Over(Groups(Here.path, Top.rest), Top.above)

\* Mutant: the parameters are added to those of the entry before.
AddParams ==
  IF Top.function = 1 /\ ~Here.error
  THEN /\ params' = Over(EntryParams, params)
       /\ route' = IF Here.path = NoPathname THEN route ELSE Append(Top.route, Here.path)
  ELSE UNCHANGED <<params, route>>

\* What the loop writes to the request when it comes to a processing entry: params
\* always, routePathname only for an entry with a pathname.
SetParams ==
  IF Top.function = 1 /\ ~Here.error
  THEN /\ params' = EntryParams
       /\ route' = IF Here.path = NoPathname THEN route ELSE Append(Top.route, Here.path)
  ELSE UNCHANGED <<params, route>>

CallHandler ==
  /\ phase = "looking" /\ ~AtEnd
  /\ Top.function = 1 => Fits
  /\ Top.function <= Here.handlers
  /\ phase' = "running"
  /\ stack' = SetTop([Top EXCEPT !.forward = FALSE])
  /\ SetParams
  /\ called' = Append(called, <<Top.entry, Top.function>>)
  /\ UNCHANGED <<table, request, outcome, late>>

EnterSubRouter ==
  /\ phase = "looking" /\ ~AtEnd
  /\ Top.function = 1 => Fits
  /\ Top.function = Here.handlers + 1
  /\ SetParams
  /\ stack' = Append(SetTop([Top EXCEPT !.forward = FALSE]),
                     Frame(Here.sub, Strip(Here.path, Top.rest), EntryParams, route'))
  /\ UNCHANGED <<table, request, phase, outcome, called, late>>

\* Mutant: a sub-router that is through does not tell its parent.
EndWithoutNext ==
  /\ phase = "looking" /\ AtEnd /\ Depth > 1
  /\ stack' = Pop
  /\ phase' = "returning"
  /\ outcome' = "nothing"
  /\ UNCHANGED <<table, request, params, route, called, late>>

\* A sub-router is through: its error becomes the error of its parent, by the parent's
\* next, and it returns nothing.
EndSubRouter ==
  /\ phase = "looking" /\ AtEnd /\ Depth > 1
  /\ stack' = [Pop EXCEPT ![Depth - 1] = Nexted(stack[Depth - 1], Top.error)]
  /\ phase' = "returning"
  /\ outcome' = "nothing"
  /\ UNCHANGED <<table, request, params, route, called, late>>

\* The root router is through: 500 for an error, if it is truthy, and 404.
EndRoot ==
  /\ phase = "looking" /\ AtEnd /\ Depth = 1
  /\ phase' = "answered"
  /\ outcome' = IF Top.error = "truthy" THEN "failed" ELSE "unmatched"
  /\ stack' = <<>>
  /\ UNCHANGED <<table, request, params, route, called, late>>

\* A frame has returned a value.  The frame below returns it too, unless it was told
\* to forward in the meantime.
Return ==
  /\ phase = "returning"
  /\ stack' = IF Depth > 0 /\ Top.forward THEN SetTop(Onward(Top))
              ELSE IF Depth > 0 THEN Pop ELSE <<>>
  /\ IF Depth > 0 /\ Top.forward
     THEN phase' = "looking" /\ outcome' = "pending"
     ELSE /\ phase' = IF Depth > 0 THEN "returning"
                      ELSE IF outcome = "something" THEN "answered" ELSE "waiting"
          /\ UNCHANGED outcome
  /\ UNCHANGED <<table, request, params, route, called, late>>

\* The channel returned undefined: 408 after the timeout, or when the peer is gone.
TimeOut ==
  /\ phase = "waiting"
  /\ phase' = "answered"
  /\ UNCHANGED <<table, request, stack, params, route, outcome, called, late>>

----------------------------------------------------------------------------
(* The handlers.                                                           *)

CallsNext(e) ==
  /\ phase = "running"
  /\ stack' = SetTop(Nexted(Top, e))
  /\ UNCHANGED <<table, request, phase, params, route, outcome, called, late>>

\* The catch calls nextFn and ends the inner loop.
Throws(e) ==
  /\ phase = "running"
  /\ phase' = "looking"
  /\ stack' = SetTop(NextEntry(Nexted(Top, e)))
  /\ UNCHANGED <<table, request, params, route, outcome, called, late>>

Returns(v) ==
  /\ phase = "running"
  /\ IF Top.forward
     THEN phase' = "looking" /\ stack' = SetTop(Onward(Top)) /\ UNCHANGED outcome
     ELSE phase' = "returning" /\ stack' = Pop /\ outcome' = v
  /\ UNCHANGED <<table, request, params, route, called, late>>

\* A handler of frame d that has come back calls its next again.
LateNext(d, e) ==
  /\ phase \in {"running", "returning"}
  /\ late < MaxLate
  /\ \E n \in 1 .. Len(called) :
       /\ table[called[n][1]].router = stack[d].router
       /\ phase = "running" => n < Len(called)
  /\ stack' = [stack EXCEPT ![d] = Nexted(stack[d], e)]
  /\ late' = late + 1
  /\ UNCHANGED <<table, request, phase, params, route, outcome, called>>

----------------------------------------------------------------------------
Init ==
  /\ \E c \in Cases : table = c[1] /\ request = c[2]
  /\ phase = "parsing"
  /\ stack = <<>>
  /\ params = <<>> /\ route = <<>>
  /\ outcome = "pending"
  /\ called = <<>>
  /\ late = 0

Loops == \/ RejectBody \/ Parse \/ SkipEntry \/ CallHandler \/ EnterSubRouter
         \/ EndSubRouter \/ EndRoot \/ Return \/ TimeOut

Settles == \/ \E e \in ErrorValues : Throws(e)
           \/ \E v \in {"something", "nothing"} : Returns(v)

Handler == Settles \/ \E e \in Errors : CallsNext(e)

Next == \/ Loops
        \/ Handler
        \/ \E d \in 1 .. Depth, e \in Errors : LateNext(d, e)

Spec == Init /\ [][Next]_vars

\* The event loop runs the router's part and fires its timer, and every handler comes back:
\* the timer of app-router.ts:61 starts only then.
SettlingSpec == Spec /\ WF_vars(Loops) /\ WF_vars(Settles)

----------------------------------------------------------------------------
(* Properties.                                                             *)

Loop == [router : Routers, entry : Nat, function : Nat, forward : BOOLEAN,
           error : Errors]

LoopOf(f) == [x \in {"router", "entry", "function", "forward", "error"} |-> f[x]]

\* Every variable keeps to its type, and a loop that is not at its end is at a function
\* of an entry of its router.
TypeOK ==
  /\ WellFormed(table) /\ request \in Request
  /\ phase \in Phases
  /\ \A d \in 1 .. Depth :
       LET f == stack[d]
       IN  /\ LoopOf(f) \in Loop
           /\ f.rest \in Seq(STRING)
           /\ DOMAIN f.above \subseteq STRING
           /\ f.route \in Seq(Pathname)
           /\ f.entry <= Len(table) =>
                table[f.entry].router = f.router /\ f.function \in 1 .. Size(f.entry)
  /\ DOMAIN params \subseteq STRING /\ route \in Seq(Pathname)
  /\ outcome \in Outcomes
  /\ called \in Seq(Nat \X Nat)
  /\ late \in Nat

\* No handler is called twice or out of the order of registration, whatever errors,
\* sub-routers and late calls of next do to the loops.
CalledInOrder ==
  \A m, n \in 1 .. Len(called) :
    m < n => \/ called[m][1] < called[n][1]
             \/ called[m][1] = called[n][1] /\ called[m][2] < called[n][2]

\* A mount below another mount takes nothing off a pathname that begins with a slash.
\* Where the request comes to no such mount that has something to take, what follows is
\* the same for every depth.
NothingToTakeBelow ==
  \A i \in Entries(table) :
    table[i].sub # NoRouter /\ table[i].router # Root /\ AllFit(table, i, request) =>
      table[i].path.segs = <<>>

\* For each entry, the parameters of the mounts above it and its own, which prevail: what
\* stands in the whole pathname of the request, at its place, for the names of each.
Parameters(t, p) ==
  LET down[i \in 0 .. Len(t)] ==
        IF i = 0 THEN <<>>
        ELSE IF t[i].path = NoPathname THEN down[Above(t, i)]
        ELSE Over(Groups(t[i].path, Beyond(Mounted(t, i), p)), down[Above(t, i)])
  IN  down

\* While a processing handler runs, request.params has what the whole pathname gives for
\* the names in the pathnames of its entry and of the mounts above it, and no others; and
\* routePathname is those pathnames, for an entry that was registered under one.
ParamsBelong ==
  NothingToTakeBelow /\ phase = "running" /\ ~Here.error =>
    /\ params = Parameters(table, request.path)[Top.entry]
    /\ Here.path # NoPathname => route = Pathnames(table)[Top.entry]

\* router.ts:585, "The sub-router's matched request pathname should be the request pathname
\* without the current entry without wildcard's matched request pathname": a sub-router has
\* to match what the pathnames of the mounts above leave of the whole pathname.
SubRoutersGetTheRest ==
  \A d \in 2 .. Depth :
    Normalize(stack[d].rest) =
      Normalize(Beyond(Located(table, stack[d - 1].entry), request.path))

\* A frame has been told to forward, and its loop has not gone on yet.
Forwarded == phase = "returning" /\ Depth > 0 /\ Top.forward

\* An error that the rest of its entry is about to forget.
Forgotten == phase = "looking" /\ Top.function > 1

\* The router is the chain of handlers of HandlerChain, whatever its loops do, as long as
\* handlers call next before they come back.
Chain == INSTANCE HandlerChain WITH
  at      <- IF called = <<>> THEN <<0, 0>> ELSE called[Len(called)],
  busy    <- phase = "running",
  error   <- IF (phase = "looking" /\ ~Forgotten) \/ Forwarded THEN Top.error ELSE "none",
  outcome <- IF Forwarded THEN "pending" ELSE outcome
ImplementsHandlerChain ==
  Chain!ChainInit /\ [][late' > 0 \/ ~NothingToTakeBelow
                        \/ Chain!ChainNext(ErrorValues)]_Chain!chainVars

\* If handlers come back, every request is answered.
EveryRequestIsAnswered == <>(phase = "answered")
=============================================================================
