---------------------------- MODULE HandlerChain ----------------------------
(***************************************************************************)
(* What a router promises to the handlers registered with it and with its  *)
(* sub-routers, whatever the loops that find them: they are one chain, in  *)
(* the order of registration, where every handler is called at most once.  *)
(* Without an error the next handler is the next one whose entry, and      *)
(* every mount above it, fits the request.  With an error it is the next   *)
(* error handler of the same router or of a router above it; but an error  *)
(* that is falsy, if it is passed on and not thrown, is forgotten by what  *)
(* is left of the entry.  An entry fits the request when the pathnames of  *)
(* its mounts and its own, one behind the other, match the whole pathname. *)
(***************************************************************************)
EXTENDS RouteTable

VARIABLES
  table,    \* the entries, constant
  request,  \* its method and pathname, constant
  at,       \* <<entry, function>> called last, <<0, 0>> before the first
  busy,     \* it has not come back yet
  error,    \* the error to be handled, "none" while a handler is busy
  outcome   \* "pending", or how the request ended

chainVars == <<table, request, at, busy, error, outcome>>

Handlers == UNION {{i} \X (1 .. table[i].handlers) : i \in Entries(table)}

Before(g, h) == g[1] < h[1] \/ (g[1] = h[1] /\ g[2] < h[2])

InReach(i) == \A m \in Entries(table) : Encloses(table, m, i) => Encloses(table, m, at[1])

Takes(h) == IF error = "none"
            THEN ~table[h[1]].error /\ AllFit(table, h[1], request)
            ELSE table[h[1]].error /\ InReach(h[1])

Ahead == {h \in Handlers : Before(at, h) /\ Takes(h)}

ChainInit == /\ at = <<0, 0>>
             /\ busy = FALSE
             /\ error = "none"
             /\ outcome = "pending"

Call == /\ outcome = "pending" /\ ~busy
        /\ \E h \in Ahead : /\ \A g \in Ahead : g = h \/ Before(h, g)
                            /\ at' = h
        /\ busy' = TRUE
        /\ error' = "none"
        /\ UNCHANGED <<table, request, outcome>>

\* The entry has another handler, or a sub-router behind its handlers.
More == at[2] < table[at[1]].handlers \/ table[at[1]].sub # NoRouter

Forward(e) == /\ busy
              /\ busy' = FALSE
              /\ error' = IF e = "falsy" /\ More THEN "none" ELSE e
              /\ UNCHANGED <<table, request, at, outcome>>

Fail(e) == /\ busy
           /\ busy' = FALSE
           /\ error' = e
           /\ UNCHANGED <<table, request, at, outcome>>

Give(v) == /\ busy
           /\ busy' = FALSE
           /\ outcome' = v
           /\ UNCHANGED <<table, request, at, error>>

Exhaust == /\ outcome = "pending" /\ ~busy
           /\ Ahead = {}
           /\ outcome' = IF error = "truthy" THEN "failed" ELSE "unmatched"
           /\ error' = "none"
           /\ UNCHANGED <<table, request, at, busy>>

\* The request itself cannot be read: no handler is called.
Reject == /\ at = <<0, 0>> /\ outcome = "pending"
          /\ outcome' = "unreadable"
          /\ UNCHANGED <<table, request, at, busy, error>>

ChainNext(errors) ==
  \/ Call \/ Exhaust \/ Reject
  \/ \E e \in errors \cup {"none"} : Forward(e)
  \/ \E e \in errors : Fail(e)
  \/ \E v \in {"something", "nothing"} : Give(v)
=============================================================================
