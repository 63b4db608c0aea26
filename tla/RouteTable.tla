----------------------------- MODULE RouteTable -----------------------------
(***************************************************************************)
(* The entries of a router and of its sub-routers as one table, numbered   *)
(* depth first in the order of registration: the entries of a sub-router   *)
(* come right behind the entry it is mounted at.  An entry is a record     *)
(*    router    the router it is registered with                           *)
(*    error     it is an error handler                                     *)
(*    method    the method it is for, or AnyMethod                         *)
(*    path      the pathname it was registered under, or NoPathname        *)
(*    handlers  how many handler functions it has                          *)
(*    sub       the sub-router behind its functions, or NoRouter           *)
(*    last      the last entry below it: itself when it mounts none        *)
(***************************************************************************)
EXTENDS RoutePathname

CONSTANTS Routers, Root, NoRouter, NoPathname

ASSUME RootAssumption == Root \in Routers /\ NoRouter \notin Routers

AnyMethod == "any"
Methods   == {"GET", "POST", "PUT", "PATCH", "DELETE"}

Entry == [router : Routers, error : BOOLEAN, method : Methods \cup {AnyMethod},
          path : Pathname \cup {NoPathname}, handlers : Nat,
          sub : Routers \cup {NoRouter}, last : Nat]

Request == [method : Methods, path : Seq(STRING \ {Slash})]

Entries(t) == 1 .. Len(t)

\* Entry m mounts the router, or a router above the router, of entry i.
Encloses(t, m, i) == m < i /\ i <= t[m].last

\* The innermost mount above entry i, 0 if there is none.
Above(t, i) == Max({0} \cup {m \in Entries(t) : Encloses(t, m, i)})

\* For each entry, the pathnames of the mounts above it and its own, the outermost first;
\* and their segments, written one behind the other.
Pathnames(t) ==
  LET down[i \in 0 .. Len(t)] ==
        IF i = 0 THEN <<>>
        ELSE IF t[i].path = NoPathname THEN down[Above(t, i)]
        ELSE Append(down[Above(t, i)], t[i].path)
  IN  down
Segments(t) ==
  LET down[i \in 0 .. Len(t)] ==
        IF i = 0 THEN <<>>
        ELSE IF t[i].path = NoPathname THEN down[Above(t, i)]
        ELSE down[Above(t, i)] \o t[i].path.segs
  IN  down

\* The whole pathname that an entry is at, and what the mounts above it make of that.
Located(t, i) == [segs |-> Segments(t)[i], wild |-> t[i].path.wild]
Mounted(t, i) == [segs |-> Segments(t)[Above(t, i)], wild |-> NoWildcard]

\* A wildcard is appended to the pathname of a sub-router.  It begins with a slash, which
\* a normalized pathname does not: a sub-router at "/" is for the bare pathname only.
Open(e) == e.sub # NoRouter /\ e.path.segs # <<>>

\* The entry, at its place, is for the request.
IsFor(t, i, request) ==
  /\ t[i].method \in {AnyMethod, request.method}
  /\ t[i].path # NoPathname => Matches(Located(t, i), request.path, Open(t[i]))

\* A request comes to an entry if every mount above it, and the entry, are for the request.
AllFit(t, i, request) ==
  \A m \in Entries(t) : m = i \/ Encloses(t, m, i) => IsFor(t, m, request)

EntriesOf(t, r) == {i \in Entries(t) : t[i].router = r}

\* The entry of router r that comes first from entry i on; behind the table if none is.
End(t) == Len(t) + 1
FirstFrom(t, r, i) ==
  LET rest == {j \in EntriesOf(t, r) : j >= i}
  IN  IF rest = {} THEN End(t) ELSE CHOOSE j \in rest : \A k \in rest : j <= k

\* What registering gives: an error entry is one function; a sub-router, which needs a
\* pathname, has its entries between its mount and the next entry beside the mount.
WellFormed(t) ==
  /\ t \in Seq(Entry)
  /\ \A i \in Entries(t) :
       /\ t[i].last \in i .. Len(t)
       /\ t[i].path # NoPathname => ProperNames(t[i].path)
       /\ t[i].error => t[i].handlers = 1 /\ t[i].sub = NoRouter /\ t[i].path = NoPathname
       /\ t[i].handlers = 0 => t[i].sub # NoRouter
       /\ t[i].sub # NoRouter => t[i].path # NoPathname /\ t[i].method = AnyMethod
       /\ t[i].sub = NoRouter => t[i].last = i
       /\ t[i].router = Root => \A m \in Entries(t) : ~Encloses(t, m, i)
       /\ t[i].router # Root => \E m \in Entries(t) : t[m].sub = t[i].router
       /\ \A j \in Entries(t) :
            /\ t[i].router = t[j].router /\ i < j => t[i].last < j
            /\ t[i].sub # NoRouter =>
                 /\ t[j].router = t[i].sub => i < j /\ t[j].last <= t[i].last
                 /\ t[j].sub = t[i].sub => j = i
=============================================================================
