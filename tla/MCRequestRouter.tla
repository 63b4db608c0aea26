-------------------------- MODULE MCRequestRouter --------------------------
(* Small instances of RequestRouter: every table of up to four entries of a  *)
(* root router and one sub-router with a few requests, two tables of three   *)
(* routers, and the routes of src/server/server.ts and src/server/routes.    *)
EXTENDS RequestRouter

CONSTANTS root, sub, auth, users, participants, opks

Path(segs) == [segs |-> segs, wild |-> NoWildcard]
Rest(segs, name) == [segs |-> segs, wild |-> name]

ErrorEntry(r) ==
  [router |-> r, error |-> TRUE, method |-> AnyMethod, path |-> NoPathname,
   handlers |-> 1, sub |-> NoRouter, last |-> 0]
Middleware(r) == [ErrorEntry(r) EXCEPT !.error = FALSE]
Route(r, method, pat, n) ==
  [Middleware(r) EXCEPT !.method = method, !.path = pat, !.handlers = n]
Mount(r, s, pat, n) == [Route(r, AnyMethod, pat, n) EXCEPT !.sub = s]

\* Where the entries below each mount end: of s, and of what is mounted below s.
RECURSIVE LastBelow(_, _)
LastBelow(t, i) ==
  LET inner == {j \in Entries(t) : t[i].sub # NoRouter /\ t[j].router = t[i].sub}
      ends  == {i} \cup {LastBelow(t, j) : j \in inner}
  IN  CHOOSE k \in ends : \A l \in ends : l <= k
WithEnds(t) == [i \in Entries(t) |-> [t[i] EXCEPT !.last = LastBelow(t, i)]]

A  == Literal("a")
X  == Slot("x")
Kinds ==
  {ErrorEntry(root), Middleware(root), Route(root, "GET", Path(<<A, X>>), 2),
   Mount(root, sub, Path(<<A>>), 0), Mount(root, sub, Path(<<X>>), 1),
   Mount(root, sub, Rest(<<A>>, "w"), 0), Mount(root, sub, Path(<<>>), 0),
   ErrorEntry(sub), Middleware(sub), Route(sub, "GET", Path(<<X>>), 2),
   Route(sub, AnyMethod, Rest(<<>>, "w"), 1), Route(sub, "POST", Path(<<>>), 1)}

Shaped(n) == {t \in [1 .. n -> Kinds] :
                /\ t[1].router = root
                /\ \A i \in 1 .. n - 1 : t[i + 1].router = sub =>
                                           t[i].router = sub \/ t[i].sub = sub
                /\ \A i, j \in 1 .. n : t[i].sub = sub /\ t[j].sub = sub => i = j}

SmallTables(n) == {WithEnds(t) : t \in Shaped(n)}

Get(path)  == [method |-> "GET", path |-> path]
Post(path) == [method |-> "POST", path |-> path]

\* A sub-router below a sub-router, at a wildcard alone.
DeepTable == WithEnds(
  << Mount(root, users, Rest(<<A>>, "w"), 1),
     Mount(users, participants, Rest(<<>>, "x"), 0),
     Route(participants, "GET", Path(<<X, Literal("b")>>), 1),
     ErrorEntry(users),
     Middleware(root) >>)

\* A wildcard that takes the name of a slot above it.
ShadowTable == WithEnds(
  << Mount(root, users, Path(<<A, X>>), 0),
     Mount(users, participants, Rest(<<>>, "x"), 0),
     Middleware(participants) >>)

\* The handlers of server.ts and of the routes it mounts.
ServerTable == WithEnds(
  << Mount(root, auth, Path(<<Literal("api"), Literal("auth")>>), 0),
       Route(auth, "POST",   Path(<<Literal("signup")>>), 2),
       Route(auth, "POST",   Path(<<Literal("signin")>>), 2),
       Route(auth, "GET",    Path(<<Literal("me")>>), 2),
       Route(auth, "GET",    Path(<<Literal("refresh-token")>>), 2),
       Route(auth, "DELETE", Path(<<Literal("signout")>>), 2),
     Mount(root, users, Path(<<Literal("api"), Literal("users")>>), 0),
       Route(users, "GET", Path(<<Literal("check-username-exists"), Slot("username")>>), 1),
       Route(users, "GET", Path(<<Literal("check-email-exists")>>), 1),
       Mount(users, participants, Path(<<Slot("userId"), Literal("e2ee_participants")>>), 0),
         Route(participants, "POST", Path(<<>>), 4),
         Route(participants, "PATCH",
               Path(<<Slot("e2eeParticipantId"), Literal("prekey_bundle")>>), 4),
         Mount(participants, opks,
               Path(<<Slot("e2eeParticipantId"), Literal("onetime_prekeys")>>), 0),
           Route(opks, "POST", Path(<<>>), 4),
     Route(root, AnyMethod, Path(<<Literal("rt")>>), 1),
     ErrorEntry(root), ErrorEntry(root) >>)

\* A sign-in, a username of plain and of other letters, and a prekey upload.
ServerRequests ==
  {Post(<<"api", "auth", "signin">>), Get(<<"rt">>),
   Get(<<"api", "users", "check-username-exists", "a">>),
   Get(<<"api", "users", "check-username-exists", "a.b">>)}
UploadPath == <<"api", "users", "5", "e2ee_participants", "7", "onetime_prekeys">>

ShortCases == (SmallTables(2) \cup SmallTables(3)) \X
                {Get(<<"a">>), Get(<<"a", "b">>), Get(<<"a", "b", "a">>), Get(<<"a", "a.b">>)}
MostCases  == ShortCases
                \cup (SmallTables(4) \X {Get(<<"a", "b">>)})
                \cup ({DeepTable} \X {Get(<<"a", "a", "b">>), Get(<<"a">>)})
                \cup ({ShadowTable} \X {Get(<<"a", "a", "b">>)})
                \cup ({ServerTable} \X ServerRequests)
UploadCases == {ServerTable} \X {Post(UploadPath)}
=============================================================================
