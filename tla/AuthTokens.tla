----------------------------- MODULE AuthTokens -----------------------------
(***************************************************************************)
(* Access and refresh tokens of the server: AuthController and the         *)
(* authenticateRoute middleware in front of it and of the prekey routes.   *)
(*                                                                         *)
(* A request goes from await to await; other requests, the clock and the   *)
(* KV store go on in between.  A token is the content of a JWT: HS256 is   *)
(* deterministic and the claims count seconds, so two sign-ins of a user   *)
(* in the same second get the same refresh token.  Signatures are assumed  *)
(* to hold: a client only has tokens that were issued.                     *)
(***************************************************************************)
EXTENDS Integers

CONSTANTS
  Users,            \* emails
  Devices,          \* X-Device-Hash headers
  None,             \* no header, no participant, nothing
  Requests,         \* bound: requests at a time
  MaxRequests,      \* bound: requests in all
  Start, MaxTime,   \* bound: the clock, in seconds since 1970
  AccessLifetime, RefreshLifetime,  \* in seconds
  ParamTypes        \* what request.params has: "string" here, the ids are "number"

ASSUME NoneAssumption == None \notin Users \X Devices
ASSUME LifetimesAssumption ==
  AccessLifetime \in Nat \ {0} /\ RefreshLifetime \in Nat \ {0}
\* The clock is past 1970 by more than a thousandth of a refresh token's life.
ASSUME ClockAssumption ==
  Start \in Nat /\ MaxTime \in Nat /\ RefreshLifetime <= 999 * Start

VARIABLES
  now,        \* seconds
  users,      \* rows of users
  rows,       \* rows of e2ee_participants, as <<user, device>>
  kv,         \* the blacklist: tokens with the time their entry expires, in ms
  held,       \* the tokens that clients were answered
  req,        \* the requests
  asked,      \* number of requests
  \* history
  signedOut,  \* refresh tokens whose sign-out was answered
  dropped     \* refresh tokens whose entry the KV store has dropped

vars == <<now, users, rows, kv, held, req, asked, signedOut, dropped>>

Participants == Users \X Devices

Token(kind, u, p, lifetime) ==
  [kind |-> kind, sub |-> u, participant |-> p, exp |-> now + lifetime]

Kinds  == {"signup", "signin", "refresh", "signout", "me", "create", "update"}
Places == {"idle", "inserting", "matching", "checking", "verifying", "fetching",
           "finding", "lookup", "signing", "signingRefresh", "leaving", "creating",
           "updating"}

\* Requests whose token was accepted, or that need none.
Through == {"lookup", "signing", "signingRefresh", "leaving", "creating", "updating"}

Idle == [at |-> "idle", kind |-> "me", user |-> None, device |-> None, token |-> None,
         participant |-> None, access |-> None, own |-> FALSE, after |-> FALSE,
         had |-> FALSE]

Move(r, place) == req' = [req EXCEPT ![r].at = place]
Finish(r)      == req' = [req EXCEPT ![r] = Idle]

----------------------------------------------------------------------------
(* Arrivals.  own: the ids in the path are those of the token.  after: the *)
(* token was signed out before.  had: this device had its participant.     *)

Arrive(r, kind, u, d, t, own, place) ==
  /\ req[r].at = "idle" /\ asked < MaxRequests
  /\ asked' = asked + 1
  /\ req' = [req EXCEPT ![r] =
       [at |-> place, kind |-> kind, user |-> u, device |-> d, token |-> t,
        participant |-> None, access |-> None, own |-> own,
        after |-> t \in signedOut, had |-> <<u, d>> \in rows]]
  /\ UNCHANGED <<now, users, rows, kv, held, signedOut, dropped>>

ArriveSignup(r) ==
  \E u \in Users : Arrive(r, "signup", u, None, None, TRUE, "inserting")

ArriveSignin(r) ==
  \E u \in Users, d \in Devices \cup {None} :
    Arrive(r, "signin", u, d, None, TRUE, "matching")

\* /refresh-token and /signout: any token the client has.
ArriveAtRefresh(r) ==
  \E t \in held, d \in Devices \cup {None}, kind \in {"refresh", "signout"} :
    Arrive(r, kind, t.sub, d, t, TRUE, "checking")

\* /me, the creation of a participant, and the routes below it.
ArriveAtAccess(r) ==
  \E t \in held, d \in Devices, kind \in {"me", "create", "update"}, own \in BOOLEAN :
    Arrive(r, kind, t.sub, d, t, own, "verifying")

----------------------------------------------------------------------------
(* The middleware.                                                         *)

Refuse(r) ==
  /\ Finish(r)
  /\ UNCHANGED <<now, users, rows, kv, held, asked, signedOut, dropped>>

Blacklisted(t) == \E e \in kv : e.token = t

\* kv.get.  The controller and the middleware have a connection each, to one file.
CheckBlacklist(r) ==
  /\ req[r].at = "checking"
  /\ IF Blacklisted(req[r].token)
     THEN Refuse(r)
     ELSE /\ Move(r, "verifying")
          /\ UNCHANGED <<now, users, rows, kv, held, asked, signedOut, dropped>>

Secret(kind) == IF kind \in {"refresh", "signout"} THEN "refresh" ELSE "access"

\* verifyJWT: another secret, or a token whose time is over, throws.
Verify(r) ==
  LET t == req[r].token
  IN  /\ req[r].at = "verifying"
      /\ IF t.kind # Secret(req[r].kind) \/ t.exp <= now
         THEN Refuse(r)
         ELSE /\ Move(r, IF req[r].kind = "update" /\ t.participant # None
                         THEN "fetching" ELSE "finding")
              /\ UNCHANGED <<now, users, rows, kv, held, asked, signedOut, dropped>>

FetchParticipant(r) ==
  /\ req[r].at = "fetching"
  /\ IF req[r].token.participant \notin rows
     THEN Refuse(r)
     ELSE /\ req' = [req EXCEPT ![r].at = "finding",
                                ![r].participant = req[r].token.participant]
          /\ UNCHANGED <<now, users, rows, kv, held, asked, signedOut, dropped>>

Handler(kind) == CASE kind = "refresh" -> "lookup"
                   [] kind = "signout" -> "leaving"
                   [] kind = "create"  -> "creating"
                   [] kind = "update"  -> "updating"

\* /me answers at once.
FindUser(r) ==
  /\ req[r].at = "finding"
  /\ IF req[r].user \in users /\ req[r].kind # "me"
     THEN Move(r, Handler(req[r].kind)) ELSE Finish(r)
  /\ UNCHANGED <<now, users, rows, kv, held, asked, signedOut, dropped>>

----------------------------------------------------------------------------
(* The handlers.                                                           *)

\* The INSERT is refused by the key on email, and answered with 500.
InsertUser(r) ==
  /\ req[r].at = "inserting"
  /\ IF req[r].user \in users THEN Finish(r) ELSE Move(r, "signing")
  /\ users' = users \cup {req[r].user}
  /\ UNCHANGED <<now, rows, kv, held, asked, signedOut, dropped>>

\* Mutant: the user is not looked at.
MatchAnyone(r) ==
  /\ req[r].at = "matching"
  /\ Move(r, "lookup") \/ Finish(r)
  /\ UNCHANGED <<now, users, rows, kv, held, asked, signedOut, dropped>>

\* findByEmail and verifyPassword.
MatchPassword(r) ==
  /\ req[r].at = "matching"
  /\ (req[r].user \in users /\ Move(r, "lookup")) \/ Finish(r)
  /\ UNCHANGED <<now, users, rows, kv, held, asked, signedOut, dropped>>

\* Mutant: the row of the device, whoever's it is.
LookUpByDevice(r) ==
  /\ req[r].at = "lookup"
  /\ \E p \in rows \cup {None} :
       /\ p # None => p[2] = req[r].device
       /\ p = None => \A q \in rows : q[2] # req[r].device
       /\ req' = [req EXCEPT ![r].at = "signing", ![r].participant = p]
  /\ UNCHANGED <<now, users, rows, kv, held, asked, signedOut, dropped>>

\* Mutant: only a sign-in looks the participant up.
LookUpAtSignin(r) ==
  LET p == <<req[r].user, req[r].device>>
  IN  /\ req[r].at = "lookup"
      /\ req' = [req EXCEPT ![r].at = "signing",
                            ![r].participant = IF p \in rows /\ req[r].kind = "signin"
                                               THEN p ELSE None]
      /\ UNCHANGED <<now, users, rows, kv, held, asked, signedOut, dropped>>

\* findByUserIdAndDeviceId, if there is a device.
LookUp(r) ==
  LET p == <<req[r].user, req[r].device>>
  IN  /\ req[r].at = "lookup"
      /\ req' = [req EXCEPT ![r].at = "signing",
                            ![r].participant = IF p \in rows THEN p ELSE None]
      /\ UNCHANGED <<now, users, rows, kv, held, asked, signedOut, dropped>>

\* createJWT of the access token, which is all a refresh answers.
SignAccess(r) ==
  LET a == Token("access", req[r].user, req[r].participant, AccessLifetime)
  IN  /\ req[r].at = "signing"
      /\ IF req[r].kind = "refresh"
         THEN /\ Finish(r)
              /\ held' = held \cup {a}
         ELSE /\ req' = [req EXCEPT ![r].at = "signingRefresh", ![r].access = a]
              /\ UNCHANGED held
      /\ UNCHANGED <<now, users, rows, kv, asked, signedOut, dropped>>

SignRefresh(r) ==
  /\ req[r].at = "signingRefresh"
  /\ Finish(r)
  /\ held' = held \cup {req[r].access,
                        Token("refresh", req[r].user, None, RefreshLifetime)}
  /\ UNCHANGED <<now, users, rows, kv, asked, signedOut, dropped>>

\* Mutant: the access token of the context, which a refresh route has not.
BlacklistNothing(r) ==
  /\ req[r].at = "leaving"
  /\ Finish(r)
  /\ signedOut' = signedOut \cup {req[r].token}
  /\ UNCHANGED <<now, users, rows, kv, held, asked, dropped>>

\* exp counts seconds, Date.now() milliseconds.
ExpireIn(t) == IF t.exp - now * 1000 > 0 THEN t.exp - now * 1000 ELSE 0

Blacklist(r) ==
  LET t == req[r].token
  IN  /\ req[r].at = "leaving"
      /\ Finish(r)
      /\ kv' = {e \in kv : e.token # t} \cup
               {[token |-> t, expires |-> now * 1000 + ExpireIn(t)]}
      /\ signedOut' = signedOut \cup {t}
      /\ UNCHANGED <<now, users, rows, held, asked, dropped>>

\* authUserMatchesUserIdParam and authE2EEParticipantMatchesE2EEParticipantIdParam
\* compare a number by ===.
IdsMatch(r, type) == req[r].own /\ type = "number"

\* The row of the user's device; a second one is refused by the unique key.
CreateParticipant(r) ==
  LET p == <<req[r].user, req[r].device>>
  IN  /\ req[r].at = "creating"
      /\ \E type \in ParamTypes :
           IF ~IdsMatch(r, type) \/ p \in rows
           THEN UNCHANGED rows
           ELSE rows' = rows \cup {p}
      /\ Finish(r)
      /\ UNCHANGED <<now, users, kv, held, asked, signedOut, dropped>>

\* The prekey bundle or the one-time prekeys of the participant in the context change, if
\* the ids match: they are in PreKeySetup.
UpdateParticipant(r) ==
  /\ req[r].at = "updating"
  /\ Finish(r)
  /\ UNCHANGED <<now, users, rows, kv, held, asked, signedOut, dropped>>

----------------------------------------------------------------------------
(* Around the requests.                                                    *)

\* MySQL or the KV store refuses an operation: 401 in the middleware, as its errors have a
\* code too, and 500 in a handler.
Fails(r) ==
  /\ req[r].at \in {"inserting", "matching", "checking", "fetching", "finding", "lookup",
                    "leaving"}
  /\ Refuse(r)

Tick ==
  /\ now < MaxTime
  /\ now' = now + 1
  /\ UNCHANGED <<users, rows, kv, held, req, asked, signedOut, dropped>>

\* Deno KV drops an entry some time after it has expired.
KvDrops ==
  /\ \E e \in kv : /\ e.expires <= now * 1000
                   /\ kv' = kv \ {e}
                   /\ dropped' = dropped \cup {e.token}
  /\ UNCHANGED <<now, users, rows, held, req, asked, signedOut>>

Init ==
  /\ now = Start
  /\ users \in SUBSET Users
  /\ rows \in SUBSET (users \X Devices)
  /\ kv = {} /\ held = {} /\ signedOut = {} /\ dropped = {}
  /\ req = [r \in Requests |-> Idle]
  /\ asked = 0

Arrivals(r) ==
  \/ ArriveSignup(r) \/ ArriveSignin(r) \/ ArriveAtRefresh(r) \/ ArriveAtAccess(r)
Middleware(r) ==
  \/ CheckBlacklist(r) \/ Verify(r) \/ FetchParticipant(r) \/ FindUser(r)
Handlers(r) ==
  \/ InsertUser(r) \/ MatchPassword(r) \/ LookUp(r) \/ SignAccess(r) \/ SignRefresh(r)
  \/ Blacklist(r) \/ CreateParticipant(r) \/ UpdateParticipant(r) \/ Fails(r)

Next ==
  \/ \E r \in Requests : Arrivals(r) \/ Middleware(r) \/ Handlers(r)
  \/ Tick \/ KvDrops

Spec == Init /\ [][Next]_vars

----------------------------------------------------------------------------
(* Properties.                                                             *)

Tokens == [kind : {"access", "refresh"}, sub : Users,
           participant : Participants \cup {None}, exp : Int]

\* Every variable keeps to its type, participants are of users, and only users have tokens.
TypeOK ==
  /\ now \in Int
  /\ users \in SUBSET Users /\ rows \in SUBSET (users \X Devices)
  /\ kv \in SUBSET [token : Tokens, expires : Int]
  /\ held \in SUBSET Tokens /\ \A t \in held : t.sub \in users
  /\ signedOut \in SUBSET Tokens /\ dropped \in SUBSET Tokens
  /\ req \in [Requests ->
       [at : Places, kind : Kinds, user : Users \cup {None},
        device : Devices \cup {None}, token : Tokens \cup {None},
        participant : Participants \cup {None}, access : Tokens \cup {None},
        own : BOOLEAN, after : BOOLEAN, had : BOOLEAN]]
  /\ asked \in Nat

\* A handler never works on the participant of another user: the context that the
\* middleware builds from a token names one user, whichever request signed the token.
ContextAgrees ==
  \A r \in Requests :
    req[r].participant # None => req[r].participant[1] = req[r].user

\* What setup-prekey-bundle.middleware.ts relies on when it asks for a new token after it
\* has created the participant: a token that is asked for then names it.
NewTokenNamesParticipant ==
  \A r \in Requests :
    /\ req[r].kind \in {"signin", "refresh"} /\ req[r].had
    /\ req[r].at \in {"signing", "signingRefresh"}
    => req[r].participant = <<req[r].user, req[r].device>>

\* A token that was signed out is not accepted again before the KV store has dropped its
\* entry, whatever was on its way.
SignedOutWhileKept ==
  \A r \in Requests :
    req[r].after /\ Secret(req[r].kind) = "refresh" /\ req[r].at \in Through
      => req[r].token \in dropped

\* auth.controller.ts:221, "Blacklisting the refresh token", and
\* auth-route.middleware.ts:94, "Making sure that the refresh token is still valid": a
\* token that was signed out is not accepted again.
SignedOutIsDead ==
  \A r \in Requests :
    req[r].after /\ Secret(req[r].kind) = "refresh" => req[r].at \notin Through
=============================================================================
