-------------------------- MODULE AuthTokensProofs --------------------------
(***************************************************************************)
(* Tokens keep to their users and participants, a sign-out holds while its *)
(* entry is kept, and no entry is kept for long, for any users, devices,   *)
(* requests and lifetimes.                                                 *)
(***************************************************************************)
EXTENDS AuthTokens, TLAPS

Records ==
  [at : Places, kind : Kinds, user : Users \cup {None},
   device : Devices \cup {None}, token : Tokens \cup {None},
   participant : Participants \cup {None}, access : Tokens \cup {None},
   own : BOOLEAN, after : BOOLEAN, had : BOOLEAN]

\* What a token is signed for exists.
Grounded(t, us, ps) ==
  /\ t \in Tokens /\ t.sub \in us
  /\ t.participant # None => t.participant \in ps /\ t.participant[1] = t.sub

Authenticating == {"checking", "verifying", "fetching", "finding"}

\* What holds of request q when us are the users, ps the participants, ts the tokens that
\* clients have, outs those that were signed out and ds those that were dropped.
Sound(q, us, ps, ts, outs, ds) ==
  /\ q \in Records
  /\ q.at # "idle" => q.user \in Users
  /\ q.at \in Authenticating \cup {"leaving"} => q.token \in ts /\ q.user = q.token.sub
  /\ q.at \in Through => q.user \in us
  /\ q.at \in Authenticating => q.kind \notin {"signup", "signin"}
  /\ q.at = "checking" => q.kind \in {"refresh", "signout"}
  /\ q.at = "fetching" => q.kind = "update"
  /\ q.at = "inserting" => q.kind = "signup"
  /\ q.at = "matching" => q.kind = "signin"
  /\ q.at = "creating" => q.kind = "create"
  /\ q.at = "lookup" => q.kind \in {"signin", "refresh"}
  /\ q.at = "leaving" => q.kind = "signout"
  /\ q.at \in {"finding", "leaving"} /\ q.kind = "signout" => q.token.kind = "refresh"
  /\ q.kind = "create" => q.device \in Devices
  /\ q.at = "signingRefresh" => Grounded(q.access, us, ps) /\ q.access.kind = "access"
  /\ q.participant # None => q.participant \in ps /\ q.participant[1] = q.user
  /\ q.had => <<q.user, q.device>> \in ps
  /\ q.kind \in {"signin", "refresh"} /\ q.had /\ q.at \in {"signing", "signingRefresh"}
       => q.participant = <<q.user, q.device>>
  /\ q.after => q.token \in outs
  /\ q.after /\ q.kind \in {"refresh", "signout"} /\ q.at \notin {"idle", "checking"}
       => q.token \in ds

RequestsSound ==
  /\ req \in [Requests -> Records]
  /\ \A r \in Requests : Sound(req[r], users, rows, held, signedOut, dropped)

\* The blacklist: what was signed out is there until it is dropped.
EntriesKept == \A t \in signedOut : Blacklisted(t) \/ t \in dropped

\* A refresh token has at most its lifetime left.
Lifetimes == \A t \in held : t.kind = "refresh" => t.exp <= now + RefreshLifetime

\* Every blacklist entry has expired from the moment it is written.
EntriesEnd == \A e \in kv : e.expires <= now * 1000

TablesSound ==
  /\ now \in Int /\ Start <= now
  /\ users \in SUBSET Users /\ rows \in SUBSET (users \X Devices)
  /\ \A t \in held : Grounded(t, users, rows)
  /\ kv \in SUBSET [token : Tokens, expires : Int]
  /\ signedOut \in SUBSET Tokens /\ dropped \in SUBSET Tokens
  /\ asked \in Nat

Inv == TablesSound /\ RequestsSound /\ EntriesKept /\ Lifetimes /\ EntriesEnd

----------------------------------------------------------------------------
(* Tables only grow.                                                       *)

\* What is sound stays so.
LEMMA SoundStays ==
  ASSUME NEW q, NEW us, NEW ps, NEW ts, NEW outs, NEW ds,
         NEW us2, NEW ps2, NEW ts2, NEW outs2, NEW ds2,
         Sound(q, us, ps, ts, outs, ds),
         us \subseteq us2, ps \subseteq ps2, ts \subseteq ts2, outs \subseteq outs2,
         ds \subseteq ds2
  PROVE  Sound(q, us2, ps2, ts2, outs2, ds2)
  BY DEF Sound, Grounded

Grow == /\ users \subseteq users' /\ rows \subseteq rows' /\ held \subseteq held'
        /\ signedOut \subseteq signedOut' /\ dropped \subseteq dropped'

\* A step that changes one request, and leaves that one sound, leaves all sound.
LEMMA OneChanges ==
  ASSUME RequestsSound, Grow, NEW r \in Requests,
         DOMAIN req' = Requests, req' = [u \in Requests |-> req'[u]],
         \A u \in Requests \ {r} : req'[u] = req[u],
         Sound(req'[r], users', rows', held', signedOut', dropped')
  PROVE  RequestsSound'
<1>1. ASSUME NEW u \in Requests
      PROVE  Sound(req'[u], users', rows', held', signedOut', dropped')
  <2>1. CASE u = r
    BY <2>1
  <2>2. CASE u # r
    BY <2>2, SoundStays DEF RequestsSound, Grow
  <2>. QED
    BY <2>1, <2>2
<1>2. \A u \in Requests : req'[u] \in Records
  BY <1>1 DEF Sound
<1>. QED
  BY <1>1, <1>2 DEF RequestsSound

\* A step that changes no request.
LEMMA NoneChanges ==
  ASSUME RequestsSound, Grow, UNCHANGED req
  PROVE  RequestsSound'
  BY SoundStays DEF RequestsSound, Grow

\* An idle request is sound.
LEMMA IdleSound ==
  ASSUME NEW us, NEW ps, NEW ts, NEW outs, NEW ds
  PROVE  Sound(Idle, us, ps, ts, outs, ds)
  BY DEF Sound, Idle, Records, Places, Kinds, Through, Authenticating

\* A request that ends leaves the requests sound.
LEMMA FinishSound ==
  ASSUME RequestsSound, Grow, NEW r \in Requests, Finish(r)
  PROVE  RequestsSound'
<1>1. Sound(req'[r], users', rows', held', signedOut', dropped')
  BY IdleSound DEF Finish, RequestsSound
<1>. QED
  BY <1>1, OneChanges DEF Finish, RequestsSound

----------------------------------------------------------------------------
(* Steps that change requests only.                                        *)

Quiet == UNCHANGED <<now, users, rows, kv, held, signedOut, dropped>>

\* A step that changes requests only, and leaves them sound, keeps the invariant.
LEMMA QuietKeeps ==
  ASSUME Inv, Quiet, asked' \in Nat, RequestsSound'
  PROVE  Inv'
  BY DEF Inv, Quiet, TablesSound, EntriesKept, Blacklisted, Lifetimes, EntriesEnd

\* A request that is refused keeps the invariant.
LEMMA RefuseKeeps ==
  ASSUME Inv, NEW r \in Requests, Refuse(r)
  PROVE  Inv'
<1>1. RequestsSound'
  BY FinishSound DEF Refuse, Inv, Grow
<1>. QED
  BY <1>1, QuietKeeps DEF Refuse, Quiet, Inv, TablesSound

\* A request that goes on, and stays sound, keeps the invariant.
LEMMA GoesOn ==
  ASSUME Inv, Quiet, UNCHANGED asked, NEW r \in Requests, NEW q,
         req' = [req EXCEPT ![r] = q], Sound(q, users, rows, held, signedOut, dropped)
  PROVE  Inv'
<1>1. RequestsSound'
  BY OneChanges DEF Inv, RequestsSound, Quiet, Grow
<1>. QED
  BY <1>1, QuietKeeps DEF Inv, TablesSound

\* A request that arrives is sound, if its token is one that the client has.
LEMMA ArriveKeeps ==
  ASSUME Inv, NEW r \in Requests, NEW kind \in Kinds, NEW u \in Users,
         NEW d \in Devices \cup {None}, NEW t \in Tokens \cup {None}, NEW own \in BOOLEAN,
         NEW place \in {"inserting", "matching", "checking", "verifying"},
         Arrive(r, kind, u, d, t, own, place),
         place \in {"checking", "verifying"} => t \in held /\ u = t.sub,
         place = "checking" => kind \in {"refresh", "signout"},
         place = "verifying" => kind \in {"me", "create", "update"} /\ d \in Devices,
         place = "inserting" => kind = "signup",
         place = "matching" => kind = "signin"
  PROVE  Inv'
<1>. DEFINE q == [at |-> place, kind |-> kind, user |-> u, device |-> d, token |-> t,
                  participant |-> None, access |-> None, own |-> own,
                  after |-> t \in signedOut, had |-> <<u, d>> \in rows]
<1>1. req' = [req EXCEPT ![r] = q] /\ Quiet /\ asked' \in Nat
  BY DEF Arrive, Quiet, Inv, TablesSound
<1>2. q \in Records
  BY DEF Records, Places
<1>3. Sound(q, users, rows, held, signedOut, dropped)
  BY <1>2 DEF Sound, Through, Authenticating
<1>4. RequestsSound'
  BY <1>1, <1>3, OneChanges DEF Inv, RequestsSound, Quiet, Grow
<1>. QED
  BY <1>1, <1>4, QuietKeeps

\* A request that arrives keeps the invariant.
LEMMA ArrivalKeeps ==
  ASSUME Inv, NEW r \in Requests, Arrivals(r)
  PROVE  Inv'
<1>0. \A t \in held : t \in Tokens /\ t.sub \in Users
  BY DEF Inv, TablesSound, Grounded
<1>1. CASE ArriveSignup(r)
  BY <1>1, ArriveKeeps DEF ArriveSignup, Kinds
<1>2. CASE ArriveSignin(r)
  BY <1>2, ArriveKeeps DEF ArriveSignin, Kinds
<1>3. CASE ArriveAtRefresh(r)
  BY <1>0, <1>3, ArriveKeeps DEF ArriveAtRefresh, Kinds
<1>4. CASE ArriveAtAccess(r)
  BY <1>0, <1>4, ArriveKeeps DEF ArriveAtAccess, Kinds
<1>. QED
  BY <1>1, <1>2, <1>3, <1>4 DEF Arrivals

\* A request that goes on to place l with participant p.
With(q, l, p) == [q EXCEPT !.at = l, !.participant = p]

\* It changes in nothing else.
LEMMA WithParticipant ==
  ASSUME NEW q \in Records, NEW l \in Places, NEW p \in Participants \cup {None}
  PROVE  /\ With(q, l, p) \in Records
         /\ With(q, l, p).at = l /\ With(q, l, p).participant = p
         /\ With(q, l, p).kind = q.kind /\ With(q, l, p).user = q.user
         /\ With(q, l, p).device = q.device /\ With(q, l, p).token = q.token
         /\ With(q, l, p).access = q.access
         /\ With(q, l, p).after = q.after /\ With(q, l, p).had = q.had
  BY DEF With, Records

\* The middleware: an accepted token is one that the client was given, and for /signout it
\* is a refresh token.
LEMMA MiddlewareKeeps ==
  ASSUME Inv, NEW r \in Requests, Middleware(r)
  PROVE  Inv'
<1>0. Sound(req[r], users, rows, held, signedOut, dropped)
  BY DEF Inv, RequestsSound
<1>1. CASE CheckBlacklist(r)
  <2>1. CASE Blacklisted(req[r].token)
    BY <1>1, <2>1, RefuseKeeps DEF CheckBlacklist
  <2>2. CASE ~Blacklisted(req[r].token)
    <3>1. req[r].after => req[r].token \in dropped
      BY <1>0, <2>2 DEF Inv, EntriesKept, Sound
    <3>2. Sound([req[r] EXCEPT !.at = "verifying"], users, rows, held, signedOut, dropped)
      BY <1>0, <1>1, <3>1 DEF CheckBlacklist, Sound, Records, Places, Through, Authenticating
    <3>. QED
      BY <1>1, <2>2, <3>2, GoesOn DEF CheckBlacklist, Move, Quiet
  <2>. QED
    BY <2>1, <2>2
<1>2. CASE Verify(r)
  <2>1. CASE Refuse(r)
    BY <2>1, RefuseKeeps
  <2>2. CASE ~Refuse(r)
    <3>1. /\ req[r].token.kind = Secret(req[r].kind)
          /\ Quiet /\ UNCHANGED asked /\ req[r].at = "verifying"
          /\ \E l \in {"fetching", "finding"} :
               Move(r, l) /\ (l = "fetching" => req[r].kind = "update")
      BY <1>2, <2>2 DEF Verify, Quiet
    <3>2. \A l \in {"fetching", "finding"} :
            (l = "fetching" => req[r].kind = "update") =>
              Sound([req[r] EXCEPT !.at = l], users, rows, held, signedOut, dropped)
      BY <1>0, <3>1 DEF Secret, Sound, Records, Places, Through, Authenticating
    <3>. QED
      BY <3>1, <3>2, GoesOn DEF Move
  <2>. QED
    BY <2>1, <2>2
<1>3. CASE FetchParticipant(r)
  <2>1. CASE Refuse(r)
    BY <2>1, RefuseKeeps
  <2>2. CASE ~Refuse(r)
    <3>1. /\ req[r].at = "fetching" /\ Quiet /\ UNCHANGED asked
          /\ req[r].token.participant \in rows
          /\ req' = [req EXCEPT ![r] = With(req[r], "finding", req[r].token.participant)]
      BY <1>3, <2>2 DEF FetchParticipant, Quiet, With
    <3>2. /\ req[r].token \in Tokens /\ req[r].token.participant # None
          /\ req[r].token.participant[1] = req[r].user
          /\ req[r].token.participant \in Participants
      <4>1. req[r].token \in held /\ req[r].user = req[r].token.sub
        BY <1>0, <3>1 DEF Sound, Authenticating
      <4>2. req[r].token.participant \in Participants
        BY <3>1 DEF Inv, TablesSound, Participants
      <4>. QED
        BY <4>1, <4>2, NoneAssumption DEF Inv, TablesSound, Grounded, Participants
    <3>3. Sound(With(req[r], "finding", req[r].token.participant),
                users, rows, held, signedOut, dropped)
      <4>1. req[r] \in Records /\ "finding" \in Places
        BY <1>0 DEF Sound, Places
      <4>. QED
        BY <1>0, <3>1, <3>2, <4>1, WithParticipant DEF Sound, Through, Authenticating
    <3>. QED
      BY <3>1, <3>3, GoesOn
  <2>. QED
    BY <2>1, <2>2
<1>4. CASE FindUser(r)
  <2>1. CASE Finish(r)
    BY <1>4, <2>1, RefuseKeeps DEF FindUser, Refuse
  <2>2. CASE ~Finish(r)
    <3>1. /\ req[r].at = "finding" /\ Quiet /\ UNCHANGED asked
          /\ req[r].user \in users /\ req[r].kind # "me"
          /\ Move(r, Handler(req[r].kind))
      BY <1>4, <2>2 DEF FindUser, Quiet
    <3>2. req[r].kind \in {"refresh", "signout", "create", "update"}
      BY <1>0, <3>1 DEF Sound, Records, Kinds, Authenticating
    <3>3. \E l \in {"lookup", "leaving", "creating", "updating"} :
            /\ Handler(req[r].kind) = l
            /\ l = "lookup" => req[r].kind = "refresh"
            /\ l = "leaving" => req[r].kind = "signout"
            /\ l = "creating" => req[r].kind = "create"
      BY <3>2 DEF Handler
    <3>4. Sound([req[r] EXCEPT !.at = Handler(req[r].kind)],
                users, rows, held, signedOut, dropped)
      BY <1>0, <3>1, <3>3 DEF Sound, Records, Places, Through, Authenticating
    <3>. QED
      BY <3>1, <3>4, GoesOn DEF Move
  <2>. QED
    BY <2>1, <2>2
<1>. QED
  BY <1>1, <1>2, <1>3, <1>4 DEF Middleware

----------------------------------------------------------------------------
(* The handlers.                                                           *)

\* A step that only adds to the tables.
LEMMA TablesGrow ==
  ASSUME Inv, UNCHANGED <<now, kv, signedOut, dropped, asked>>,
         users \subseteq users', users' \subseteq Users,
         rows \subseteq rows', rows' \subseteq users' \X Devices,
         held \subseteq held', \A t \in held' \ held : Grounded(t, users', rows'),
         \A t \in held' \ held : t.kind = "refresh" => t.exp <= now + RefreshLifetime,
         RequestsSound'
  PROVE  Inv'
<1>1. \A t \in held' : Grounded(t, users', rows')
  BY DEF Inv, TablesSound, Grounded
<1>2. TablesSound'
  BY <1>1 DEF Inv, TablesSound
<1>3. EntriesKept' /\ EntriesEnd'
  BY DEF Inv, EntriesKept, Blacklisted, EntriesEnd
<1>4. Lifetimes'
  BY DEF Inv, Lifetimes
<1>. QED
  BY <1>2, <1>3, <1>4 DEF Inv

\* A sign-up or a sign-in goes on for a user that exists.
LEMMA SigningKeeps ==
  ASSUME Inv, NEW r \in Requests, InsertUser(r) \/ MatchPassword(r)
  PROVE  Inv'
<1>0. Sound(req[r], users, rows, held, signedOut, dropped)
  BY DEF Inv, RequestsSound
<1>1. CASE InsertUser(r)
  <2>1. Grow /\ req[r].user \in Users /\ users' \subseteq Users
    BY <1>0, <1>1 DEF InsertUser, Grow, Sound, Inv, TablesSound
  <2>2. RequestsSound'
    <3>1. CASE Finish(r)
      BY <2>1, <3>1, FinishSound DEF Inv
    <3>2. CASE Move(r, "signing")
      <4>1. Sound([req[r] EXCEPT !.at = "signing"], users', rows', held', signedOut',
                  dropped')
        BY <1>0, <1>1
        DEF InsertUser, Sound, Records, Places, Through, Authenticating
      <4>. QED
        BY <2>1, <3>2, <4>1, OneChanges DEF Move, Inv, RequestsSound
    <3>. QED
      BY <1>1, <3>1, <3>2 DEF InsertUser
  <2>. QED
    BY <1>1, <2>1, <2>2, TablesGrow DEF InsertUser, Inv, TablesSound
<1>2. CASE MatchPassword(r)
  <2>1. CASE Finish(r)
    BY <1>2, <2>1, RefuseKeeps DEF MatchPassword, Refuse
  <2>2. CASE req[r].user \in users /\ Move(r, "lookup")
    <3>1. Sound([req[r] EXCEPT !.at = "lookup"], users, rows, held, signedOut, dropped)
      BY <1>0, <1>2, <2>2
      DEF MatchPassword, Sound, Records, Places, Through, Authenticating
    <3>. QED
      BY <1>2, <2>2, <3>1, GoesOn DEF MatchPassword, Move, Quiet
  <2>. QED
    BY <1>2, <2>1, <2>2 DEF MatchPassword
<1>. QED
  BY <1>1, <1>2

\* The participant of the context is that of the user on the device.
LEMMA LookUpKeeps ==
  ASSUME Inv, NEW r \in Requests, LookUp(r)
  PROVE  Inv'
<1>. DEFINE u == req[r].user
            p == IF <<u, req[r].device>> \in rows THEN <<u, req[r].device>> ELSE None
<1>0. Sound(req[r], users, rows, held, signedOut, dropped)
  BY DEF Inv, RequestsSound
<1>1. Quiet /\ UNCHANGED asked /\ req' = [req EXCEPT ![r] = With(req[r], "signing", p)]
  BY DEF LookUp, With, Quiet
<1>2. p \in Participants \cup {None}
  BY DEF Inv, TablesSound, Participants
<1>3. p # None => p \in rows /\ p[1] = u
  OBVIOUS
<1>4. req[r].at = "lookup" /\ (req[r].had => p = <<u, req[r].device>>)
  BY <1>0 DEF LookUp, Sound
<1>5. Sound(With(req[r], "signing", p), users, rows, held, signedOut, dropped)
  <2>1. req[r] \in Records /\ "signing" \in Places
    BY <1>0 DEF Sound, Places
  <2>. HIDE DEF p
  <2>. QED
    BY <1>0, <1>2, <1>3, <1>4, <2>1, WithParticipant DEF Sound, Through, Authenticating
<1>. QED
  BY <1>1, <1>5, GoesOn

\* A token is signed for what exists.
LEMMA SignedIsGrounded ==
  ASSUME Inv, NEW r \in Requests, req[r].at \in Through,
         NEW kind \in {"access", "refresh"}, NEW p \in {None, req[r].participant},
         NEW life \in Nat
  PROVE  /\ Grounded(Token(kind, req[r].user, p, life), users, rows)
         /\ Token(kind, req[r].user, p, life).kind = kind
         /\ Token(kind, req[r].user, p, life).exp = now + life
<1>1. Sound(req[r], users, rows, held, signedOut, dropped) /\ now \in Int /\ life \in Int
  BY DEF Inv, RequestsSound, TablesSound
<1>2. /\ req[r].user \in users /\ users \subseteq Users
      /\ p \in Participants \cup {None}
      /\ p # None => p \in rows /\ p[1] = req[r].user
  BY <1>1 DEF Sound, Records, Inv, TablesSound
<1>. QED
  BY <1>1, <1>2 DEF Grounded, Token, Tokens

\* A request that goes on to the second signature with access token a.
WithAccess(q, a) == [q EXCEPT !.at = "signingRefresh", !.access = a]

\* It changes in nothing else.
LEMMA WithAccessToken ==
  ASSUME NEW q \in Records, NEW a \in Tokens
  PROVE  /\ WithAccess(q, a) \in Records
         /\ WithAccess(q, a).at = "signingRefresh" /\ WithAccess(q, a).access = a
         /\ WithAccess(q, a).kind = q.kind /\ WithAccess(q, a).user = q.user
         /\ WithAccess(q, a).device = q.device /\ WithAccess(q, a).token = q.token
         /\ WithAccess(q, a).participant = q.participant
         /\ WithAccess(q, a).after = q.after /\ WithAccess(q, a).had = q.had
  BY DEF WithAccess, Records, Places

\* The first signature keeps the invariant.
LEMMA AccessKeeps ==
  ASSUME Inv, NEW r \in Requests, SignAccess(r)
  PROVE  Inv'
<1>. DEFINE a == Token("access", req[r].user, req[r].participant, AccessLifetime)
<1>0. Sound(req[r], users, rows, held, signedOut, dropped)
  BY DEF Inv, RequestsSound
<1>1. req[r].at = "signing" /\ req[r].at \in Through
  BY DEF SignAccess, Through
<1>2. Grounded(a, users, rows) /\ a.kind = "access"
  BY <1>1, SignedIsGrounded, LifetimesAssumption
<1>3. CASE req[r].kind = "refresh"
  <2>1. Finish(r) /\ held' = held \cup {a}
        /\ UNCHANGED <<now, users, rows, kv, asked, signedOut, dropped>>
    BY <1>3 DEF SignAccess
  <2>. HIDE DEF a
  <2>2. RequestsSound'
    BY <2>1, FinishSound DEF Inv, Grow
  <2>. QED
    BY <1>2, <2>1, <2>2, TablesGrow DEF Inv, TablesSound
<1>4. CASE req[r].kind # "refresh"
  <2>1. Quiet /\ UNCHANGED asked /\ req' = [req EXCEPT ![r] = WithAccess(req[r], a)]
    BY <1>4 DEF SignAccess, Quiet, WithAccess
  <2>. HIDE DEF a
  <2>2. Sound(WithAccess(req[r], a), users, rows, held, signedOut, dropped)
    <3>1. req[r] \in Records /\ a \in Tokens
      BY <1>0, <1>2 DEF Sound, Grounded
    <3>. QED
      BY <1>0, <1>1, <1>2, <3>1, WithAccessToken DEF Sound, Through, Authenticating
  <2>. QED
    BY <2>1, <2>2, GoesOn
<1>. QED
  BY <1>3, <1>4

\* The second signature keeps the invariant.
LEMMA RefreshKeeps ==
  ASSUME Inv, NEW r \in Requests, SignRefresh(r)
  PROVE  Inv'
<1>. DEFINE t == Token("refresh", req[r].user, None, RefreshLifetime)
<1>1. Grounded(t, users, rows) /\ t.exp = now + RefreshLifetime
  BY SignedIsGrounded, LifetimesAssumption DEF SignRefresh, Through
<1>2. Grounded(req[r].access, users, rows) /\ req[r].access.kind = "access"
  BY DEF SignRefresh, Inv, RequestsSound, Sound
<1>3. Finish(r) /\ held' = held \cup {req[r].access, t}
      /\ UNCHANGED <<now, users, rows, kv, asked, signedOut, dropped>>
  BY DEF SignRefresh
<1>. HIDE DEF t
<1>4. RequestsSound'
  BY <1>3, FinishSound DEF Inv, Grow
<1>5. now + RefreshLifetime <= now + RefreshLifetime
  BY LifetimesAssumption DEF Inv, TablesSound
<1>. QED
  BY <1>1, <1>2, <1>3, <1>4, <1>5, TablesGrow DEF Inv, TablesSound

\* A sign-out writes an entry that has expired when it is written: what is left of the
\* token's life, taken as seconds less milliseconds, is below zero.
LEMMA BlacklistKeeps ==
  ASSUME Inv, NEW r \in Requests, Blacklist(r)
  PROVE  Inv'
<1>. DEFINE t == req[r].token
            e == [token |-> t, expires |-> now * 1000 + ExpireIn(t)]
<1>0. Sound(req[r], users, rows, held, signedOut, dropped) /\ req[r].at = "leaving"
  BY DEF Inv, RequestsSound, Blacklist
<1>1. t \in held /\ t.kind = "refresh" /\ t \in Tokens
  BY <1>0 DEF Sound, Inv, TablesSound, Grounded
<1>2. ExpireIn(t) = 0
  <2>1. /\ t.exp \in Int /\ now \in Int /\ Start \in Int /\ RefreshLifetime \in Int
        /\ t.exp <= now + RefreshLifetime /\ RefreshLifetime <= 999 * Start
        /\ Start <= now
    BY <1>1, ClockAssumption, LifetimesAssumption DEF Inv, Lifetimes, TablesSound, Tokens
  <2>. HIDE DEF t
  <2>2. t.exp - now * 1000 <= 0
    BY <2>1
  <2>. QED
    BY <2>1, <2>2 DEF ExpireIn
<1>3. /\ Finish(r) /\ kv' = {f \in kv : f.token # t} \cup {e}
      /\ signedOut' = signedOut \cup {t}
      /\ UNCHANGED <<now, users, rows, held, asked, dropped>>
  BY DEF Blacklist
<1>4. now * 1000 \in Int /\ e = [token |-> t, expires |-> now * 1000]
  BY <1>2 DEF Inv, TablesSound
<1>5. e.token = t /\ e.expires = now * 1000 /\ e \in [token : Tokens, expires : Int]
  BY <1>1, <1>4
<1>. HIDE DEF e, t
<1>6. RequestsSound'
  BY <1>3, FinishSound DEF Inv, Grow
<1>7. TablesSound'
  BY <1>1, <1>3, <1>5 DEF Inv, TablesSound
<1>8. EntriesKept'
  BY <1>3, <1>5 DEF Inv, EntriesKept, Blacklisted
<1>9. Lifetimes' /\ EntriesEnd'
  BY <1>3, <1>4, <1>5 DEF Inv, Lifetimes, EntriesEnd
<1>. QED
  BY <1>6, <1>7, <1>8, <1>9 DEF Inv

\* A participant is that of the user on the device.
LEMMA CreateKeeps ==
  ASSUME Inv, NEW r \in Requests, CreateParticipant(r)
  PROVE  Inv'
<1>1. req[r].user \in users /\ req[r].device \in Devices
  BY DEF CreateParticipant, Inv, RequestsSound, Sound, Through
<1>2. /\ rows' = rows \/ rows' = rows \cup {<<req[r].user, req[r].device>>}
      /\ Finish(r) /\ UNCHANGED <<now, users, kv, held, asked, signedOut, dropped>>
  BY DEF CreateParticipant
<1>3. rows \subseteq rows' /\ rows' \subseteq users \X Devices
  BY <1>1, <1>2 DEF Inv, TablesSound
<1>4. RequestsSound'
  BY <1>2, <1>3, FinishSound DEF Inv, Grow
<1>. QED
  BY <1>2, <1>3, <1>4, TablesGrow DEF Inv, TablesSound

----------------------------------------------------------------------------
(* Around the requests.                                                    *)

\* Time passes: what is left of a life only shrinks.
LEMMA TickKeeps ==
  ASSUME Inv, Tick
  PROVE  Inv'
<1>1. /\ now' = now + 1 /\ UNCHANGED <<users, rows, kv, held, req, asked, signedOut, dropped>>
      /\ now \in Int /\ Start \in Int /\ RefreshLifetime \in Int
  BY ClockAssumption, LifetimesAssumption DEF Tick, Inv, TablesSound
<1>2. RequestsSound'
  BY <1>1, NoneChanges DEF Inv, Grow
<1>3. TablesSound' /\ EntriesKept'
  BY <1>1 DEF Inv, TablesSound, EntriesKept, Blacklisted
<1>4. Lifetimes'
  BY <1>1 DEF Inv, TablesSound, Grounded, Tokens, Lifetimes
<1>5. EntriesEnd'
  BY <1>1 DEF Inv, TablesSound, EntriesEnd
<1>. QED
  BY <1>2, <1>3, <1>4, <1>5 DEF Inv

\* An entry that is dropped is remembered as such.
LEMMA DropKeeps ==
  ASSUME Inv, KvDrops
  PROVE  Inv'
<1>1. PICK e \in kv : kv' = kv \ {e} /\ dropped' = dropped \cup {e.token}
  BY DEF KvDrops
<1>2. UNCHANGED <<now, users, rows, held, req, asked, signedOut>>
  BY DEF KvDrops
<1>3. RequestsSound'
  BY <1>1, <1>2, NoneChanges DEF Inv, Grow
<1>4. TablesSound' /\ EntriesKept'
  BY <1>1, <1>2 DEF Inv, TablesSound, EntriesKept, Blacklisted
<1>5. Lifetimes' /\ EntriesEnd'
  BY <1>1, <1>2 DEF Inv, Lifetimes, EntriesEnd
<1>. QED
  BY <1>3, <1>4, <1>5 DEF Inv

----------------------------------------------------------------------------
(* The theorems.                                                           *)

\* The invariant holds at the start.
LEMMA InitKeeps == Init => Inv
<1>. SUFFICES ASSUME Init PROVE Inv
  OBVIOUS
<1>1. TablesSound /\ EntriesKept /\ Lifetimes /\ EntriesEnd
  BY ClockAssumption DEF Init, TablesSound, EntriesKept, Lifetimes, EntriesEnd
<1>2. Idle \in Records
  BY IdleSound DEF Sound
<1>3. RequestsSound
  BY <1>2, IdleSound DEF Init, RequestsSound
<1>. QED
  BY <1>1, <1>3 DEF Inv

\* Every step keeps it.
LEMMA NextKeeps == Inv /\ [Next]_vars => Inv'
<1>. SUFFICES ASSUME Inv, [Next]_vars PROVE Inv'
  OBVIOUS
<1>1. ASSUME NEW r \in Requests, Arrivals(r) PROVE Inv'
  BY <1>1, ArrivalKeeps
<1>2. ASSUME NEW r \in Requests, Middleware(r) PROVE Inv'
  BY <1>2, MiddlewareKeeps
<1>3. ASSUME NEW r \in Requests, Handlers(r) PROVE Inv'
  <2>1. CASE InsertUser(r) \/ MatchPassword(r)
    BY <2>1, SigningKeeps
  <2>2. CASE LookUp(r)
    BY <2>2, LookUpKeeps
  <2>3. CASE SignAccess(r)
    BY <2>3, AccessKeeps
  <2>4. CASE SignRefresh(r)
    BY <2>4, RefreshKeeps
  <2>5. CASE Blacklist(r)
    BY <2>5, BlacklistKeeps
  <2>6. CASE CreateParticipant(r)
    BY <2>6, CreateKeeps
  <2>7. CASE UpdateParticipant(r) \/ Fails(r)
    BY <2>7, RefuseKeeps DEF UpdateParticipant, Fails, Refuse
  <2>. QED
    BY <1>3, <2>1, <2>2, <2>3, <2>4, <2>5, <2>6, <2>7 DEF Handlers
<1>4. CASE Tick
  BY <1>4, TickKeeps
<1>5. CASE KvDrops
  BY <1>5, DropKeeps
<1>6. CASE UNCHANGED vars
  <2>1. RequestsSound'
    BY <1>6, NoneChanges DEF vars, Inv, Grow
  <2>. QED
    BY <1>6, <2>1, QuietKeeps DEF vars, Quiet, Inv, TablesSound
<1>. QED
  BY <1>1, <1>2, <1>3, <1>4, <1>5, <1>6 DEF Next

\* It is an invariant of the specification.
LEMMA Always == Spec => []Inv
  BY InitKeeps, NextKeeps, PTL DEF Spec

\* Every variable keeps to its type, participants are of users, and a token is only given
\* to a user that has signed up.
THEOREM TypeCorrect == Spec => []TypeOK
<1>1. Inv => TypeOK
  <2>. SUFFICES ASSUME Inv PROVE TypeOK
    OBVIOUS
  <2>1. held \in SUBSET Tokens /\ \A t \in held : t.sub \in users
    BY DEF Inv, TablesSound, Grounded
  <2>. QED
    BY <2>1 DEF Inv, TablesSound, RequestsSound, Records, TypeOK
<1>. QED
  BY <1>1, Always, PTL

\* The participant that a handler works on is one of the user that the token was checked
\* for, in whatever order requests, sign-ups and the creation of participants interleave.
THEOREM ContextAlwaysAgrees == Spec => []ContextAgrees
<1>1. Inv => ContextAgrees
  BY DEF Inv, RequestsSound, Sound, ContextAgrees
<1>. QED
  BY <1>1, Always, PTL

\* A token asked for after the participant was created names it, which is what the setup
\* of the prekey bundle relies on.
THEOREM NewTokenAlwaysNames == Spec => []NewTokenNamesParticipant
<1>1. Inv => NewTokenNamesParticipant
  BY DEF Inv, RequestsSound, Sound, NewTokenNamesParticipant
<1>. QED
  BY <1>1, Always, PTL

\* A request that comes after the sign-out of its refresh token gets through the middleware
\* only if the KV store has dropped the entry, however many requests are on their way.
THEOREM SignedOutStaysOut == Spec => []SignedOutWhileKept
<1>1. Inv => SignedOutWhileKept
  <2>. SUFFICES ASSUME Inv, NEW r \in Requests, req[r].after,
                       Secret(req[r].kind) = "refresh", req[r].at \in Through
                PROVE  req[r].token \in dropped
    BY DEF SignedOutWhileKept
  <2>1. req[r].kind \in {"refresh", "signout"}
    BY DEF Secret
  <2>. QED
    BY <2>1 DEF Inv, RequestsSound, Sound, Through
<1>. QED
  BY <1>1, Always, PTL

\* The entry of a sign-out has expired when it is written, whatever the lifetimes: its
\* expireIn is the rest of the token's life in seconds less the time in milliseconds.
THEOREM EntriesEndAtOnce == Spec => []EntriesEnd
<1>1. Inv => EntriesEnd
  BY DEF Inv
<1>. QED
  BY <1>1, Always, PTL
=============================================================================
