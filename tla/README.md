# Nerdhub chat CLI prototype: specification and proofs

TLA+ models of the client, the server and the core libraries of this repository,
TLC configurations that check them on small instances, and TLAPS proofs that hold
for every instance. Paths below are relative to `src/`. `PROJECT.json` names, for
each definition, the source lines it translates.

    tlc -workers 2 -config PreKeySetupOne.cfg MCPreKeySetup     # model-check
    tlapm PreKeySetupProofs.tla                                 # check proofs

Modelled, checked and proved about: the prekey bundle setup, the client's screens
and key files, the server's one-time prekey table under concurrency, its tokens, its
router with route pathnames, the WebSocket hub with the listeners of a socket, the key
agreement, and the view stack.

## 1. The system

A command line chat client (Deno, SQLite) talks over HTTP to a server (Deno, MySQL,
Deno KV), which also has a WebSocket hub. Messages are to be encrypted end to end
with X3DH: each device publishes a *prekey bundle* (identity key, signed prekey,
signature) and a stock of *one-time prekeys* (OPKs), keeps the private halves in
SQLite under a *local encryption key* that the user keeps in a file, and looks up
the bundles of its peers.

| Component | State it keeps | Operations | Correct when |
|---|---|---|---|
| Prekey bundle setup, `cli/ui/middlewares/setup-prekey-bundle.middleware.ts` | `cliContext` (volatile) | one long async function in front of the chat screens | context, SQLite and server end up with one bundle; marks on disk never claim more than the server has; it can always be run again |
| SQLite repositories, `cli/repository/` | bundle row, OPK rows | create, reset, publish, delete, find | each user has one bundle row; OPK rows are all under one local key |
| API client, `cli/api/`, `cli/helpers/api-fetch.helper.ts` | none | one request per call, no retry; a non-2xx answer throws | nobody relies on a call that was not answered |
| Login, register, local key screens, `cli/ui/`, `cli/commands/` | `cliContext` | prompts, redirects | the setup starts from a complete context |
| CLI router, `cli/router/` | current UI | `navigate` through middlewares | one screen at a time |
| Participant and OPK tables, `server/repository/`, `server/controller/e2ee-*` | MySQL rows | create, update, replace or append OPKs, pop | one participant per device; an OPK is handed out once |
| Authentication, `server/controller/auth.controller.ts`, `server/middlewares/auth-route.middleware.ts` | users, KV blacklist | signup, signin, refresh, signout | a signed-out refresh token is dead |
| HTTP router, `core/router/` | registered entries; per request the `next` states, `params`, `routePathname` | match, strip, forward, sub-routers, error handlers, 408 | each request gets the answer of the first handler that is for it and does not forward; a handler sees the parameters of its own pathname |
| WebSocket hub, `core/socket/server/` | id map, room maps, each socket's rooms, listeners, heartbeat | join, leave, emit, broadcast, close | events go to the members of a room and to nobody else |
| WebSocket endpoint, `server/ws/`, `server/controller/real-time.controller.ts` | none | passes the upgrade on | |
| TUI view stack, `core/view-stack/` | stack of views | push, pop, pop to a depth, replace | there is a view to render, and the depth keeps to the options |
| X3DH, `primitives/x3dh/` | each participant's bundle | create, renew, publish, derive on either side | both sides derive one secret, of signed keys, and another for each session |
| Local encryption, `cli/services/`, `primitives/local-encryption/` | key file | AES-256-CTR | decryption inverts encryption |

How they interact: the setup reads and writes the context, calls the SQLite
repositories synchronously and awaits API calls. An API call is an HTTP request
that goes through the server's router, its authentication middleware, a controller
and a repository. The hub is reached by an upgrade request and from then on by
events of the native socket.

What is hard in it:

* **Three stores, no transaction.** The setup writes SQLite, then awaits the server,
  then writes SQLite and the context. It can die between any two of those, and an
  API call that fails is an unhandled rejection that ends the process.
* **Two processes, one SQLite file.** Nothing keeps a user from starting the CLI twice.
* **Late requests.** A request of a dead process may still be handled.
* **Stale reads.** `is_published` is read before the same run marks the row, and
  `e2eeParticipant` is what the server had at login.
* **Two records of membership** in the hub, of which the close event clears one.
* **Loops that a throw ends**, and listeners that are cleared before they are called.
* **Error paths that commit**, and reads that do not lock, in the MySQL repositories.
* **Check, then act.** `popByParticipantId` reads a row without a lock and deletes it
  later; the key screens look for a file and write it later; the token middleware
  looks at the blacklist, then verifies, then looks for the user.
* **Units and types at a boundary**: seconds and milliseconds in a sign-out, strings and
  numbers in a route's ids.
* **Bundles that age.** An initiator may hold an old bundle, or parts of two; the recipient
  answers with what it has by then.
* **Arrays that are changed while a loop iterates them**: listeners that register listeners.
* **Pathnames that are cut as routers nest**, with a leading slash that one side of the
  comparison has.
* **Nested loops with shared flags** in the router: which `next` state belongs to which
  loop, and what a late or falsy `next(error)` does to it.

## 2. Modules

| Modules | What they are |
|---|---|
| `PreKeySetup`, `MCPreKeySetup`, `PreKeySetupProofs` | the setup, the stores it works on, its user, the server behind the API |
| `ClientSession`; `CliNavigation`, `MCCliNavigation`, `CliNavigationProofs` | what the setup relies on (abstract); the screens, redirects and key files |
| `OnetimePreKeyPool`; `OnetimePreKeyStore`, `MCOnetimePreKeyStore`, `OnetimePreKeyStoreProofs` | a pool of prekeys (abstract); the repository, statement by statement |
| `AuthTokens`, `MCAuthTokens`, `AuthTokensProofs` | tokens, middleware, blacklist |
| `RoutePathname`, `RouteTable`, `HandlerChain`; `RequestRouter`, `MCRequestRouter`, `RequestRouterProofs` | matching pathnames; registered entries; a chain of handlers (abstract); the router's loops |
| `RoomService`; `SocketHub`, `MCSocketHub`, `SocketHubProofs` | what a hub promises (abstract); the WebSocket hub |
| `X3DH`, `X3DHProofs` | prekey bundles and the secrets derived from them |
| `SocketListeners`; `ViewStack`; `MCLibraries`, `LibrariesProofs` | the listeners of one socket; the view stack; an instance of both beside `X3DH` |

The four abstract modules are what their users count on: each detailed module is
shown to implement its own (`Implements...`).

### PreKeySetup

One user, one device, a set `Procs` of client processes on one SQLite file.

| Variable | In the code |
|---|---|
| `bundle` | row of `e2ee_participant_prekey_bundles`: which bundle, under which local key, `is_published` |
| `opks` | rows of `e2ee_participant_onetime_prekeys`; ids are `<<batch, index>>` |
| `participant` | identity key in the server's participant row (0: no row) |
| `stock`, `taken` | the server's OPK table, and the ids that peers were handed |
| `req`, `rep`, `late` | calls on their way, answers, requests whose sender has died |
| `pc`, `ctx`, `held` | where a process stands, its `cliContext`, its local variable `prekeyBundle` |
| `fresh` | numbers the generated keys (also the order of `created_at`) |
| `alone`, `torn`, `lost`, `mishaps` | history, only read by properties and bounds |

*Grain.* JavaScript runs to the next `await`, and `DatabaseSync` calls block, so a
process can be interleaved with another process, or die, only between two SQLite
statements or at an await. A step goes from one of those points to the next.
A server handler is one step, the `findById` after its UPDATE included.

*Keys.* A generated bundle is a number. A row stores the local key it was encrypted
under. `Decrypts(row, k)` is equality of keys: with AES-256-CTR a foreign key yields
random bytes, which are no DER key, so `createPrivateKey` throws. (The value that
`verifyX25519KeyPair` returns is not looked at; only the throw counts.)

*User.* `Login` stands for every way to get a user into the context. The login and the
registration screen set `e2eeParticipant` from the server's answer. Both flags leave it null
(`viaFlags`): the credentials of `cli/commands/index.command.ts:95` do not read it, and the
JWT of `:98` asks `/auth/me`, whose route does not have the participant looked up
(`server/routes/auth.routes.ts:29`, `server/middlewares/auth-route.middleware.ts:71`). A JWT
may be older than the participant, and then does not name it.

*Server.* The model is the server the CLI is written for. At this commit the two
halves do not meet: the CLI posts to paths, and omits a header, that the server's
routes do not accept, no participant route can be reached at all (finding 3), and the
comparison of ids would refuse the request (section 5). The model is of what is behind.
Where it matters to the setup, both are in the model: for a new access token the client
sends its old one (`cli/api/auth.api.ts:50`) to a route that the server does not have, and
the server's `/refresh-token` takes refresh tokens only. So the request may be answered or
refused (`Answers`), and a setup that is refused ends there and is run again.
What the model takes from the server is its controllers and repositories: which
statements a request executes, and when it is refused.

*Peers.* `PeerTakes` is `popByParticipantId`, which has no caller yet. It is kept
because the OPK stock exists for it.

### CliNavigation and ClientSession

Every screen of `cli/ui/`, with what it leaves in `cliContext` and in key files.

* `navigate()` renders the next screen and then throws, so the screen that called it
  is over: a process has one screen (`ui[p].screen`). Of `params`, only `from` and the
  key path matter; the login and register routes drop them.
* `EnterChats` is the chats route with its three middlewares. `setupPreKeyBundle` is the
  outermost and goes back to the menu if there is no user or no key. So the redirects
  of the two middlewares inside it, and the return from the key screens to the chats
  (`cli/ui/local-key-manager.store.ui.ts:111`), never happen:
  `NobodyIsSentBack`.
* A key screen looks for the file (`Store`), asks, and writes later (`Write`). Another
  process of the device can write in between.
* One `try` with an empty `catch` is around the look at the file and both questions
  (`:68-92`). `GoOn` is what follows if one of them throws: a new key is written, whatever
  was there. It can throw at statSync for any reason but that there is no file (that is
  `Store`), and at either question.
* `givenUp`, `unasked` and `raced` are history: the keys that someone agreed to override,
  those in a file for which `GoOn` was taken, and those written while another process had
  already looked at the same file (`Storing`).
* A write that fails, a prompt that throws elsewhere, or a key that is not readable ends
  the process (`End`), as nothing catches it.
* `ui/chats` is a stub without a prompt: a process there can only end.
* `ClientSession` is what `PreKeySetup` takes for granted of its user: the chats are
  entered with a user and a key, neither changes there, and a user stays the same until
  the process ends. `BackToMenu` of `PreKeySetup` is for chat screens that
  lead back, which the stub does not have yet.

### OnetimePreKeyStore and OnetimePreKeyPool

Concurrent calls of `createManyByParticipantId` and `popByParticipantId` for one
participant (rows of different participants are apart by key).

* `pc[r]` is the statement a request is at, `deleted`, `inserted` and `flushed` what its
  open transaction has done and holds, `rows` what is committed. `queue` has requests
  that wait for one of `Limit` connections.
* MySQL is external: InnoDB, repeatable read. A SELECT takes no lock. A DELETE or INSERT
  waits for those who hold its rows. The DELETE of a flush holds the range even if it
  finds nothing, two such wait for each other at their INSERT, and InnoDB rolls one
  back. A pop's DELETE holds only its own id.
* "Oldest row" is any row: the order of `created_at` of one batch is not determined.
* `Begin` of a creation is before its `try` (`:32`), `Begin` of a pop within. `Catch` is the
  catch block: COMMIT, release, throw. `release()` stands behind an `await` on every path,
  so what throws past it (`ThrowsPastRelease`: that `Begin`, or the COMMIT in the catch)
  leaves a connection that nobody gives back ("leaked"), with its transaction open or not.
* `StatementFails`: a statement in the `try` fails; a COMMIT that does has rolled back, or
  left the transaction open for the COMMIT of the catch. `ConnectionLost`: every call on the
  connection throws, the rows of a COMMIT may be there all the same, and whether the pool
  replaces the connection is left open. `LockWaitTimesOut` undoes the statement that waited,
  not its transaction. `NoConnection`: the pool hands out none.
* `OnetimePreKeyPool`: a batch enters as a whole or not at all, with or without replacing
  what was there; a replacement that fails may leave nothing; a pop is handed an id that
  the pool had when it looked. An error may hide that the request was carried out (a lost
  answer to a COMMIT, or the COMMIT of the catch). It does not promise that an id is handed
  out once: two pops that overlap may read one row, and the DELETE of the second deletes
  nothing, which is not looked at.
  `HandedTwiceOnlyIfOverlapping` is what holds instead. `popByParticipantId` has no
  caller at this commit.

### AuthTokens

Requests to the auth routes and to the participant routes behind the middleware, each
going from await to await, with the clock and the KV store in between.

* A token is its claims (`kind`, `sub`, `participant`, `exp`): HS256 is deterministic, and
  `iat` follows from `exp`. Two sign-ins in one second get the same refresh token.
  Signatures and password hashes are assumed to do their work.
* `kv` has blacklist entries with the time they expire. `KvDrops` may drop one that has
  expired, at any later time, as Deno KV does. Controller and middleware have a connection
  each, to one file.
* `ParamTypes` is what `req.params` has. It is `"string"` in this code; `"number"`, the
  type the decorators were written for, lets the checks see what is behind them. Runs
  whose property does not depend on it allow both.
* `UpdateParticipant` goes up to the id match; what follows is in `PreKeySetup` and
  `OnetimePreKeyStore`. `Fails` is a database or KV call that throws.

### RequestRouter, RoutePathname, RouteTable and HandlerChain

One request in the loops of `core/router/`; requests share nothing but the entries.

* `RoutePathname`: a pathname is a sequence of segments, and the regular expression that
  `getRoutePathnameRegExpPattern` builds of a route pathname stands for what it accepts.
  A slot (`:id`) takes one segment of `[a-zA-Z0-9+=*&_-]+` (`Plain`), a wildcard any number;
  any other segment, such as `a.b`, only ever equals a literal. Literals are plain words, as
  all of the server's are: the code does not escape them, so a `.` in one would match more.
  What is left of a pathname for a sub-router begins with a slash, the empty segment. Full
  matches normalize that slash away; `Strip`, the match of the part in front of the
  wildcard, does not.
* `RouteTable`: entries in their order of registration, each of a router, with its method,
  its pathname, how many functions it has, whether it is an error handler and what is
  mounted behind it. Entries are registered at startup and do not change.
* An entry's own pathname is matched with what its frame was handed (`rest`); its groups are
  added to the parameters of the mount (`above`). What that should come to is the match of
  the pathnames of all mounts and the entry, one behind the other (`Located`), with the
  whole request pathname: `HandlerChain` and `ParamsBelong` are in these terms. `Above` is
  the mount right above an entry, and `Pathnames`, `Segments` and `Parameters` are
  functions on the entries that recur to it.
* A call of `channelRequestThroughRequestHandlers` is a frame of `stack`: its two loop
  counters, its `nextFnState` and its arguments. A sub-router's frame is on top of the
  frame that awaits it.
* Handlers are any code: return something or nothing, throw, call `next` with or without
  an error, never come back, or call `next` after they have come back (`LateNext`). None
  throws null or undefined. An aborted request waits and ends as with the timer.
* `HandlerChain` has no routers and no loops: handlers in a row, an error looking for
  the next error handler. It says of falsy errors what the code does with them: the
  remaining functions of the entry are called and the error is forgotten; at the end of
  an entry it counts.

### SocketHub and RoomService

One action for each operation of `ServerSocket` and `ServerIO` and for each native
event. The server is single threaded, no operation awaits, and the default gossip
relay dispatches within `emit`, so every call is one step. The application is
arbitrary: any accepted socket may do anything at any time, also after its close, as
an asynchronous handler that holds its `ServerSocket` can.

* `rooms[s]` (the socket's array, as a set: a name that is twice in the array is
  filtered out at once by leave) and `members[r]` (the hub's Map) are two records of
  one relation. `before[r]` is the Map's order of insertion, which decides who is
  reached when a `send` throws.
* `Reached` is the delivery loop. `send()` of a socket that is not open throws; the
  loop has no catch; `dispatchEvent` reports the exception instead of rethrowing
  it. Deno may end the process on a reported exception: the model has the
  better case, in which the server goes on.
* `Close` has the listeners of the close event in their order: the list of close
  listeners is emptied, then iterated.
* A request that is no upgrade is answered with 501 and changes nothing: no action.
* `RoomService` has the pairs of connection and room and who was handed what. It
  does not promise that every member gets an event, because the code does not
  keep that (section 3, `hub_loss`).

### X3DH

* Keys are symbolic: a key pair is a number, an output of Diffie-Hellman the set of the two
  pairs that went into it (which is why both sides can compute it), the derived secret the
  sequence of its outputs. Whoever generates a pair gets a fresh number.
* The initiator's bundle comes from a server that is not in `primitives/`: `Offers` lets it
  be any combination of parts the recipient has published, with or without a one-time
  prekey. `deriveSecretKeyWithRecipient` throws if the signature does not fit.
* `Initiate` and `Answer` are the library's callers. At this commit these are its test and
  the seed; the header `onetimePreKeyId` of `primitives/x3dh/x3dh.d.ts:224` is not read,
  so the recipient uses the one one-time prekey its bundle object has. The server's side of
  that is `popByParticipantId` in `OnetimePreKeyStore`.

### SocketListeners and ViewStack

* `SocketListeners`: the arrays of one `ConcreteServerSocket`, and the `for...of` loops of
  the native `open` and `message` listeners. A loop does not await, so only the listener it
  calls acts during it; it may register listeners, on the same array too (`for...of` then
  reaches them), and throw. A throw of a message listener is caught, a throw of an open
  listener leaves the loop. `NoEvent` is a message that does not parse (the exception leaves
  the native listener, and the model goes on, as in `SocketHub`) or is no event: nobody is
  called. Close listeners are in `SocketHub`, which has all sockets.
* `ViewStack`: one action for each action a rendered view can return. Any view may ask for
  anything, any depth included; a `maxDepth` of 0 or less only keeps pushes out.
* `MCLibraries` is one instance of three libraries that have nothing to do with each other:
  a behaviour is one of the three.

## 3. Runs

| Run | Instance | Shows |
|---|---|---|
| `setup_one` | 1 process, 2 local keys, batch 2, threshold 1, 3 mishaps, 1 OPK taken, fair | marks, offers and refusals (below); the user gets through |
| `setup_pair` | 2 processes, 2 local keys, batch 1, threshold 0, late requests, 1 mishap | a setup that runs alone repairs what two processes and late requests left |
| `screens` | 2 processes, 2 users, 1 other path, 3 keys, 2 starts | when a key in use may leave its file; dead redirects; refinement of `ClientSession` |
| `store` | 3 requests of any kind on 2 connections, batches {a1, a2} and {b1}, 2 faults, fair | locks, refinement of `OnetimePreKeyPool`, when an OPK is handed out twice; every call returns, until all connections have leaked |
| `auth` | 2 users, 1 device, 2 requests at a time, 3 in all, 3 seconds | whose participant a token names; when a signed-out token is refused |
| `auth_signout` | the same | **violated**: a signed-out token is dead |
| `router` | all tables of up to 4 entries of 12 kinds over 2 routers, two of 3 routers, the routes of `server/server.ts`, each with a few requests; truthy and falsy errors, 1 late `next`, fair | order, parameters, refinement of `HandlerChain`; a request whose handlers come back is answered |
| `router_nested` | the routes of `server/server.ts`, an upload of OPKs | **violated**: a sub-router is handed what its mount left |
| `hub` | 3 sockets, 2 rooms, 1 listener, 1 event | both records of membership agree; who gets an event; refinement of `RoomService` |
| `hub_loss` | 2 sockets, 1 room | **violated**: an open member misses an event |
| `hub_close` | 1 socket, 1 listener | **violated**: close listeners are not called |
| `libs` | 2 participants, 8 pairs, 2 sessions; 3 callbacks, 2 events, 2 messages; 2 views, depths 0 to 3, maximum 0, 1 or 4 | which secrets agree, are fresh, were signed for; every listener is called; there is a view |

*What `setup_one` shows.* A row marked as published is what the server hands out
(`PublishedIsServed`, `PublishedOPKsWereOffered`), at each point and after a death at
each point. While a chat screen is open the server offers only OPKs whose private
half is on disk (`OfferedOPKsAreHeld`), but for one window: a process that dies
between clearing the rows (`:248`) and storing the new ones leaves offers nobody
can use until the next setup. No upload is refused (`NoUploadIsRefused`): the flush
of `:287` makes repeated uploads safe. The price is what `OfferedOnce` excepts: an OPK that
a peer took may be offered again if the process that uploaded it died before it had the
answer (`lost`), as its row is then unmarked and sent again. No other upload does that: not
a replenishment, a new local key, or a first setup behind a login by flags, and however many
of these follow on each other.
`OnlyFlagsMeetRefusal` and `IdentityIsKept` say that the one way to have the creation
refused, and to lose a good bundle, is a login by a flag, credentials or JWT: it leaves
`e2eeParticipant` null, the setup deletes the bundle and asks for a participant that exists.

*What `screens` and `store` except.* Both state what the code keeps and name what it
does not. `KeysAreKept` excepts three kinds of keys, and only the first was anybody's choice;
the other two are lost to the empty catch (section 5) and to a race. `EveryRequestReturns` has the condition
that not all connections have leaked. It is not for nothing: with one of two leaked, and its
transaction still holding rows or the range, the others get through, as their wait for
locks ends with an error. With all leaked nobody is served any more, for the queue has no limit
(`server/database/db.pool.ts:45`).

*Single process only.* `PublishedIsServed` to `OfferedOnce` do not hold with two
processes or late requests, and the code has nothing that would make them: the
last writer wins on either side. What holds with both is `LoneSetupAgrees`.

*Bounds.*

* Setup. Two local keys are the least for which a key can be the wrong one. A batch of 2
  with threshold 1 keeps the order `Threshold < BatchSize` of the code (10 and 100),
  without which each start would replenish; 2 OPKs are the least for which "the latest
  row" and "all rows" differ. Three mishaps are a death, a recovery that dies as well,
  and one login by flags. In the pair a mishap is needed for a late request, and one is
  enough for each setup to start from whatever the other left. Fresh keys are only
  generated behind a login, so processes are bounded by their deaths.
* Screens. Two processes race for a file, two users for a device; a third key is one
  that overwrites a key that was raced itself. Two starts are two processes at a time, or
  one that comes back to its key.
* Store. Three requests on two connections are the least where one waits for a
  connection while two wait for each other's rows. The batches are an upload, its
  repetition with a flush, and another batch. Two faults are a statement and the COMMIT in
  its catch, or two leaked connections of two. `JobsInOrder` keeps one of the instances that
  differ only by which request has which job; jobs never change, so it cuts no behaviour short.
* Tokens. Sign-in, sign-out, refresh is the shortest chain that misuses a token; two at a
  time interleave within the middleware. Three seconds are enough for an access token
  of one second and a refresh token of two to expire. Nothing in the code depends on
  the distance of times but which comes first, and the unit of `Start`, for which the
  assumption on the clock is proved to be enough (section 4).
* Router. Four entries put a sub-router between handlers and an error handler behind it
  on either level. The kinds are mounts at a literal, a slot, a wildcard and "/", and routes
  with a literal, a slot or a wildcard; the requests have one to three segments, one with
  a segment that is not plain. The server's own table is nested three deep. `ShadowTable`
  has a wildcard with the name of a slot above it: the one further down prevails, so the
  parameters are not those of the whole pathname matched at once (where a slot prevails over
  the wildcard at its end), but those of each part at its place (`Parameters`). `ParamsBelong`
  and the refinement leave out requests that come to a mount below a mount which has
  something to take (`NothingToTakeBelow`): what happens there is finding 3. Of the server's
  own routes those are the ones at and below `/api/users/:userId/e2ee_participants`; its other
  requests are in, though the table has such mounts.
* Hub. Events do not read earlier events, so one is enough; three sockets put one in
  front of, and one behind, a socket that fails.
* Libraries. Eight pairs are two bundles of three (or one and its renewals) and two ephemeral
  ones, so a recipient can answer with a bundle that is newer than the offer in each
  part. Three callbacks are one that registers, one that is registered during a loop, and
  one behind it. A maximum of 4 is above every depth asked for, 0 and 1 are at the edge.

*Symmetry.* `setup_pair`, `hub`, `screens`, `auth` and `auth_signout` identify instances
that differ by a permutation of model values that nothing in the module tells apart. None of
them checks liveness.

*Fairness.*

* `PreKeySetup!FairSpec`: a process goes on while it can and the server answers (weak
  fairness of `Setup` and `ServerHandles`: an event loop and a server that is up). Of the
  user: whoever is out logs in by the screen, whoever has a key opens the chats, and
  whoever is asked again and again does not always choose "Exit" (strong fairness of
  `ResetAtPrompt`, because the prompt comes and goes). Deaths and flag logins are not
  fair and are bounded, as they would have to cease.
* `OnetimePreKeyStore!FairSpec`: the database executes a statement whose locks are free,
  resolves deadlocks and ends waits for locks (InnoDB does, after 50 s by default), and the
  pool serves its queue in order while it has connections (weak fairness of each `Step` and
  of `Connect`). Arrivals and faults are not fair.
* `RequestRouter!SettlingSpec`: the event loop runs the router's steps and the timer, and
  handlers come back. The second is an assumption about handlers, which the code needs
  as well: `core/router/app-router.ts:61` starts the timer only when they have come back.

## 4. Proofs

Assumptions are those that the modules name: sentinels are not values, sizes and depths
are numbers, batches are not empty, jobs are jobs, a slash is not in a segment, the first
view is a view, and for one theorem that the clock is past 1970 by a thousandth of a
token's life. Nothing is assumed about finiteness: any number of processes, sockets, rooms,
requests, connections, ids, users, routes, views or listeners. One group of theorems has a
hypothesis of its own, `OneProcess` (below). The inductive invariants of the setup, the
screens, the router, the libraries and `HandedInv` also hold on the instances of the runs,
by TLC.

**PreKeySetupProofs.** `TypeCorrect` is `TypeOK`. `LoneSetupAgreement` is that a
setup which ran alone leaves one published bundle in context, row and server.
It is not inductive: it says nothing while the setup is under way. `LoneSetupInv`
adds (a) that a process has a call only where it awaits one, so a lone process
finds no answer of somebody else; (b) that a row has a key; (c) for a lone
process, by its place, how far the three stores agree: nothing known before
the setup but the participant of the context (`BeforeSetup`), the row is what was
sent between sending and answer (`SendingHeld`), all three agree from the mark on
(`HeldIsServed`). `Lone` also has that no other process is on and no request is
left over, which a login of another process ends by clearing `alone`. The
proof has a lemma for each group of actions and one for the steps of the server.

`LoneSetupAlwaysUnlocks` is for any number of processes too. Its `UnlockInv` adds that
no row is newer than the last key generated (`RowsAreDated`), that a batch is under one key
(`BatchesAreSealed`), and what opens with the local key by the place of a lone process
(`Unlocks`): the bundle once it was looked at, the latest OPK row once it was tried or
replaced.

The eight properties of `setup_one` are proved of any instance in which `OneProcess` holds:
one process, no late requests, `Threshold < BatchSize`. With two processes or a late
request they are false (section 3). In the code the threshold is 10 and the batch 100; were
it the other way round, a start would find too few OPKs, replenish next to published
rows and, if the answer is lost, flush those away on the server, so their marks
would be wrong. Their common invariant `OneInv` is `LoneSetupInv` with: nobody else is
on (`NobodyElse`); the rows are none or one whole batch, under one key, all marked or none
(`RowsAreABatch`); the ids that the server has seen are of batches already generated
(`IdsAreOld`), so a new batch is never refused; what is on offer is on disk but while rows are
being replaced or nothing is marked (`StockIsHeld`); and for each place what the process
knows of the server (`KnowsParticipant`), which rows there are (`RowsByPlace`), what an upload
on its way has to do with both (`UploadFits`), and that unmarked rows which the server has
seen, while none of them is being uploaded, are those of a lost answer (`Unmarked`). `PublishedIsServed` and `OfferedOnce` are conjuncts of it.
A process can die at every one of those places, so the invariant says at each what the
next setup will find. `IdentityIsAlwaysKept` reads off it that whoever replaces a bundle
has found it unpublished, unreadable, or itself without participant. `OfferedOnce` is kept
by the one upload that could break it, that of rows of an earlier setup, because of
`Unmarked`; all others are of a new batch.

**SocketHubProofs.** `ViewsAlwaysAgree` and `NothingUndueEver` are inductive together
with `TypeOK`. `DisciplineNeverLoses` needs that, while the discipline is kept,
every room's members are open, so that the delivery loop never stops
(`OwedAreReached`). `HubImplementsRoomService` maps each action: emits become
`Publish` with the reached sockets as the chosen subset, or `Tell`; a close becomes
`Depart`; listeners, heartbeats and openings stutter.

**OnetimePreKeyStoreProofs.** `HeldByPlace` (what an open transaction has deleted,
inserted and selected, by the statement it is at) and `LocksHold` (whoever has flushed has deleted all
committed rows; what is inserted is not committed, not inserted by another, and not in a
range that another holds) are inductive together with `TypeOK`. A statement runs only
when nobody holds what it touches, and a commit changes only rows its transaction holds:
so what another transaction knows of the rows stays true until its own commit. A
transaction on a leaked connection goes on holding what it holds. `StoreImplementsPool` then
maps the read of a pop to `See`, its commit to `Give`, the commit of a creation to `Offer` or
`Replace`. A catch, or a connection that is lost, is one of these with the answer "error" (a
`Replace` by nothing, if only the flush was done), by what its transaction had done
(`HeldByPlace`), or `Refuse`; what throws past
the release, or finds no connection, is `Refuse`. Every other statement, deadlock and timeout stutters.
`HandedTwiceOnlyToOverlapping` adds `HandedInv`: what a pop has read is what it will answer
if it does not answer with an error, and a prekey that was given out and is nevertheless in
the table, or was read by a call that came later, was to be created by a call that ended since.

**AuthTokensProofs.** The invariant has a part for each request (`Sound`: what has been
established about its token, user and participant at each await) and parts for the
tables. `Sound` of one request survives the steps of all others because `users`, `rows`
and `held` only grow (`TablesGrow`), and a blacklist entry goes only into `dropped`
(`EntriesKept`). `EntriesEndAtOnce` is the cause of finding 4 for every instance: whatever the lifetime,
an entry has expired when it is written, as the argument is seconds less milliseconds.
It needs that a refresh token has at most its lifetime left (`Lifetimes`).

**X3DHProofs.** The inductive invariant (`IInv`) is on who has generated which pair: the
identity pair of a bundle, whoever's, is no session's ephemeral pair, an ephemeral pair is
of one session, a bundle is signed with its own identity pair, and a session keeps what its
bundle said. `SecretsAreAlwaysFresh` reads the ephemeral pair back from the second output of
a secret, {ephemeral, identity}, in which only one of the two can be ephemeral
(`SecretFixesEphemeral`); `SecretsAlwaysAgree` reads the recipient's pairs back from the
outputs, each of which has one pair that both sides know (`SameSecret`).

**CliNavigationProofs.** `KeysAreKept` is not inductive as it stands: a screen looks at a
file, asks, and writes later. `Sound` says of each screen what its context has: a path
where it needs one, a file that is there where it asks about it, and of a process about to
write that the key which is in the file *now* may be lost (`Lost`: given up, unasked, raced),
or there is none. `TablesSound` has that every key that data is encrypted under is in a file
or may be lost. A write under which another process is about to write the same file marks
its own new key as raced, so what `Sound` says of the other stays true.
`NavigationImplementsSession` goes through a relation between the context before a
step and after it (`Goes`): a sign-in is `SignIn`, a key stored, reused or retrieved is
`TakeKey`, an entry of the chats is `Chat`; redirects among the menus stutter.

**RequestRouterProofs.** The state is a stack of frames, of any depth. The invariant says
where frames are (`FramesFit`: every frame but the top one awaits the sub-router of the one
above it, whose entry is among those mounted below its own), and relates `called` to them
(`LoopsInOrder`): what was called is before the function that the top loop looks at, up to
the function that runs, and not behind the last entry mounted below the one at which a
frame waits. `FirstFrom` picks the least of a set of entries, and `Normalize` the least and
the greatest place of a segment: the module proves that such sets of naturals have both.
A late `next` changes flags of a frame but no counter.

`ParametersAlwaysBelong` and `RouterImplementsHandlerChain` compare the stack with what the
place of an entry in the table says. An entry counts for what all mounts above it have, and
how many those are is unbounded; the frames below the top one are exactly those mounts, by
`FramesFit`, so that no step looks at more than one level:

* The table. The mount of an entry's router is the innermost entry that encloses it
  (`MountIsAbove`), what encloses an entry is its mount and what encloses that
  (`Enclosers`), entries are nested (`Nested`), and the next entry of a router is never
  behind one that is still to come below the same mount (`NoneIsPassed`). Where such a fact is
  about entries at any depth, it is proved of the first entry that would contradict it, as
  that one's mount comes before it. The functions that recur to the mount exist for the same
  reason (`DownExists`), so `PathnamesAre`, `SegmentsAre` and `ParametersAre` may unfold them.
* Pathnames. Matching two route pathnames one behind the other is matching the first, then
  the second with what the first leaves (`BeginsInTurn`), and a leading slash is normalized
  away (`NormalizeSlash`).
* `GivenInv`: what a frame has to match is what the segments above it leave, its parameters
  and pathnames are those of the mount above it, and an entry whose functions are under way
  fits the request and has been given what its place says; the entries of the frames that
  wait still fit (`MountsFit`). So a request does come to the mount whose sub-router is entered
  (`TopAllFits`), and that mount has either nothing to take off or is of the root router, whose
  pathname has no slash in front: the new frame has what is left (`HandedIsLeft`, where the
  hypothesis `NothingToTakeBelow` is needed: finding 3).
* `ChainInv`: an error that is looking for a handler came from below all frames that wait
  (`ErrorIsBelow`), those were not told to forward (`FramesWait`), and no handler that the chain
  may call next is behind the loops (`NothingPassed`). Its parts may be false once a `next`
  has been called late. Parsing, skipping entries, entering, leaving and
  returning from sub-routers stutter; a call is the chain's `Call` of the first handler ahead,
  and the end of the root router its `Exhaust`, as nothing is ahead.

**LibrariesProofs.** `StackIsBounded` is inductive once the option is known to be a number.
For the listeners, `NothingMissed` relates `heard`, `due` and the place of the loop: whoever
is ahead of it (`Ahead`) still misses the message that is handed out, whoever is not has
heard all that is due; what is registered during a loop is ahead of it. `OpenersInOrder` counts the open listeners called by the place of their loop.
Each theorem is of `LibrariesSpec`, whose behaviours are those of one library.

**Only model-checked.** Liveness, which is out of the prover's reach:
`EveryUserGetsThrough`, `EveryRequestReturns`, `EveryRequestIsAnswered`. Every other property of
a passing run is a theorem. The one recursive operator, `LastBelow`, is in
`MCRequestRouter`, which has no theorems.

## 5. Findings

1. `hub_loss`: one socket that is not open ends the delivery to a room. As closed
   sockets stay in the hub's rooms, each member that disconnects without leaving
   cuts off the members behind it for ever.
2. `hub_close`: the close listeners are emptied before they are called. So an
   application cannot leave rooms when a peer closes, and the discipline under
   which `DisciplineLosesNothing` holds cannot be kept in practice.
3. `router_nested`: what is left for a sub-router begins with a slash, and below the first
   mount the mount's pattern is matched with it as it is (`core/router/router.ts:586`), so
   nothing is taken off. `/api/users/5/e2ee_participants/...` therefore never reaches a
   route: **every participant and prekey route of the server answers 404** at this commit.
4. `auth_signout`: `server/controller/auth.controller.ts:223` subtracts milliseconds from
   seconds, so `expireIn` is 0 and the KV store may forget the entry at once. The
   token is then accepted until it expires by itself.

Met on the way, without a run:

* The `catch` at `cli/ui/local-key-manager.store.ui.ts:90` is empty. If a question about an
  existing key file throws, or the look at the file does, the flags have the values that stand
  for "no file" or "override", and the only copy of the key is overwritten. The local data
  under it is lost without anybody having chosen so, which `:82` warns of (`GoOn`, `unasked`).
* A login by a flag deletes a published bundle: `e2eeParticipant` is null after it (section
  2), so the setup takes the user for new, clears the row and has the creation refused
  (`OnlyFlagsMeetRefusal`). The bundle is gone, the server still hands it out, and the next
  login by the screen publishes another.
* A connection is lost to the pool when `beginTransaction` fails at
  `server/repository/e2ee-participant-onetime-prekey.repository.ts:32`, or the COMMIT in a
  catch (`:59`, `:96`); also in `e2ee-participant.repository.ts:46` and `:79`. After ten of
  these every request waits for ever (`EveryRequestReturns` says until when it does not).
* `cli/api/auth.api.ts:50` sends the access token for a new one, to a route that the server
  does not have; `/refresh-token` would refuse it. So a first setup ends after the creation of
  the participant and before its OPKs; a setup behind a later login catches up.
* `core/router/app-router.ts:61` starts the timer when the handlers have returned undefined,
  where `:58` says "If the request takes too long to be processed": a handler that never
  comes back is never timed out.
* `server/decorators/auth-ctx-matcher.decorators.ts:18` compares a number with a string by
  `!==`: every request to a user's own path would be refused with 403.
* `core/router/router.core.utils.ts:173` replaces the names of slots as text: a name that
  begins with another's, or is used twice, gives a pattern that `RegExp` refuses, outside
  the `try`, when a request comes. A wildcard at the very beginning passes the check of
  `:149`. A sub-router mounted at "/" is for the bare pathname only (`:213`).
* `@setHttpResponseStatus` of `server/controller/e2ee-participant.controller.ts:44` is
  lost, as the decorators around it replace the function that has the status: 200, not 201.
* `core/router/router.core.decorators.ts:49` binds into the request's own `params`, which
  the handlers behind see as well.
* `server/kv/kv.connection.ts:24` awaits between check and assignment, and two modules call
  it side by side at startup: a connection each, with `--kv-memory` a blacklist each.
* `server/utils/jwt.utils.ts:17` has claims in seconds: two sign-ins of a second get one
  refresh token, and one sign-out ends both.
* `cli/api/` posts to `/auth/register` and `/auth/login`, the server has `/api/auth/signup`
  and `/api/auth/signin`.
* `diagrams/prekey-bundle.drawio:502` has the OPKs that were not published *appended*, the
  code has the server flush first (appending would be refused for ids that the table
  has: the diagram is out of date).
* A falsy error given to `next` is forgotten if its entry has functions left
  (`core/router/router.ts:634`; `router.test.ts:771` only tries truthy ones).
* The redirects of `NobodyIsSentBack` are dead code.

## 6. Plan

Done: the modules of section 2.

Next modules, in this order:

1. Composition: `PreKeySetup` with `ClientSession` as its user and the token and store
   modules in place of its one-step server.
2. The status an answer carries, through the decorators and the router.
3. `connectToKv` at startup, as a second KV store in `AuthTokens`.

Theorems left: none of the present properties but the liveness ones. Each of the modules
above comes with the refinements it adds.

## 7. Not modelled

* `primitives/x3dh/lib/xeddsa/rust`: curve arithmetic and generated bindings.
* AES, scrypt and JWT signatures as algorithms: only what callers rely on.
* Migrations beyond the keys that can refuse an INSERT; seeds; Bruno collections;
  diagrams; DTO validation; wording, colours and logging.
* `cli/crons/replenish-onetime-prekeys.cron.ts` is empty: nothing replenishes a stock
  that peers have drained, as the setup counts rows on disk that are never removed.
