---------------------------- MODULE PreKeySetup ----------------------------
(***************************************************************************)
(* The prekey bundle setup of the command line client: the middleware that *)
(* stands in front of every chat screen and makes three stores agree on    *)
(* the user's end-to-end keys,                                             *)
(*   - the context of the running process (volatile),                      *)
(*   - the SQLite file of the device (survives the process),               *)
(*   - the server's participant row and one-time prekey (OPK) table.       *)
(*                                                                         *)
(* There is one user on one device.  Procs are the client processes that   *)
(* may be started on that device; they share the SQLite file.  A process   *)
(* is single threaded, so a step runs from one SQLite write or await to    *)
(* the next one: a process can die, and another one can run, between any   *)
(* two of those.  Reads that precede a write belong to the write's step.   *)
(*                                                                         *)
(* Keys are numbered from 1 in the order of their generation, which also   *)
(* is the order of the created_at columns; 0 stands for null.  A number    *)
(* stands for the whole generated bundle (identity pair, signed prekey     *)
(* pair, signature) or, for OPKs, for the batch they were generated in.    *)
(***************************************************************************)
EXTENDS Naturals, FiniteSets

CONSTANTS
  Procs,        \* client processes of the device
  LocalKeys,    \* local encryption keys the user may supply (.pem files)
  NoLocalKey,   \* the context's localEncryptionKey is null
  BatchSize,    \* ONETIME_PREKEYS_UPLOAD_BATCH_SIZE (100 in the code)
  Threshold,    \* ONETIME_PREKEYS_STOCK_COUNT_THRESHOLD (10 in the code)
  LateRequests, \* may a request outlive the process that sent it?
  MaxMishaps,   \* bound: stops of a process and logins by flags
  MaxTakes      \* bound: OPKs that peers take from the server

ASSUME LocalKeysAssumption == NoLocalKey \notin LocalKeys
ASSUME SizesAssumption     == BatchSize \in Nat \ {0} /\ Threshold \in Nat
ASSUME BoundsAssumption    == /\ LateRequests \in BOOLEAN
                              /\ MaxMishaps \in Nat
                              /\ MaxTakes \in Nat

VARIABLES
  \* SQLite file of the device
  bundle,       \* the row of e2ee_participant_prekey_bundles, or NoRow
  opks,         \* the rows of e2ee_participant_onetime_prekeys
  fresh,        \* number of the next key that is generated
  \* server
  participant,  \* identity key of the participant row, 0: no row
  stock,        \* ids in the participant's OPK table
  taken,        \* ids of the OPKs handed to peers
  \* requests on their way
  req,          \* req[p]: the API call process p awaits
  rep,          \* rep[p]: the server's answer to it
  late,         \* requests whose process died
  \* client processes
  pc,           \* where process p is
  ctx,          \* its cliContext
  held,         \* the bundle it works with (prekeyBundle, generatedPreKeyBundle)
  \* history
  alone,        \* alone[p]: nobody else is active since p logged in
  torn,         \* the OPK rows were cleared by a process that then died
  lost,         \* ids of OPKs whose process died while it awaited their upload
  mishaps       \* see MaxMishaps

local  == <<bundle, opks, fresh>>
server == <<participant, stock, taken>>
wire   == <<req, rep, late>>
client == <<pc, ctx, held>>
ghosts == <<alone, torn, lost, mishaps>>
vars   == <<local, server, wire, client, ghosts>>

NoRow     == [key |-> 0, enc |-> NoLocalKey, published |-> FALSE]
NoRequest == [kind |-> "none", key |-> 0, ids |-> {}, flush |-> FALSE, token |-> FALSE]
NoReply   == [status |-> "none", key |-> 0]
LoggedOut == [lkey |-> NoLocalKey, part |-> 0, token |-> FALSE,
              bundle |-> 0, viaFlags |-> FALSE]

\* Places where a process stands: "off", in a menu or screen, at a prompt,
\* between two SQLite writes, or at an await of an API call.
Idle     == {"off", "menu", "chats"}
Uploading == {"uploading", "uploadingRest", "replenishing", "firstUploading"}
Awaiting == {"publishing", "republishing", "creating", "tokening"} \cup Uploading
Working  == {"entry", "prompt", "inspecting", "regenerating", "counting",
             "clearedBundle", "clearedOPKs"}
Places   == Idle \cup Awaiting \cup Working

Ids(rows)       == {<<o.batch, o.idx>> : o \in rows}
Published(rows) == {[o EXCEPT !.published = TRUE] : o \in rows}
Decrypts(row, k) == row.enc = k

----------------------------------------------------------------------------
(* Repository operations on the SQLite file.                               *)

\* createByUserId: INSERT, user_id is the primary key.
CreateBundle(k) ==
  /\ bundle = NoRow
  /\ bundle' = [key |-> fresh, enc |-> k, published |-> FALSE]

\* Mutant: resetByUserId leaves is_published as it was.
ResetBundleKeepingMark(k) ==
  bundle' = IF bundle = NoRow THEN NoRow ELSE [bundle EXCEPT !.key = fresh, !.enc = k]

\* resetByUserId: UPDATE ... WHERE user_id, a no-op when the row is gone.
ResetBundle(k) ==
  bundle' = IF bundle = NoRow THEN NoRow
            ELSE [key |-> fresh, enc |-> k, published |-> FALSE]

\* publishByUserId of the bundle repository: whatever the row holds by now.
PublishBundle ==
  bundle' = IF bundle = NoRow THEN NoRow ELSE [bundle EXCEPT !.published = TRUE]

\* Mutant: one OPK too many.
NewBatchFromZero(k) ==
  {[batch |-> fresh, idx |-> i, enc |-> k, published |-> FALSE] : i \in 0 .. BatchSize}

\* Mutant: the rows are inserted as published.
NewBatchAsPublished(k) ==
  {[batch |-> fresh, idx |-> i, enc |-> k, published |-> TRUE] : i \in 1 .. BatchSize}

\* createManyOneTimePreKeys, then createMany of the OPK repository.
NewBatch(k) ==
  {[batch |-> fresh, idx |-> i, enc |-> k, published |-> FALSE] : i \in 1 .. BatchSize}

\* findLatestByUserId: ORDER BY created_at DESC LIMIT 1, any row of the last batch.
Latest(rows) == {o \in rows : \A other \in rows : other.batch <= o.batch}

\* findManyNonPublishedByUserId
NonPublished(rows) == {o \in rows : ~o.published}

----------------------------------------------------------------------------
(* Calls of the API: a process sends one request and awaits its answer.    *)

Goto(p, from, to) == pc[p] = from /\ pc' = [pc EXCEPT ![p] = to]

Send(p, r) == /\ req' = [req EXCEPT ![p] = r]
              /\ rep' = [rep EXCEPT ![p] = NoReply]

Answered(p) == rep[p].status = "ok"
Consume(p)  == /\ rep' = [rep EXCEPT ![p] = NoReply]
               /\ UNCHANGED req

UpdateRequest(k) == [NoRequest EXCEPT !.kind = "update", !.key = k]
CreateRequest(k) == [NoRequest EXCEPT !.kind = "create", !.key = k]
TokenRequest     == [NoRequest EXCEPT !.kind = "token"]
UploadRequest(p, rows, fl) ==
  [kind |-> "upload", key |-> 0, ids |-> Ids(rows), flush |-> fl, token |-> ctx[p].token]

----------------------------------------------------------------------------
(* The user: login, local encryption key, main menu.                       *)

Mishap == mishaps < MaxMishaps /\ mishaps' = mishaps + 1

OthersOff(p) == \A q \in Procs \ {p} : pc[q] = "off"

\* Mutant: every login leaves e2eeParticipant null.
LoginWithoutParticipant(p, viaFlags) ==
  /\ Goto(p, "off", "menu")
  /\ ctx' = [ctx EXCEPT ![p] = [LoggedOut EXCEPT !.token = participant # 0,
                                                 !.viaFlags = viaFlags]]
  /\ alone' = [q \in Procs |-> q = p /\ OthersOff(p) /\ late = {}]
  /\ IF viaFlags THEN Mishap ELSE UNCHANGED mishaps
  /\ UNCHANGED <<local, server, wire, held, torn, lost>>

\* The screens (Register, Login) give the context what the server knows of the device's
\* participant.  The flags leave e2eeParticipant null: the credentials do not read it from
\* the answer, and what a JWT asks, /auth/me, never looks it up.  A JWT may be older than
\* the participant.
Login(p, viaFlags) ==
  /\ Goto(p, "off", "menu")
  /\ \E token \in {participant # 0} \cup (IF viaFlags THEN {FALSE} ELSE {}) :
       ctx' = [ctx EXCEPT ![p] = [lkey |-> NoLocalKey,
                                  part |-> IF viaFlags THEN 0 ELSE participant,
                                  token |-> token,
                                  bundle |-> 0, viaFlags |-> viaFlags]]
  /\ alone' = [q \in Procs |-> q = p /\ OthersOff(p) /\ late = {}]
  /\ IF viaFlags THEN Mishap ELSE UNCHANGED mishaps
  /\ UNCHANGED <<local, server, wire, held, torn, lost>>

\* Local key manager (store or retrieve), reached from the main menu.
ChooseKey(p, k) ==
  /\ pc[p] = "menu"
  /\ ctx' = [ctx EXCEPT ![p].lkey = k]
  /\ UNCHANGED <<local, server, wire, pc, held, ghosts>>

\* "Chats" in the main menu.  Without a local key the middleware navigates back
\* to the menu; with a bundle in the context it renders the screen.
OpenChats(p) ==
  /\ ctx[p].lkey # NoLocalKey
  /\ Goto(p, "menu", IF ctx[p].bundle # 0 THEN "chats" ELSE "entry")
  /\ UNCHANGED <<local, server, wire, ctx, held, ghosts>>

\* chatsUI is a stub that does not lead on; the middleware's branch for a context with a
\* bundle is for one that leads back to the menu.
BackToMenu(p) ==
  /\ Goto(p, "chats", "menu")
  /\ UNCHANGED <<local, server, wire, ctx, held, ghosts>>

----------------------------------------------------------------------------
(* The middleware, when the context has an e2ee participant.               *)

\* No local bundle: generate one, store it unpublished and send it.
GenerateMissingBundle(p) ==
  /\ ctx[p].part # 0
  /\ Goto(p, "entry", "publishing")
  /\ CreateBundle(ctx[p].lkey)
  /\ held' = [held EXCEPT ![p] = fresh]
  /\ Send(p, UpdateRequest(fresh))
  /\ fresh' = fresh + 1
  /\ UNCHANGED <<opks, server, late, ctx, ghosts>>

\* A local bundle that the local key does not decrypt: ask the user.
AskForReset(p) ==
  /\ ctx[p].part # 0 /\ bundle # NoRow /\ ~Decrypts(bundle, ctx[p].lkey)
  /\ Goto(p, "entry", "prompt")
  /\ UNCHANGED <<local, server, wire, ctx, held, ghosts>>

ExitAtPrompt(p) ==
  /\ Goto(p, "prompt", "menu")
  /\ UNCHANGED <<local, server, wire, ctx, held, ghosts>>

\* "Reset": a new bundle replaces the row, which then is read again (it may have
\* vanished by now: the UPDATE inserts nothing).
ResetAtPrompt(p) ==
  /\ Goto(p, "prompt", "publishing")
  /\ ResetBundle(ctx[p].lkey)
  /\ held' = [held EXCEPT ![p] = bundle'.key]
  /\ Send(p, UpdateRequest(fresh))
  /\ fresh' = fresh + 1
  /\ UNCHANGED <<opks, server, late, ctx, ghosts>>

\* The answer to the first publication.  The row was read into prekeyBundle before
\* it was marked as published, so is_published is false in the comparison that
\* follows: the same bundle is always sent a second time.
PublishAgain(p) ==
  /\ Answered(p) /\ held[p] # 0
  /\ Goto(p, "publishing", "republishing")
  /\ ctx' = [ctx EXCEPT ![p].part = rep[p].key]
  /\ PublishBundle
  /\ Send(p, UpdateRequest(held[p]))
  /\ UNCHANGED <<opks, fresh, server, late, held, ghosts>>

\* The row had vanished when it was reset: a null dereference ends the process.
ResetOfVanishedRow(p) ==
  /\ Answered(p) /\ held[p] = 0
  /\ Goto(p, "publishing", "off")
  /\ ctx' = [ctx EXCEPT ![p] = LoggedOut]
  /\ PublishBundle
  /\ Consume(p)
  /\ UNCHANGED <<opks, fresh, server, late, held, ghosts>>

\* Mutant: the server's identity key is not compared.
CompareTrustingMark(p) ==
  /\ ctx[p].part # 0 /\ bundle # NoRow /\ Decrypts(bundle, ctx[p].lkey)
  /\ held' = [held EXCEPT ![p] = bundle.key]
  /\ \/ /\ ~bundle.published
        /\ Goto(p, "entry", "republishing")
        /\ Send(p, UpdateRequest(bundle.key))
     \/ /\ bundle.published
        /\ Goto(p, "entry", "inspecting")
        /\ UNCHANGED <<req, rep>>
  /\ UNCHANGED <<local, server, late, ctx, ghosts>>

\* A bundle that decrypts is sent again when it was not marked as published or
\* when the identity key that the server returned at login is another one.
CompareWithServer(p) ==
  /\ ctx[p].part # 0 /\ bundle # NoRow /\ Decrypts(bundle, ctx[p].lkey)
  /\ held' = [held EXCEPT ![p] = bundle.key]
  /\ \/ /\ ~bundle.published \/ bundle.key # ctx[p].part
        /\ Goto(p, "entry", "republishing")
        /\ Send(p, UpdateRequest(bundle.key))
     \/ /\ bundle.published /\ bundle.key = ctx[p].part
        /\ Goto(p, "entry", "inspecting")
        /\ UNCHANGED <<req, rep>>
  /\ UNCHANGED <<local, server, late, ctx, ghosts>>

MarkPublished(p) ==
  /\ Answered(p)
  /\ Goto(p, "republishing", "inspecting")
  /\ ctx' = [ctx EXCEPT ![p].part = rep[p].key]
  /\ PublishBundle
  /\ Consume(p)
  /\ UNCHANGED <<opks, fresh, server, late, held, ghosts>>

\* Mutant: a published OPK is not tried with the local key.
SkipUntriedOPKs(p) ==
  /\ \/ opks = {}
     \/ \E o \in Latest(opks) : o.published
  /\ Goto(p, "inspecting", "counting")
  /\ UNCHANGED <<local, server, wire, ctx, held, ghosts>>

\* The latest OPK decides for all of them.
SkipPublishedOPKs(p) ==
  /\ \/ opks = {}
     \/ \E o \in Latest(opks) : Decrypts(o, ctx[p].lkey) /\ o.published
  /\ Goto(p, "inspecting", "counting")
  /\ UNCHANGED <<local, server, wire, ctx, held, ghosts>>

\* Mutant: the mark is not read, and all rows are sent.
UploadAllOPKs(p) ==
  /\ \E o \in Latest(opks) : Decrypts(o, ctx[p].lkey)
  /\ Goto(p, "inspecting", "uploadingRest")
  /\ Send(p, UploadRequest(p, opks, TRUE))
  /\ UNCHANGED <<local, server, late, ctx, held, ghosts>>

\* Mutant: the server is not told to flush.
UploadAppending(p) ==
  /\ \E o \in Latest(opks) : Decrypts(o, ctx[p].lkey) /\ ~o.published
  /\ Goto(p, "inspecting", "uploadingRest")
  /\ Send(p, UploadRequest(p, NonPublished(opks), FALSE))
  /\ UNCHANGED <<local, server, late, ctx, held, ghosts>>

\* It was not published: send what is not, and have the server flush its table.
UploadNonPublishedOPKs(p) ==
  /\ \E o \in Latest(opks) : Decrypts(o, ctx[p].lkey) /\ ~o.published
  /\ Goto(p, "inspecting", "uploadingRest")
  /\ Send(p, UploadRequest(p, NonPublished(opks), TRUE))
  /\ UNCHANGED <<local, server, late, ctx, held, ghosts>>

\* Mutant: the rows stay.
KeepUndecryptableOPKs(p) ==
  /\ \E o \in Latest(opks) : ~Decrypts(o, ctx[p].lkey)
  /\ Goto(p, "inspecting", "regenerating")
  /\ UNCHANGED <<local, server, wire, ctx, held, ghosts>>

\* It does not decrypt: clear the rows, then make and send a new batch.
ClearUndecryptableOPKs(p) ==
  /\ \E o \in Latest(opks) : ~Decrypts(o, ctx[p].lkey)
  /\ Goto(p, "inspecting", "regenerating")
  /\ opks' = {}
  /\ UNCHANGED <<bundle, fresh, server, wire, ctx, held, ghosts>>

\* createMany of the OPK repository and the upload of the batch.
StoreAndUpload(p, from, to, fl) ==
  /\ Goto(p, from, to)
  /\ opks' = opks \cup NewBatch(ctx[p].lkey)
  /\ Send(p, UploadRequest(p, NewBatch(ctx[p].lkey), fl))
  /\ fresh' = fresh + 1
  /\ UNCHANGED <<bundle, server, late, ctx, held, ghosts>>

\* publishByUserId of the OPK repository: every row of the user.
MarkOPKsPublished == opks' = Published(opks)

\* Mutant: the server keeps the OPKs of the cleared rows.
RegenerateAppending(p) == StoreAndUpload(p, "regenerating", "uploading", FALSE)

RegenerateOPKs(p) == StoreAndUpload(p, "regenerating", "uploading", TRUE)

OPKsUploaded(p) ==
  /\ Answered(p)
  /\ \E from \in {"uploading", "uploadingRest"} : Goto(p, from, "counting")
  /\ MarkOPKsPublished
  /\ Consume(p)
  /\ UNCHANGED <<bundle, fresh, server, late, ctx, held, ghosts>>

\* Few rows: a new batch is added to those of the server.
Replenish(p) ==
  /\ Cardinality(opks) <= Threshold
  /\ StoreAndUpload(p, "counting", "replenishing", FALSE)

\* The middleware's last assignment: the context gets the bundle.
Finish(p, from) ==
  /\ Goto(p, from, "chats")
  /\ ctx' = [ctx EXCEPT ![p].bundle = held[p]]
  /\ UNCHANGED <<bundle, fresh, server, late, held, ghosts>>

EnoughOPKs(p) ==
  /\ Cardinality(opks) > Threshold
  /\ Finish(p, "counting")
  /\ UNCHANGED <<opks, req, rep>>

Replenished(p) ==
  /\ Answered(p)
  /\ Finish(p, "replenishing")
  /\ MarkOPKsPublished
  /\ Consume(p)

----------------------------------------------------------------------------
(* The middleware, when the context has no e2ee participant.               *)

\* Mutant: the bundle is cleared though there is a participant.
ClearBundleAnyway(p) ==
  /\ Goto(p, "entry", "clearedBundle")
  /\ bundle' = NoRow
  /\ UNCHANGED <<opks, fresh, server, wire, ctx, held, ghosts>>

ClearBundle(p) ==
  /\ ctx[p].part = 0
  /\ Goto(p, "entry", "clearedBundle")
  /\ bundle' = NoRow
  /\ UNCHANGED <<opks, fresh, server, wire, ctx, held, ghosts>>

CreateParticipant(p) ==
  /\ Goto(p, "clearedBundle", "creating")
  /\ CreateBundle(ctx[p].lkey)
  /\ held' = [held EXCEPT ![p] = fresh]
  /\ Send(p, CreateRequest(fresh))
  /\ fresh' = fresh + 1
  /\ UNCHANGED <<opks, server, late, ctx, ghosts>>

\* Another process stored its bundle in between: the INSERT throws.
CreateOverExistingRow(p) ==
  /\ bundle # NoRow
  /\ Goto(p, "clearedBundle", "off")
  /\ ctx' = [ctx EXCEPT ![p] = LoggedOut]
  /\ UNCHANGED <<local, server, wire, held, ghosts>>

ParticipantCreated(p) ==
  /\ Answered(p)
  /\ Goto(p, "creating", "tokening")
  /\ ctx' = [ctx EXCEPT ![p].part = rep[p].key]
  /\ PublishBundle
  /\ Send(p, TokenRequest)
  /\ UNCHANGED <<opks, fresh, server, late, held, ghosts>>

\* The new access token names the participant; then the OPK rows are cleared.
TokenReceived(p) ==
  /\ Answered(p)
  /\ Goto(p, "tokening", "clearedOPKs")
  /\ ctx' = [ctx EXCEPT ![p].token = rep[p].key # 0]
  /\ opks' = {}
  /\ Consume(p)
  /\ UNCHANGED <<bundle, fresh, server, late, held, ghosts>>

UploadFirstOPKs(p) == StoreAndUpload(p, "clearedOPKs", "firstUploading", FALSE)

FirstOPKsUploaded(p) ==
  /\ Answered(p)
  /\ Finish(p, "firstUploading")
  /\ MarkOPKsPublished
  /\ Consume(p)

----------------------------------------------------------------------------
(* The ways a process ends.                                                *)

\* An API call is refused: nobody catches the rejection.
Refused(p) ==
  /\ rep[p].status = "refused"
  /\ pc' = [pc EXCEPT ![p] = "off"]
  /\ ctx' = [ctx EXCEPT ![p] = LoggedOut]
  /\ Consume(p)
  /\ UNCHANGED <<local, server, late, held, ghosts>>

\* Exit, Ctrl-C, a kill, or an API call that fails on its way.  The request that
\* was awaited is lost, or is left to be handled later.
Stop(p) ==
  /\ pc[p] # "off"
  /\ Mishap
  /\ pc' = [pc EXCEPT ![p] = "off"]
  /\ ctx' = [ctx EXCEPT ![p] = LoggedOut]
  /\ req' = [req EXCEPT ![p] = NoRequest]
  /\ rep' = [rep EXCEPT ![p] = NoReply]
  /\ \/ UNCHANGED late
     \/ LateRequests /\ req[p] # NoRequest /\ late' = late \cup {req[p]}
  /\ torn' = (torn \/ pc[p] = "regenerating")
  /\ lost' = IF pc[p] \in Uploading THEN lost \cup Ids(NonPublished(opks)) ELSE lost
  /\ UNCHANGED <<local, server, held, alone>>

----------------------------------------------------------------------------
(* The server.                                                             *)

\* The participant row after request r: the INSERT of create fails when the
\* (user, device) pair has one, the UPDATE of updatePreKeyBundleById overwrites.
ParticipantAfter(r) ==
  IF r.kind = "update" \/ (r.kind = "create" /\ participant = 0) THEN r.key
  ELSE participant

\* createManyByParticipantId: optional DELETE, then INSERT, in one transaction
\* that is committed in the error path too.  An empty list is an SQL error.
Flushed(r) == IF r.flush THEN {} ELSE stock
Inserts(r) == /\ r.token
              /\ r.ids # {}
              /\ r.ids \cap Flushed(r) = {}
StockAfter(r) ==
  IF r.kind # "upload" \/ ~r.token THEN stock
  ELSE Flushed(r) \cup (IF Inserts(r) THEN r.ids ELSE {})

\* What the server may answer.  The access token that the client sends for a new one
\* passes no route of this server (the one it names does not exist, and the one for
\* refreshing asks for a refresh token); a server with the client's route accepts it.
Answers(r) == CASE r.kind = "create" -> {IF participant = 0 THEN "ok" ELSE "refused"}
                [] r.kind = "upload" -> {IF Inserts(r) THEN "ok" ELSE "refused"}
                [] r.kind = "token"  -> {"ok", "refused"}
                [] OTHER             -> {"ok"}

Handle(r) ==
  /\ participant' = ParticipantAfter(r)
  /\ stock' = StockAfter(r)
  /\ torn' = (torn /\ ~(r.kind = "upload" /\ r.flush))
  /\ UNCHANGED taken

ServerHandles(p) ==
  /\ req[p] # NoRequest
  /\ Handle(req[p])
  /\ \E status \in Answers(req[p]) :
       rep' = [rep EXCEPT ![p] = [status |-> status, key |-> participant']]
  /\ req' = [req EXCEPT ![p] = NoRequest]
  /\ UNCHANGED <<local, late, client, alone, lost, mishaps>>

ServerHandlesLate ==
  \E r \in late :
    /\ Handle(r)
    /\ late' = late \ {r}
    /\ UNCHANGED <<local, req, rep, client, alone, lost, mishaps>>

\* popByParticipantId: a peer is handed one of the oldest OPKs.
PeerTakes ==
  \E id \in stock :
    /\ Cardinality(taken) < MaxTakes
    /\ \A other \in stock : id[1] <= other[1]
    /\ stock' = stock \ {id}
    /\ taken' = taken \cup {id}
    /\ UNCHANGED <<local, participant, wire, client, ghosts>>

----------------------------------------------------------------------------
Init ==
  /\ bundle = NoRow /\ opks = {} /\ fresh = 1
  /\ participant = 0 /\ stock = {} /\ taken = {}
  /\ req = [p \in Procs |-> NoRequest]
  /\ rep = [p \in Procs |-> NoReply]
  /\ late = {}
  /\ pc = [p \in Procs |-> "off"]
  /\ ctx = [p \in Procs |-> LoggedOut]
  /\ held = [p \in Procs |-> 0]
  /\ alone = [p \in Procs |-> FALSE]
  /\ torn = FALSE /\ lost = {} /\ mishaps = 0

User(p) ==
  \/ \E viaFlags \in BOOLEAN : Login(p, viaFlags)
  \/ \E k \in LocalKeys : ChooseKey(p, k)
  \/ OpenChats(p) \/ BackToMenu(p)
  \/ ExitAtPrompt(p) \/ ResetAtPrompt(p)

SetupWithParticipant(p) ==
  \/ GenerateMissingBundle(p) \/ AskForReset(p) \/ PublishAgain(p) \/ ResetOfVanishedRow(p)
  \/ CompareWithServer(p) \/ MarkPublished(p)
  \/ SkipPublishedOPKs(p) \/ UploadNonPublishedOPKs(p) \/ ClearUndecryptableOPKs(p)
  \/ RegenerateOPKs(p) \/ OPKsUploaded(p)
  \/ Replenish(p) \/ EnoughOPKs(p) \/ Replenished(p)

SetupWithoutParticipant(p) ==
  \/ ClearBundle(p) \/ CreateParticipant(p) \/ CreateOverExistingRow(p)
  \/ ParticipantCreated(p) \/ TokenReceived(p)
  \/ UploadFirstOPKs(p) \/ FirstOPKsUploaded(p)

Setup(p) == SetupWithParticipant(p) \/ SetupWithoutParticipant(p) \/ Refused(p)

Next ==
  \/ \E p \in Procs : User(p) \/ Setup(p) \/ Stop(p) \/ ServerHandles(p)
  \/ ServerHandlesLate
  \/ PeerTakes

Spec == Init /\ [][Next]_vars

\* The process runs on while it can and the server answers.  Of the user: whoever
\* is out logs in again by the login screen, whoever has a key opens the chats, and
\* somebody who is asked over and over does not answer "Exit" for ever.
Fairness ==
  \A p \in Procs :
    /\ WF_vars(Setup(p)) /\ WF_vars(ServerHandles(p))
    /\ WF_vars(Login(p, FALSE)) /\ WF_vars(OpenChats(p))
    /\ WF_vars(\E k \in LocalKeys : ctx[p].lkey = NoLocalKey /\ ChooseKey(p, k))
    /\ SF_vars(ResetAtPrompt(p))

FairSpec == Spec /\ Fairness

----------------------------------------------------------------------------
(* Properties.                                                             *)

OPKIds     == (Nat \ {0}) \X (1 .. BatchSize)
BundleRows == [key : Nat, enc : LocalKeys \cup {NoLocalKey}, published : BOOLEAN]
OPKRows    == [batch : Nat \ {0}, idx : 1 .. BatchSize,
               enc : LocalKeys \cup {NoLocalKey}, published : BOOLEAN]
Contexts   == [lkey : LocalKeys \cup {NoLocalKey}, part : Nat, token : BOOLEAN,
               bundle : Nat, viaFlags : BOOLEAN]
Requests   == [kind : {"none", "update", "create", "token", "upload"}, key : Nat,
               ids : SUBSET OPKIds, flush : BOOLEAN, token : BOOLEAN]
Replies    == [status : {"none", "ok", "refused"}, key : Nat]

\* Every variable keeps to its type.
TypeOK ==
  /\ bundle \in BundleRows /\ opks \in SUBSET OPKRows /\ fresh \in Nat \ {0}
  /\ participant \in Nat /\ stock \in SUBSET OPKIds /\ taken \in SUBSET OPKIds
  /\ req \in [Procs -> Requests] /\ rep \in [Procs -> Replies]
  /\ late \in SUBSET Requests
  /\ pc \in [Procs -> Places] /\ ctx \in [Procs -> Contexts] /\ held \in [Procs -> Nat]
  /\ alone \in [Procs -> BOOLEAN] /\ torn \in BOOLEAN
  /\ lost \in SUBSET OPKIds /\ mishaps \in Nat

\* A setup that ran with no other process beside it and no request left over from a
\* dead one repairs the identity, whatever earlier processes left behind: what the
\* context holds, the row on disk and the server's participant are one bundle, and
\* the row says that it was published.  (The comparison of lines 199-228 is there
\* for this.)
AgreesWithServer(p) ==
  /\ bundle.key = ctx[p].bundle
  /\ bundle.published
  /\ participant = ctx[p].bundle
  /\ ctx[p].part = ctx[p].bundle

LoneSetupAgrees ==
  \A p \in Procs : alone[p] /\ ctx[p].bundle # 0 => AgreesWithServer(p)

\* The inductive invariant behind LoneSetupAgrees.  A process has at most one call
\* under way, and only where it awaits one; a row always has a key; the context has a
\* bundle in the menu and the screens only.  Beside a lone process nothing else is
\* active, and where it stands tells how far row, server and context agree.
CallsAreAwaited ==
  \A p \in Procs : /\ pc[p] \notin Awaiting => req[p] = NoRequest /\ rep[p] = NoReply
                   /\ req[p] = NoRequest \/ rep[p] = NoReply

RowsHaveKeys == bundle = NoRow \/ bundle.key # 0

BundleAfterSetup == \A p \in Procs : ctx[p].bundle # 0 => pc[p] \in {"menu", "chats"}

BeforeSetup(p) == ctx[p].bundle = 0 => ctx[p].part \in {0, participant}

PromptedForRow(p) == pc[p] = "prompt" => bundle # NoRow

SendingHeld(p) ==
  /\ bundle.key = held[p] /\ held[p] # 0
  /\ req[p] # NoRequest => /\ req[p].key = held[p]
                          /\ req[p].kind = IF pc[p] = "creating" THEN "create" ELSE "update"
  /\ Answered(p) => rep[p].key = held[p] /\ participant = held[p]

HeldIsServed(p) ==
  /\ bundle.key = held[p] /\ bundle.published
  /\ participant = held[p] /\ ctx[p].part = held[p]
  /\ req[p] # NoRequest => req[p].kind \in {"token", "upload"}

Lone(p) ==
  /\ late = {} /\ OthersOff(p)
  /\ CASE pc[p] \in {"menu", "chats", "entry", "prompt"} ->
            BeforeSetup(p) /\ PromptedForRow(p)
       [] pc[p] = "clearedBundle"                            -> TRUE
       [] pc[p] \in {"publishing", "republishing", "creating"} -> SendingHeld(p)
       [] OTHER                                              -> HeldIsServed(p)
  /\ ctx[p].bundle # 0 => AgreesWithServer(p)

LoneSetupInv ==
  /\ TypeOK /\ CallsAreAwaited /\ RowsHaveKeys /\ BundleAfterSetup
  /\ \A p \in Procs : alone[p] /\ pc[p] # "off" => Lone(p)

\* The mark on the disk never claims more than the server has, at any point of the
\* setup and after a death at any point: a row marked as published is the one the
\* server hands to peers.  (One process, no left-over requests.)
PublishedIsServed == bundle.published => participant = bundle.key

\* The same for the OPK rows: a row marked as published has been in the server's
\* table, where it still is unless a peer took it.
PublishedOPKsWereOffered ==
  \A o \in opks : o.published => <<o.batch, o.idx>> \in stock \cup taken

\* While a chat screen is open, every OPK that the server may hand out is one whose
\* private half is on this disk.  The exception the code leaves open: a process that
\* died after clearing the rows and before storing the new batch.
OfferedOPKsAreHeld ==
  \A p \in Procs : ctx[p].bundle # 0 /\ ~torn => stock \subseteq Ids(opks)

\* Only the latest OPK row is tried with the local key, which is enough because all
\* rows always are under one local key.
OneKeySealsAllOPKs == \A o1, o2 \in opks : o1.enc = o2.enc

\* The server never refuses an upload of OPKs: the token names the participant, the
\* list is not empty and no id is in the table already, even if the first answer to
\* the same upload was lost.  (This is why line 287 has the server flush.)
NoUploadIsRefused ==
  \A p \in Procs :
    pc[p] \in Uploading => rep[p].status # "refused"

\* A participant is asked for twice only by a process that was logged in by flags, which
\* leave its e2eeParticipant unset; whoever logs in by the screens is not refused there,
\* even if the answer to an earlier creation was lost.
OnlyFlagsMeetRefusal ==
  \A p \in Procs : pc[p] = "creating" /\ rep[p].status = "refused" => ctx[p].viaFlags

\* An OPK that a peer took is on offer again only if the process that uploaded it died
\* before it had the answer: the next setup then sends what is not marked as published,
\* whatever has become of it on the server.  Nothing else (another login, another local
\* key, a flush of the table, a first setup after a login by flags) offers it again.
OfferedOnce == stock \cap taken \subseteq lost

\* A published bundle that the user's local key opens is never given up, except by a
\* process that was logged in by flags.
IdentityIsKept ==
  [][\A p \in Procs :
       /\ pc[p] \in Working /\ bundle.published
       /\ bundle.enc = ctx[p].lkey /\ ~ctx[p].viaFlags
       => bundle'.key = bundle.key]_vars

\* What the disk holds at the end of a lone setup opens with the user's local key:
\* the bundle, and the OPK row that the next setup will try.
LoneSetupUnlocks ==
  [][\A p \in Procs :
       alone[p] /\ ctx[p].bundle = 0 /\ ctx'[p].bundle # 0
         => /\ bundle'.enc = ctx[p].lkey
            /\ \A o \in Latest(opks') : o.enc = ctx[p].lkey]_vars

\* No death at any point leaves stores on which every later setup fails: a user who
\* keeps at it ends with the bundle in the context.
EveryUserGetsThrough == \A p \in Procs : <>[](ctx[p].bundle # 0)
=============================================================================
