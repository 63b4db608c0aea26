------------------------- MODULE PreKeySetupProofs -------------------------
(***************************************************************************)
(* Theorems about PreKeySetup, for every set of processes and local keys,  *)
(* every batch size and threshold, with or without left-over requests.     *)
(***************************************************************************)
EXTENDS PreKeySetup, FiniteSetTheorems, FunctionTheorems, TLAPS

----------------------------------------------------------------------------
(* Helpers keep to their types.                                            *)

\* A batch that createManyOneTimePreKeys makes consists of OPK rows.
LEMMA NewBatchType ==
  ASSUME fresh \in Nat \ {0}, NEW k \in LocalKeys \cup {NoLocalKey}
  PROVE  NewBatch(k) \in SUBSET OPKRows
<1>. SUFFICES ASSUME NEW i \in 1 .. BatchSize
              PROVE  [batch |-> fresh, idx |-> i, enc |-> k,
              published |-> FALSE] \in OPKRows
  BY DEF NewBatch
<1>. QED
  BY DEF OPKRows

\* Marking OPK rows as published leaves OPK rows.
LEMMA PublishedType ==
  ASSUME NEW rows \in SUBSET OPKRows
  PROVE  Published(rows) \in SUBSET OPKRows
BY DEF Published, OPKRows

\* OPK rows have ids of the type the server's table holds.
LEMMA IdsType ==
  ASSUME NEW rows \in SUBSET OPKRows
  PROVE  Ids(rows) \in SUBSET OPKIds
BY DEF Ids, OPKRows, OPKIds

\* The null values, the places and the empty sets have their types.
LEMMA ConstantTypes ==
  /\ NoRow \in BundleRows /\ NoRequest \in Requests /\ NoReply \in Replies
  /\ LoggedOut \in Contexts
  /\ {"off", "menu", "chats", "entry"} \subseteq Places
BY DEF NoRow, BundleRows, NoRequest, Requests, NoReply, Replies, LoggedOut, Contexts,
       Places, Idle, Working, OPKIds

\* The request bodies of the API calls without OPKs.
LEMMA ApiRequestTypes ==
  /\ \A k \in Nat : UpdateRequest(k) \in Requests /\ CreateRequest(k) \in Requests
  /\ TokenRequest \in Requests
BY DEF UpdateRequest, CreateRequest, TokenRequest, NoRequest, Requests, OPKIds

\* The request body of an upload of OPK rows.
LEMMA UploadRequestType ==
  ASSUME TypeOK, NEW p \in Procs, NEW rows \in SUBSET OPKRows, NEW fl \in BOOLEAN
  PROVE  UploadRequest(p, rows, fl) \in Requests
<1>1. ctx[p].token \in BOOLEAN
  BY DEF TypeOK, Contexts
<1>. QED
  BY <1>1, IdsType DEF UploadRequest, Requests

\* Sending a request keeps requests and answers typed.
LEMMA SendType ==
  ASSUME TypeOK, NEW p \in Procs, NEW r \in Requests, Send(p, r)
  PROVE  req' \in [Procs -> Requests] /\ rep' \in [Procs -> Replies]
BY ConstantTypes DEF TypeOK, Send

\* So does taking an answer.
LEMMA ConsumeType ==
  ASSUME TypeOK, NEW p \in Procs, Consume(p)
  PROVE  req' \in [Procs -> Requests] /\ rep' \in [Procs -> Replies]
BY ConstantTypes DEF TypeOK, Consume

\* A process that moves to a place of Places keeps pc typed.
LEMMA GotoType ==
  ASSUME TypeOK, NEW p \in Procs, NEW from, NEW to \in Places, Goto(p, from, to)
  PROVE  pc' \in [Procs -> Places]
BY DEF TypeOK, Goto

\* publishByUserId keeps the bundle row typed.
LEMMA PublishBundleType ==
  ASSUME TypeOK, PublishBundle
  PROVE  bundle' \in BundleRows
BY ConstantTypes DEF TypeOK, PublishBundle, BundleRows

\* So do createByUserId and resetByUserId with a freshly generated bundle.
LEMMA CreateBundleType ==
  ASSUME TypeOK, NEW p \in Procs, CreateBundle(ctx[p].lkey) \/ ResetBundle(ctx[p].lkey)
  PROVE  bundle' \in BundleRows
<1>1. ctx[p].lkey \in LocalKeys \cup {NoLocalKey}
  BY DEF TypeOK, Contexts
<1>2. [key |-> fresh, enc |-> ctx[p].lkey, published |-> FALSE] \in BundleRows
  BY <1>1 DEF TypeOK, BundleRows
<1>. QED
  BY <1>2, ConstantTypes DEF CreateBundle, ResetBundle

\* The fields of a context have their types, and so has the context they are set in.
LEMMA ContextTypes ==
  ASSUME TypeOK, NEW p \in Procs
  PROVE  /\ ctx[p] \in Contexts
         /\ \A k \in LocalKeys : [ctx EXCEPT ![p].lkey = k] \in [Procs -> Contexts]
         /\ \A k \in Nat : /\ [ctx EXCEPT ![p].part = k] \in [Procs -> Contexts]
                           /\ [ctx EXCEPT ![p].bundle = k] \in [Procs -> Contexts]
         /\ \A b \in BOOLEAN : [ctx EXCEPT ![p].token = b] \in [Procs -> Contexts]
         /\ [ctx EXCEPT ![p] = LoggedOut] \in [Procs -> Contexts]
BY ConstantTypes DEF TypeOK, Contexts

\* The context after a login: by the screens it has what the server knows.
LEMMA LoginGives ==
  ASSUME TypeOK, NEW p \in Procs, NEW f \in BOOLEAN, Login(p, f)
  PROVE  /\ ctx' \in [Procs -> Contexts]
         /\ ctx'[p].part = (IF f THEN 0 ELSE participant) /\ ctx'[p].viaFlags = f
         /\ ctx'[p].bundle = 0 /\ (~f => ctx'[p].token = (participant # 0))
         /\ \A q \in Procs \ {p} : ctx'[q] = ctx[q]
<1>1. PICK token \in BOOLEAN :
         /\ ctx' = [ctx EXCEPT ![p] = [lkey |-> NoLocalKey,
                                      part |-> IF f THEN 0 ELSE participant,
                                      token |-> token,
                                      bundle |-> 0, viaFlags |-> f]]
         /\ ~f => token = (participant # 0)
  BY DEF Login
<1>2. participant \in Nat /\ ctx \in [Procs -> Contexts]
  BY DEF TypeOK
<1>. QED
  BY <1>1, <1>2 DEF Contexts

\* The server's tables keep their types whatever request is handled.
LEMMA HandleType ==
  ASSUME TypeOK, NEW r \in Requests, Handle(r)
  PROVE  /\ participant' \in Nat /\ stock' \in SUBSET OPKIds
         /\ taken' \in SUBSET OPKIds /\ torn' \in BOOLEAN
BY DEF TypeOK, Handle, Requests, ParticipantAfter, StockAfter, Flushed, Inserts

\* Storing and uploading a new batch keeps the types.
LEMMA StoreAndUploadType ==
  ASSUME TypeOK, NEW p \in Procs, NEW from, NEW to \in Places, NEW fl \in BOOLEAN,
         StoreAndUpload(p, from, to, fl)
  PROVE  TypeOK'
<1>1. ctx[p].lkey \in LocalKeys \cup {NoLocalKey}
  BY DEF TypeOK, Contexts
<1>2. NewBatch(ctx[p].lkey) \in SUBSET OPKRows
  BY <1>1, NewBatchType DEF TypeOK
<1>3. UploadRequest(p, NewBatch(ctx[p].lkey), fl) \in Requests
  BY <1>2, UploadRequestType
<1>4. req' \in [Procs -> Requests] /\ rep' \in [Procs -> Replies]
  BY <1>3, SendType DEF StoreAndUpload
<1>5. pc' \in [Procs -> Places]
  BY GotoType DEF StoreAndUpload
<1>6. opks' \in SUBSET OPKRows /\ fresh' \in Nat \ {0}
  BY <1>2 DEF StoreAndUpload, TypeOK
<1>. QED
  BY <1>4, <1>5, <1>6 DEF StoreAndUpload, TypeOK, server, ghosts

\* So does the middleware's last assignment to the context.
LEMMA FinishType ==
  ASSUME TypeOK, NEW p \in Procs, NEW from, Finish(p, from),
         opks' \in SUBSET OPKRows, req' \in [Procs -> Requests], rep' \in [Procs -> Replies]
  PROVE  TypeOK'
<1>1. pc' \in [Procs -> Places]
  BY GotoType, ConstantTypes DEF Finish
<1>2. ctx' \in [Procs -> Contexts]
  BY ContextTypes DEF Finish, TypeOK
<1>. QED
  BY <1>1, <1>2 DEF Finish, TypeOK, server, ghosts

----------------------------------------------------------------------------
\* A fresh device and an empty server are typed.
LEMMA InitIsTyped == Init => TypeOK
<1>. SUFFICES ASSUME Init PROVE TypeOK
  OBVIOUS
<1>1. /\ req \in [Procs -> Requests] /\ rep \in [Procs -> Replies]
      /\ ctx \in [Procs -> Contexts] /\ pc \in [Procs -> Places]
  BY ConstantTypes DEF Init
<1>2. held \in [Procs -> Nat] /\ alone \in [Procs -> BOOLEAN]
  BY DEF Init
<1>3. bundle \in BundleRows /\ fresh \in Nat \ {0} /\ participant \in Nat
  BY ConstantTypes DEF Init
<1>4. opks = {} /\ stock = {} /\ taken = {} /\ late = {} /\ torn = FALSE
      /\ lost = {} /\ mishaps = 0
  BY DEF Init
<1>. QED
  BY <1>1, <1>2, <1>3, <1>4 DEF TypeOK

\* Type correctness: every step keeps every variable in its type.
THEOREM TypeCorrect == Spec => []TypeOK
<1>2. TypeOK /\ [Next]_vars => TypeOK'
  <2>. SUFFICES ASSUME TypeOK, [Next]_vars PROVE TypeOK'
    OBVIOUS
  <2>. USE DEF TypeOK
  <2>1. ASSUME NEW p \in Procs, NEW f \in BOOLEAN, Login(p, f) PROVE TypeOK'
    <3>1. ctx' \in [Procs -> Contexts]
      BY <2>1, LoginGives
    <3>. QED
      BY <2>1, <3>1, ConstantTypes DEF Login, Mishap, Goto, local, server, wire
  <2>2. ASSUME NEW p \in Procs, NEW k \in LocalKeys, ChooseKey(p, k) PROVE TypeOK'
    BY <2>2, ContextTypes DEF ChooseKey, local, server, wire, ghosts
  <2>3. ASSUME NEW p \in Procs, OpenChats(p) PROVE TypeOK'
    BY <2>3, GotoType, ConstantTypes DEF OpenChats, local, server, wire, ghosts
  <2>4. ASSUME NEW p \in Procs, BackToMenu(p) PROVE TypeOK'
    BY <2>4, GotoType, ConstantTypes DEF BackToMenu, local, server, wire, ghosts
  <2>5. ASSUME NEW p \in Procs, ExitAtPrompt(p) PROVE TypeOK'
    BY <2>5, GotoType, ConstantTypes DEF ExitAtPrompt, local, server, wire, ghosts
  <2>6. ASSUME NEW p \in Procs, ResetAtPrompt(p) PROVE TypeOK'
    <3>1. bundle' \in BundleRows
      BY <2>6, CreateBundleType DEF ResetAtPrompt
    <3>2. held' \in [Procs -> Nat]
      BY <2>6, <3>1 DEF ResetAtPrompt, BundleRows
    <3>3. req' \in [Procs -> Requests] /\ rep' \in [Procs -> Replies]
      BY <2>6, SendType, ApiRequestTypes DEF ResetAtPrompt
    <3>4. pc' \in [Procs -> Places]
      BY <2>6, GotoType DEF ResetAtPrompt, Places, Awaiting, Uploading
    <3>. QED
      BY <2>6, <3>1, <3>2, <3>3, <3>4 DEF ResetAtPrompt, server, ghosts
  <2>7. ASSUME NEW p \in Procs, GenerateMissingBundle(p) PROVE TypeOK'
    <3>1. bundle' \in BundleRows
      BY <2>7, CreateBundleType DEF GenerateMissingBundle
    <3>2. held' \in [Procs -> Nat]
      BY <2>7, <3>1 DEF GenerateMissingBundle, BundleRows
    <3>3. req' \in [Procs -> Requests] /\ rep' \in [Procs -> Replies]
      BY <2>7, SendType, ApiRequestTypes DEF GenerateMissingBundle
    <3>4. pc' \in [Procs -> Places]
      BY <2>7, GotoType DEF GenerateMissingBundle, Places, Awaiting, Uploading
    <3>. QED
      BY <2>7, <3>1, <3>2, <3>3, <3>4 DEF GenerateMissingBundle, server, ghosts
  <2>8. ASSUME NEW p \in Procs, AskForReset(p) PROVE TypeOK'
    BY <2>8, GotoType DEF AskForReset, Places, Working, local, server, wire, ghosts
  <2>9. ASSUME NEW p \in Procs, PublishAgain(p) PROVE TypeOK'
    <3>1. bundle' \in BundleRows
      BY <2>9, PublishBundleType DEF PublishAgain
    <3>2. ctx' \in [Procs -> Contexts]
      BY <2>9, ContextTypes DEF PublishAgain, Replies
    <3>3. req' \in [Procs -> Requests] /\ rep' \in [Procs -> Replies]
      BY <2>9, SendType, ApiRequestTypes DEF PublishAgain
    <3>4. pc' \in [Procs -> Places]
      BY <2>9, GotoType DEF PublishAgain, Places, Idle, Working, Awaiting, Uploading
    <3>. QED
      BY <2>9, <3>1, <3>2, <3>3, <3>4 DEF PublishAgain, server, ghosts
  <2>10. ASSUME NEW p \in Procs, ResetOfVanishedRow(p) PROVE TypeOK'
    <3>1. bundle' \in BundleRows
      BY <2>10, PublishBundleType DEF ResetOfVanishedRow
    <3>2. ctx' \in [Procs -> Contexts]
      BY <2>10, ContextTypes DEF ResetOfVanishedRow, Replies
    <3>3. req' \in [Procs -> Requests] /\ rep' \in [Procs -> Replies]
      BY <2>10, ConsumeType DEF ResetOfVanishedRow
    <3>4. pc' \in [Procs -> Places]
      BY <2>10, GotoType DEF ResetOfVanishedRow, Places, Idle, Working, Awaiting, Uploading
    <3>. QED
      BY <2>10, <3>1, <3>2, <3>3, <3>4 DEF ResetOfVanishedRow, server, ghosts
  <2>11. ASSUME NEW p \in Procs, CompareWithServer(p) PROVE TypeOK'
    <3>1. bundle.key \in Nat
      BY DEF BundleRows
    <3>2. req' \in [Procs -> Requests] /\ rep' \in [Procs -> Replies]
      BY <2>11, <3>1, SendType, ApiRequestTypes DEF CompareWithServer
    <3>3. pc' \in [Procs -> Places]
      BY <2>11, GotoType DEF CompareWithServer, Places, Working, Awaiting, Uploading
    <3>. QED
      BY <2>11, <3>1, <3>2, <3>3 DEF CompareWithServer, local, server, ghosts
  <2>12. ASSUME NEW p \in Procs, MarkPublished(p) PROVE TypeOK'
    <3>1. bundle' \in BundleRows
      BY <2>12, PublishBundleType DEF MarkPublished
    <3>2. ctx' \in [Procs -> Contexts]
      BY <2>12, ContextTypes DEF MarkPublished, Replies
    <3>3. req' \in [Procs -> Requests] /\ rep' \in [Procs -> Replies]
      BY <2>12, ConsumeType DEF MarkPublished
    <3>4. pc' \in [Procs -> Places]
      BY <2>12, GotoType DEF MarkPublished, Places, Idle, Working, Awaiting, Uploading
    <3>. QED
      BY <2>12, <3>1, <3>2, <3>3, <3>4 DEF MarkPublished, server, ghosts
  <2>13. ASSUME NEW p \in Procs, SkipPublishedOPKs(p) PROVE TypeOK'
    BY <2>13, GotoType DEF SkipPublishedOPKs, Places, Working, local, server, wire, ghosts
  <2>14. ASSUME NEW p \in Procs, UploadNonPublishedOPKs(p) PROVE TypeOK'
    <3>1. UploadRequest(p, NonPublished(opks), TRUE) \in Requests
      BY UploadRequestType DEF NonPublished
    <3>2. req' \in [Procs -> Requests] /\ rep' \in [Procs -> Replies]
      BY <2>14, <3>1, SendType DEF UploadNonPublishedOPKs
    <3>3. pc' \in [Procs -> Places]
      BY <2>14, GotoType DEF UploadNonPublishedOPKs, Places, Awaiting, Uploading
    <3>. QED
      BY <2>14, <3>2, <3>3 DEF UploadNonPublishedOPKs, local, server, ghosts
  <2>15. ASSUME NEW p \in Procs, ClearUndecryptableOPKs(p) PROVE TypeOK'
    BY <2>15, GotoType DEF ClearUndecryptableOPKs, Places, Working, server, wire, ghosts
  <2>16. ASSUME NEW p \in Procs, RegenerateOPKs(p) PROVE TypeOK'
    BY <2>16, StoreAndUploadType DEF RegenerateOPKs, Places, Awaiting, Uploading
  <2>17. ASSUME NEW p \in Procs, OPKsUploaded(p) PROVE TypeOK'
    <3>1. pc' \in [Procs -> Places]
      BY <2>17, GotoType DEF OPKsUploaded, Places, Working
    <3>. QED
      BY <2>17, <3>1, ConsumeType, PublishedType DEF OPKsUploaded, MarkOPKsPublished,
         server, ghosts
  <2>18. ASSUME NEW p \in Procs, Replenish(p) PROVE TypeOK'
    BY <2>18, StoreAndUploadType DEF Replenish, Places, Awaiting, Uploading
  <2>19. ASSUME NEW p \in Procs, EnoughOPKs(p) PROVE TypeOK'
    BY <2>19, FinishType DEF EnoughOPKs
  <2>20. ASSUME NEW p \in Procs, Replenished(p) PROVE TypeOK'
    BY <2>20, FinishType, ConsumeType, PublishedType DEF Replenished, MarkOPKsPublished
  <2>21. ASSUME NEW p \in Procs, ClearBundle(p) PROVE TypeOK'
    BY <2>21, GotoType, ConstantTypes DEF ClearBundle, Places, Working, server, wire, ghosts
  <2>22. ASSUME NEW p \in Procs, CreateParticipant(p) PROVE TypeOK'
    <3>1. bundle' \in BundleRows
      BY <2>22, CreateBundleType DEF CreateParticipant
    <3>2. held' \in [Procs -> Nat]
      BY <2>22, <3>1 DEF CreateParticipant, BundleRows
    <3>3. req' \in [Procs -> Requests] /\ rep' \in [Procs -> Replies]
      BY <2>22, SendType, ApiRequestTypes DEF CreateParticipant
    <3>4. pc' \in [Procs -> Places]
      BY <2>22, GotoType DEF CreateParticipant, Places, Awaiting, Uploading
    <3>. QED
      BY <2>22, <3>1, <3>2, <3>3, <3>4 DEF CreateParticipant, server, ghosts
  <2>23. ASSUME NEW p \in Procs, CreateOverExistingRow(p) PROVE TypeOK'
    BY <2>23, GotoType, ConstantTypes, ContextTypes DEF CreateOverExistingRow, local,
       server, wire, ghosts
  <2>24. ASSUME NEW p \in Procs, ParticipantCreated(p) PROVE TypeOK'
    <3>1. bundle' \in BundleRows
      BY <2>24, PublishBundleType DEF ParticipantCreated
    <3>2. ctx' \in [Procs -> Contexts]
      BY <2>24, ContextTypes DEF ParticipantCreated, Replies
    <3>3. req' \in [Procs -> Requests] /\ rep' \in [Procs -> Replies]
      BY <2>24, SendType, ApiRequestTypes DEF ParticipantCreated
    <3>4. pc' \in [Procs -> Places]
      BY <2>24, GotoType DEF ParticipantCreated, Places, Idle, Working, Awaiting, Uploading
    <3>. QED
      BY <2>24, <3>1, <3>2, <3>3, <3>4 DEF ParticipantCreated, server, ghosts
  <2>25. ASSUME NEW p \in Procs, TokenReceived(p) PROVE TypeOK'
    <3>1. ctx' \in [Procs -> Contexts]
      BY <2>25, ContextTypes DEF TokenReceived
    <3>2. pc' \in [Procs -> Places]
      BY <2>25, GotoType DEF TokenReceived, Places, Working
    <3>. QED
      BY <2>25, <3>1, <3>2, ConsumeType DEF TokenReceived, server, ghosts
  <2>26. ASSUME NEW p \in Procs, UploadFirstOPKs(p) PROVE TypeOK'
    BY <2>26, StoreAndUploadType DEF UploadFirstOPKs, Places, Awaiting, Uploading
  <2>27. ASSUME NEW p \in Procs, FirstOPKsUploaded(p) PROVE TypeOK'
    BY <2>27, FinishType, ConsumeType, PublishedType DEF FirstOPKsUploaded,
       MarkOPKsPublished
  <2>28. ASSUME NEW p \in Procs, Refused(p) PROVE TypeOK'
    BY <2>28, ConstantTypes, ContextTypes, ConsumeType DEF Refused, local, server, ghosts
  <2>29. ASSUME NEW p \in Procs, Stop(p) PROVE TypeOK'
    <3>1. Ids(NonPublished(opks)) \in SUBSET OPKIds
      BY IdsType DEF NonPublished
    <3>2. lost' \in SUBSET OPKIds
      BY <2>29, <3>1 DEF Stop
    <3>3. pc' \in [Procs -> Places] /\ ctx' \in [Procs -> Contexts]
          /\ req' \in [Procs -> Requests] /\ rep' \in [Procs -> Replies]
      BY <2>29, ConstantTypes, ContextTypes DEF Stop
    <3>4. late' \in SUBSET Requests /\ mishaps' \in Nat /\ torn' \in BOOLEAN
      BY <2>29 DEF Stop, Mishap
    <3>. QED
      BY <2>29, <3>2, <3>3, <3>4 DEF Stop, local, server
  <2>30. ASSUME NEW p \in Procs, ServerHandles(p) PROVE TypeOK'
    <3>1. req[p] \in Requests /\ Handle(req[p])
      BY <2>30 DEF ServerHandles
    <3>2. /\ participant' \in Nat /\ stock' \in SUBSET OPKIds
          /\ taken' \in SUBSET OPKIds /\ torn' \in BOOLEAN
      BY <3>1, HandleType
    <3>3. req' \in [Procs -> Requests] /\ rep' \in [Procs -> Replies]
      <4>1. PICK status \in Answers(req[p]) :
               rep' = [rep EXCEPT ![p] = [status |-> status, key |-> participant']]
        BY <2>30 DEF ServerHandles
      <4>2. status \in {"ok", "refused"}
        BY DEF Answers
      <4>3. rep' \in [Procs -> Replies]
        BY <3>2, <4>1, <4>2 DEF Replies
      <4>. QED
        BY <2>30, <4>3, ConstantTypes DEF ServerHandles
    <3>. QED
      BY <2>30, <3>2, <3>3 DEF ServerHandles, local, client
  <2>31. CASE ServerHandlesLate
    <3>1. PICK r \in late : /\ Handle(r) /\ late' = late \ {r}
                          /\ UNCHANGED <<local, req, rep, client, alone, lost, mishaps>>
      BY <2>31 DEF ServerHandlesLate
    <3>2. /\ participant' \in Nat /\ stock' \in SUBSET OPKIds
          /\ taken' \in SUBSET OPKIds /\ torn' \in BOOLEAN
      BY <3>1, HandleType
    <3>. QED
      BY <3>1, <3>2 DEF local, client
  <2>32. CASE PeerTakes
    BY <2>32 DEF PeerTakes, local, wire, client, ghosts
  <2>33. CASE UNCHANGED vars
    BY <2>33 DEF vars, local, server, wire, client, ghosts
  <2>. QED
    BY <2>1, <2>2, <2>3, <2>4, <2>5, <2>6, <2>7, <2>8, <2>9, <2>10, <2>11, <2>12, <2>13,
       <2>14, <2>15, <2>16, <2>17, <2>18, <2>19, <2>20, <2>21, <2>22, <2>23, <2>24,
       <2>25, <2>26, <2>27, <2>28, <2>29, <2>30, <2>31, <2>32, <2>33
       DEF Next, User, Setup, SetupWithParticipant, SetupWithoutParticipant
<1>. QED
  BY <1>2, InitIsTyped, PTL DEF Spec

----------------------------------------------------------------------------
(* The identity after a lone setup.                                        *)

\* The parts of LoneSetupInv that speak of every process, alone or not.
LEMMA CallsAndRowsInvariant ==
  ASSUME TypeOK, CallsAreAwaited, RowsHaveKeys, BundleAfterSetup, [Next]_vars
  PROVE  CallsAreAwaited' /\ RowsHaveKeys' /\ BundleAfterSetup'
<1>. DEFINE Goal == CallsAreAwaited /\ RowsHaveKeys /\ BundleAfterSetup
<1>. USE DEF TypeOK, CallsAreAwaited, RowsHaveKeys, BundleAfterSetup, Awaiting, Uploading, Goto
<1>1. ASSUME NEW p \in Procs, NEW f \in BOOLEAN, Login(p, f) PROVE Goal'
  BY <1>1 DEF Login, local, server, wire, LoggedOut
<1>2. ASSUME NEW p \in Procs, NEW k \in LocalKeys, ChooseKey(p, k) PROVE Goal'
  BY <1>2 DEF ChooseKey, local, server, wire, ghosts
<1>3. ASSUME NEW p \in Procs, OpenChats(p) PROVE Goal'
  BY <1>3 DEF OpenChats, local, server, wire, ghosts
<1>4. ASSUME NEW p \in Procs, BackToMenu(p) PROVE Goal'
  BY <1>4 DEF BackToMenu, local, server, wire, ghosts
<1>5. ASSUME NEW p \in Procs, ExitAtPrompt(p) PROVE Goal'
  BY <1>5 DEF ExitAtPrompt, local, server, wire, ghosts
<1>6. ASSUME NEW p \in Procs, ResetAtPrompt(p) PROVE Goal'
  BY <1>6 DEF ResetAtPrompt, ResetBundle, Send, NoRow
<1>7. ASSUME NEW p \in Procs, GenerateMissingBundle(p) PROVE Goal'
  BY <1>7 DEF GenerateMissingBundle, CreateBundle, Send, NoRow
<1>8. ASSUME NEW p \in Procs, AskForReset(p) PROVE Goal'
  BY <1>8 DEF AskForReset, local, server, wire, ghosts
<1>9. ASSUME NEW p \in Procs, PublishAgain(p) PROVE Goal'
  BY <1>9 DEF PublishAgain, PublishBundle, Send, NoRow, Answered
<1>10. ASSUME NEW p \in Procs, ResetOfVanishedRow(p) PROVE Goal'
  BY <1>10 DEF ResetOfVanishedRow, PublishBundle, Consume, Answered, NoReply, NoRow,
     LoggedOut
<1>11. ASSUME NEW p \in Procs, CompareWithServer(p) PROVE Goal'
  BY <1>11 DEF CompareWithServer, Send, local, server, wire, ghosts
<1>12. ASSUME NEW p \in Procs, MarkPublished(p) PROVE Goal'
  BY <1>12 DEF MarkPublished, PublishBundle, Consume, Answered, NoReply, NoRow
<1>13. ASSUME NEW p \in Procs, SkipPublishedOPKs(p) PROVE Goal'
  BY <1>13 DEF SkipPublishedOPKs, local, server, wire, ghosts
<1>14. ASSUME NEW p \in Procs, UploadNonPublishedOPKs(p) PROVE Goal'
  BY <1>14 DEF UploadNonPublishedOPKs, Send, local
<1>15. ASSUME NEW p \in Procs, ClearUndecryptableOPKs(p) PROVE Goal'
  BY <1>15 DEF ClearUndecryptableOPKs, server, wire
<1>16. ASSUME NEW p \in Procs, RegenerateOPKs(p) PROVE Goal'
  BY <1>16 DEF RegenerateOPKs, StoreAndUpload, Send
<1>17. ASSUME NEW p \in Procs, OPKsUploaded(p) PROVE Goal'
  BY <1>17 DEF OPKsUploaded, Consume, Answered, NoReply
<1>18. ASSUME NEW p \in Procs, Replenish(p) PROVE Goal'
  BY <1>18 DEF Replenish, StoreAndUpload, Send
<1>19. ASSUME NEW p \in Procs, EnoughOPKs(p) PROVE Goal'
  BY <1>19 DEF EnoughOPKs, Finish
<1>20. ASSUME NEW p \in Procs, Replenished(p) PROVE Goal'
  BY <1>20 DEF Replenished, Finish, Consume, Answered, NoReply
<1>21. ASSUME NEW p \in Procs, ClearBundle(p) PROVE Goal'
  BY <1>21 DEF ClearBundle, wire, NoRow
<1>22. ASSUME NEW p \in Procs, CreateParticipant(p) PROVE Goal'
  BY <1>22 DEF CreateParticipant, CreateBundle, Send, NoRow
<1>23. ASSUME NEW p \in Procs, CreateOverExistingRow(p) PROVE Goal'
  BY <1>23 DEF CreateOverExistingRow, local, wire, LoggedOut
<1>24. ASSUME NEW p \in Procs, ParticipantCreated(p) PROVE Goal'
  BY <1>24 DEF ParticipantCreated, PublishBundle, Send, NoRow, Answered
<1>25. ASSUME NEW p \in Procs, TokenReceived(p) PROVE Goal'
  BY <1>25 DEF TokenReceived, Consume, Answered, NoReply
<1>26. ASSUME NEW p \in Procs, UploadFirstOPKs(p) PROVE Goal'
  BY <1>26 DEF UploadFirstOPKs, StoreAndUpload, Send
<1>27. ASSUME NEW p \in Procs, FirstOPKsUploaded(p) PROVE Goal'
  BY <1>27 DEF FirstOPKsUploaded, Finish, Consume, Answered, NoReply
<1>28. ASSUME NEW p \in Procs, Refused(p) PROVE Goal'
  BY <1>28 DEF Refused, Consume, NoReply, LoggedOut, local
<1>29. ASSUME NEW p \in Procs, Stop(p) PROVE Goal'
  BY <1>29 DEF Stop, LoggedOut, local
<1>30. ASSUME NEW p \in Procs, ServerHandles(p) PROVE Goal'
  BY <1>30 DEF ServerHandles, local, client
<1>31. ASSUME ServerHandlesLate PROVE Goal'
  BY <1>31 DEF ServerHandlesLate, local, client
<1>32. ASSUME PeerTakes PROVE Goal'
  <2>1. UNCHANGED <<bundle, req, rep, pc, ctx>>
    BY <1>32, Zenon DEF PeerTakes, local, wire, client
  <2>. QED
    BY <2>1
<1>33. ASSUME UNCHANGED vars PROVE Goal'
  BY <1>33 DEF vars, local, wire, client
<1>. QED
  BY <1>1, <1>2, <1>3, <1>4, <1>5, <1>6, <1>7, <1>8, <1>9, <1>10, <1>11, <1>12, <1>13,
     <1>14, <1>15, <1>16, <1>17, <1>18, <1>19, <1>20, <1>21, <1>22, <1>23, <1>24, <1>25,
     <1>26, <1>27, <1>28, <1>29, <1>30, <1>31, <1>32, <1>33
     DEF Next, User, Setup, SetupWithParticipant, SetupWithoutParticipant

\* Every step of a process but its login is taken by one that is not off.
LEMMA OffProcessRests ==
  ASSUME CallsAreAwaited, NEW q \in Procs,
         \/ \E k \in LocalKeys : ChooseKey(q, k)
         \/ OpenChats(q) \/ BackToMenu(q) \/ ExitAtPrompt(q) \/ ResetAtPrompt(q)
         \/ Setup(q) \/ Stop(q) \/ ServerHandles(q)
  PROVE  pc[q] # "off"
<1>1. \A r \in Procs : pc[r] = "off" => req[r] = NoRequest /\ rep[r] = NoReply
  BY DEF CallsAreAwaited, Awaiting, Uploading
<1>2. ~Setup(q) => pc[q] # "off"
  BY <1>1 DEF ChooseKey, OpenChats, BackToMenu, ExitAtPrompt, ResetAtPrompt, Stop,
     ServerHandles, Goto
<1>3. SetupWithParticipant(q) => pc[q] # "off"
  BY DEF SetupWithParticipant, GenerateMissingBundle, AskForReset, PublishAgain,
     ResetOfVanishedRow, CompareWithServer, MarkPublished, SkipPublishedOPKs,
     UploadNonPublishedOPKs, ClearUndecryptableOPKs, RegenerateOPKs, OPKsUploaded,
     Replenish, EnoughOPKs, Replenished, StoreAndUpload, Finish, Goto
<1>4. SetupWithoutParticipant(q) => pc[q] # "off"
  BY DEF SetupWithoutParticipant, ClearBundle, CreateParticipant, CreateOverExistingRow,
     ParticipantCreated, TokenReceived, UploadFirstOPKs, FirstOPKsUploaded,
     StoreAndUpload, Finish, Goto
<1>5. Refused(q) => pc[q] # "off"
  BY <1>1 DEF Refused, NoReply
<1>. QED
  BY <1>2, <1>3, <1>4, <1>5 DEF Setup

\* Beside a lone process that is up no other one takes such a step.
LEMMA OnlyTheLoneProcessActs ==
  ASSUME LoneSetupInv, NEW p \in Procs, alone[p], pc[p] # "off", NEW q \in Procs,
         \/ \E k \in LocalKeys : ChooseKey(q, k)
         \/ OpenChats(q) \/ BackToMenu(q) \/ ExitAtPrompt(q) \/ ResetAtPrompt(q)
         \/ Setup(q) \/ Stop(q) \/ ServerHandles(q)
  PROVE  q = p
<1>1. pc[q] # "off"
  BY OffProcessRests DEF LoneSetupInv
<1>2. OthersOff(p)
  BY DEF LoneSetupInv, Lone
<1>. QED
  BY <1>1, <1>2 DEF OthersOff

\* Such a step changes neither alone nor the place of another process.
LEMMA AloneIsSetAtLogin ==
  ASSUME NEW q \in Procs,
         \/ \E k \in LocalKeys : ChooseKey(q, k)
         \/ OpenChats(q) \/ BackToMenu(q) \/ ExitAtPrompt(q) \/ ResetAtPrompt(q)
         \/ Setup(q) \/ Stop(q) \/ ServerHandles(q)
  PROVE  alone' = alone
BY DEF ChooseKey, OpenChats, BackToMenu, ExitAtPrompt, ResetAtPrompt, Stop, ServerHandles,
   Setup, SetupWithParticipant, SetupWithoutParticipant, GenerateMissingBundle,
   AskForReset, PublishAgain, ResetOfVanishedRow, CompareWithServer, MarkPublished,
   SkipPublishedOPKs, UploadNonPublishedOPKs, ClearUndecryptableOPKs, RegenerateOPKs,
   OPKsUploaded, Replenish, EnoughOPKs, Replenished, ClearBundle, CreateParticipant,
   CreateOverExistingRow, ParticipantCreated, TokenReceived, UploadFirstOPKs,
   FirstOPKsUploaded, StoreAndUpload, Finish, Refused, ghosts

\* Such a step moves only the process that takes it.
LEMMA OneProcessMoves ==
  ASSUME TypeOK, NEW q \in Procs, NEW p \in Procs, pc'[p] # pc[p],
         \/ \E k \in LocalKeys : ChooseKey(q, k)
         \/ OpenChats(q) \/ BackToMenu(q) \/ ExitAtPrompt(q) \/ ResetAtPrompt(q)
         \/ Setup(q) \/ Stop(q) \/ ServerHandles(q)
  PROVE  q = p
<1>. USE DEF TypeOK, Goto
<1>1. Setup(q) => q = p
  BY DEF Setup, SetupWithParticipant, SetupWithoutParticipant, GenerateMissingBundle,
     AskForReset, PublishAgain, ResetOfVanishedRow, CompareWithServer, MarkPublished,
     SkipPublishedOPKs, UploadNonPublishedOPKs, ClearUndecryptableOPKs, RegenerateOPKs,
     OPKsUploaded, Replenish, EnoughOPKs, Replenished, ClearBundle, CreateParticipant,
     CreateOverExistingRow, ParticipantCreated, TokenReceived, UploadFirstOPKs,
     FirstOPKsUploaded, StoreAndUpload, Finish, Refused
<1>2. ~Setup(q) => q = p
  BY DEF ChooseKey, OpenChats, BackToMenu, ExitAtPrompt, ResetAtPrompt, Stop,
     ServerHandles, client
<1>. QED
  BY <1>1, <1>2

\* One step of a lone process: where it stands then, the stores agree as far as they should.
LEMMA LoneProcessKeepsAgreement ==
  ASSUME LoneSetupInv, NEW p \in Procs, alone[p], pc[p] # "off", pc'[p] # "off",
         CallsAreAwaited', RowsHaveKeys', BundleAfterSetup',
         \/ \E k \in LocalKeys : ChooseKey(p, k)
         \/ OpenChats(p) \/ BackToMenu(p) \/ ExitAtPrompt(p) \/ ResetAtPrompt(p)
         \/ Setup(p) \/ Stop(p) \/ ServerHandles(p)
  PROVE  Lone(p)'
<1>1. Lone(p) /\ TypeOK /\ CallsAreAwaited /\ RowsHaveKeys /\ BundleAfterSetup
  BY DEF LoneSetupInv
<1>. USE <1>1 DEF Lone, OthersOff, TypeOK, Places, Idle, Working, Goto, Answered,
     Awaiting, Uploading, BundleAfterSetup
<1>2. ASSUME NEW k \in LocalKeys, ChooseKey(p, k) PROVE Lone(p)'
  BY <1>2 DEF ChooseKey, AgreesWithServer, BeforeSetup, PromptedForRow, HeldIsServed,
     local, server, wire
<1>3. CASE OpenChats(p)
  BY <1>3 DEF OpenChats, AgreesWithServer, BeforeSetup, PromptedForRow, local, server, wire
<1>4. CASE BackToMenu(p)
  BY <1>4 DEF BackToMenu, AgreesWithServer, BeforeSetup, PromptedForRow, local, server, wire
<1>5. CASE ExitAtPrompt(p)
  BY <1>5 DEF ExitAtPrompt, AgreesWithServer, BeforeSetup, PromptedForRow, local, server,
     wire
<1>6. CASE ResetAtPrompt(p)
  BY <1>6 DEF ResetAtPrompt, AgreesWithServer, BeforeSetup, PromptedForRow, ResetBundle,
     SendingHeld, Send, UpdateRequest, NoRequest, NoReply, server
<1>7. CASE GenerateMissingBundle(p)
  BY <1>7 DEF GenerateMissingBundle, AgreesWithServer, BeforeSetup, PromptedForRow,
     CreateBundle, SendingHeld, Send, UpdateRequest, NoRequest, NoReply, server
<1>8. CASE AskForReset(p)
  BY <1>8 DEF AskForReset, AgreesWithServer, BeforeSetup, PromptedForRow, local, server,
     wire
<1>9. CASE PublishAgain(p)
  BY <1>9 DEF PublishAgain, SendingHeld, PublishBundle, Send, UpdateRequest, NoRequest,
     NoReply, NoRow, server, CallsAreAwaited
<1>10. CASE CompareWithServer(p)
  <2>1. /\ bundle.key # 0 /\ held'[p] = bundle.key /\ bundle' = bundle
        /\ ctx' = ctx /\ participant' = participant /\ late' = late
    BY <1>10 DEF CompareWithServer, RowsHaveKeys, local, server
  <2>2. ctx[p].bundle = 0 /\ ctx[p].part = participant
    BY <1>10 DEF CompareWithServer, BeforeSetup
  <2>3. CASE pc'[p] = "republishing"
    <3>1. req'[p] = UpdateRequest(bundle.key) /\ rep'[p] = NoReply
      BY <1>10, <2>3 DEF CompareWithServer, Send
    <3>. QED
      BY <1>10, <2>1, <2>2, <2>3, <3>1
         DEF CompareWithServer, SendingHeld, UpdateRequest, NoRequest, NoReply
  <2>4. CASE pc'[p] = "inspecting"
    <3>1. req'[p] = NoRequest /\ bundle.published /\ bundle.key = ctx[p].part
      BY <1>10, <2>4 DEF CompareWithServer, CallsAreAwaited
    <3>. QED
      BY <1>10, <2>1, <2>2, <2>4, <3>1 DEF CompareWithServer, HeldIsServed
  <2>. QED
    BY <1>10, <2>3, <2>4 DEF CompareWithServer
<1>11. CASE MarkPublished(p)
  BY <1>11 DEF MarkPublished, SendingHeld, HeldIsServed, PublishBundle, Consume, NoReply,
     NoRow, server, CallsAreAwaited
<1>12. CASE SkipPublishedOPKs(p)
  BY <1>12 DEF SkipPublishedOPKs, HeldIsServed, local, server, wire
<1>13. CASE UploadNonPublishedOPKs(p)
  BY <1>13 DEF UploadNonPublishedOPKs, HeldIsServed, Send, UploadRequest, NoRequest,
     local, server
<1>14. CASE ClearUndecryptableOPKs(p)
  BY <1>14 DEF ClearUndecryptableOPKs, HeldIsServed, server, wire
<1>15. CASE RegenerateOPKs(p)
  BY <1>15 DEF RegenerateOPKs, HeldIsServed, StoreAndUpload, Send, UploadRequest, server
<1>16. CASE OPKsUploaded(p)
  BY <1>16 DEF OPKsUploaded, HeldIsServed, Consume, server
<1>17. CASE Replenish(p)
  BY <1>17 DEF Replenish, HeldIsServed, StoreAndUpload, Send, UploadRequest, server
<1>18. CASE EnoughOPKs(p)
  BY <1>18 DEF EnoughOPKs, AgreesWithServer, BeforeSetup, PromptedForRow, HeldIsServed,
     Finish, server
<1>19. CASE Replenished(p)
  BY <1>19 DEF Replenished, AgreesWithServer, BeforeSetup, PromptedForRow, HeldIsServed,
     Finish, Consume, server
<1>20. CASE ClearBundle(p)
  BY <1>20 DEF ClearBundle, AgreesWithServer, BeforeSetup, PromptedForRow, server, wire
<1>21. CASE CreateParticipant(p)
  BY <1>21 DEF CreateParticipant, AgreesWithServer, BeforeSetup, PromptedForRow,
     CreateBundle, SendingHeld, Send, CreateRequest, NoRequest, NoReply, server
<1>22. CASE ParticipantCreated(p)
  BY <1>22 DEF ParticipantCreated, SendingHeld, HeldIsServed, PublishBundle, Send,
     TokenRequest, NoRequest, NoReply, NoRow, server, CallsAreAwaited
<1>23. CASE TokenReceived(p)
  BY <1>23 DEF TokenReceived, HeldIsServed, Consume, server
<1>24. CASE UploadFirstOPKs(p)
  BY <1>24 DEF UploadFirstOPKs, HeldIsServed, StoreAndUpload, Send, UploadRequest, server
<1>25. CASE FirstOPKsUploaded(p)
  BY <1>25 DEF FirstOPKsUploaded, AgreesWithServer, BeforeSetup, PromptedForRow,
     HeldIsServed, Finish, Consume, server
<1>26. CASE ServerHandles(p)
  <2>1. req[p] # NoRequest /\ rep[p] = NoReply /\ pc[p] \in Awaiting
    BY <1>26 DEF ServerHandles, CallsAreAwaited
  <2>2. CASE pc[p] \in {"publishing", "republishing", "creating"}
    <3>1. /\ req[p].key = held[p]
          /\ req[p].kind = IF pc[p] = "creating" THEN "create" ELSE "update"
      BY <2>1, <2>2 DEF SendingHeld
    <3>2. rep'[p].status = "ok" => participant' = held[p] /\ rep'[p].key = held[p]
      BY <1>26, <3>1 DEF ServerHandles, Handle, ParticipantAfter, Answers
    <3>. QED
      BY <1>26, <2>1, <2>2, <3>2 DEF ServerHandles, SendingHeld, local, client
  <2>3. CASE pc[p] \notin {"publishing", "republishing", "creating"}
    <3>1. req[p].kind \in {"token", "upload"}
      BY <2>1, <2>3 DEF HeldIsServed
    <3>2. participant' = participant
      BY <1>26, <3>1 DEF ServerHandles, Handle, ParticipantAfter
    <3>. QED
      BY <1>26, <2>1, <2>3, <3>2 DEF ServerHandles, HeldIsServed, local, client
  <2>. QED
    BY <2>2, <2>3
<1>27. CASE Stop(p) \/ ResetOfVanishedRow(p) \/ CreateOverExistingRow(p) \/ Refused(p)
  BY <1>27 DEF Stop, ResetOfVanishedRow, CreateOverExistingRow, Refused
<1>. QED
  BY <1>2, <1>3, <1>4, <1>5, <1>6, <1>7, <1>8, <1>9, <1>10, <1>11, <1>12, <1>13, <1>14,
     <1>15, <1>16, <1>17, <1>18, <1>19, <1>20, <1>21, <1>22, <1>23, <1>24, <1>25, <1>26,
     <1>27
     DEF Setup, SetupWithParticipant, SetupWithoutParticipant

\* Beside a lone process nothing else is active, and where it stands tells how far the row,
\* the server and the context agree: the strengthening under which agreement is inductive.
THEOREM LoneSetupInvariant == Spec => []LoneSetupInv
<1>1. Init => LoneSetupInv
  <2>1. Init => CallsAreAwaited /\ RowsHaveKeys /\ BundleAfterSetup
    BY DEF Init, CallsAreAwaited, RowsHaveKeys, BundleAfterSetup, LoggedOut
  <2>2. Init => \A p \in Procs : ~alone[p]
    BY DEF Init
  <2>. QED
    BY <2>1, <2>2, InitIsTyped DEF LoneSetupInv
<1>2. LoneSetupInv /\ TypeOK' /\ [Next]_vars => LoneSetupInv'
  <2>. SUFFICES ASSUME LoneSetupInv, TypeOK', [Next]_vars PROVE LoneSetupInv'
    OBVIOUS
  <2>1. CallsAreAwaited' /\ RowsHaveKeys' /\ BundleAfterSetup'
    BY CallsAndRowsInvariant DEF LoneSetupInv
  <2>2. ASSUME NEW p \in Procs, alone'[p], pc'[p] # "off" PROVE Lone(p)'
    <3>1. CASE \E q \in Procs, f \in BOOLEAN : Login(q, f)
      <4>1. PICK f \in BOOLEAN : Login(p, f)
        <5>1. PICK q \in Procs, f \in BOOLEAN : Login(q, f)
          BY <3>1
        <5>2. alone' = [r \in Procs |-> r = q /\ OthersOff(q) /\ late = {}]
          BY <5>1 DEF Login
        <5>3. p = q
          BY <2>2, <5>2, Zenon
        <5>. QED
          BY <5>1, <5>3
      <4>2. /\ OthersOff(p) /\ late = {} /\ late' = late /\ participant' = participant
            /\ pc' = [pc EXCEPT ![p] = "menu"]
        BY <2>2, <4>1 DEF Login, LoneSetupInv, TypeOK, wire, server, Goto
      <4>3. ctx'[p].bundle = 0 /\ ctx'[p].part \in {0, participant} /\ pc'[p] = "menu"
        BY <4>1 DEF Login, Goto, LoneSetupInv, TypeOK
      <4>. QED
        BY <4>2, <4>3 DEF Lone, OthersOff, BeforeSetup, PromptedForRow
    <3>2. CASE \E q \in Procs : \/ \E k \in LocalKeys : ChooseKey(q, k)
                               \/ OpenChats(q) \/ BackToMenu(q) \/ ExitAtPrompt(q)
                               \/ ResetAtPrompt(q) \/ Setup(q) \/ Stop(q) \/ ServerHandles(q)
      <4>1. PICK q \in Procs : \/ \E k \in LocalKeys : ChooseKey(q, k)
                               \/ OpenChats(q) \/ BackToMenu(q) \/ ExitAtPrompt(q)
                               \/ ResetAtPrompt(q) \/ Setup(q) \/ Stop(q) \/ ServerHandles(q)
        BY <3>2
      <4>2. alone[p]
        BY <2>2, <4>1, AloneIsSetAtLogin
      <4>3. pc[p] # "off"
        <5>. SUFFICES ASSUME pc[p] = "off" PROVE FALSE
          OBVIOUS
        <5>1. q = p
          BY <2>2, <4>1, OneProcessMoves DEF LoneSetupInv
        <5>. QED
          BY <4>1, <5>1, OffProcessRests DEF LoneSetupInv
      <4>4. q = p
        BY <4>1, <4>2, <4>3, OnlyTheLoneProcessActs
      <4>. QED
        BY <2>1, <2>2, <4>1, <4>2, <4>3, <4>4, LoneProcessKeepsAgreement
    <3>3. CASE ServerHandlesLate
      <4>1. alone[p] /\ pc[p] # "off" /\ late # {}
        BY <2>2, <3>3 DEF ServerHandlesLate, client
      <4>. QED
        BY <4>1 DEF LoneSetupInv, Lone
    <3>4. CASE PeerTakes \/ UNCHANGED vars
      <4>1. UNCHANGED <<bundle, participant, req, rep, late, pc, ctx, held, alone>>
        BY <3>4, Zenon DEF PeerTakes, vars, local, server, wire, client, ghosts
      <4>2. Lone(p)
        BY <2>2, <4>1 DEF LoneSetupInv
      <4>. QED
        BY <4>1, <4>2 DEF Lone, OthersOff, BeforeSetup, PromptedForRow, SendingHeld,
           HeldIsServed, AgreesWithServer, Answered
    <3>. QED
      BY <3>1, <3>2, <3>3, <3>4 DEF Next, User
  <2>. QED
    BY <2>1, <2>2 DEF LoneSetupInv
<1>. QED
  BY <1>1, <1>2, TypeCorrect, PTL DEF Spec

\* After a setup that ran alone, the context, the disk and the server have one bundle.
THEOREM LoneSetupAgreement == Spec => []LoneSetupAgrees
<1>1. LoneSetupInv => LoneSetupAgrees
  BY DEF LoneSetupInv, LoneSetupAgrees, BundleAfterSetup, Lone
<1>. QED
  BY <1>1, LoneSetupInvariant, PTL

----------------------------------------------------------------------------
(* What a lone process has on the disk opens with the user's local key.    *)

RowsAreDated == \A o \in opks : o.batch < fresh

BatchesAreSealed == \A o1, o2 \in opks : o1.batch = o2.batch => o1.enc = o2.enc

\* Once the bundle was compared or made it opens with the local key, and so does the
\* latest OPK row once the rows were tried or made.
Unlocks(p) ==
  /\ pc[p] \notin {"off", "menu", "chats", "entry", "prompt", "clearedBundle"}
       => bundle.enc = ctx[p].lkey
  /\ pc[p] \in {"counting", "uploading", "uploadingRest", "replenishing", "firstUploading"}
       => \A o \in Latest(opks) : o.enc = ctx[p].lkey

UnlockInv ==
  /\ LoneSetupInv /\ RowsAreDated /\ BatchesAreSealed
  /\ \A p \in Procs : alone[p] /\ pc[p] # "off" => Unlocks(p)

\* Marking rows changes neither their batches nor the keys they are under.
LEMMA PublishedKeepsKeys ==
  ASSUME NEW rows \in SUBSET OPKRows
  PROVE  /\ \A o \in Published(rows) : \E x \in rows : o.batch = x.batch /\ o.enc = x.enc
         /\ \A k : (\A x \in Latest(rows) : x.enc = k)
                     => \A o \in Latest(Published(rows)) : o.enc = k
<1>. DEFINE mark(x) == [x EXCEPT !.published = TRUE]
<1>1. \A x \in rows : mark(x).batch = x.batch /\ mark(x).enc = x.enc
  BY DEF OPKRows
<1>2. Published(rows) = {mark(x) : x \in rows}
  BY DEF Published
<1>. HIDE DEF mark
<1>3. \A o \in Published(rows) : \E x \in rows : o.batch = x.batch /\ o.enc = x.enc
  BY <1>1, <1>2
<1>4. ASSUME NEW k, \A x \in Latest(rows) : x.enc = k, NEW o \in Latest(Published(rows))
      PROVE  o.enc = k
  <2>1. PICK x \in rows : o = mark(x)
    BY <1>2, <1>4 DEF Latest
  <2>2. \A y \in rows : y.batch <= x.batch
    <3>. SUFFICES ASSUME NEW y \in rows PROVE y.batch <= x.batch
      OBVIOUS
    <3>1. mark(y) \in Published(rows)
      BY <1>2
    <3>. QED
      BY <1>1, <1>4, <2>1, <3>1 DEF Latest
  <2>3. x \in Latest(rows)
    BY <2>2 DEF Latest
  <2>. QED
    BY <1>1, <1>4, <2>1, <2>3
<1>. QED
  BY <1>3, <1>4

\* The latest rows after a new batch was added are those of the batch, whose rows are
\* all under the key it was made with.
LEMMA NewBatchIsLatest ==
  ASSUME TypeOK, RowsAreDated, BatchesAreSealed, NEW k \in LocalKeys \cup {NoLocalKey}
  PROVE  /\ \A o \in opks \cup NewBatch(k) : o.batch < fresh + 1
         /\ \A o1, o2 \in opks \cup NewBatch(k) : o1.batch = o2.batch => o1.enc = o2.enc
         /\ \A o \in Latest(opks \cup NewBatch(k)) : o.enc = k
<1>1. opks \subseteq OPKRows /\ fresh \in Nat \ {0} /\ BatchSize \in Nat \ {0}
  BY SizesAssumption DEF TypeOK
<1>2. \A o \in NewBatch(k) : o.batch = fresh /\ o.enc = k
  BY DEF NewBatch
<1>3. \A o \in opks : o.batch \in Nat /\ o.batch < fresh
  BY <1>1 DEF OPKRows, RowsAreDated
<1>4. [batch |-> fresh, idx |-> 1, enc |-> k, published |-> FALSE] \in NewBatch(k)
  <2>1. 1 \in 1 .. BatchSize
    BY <1>1
  <2>. QED
    BY <2>1, Zenon DEF NewBatch
<1>5. \A o1, o2 \in opks \cup NewBatch(k) : o1.batch = o2.batch => o1.enc = o2.enc
  BY <1>1, <1>2, <1>3 DEF BatchesAreSealed
<1>6. \A o \in Latest(opks \cup NewBatch(k)) : o.batch >= fresh
  <2>1. \E x \in NewBatch(k) : x.batch = fresh
    BY <1>2, <1>4
  <2>. QED
    BY <2>1 DEF Latest
<1>7. \A o \in Latest(opks \cup NewBatch(k)) : o \in NewBatch(k)
  BY <1>1, <1>3, <1>6 DEF Latest
<1>8. \A o \in opks \cup NewBatch(k) : o.batch < fresh + 1
  BY <1>1, <1>2, <1>3
<1>9. \A o \in Latest(opks \cup NewBatch(k)) : o.enc = k
  BY <1>2, <1>7
<1>. QED
  BY <1>5, <1>8, <1>9

\* The rows stay dated and sealed under every step.
LEMMA RowsStayDatedAndSealed ==
  ASSUME TypeOK, RowsAreDated, BatchesAreSealed, [Next]_vars
  PROVE  RowsAreDated' /\ BatchesAreSealed'
<1>1. ASSUME opks' = opks, fresh' \in {fresh, fresh + 1}
      PROVE  RowsAreDated' /\ BatchesAreSealed'
  BY <1>1 DEF RowsAreDated, BatchesAreSealed, TypeOK, OPKRows
<1>2. ASSUME opks' \in {{}, Published(opks)}, fresh' = fresh
      PROVE  RowsAreDated' /\ BatchesAreSealed'
  <2>1. \A o \in Published(opks) : \E x \in opks : o.batch = x.batch /\ o.enc = x.enc
    BY PublishedKeepsKeys DEF TypeOK
  <2>. QED
    BY <1>2, <2>1 DEF RowsAreDated, BatchesAreSealed
<1>3. ASSUME NEW p \in Procs, NEW from, NEW to, NEW fl, StoreAndUpload(p, from, to, fl)
      PROVE  RowsAreDated' /\ BatchesAreSealed'
  <2>1. ctx[p].lkey \in LocalKeys \cup {NoLocalKey}
    BY DEF TypeOK, Contexts
  <2>2. opks' = opks \cup NewBatch(ctx[p].lkey) /\ fresh' = fresh + 1
    BY <1>3 DEF StoreAndUpload
  <2>. QED
    BY <2>1, <2>2, NewBatchIsLatest DEF RowsAreDated, BatchesAreSealed
<1>4. ASSUME NEW p \in Procs, User(p) \/ Stop(p) \/ ServerHandles(p) \/ Refused(p)
      PROVE  opks' = opks /\ fresh' \in {fresh, fresh + 1}
  BY <1>4 DEF User, Login, ChooseKey, OpenChats, BackToMenu, ExitAtPrompt, ResetAtPrompt,
     Stop, ServerHandles, Refused, local
<1>5. ASSUME NEW p \in Procs,
             \/ GenerateMissingBundle(p) \/ AskForReset(p) \/ PublishAgain(p)
             \/ ResetOfVanishedRow(p) \/ CompareWithServer(p) \/ MarkPublished(p)
             \/ SkipPublishedOPKs(p) \/ UploadNonPublishedOPKs(p) \/ EnoughOPKs(p)
             \/ ClearBundle(p) \/ CreateParticipant(p) \/ CreateOverExistingRow(p)
             \/ ParticipantCreated(p)
      PROVE  opks' = opks /\ fresh' \in {fresh, fresh + 1}
  BY <1>5 DEF GenerateMissingBundle, AskForReset, PublishAgain, ResetOfVanishedRow,
     CompareWithServer, MarkPublished, SkipPublishedOPKs, UploadNonPublishedOPKs,
     EnoughOPKs, Finish, ClearBundle, CreateParticipant, CreateOverExistingRow,
     ParticipantCreated, local
<1>6. ASSUME NEW p \in Procs,
             \/ ClearUndecryptableOPKs(p) \/ TokenReceived(p)
             \/ OPKsUploaded(p) \/ Replenished(p) \/ FirstOPKsUploaded(p)
      PROVE  opks' \in {{}, Published(opks)} /\ fresh' = fresh
  BY <1>6 DEF ClearUndecryptableOPKs, TokenReceived, OPKsUploaded, Replenished,
     FirstOPKsUploaded, Finish, MarkOPKsPublished
<1>7. ASSUME NEW p \in Procs, RegenerateOPKs(p) \/ Replenish(p) \/ UploadFirstOPKs(p)
      PROVE  RowsAreDated' /\ BatchesAreSealed'
  BY <1>3, <1>7 DEF RegenerateOPKs, Replenish, UploadFirstOPKs
<1>8. ASSUME ServerHandlesLate \/ PeerTakes \/ UNCHANGED vars
      PROVE  opks' = opks /\ fresh' = fresh
  BY <1>8 DEF ServerHandlesLate, PeerTakes, vars, local
<1>. QED
  BY <1>1, <1>2, <1>4, <1>5, <1>6, <1>7, <1>8
     DEF Next, Setup, SetupWithParticipant, SetupWithoutParticipant

\* One step of a lone process: what it has examined or made still opens.
LEMMA LoneProcessKeepsUnlocking ==
  ASSUME UnlockInv, NEW p \in Procs, alone[p], pc[p] # "off", pc'[p] # "off",
         \/ \E k \in LocalKeys : ChooseKey(p, k)
         \/ OpenChats(p) \/ BackToMenu(p) \/ ExitAtPrompt(p) \/ ResetAtPrompt(p)
         \/ Setup(p) \/ Stop(p) \/ ServerHandles(p)
  PROVE  Unlocks(p)'
<1>1. /\ Lone(p) /\ Unlocks(p) /\ TypeOK /\ CallsAreAwaited /\ RowsAreDated
      /\ BatchesAreSealed /\ ctx[p].lkey \in LocalKeys \cup {NoLocalKey}
  BY DEF UnlockInv, LoneSetupInv, TypeOK, Contexts
<1>. USE <1>1 DEF Unlocks, TypeOK, Places, Idle, Working, Awaiting, Uploading, Goto
<1>2. CASE \/ \E k \in LocalKeys : ChooseKey(p, k)
           \/ OpenChats(p) \/ BackToMenu(p) \/ ExitAtPrompt(p)
  BY <1>2 DEF ChooseKey, OpenChats, BackToMenu, ExitAtPrompt
<1>3. CASE ResetAtPrompt(p)
  BY <1>3 DEF ResetAtPrompt, ResetBundle, Lone, PromptedForRow
<1>4. CASE GenerateMissingBundle(p) \/ CreateParticipant(p)
  BY <1>4 DEF GenerateMissingBundle, CreateParticipant, CreateBundle
<1>5. CASE AskForReset(p) \/ ClearBundle(p)
  BY <1>5 DEF AskForReset, ClearBundle
<1>6. CASE PublishAgain(p) \/ MarkPublished(p) \/ ParticipantCreated(p)
  <2>1. bundle # NoRow
    BY <1>6 DEF Lone, SendingHeld, NoRow, PublishAgain, MarkPublished, ParticipantCreated
  <2>2. bundle'.enc = bundle.enc
    BY <1>6, <2>1 DEF PublishBundle, PublishAgain, MarkPublished, ParticipantCreated,
       BundleRows
  <2>3. ctx'[p].lkey = ctx[p].lkey
    BY <1>6 DEF PublishAgain, MarkPublished, ParticipantCreated, Contexts
  <2>4. /\ pc[p] \in {"publishing", "republishing", "creating"}
        /\ pc'[p] \in {"republishing", "inspecting", "tokening"}
    BY <1>6 DEF PublishAgain, MarkPublished, ParticipantCreated
  <2>. QED
    BY <2>2, <2>3, <2>4
<1>7. CASE CompareWithServer(p)
  BY <1>7 DEF CompareWithServer, Decrypts, local
<1>8. CASE SkipPublishedOPKs(p) \/ UploadNonPublishedOPKs(p)
  <2>1. /\ bundle' = bundle /\ opks' = opks /\ ctx' = ctx /\ pc[p] = "inspecting"
        /\ opks = {} \/ \E o \in Latest(opks) : o.enc = ctx[p].lkey
    BY <1>8 DEF SkipPublishedOPKs, UploadNonPublishedOPKs, Decrypts, local
  <2>2. \A o1, o2 \in Latest(opks) : o1.enc = o2.enc
    <3>. SUFFICES ASSUME NEW o1 \in Latest(opks), NEW o2 \in Latest(opks)
                  PROVE  o1.enc = o2.enc
      OBVIOUS
    <3>1. o1 \in opks /\ o2 \in opks /\ o1.batch <= o2.batch /\ o2.batch <= o1.batch
      BY DEF Latest
    <3>2. o1.batch \in Nat /\ o2.batch \in Nat
      BY <3>1 DEF OPKRows
    <3>. QED
      BY <3>1, <3>2 DEF BatchesAreSealed
  <2>. QED
    BY <2>1, <2>2 DEF Latest
<1>9. CASE ClearUndecryptableOPKs(p)
  BY <1>9 DEF ClearUndecryptableOPKs
<1>10. CASE RegenerateOPKs(p) \/ Replenish(p) \/ UploadFirstOPKs(p)
  <2>1. ASSUME NEW from, NEW to, NEW fl, StoreAndUpload(p, from, to, fl)
        PROVE  /\ bundle' = bundle /\ ctx' = ctx /\ pc[p] = from
               /\ opks' = opks \cup NewBatch(ctx[p].lkey)
    BY <2>1 DEF StoreAndUpload
  <2>2. /\ bundle' = bundle /\ ctx' = ctx
        /\ pc[p] \in {"regenerating", "counting", "clearedOPKs"}
        /\ opks' = opks \cup NewBatch(ctx[p].lkey)
    BY <1>10, <2>1 DEF RegenerateOPKs, Replenish, UploadFirstOPKs
  <2>3. \A o \in Latest(opks') : o.enc = ctx[p].lkey
    BY <2>2, NewBatchIsLatest
  <2>. QED
    BY <2>2, <2>3
<1>11. CASE OPKsUploaded(p)
  <2>1. bundle' = bundle /\ ctx' = ctx /\ opks' = Published(opks)
    BY <1>11 DEF OPKsUploaded, MarkOPKsPublished
  <2>2. \A o \in Latest(opks') : o.enc = ctx[p].lkey
    BY <1>11, <2>1, PublishedKeepsKeys DEF OPKsUploaded
  <2>. QED
    BY <1>11, <2>1, <2>2 DEF OPKsUploaded
<1>12. CASE EnoughOPKs(p) \/ Replenished(p) \/ FirstOPKsUploaded(p)
  BY <1>12 DEF EnoughOPKs, Replenished, FirstOPKsUploaded, Finish
<1>13. CASE TokenReceived(p)
  <2>1. ctx'[p].lkey = ctx[p].lkey
    BY <1>13 DEF TokenReceived, Contexts
  <2>. QED
    BY <1>13, <2>1 DEF TokenReceived
<1>14. CASE ServerHandles(p)
  BY <1>14 DEF ServerHandles, local, client
<1>15. CASE Stop(p) \/ ResetOfVanishedRow(p) \/ CreateOverExistingRow(p) \/ Refused(p)
  BY <1>15 DEF Stop, ResetOfVanishedRow, CreateOverExistingRow, Refused
<1>. QED
  BY <1>2, <1>3, <1>4, <1>5, <1>6, <1>7, <1>8, <1>9, <1>10, <1>11, <1>12, <1>13, <1>14,
     <1>15
     DEF Setup, SetupWithParticipant, SetupWithoutParticipant

\* Where a lone process stands tells what on the disk opens with its local key: the
\* strengthening behind LoneSetupUnlocks.
THEOREM UnlockInvariant == Spec => []UnlockInv
<1>1. Init => RowsAreDated /\ BatchesAreSealed /\ \A p \in Procs : ~alone[p]
  BY DEF Init, RowsAreDated, BatchesAreSealed
<1>2. UnlockInv /\ LoneSetupInv' /\ [Next]_vars => UnlockInv'
  <2>. SUFFICES ASSUME UnlockInv, LoneSetupInv', [Next]_vars PROVE UnlockInv'
    OBVIOUS
  <2>1. LoneSetupInv /\ TypeOK
    BY DEF UnlockInv, LoneSetupInv
  <2>2. RowsAreDated' /\ BatchesAreSealed'
    BY <2>1, RowsStayDatedAndSealed DEF UnlockInv
  <2>3. ASSUME NEW p \in Procs, alone'[p], pc'[p] # "off" PROVE Unlocks(p)'
    <3>1. CASE \E q \in Procs, f \in BOOLEAN : Login(q, f)
      <4>1. PICK q \in Procs, f \in BOOLEAN : Login(q, f)
        BY <3>1
      <4>2. alone' = [r \in Procs |-> r = q /\ OthersOff(q) /\ late = {}]
        BY <4>1 DEF Login
      <4>3. p = q
        BY <2>3, <4>2, Zenon
      <4>4. pc'[p] = "menu"
        BY <2>1, <4>1, <4>3 DEF Login, Goto, TypeOK
      <4>. QED
        BY <4>4 DEF Unlocks
    <3>2. CASE \E q \in Procs : \/ \E k \in LocalKeys : ChooseKey(q, k)
                               \/ OpenChats(q) \/ BackToMenu(q) \/ ExitAtPrompt(q)
                               \/ ResetAtPrompt(q) \/ Setup(q) \/ Stop(q) \/ ServerHandles(q)
      <4>1. PICK q \in Procs : \/ \E k \in LocalKeys : ChooseKey(q, k)
                               \/ OpenChats(q) \/ BackToMenu(q) \/ ExitAtPrompt(q)
                               \/ ResetAtPrompt(q) \/ Setup(q) \/ Stop(q) \/ ServerHandles(q)
        BY <3>2
      <4>2. alone[p]
        BY <2>3, <4>1, AloneIsSetAtLogin
      <4>3. pc[p] # "off"
        <5>. SUFFICES ASSUME pc[p] = "off" PROVE FALSE
          OBVIOUS
        <5>1. q = p
          BY <2>1, <2>3, <4>1, OneProcessMoves
        <5>. QED
          BY <2>1, <4>1, <5>1, OffProcessRests DEF LoneSetupInv
      <4>4. q = p
        BY <2>1, <4>1, <4>2, <4>3, OnlyTheLoneProcessActs
      <4>. QED
        BY <2>3, <4>1, <4>2, <4>3, <4>4, LoneProcessKeepsUnlocking
    <3>3. CASE ServerHandlesLate \/ PeerTakes \/ UNCHANGED vars
      <4>1. UNCHANGED <<bundle, opks, pc, ctx, alone>>
        BY <3>3, Zenon DEF ServerHandlesLate, PeerTakes, vars, local, client, ghosts
      <4>2. Unlocks(p)
        BY <2>3, <4>1 DEF UnlockInv
      <4>. QED
        BY <4>1, <4>2 DEF Unlocks
    <3>. QED
      BY <3>1, <3>2, <3>3 DEF Next, User
  <2>. QED
    BY <2>2, <2>3 DEF UnlockInv
<1>3. Init /\ LoneSetupInv => UnlockInv
  BY <1>1 DEF UnlockInv
<1>. QED
  BY <1>2, <1>3, LoneSetupInvariant, PTL DEF Spec

\* Only the last assignment of the middleware puts a bundle into the context.
LEMMA BundleComesFromFinish ==
  ASSUME TypeOK, NEW p \in Procs, ctx[p].bundle = 0, ctx'[p].bundle # 0, [Next]_vars
  PROVE  EnoughOPKs(p) \/ Replenished(p) \/ FirstOPKsUploaded(p)
<1>1. ASSUME NEW q \in Procs, EnoughOPKs(q) \/ Replenished(q) \/ FirstOPKsUploaded(q)
      PROVE  q = p
  BY <1>1 DEF TypeOK, EnoughOPKs, Replenished, FirstOPKsUploaded, Finish
<1>2. ASSUME NEW q \in Procs, User(q) \/ Stop(q) \/ ServerHandles(q) \/ Refused(q)
      PROVE  FALSE
  <2>1. ASSUME NEW f \in BOOLEAN, Login(q, f) PROVE FALSE
    BY <2>1, LoginGives
  <2>. QED
    BY <1>2, <2>1 DEF TypeOK, Contexts, User, ChooseKey, OpenChats, BackToMenu,
       ExitAtPrompt, ResetAtPrompt, Stop, ServerHandles, Refused, LoggedOut, client
<1>3. ASSUME NEW q \in Procs,
             \/ GenerateMissingBundle(q) \/ AskForReset(q) \/ CompareWithServer(q)
             \/ SkipPublishedOPKs(q) \/ UploadNonPublishedOPKs(q)
             \/ ClearUndecryptableOPKs(q) \/ RegenerateOPKs(q) \/ OPKsUploaded(q)
             \/ Replenish(q) \/ ClearBundle(q) \/ CreateParticipant(q) \/ UploadFirstOPKs(q)
      PROVE  ctx' = ctx
  BY <1>3 DEF GenerateMissingBundle, AskForReset, CompareWithServer, SkipPublishedOPKs,
     UploadNonPublishedOPKs, ClearUndecryptableOPKs, RegenerateOPKs, OPKsUploaded, Replenish,
     ClearBundle, CreateParticipant, UploadFirstOPKs, StoreAndUpload
<1>4. ASSUME NEW q \in Procs,
             \/ PublishAgain(q) \/ ResetOfVanishedRow(q) \/ MarkPublished(q)
             \/ CreateOverExistingRow(q) \/ ParticipantCreated(q) \/ TokenReceived(q)
      PROVE  FALSE
  BY <1>4 DEF TypeOK, Contexts, PublishAgain, ResetOfVanishedRow, MarkPublished,
     CreateOverExistingRow, ParticipantCreated, TokenReceived, LoggedOut
<1>5. ~ServerHandlesLate /\ ~PeerTakes /\ ~UNCHANGED vars
  BY DEF ServerHandlesLate, PeerTakes, vars, client
<1>. QED
  BY <1>1, <1>2, <1>3, <1>4, <1>5
     DEF Next, Setup, SetupWithParticipant, SetupWithoutParticipant

\* At the end of a setup that ran alone the bundle and the latest OPK row on the disk
\* open with the user's local key.
THEOREM LoneSetupAlwaysUnlocks == Spec => LoneSetupUnlocks
<1>. DEFINE Opens(p) == alone[p] /\ ctx[p].bundle = 0 /\ ctx'[p].bundle # 0
                          => /\ bundle'.enc = ctx[p].lkey
                             /\ \A o \in Latest(opks') : o.enc = ctx[p].lkey
<1>1. UnlockInv /\ [Next]_vars => \A p \in Procs : Opens(p)
  <2>. SUFFICES ASSUME UnlockInv, [Next]_vars, NEW p \in Procs, alone[p],
                       ctx[p].bundle = 0, ctx'[p].bundle # 0
                PROVE  /\ bundle'.enc = ctx[p].lkey
                       /\ \A o \in Latest(opks') : o.enc = ctx[p].lkey
    OBVIOUS
  <2>1. TypeOK
    BY DEF UnlockInv, LoneSetupInv
  <2>2. EnoughOPKs(p) \/ Replenished(p) \/ FirstOPKsUploaded(p)
    BY <2>1, BundleComesFromFinish
  <2>3. /\ bundle' = bundle /\ opks' \in {opks, Published(opks)}
        /\ pc[p] \in {"counting", "replenishing", "firstUploading"}
    BY <2>2 DEF EnoughOPKs, Replenished, FirstOPKsUploaded, Finish, Goto, MarkOPKsPublished
  <2>4. Unlocks(p)
    BY <2>3 DEF UnlockInv
  <2>5. bundle.enc = ctx[p].lkey /\ \A o \in Latest(opks) : o.enc = ctx[p].lkey
    BY <2>3, <2>4 DEF Unlocks
  <2>6. \A o \in Latest(Published(opks)) : o.enc = ctx[p].lkey
    BY <2>1, <2>5, PublishedKeepsKeys DEF TypeOK
  <2>. QED
    BY <2>3, <2>5, <2>6
<1>2. UnlockInv /\ [Next]_vars => [\A p \in Procs : Opens(p)]_vars
  BY <1>1
<1>. QED
  BY <1>2, UnlockInvariant, PTL DEF Spec, LoneSetupUnlocks

----------------------------------------------------------------------------
(* One process, no left-over requests, and batches above the threshold.    *)

OneProcess ==
  (\E p : Procs = {p}) /\ LateRequests = FALSE /\ Threshold < BatchSize

\* Nobody else is active, and no request is left over.
NobodyElse == late = {} /\ \A p \in Procs : pc[p] # "off" => alone[p]

\* The OPK rows are no rows or one batch, which is as old as what the server has seen.
BatchOf(b, k, pub) ==
  {[batch |-> b, idx |-> i, enc |-> k, published |-> pub] : i \in 1 .. BatchSize}

RowsAreABatch ==
  opks # {} => \E b \in Nat \ {0}, k \in LocalKeys \cup {NoLocalKey}, pub \in BOOLEAN :
                 b < fresh /\ opks = BatchOf(b, k, pub)

IdsAreOld == \A id \in stock \cup taken : id[1] < fresh

AllPublished  == \A o \in opks : o.published
NonePublished == opks # {} /\ \A o \in opks : ~o.published

\* Nothing is offered for nobody; and what is offered is held, unless rows are to be sent.
StockIsHeld ==
  /\ participant = 0 => stock = {}
  /\ \/ torn \/ stock \subseteq Ids(opks) \/ NonePublished
     \/ \E p \in Procs : pc[p] = "regenerating"

\* What a process knows of its participant.
KnowsParticipant(p) ==
  /\ ctx[p].part # 0 /\ pc[p] # "tokening" => ctx[p].token
  /\ pc[p] \in {"prompt", "publishing", "republishing"} => ctx[p].part # 0
  /\ pc[p] = "prompt" => ~Decrypts(bundle, ctx[p].lkey)
  /\ pc[p] = "clearedBundle" => ctx[p].part = 0
  /\ pc[p] = "tokening" => /\ req[p] # NoRequest => req[p].kind = "token"
                           /\ Answered(p) => rep[p].key # 0
  /\ ~ctx[p].viaFlags =>
       /\ /\ pc[p] \in {"menu", "chats", "entry", "prompt", "clearedBundle"}
          /\ ctx[p].bundle = 0
          => ctx[p].part = participant
       /\ pc[p] = "creating" /\ req[p] # NoRequest => participant = 0
       /\ pc[p] = "creating" => rep[p].status # "refused"

\* The rows, by the place where a process stands.
RowsByPlace(p) ==
  /\ pc[p] = "counting" \/ ctx[p].bundle # 0 => AllPublished
  /\ pc[p] \in {"regenerating", "clearedOPKs"} => opks = {}
  /\ pc[p] \in {"tokening", "clearedOPKs"} \/ (pc[p] = "creating" /\ Answered(p)) => stock = {}

Flushing  == {"uploading", "uploadingRest"}

\* An upload that is under way is of all rows, which are not published yet; it is
\* accepted, and then they are offered, or taken, and nothing else is offered.
UploadFits(p) ==
  pc[p] \in Uploading =>
    /\ NonePublished
    /\ req[p] # NoRequest =>
         /\ req[p].kind = "upload" /\ req[p].token /\ req[p].ids = Ids(opks)
         /\ req[p].flush <=> pc[p] \in Flushing
         /\ pc[p] \notin Flushing => Ids(opks) \cap stock = {} /\ (torn \/ stock = {})
         /\ Ids(opks) \cap (stock \cup taken) \subseteq lost
    /\ Answered(p) => /\ Ids(opks) \subseteq stock \cup taken
                      /\ torn \/ stock \subseteq Ids(opks)
    /\ rep[p].status # "refused"

\* Rows that are left unpublished after an upload of them are those of a lost answer.
Unmarked(p) ==
  NonePublished /\ pc[p] \notin Uploading => Ids(opks) \cap (stock \cup taken) \subseteq lost

OneInv ==
  /\ LoneSetupInv /\ NobodyElse
  /\ PublishedIsServed /\ PublishedOPKsWereOffered /\ OfferedOnce
  /\ RowsAreABatch /\ IdsAreOld /\ StockIsHeld
  /\ \A p \in Procs : KnowsParticipant(p) /\ RowsByPlace(p) /\ UploadFits(p) /\ Unmarked(p)

\* Rows of one batch are all published or none of them is.
LEMMA RowsAreAlike ==
  ASSUME RowsAreABatch
  PROVE  /\ AllPublished \/ NonePublished
         /\ (\E o \in Latest(opks) : o.published) => AllPublished
         /\ (\E o \in Latest(opks) : ~o.published) => NonePublished
BY DEF RowsAreABatch, AllPublished, NonePublished, BatchOf, Latest

\* A whole batch is above the threshold, so a setup replenishes only where nothing is left.
LEMMA NothingToReplenish ==
  ASSUME OneProcess, RowsAreABatch, Cardinality(opks) <= Threshold
  PROVE  opks = {}
<1> SUFFICES ASSUME NEW b \in Nat \ {0}, NEW k \in LocalKeys \cup {NoLocalKey},
                    NEW pub \in BOOLEAN, opks = BatchOf(b, k, pub)
             PROVE  FALSE
  BY DEF RowsAreABatch
<1> DEFINE row == [i \in 1 .. BatchSize |->
                     [batch |-> b, idx |-> i, enc |-> k, published |-> pub]]
<1>1. opks = {row[i] : i \in 1 .. BatchSize}
  BY DEF BatchOf
<1>2. row \in [1 .. BatchSize -> opks]
  BY <1>1
<1>3. \A t \in opks : \E i \in 1 .. BatchSize : row[i] = t
  BY <1>1
<1>4. \A i, j \in 1 .. BatchSize : row[i] = row[j] => i = j
  OBVIOUS
<1> HIDE DEF row
<1>5. row \in Bijection(1 .. BatchSize, opks)
  BY <1>2, <1>3, <1>4, Fun_IsBij
<1>6. ExistsBijection(1 .. BatchSize, opks) /\ BatchSize \in Nat
  BY <1>5, SizesAssumption DEF ExistsBijection
<1>7. Cardinality(opks) = BatchSize
  BY <1>6, FS_CountingElements
<1>. QED
  BY <1>7, SizesAssumption DEF OneProcess

\* Marked rows are the same OPKs.
LEMMA PublishedIds ==
  ASSUME NEW rows \in SUBSET OPKRows
  PROVE  Ids(Published(rows)) = Ids(rows)
<1> DEFINE mark(o) == [o EXCEPT !.published = TRUE]
<1>1. \A o \in rows : mark(o).batch = o.batch /\ mark(o).idx = o.idx
  BY DEF OPKRows
<1>. QED
  BY <1>1 DEF Ids, Published

\* Marked rows of a batch are the batch, published.
LEMMA PublishedBatch ==
  ASSUME NEW b \in Nat \ {0}, NEW k \in LocalKeys \cup {NoLocalKey}, NEW pub \in BOOLEAN
  PROVE  Published(BatchOf(b, k, pub)) = BatchOf(b, k, TRUE)
<1> DEFINE row(i, mark) == [batch |-> b, idx |-> i, enc |-> k, published |-> mark]
           marked(i) == [row(i, pub) EXCEPT !.published = TRUE]
<1>1. ASSUME NEW i \in 1 .. BatchSize PROVE marked(i) = row(i, TRUE)
  <2>1. marked(i) \in OPKRows /\ row(i, TRUE) \in OPKRows
    BY DEF OPKRows
  <2>2. /\ marked(i).batch = b /\ marked(i).idx = i /\ marked(i).enc = k
        /\ marked(i).published = TRUE
    OBVIOUS
  <2>3. ASSUME NEW o \in OPKRows, NEW q \in OPKRows, o.batch = q.batch, o.idx = q.idx,
               o.enc = q.enc, o.published = q.published
        PROVE  o = q
    BY <2>3 DEF OPKRows
  <2> HIDE DEF marked
  <2>. QED
    BY <2>1, <2>2, <2>3
<1>2. Published(BatchOf(b, k, pub)) = {marked(i) : i \in 1 .. BatchSize}
  BY DEF Published, BatchOf
<1>3. BatchOf(b, k, TRUE) = {row(i, TRUE) : i \in 1 .. BatchSize}
  BY DEF BatchOf
<1> HIDE DEF row, marked
<1>. QED
  BY <1>1, <1>2, <1>3

\* A new batch is one that nobody has seen.
LEMMA NewBatchIs ==
  ASSUME TypeOK, NEW k \in LocalKeys \cup {NoLocalKey}
  PROVE  /\ NewBatch(k) = BatchOf(fresh, k, FALSE) /\ NewBatch(k) # {}
         /\ \A id \in Ids(NewBatch(k)) : id[1] = fresh
         /\ Ids(NewBatch(k)) # {}
<1>1. 1 \in 1 .. BatchSize
  BY SizesAssumption
<1>2. NewBatch(k) = BatchOf(fresh, k, FALSE)
  BY DEF NewBatch, BatchOf
<1>3. [batch |-> fresh, idx |-> 1, enc |-> k, published |-> FALSE] \in NewBatch(k)
  BY <1>1 DEF NewBatch
<1>4. \A o \in NewBatch(k) : o.batch = fresh
  BY DEF NewBatch
<1>5. \A id \in Ids(NewBatch(k)) : \E o \in NewBatch(k) : id = <<o.batch, o.idx>>
  BY DEF Ids
<1>6. \A id \in Ids(NewBatch(k)) : id[1] = fresh
  BY <1>4, <1>5
<1>7. \A o \in NewBatch(k) : <<o.batch, o.idx>> \in Ids(NewBatch(k))
  BY DEF Ids
<1>. QED
  BY <1>2, <1>3, <1>6, <1>7

\* The one process acts, and whoever is on had nobody beside it at its login.
LEMMA NobodyElseAppears ==
  ASSUME OneProcess, TypeOK, CallsAreAwaited, NobodyElse, [Next]_vars
  PROVE  NobodyElse'
<1>1. PICK p : Procs = {p}
  BY DEF OneProcess
<1>2. LateRequests = FALSE /\ p \in Procs /\ late = {}
  BY <1>1 DEF OneProcess, NobodyElse
<1>. USE DEF NobodyElse
<1>3. ASSUME NEW f \in BOOLEAN, Login(p, f) PROVE NobodyElse'
  BY <1>1, <1>2, <1>3 DEF Login, OthersOff, wire
<1>4. CASE \/ \E k \in LocalKeys : ChooseKey(p, k)
           \/ OpenChats(p) \/ BackToMenu(p) \/ ExitAtPrompt(p) \/ ResetAtPrompt(p)
           \/ Setup(p) \/ Stop(p) \/ ServerHandles(p)
  <2>1. alone' = alone /\ pc[p] # "off"
    BY <1>2, <1>4, AloneIsSetAtLogin, OffProcessRests
  <2>2. ~Setup(p) => late' = {}
    BY <1>2, <1>4 DEF ChooseKey, OpenChats, BackToMenu, ExitAtPrompt, ResetAtPrompt, Stop,
       ServerHandles, wire
  <2>3. Setup(p) => late' = late
    BY DEF Setup, SetupWithParticipant, SetupWithoutParticipant, GenerateMissingBundle,
       AskForReset, PublishAgain, ResetOfVanishedRow, CompareWithServer, MarkPublished,
       SkipPublishedOPKs, UploadNonPublishedOPKs, ClearUndecryptableOPKs, RegenerateOPKs,
       OPKsUploaded, Replenish, EnoughOPKs, Replenished, ClearBundle, CreateParticipant,
       CreateOverExistingRow, ParticipantCreated, TokenReceived, UploadFirstOPKs,
       FirstOPKsUploaded, StoreAndUpload, Finish, Refused, wire
  <2>. QED
    BY <1>1, <1>2, <2>1, <2>2, <2>3
<1>5. CASE PeerTakes \/ UNCHANGED vars
  BY <1>5 DEF PeerTakes, vars, wire, client, ghosts
<1>6. ~ServerHandlesLate
  BY <1>2 DEF ServerHandlesLate
<1>. QED
  BY <1>1, <1>3, <1>4, <1>5, <1>6 DEF Next, User

\* The server accepts an upload that is under way.
LEMMA RowsToUpload ==
  ASSUME OneInv, NEW p \in Procs, pc[p] \in Uploading, req[p] # NoRequest
  PROVE  req[p].kind = "upload" /\ req[p].token /\ Inserts(req[p])
<1>1. /\ NonePublished /\ req[p].kind = "upload" /\ req[p].token /\ req[p].ids = Ids(opks)
      /\ req[p].flush <=> pc[p] \in Flushing
      /\ pc[p] \notin Flushing => Ids(opks) \cap stock = {}
  BY DEF OneInv, UploadFits
<1>2. Ids(opks) # {}
  <2>1. PICK o : o \in opks
    BY <1>1 DEF NonePublished
  <2>2. <<o.batch, o.idx>> \in Ids(opks)
    BY <2>1 DEF Ids
  <2>. QED
    BY <2>2
<1>. QED
  BY <1>1, <1>2 DEF Inserts, Flushed

\* The mark on the bundle row, and what the process knows of its participant.
LEMMA MarkAndKnowledge ==
  ASSUME OneProcess, OneInv, NEW p \in Procs, [Next]_vars
  PROVE  PublishedIsServed' /\ KnowsParticipant(p)'
<1> DEFINE Goal == PublishedIsServed /\ KnowsParticipant(p)
<1>1. Procs = {p}
  BY DEF OneProcess
<1>2. /\ TypeOK /\ CallsAreAwaited /\ RowsHaveKeys /\ BundleAfterSetup /\ PublishedIsServed
      /\ KnowsParticipant(p) /\ late = {} /\ (pc[p] # "off" => Lone(p))
      /\ req[p] # NoRequest => pc[p] \in Awaiting
  BY DEF OneInv, LoneSetupInv, NobodyElse, CallsAreAwaited
<1>. USE <1>2 DEF PublishedIsServed, KnowsParticipant, TypeOK, Goto, Decrypts, Answered
<1>3. ASSUME NEW f \in BOOLEAN, Login(p, f) PROVE Goal'
  <2>1. /\ bundle' = bundle /\ participant' = participant /\ req' = req /\ rep' = rep
        /\ pc[p] = "off" /\ pc'[p] = "menu"
    BY <1>3 DEF Login, local, server, wire
  <2>3. /\ (~f => ctx'[p].token = (participant # 0)) /\ ctx'[p].bundle = 0
        /\ ctx'[p].part = (IF f THEN 0 ELSE participant) /\ ctx'[p].viaFlags = f
    BY <1>3, LoginGives
  <2>2. rep[p].status # "refused"
    BY <2>1 DEF CallsAreAwaited, Awaiting, Uploading, NoReply
  <2>. QED
    BY <2>1, <2>2, <2>3
<1>4. ASSUME NEW k \in LocalKeys, ChooseKey(p, k) PROVE Goal'
  BY <1>4 DEF ChooseKey, local, server, wire
<1>5. CASE OpenChats(p)
  BY <1>5 DEF OpenChats, local, server, wire
<1>6. CASE BackToMenu(p)
  <2>1. /\ UNCHANGED <<bundle, participant, req, rep, ctx>>
        /\ pc[p] = "chats" /\ pc'[p] = "menu"
    BY <1>6 DEF BackToMenu, local, server, wire
  <2>. QED
    BY <2>1
<1>7. CASE ExitAtPrompt(p)
  BY <1>7 DEF ExitAtPrompt, local, server, wire
<1>8. CASE ResetAtPrompt(p)
  BY <1>8 DEF ResetAtPrompt, ResetBundle, NoRow, Send, NoReply, server
<1>9. CASE GenerateMissingBundle(p)
  BY <1>9 DEF GenerateMissingBundle, CreateBundle, Send, NoReply, server
<1>10. CASE AskForReset(p)
  BY <1>10 DEF AskForReset, local, server, wire
<1>11. CASE PublishAgain(p)
  BY <1>11 DEF PublishAgain, PublishBundle, Lone, SendingHeld, Send, NoReply, server
<1>12. CASE ResetOfVanishedRow(p)
  BY <1>12 DEF ResetOfVanishedRow, Lone, SendingHeld
<1>13. CASE CompareWithServer(p)
  BY <1>13 DEF CompareWithServer, Send, NoReply, local, server
<1>14. CASE MarkPublished(p)
  BY <1>14 DEF MarkPublished, PublishBundle, Lone, SendingHeld, Consume, NoReply, server
<1>15. CASE SkipPublishedOPKs(p)
  BY <1>15 DEF SkipPublishedOPKs, local, server, wire
<1>16. CASE UploadNonPublishedOPKs(p)
  BY <1>16 DEF UploadNonPublishedOPKs, Send, NoReply, local, server
<1>17. CASE ClearUndecryptableOPKs(p)
  BY <1>17 DEF ClearUndecryptableOPKs, server, wire
<1>18. CASE RegenerateOPKs(p) \/ Replenish(p) \/ UploadFirstOPKs(p)
  <2>1. ASSUME NEW from, NEW to \in {"uploading", "replenishing", "firstUploading"}, NEW fl,
               from # "tokening", StoreAndUpload(p, from, to, fl)
        PROVE  /\ UNCHANGED <<bundle, participant, ctx>> /\ rep'[p].status = "none"
               /\ pc'[p] = to /\ pc[p] # "tokening"
    BY <2>1 DEF StoreAndUpload, Send, NoReply, server
  <2>2. /\ UNCHANGED <<bundle, participant, ctx>> /\ rep'[p].status = "none"
        /\ pc'[p] \in {"uploading", "replenishing", "firstUploading"}
        /\ pc[p] # "tokening"
    BY <1>18, <2>1 DEF RegenerateOPKs, Replenish, UploadFirstOPKs
  <2>. QED
    BY <2>2
<1>19. CASE OPKsUploaded(p)
  BY <1>19 DEF OPKsUploaded, Consume, NoReply, server
<1>20. CASE EnoughOPKs(p)
  BY <1>20 DEF EnoughOPKs, Finish, server, Lone, HeldIsServed
<1>21. CASE Replenished(p) \/ FirstOPKsUploaded(p)
  <2>1. /\ UNCHANGED <<bundle, participant>> /\ rep'[p].status = "none"
        /\ ctx'[p] = [ctx[p] EXCEPT !.bundle = held[p]] /\ pc[p] # "tokening"
        /\ pc'[p] = "chats"
    BY <1>21 DEF Replenished, FirstOPKsUploaded, Finish, Consume, NoReply, server
  <2>2. /\ ctx'[p].part = ctx[p].part /\ ctx'[p].token = ctx[p].token
        /\ ctx'[p].viaFlags = ctx[p].viaFlags
    BY <2>1 DEF Contexts
  <2>3. ctx[p].part = participant
    BY <1>21 DEF Replenished, FirstOPKsUploaded, Finish, Lone, HeldIsServed
  <2>. QED
    BY <2>1, <2>2, <2>3
<1>22. CASE ClearBundle(p)
  BY <1>22 DEF ClearBundle, NoRow, server, wire
<1>23. CASE CreateParticipant(p)
  BY <1>23 DEF CreateParticipant, CreateBundle, Send, NoReply, server, BundleAfterSetup
<1>24. CASE CreateOverExistingRow(p)
  BY <1>24 DEF CreateOverExistingRow, local, server, wire, LoggedOut, CallsAreAwaited,
     Awaiting, Uploading, NoReply
<1>25. CASE ParticipantCreated(p)
  BY <1>25 DEF ParticipantCreated, PublishBundle, Lone, SendingHeld, Send, NoReply,
     TokenRequest, NoRequest, server
<1>26. CASE TokenReceived(p)
  <2>1. /\ UNCHANGED <<bundle, participant>> /\ rep'[p].status = "none"
        /\ rep[p].key # 0 /\ pc'[p] = "clearedOPKs"
        /\ ctx'[p] = [ctx[p] EXCEPT !.token = rep[p].key # 0]
    BY <1>26 DEF TokenReceived, Consume, NoReply, server
  <2>2. ctx'[p].token
    BY <2>1 DEF Contexts
  <2>. QED
    BY <2>1, <2>2
<1>27. CASE Refused(p)
  BY <1>27 DEF Refused, LoggedOut, Consume, NoReply, local, server
<1>28. CASE Stop(p)
  BY <1>28 DEF Stop, LoggedOut, NoReply, local, server
<1>29. CASE ServerHandles(p)
  <2>1. /\ req[p] # NoRequest /\ pc[p] \in Awaiting /\ rep[p] = NoReply
        /\ UNCHANGED <<bundle, pc, ctx, held>> /\ req'[p] = NoRequest
        /\ rep'[p].key = participant' /\ participant' = ParticipantAfter(req[p])
        /\ rep'[p].status \in Answers(req[p])
    BY <1>29 DEF ServerHandles, Handle, CallsAreAwaited, local, client
  <2>2. CASE pc[p] \in {"publishing", "republishing"}
    <3>1. req[p].kind = "update" /\ req[p].key = held[p] /\ bundle.key = held[p]
      BY <2>1, <2>2 DEF Lone, SendingHeld
    <3>. QED
      BY <2>1, <2>2, <3>1 DEF ParticipantAfter, Answers
  <2>3. CASE pc[p] = "creating"
    <3>1. req[p].kind = "create" /\ req[p].key = held[p] /\ bundle.key = held[p]
      BY <2>1, <2>3 DEF Lone, SendingHeld
    <3>. QED
      BY <2>1, <2>3, <3>1 DEF ParticipantAfter, Answers
  <2>4. CASE pc[p] = "tokening"
    <3>1. req[p].kind = "token" /\ participant = bundle.key /\ bundle # NoRow
      BY <2>1, <2>4 DEF Lone, HeldIsServed, NoRow
    <3>. QED
      BY <2>1, <2>4, <3>1 DEF ParticipantAfter, Answers, RowsHaveKeys
  <2>5. CASE pc[p] \in Uploading
    <3>1. req[p].kind = "upload" /\ req[p].token /\ Inserts(req[p])
      BY <2>1, <2>5, RowsToUpload
    <3>. QED
      BY <2>1, <2>5, <3>1 DEF ParticipantAfter, Answers, Uploading
  <2>. QED
    BY <2>1, <2>2, <2>3, <2>4, <2>5 DEF Awaiting, Uploading
<1>30. CASE PeerTakes \/ UNCHANGED vars
  <2>1. UNCHANGED <<bundle, participant, req, rep, pc, ctx>>
    BY <1>30, Zenon DEF PeerTakes, vars, local, server, wire, client
  <2>. QED
    BY <2>1
<1>31. ~ServerHandlesLate
  BY DEF ServerHandlesLate
<1>. QED
  BY <1>1, <1>3, <1>4, <1>5, <1>6, <1>7, <1>8, <1>9, <1>10, <1>11, <1>12, <1>13, <1>14,
     <1>15, <1>16, <1>17, <1>18, <1>19, <1>20, <1>21, <1>22, <1>23, <1>24, <1>25, <1>26,
     <1>27, <1>28, <1>29, <1>30, <1>31
     DEF Next, User, Setup, SetupWithParticipant, SetupWithoutParticipant

\* Steps that change neither the rows nor what the server has of them.
LEMMA QuietSteps ==
  ASSUME TypeOK, NEW p \in Procs,
         \/ \E f \in BOOLEAN : Login(p, f)
         \/ \E k \in LocalKeys : ChooseKey(p, k)
         \/ OpenChats(p) \/ BackToMenu(p) \/ ExitAtPrompt(p) \/ ResetAtPrompt(p)
         \/ GenerateMissingBundle(p) \/ AskForReset(p) \/ PublishAgain(p)
         \/ ResetOfVanishedRow(p) \/ CompareWithServer(p) \/ MarkPublished(p)
         \/ SkipPublishedOPKs(p) \/ UploadNonPublishedOPKs(p) \/ EnoughOPKs(p)
         \/ ClearBundle(p) \/ CreateParticipant(p) \/ CreateOverExistingRow(p)
         \/ ParticipantCreated(p) \/ Refused(p) \/ Stop(p)
  PROVE  UNCHANGED <<opks, participant, stock, taken>> /\ fresh' \in {fresh, fresh + 1}
BY DEF Login, ChooseKey, OpenChats, BackToMenu, ExitAtPrompt, ResetAtPrompt,
   GenerateMissingBundle, AskForReset, PublishAgain, ResetOfVanishedRow, CompareWithServer,
   MarkPublished, SkipPublishedOPKs, UploadNonPublishedOPKs, EnoughOPKs, Finish, ClearBundle,
   CreateParticipant, CreateOverExistingRow, ParticipantCreated, Refused, Stop, local, server

\* The rows stay one batch, and new ones are newer than what the server has seen.
LEMMA BatchesAndIds ==
  ASSUME OneProcess, OneInv, TypeOK', NEW p \in Procs, [Next]_vars
  PROVE  RowsAreABatch' /\ IdsAreOld'
<1> DEFINE Goal == RowsAreABatch /\ IdsAreOld
<1>1. Procs = {p}
  BY DEF OneProcess
<1>2. /\ TypeOK /\ CallsAreAwaited /\ RowsAreABatch /\ IdsAreOld /\ late = {}
      /\ RowsByPlace(p) /\ fresh \in Nat /\ stock \subseteq OPKIds /\ taken \subseteq OPKIds
  BY DEF OneInv, LoneSetupInv, NobodyElse, TypeOK
<1>3. ASSUME opks' = opks, stock' \subseteq stock \cup taken,
             taken' \subseteq stock \cup taken, fresh' \in {fresh, fresh + 1}
      PROVE  Goal'
  <2>1. RowsAreABatch'
    BY <1>2, <1>3 DEF RowsAreABatch, BatchOf
  <2>2. \A id \in stock \cup taken : id[1] \in Nat
    BY <1>2 DEF OPKIds
  <2>3. IdsAreOld'
    BY <1>2, <1>3, <2>2 DEF IdsAreOld
  <2>. QED
    BY <2>1, <2>3
<1>4. CASE \/ \E f \in BOOLEAN : Login(p, f)
           \/ \E k \in LocalKeys : ChooseKey(p, k)
           \/ OpenChats(p) \/ BackToMenu(p) \/ ExitAtPrompt(p) \/ ResetAtPrompt(p)
           \/ GenerateMissingBundle(p) \/ AskForReset(p) \/ PublishAgain(p)
           \/ ResetOfVanishedRow(p) \/ CompareWithServer(p) \/ MarkPublished(p)
           \/ SkipPublishedOPKs(p) \/ UploadNonPublishedOPKs(p) \/ EnoughOPKs(p)
           \/ ClearBundle(p) \/ CreateParticipant(p) \/ CreateOverExistingRow(p)
           \/ ParticipantCreated(p) \/ Refused(p) \/ Stop(p)
  <2>1. UNCHANGED <<opks, participant, stock, taken>> /\ fresh' \in {fresh, fresh + 1}
    BY <1>2, <1>4, QuietSteps
  <2>. QED
    BY <1>3, <2>1
<1>5. CASE ClearUndecryptableOPKs(p) \/ TokenReceived(p)
  BY <1>2, <1>5 DEF ClearUndecryptableOPKs, TokenReceived, server, RowsAreABatch, IdsAreOld
<1>6. ASSUME opks = {}, NEW from, NEW to, NEW fl, StoreAndUpload(p, from, to, fl) PROVE Goal'
  <2>1. /\ opks' = NewBatch(ctx[p].lkey) /\ fresh' = fresh + 1
        /\ stock' = stock /\ taken' = taken
    BY <1>6 DEF StoreAndUpload, server
  <2>2. ctx[p].lkey \in LocalKeys \cup {NoLocalKey} /\ fresh \in Nat \ {0}
    BY <1>2 DEF TypeOK, Contexts
  <2>3. opks' = BatchOf(fresh, ctx[p].lkey, FALSE)
    BY <1>2, <2>1, <2>2, NewBatchIs
  <2>4. fresh < fresh'
    BY <2>1, <2>2
  <2>5. RowsAreABatch'
    BY <2>2, <2>3, <2>4 DEF RowsAreABatch, BatchOf
  <2>6. \A id \in stock \cup taken : id[1] \in Nat
    BY <1>2 DEF OPKIds
  <2>7. IdsAreOld'
    BY <1>2, <2>1, <2>6 DEF IdsAreOld
  <2>. QED
    BY <2>5, <2>7
<1>7. CASE RegenerateOPKs(p) \/ UploadFirstOPKs(p)
  <2>1. opks = {}
    BY <1>2, <1>7 DEF RowsByPlace, RegenerateOPKs, UploadFirstOPKs, StoreAndUpload, Goto
  <2>. QED
    BY <1>6, <1>7, <2>1 DEF RegenerateOPKs, UploadFirstOPKs
<1>8. CASE Replenish(p)
  <2>1. opks = {}
    BY <1>2, <1>8, NothingToReplenish DEF Replenish
  <2>. QED
    BY <1>6, <1>8, <2>1 DEF Replenish
<1>9. CASE OPKsUploaded(p) \/ Replenished(p) \/ FirstOPKsUploaded(p)
  <2>1. opks' = Published(opks) /\ UNCHANGED <<fresh, stock, taken>>
    BY <1>9 DEF OPKsUploaded, Replenished, FirstOPKsUploaded, Finish, MarkOPKsPublished,
       server
  <2>2. CASE opks = {}
    BY <1>2, <2>1, <2>2 DEF Published, RowsAreABatch, IdsAreOld
  <2>3. CASE opks # {}
    <3>1. PICK b \in Nat \ {0}, k \in LocalKeys \cup {NoLocalKey}, pub \in BOOLEAN :
                 b < fresh /\ opks = BatchOf(b, k, pub)
      BY <1>2, <2>3 DEF RowsAreABatch
    <3>2. opks' = BatchOf(b, k, TRUE)
      BY <2>1, <3>1, PublishedBatch
    <3>. QED
      BY <1>2, <2>1, <3>1, <3>2 DEF RowsAreABatch, IdsAreOld, BatchOf
  <2>. QED
    BY <2>2, <2>3
<1>10. CASE ServerHandles(p)
  <2>1. /\ req[p] # NoRequest /\ pc[p] \in Awaiting /\ UNCHANGED <<opks, fresh, taken>>
        /\ stock' = StockAfter(req[p])
    BY <1>2, <1>10 DEF ServerHandles, Handle, CallsAreAwaited, local
  <2>2. CASE req[p].kind # "upload"
    BY <1>3, <2>1, <2>2 DEF StockAfter
  <2>3. CASE req[p].kind = "upload"
    <3>1. pc[p] \in Uploading
      BY <2>1, <2>3 DEF OneInv, LoneSetupInv, NobodyElse, Lone, SendingHeld, KnowsParticipant,
         Awaiting, Uploading
    <3>2. NonePublished /\ req[p].ids = Ids(opks)
      BY <2>1, <3>1 DEF OneInv, UploadFits
    <3>3. PICK b \in Nat \ {0}, k \in LocalKeys \cup {NoLocalKey}, pub \in BOOLEAN :
                 b < fresh /\ opks = BatchOf(b, k, pub)
      BY <1>2, <3>2 DEF RowsAreABatch, NonePublished
    <3>4. \A id \in Ids(opks) : id[1] = b
      BY <3>3 DEF Ids, BatchOf
    <3>5. \A id \in stock' \cup taken' : id[1] < fresh'
      BY <1>2, <2>1, <3>2, <3>3, <3>4 DEF StockAfter, Flushed, IdsAreOld
    <3>. QED
      BY <1>2, <2>1, <3>5 DEF RowsAreABatch, IdsAreOld, BatchOf
  <2>. QED
    BY <2>2, <2>3
<1>11. CASE PeerTakes
  BY <1>3, <1>11 DEF PeerTakes, local
<1>12. CASE UNCHANGED vars
  BY <1>3, <1>12 DEF vars, local, server
<1>13. ~ServerHandlesLate
  BY <1>2 DEF ServerHandlesLate
<1>. QED
  BY <1>1, <1>4, <1>5, <1>7, <1>8, <1>9, <1>10, <1>11, <1>12, <1>13
     DEF Next, User, Setup, SetupWithParticipant, SetupWithoutParticipant

\* What the rows and the server's table have to do with each other.
OPKsAgree(p) ==
  /\ PublishedOPKsWereOffered /\ OfferedOnce /\ StockIsHeld
  /\ RowsByPlace(p) /\ UploadFits(p) /\ Unmarked(p)

\* A step beside the rows, to a place where nothing is said of them but that all are
\* published, keeps that.
LEMMA StepBesideTheRows ==
  ASSUME NEW p \in Procs, Procs = {p}, OPKsAgree(p),
         UNCHANGED <<opks, participant, stock, taken>>,
         pc'[p] \notin Uploading \cup {"regenerating", "clearedOPKs", "tokening"},
         pc'[p] = "creating" => ~Answered(p)',
         pc'[p] = "counting" \/ ctx'[p].bundle # 0 => AllPublished,
         torn => torn', pc[p] = "regenerating" => torn',
         lost \subseteq lost', pc[p] \in Uploading => Ids(NonPublished(opks)) \subseteq lost'
  PROVE  OPKsAgree(p)'
<1>1. PublishedOPKsWereOffered' /\ OfferedOnce'
  BY DEF OPKsAgree, PublishedOPKsWereOffered, OfferedOnce
<1>2. AllPublished' <=> AllPublished
  BY DEF AllPublished
<1>3. StockIsHeld'
  BY DEF OPKsAgree, StockIsHeld, NonePublished
<1>4. RowsByPlace(p)'
  BY <1>2 DEF RowsByPlace
<1>5. UploadFits(p)'
  BY DEF UploadFits
<1>6. Unmarked(p)'
  <2>1. CASE pc[p] \in Uploading
    <3>1. NonPublished(opks) = opks
      BY <2>1 DEF OPKsAgree, UploadFits, NonePublished, NonPublished
    <3>. QED
      BY <2>1, <3>1 DEF Unmarked
  <2>2. CASE pc[p] \notin Uploading
    <3>1. NonePublished' <=> NonePublished
      BY DEF NonePublished
    <3>2. NonePublished => Ids(opks) \cap (stock \cup taken) \subseteq lost
      BY <2>2 DEF OPKsAgree, Unmarked
    <3>. QED
      BY <3>1, <3>2 DEF Unmarked
  <2>. QED
    BY <2>1, <2>2
<1>. QED
  BY <1>1, <1>3, <1>4, <1>5, <1>6 DEF OPKsAgree

LEMMA StepsBesideTheRows ==
  ASSUME OneProcess, OneInv, NEW p \in Procs, Procs = {p},
         \/ \E f \in BOOLEAN : Login(p, f)
         \/ \E k \in LocalKeys : ChooseKey(p, k)
         \/ OpenChats(p) \/ BackToMenu(p) \/ ExitAtPrompt(p) \/ ResetAtPrompt(p)
         \/ GenerateMissingBundle(p) \/ AskForReset(p) \/ PublishAgain(p)
         \/ ResetOfVanishedRow(p) \/ CompareWithServer(p) \/ MarkPublished(p)
         \/ SkipPublishedOPKs(p) \/ EnoughOPKs(p)
         \/ ClearBundle(p) \/ CreateParticipant(p) \/ CreateOverExistingRow(p)
         \/ Refused(p) \/ Stop(p)
  PROVE  OPKsAgree(p)'
<1> DEFINE Beside == /\ pc'[p] \notin Uploading
                     /\ pc'[p] \notin {"regenerating", "clearedOPKs", "tokening"}
                     /\ pc'[p] = "creating" => ~Answered(p)'
                     /\ pc'[p] = "counting" \/ ctx'[p].bundle # 0 => AllPublished
                     /\ torn => torn'
                     /\ pc[p] = "regenerating" => torn'
                     /\ lost \subseteq lost'
                     /\ pc[p] \in Uploading => Ids(NonPublished(opks)) \subseteq lost'
<1>1. /\ TypeOK /\ CallsAreAwaited /\ BundleAfterSetup /\ RowsByPlace(p) /\ Unmarked(p)
      /\ OPKsAgree(p) /\ RowsAreABatch /\ UploadFits(p)
  BY DEF OneInv, LoneSetupInv, OPKsAgree
<1>2. UNCHANGED <<opks, participant, stock, taken>>
  BY <1>1, QuietSteps
<1>3. Beside
  <2>. USE <1>1 DEF TypeOK, Goto, Uploading, ghosts, wire, client, server, local
  <2>1. ASSUME NEW f \in BOOLEAN, Login(p, f) PROVE Beside
    BY <2>1 DEF Login, Mishap
  <2>2. ASSUME NEW k \in LocalKeys, ChooseKey(p, k) PROVE Beside
    BY <2>2 DEF ChooseKey, RowsByPlace, Unmarked
  <2>3. CASE OpenChats(p)
    BY <2>3 DEF OpenChats, RowsByPlace, Unmarked
  <2>4. CASE BackToMenu(p)
    BY <2>4 DEF BackToMenu, RowsByPlace, Unmarked
  <2>5. CASE ExitAtPrompt(p)
    BY <2>5 DEF ExitAtPrompt, RowsByPlace, Unmarked
  <2>6. CASE ResetAtPrompt(p)
    BY <2>6 DEF ResetAtPrompt, RowsByPlace, Unmarked
  <2>7. CASE GenerateMissingBundle(p)
    BY <2>7 DEF GenerateMissingBundle, RowsByPlace, Unmarked
  <2>8. CASE AskForReset(p)
    BY <2>8 DEF AskForReset, RowsByPlace, Unmarked
  <2>9. CASE PublishAgain(p)
    BY <2>9 DEF PublishAgain, BundleAfterSetup, Unmarked
  <2>10. CASE ResetOfVanishedRow(p)
    BY <2>10 DEF ResetOfVanishedRow, LoggedOut, Unmarked
  <2>11. CASE CompareWithServer(p)
    BY <2>11 DEF CompareWithServer, RowsByPlace, Unmarked
  <2>12. CASE MarkPublished(p)
    BY <2>12 DEF MarkPublished, BundleAfterSetup, Unmarked
  <2>13. CASE SkipPublishedOPKs(p)
    BY <2>13, RowsAreAlike DEF SkipPublishedOPKs, AllPublished, Unmarked
  <2>14. CASE EnoughOPKs(p)
    BY <2>14 DEF EnoughOPKs, Finish, RowsByPlace, Unmarked
  <2>15. CASE ClearBundle(p)
    BY <2>15 DEF ClearBundle, RowsByPlace, Unmarked
  <2>16. CASE CreateParticipant(p)
    BY <2>16 DEF CreateParticipant, RowsByPlace, Unmarked, Send, NoReply, Answered
  <2>17. CASE CreateOverExistingRow(p)
    BY <2>17 DEF CreateOverExistingRow, LoggedOut, Unmarked
  <2>18. CASE Refused(p)
    BY <2>18 DEF Refused, LoggedOut, CallsAreAwaited, Awaiting, Uploading, NoReply,
       UploadFits, Unmarked
  <2>19. CASE Stop(p)
    <3>1. /\ pc'[p] = "off" /\ ctx'[p].bundle = 0
          /\ torn' = (torn \/ pc[p] = "regenerating")
      BY <2>19 DEF Stop, LoggedOut
    <3>2. /\ lost \subseteq lost'
          /\ pc[p] \in Uploading => Ids(NonPublished(opks)) \subseteq lost'
      BY <2>19, Zenon DEF Stop
    <3>3. torn => torn'
      BY <3>1, Zenon
    <3>4. pc[p] = "regenerating" => torn'
      BY <3>1, Zenon
    <3>. QED
      BY <3>1, <3>2, <3>3, <3>4
  <2>. QED
    BY <2>1, <2>2, <2>3, <2>4, <2>5, <2>6, <2>7, <2>8, <2>9, <2>10, <2>11, <2>12, <2>13,
       <2>14, <2>15, <2>16, <2>17, <2>18, <2>19
<1>. QED
  BY <1>1, <1>2, <1>3, StepBesideTheRows

\* Rows are cleared, or are about to be: the participant is new, or what is offered is not
\* looked at until the new rows replace it.
LEMMA StepsThatClear ==
  ASSUME OneInv, NEW p \in Procs, Procs = {p},
         ClearUndecryptableOPKs(p) \/ ParticipantCreated(p) \/ TokenReceived(p)
  PROVE  OPKsAgree(p)'
<1>1. /\ TypeOK /\ BundleAfterSetup /\ OPKsAgree(p)
  BY DEF OneInv, LoneSetupInv, OPKsAgree
<1>2. /\ UNCHANGED <<participant, stock, taken, torn, lost>>
      /\ ctx'[p].bundle = ctx[p].bundle /\ ctx'[p].viaFlags = ctx[p].viaFlags
      /\ pc[p] \notin Uploading /\ pc'[p] \notin Uploading
      /\ opks' = opks \/ opks' = {}
      /\ pc'[p] \in {"regenerating", "tokening", "clearedOPKs"}
      /\ pc'[p] # "tokening" => opks' = {}
      /\ pc'[p] # "regenerating" => stock = {}
      /\ pc[p] # "regenerating" /\ ctx[p].bundle = 0
  BY <1>1 DEF ClearUndecryptableOPKs, ParticipantCreated, TokenReceived, TypeOK, Contexts,
     Goto, server, ghosts, Uploading, OPKsAgree, RowsByPlace, BundleAfterSetup
<1>3. PublishedOPKsWereOffered' /\ OfferedOnce'
  BY <1>1, <1>2 DEF OPKsAgree, PublishedOPKsWereOffered, OfferedOnce
<1>4. StockIsHeld'
  BY <1>1, <1>2 DEF OPKsAgree, StockIsHeld
<1>5. RowsByPlace(p)' /\ UploadFits(p)'
  BY <1>1, <1>2 DEF RowsByPlace, UploadFits
<1>6. Unmarked(p)'
  <2>1. NonePublished' => NonePublished /\ opks' = opks
    BY <1>2 DEF NonePublished
  <2>. QED
    BY <1>1, <1>2, <2>1 DEF OPKsAgree, Unmarked
<1>. QED
  BY <1>3, <1>4, <1>5, <1>6 DEF OPKsAgree

\* An upload is sent: of a new batch where there were no rows, or of rows that another
\* process has left unpublished.
LEMMA StepsThatUpload ==
  ASSUME OneProcess, OneInv, NEW p \in Procs, Procs = {p},
         RegenerateOPKs(p) \/ Replenish(p) \/ UploadFirstOPKs(p) \/ UploadNonPublishedOPKs(p)
  PROVE  OPKsAgree(p)'
<1>1. /\ TypeOK /\ BundleAfterSetup /\ OPKsAgree(p) /\ RowsAreABatch /\ IdsAreOld
      /\ KnowsParticipant(p) /\ RowsHaveKeys /\ (pc[p] # "off" => Lone(p))
  BY DEF OneInv, LoneSetupInv, OPKsAgree, NobodyElse
<1> DEFINE Sent(rows, fl) == /\ req'[p] = UploadRequest(p, rows, fl) /\ rep'[p] = NoReply
                             /\ UNCHANGED <<participant, stock, taken, torn, lost, ctx>>
<1>2. ctx[p].token /\ ctx[p].bundle = 0
  <2>1. pc[p] \in {"regenerating", "counting", "clearedOPKs", "inspecting"}
    BY <1>1 DEF TypeOK, RegenerateOPKs, Replenish, UploadFirstOPKs, StoreAndUpload,
       UploadNonPublishedOPKs, Goto
  <2>2. HeldIsServed(p) /\ ctx[p].part # 0
    BY <1>1, <2>1 DEF Lone, HeldIsServed, RowsHaveKeys, NoRow
  <2>. QED
    BY <1>1, <2>1, <2>2 DEF KnowsParticipant, BundleAfterSetup
<1>3. ASSUME NonePublished', NEW fl \in BOOLEAN, Sent(opks', fl),
             pc'[p] \in Uploading, fl <=> pc'[p] \in Flushing,
             ~fl => Ids(opks') \cap stock = {} /\ (torn \/ stock = {}),
             Ids(opks') \cap (stock \cup taken) \subseteq lost
      PROVE  OPKsAgree(p)'
  <2>1. PublishedOPKsWereOffered' /\ OfferedOnce' /\ StockIsHeld'
    BY <1>1, <1>3 DEF OPKsAgree, NonePublished, PublishedOPKsWereOffered, OfferedOnce,
       StockIsHeld
  <2>2. RowsByPlace(p)'
    BY <1>2, <1>3 DEF RowsByPlace, Uploading
  <2>3. UploadFits(p)'
    BY <1>2, <1>3 DEF UploadFits, UploadRequest, NoReply, Answered
  <2>4. Unmarked(p)'
    BY <1>1, <1>3 DEF OPKsAgree, Unmarked
  <2>. QED
    BY <2>1, <2>2, <2>3, <2>4 DEF OPKsAgree
<1>4. ASSUME opks = {}, NEW from, NEW to \in Uploading, NEW fl \in BOOLEAN,
             fl <=> to \in Flushing, ~fl => torn \/ stock = {},
             StoreAndUpload(p, from, to, fl)
      PROVE  OPKsAgree(p)'
  <2>1. ctx[p].lkey \in LocalKeys \cup {NoLocalKey}
    BY <1>1 DEF TypeOK, Contexts
  <2>2. opks' = NewBatch(ctx[p].lkey) /\ pc'[p] = to
    BY <1>1, <1>4 DEF StoreAndUpload, Goto, TypeOK
  <2>3. /\ NewBatch(ctx[p].lkey) # {}
        /\ \A id \in Ids(NewBatch(ctx[p].lkey)) : id[1] = fresh
    BY <1>1, <2>1, NewBatchIs
  <2>4. NonePublished'
    BY <2>2, <2>3 DEF NonePublished, NewBatch
  <2>5. Sent(opks', fl)
    BY <1>1, <1>4, <2>2 DEF StoreAndUpload, Send, TypeOK, server, ghosts
  <2>6. Ids(opks') \cap (stock \cup taken) = {}
    <3>1. \A id \in stock \cup taken : id[1] # fresh
      BY <1>1 DEF IdsAreOld, TypeOK, OPKIds
    <3>. QED
      BY <2>2, <2>3, <3>1
  <2>. QED
    BY <1>3, <1>4, <2>2, <2>4, <2>5, <2>6
<1>5. CASE RegenerateOPKs(p)
  <2>1. opks = {}
    BY <1>1, <1>5 DEF OPKsAgree, RowsByPlace, RegenerateOPKs, StoreAndUpload, Goto
  <2>. QED
    BY <1>4, <1>5, <2>1 DEF RegenerateOPKs, Uploading, Flushing
<1>6. CASE Replenish(p)
  <2>1. opks = {} /\ pc[p] = "counting"
    BY <1>1, <1>6, NothingToReplenish DEF Replenish, StoreAndUpload, Goto
  <2>2. torn \/ stock = {}
    BY <1>1, <2>1 DEF OPKsAgree, StockIsHeld, NonePublished, Ids
  <2>. QED
    BY <1>4, <1>6, <2>1, <2>2 DEF Replenish, Uploading, Flushing
<1>7. CASE UploadFirstOPKs(p)
  <2>1. opks = {} /\ stock = {}
    BY <1>1, <1>7 DEF OPKsAgree, RowsByPlace, UploadFirstOPKs, StoreAndUpload, Goto
  <2>. QED
    BY <1>4, <1>7, <2>1 DEF UploadFirstOPKs, Uploading, Flushing
<1>8. CASE UploadNonPublishedOPKs(p)
  <2>1. NonePublished /\ opks' = opks /\ pc[p] = "inspecting" /\ pc'[p] = "uploadingRest"
    BY <1>1, <1>8, RowsAreAlike DEF UploadNonPublishedOPKs, Goto, TypeOK, local
  <2>2. NonPublished(opks) = opks
    BY <2>1 DEF NonPublished, NonePublished
  <2>3. Sent(opks', TRUE)
    BY <1>1, <1>8, <2>1, <2>2 DEF UploadNonPublishedOPKs, Send, TypeOK, server, ghosts
  <2>4. Ids(opks) \cap (stock \cup taken) \subseteq lost
    BY <1>1, <2>1 DEF OPKsAgree, Unmarked, Uploading
  <2>5. NonePublished'
    BY <2>1 DEF NonePublished
  <2>. QED
    BY <1>3, <2>1, <2>3, <2>4, <2>5 DEF Uploading, Flushing
<1>. QED
  BY <1>5, <1>6, <1>7, <1>8

\* The upload was accepted: the rows are marked.
LEMMA StepsThatMark ==
  ASSUME OneInv, NEW p \in Procs, Procs = {p},
         OPKsUploaded(p) \/ Replenished(p) \/ FirstOPKsUploaded(p)
  PROVE  OPKsAgree(p)'
<1>1. TypeOK /\ OPKsAgree(p) /\ KnowsParticipant(p)
  BY DEF OneInv, LoneSetupInv, OPKsAgree
<1>2. /\ opks' = Published(opks) /\ UNCHANGED <<participant, stock, taken, torn, lost>>
      /\ pc[p] \in Uploading /\ Answered(p) /\ pc'[p] \in {"counting", "chats"}
      /\ ctx'[p].viaFlags = ctx[p].viaFlags
  BY <1>1 DEF OPKsUploaded, Replenished, FirstOPKsUploaded, Finish, MarkOPKsPublished,
     Goto, TypeOK, Contexts, Uploading, server, ghosts
<1>3. opks \subseteq OPKRows /\ opks' \subseteq OPKRows
  BY <1>1, <1>2, PublishedType DEF TypeOK
<1>4. Ids(opks') = Ids(opks)
  BY <1>2, <1>3, PublishedIds
<1>5. Ids(opks) \subseteq stock \cup taken /\ (torn \/ stock \subseteq Ids(opks))
  BY <1>1, <1>2 DEF OPKsAgree, UploadFits
<1>6. PublishedOPKsWereOffered'
  <2>1. \A o \in opks' : <<o.batch, o.idx>> \in Ids(opks')
    BY DEF Ids
  <2>. QED
    BY <1>2, <1>4, <1>5, <2>1 DEF PublishedOPKsWereOffered
<1>7. AllPublished'
  <2>1. \A o \in opks : [o EXCEPT !.published = TRUE].published
    BY <1>3 DEF OPKRows
  <2>. QED
    BY <1>2, <2>1 DEF AllPublished, Published
<1>8. StockIsHeld' /\ OfferedOnce'
  BY <1>1, <1>2, <1>4, <1>5 DEF OPKsAgree, StockIsHeld, OfferedOnce
<1>9. RowsByPlace(p)' /\ UploadFits(p)' /\ Unmarked(p)'
  <2>1. ~NonePublished'
    BY <1>7 DEF AllPublished, NonePublished
  <2>. QED
    BY <1>1, <1>2, <1>7, <2>1 DEF OPKsAgree, RowsByPlace, UploadFits, Unmarked, Uploading
<1>. QED
  BY <1>6, <1>8, <1>9 DEF OPKsAgree

\* The server handles a call, or a peer takes an OPK.
LEMMA StepsOfTheServer ==
  ASSUME OneInv, NEW p \in Procs, Procs = {p}, ServerHandles(p)
  PROVE  OPKsAgree(p)'
<1>1. /\ TypeOK /\ OPKsAgree(p) /\ KnowsParticipant(p) /\ CallsAreAwaited
      /\ (pc[p] # "off" => Lone(p)) /\ RowsHaveKeys
  BY DEF OneInv, LoneSetupInv, OPKsAgree, NobodyElse
<1> DEFINE r == req[p]
<1>2. /\ r # NoRequest /\ pc[p] \in Awaiting /\ rep[p] = NoReply
      /\ UNCHANGED <<bundle, opks, pc, ctx, held, taken, lost>> /\ req'[p] = NoRequest
      /\ participant' = ParticipantAfter(r) /\ stock' = StockAfter(r)
      /\ torn' = (torn /\ ~(r.kind = "upload" /\ r.flush))
      /\ rep'[p].status \in Answers(r)
  BY <1>1 DEF ServerHandles, Handle, CallsAreAwaited, local, client, TypeOK
<1>3. CASE pc[p] \notin Uploading
  <2>1. r.kind # "upload" /\ (pc[p] = "creating" => r.kind = "create")
    BY <1>1, <1>2, <1>3 DEF Lone, SendingHeld, KnowsParticipant, Awaiting, Uploading
  <2>2. stock' = stock /\ torn' = torn
    BY <1>1, <1>2, <2>1 DEF StockAfter, TypeOK
  <2>3. participant' = 0 => participant = 0
    <3>1. CASE pc[p] \in {"publishing", "republishing", "creating"}
      BY <1>1, <1>2, <3>1 DEF Lone, SendingHeld, ParticipantAfter
    <3>2. CASE pc[p] \notin {"publishing", "republishing", "creating"}
      <4>1. pc[p] = "tokening"
        BY <1>2, <1>3, <3>2 DEF Awaiting, Uploading
      <4>2. r.kind = "token"
        BY <1>1, <1>2, <4>1 DEF KnowsParticipant
      <4>. QED
        BY <1>2, <4>2 DEF ParticipantAfter
    <3>. QED
      BY <3>1, <3>2
  <2>4. pc[p] = "creating" /\ Answered(p)' => participant = 0
    BY <1>2, <2>1 DEF Answered, Answers
  <2>5. PublishedOPKsWereOffered' /\ OfferedOnce'
    BY <1>1, <1>2, <2>2 DEF OPKsAgree, PublishedOPKsWereOffered, OfferedOnce
  <2>6. StockIsHeld'
    BY <1>1, <1>2, <2>2, <2>3 DEF OPKsAgree, StockIsHeld, NonePublished
  <2>7. RowsByPlace(p)'
    BY <1>1, <1>2, <2>2, <2>4 DEF OPKsAgree, StockIsHeld, RowsByPlace, AllPublished
  <2>8. UploadFits(p)' /\ Unmarked(p)'
    <3>1. NonePublished' <=> NonePublished
      BY <1>2 DEF NonePublished
    <3>2. NonePublished => Ids(opks) \cap (stock \cup taken) \subseteq lost
      BY <1>1, <1>3 DEF OPKsAgree, Unmarked
    <3>. QED
      BY <1>2, <1>3, <2>2, <3>1, <3>2 DEF UploadFits, Unmarked
  <2>. QED
    BY <2>5, <2>6, <2>7, <2>8 DEF OPKsAgree
<1>4. CASE pc[p] \in Uploading
  <2>1. r.kind = "upload" /\ r.token /\ Inserts(r)
    BY <1>2, <1>4, RowsToUpload
  <2>2. /\ NonePublished /\ r.ids = Ids(opks)
        /\ r.flush <=> pc[p] \in Flushing
        /\ pc[p] \notin Flushing => torn \/ stock = {}
        /\ Ids(opks) \cap (stock \cup taken) \subseteq lost
    BY <1>1, <1>2, <1>4 DEF OPKsAgree, UploadFits
  <2>3. stock' = (IF r.flush THEN {} ELSE stock) \cup Ids(opks)
    BY <1>2, <2>1, <2>2 DEF StockAfter, Flushed
  <2>4. participant' = participant /\ participant # 0
    <3>1. HeldIsServed(p)
      BY <1>1, <1>4 DEF Lone, Uploading
    <3>. QED
      BY <1>1, <1>2, <2>1, <3>1 DEF HeldIsServed, RowsHaveKeys, NoRow, ParticipantAfter
  <2>5. PublishedOPKsWereOffered'
    BY <1>2, <2>2 DEF PublishedOPKsWereOffered, NonePublished
  <2>6. OfferedOnce'
    BY <1>1, <1>2, <2>2, <2>3 DEF OPKsAgree, OfferedOnce
  <2>7. NonePublished'
    BY <1>2, <2>2 DEF NonePublished
  <2>8. StockIsHeld'
    BY <2>4, <2>7 DEF StockIsHeld
  <2>9. RowsByPlace(p)' /\ Unmarked(p)'
    BY <1>1, <1>2, <1>4 DEF OPKsAgree, RowsByPlace, AllPublished, Uploading, Unmarked
  <2>10. torn' \/ stock' \subseteq Ids(opks)
    BY <1>2, <2>2, <2>3
  <2>11. UploadFits(p)'
    BY <1>2, <2>1, <2>3, <2>7, <2>10 DEF UploadFits, Answers, Answered
  <2>. QED
    BY <2>5, <2>6, <2>8, <2>9, <2>11 DEF OPKsAgree
<1>. QED
  BY <1>3, <1>4

LEMMA PeerStep ==
  ASSUME OneInv, NEW p \in Procs, PeerTakes \/ UNCHANGED vars
  PROVE  OPKsAgree(p)'
<1>1. OPKsAgree(p)
  BY DEF OneInv, OPKsAgree
<1>2. UNCHANGED <<opks, participant, req, rep, pc, ctx, torn, lost>>
  BY Zenon DEF PeerTakes, vars, local, server, wire, client, ghosts
<1>3. \E id : /\ stock' = stock \ {id} \/ stock' = stock
              /\ taken' = taken \cup (stock \ stock')
  <2>1. CASE PeerTakes
    <3>1. PICK id \in stock : stock' = stock \ {id} /\ taken' = taken \cup {id}
      BY <2>1 DEF PeerTakes
    <3>. QED
      BY <3>1
  <2>2. CASE UNCHANGED vars
    BY <2>2 DEF vars, server
  <2>. QED
    BY <2>1, <2>2
<1>4. stock' \subseteq stock /\ taken' = taken \cup (stock \ stock')
  BY <1>3
<1>5. PublishedOPKsWereOffered' /\ OfferedOnce' /\ StockIsHeld'
  BY <1>1, <1>2, <1>4 DEF OPKsAgree, PublishedOPKsWereOffered, OfferedOnce, StockIsHeld,
     NonePublished
<1>6. AllPublished' <=> AllPublished
  BY <1>2 DEF AllPublished
<1>7. RowsByPlace(p)' /\ Unmarked(p)'
  <2>1. stock' \cup taken' = stock \cup taken
    BY <1>4
  <2>2. RowsByPlace(p)'
    BY <1>1, <1>2, <1>4, <1>6 DEF OPKsAgree, RowsByPlace, Answered
  <2>3. NonePublished' <=> NonePublished
    BY <1>2 DEF NonePublished
  <2>4. Unmarked(p)'
    BY <1>1, <1>2, <2>1, <2>3 DEF OPKsAgree, Unmarked
  <2>. QED
    BY <2>2, <2>4
<1>8. UploadFits(p)'
  BY <1>1, <1>2, <1>4 DEF OPKsAgree, UploadFits, NonePublished, Answered
<1>. QED
  BY <1>5, <1>7, <1>8 DEF OPKsAgree

\* Every step of the program keeps the invariant of the single process.
LEMMA OneProcessKeepsInvariant ==
  ASSUME OneProcess, OneInv, TypeOK', LoneSetupInv', [Next]_vars
  PROVE  OneInv'
<1>1. PICK p : Procs = {p}
  BY DEF OneProcess
<1>2. p \in Procs /\ \A q \in Procs : q = p
  BY <1>1
<1>3. TypeOK /\ CallsAreAwaited /\ NobodyElse /\ late = {}
  BY DEF OneInv, LoneSetupInv, NobodyElse
<1>4. NobodyElse'
  BY <1>3, NobodyElseAppears
<1>5. PublishedIsServed' /\ KnowsParticipant(p)'
  BY <1>2, MarkAndKnowledge
<1>6. RowsAreABatch' /\ IdsAreOld'
  BY <1>2, BatchesAndIds
<1>7. OPKsAgree(p)'
  <2>1. CASE PeerTakes \/ UNCHANGED vars
    BY <1>2, <2>1, PeerStep
  <2>2. CASE ServerHandlesLate
    BY <1>3, <2>2 DEF ServerHandlesLate
  <2>3. CASE User(p)
    BY <1>1, <1>2, <2>3, StepsBesideTheRows, Zenon DEF User
  <2>4. CASE SetupWithParticipant(p)
    <3>1. \/ ClearUndecryptableOPKs(p)
          \/ RegenerateOPKs(p) \/ Replenish(p) \/ UploadNonPublishedOPKs(p)
          \/ OPKsUploaded(p) \/ Replenished(p)
          \/ GenerateMissingBundle(p) \/ AskForReset(p) \/ PublishAgain(p)
          \/ ResetOfVanishedRow(p) \/ CompareWithServer(p) \/ MarkPublished(p)
          \/ SkipPublishedOPKs(p) \/ EnoughOPKs(p)
      BY <2>4, Zenon DEF SetupWithParticipant
    <3>. QED
      BY <1>1, <1>2, <3>1, StepsThatClear, StepsThatUpload, StepsThatMark,
         StepsBesideTheRows, Zenon
  <2>5. CASE SetupWithoutParticipant(p)
    <3>1. \/ ParticipantCreated(p) \/ TokenReceived(p)
          \/ UploadFirstOPKs(p) \/ FirstOPKsUploaded(p)
          \/ ClearBundle(p) \/ CreateParticipant(p) \/ CreateOverExistingRow(p)
      BY <2>5, Zenon DEF SetupWithoutParticipant
    <3>. QED
      BY <1>1, <1>2, <3>1, StepsThatClear, StepsThatUpload, StepsThatMark,
         StepsBesideTheRows, Zenon
  <2>6. CASE Refused(p) \/ Stop(p)
    BY <1>1, <1>2, <2>6, StepsBesideTheRows, Zenon
  <2>7. CASE ServerHandles(p)
    BY <1>1, <1>2, <2>7, StepsOfTheServer, Zenon
  <2>8. \/ PeerTakes \/ UNCHANGED vars \/ ServerHandlesLate
        \/ User(p) \/ SetupWithParticipant(p) \/ SetupWithoutParticipant(p)
        \/ Refused(p) \/ Stop(p) \/ ServerHandles(p)
    BY <1>2, Zenon DEF Next, Setup
  <2>. QED
    BY <2>1, <2>2, <2>3, <2>4, <2>5, <2>6, <2>7, <2>8, Zenon
<1>. QED
  BY <1>2, <1>4, <1>5, <1>6, <1>7 DEF OneInv, OPKsAgree

\* With one process and no left-over requests the rows, the server's table and the
\* call under way always fit together.
THEOREM OneProcessInvariant ==
  ASSUME OneProcess
  PROVE  Spec => []OneInv
<1>1. Init => OneInv
  <2>. SUFFICES ASSUME Init PROVE OneInv
    OBVIOUS
  <2>1. TypeOK
    BY InitIsTyped
  <2>2. LoneSetupInv
    BY <2>1 DEF Init, LoneSetupInv, CallsAreAwaited, RowsHaveKeys, BundleAfterSetup,
       LoggedOut
  <2>3. /\ \A p \in Procs : /\ pc[p] = "off" /\ ctx[p] = LoggedOut
                            /\ req[p] = NoRequest /\ rep[p] = NoReply
        /\ opks = {} /\ stock = {} /\ taken = {} /\ participant = 0 /\ late = {}
        /\ bundle = NoRow
    BY DEF Init
  <2>4. NobodyElse /\ PublishedIsServed /\ PublishedOPKsWereOffered /\ OfferedOnce
    BY <2>3 DEF NobodyElse, PublishedIsServed, PublishedOPKsWereOffered, OfferedOnce, NoRow
  <2>5. RowsAreABatch /\ IdsAreOld /\ StockIsHeld
    BY <2>3 DEF RowsAreABatch, IdsAreOld, StockIsHeld
  <2>6. \A p \in Procs : KnowsParticipant(p) /\ RowsByPlace(p) /\ UploadFits(p) /\ Unmarked(p)
    BY <2>3 DEF KnowsParticipant, RowsByPlace, UploadFits, Unmarked, LoggedOut, NoReply,
       Answered, AllPublished, Uploading
  <2>. QED
    BY <2>2, <2>4, <2>5, <2>6 DEF OneInv
<1>2. OneInv /\ TypeOK' /\ LoneSetupInv' /\ [Next]_vars => OneInv'
  BY OneProcessKeepsInvariant
<1>. QED
  BY <1>1, <1>2, TypeCorrect, LoneSetupInvariant, PTL DEF Spec

\* A bundle row that is marked as published is the one the server hands to peers,
\* wherever the setup stands and wherever earlier processes died.
THEOREM PublishedIsAlwaysServed ==
  ASSUME OneProcess
  PROVE  Spec => []PublishedIsServed
<1>1. OneInv => PublishedIsServed
  BY DEF OneInv
<1>. QED
  BY <1>1, OneProcessInvariant, PTL

\* An OPK row that is marked as published has been in the server's table.
THEOREM PublishedOPKsWereAlwaysOffered ==
  ASSUME OneProcess
  PROVE  Spec => []PublishedOPKsWereOffered
<1>1. OneInv => PublishedOPKsWereOffered
  BY DEF OneInv
<1>. QED
  BY <1>1, OneProcessInvariant, PTL

\* While a chat screen is open, the private half of every OPK on offer is on the
\* disk, unless a process died between clearing the rows and storing the new ones.
THEOREM OfferedOPKsAreAlwaysHeld ==
  ASSUME OneProcess
  PROVE  Spec => []OfferedOPKsAreHeld
<1>1. OneInv => OfferedOPKsAreHeld
  <2>. SUFFICES ASSUME OneInv, NEW p \in Procs, ctx[p].bundle # 0, ~torn
                PROVE  stock \subseteq Ids(opks)
    BY DEF OfferedOPKsAreHeld
  <2>1. \A q \in Procs : q = p
    BY DEF OneProcess
  <2>2. pc[p] # "regenerating"
    BY DEF OneInv, LoneSetupInv, BundleAfterSetup
  <2>3. ~NonePublished
    BY DEF OneInv, RowsByPlace, AllPublished, NonePublished
  <2>. QED
    BY <2>1, <2>2, <2>3 DEF OneInv, StockIsHeld
<1>. QED
  BY <1>1, OneProcessInvariant, PTL

\* All OPK rows are under one local key, so that trying the latest one is enough.
THEOREM OneKeyAlwaysSealsAllOPKs ==
  ASSUME OneProcess
  PROVE  Spec => []OneKeySealsAllOPKs
<1>1. OneInv => OneKeySealsAllOPKs
  BY DEF OneInv, RowsAreABatch, BatchOf, OneKeySealsAllOPKs
<1>. QED
  BY <1>1, OneProcessInvariant, PTL

\* The server never refuses an upload, whichever answer to an earlier one was lost.
THEOREM NoUploadIsEverRefused ==
  ASSUME OneProcess
  PROVE  Spec => []NoUploadIsRefused
<1>1. OneInv => NoUploadIsRefused
  BY DEF OneInv, UploadFits, Uploading, NoUploadIsRefused
<1>. QED
  BY <1>1, OneProcessInvariant, PTL

\* The server refuses to create a participant only for a process that was logged in by
\* flags, whichever answers were lost.
THEOREM OnlyFlagsEverMeetRefusal ==
  ASSUME OneProcess
  PROVE  Spec => []OnlyFlagsMeetRefusal
<1>1. OneInv => OnlyFlagsMeetRefusal
  BY DEF OneInv, KnowsParticipant, OnlyFlagsMeetRefusal
<1>. QED
  BY <1>1, OneProcessInvariant, PTL

\* An OPK is offered after a peer took it only if the answer to its upload was lost.
THEOREM AlwaysOfferedOnce ==
  ASSUME OneProcess
  PROVE  Spec => []OfferedOnce
<1>1. OneInv => OfferedOnce
  BY DEF OneInv
<1>. QED
  BY <1>1, OneProcessInvariant, PTL

\* A published bundle that the user's local key opens is never given up, except by a
\* process that was logged in by flags.
THEOREM IdentityIsAlwaysKept ==
  ASSUME OneProcess
  PROVE  Spec => IdentityIsKept
<1>. DEFINE Keeps(p) == /\ pc[p] \in Working /\ bundle.published
                        /\ bundle.enc = ctx[p].lkey /\ ~ctx[p].viaFlags
                        => bundle'.key = bundle.key
<1>1. OneInv /\ [Next]_vars => \A p \in Procs : Keeps(p)
  <2>. SUFFICES ASSUME OneInv, [Next]_vars, NEW p \in Procs, pc[p] \in Working,
                       bundle.published, bundle.enc = ctx[p].lkey, ~ctx[p].viaFlags
                PROVE  bundle'.key = bundle.key
    OBVIOUS
  <2>1. \A q \in Procs : q = p
    BY DEF OneProcess
  <2>2. /\ TypeOK /\ RowsHaveKeys /\ BundleAfterSetup /\ PublishedIsServed
        /\ KnowsParticipant(p) /\ bundle # NoRow
    BY DEF OneInv, LoneSetupInv, NoRow
  <2>3. participant = bundle.key /\ bundle.key # 0
    BY <2>2 DEF PublishedIsServed, RowsHaveKeys
  <2>4. ~ClearBundle(p)
    BY <2>2, <2>3 DEF ClearBundle, Goto, KnowsParticipant, BundleAfterSetup
  <2>5. ~ResetAtPrompt(p)
    BY <2>2 DEF ResetAtPrompt, Goto, KnowsParticipant, Decrypts
  <2>6. ~GenerateMissingBundle(p) /\ ~CreateParticipant(p)
    BY <2>2 DEF GenerateMissingBundle, CreateParticipant, CreateBundle
  <2>7. ASSUME User(p) \/ Stop(p) \/ ServerHandles(p) \/ Refused(p)
        PROVE  bundle' = bundle
    BY <2>5, <2>7 DEF User, Login, ChooseKey, OpenChats, BackToMenu, ExitAtPrompt, Stop,
       ServerHandles, Refused, local
  <2>8. ASSUME SetupWithParticipant(p)
        PROVE  bundle' = bundle
    BY <2>6, <2>8 DEF SetupWithParticipant, AskForReset, PublishAgain, ResetOfVanishedRow,
       CompareWithServer, MarkPublished, SkipPublishedOPKs, UploadNonPublishedOPKs,
       ClearUndecryptableOPKs, RegenerateOPKs, OPKsUploaded, Replenish, EnoughOPKs,
       Replenished, StoreAndUpload, Finish, local, Goto, Working
  <2>9. ASSUME SetupWithoutParticipant(p)
        PROVE  bundle' = bundle
    BY <2>4, <2>6, <2>9 DEF SetupWithoutParticipant, CreateOverExistingRow,
       ParticipantCreated, TokenReceived, UploadFirstOPKs, FirstOPKsUploaded,
       StoreAndUpload, Finish, local, Goto, Working
  <2>10. ASSUME ServerHandlesLate \/ PeerTakes \/ UNCHANGED vars
         PROVE  bundle' = bundle
    BY <2>10 DEF ServerHandlesLate, PeerTakes, vars, local
  <2>. QED
    BY <2>1, <2>7, <2>8, <2>9, <2>10, Zenon DEF Next, Setup
<1>2. OneInv /\ [Next]_vars => [\A p \in Procs : Keeps(p)]_vars
  BY <1>1
<1>. QED
  BY <1>2, OneProcessInvariant, PTL DEF Spec, IdentityIsKept
=============================================================================
