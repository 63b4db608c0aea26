------------------------ MODULE CliNavigationProofs ------------------------
(***************************************************************************)
(* Proofs about CliNavigation, for any processes, users and paths and any  *)
(* number of keys and of starts.                                           *)
(***************************************************************************)
EXTENDS CliNavigation, TLAPS

Contexts ==
  [screen : Screens, from : {"Chats", None}, path : Paths \cup {None},
   user : Users \cup {None}, key : Keys \cup {None}]

AskScreens == {"reuse?", "override?"}
PathScreens == AskScreens \cup {"writing"}
SignInScreens == {"Login", "Register"}

Lost == givenUp \cup unasked \cup raced
Kept == {None} \cup InFiles \cup Lost

\* The context of a process.  A key in the file that it is about to write may be lost; a
\* file that it asks about is still there.
Sound(c) ==
  /\ c \in Contexts
  /\ c.from = None
  /\ c.screen = "off" => c = Off
  /\ c.screen \in SignInScreens => c.user = None
  /\ c.screen \in PathScreens => c.path # None
  /\ c.screen \in AskScreens => files[c.path] # None
  /\ c.screen = "writing" => files[c.path] \in {None} \cup Lost
  /\ c.key \in Kept

ContextsSound == ui \in [Procs -> Contexts] /\ \A p \in Procs : Sound(ui[p])

TablesSound ==
  /\ accounts \in SUBSET Users
  /\ files \in [Paths -> Keys \cup {None}]
  /\ sealed \in [Users -> Keys \cup {None}]
  /\ \A u \in Users : sealed[u] \in Kept
  /\ fresh \in 1 .. MaxKeys + 1
  /\ starts \in Nat
  /\ Lost \in SUBSET Keys

\* The inductive invariant.
IInv == ContextsSound /\ TablesSound

LEMMA IInvGivesProperties == IInv => TypeOK /\ KeysAreKept /\ NobodyIsSentBack
BY DEF IInv, ContextsSound, TablesSound, Sound, Contexts, TypeOK, KeysAreKept,
       NobodyIsSentBack, Kept, Lost, PathScreens, AskScreens, SignInScreens

\* Sentinels and values.
LEMMA NoneIsNone ==
  /\ None \notin Keys /\ None \notin Users /\ None \notin Paths
  /\ Off \in Contexts
BY NoneAssumption, BoundsAssumption DEF Keys, Paths, Off, Contexts, Screens

LEMMA InitIInv == Init => IInv
BY NoneIsNone, BoundsAssumption
DEF Init, IInv, ContextsSound, TablesSound, Sound, Kept, Lost, Off, PathScreens, AskScreens,
    SignInScreens

----------------------------------------------------------------------------
(* Steps that leave the files alone.                                       *)

\* If one process moves to a sound context and local data is under a key that is kept,
\* the invariant holds on.
LEMMA OneMoves ==
  ASSUME IInv, NEW p \in Procs, NEW c, Sound(c), ui' = [ui EXCEPT ![p] = c],
         UNCHANGED <<files, ghosts>>,
         \/ UNCHANGED sealed
         \/ \E u \in Users, k \in Kept : sealed' = [sealed EXCEPT ![u] = k],
         accounts' \in SUBSET Users, fresh' = fresh, starts' \in Nat
  PROVE  IInv'
<1>1. Kept' = Kept /\ Lost' = Lost
  BY DEF Kept, Lost, ghosts, InFiles
<1>2. ContextsSound'
  <2>1. c \in Contexts /\ ui' \in [Procs -> Contexts]
    BY DEF IInv, ContextsSound, Sound
  <2>2. ASSUME NEW q \in Procs PROVE Sound(ui[q])'
    <3>1. Sound(ui'[q])
      BY DEF IInv, ContextsSound
    <3>. QED
      BY <1>1, <3>1 DEF Sound
  <2>. QED
    BY <2>1, <2>2 DEF ContextsSound
<1>3. Kept \subseteq Keys \cup {None}
  BY DEF Kept, InFiles, IInv, TablesSound
<1>4. TablesSound'
  BY <1>1, <1>3 DEF IInv, TablesSound
<1>. QED
  BY <1>2, <1>4 DEF IInv

\* The screens that take nothing with them.
PlainScreens == Screens \ (PathScreens \cup {"off"})
ScreensFor(c) == {s \in PlainScreens : s \in SignInScreens => c.user = None}

LEMMA RenderIsSound ==
  ASSUME NEW c, Sound(c), NEW s \in ScreensFor(c)
  PROVE  Sound(Render(c, s, None))
BY NoneIsNone
DEF Sound, Render, Contexts, ScreensFor, PlainScreens, PathScreens, AskScreens,
    SignInScreens, Off

LEMMA NavigateIInv ==
  ASSUME IInv, NEW p \in Procs, NEW s \in ScreensFor(ui[p]), Navigate(p, s, None),
         UNCHANGED <<files, sealed, fresh, ghosts, accounts, starts>>
  PROVE  IInv'
<1>1. Sound(Render(ui[p], s, None))
  BY RenderIsSound DEF IInv, ContextsSound
<1>. QED
  BY <1>1, OneMoves DEF Navigate, IInv, TablesSound

\* Whoever enters the chats is sound afterwards, and ends there, in the menu, or outside.
LEMMA EnterChatsCases ==
  ASSUME IInv, NEW p \in Procs, NEW c, Sound(c), EnterChats(p, c)
  PROVE  \E d : /\ Sound(d) /\ ui' = [ui EXCEPT ![p] = d]
                /\ \/ d = Render(c, "Index", None) /\ UNCHANGED sealed
                   \/ /\ d = Off /\ c.user \in Users /\ c.key \in Keys
                      /\ sealed' \in {sealed, [sealed EXCEPT ![c.user] = c.key]}
                   \/ /\ d = Render(c, "Chats", None)
                      /\ c.user \in Users /\ c.key \in Keys
                      /\ sealed' = [sealed EXCEPT ![c.user] = c.key]
<1>1. Sound(Off)
  BY NoneIsNone DEF Sound, Off, PathScreens, AskScreens, SignInScreens, Kept
<1>2. Sound(Render(c, "Index", None)) /\ Sound(Render(c, "Chats", None))
  BY RenderIsSound
  DEF ScreensFor, PlainScreens, Screens, PathScreens, AskScreens, SignInScreens
<1>3. SetupIsReady(c) => c.user \in Users /\ c.key \in Keys /\ c.user # None /\ c.key # None
  BY DEF Sound, Contexts, SetupIsReady
<1>. QED
  BY <1>1, <1>2, <1>3 DEF EnterChats

\* A key that is kept can be taken into the context.
LEMMA TakeGives ==
  ASSUME IInv, NEW p \in Procs, NEW k, Take(p, k)
  PROVE  /\ ui' = [ui EXCEPT ![p] = Render([ui[p] EXCEPT !.key = k], "Actions", None)]
         /\ UNCHANGED sealed
<1>1. ui[p] \in Contexts /\ ui[p].from = None
  BY DEF IInv, ContextsSound, Sound
<1>2. [ui[p] EXCEPT !.key = k].from # "Chats"
  BY <1>1, NoneAssumption DEF Contexts
<1>. QED
  BY <1>2 DEF Take
----------------------------------------------------------------------------
(* The actions.                                                            *)

Rest == <<accounts, files, sealed, fresh, starts, ghosts>>

\* A process moves to a context that is sound, and nothing else happens.
LEMMA Moves ==
  ASSUME IInv, NEW p \in Procs, NEW c, Sound(c), ui' = [ui EXCEPT ![p] = c],
         UNCHANGED Rest
  PROVE  IInv'
BY OneMoves DEF IInv, TablesSound, Rest

LEMMA StartIInv ==
  ASSUME IInv, NEW p \in Procs, Start(p)
  PROVE  IInv'
<1>1. PICK u \in accounts \cup {None}, k \in InFiles \cup {None} :
        ui' = [ui EXCEPT ![p] = [Off EXCEPT !.screen = "Index", !.user = u, !.key = k]]
  BY DEF Start
<1>2. u \in Users \cup {None} /\ k \in Keys \cup {None} /\ k \in Kept
  BY DEF IInv, TablesSound, InFiles, Kept
<1> DEFINE c == [Off EXCEPT !.screen = "Index", !.user = u, !.key = k]
<1>3. Sound(c)
  BY <1>2 DEF Sound, Off, Contexts, Screens, PathScreens, AskScreens, SignInScreens
<1>4. ui' = [ui EXCEPT ![p] = c]
  BY <1>1
<1>5. /\ UNCHANGED <<accounts, files, sealed, fresh, ghosts>> /\ starts' \in Nat
      /\ accounts \in SUBSET Users
  BY DEF Start, IInv, TablesSound
<1> HIDE DEF c
<1>. QED
  BY <1>3, <1>4, <1>5, OneMoves

LEMMA EndIInv ==
  ASSUME IInv, NEW p \in Procs, End(p)
  PROVE  IInv'
<1>1. Sound(Off)
  BY NoneIsNone DEF Sound, Off, PathScreens, AskScreens, SignInScreens, Kept
<1>. QED
  BY <1>1, Moves DEF End, Rest

LEMMA MenuIInv ==
  ASSUME IInv, NEW p \in Procs, Menu(p) \/ ManageKeys(p) \/ BackToMenu(p)
  PROVE  IInv'
<1>1. ui[p].from = None
  BY DEF IInv, ContextsSound, Sound
<1>2. PICK s \in ScreensFor(ui[p]) : Navigate(p, s, None)
  BY <1>1 DEF Menu, ManageKeys, BackToMenu, ScreensFor, PlainScreens, Screens, PathScreens,
              AskScreens, SignInScreens
<1>3. UNCHANGED <<files, sealed, fresh, ghosts, accounts, starts>>
  BY DEF Menu, ManageKeys, BackToMenu
<1>. QED
  BY <1>2, <1>3, NavigateIInv

LEMMA SignInIInv ==
  ASSUME IInv, NEW p \in Procs, Login(p) \/ Register(p)
  PROVE  IInv'
<1>0. ui[p] \in Contexts /\ ui[p].from = None /\ Sound(ui[p])
  BY DEF IInv, ContextsSound, Sound
<1>1. ASSUME NEW u \in Users, SignIn(p, u), accounts' \in SUBSET Users,
             UNCHANGED <<files, sealed, fresh, starts, ghosts>>,
             ui[p].screen \in {"Login", "Register"}
      PROVE  IInv'
  <2>2. Sound(Render([ui[p] EXCEPT !.user = u], "LocalKeyManager", None))
    BY <1>0, <1>1 DEF Sound, Render, Contexts, Screens, PathScreens, AskScreens,
                      SignInScreens
  <2>. QED
    BY <1>0, <1>1, <2>2, OneMoves DEF SignIn, IInv, TablesSound
<1>2. ASSUME NEW s \in {"Index", "Register"}, Navigate(p, s, None),
             UNCHANGED <<files, sealed, fresh, starts, ghosts, accounts>>,
             ui[p].screen \in SignInScreens
      PROVE  IInv'
  <2>1. s \in ScreensFor(ui[p])
    BY <1>0, <1>2 DEF Sound, ScreensFor, PlainScreens, Screens, PathScreens, AskScreens
  <2>. QED
    BY <1>2, <2>1, NavigateIInv
<1>3. accounts \in SUBSET Users
  BY DEF IInv, TablesSound
<1>4. CASE Login(p)
  BY <1>1, <1>2, <1>3, <1>4 DEF Login, SignInScreens
<1>5. CASE Register(p)
  BY <1>1, <1>2, <1>3, <1>5 DEF Register, SignInScreens
<1>. QED
  BY <1>4, <1>5

LEMMA OpenChatsIInv ==
  ASSUME IInv, NEW p \in Procs, OpenChats(p)
  PROVE  IInv'
<1>1. /\ Sound(ui[p]) /\ ui[p].user \in Users
      /\ Render(ui[p], "Chats", None).key = ui[p].key
  BY DEF OpenChats, IInv, ContextsSound, Sound, Contexts, Render
<1>2. PICK d : /\ Sound(d) /\ ui' = [ui EXCEPT ![p] = d]
               /\ UNCHANGED sealed \/ sealed' = [sealed EXCEPT ![ui[p].user] = ui[p].key]
  BY <1>1, EnterChatsCases DEF OpenChats
<1>3. ui[p].key \in Kept
  BY <1>1 DEF Sound
<1>. QED
  BY <1>1, <1>2, <1>3, OneMoves DEF OpenChats, IInv, TablesSound

\* Whoever has looked at a file.
LEMMA LookIInv ==
  ASSUME IInv, NEW p \in Procs, Store(p) \/ Decline(p)
  PROVE  IInv'
<1>0. Sound(ui[p]) /\ ui[p] \in Contexts /\ files \in [Paths -> Keys \cup {None}]
  BY DEF IInv, ContextsSound, TablesSound, Sound
<1>1. CASE Store(p)
  <2>1. PICK x \in PathsOf(p) :
          ui' = [ui EXCEPT ![p].screen = IF files[x] = None THEN "writing" ELSE "reuse?",
                           ![p].path = x]
    BY <1>1 DEF Store
  <2>2. x \in Paths /\ x # None
    BY <1>0, NoneIsNone DEF PathsOf, Paths, Contexts
  <2> DEFINE c == [ui[p] EXCEPT !.screen = IF files[x] = None THEN "writing" ELSE "reuse?",
                                !.path = x]
  <2>3. Sound(c)
    BY <1>0, <2>2 DEF Sound, Contexts, Screens, PathScreens, AskScreens, SignInScreens
  <2>4. ui' = [ui EXCEPT ![p] = c]
    BY <2>1 DEF IInv, ContextsSound, Contexts
  <2> HIDE DEF c
  <2>. QED
    BY <1>1, <2>3, <2>4, Moves DEF Store, Rest
<1>2. CASE Decline(p)
  <2> DEFINE c == [ui[p] EXCEPT !.screen = "override?"]
  <2>3. Sound(c)
    BY <1>0, <1>2 DEF Decline, Sound, Contexts, Screens, PathScreens, AskScreens, SignInScreens
  <2>4. ui' = [ui EXCEPT ![p] = c]
    BY <1>2 DEF Decline, Ask, IInv, ContextsSound, Contexts
  <2> HIDE DEF c
  <2>. QED
    BY <1>2, <2>3, <2>4, Moves DEF Decline, Rest
<1>. QED
  BY <1>1, <1>2

\* Whoever takes a key that is kept.
LEMMA TakeIsSound ==
  ASSUME IInv, NEW p \in Procs, ui[p].screen # "off",
         NEW k \in Keys \cup {None}, k \in Kept
  PROVE  Sound(Render([ui[p] EXCEPT !.key = k], "Actions", None))
<1>1. Sound(ui[p])
  BY DEF IInv, ContextsSound
<1>2. Sound([ui[p] EXCEPT !.key = k])
  BY <1>1, NoneIsNone DEF Sound, Contexts, Off, PathScreens, AskScreens, SignInScreens
<1>. QED
  BY <1>2, RenderIsSound
  DEF ScreensFor, PlainScreens, Screens, PathScreens, AskScreens, SignInScreens

LEMMA TakeIInv ==
  ASSUME IInv, NEW p \in Procs, ui[p].screen # "off",
         NEW x \in Paths, files[x] # None, Take(p, files[x]),
         UNCHANGED <<accounts, files, fresh, starts, ghosts>>
  PROVE  IInv'
<1>1. files[x] \in Keys /\ files[x] \in Kept
  BY DEF IInv, TablesSound, Kept, InFiles
<1>. QED
  BY <1>1, TakeIsSound, TakeGives, Moves DEF Rest

LEMMA ReuseIInv ==
  ASSUME IInv, NEW p \in Procs, Reuse(p)
  PROVE  IInv'
<1>1. ui[p].path \in Paths /\ files[ui[p].path] # None
  BY DEF Reuse, IInv, ContextsSound, Sound, Contexts, PathScreens, AskScreens, SignInScreens
<1>. QED
  BY <1>1, TakeIInv DEF Reuse

LEMMA RetrieveIInv ==
  ASSUME IInv, NEW p \in Procs, Retrieve(p)
  PROVE  IInv'
<1>0. Sound(ui[p]) /\ ui[p] \in Contexts
  BY DEF IInv, ContextsSound, Sound
<1>1. PICK x \in PathsOf(p) :
        IF files[x] # None THEN Take(p, files[x])
        ELSE /\ ui' = [ui EXCEPT ![p].screen = "not found", ![p].path = x]
             /\ UNCHANGED sealed
  BY DEF Retrieve
<1>2. x \in Paths
  BY <1>0 DEF PathsOf, Paths, Contexts
<1>3. CASE files[x] # None
  BY <1>1, <1>2, <1>3, TakeIInv DEF Retrieve
<1>4. CASE files[x] = None
  <2> DEFINE c == [ui[p] EXCEPT !.screen = "not found", !.path = x]
  <2>1. Sound(c)
    BY <1>0, <1>2 DEF Sound, Contexts, Screens, PathScreens, AskScreens, SignInScreens
  <2>2. ui' = [ui EXCEPT ![p] = c]
    BY <1>1, <1>4 DEF IInv, ContextsSound, Contexts
  <2> HIDE DEF c
  <2>. QED
    BY <1>1, <1>4, <2>1, <2>2, Moves DEF Retrieve, Rest
<1>. QED
  BY <1>3, <1>4

LEMMA NotFoundIInv ==
  ASSUME IInv, NEW p \in Procs, NotFound(p)
  PROVE  IInv'
<1>1. ui[p].from = None
  BY DEF IInv, ContextsSound, Sound
<1>2. PICK s \in ScreensFor(ui[p]) : Navigate(p, s, None)
  BY <1>1 DEF NotFound, ScreensFor, PlainScreens, Screens, PathScreens, AskScreens,
              SignInScreens
<1>3. UNCHANGED <<files, sealed, fresh, ghosts, accounts, starts>>
  BY DEF NotFound
<1>. QED
  BY <1>2, <1>3, NavigateIInv

----------------------------------------------------------------------------
(* Steps that give a key up or replace it.                                 *)

\* Whoever goes on to write a file whose key may be lost.
LEMMA ToWriteIInv ==
  ASSUME IInv, NEW p \in Procs, NEW c \in Contexts, ui' = [ui EXCEPT ![p] = c],
         c.screen = "writing", c.from = None, c.path \in Paths, c.key = ui[p].key,
         Lost \subseteq Lost', Lost' \in SUBSET Keys, files[c.path] \in {None} \cup Lost',
         UNCHANGED <<accounts, files, sealed, fresh, starts>>
  PROVE  IInv'
<1>1. Kept \subseteq Kept'
  BY DEF Kept, InFiles
<1>2. ui \in [Procs -> Contexts] /\ \A q \in Procs : Sound(ui[q])
  BY DEF IInv, ContextsSound
<1>3. ASSUME NEW q \in Procs, q # p PROVE Sound(ui[q])'
  <2>1. ui'[q] = ui[q]
    BY <1>2, <1>3
  <2>. QED
    BY <1>1, <1>2, <1>3, <2>1 DEF Sound
<1>4. Sound(ui[p])'
  <2>1. ui'[p] = c /\ c.key \in Kept' /\ c.path # None
    BY <1>1, <1>2, NoneIsNone DEF Sound
  <2>. QED
    BY <2>1 DEF Sound, PathScreens, AskScreens, SignInScreens
<1>5. ContextsSound'
  BY <1>2, <1>3, <1>4 DEF ContextsSound
<1>6. TablesSound'
  BY <1>1 DEF IInv, TablesSound
<1>. QED
  BY <1>5, <1>6 DEF IInv

\* What an asked question is about.
LEMMA AskedAbout ==
  ASSUME IInv, NEW p \in Procs, ui[p].screen \in AskScreens
  PROVE  /\ ui[p] \in Contexts /\ ui[p].from = None
         /\ ui[p].path \in Paths /\ files[ui[p].path] \in Keys
  BY DEF IInv, ContextsSound, TablesSound, Sound, Contexts, PathScreens

LEMMA OverrideIInv ==
  ASSUME IInv, NEW p \in Procs, Override(p)
  PROVE  IInv'
<1> DEFINE c == [ui[p] EXCEPT !.screen = "writing"]
<1>1. /\ ui[p] \in Contexts /\ ui[p].from = None
      /\ ui[p].path \in Paths /\ files[ui[p].path] \in Keys
  BY AskedAbout DEF Override, AskScreens
<1>2. ui' = [ui EXCEPT ![p] = c]
  BY DEF Override, Ask, IInv, ContextsSound, Contexts
<1>3. /\ c \in Contexts /\ c.screen = "writing" /\ c.from = None
      /\ c.path = ui[p].path /\ c.key = ui[p].key
  BY <1>1 DEF Contexts, Screens
<1>4. /\ Lost' = Lost \cup {files[ui[p].path]}
      /\ UNCHANGED <<accounts, files, sealed, fresh, starts>>
  BY DEF Override, Lost
<1>5. Lost' \in SUBSET Keys
  BY <1>1, <1>4 DEF IInv, TablesSound
<1> HIDE DEF c
<1>. QED
  BY <1>1, <1>2, <1>3, <1>4, <1>5, ToWriteIInv

LEMMA GoOnIInv ==
  ASSUME IInv, NEW p \in Procs, GoOn(p)
  PROVE  IInv'
<1>0. /\ ui[p] \in Contexts /\ ui[p].from = None /\ Lost \in SUBSET Keys
      /\ files \in [Paths -> Keys \cup {None}]
  BY DEF IInv, ContextsSound, TablesSound, Sound
<1>1. CASE ui[p].screen = "LocalKeyManager.Store"
  <2>1. PICK x \in PathsOf(p) :
          /\ ui' = [ui EXCEPT ![p].screen = "writing", ![p].path = x]
          /\ unasked' = unasked \cup ({files[x]} \ {None})
    BY <1>1 DEF GoOn
  <2> DEFINE c == [ui[p] EXCEPT !.screen = "writing", !.path = x]
  <2>2. ui' = [ui EXCEPT ![p] = c]
    BY <2>1 DEF IInv, ContextsSound, Contexts
  <2>3. x \in Paths
    BY <1>0 DEF PathsOf, Paths, Contexts
  <2>4. /\ c \in Contexts /\ c.screen = "writing" /\ c.from = None
        /\ c.path = x /\ c.key = ui[p].key
    BY <1>0, <2>3 DEF Contexts, Screens
  <2>5. /\ Lost' = Lost \cup ({files[x]} \ {None})
        /\ UNCHANGED <<accounts, files, sealed, fresh, starts>>
    BY <2>1 DEF GoOn, Lost
  <2>6. Lost' \in SUBSET Keys
    BY <1>0, <2>3, <2>5
  <2> HIDE DEF c
  <2>. QED
    BY <2>2, <2>3, <2>4, <2>5, <2>6, ToWriteIInv
<1>2. CASE ui[p].screen \in AskScreens
  <2> DEFINE c == [ui[p] EXCEPT !.screen = "writing"]
  <2>1. ui[p].path \in Paths /\ files[ui[p].path] \in Keys
    BY <1>2, AskedAbout
  <2>2. ui' = [ui EXCEPT ![p] = c]
    BY <1>2 DEF GoOn, Ask, AskScreens, IInv, ContextsSound, Contexts
  <2>3. /\ c \in Contexts /\ c.screen = "writing" /\ c.from = None
        /\ c.path = ui[p].path /\ c.key = ui[p].key
    BY <1>0 DEF Contexts, Screens
  <2>4. /\ Lost' = Lost \cup {files[ui[p].path]}
        /\ UNCHANGED <<accounts, files, sealed, fresh, starts>>
    BY <1>2 DEF GoOn, Lost, AskScreens
  <2>5. Lost' \in SUBSET Keys
    BY <1>0, <2>1, <2>4
  <2> HIDE DEF c
  <2>. QED
    BY <2>1, <2>2, <2>3, <2>4, <2>5, ToWriteIInv
<1>. QED
  BY <1>1, <1>2 DEF GoOn, AskScreens

LEMMA WriteIInv ==
  ASSUME IInv, NEW p \in Procs, Write(p)
  PROVE  IInv'
<1> DEFINE x == ui[p].path
           d == Render([ui[p] EXCEPT !.key = fresh], "Actions", None)
<1>0. Sound(ui[p]) /\ ui[p] \in Contexts
  BY DEF IInv, ContextsSound, Sound
<1>1. x \in Paths /\ fresh \in Keys /\ files[x] \in {None} \cup Lost
  BY <1>0 DEF Write, Sound, Contexts, PathScreens
<1>2. /\ files' = [files EXCEPT ![x] = fresh] /\ fresh' = fresh + 1
      /\ Storing(x) \subseteq {p} \/ fresh \in Lost'
      /\ Lost \subseteq Lost' /\ Lost' \subseteq Lost \cup {fresh}
      /\ UNCHANGED <<accounts, starts>>
  BY DEF Write, Lost
<1>3. ui' = [ui EXCEPT ![p] = d] /\ UNCHANGED sealed
  BY TakeGives DEF Write
<1>4. /\ files \in [Paths -> Keys \cup {None}] /\ Lost \in SUBSET Keys
      /\ ui \in [Procs -> Contexts]
  BY DEF IInv, TablesSound, ContextsSound
<1>5. /\ Lost' \in SUBSET Keys
      /\ files' \in [Paths -> Keys \cup {None}]
      /\ \A y \in Paths : files[y] # None => files'[y] # None
  BY <1>1, <1>2, <1>4, NoneIsNone
<1>6. Kept \subseteq Kept' /\ fresh \in Kept'
  <2>1. fresh \in InFiles'
    BY <1>1, <1>2, <1>4, NoneIsNone DEF InFiles
  <2>2. files[x] \in {None} \cup Lost'
    BY <1>1, <1>2
  <2>3. ASSUME NEW y \in Paths, y # x PROVE files[y] \in {None} \cup InFiles'
    BY <1>2, <1>4, <2>3 DEF InFiles
  <2>. QED
    BY <1>2, <2>1, <2>2, <2>3 DEF Kept, InFiles
<1>7. /\ d \in Contexts /\ d.screen = "Actions" /\ d.from = None /\ d.key = fresh
  BY <1>0, <1>1 DEF Render, Contexts, Screens
<1>8. ContextsSound'
  <2> HIDE DEF d
  <2>1. ui' \in [Procs -> Contexts]
    BY <1>3, <1>4, <1>7
  <2>2. ASSUME NEW q \in Procs, q # p PROVE Sound(ui[q])'
    <3>1. Sound(ui[q])
      BY DEF IInv, ContextsSound
    <3>2. ui'[q] = ui[q]
      BY <1>3, <1>4, <2>2
    <3>3. ASSUME ui[q].screen = "writing" PROVE files'[ui[q].path] \in {None} \cup Lost'
      <4>1. CASE ui[q].path = x
        <5>1. q \in Storing(x)
          BY <3>3, <4>1 DEF Storing
        <5>. QED
          BY <1>1, <1>2, <1>4, <2>2, <4>1, <5>1
      <4>2. CASE ui[q].path # x
        <5>1. ui[q].path \in Paths /\ files[ui[q].path] \in {None} \cup Lost
          BY <3>1, <3>3 DEF Sound, Contexts, PathScreens
        <5>. QED
          BY <1>2, <1>4, <4>2, <5>1
      <4>. QED
        BY <4>1, <4>2
    <3>. QED
      BY <3>1, <3>2, <3>3, <1>5, <1>6
      DEF Sound, Contexts, PathScreens, AskScreens, SignInScreens
  <2>3. Sound(ui[p])'
    <3>1. ui'[p] = d
      BY <1>3, <1>4
    <3>. QED
      BY <1>6, <1>7, <3>1 DEF Sound, PathScreens, AskScreens, SignInScreens
  <2>. QED
    BY <2>1, <2>2, <2>3 DEF ContextsSound
<1>9. TablesSound'
  <2>1. fresh' \in 1 .. MaxKeys + 1
    BY <1>1, <1>2, BoundsAssumption DEF Keys
  <2>. QED
    BY <1>2, <1>3, <1>5, <1>6, <2>1 DEF IInv, TablesSound
<1>. QED
  BY <1>8, <1>9 DEF IInv

LEMMA StepIInv == IInv /\ [Next]_vars => IInv'
<1> SUFFICES ASSUME IInv, [Next]_vars PROVE IInv'
  OBVIOUS
<1>1. ASSUME NEW p \in Procs, Start(p) PROVE IInv'
  BY <1>1, StartIInv
<1>2. ASSUME NEW p \in Procs, End(p) PROVE IInv'
  BY <1>2, EndIInv
<1>3. ASSUME NEW p \in Procs, Menu(p) \/ ManageKeys(p) \/ BackToMenu(p) PROVE IInv'
  BY <1>3, MenuIInv
<1>4. ASSUME NEW p \in Procs, OpenChats(p) PROVE IInv'
  BY <1>4, OpenChatsIInv
<1>5. ASSUME NEW p \in Procs, Login(p) \/ Register(p) PROVE IInv'
  BY <1>5, SignInIInv
<1>6. ASSUME NEW p \in Procs, Store(p) \/ Decline(p) PROVE IInv'
  BY <1>6, LookIInv
<1>7. ASSUME NEW p \in Procs, Reuse(p) PROVE IInv'
  BY <1>7, ReuseIInv
<1>8. ASSUME NEW p \in Procs, Override(p) PROVE IInv'
  BY <1>8, OverrideIInv
<1>9. ASSUME NEW p \in Procs, Write(p) PROVE IInv'
  BY <1>9, WriteIInv
<1>10. ASSUME NEW p \in Procs, Retrieve(p) PROVE IInv'
  BY <1>10, RetrieveIInv
<1>11. ASSUME NEW p \in Procs, NotFound(p) PROVE IInv'
  BY <1>11, NotFoundIInv
<1>12. ASSUME NEW p \in Procs, GoOn(p) PROVE IInv'
  BY <1>12, GoOnIInv
<1>13. CASE UNCHANGED vars
  BY <1>13 DEF vars, ghosts, IInv, ContextsSound, TablesSound, Sound, Kept, Lost, InFiles
<1>. QED
  BY <1>1, <1>2, <1>3, <1>4, <1>5, <1>6, <1>7, <1>8, <1>9, <1>10, <1>11, <1>12, <1>13
  DEF Next

----------------------------------------------------------------------------
(* The theorems.                                                           *)

LEMMA Invariance == Spec => []IInv
BY InitIInv, StepIInv, PTL DEF Spec

\* A process that is off has forgotten its user and its key, and one that asks about a file
\* or writes it knows which one.
THEOREM TypeCorrect == Spec => []TypeOK
BY Invariance, IInvGivesProperties, PTL

\* However many clients store and retrieve keys at the same paths, the key of a process and
\* the key that local data is under is in a file, unless somebody confirmed its override, a
\* look at its file or a question about it failed, or it was written between another
\* client's look at the path and that client's write.
THEOREM KeysAreAlwaysKept == Spec => []KeysAreKept
BY Invariance, IInvGivesProperties, PTL

\* The return from the key screens to the chats is never taken.
THEOREM NobodyIsEverSentBack == Spec => []NobodyIsSentBack
BY Invariance, IInvGivesProperties, PTL

----------------------------------------------------------------------------
(* CliNavigation implements ClientSession.                                 *)

Phases == [p \in Procs |-> PhaseOf(ui[p].screen)]
InUse  == [p \in Procs |-> ui[p].key]
Signed == [p \in Procs |-> ui[p].user]

\* What a step of a process may do to its session.
Goes(b, c) ==
  \/ PhaseOf(b.screen) = PhaseOf(c.screen) /\ b.user = c.user /\ b.key = c.key
  \/ b.screen = "off" /\ PhaseOf(c.screen) = "menu"
  \/ /\ PhaseOf(b.screen) = "menu" /\ PhaseOf(c.screen) = "menu"
     /\ \/ b.user = None /\ c.user \in Users /\ c.key = b.key
        \/ c.user = b.user /\ c.key \in Keys
  \/ /\ PhaseOf(b.screen) = "menu" /\ PhaseOf(c.screen) = "chats"
     /\ b.user # None /\ b.key # None /\ b.user = c.user /\ b.key = c.key
  \/ c = Off

LEMMA GoesImplements ==
  ASSUME IInv, NEW p \in Procs, NEW c \in Contexts, Goes(ui[p], c),
         ui' = [ui EXCEPT ![p] = c]
  PROVE  [Promise!SessionNext]_(Promise!sessionVars)
<1>1. ui \in [Procs -> Contexts]
  BY DEF IInv, ContextsSound
<1>2. /\ Phases' = [Phases EXCEPT ![p] = PhaseOf(c.screen)]
      /\ InUse' = [InUse EXCEPT ![p] = c.key]
      /\ Signed' = [Signed EXCEPT ![p] = c.user]
  BY <1>1 DEF Phases, InUse, Signed
<1>3. /\ Phases[p] = PhaseOf(ui[p].screen) /\ InUse[p] = ui[p].key
      /\ Signed[p] = ui[p].user
      /\ Phases = [Phases EXCEPT ![p] = Phases[p]]
      /\ InUse = [InUse EXCEPT ![p] = InUse[p]]
      /\ Signed = [Signed EXCEPT ![p] = Signed[p]]
  BY DEF Phases, InUse, Signed
<1>4. c.user \in Users \cup {None} /\ c.key \in Keys \cup {None}
  BY DEF Contexts
<1>5. CASE /\ PhaseOf(ui[p].screen) = PhaseOf(c.screen)
           /\ ui[p].user = c.user /\ ui[p].key = c.key
  BY <1>2, <1>3, <1>5 DEF Promise!sessionVars, Phases, InUse, Signed
<1>6. CASE ui[p].screen = "off" /\ PhaseOf(c.screen) = "menu"
  <2>1. Phases[p] = "off"
    BY <1>3, <1>6 DEF PhaseOf
  <2>2. Promise!Begin(p)
    BY <1>2, <1>4, <1>6, <2>1 DEF Promise!Begin, Phases, InUse, Signed
  <2>. QED
    BY <2>2 DEF Promise!SessionNext
<1>7. CASE /\ PhaseOf(ui[p].screen) = "menu" /\ PhaseOf(c.screen) = "menu"
           /\ ui[p].user = None /\ c.user \in Users /\ c.key = ui[p].key
  <2>1. Promise!SignIn(p)
    BY <1>2, <1>3, <1>7 DEF Promise!SignIn, Phases, InUse, Signed
  <2>. QED
    BY <2>1 DEF Promise!SessionNext
<1>8. CASE /\ PhaseOf(ui[p].screen) = "menu" /\ PhaseOf(c.screen) = "menu"
           /\ c.user = ui[p].user /\ c.key \in Keys
  <2>1. Promise!TakeKey(p)
    BY <1>2, <1>3, <1>8 DEF Promise!TakeKey, Phases, InUse, Signed
  <2>. QED
    BY <2>1 DEF Promise!SessionNext
<1>9. CASE /\ PhaseOf(ui[p].screen) = "menu" /\ PhaseOf(c.screen) = "chats"
           /\ ui[p].user # None /\ ui[p].key # None
           /\ ui[p].user = c.user /\ ui[p].key = c.key
  <2>1. Promise!Chat(p)
    BY <1>2, <1>3, <1>9 DEF Promise!Chat, Phases, InUse, Signed
  <2>. QED
    BY <2>1 DEF Promise!SessionNext
<1>10. CASE c = Off
  <2>1. PhaseOf(c.screen) = "off" /\ c.user = None /\ c.key = None
    BY <1>10 DEF Off, PhaseOf
  <2>2. Promise!End(p)
    BY <1>2, <2>1 DEF Promise!End, Phases, InUse, Signed
  <2>. QED
    BY <2>2 DEF Promise!SessionNext
<1>. QED
  BY <1>5, <1>6, <1>7, <1>8, <1>9, <1>10 DEF Goes

LEMMA StepGoes ==
  ASSUME IInv, NEW p \in Procs,
         \/ Start(p) \/ End(p) \/ Menu(p) \/ OpenChats(p) \/ Login(p) \/ Register(p)
         \/ ManageKeys(p) \/ Store(p) \/ Reuse(p) \/ Decline(p) \/ Override(p) \/ GoOn(p)
         \/ Write(p) \/ Retrieve(p) \/ NotFound(p) \/ BackToMenu(p)
  PROVE  \E c : Goes(ui[p], c) /\ ui' = [ui EXCEPT ![p] = c]
<1>0. /\ Sound(ui[p]) /\ ui[p] \in Contexts /\ ui \in [Procs -> Contexts]
      /\ files \in [Paths -> Keys \cup {None}] /\ accounts \in SUBSET Users
  BY DEF IInv, ContextsSound, TablesSound, Sound
<1>1. CASE Start(p)
  <2>1. PICK u \in accounts \cup {None}, k \in InFiles \cup {None} :
          ui' = [ui EXCEPT ![p] = [Off EXCEPT !.screen = "Index", !.user = u, !.key = k]]
    BY <1>1 DEF Start
  <2>2. Goes(ui[p], [Off EXCEPT !.screen = "Index", !.user = u, !.key = k])
    BY <1>1 DEF Start, Goes, Off, PhaseOf
  <2>. QED
    BY <2>1, <2>2
<1>2. CASE End(p)
  BY <1>2 DEF End, Goes
\* The steps that navigate within the menu.
<1>3. ASSUME NEW s \in PlainScreens, s # "Chats", NEW f, Navigate(p, s, f),
             ui[p].screen \notin {"off", "Chats"}
      PROVE  \E c : Goes(ui[p], c) /\ ui' = [ui EXCEPT ![p] = c]
  <2>1. Goes(ui[p], Render(ui[p], s, f))
    BY <1>0, <1>3 DEF Goes, PhaseOf, Render, Contexts, PlainScreens
  <2>. QED
    BY <1>3, <2>1 DEF Navigate
<1>4. CASE Menu(p) \/ ManageKeys(p) \/ BackToMenu(p) \/ NotFound(p)
  <2>1. /\ ui[p].screen \notin {"off", "Chats"}
        /\ \E s \in PlainScreens \ {"Chats"} : \E f : Navigate(p, s, f)
    BY <1>4 DEF Menu, ManageKeys, BackToMenu, NotFound, PlainScreens, Screens,
                PathScreens, AskScreens
  <2>. QED
    BY <1>3, <2>1
<1>5. CASE Login(p) \/ Register(p)
  <2>1. ASSUME NEW u \in Users, SignIn(p, u)
        PROVE  \E c : Goes(ui[p], c) /\ ui' = [ui EXCEPT ![p] = c]
    <3> DEFINE c == Render([ui[p] EXCEPT !.user = u], "LocalKeyManager", ui[p].from)
    <3>1. Goes(ui[p], c)
      BY <1>0, <1>5 DEF Login, Register, Goes, PhaseOf, Render, Contexts, Sound,
                        SignInScreens
    <3>. QED
      BY <2>1, <3>1 DEF SignIn
  <2>2. \/ \E u \in Users : SignIn(p, u)
        \/ \E s \in PlainScreens \ {"Chats"} : Navigate(p, s, None)
    BY <1>0, <1>5 DEF Login, Register, PlainScreens, Screens, PathScreens, AskScreens
  <2>3. ui[p].screen \notin {"off", "Chats"}
    BY <1>5 DEF Login, Register
  <2>. QED
    BY <1>3, <2>1, <2>2, <2>3
<1>6. CASE OpenChats(p)
  <2>1. PICK d : /\ ui' = [ui EXCEPT ![p] = d]
                 /\ \/ d = Render(ui[p], "Index", None)
                    \/ d = Off
                    \/ /\ d = Render(ui[p], "Chats", None)
                       /\ ui[p].user \in Users /\ ui[p].key \in Keys
    BY <1>0, <1>6, EnterChatsCases DEF OpenChats
  <2>2. Goes(ui[p], d)
    BY <1>0, <1>6, <2>1, NoneIsNone DEF OpenChats, Goes, PhaseOf, Render, Contexts
  <2>. QED
    BY <2>1, <2>2
<1>7. CASE Store(p)
  <2>1. PICK x \in PathsOf(p) :
          ui' = [ui EXCEPT ![p].screen = IF files[x] = None THEN "writing" ELSE "reuse?",
                           ![p].path = x]
    BY <1>7 DEF Store
  <2> DEFINE c == [ui[p] EXCEPT !.screen = IF files[x] = None THEN "writing" ELSE "reuse?",
                                !.path = x]
  <2>2. ui' = [ui EXCEPT ![p] = c]
    BY <2>1, <1>0 DEF Contexts
  <2>3. Goes(ui[p], c)
    BY <1>0, <1>7 DEF Store, Goes, PhaseOf, Contexts
  <2>. QED
    BY <2>2, <2>3
<1>8. CASE Decline(p) \/ Override(p) \/ GoOn(p)
  <2>1. PICK s \in {"override?", "writing"} :
          \E x : ui' = [ui EXCEPT ![p].screen = s, ![p].path = x]
    <3>1. ASSUME NEW s \in {"override?", "writing"}, Ask(p, s)
          PROVE  ui' = [ui EXCEPT ![p].screen = s, ![p].path = ui[p].path]
      BY <1>0, <3>1 DEF Ask, Contexts
    <3>2. \/ Ask(p, "override?") \/ Ask(p, "writing")
          \/ \E x : ui' = [ui EXCEPT ![p].screen = "writing", ![p].path = x]
      BY <1>8 DEF Decline, Override, GoOn
    <3>. QED
      BY <3>1, <3>2
  <2>2. PICK x : ui' = [ui EXCEPT ![p].screen = s, ![p].path = x]
    BY <2>1
  <2> DEFINE c == [ui[p] EXCEPT !.screen = s, !.path = x]
  <2>3. ui' = [ui EXCEPT ![p] = c]
    BY <2>2, <1>0 DEF Contexts
  <2>4. Goes(ui[p], c)
    BY <1>0, <1>8 DEF Decline, Override, GoOn, Goes, PhaseOf, Contexts
  <2>. QED
    BY <2>3, <2>4
<1>9. ASSUME NEW k \in Keys, Take(p, k), ui[p].screen \notin {"off", "Chats"}
      PROVE  \E c : Goes(ui[p], c) /\ ui' = [ui EXCEPT ![p] = c]
  <2> DEFINE c == Render([ui[p] EXCEPT !.key = k], "Actions", None)
  <2>1. Goes(ui[p], c)
    BY <1>0, <1>9 DEF Goes, PhaseOf, Render, Contexts
  <2>. QED
    BY <1>9, <2>1, TakeGives
<1>10. CASE Reuse(p)
  <2>1. files[ui[p].path] \in Keys
    BY <1>0, <1>10 DEF Reuse, Sound, Contexts, PathScreens, AskScreens
  <2>. QED
    BY <1>9, <1>10, <2>1 DEF Reuse
<1>11. CASE Write(p)
  BY <1>9, <1>11 DEF Write
<1>12. CASE Retrieve(p)
  <2>1. PICK x \in PathsOf(p) :
          IF files[x] # None THEN Take(p, files[x])
          ELSE ui' = [ui EXCEPT ![p].screen = "not found", ![p].path = x]
    BY <1>12 DEF Retrieve
  <2>2. x \in Paths
    BY <1>0 DEF PathsOf, Paths, Contexts
  <2>3. CASE files[x] # None
    BY <1>0, <1>9, <1>12, <2>1, <2>2, <2>3 DEF Retrieve
  <2>4. CASE files[x] = None
    <3> DEFINE c == [ui[p] EXCEPT !.screen = "not found", !.path = x]
    <3>1. ui' = [ui EXCEPT ![p] = c]
      BY <1>0, <2>1, <2>4 DEF Contexts
    <3>2. Goes(ui[p], c)
      BY <1>0, <1>12 DEF Retrieve, Goes, PhaseOf, Contexts
    <3>. QED
      BY <3>1, <3>2
  <2>. QED
    BY <2>3, <2>4
<1>. QED
  BY <1>1, <1>2, <1>4, <1>5, <1>6, <1>7, <1>8, <1>10, <1>11, <1>12

\* From sign-in to the end of a process its session is one user's, and nothing changes the
\* key or the user under an open chat screen: every step of the screens is one of
\* ClientSession, or changes neither.
THEOREM NavigationImplementsSession == Spec => ImplementsSession
<1>1. Init => Promise!SessionInit
  BY DEF Init, Promise!SessionInit, PhaseOf, Off
<1>2. IInv /\ IInv' /\ [Next]_vars => [Promise!SessionNext]_(Promise!sessionVars)
  <2> SUFFICES ASSUME IInv, IInv', [Next]_vars
               PROVE  [Promise!SessionNext]_(Promise!sessionVars)
    OBVIOUS
  <2>1. CASE UNCHANGED vars
    BY <2>1 DEF vars, Promise!sessionVars
  <2>2. CASE Next
    <3>1. PICK p \in Procs : \E c : Goes(ui[p], c) /\ ui' = [ui EXCEPT ![p] = c]
      BY <2>2, StepGoes DEF Next
    <3>2. PICK c : Goes(ui[p], c) /\ ui' = [ui EXCEPT ![p] = c]
      BY <3>1
    <3>3. c \in Contexts
      BY <3>2 DEF IInv, ContextsSound
    <3>. QED
      BY <3>2, <3>3, GoesImplements
  <2>. QED
    BY <2>1, <2>2
<1>. QED
  BY <1>1, <1>2, Invariance, PTL DEF Spec, ImplementsSession, Promise!Session

=============================================================================
