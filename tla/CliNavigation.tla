--------------------------- MODULE CliNavigation ---------------------------
(***************************************************************************)
(* The screens of the command line client, the redirects between them, and *)
(* the files that keep local encryption keys.                              *)
(*                                                                         *)
(* navigate() starts the next screen and then throws, so that the screen   *)
(* that called it ends: a process shows one screen at a time.  A step goes *)
(* from one prompt to the next.  The processes of a device share its key   *)
(* files, and can run between the check of a file and its write.           *)
(***************************************************************************)
EXTENDS Naturals

CONSTANTS
  Procs,      \* client processes of the device
  Users,      \* accounts; a user is also the path of its own key file
  OtherPaths, \* paths that users type in
  None,       \* no user, no key, no file
  MaxKeys,    \* bound: keys that are generated
  MaxStarts   \* bound: processes that are started

ASSUME PathsAssumption  == Users \cap OtherPaths = {}
ASSUME NoneAssumption   == None \notin Users \cup OtherPaths \cup Nat \cup {"Chats"}
ASSUME BoundsAssumption == MaxKeys \in Nat /\ MaxStarts \in Nat

VARIABLES
  accounts,  \* users of the server
  files,     \* the key in the file at each path
  sealed,    \* the key that the local data of each user is encrypted under
  ui,        \* per process: its screen, params.from, keyPath, and the cliContext
  fresh,     \* the next key
  starts,    \* see MaxStarts
  givenUp,   \* history: keys whose override was confirmed
  unasked,   \* history: keys in a file that a look, or a question about it, failed for
  raced      \* history: keys written while another process was to store one there

ghosts == <<givenUp, unasked, raced>>
vars == <<accounts, files, sealed, ui, fresh, starts, ghosts>>

Paths == Users \cup OtherPaths
Keys  == 1 .. MaxKeys
InFiles == {files[x] : x \in Paths} \ {None}

Screens == {"off", "Index", "Login", "Register", "LocalKeyManager",
            "LocalKeyManager.Store", "reuse?", "override?", "writing",
            "LocalKeyManager.Retrieve", "not found", "Actions", "Chats"}

Off == [screen |-> "off", from |-> None, path |-> None, user |-> None, key |-> None]

\* The screen s, entered with params.from f.
Render(c, s, f) == [c EXCEPT !.screen = s, !.from = f, !.path = None]

Navigate(p, s, f) == ui' = [ui EXCEPT ![p] = Render(ui[p], s, f)]
Ask(p, s)         == ui' = [ui EXCEPT ![p].screen = s]

----------------------------------------------------------------------------
(* The chats route: three middlewares around a screen.                     *)

\* Mutant: the setup does not look for a local key.
SetupNeedsUser(c) == c.user # None

\* The setup redirects to the main menu unless there is a user and a local key.
SetupIsReady(c) == c.user # None /\ c.key # None

\* setupPreKeyBundle, which leaves the local data of the user under the key of the context
\* (see PreKeySetup), or may end the process before it does or after; then
\* authenticatedRoute, whose redirect loses params on its way, and requireLocalEncryptionKey.
EnterChats(p, c) ==
  \/ /\ ~SetupIsReady(c)
     /\ ui' = [ui EXCEPT ![p] = Render(c, "Index", None)]
     /\ UNCHANGED sealed
  \/ /\ SetupIsReady(c)
     /\ ui' = [ui EXCEPT ![p] = Off]
     /\ sealed' \in {sealed, [sealed EXCEPT ![c.user] = c.key]}
  \/ /\ SetupIsReady(c)
     /\ sealed' = [sealed EXCEPT ![c.user] = c.key]
     /\ ui' = [ui EXCEPT ![p] =
          IF c.user = None THEN Render(c, "Login", None)
          ELSE IF c.key = None THEN Render(c, "LocalKeyManager", "Chats")
          ELSE Render(c, "Chats", None)]

\* The end of a store or retrieve screen that has key k: back to where it was asked for.
Take(p, k) ==
  LET c == [ui[p] EXCEPT !.key = k]
  IN  IF c.from = "Chats" THEN EnterChats(p, c)
      ELSE /\ ui' = [ui EXCEPT ![p] = Render(c, "Actions", None)]
           /\ UNCHANGED sealed

----------------------------------------------------------------------------
(* Start, menu, sign-in.                                                   *)

\* The flags of the command may bring a user and a key file.
Start(p) ==
  /\ ui[p].screen = "off" /\ starts < MaxStarts
  /\ starts' = starts + 1
  /\ \E u \in accounts \cup {None}, k \in InFiles \cup {None} :
       ui' = [ui EXCEPT ![p] = [Off EXCEPT !.screen = "Index", !.user = u, !.key = k]]
  /\ UNCHANGED <<accounts, files, sealed, fresh, ghosts>>

\* Mutant: a process that ends and is started again finds its context.
EndKeepingContext(p) ==
  /\ ui[p].screen # "off"
  /\ Ask(p, "off")
  /\ UNCHANGED <<accounts, files, sealed, fresh, starts, ghosts>>

\* The exit option of a screen, an interrupt, or an error that nothing catches.  A chat
\* screen has no prompt: the process has nothing left to do.
End(p) ==
  /\ ui[p].screen # "off"
  /\ ui' = [ui EXCEPT ![p] = Off]
  /\ UNCHANGED <<accounts, files, sealed, fresh, starts, ghosts>>

\* Mutant: the menu offers a sign-in to whoever is signed in.
MenuForAll(p) ==
  /\ ui[p].screen = "Index"
  /\ \E s \in {"Register", "Login", "LocalKeyManager"} : Navigate(p, s, None)
  /\ UNCHANGED <<accounts, files, sealed, fresh, starts, ghosts>>

Menu(p) ==
  /\ ui[p].screen = "Index"
  /\ \/ /\ ui[p].user = None
        /\ \E s \in {"Register", "Login"} : Navigate(p, s, None)
     \/ Navigate(p, "LocalKeyManager", None)
  /\ UNCHANGED <<accounts, files, sealed, fresh, starts, ghosts>>

OpenChats(p) ==
  /\ ui[p].screen = "Index" /\ ui[p].user # None
  /\ EnterChats(p, ui[p])
  /\ UNCHANGED <<accounts, files, fresh, starts, ghosts>>

SignIn(p, u) ==
  ui' = [ui EXCEPT ![p] = Render([ui[p] EXCEPT !.user = u], "LocalKeyManager", ui[p].from)]

\* AuthAPI.login answers, or it fails and the user gives up, or the user has no account.
Login(p) ==
  /\ ui[p].screen = "Login"
  /\ \/ \E u \in accounts : SignIn(p, u)
     \/ \E s \in {"Index", "Register"} : Navigate(p, s, None)
  /\ UNCHANGED <<accounts, files, sealed, fresh, starts, ghosts>>

\* AuthAPI.register answers, or it fails and the user gives up.
Register(p) ==
  /\ ui[p].screen = "Register"
  /\ \/ \E u \in Users \ accounts : SignIn(p, u) /\ accounts' = accounts \cup {u}
     \/ Navigate(p, "Index", None) /\ UNCHANGED accounts
  /\ UNCHANGED <<files, sealed, fresh, starts, ghosts>>

----------------------------------------------------------------------------
(* The local key.                                                          *)

ManageKeys(p) ==
  /\ ui[p].screen = "LocalKeyManager"
  /\ \/ \E s \in {"LocalKeyManager.Store", "LocalKeyManager.Retrieve"} :
          Navigate(p, s, ui[p].from)
     \/ Navigate(p, "Index", None)
  /\ UNCHANGED <<accounts, files, sealed, fresh, starts, ghosts>>

\* The path made from the user's id, or one that is typed in.
PathsOf(p) == OtherPaths \cup ({ui[p].user} \ {None})

\* Mutant: the file is not looked for.
StoreUnchecked(p) ==
  /\ ui[p].screen = "LocalKeyManager.Store"
  /\ \E x \in PathsOf(p) :
       ui' = [ui EXCEPT ![p].screen = "writing", ![p].path = x]
  /\ UNCHANGED <<accounts, files, sealed, fresh, starts, ghosts>>

\* statSync finds out that there is no file, or a file, which is asked about.
Store(p) ==
  /\ ui[p].screen = "LocalKeyManager.Store"
  /\ \E x \in PathsOf(p) :
       ui' = [ui EXCEPT ![p].screen = IF files[x] = None THEN "writing" ELSE "reuse?",
                        ![p].path = x]
  /\ UNCHANGED <<accounts, files, sealed, fresh, starts, ghosts>>

\* "Yes" to the first question, or "no" to the second.
Reuse(p) ==
  /\ ui[p].screen \in {"reuse?", "override?"}
  /\ Take(p, files[ui[p].path])
  /\ UNCHANGED <<accounts, files, fresh, starts, ghosts>>

Decline(p) ==
  /\ ui[p].screen = "reuse?"
  /\ Ask(p, "override?")
  /\ UNCHANGED <<accounts, files, sealed, fresh, starts, ghosts>>

Override(p) ==
  /\ ui[p].screen = "override?"
  /\ Ask(p, "writing")
  /\ givenUp' = givenUp \cup {files[ui[p].path]}
  /\ UNCHANGED <<accounts, files, sealed, fresh, starts, unasked, raced>>

\* The empty catch: if statSync or a question fails, a new key is written.
GoOn(p) ==
  /\ \/ /\ ui[p].screen = "LocalKeyManager.Store"
        /\ \E x \in PathsOf(p) :
             /\ ui' = [ui EXCEPT ![p].screen = "writing", ![p].path = x]
             /\ unasked' = unasked \cup ({files[x]} \ {None})
     \/ /\ ui[p].screen \in {"reuse?", "override?"}
        /\ Ask(p, "writing")
        /\ unasked' = unasked \cup {files[ui[p].path]}
  /\ UNCHANGED <<accounts, files, sealed, fresh, starts, givenUp, raced>>

\* The processes that have looked at x and may still write it.
Storing(x) ==
  {q \in Procs : ui[q].screen \in {"reuse?", "override?", "writing"} /\ ui[q].path = x}

\* storeKey.  If it throws, for want of the directory, the process ends (End).
Write(p) ==
  LET x == ui[p].path
  IN  /\ ui[p].screen = "writing" /\ fresh \in Keys
      /\ files' = [files EXCEPT ![x] = fresh]
      /\ fresh' = fresh + 1
      /\ Take(p, fresh)
      /\ raced' = IF Storing(x) \subseteq {p} THEN raced ELSE raced \cup {fresh}
      /\ UNCHANGED <<accounts, starts, givenUp, unasked>>

Retrieve(p) ==
  /\ ui[p].screen = "LocalKeyManager.Retrieve"
  /\ \E x \in PathsOf(p) :
       IF files[x] # None THEN Take(p, files[x])
       ELSE /\ ui' = [ui EXCEPT ![p].screen = "not found", ![p].path = x]
            /\ UNCHANGED sealed
  /\ UNCHANGED <<accounts, files, fresh, starts, ghosts>>

\* Only a path that was typed in can be tried again.
NotFound(p) ==
  /\ ui[p].screen = "not found"
  /\ \/ ui[p].path \in OtherPaths /\ Navigate(p, "LocalKeyManager.Retrieve", ui[p].from)
     \/ Navigate(p, "LocalKeyManager.Store", ui[p].from)
     \/ Navigate(p, "Index", None)
  /\ UNCHANGED <<accounts, files, sealed, fresh, starts, ghosts>>

BackToMenu(p) ==
  /\ ui[p].screen = "Actions"
  /\ Navigate(p, "Index", None)
  /\ UNCHANGED <<accounts, files, sealed, fresh, starts, ghosts>>

----------------------------------------------------------------------------
Init ==
  /\ accounts \in SUBSET Users
  /\ files = [x \in Paths |-> None]
  /\ sealed = [u \in Users |-> None]
  /\ ui = [p \in Procs |-> Off]
  /\ fresh = 1 /\ starts = 0
  /\ givenUp = {} /\ unasked = {} /\ raced = {}

Next ==
  \E p \in Procs :
    \/ Start(p) \/ End(p) \/ Menu(p) \/ OpenChats(p) \/ Login(p) \/ Register(p)
    \/ ManageKeys(p) \/ Store(p) \/ Reuse(p) \/ Decline(p) \/ Override(p) \/ GoOn(p)
    \/ Write(p) \/ Retrieve(p) \/ NotFound(p) \/ BackToMenu(p)

Spec == Init /\ [][Next]_vars

----------------------------------------------------------------------------
(* Properties.                                                             *)

\* Every variable keeps to its type; a process that is off has an empty context, and one
\* that asks about a file or writes it has a path.
TypeOK ==
  /\ accounts \in SUBSET Users
  /\ files \in [Paths -> Keys \cup {None}]
  /\ sealed \in [Users -> Keys \cup {None}]
  /\ ui \in [Procs ->
       [screen : Screens, from : {"Chats", None}, path : Paths \cup {None},
        user : Users \cup {None}, key : Keys \cup {None}]]
  /\ \A p \in Procs :
       /\ ui[p].screen = "off" => ui[p] = Off
       /\ ui[p].screen \in {"reuse?", "override?", "writing"} => ui[p].path # None
  /\ fresh \in 1 .. MaxKeys + 1
  /\ starts \in Nat
  /\ givenUp \in SUBSET Keys /\ unasked \in SUBSET Keys /\ raced \in SUBSET Keys

\* The key of a process, and the key that local data is under, is in a file, unless its
\* user confirmed the override, a look at its file or a question about it failed, or it was
\* written while another process had already looked there to store one.
KeysAreKept ==
  LET Kept == {None} \cup InFiles \cup givenUp \cup unasked \cup raced
  IN  /\ \A p \in Procs : ui[p].key \in Kept
      /\ \A u \in Users : sealed[u] \in Kept

\* No screen is told that it was asked for by the chats: the setup redirects to the main
\* menu before the middlewares that would tell it, so that the return from the key screens
\* to the chats, and the redirect to the sign-in, are never taken.
NobodyIsSentBack == \A p \in Procs : ui[p].from = None

\* Screens, redirects and key files keep what the setup relies on.
PhaseOf(s) == IF s = "off" THEN "off" ELSE IF s = "Chats" THEN "chats" ELSE "menu"

Promise == INSTANCE ClientSession WITH
  LocalKeys <- Keys,
  phase <- [p \in Procs |-> PhaseOf(ui[p].screen)],
  user  <- [p \in Procs |-> ui[p].user],
  key   <- [p \in Procs |-> ui[p].key]
ImplementsSession == Promise!Session
=============================================================================
