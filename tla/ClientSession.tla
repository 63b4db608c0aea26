--------------------------- MODULE ClientSession ---------------------------
(***************************************************************************)
(* What the prekey setup and the chat screens rely on: a session is one    *)
(* user's from the sign-in to the end of the process, and while a chat     *)
(* screen is open neither the user nor the local key changes.              *)
(***************************************************************************)
CONSTANTS Procs, Users, LocalKeys, None

VARIABLES
  phase,  \* "off", "menu" or "chats"
  user,   \* who is signed in
  key     \* the local encryption key in use

sessionVars == <<phase, user, key>>

SessionInit == /\ phase = [p \in Procs |-> "off"]
               /\ user = [p \in Procs |-> None]
               /\ key = [p \in Procs |-> None]

Begin(p) ==
  /\ phase[p] = "off"
  /\ phase' = [phase EXCEPT ![p] = "menu"]
  /\ \E u \in Users \cup {None} : user' = [user EXCEPT ![p] = u]
  /\ \E k \in LocalKeys \cup {None} : key' = [key EXCEPT ![p] = k]

SignIn(p) ==
  /\ phase[p] = "menu" /\ user[p] = None
  /\ \E u \in Users : user' = [user EXCEPT ![p] = u]
  /\ UNCHANGED <<phase, key>>

TakeKey(p) ==
  /\ phase[p] = "menu"
  /\ \E k \in LocalKeys : key' = [key EXCEPT ![p] = k]
  /\ UNCHANGED <<phase, user>>

Chat(p) ==
  /\ phase[p] = "menu" /\ user[p] # None /\ key[p] # None
  /\ phase' = [phase EXCEPT ![p] = "chats"]
  /\ UNCHANGED <<user, key>>

End(p) ==
  /\ phase' = [phase EXCEPT ![p] = "off"]
  /\ user' = [user EXCEPT ![p] = None]
  /\ key' = [key EXCEPT ![p] = None]

SessionNext == \E p \in Procs : Begin(p) \/ SignIn(p) \/ TakeKey(p) \/ Chat(p) \/ End(p)

Session == SessionInit /\ [][SessionNext]_sessionVars
=============================================================================
