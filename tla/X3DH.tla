-------------------------------- MODULE X3DH --------------------------------
(***************************************************************************)
(* The key agreement of primitives/x3dh: prekey bundles, the secret that   *)
(* an initiator derives from a recipient's public bundle, and the one that *)
(* the recipient derives from the headers of the initial message.  Keys    *)
(* are symbolic: a key pair is a number, an output of Diffie-Hellman the   *)
(* set of the two pairs that went into it, a signature what it signs and   *)
(* the pair it was made with, and the derived key is the sequence of the   *)
(* outputs it is derived from.                                             *)
(*                                                                         *)
(* The bundle that reaches the initiator is put together elsewhere, of     *)
(* what the recipient has published over time: it may be old, a part of it *)
(* may be older than the rest, and a one-time prekey may be there or not.  *)
(***************************************************************************)
EXTENDS Naturals, Sequences, FiniteSets

CONSTANTS
  Participants,
  MaxPairs,      \* bound: key pairs generated
  MaxSessions    \* bound: secrets derived by initiators

VARIABLES
  pairs,      \* number of key pairs generated
  bundle,     \* bundle[p]: preKeyBundle of p, or NoBundle
  published,  \* published[p]: the public bundles p has given out
  sessions,   \* what initiators have derived, with the headers they send
  answers     \* what recipients have derived, and from which session's headers

vars == <<pairs, bundle, published, sessions, answers>>

NoPair   == 0
Pairs    == 1 .. MaxPairs
Bundles  == [identity : Pairs, signed : Pairs, signer : Pairs, signedOver : Pairs,
             onetime : Pairs \cup {NoPair}]
NoBundle == [identity |-> NoPair, signed |-> NoPair, signer |-> NoPair,
             signedOver |-> NoPair, onetime |-> NoPair]

----------------------------------------------------------------------------
(* The functions of the library.                                           *)

DH(own, other) == {own, other}

\* Mutant: nothing is verified.
AnySignature(b) == TRUE

\* verify of the signed prekey's signature with the identity key of the same bundle.
Verified(b) == b.signer = b.identity /\ b.signedOver = b.signed

\* The outputs as they are joined: the fourth is there if there is a one-time prekey.
Outputs(x, y, z, onetime, o) == IF onetime = NoPair THEN <<x, y, z>> ELSE <<x, y, z, o>>

\* Mutant: the ephemeral key is used for none of the outputs.
WithoutEphemeral(own, ephemeral, b) ==
  Outputs(DH(own.identity, b.signed), DH(own.identity, b.identity),
          DH(own.identity, b.signed), b.onetime, DH(own.identity, b.onetime))

\* deriveSecretKeyWithRecipient
InitiatorSecret(own, ephemeral, b) ==
  Outputs(DH(own.identity, b.signed), DH(ephemeral, b.identity),
          DH(ephemeral, b.signed), b.onetime, DH(ephemeral, b.onetime))

\* Mutant: the recipient's one-time prekey is not used.
WithoutOnetime(own, identity, ephemeral) ==
  <<DH(own.signed, identity), DH(own.identity, ephemeral), DH(own.signed, ephemeral)>>

\* deriveSecretKeyWithInitiator
RecipientSecret(own, identity, ephemeral) ==
  Outputs(DH(own.signed, identity), DH(own.identity, ephemeral),
          DH(own.signed, ephemeral), own.onetime, DH(own.onetime, ephemeral))

DataWithRecipient(own, identity) == <<own.identity, identity>>
DataWithInitiator(own, identity) == <<identity, own.identity>>

----------------------------------------------------------------------------
(* Their callers.                                                          *)

\* createPreKeyBundle, with a pair of createManyOneTimePreKeys or without.
CreateBundle(p, n) ==
  /\ pairs + 2 + n <= MaxPairs
  /\ pairs' = pairs + 2 + n
  /\ bundle' = [bundle EXCEPT ![p] =
                  [identity |-> pairs + 1, signed |-> pairs + 2, signer |-> pairs + 1,
                   signedOver |-> pairs + 2, onetime |-> IF n = 0 THEN NoPair ELSE pairs + 3]]
  /\ UNCHANGED <<published, sessions, answers>>

\* createSignedPreKeyBundle with the identity key that is there.
RenewSignedPreKey(p) ==
  /\ bundle[p] # NoBundle
  /\ pairs < MaxPairs
  /\ pairs' = pairs + 1
  /\ bundle' = [bundle EXCEPT ![p].signed = pairs', ![p].signer = bundle[p].identity,
                              ![p].signedOver = pairs']
  /\ UNCHANGED <<published, sessions, answers>>

\* toOneSidedPreKeyBundle("public")
Publish(p) ==
  /\ bundle[p] # NoBundle
  /\ published' = [published EXCEPT ![p] = published[p] \cup {bundle[p]}]
  /\ UNCHANGED <<pairs, bundle, sessions, answers>>

\* What may reach an initiator as the public bundle of p.
Offers(p) ==
  {[identity |-> a.identity, signed |-> b.signed, signer |-> c.signer,
    signedOver |-> c.signedOver, onetime |-> o] :
     a \in published[p], b \in published[p], c \in published[p],
     o \in {d.onetime : d \in published[p]} \cup {NoPair}}

\* The initiator generates an ephemeral key and derives its secret.
Initiate(p, q, b) ==
  /\ bundle[p] # NoBundle /\ b \in Offers(q)
  /\ Verified(b)
  /\ pairs < MaxPairs /\ Cardinality(sessions) < MaxSessions
  /\ pairs' = pairs + 1
  /\ sessions' = sessions \cup
       {[by |-> p, to |-> q, identity |-> bundle[p].identity, ephemeral |-> pairs',
         offer |-> b, secret |-> InitiatorSecret(bundle[p], pairs', b),
         data |-> DataWithRecipient(bundle[p], b.identity)]}
  /\ UNCHANGED <<bundle, published, answers>>

\* The recipient derives its secret from the headers, with the bundle it has by now.
Answer(s) ==
  /\ bundle[s.to] # NoBundle
  /\ answers' = answers \cup
       {[session |-> s, own |-> bundle[s.to],
         secret |-> RecipientSecret(bundle[s.to], s.identity, s.ephemeral),
         data |-> DataWithInitiator(bundle[s.to], s.identity)]}
  /\ UNCHANGED <<pairs, bundle, published, sessions>>

Init ==
  /\ pairs = 0
  /\ bundle = [p \in Participants |-> NoBundle]
  /\ published = [p \in Participants |-> {}]
  /\ sessions = {} /\ answers = {}

Next ==
  \/ \E p \in Participants :
       \/ \E n \in {0, 1} : CreateBundle(p, n)
       \/ RenewSignedPreKey(p)
       \/ Publish(p)
       \/ \E q \in Participants \ {p} : \E b \in Offers(q) : Initiate(p, q, b)
  \/ \E s \in sessions : Answer(s)

Spec == Init /\ [][Next]_vars

----------------------------------------------------------------------------
(* Properties.                                                             *)

\* Initiator and recipient derive one secret exactly if the recipient still has the pairs
\* that the initiator was offered, all of them and no one-time prekey besides: nothing but
\* the secrets tells the two when it has not.  If it has, their associated data is one too.
SecretsAgree ==
  \A a \in answers :
    LET same == a.secret = a.session.secret
    IN  /\ same <=> /\ a.own.identity = a.session.offer.identity
                    /\ a.own.signed = a.session.offer.signed
                    /\ a.own.onetime = a.session.offer.onetime
        /\ same => a.data = a.session.data

\* No two sessions, of whomever and from whatever bundles, have one secret.
SecretsAreFresh == \A s, t \in sessions : s.secret = t.secret => s = t

\* However the bundle was put together, its signed prekey was signed, by the recipient,
\* with its identity key: the two were in one bundle of the recipient's.
SessionsAreSigned ==
  \A s \in sessions : \E b \in published[s.to] :
    b.identity = s.offer.identity /\ b.signed = s.offer.signed
=============================================================================
