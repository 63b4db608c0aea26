----------------------------- MODULE X3DHProofs -----------------------------
(***************************************************************************)
(* Proofs about X3DH, for any participants and any number of key pairs and *)
(* of sessions.                                                            *)
(***************************************************************************)
EXTENDS X3DH, TLAPS

----------------------------------------------------------------------------
(* The functions.                                                          *)

\* An output of Diffie-Hellman and one of its two pairs determine the other pair,
\* whichever side they stand on.
LEMMA DHFixesOther ==
  ASSUME NEW x, NEW y, NEW z
  PROVE  /\ DH(x, y) = DH(z, x) <=> y = z
         /\ DH(x, y) = DH(x, z) <=> y = z
         /\ DH(x, y) = DH(y, x)
BY DEF DH

\* Outputs that are joined to one sequence are the same, one by one.
LEMMA SameOutputs ==
  ASSUME NEW x, NEW y, NEW z, NEW o, NEW d,
         NEW u, NEW v, NEW w, NEW p, NEW e
  PROVE  Outputs(x, y, z, o, d) = Outputs(u, v, w, p, e) <=>
           /\ x = u /\ y = v /\ z = w
           /\ o = NoPair <=> p = NoPair
           /\ o # NoPair => d = e
BY DEF Outputs

\* The two functions give one secret exactly for the same pairs of the recipient.
LEMMA SameSecret ==
  ASSUME NEW i, NEW e, NEW b, NEW own
  PROVE  RecipientSecret(own, i.identity, e) = InitiatorSecret(i, e, b) <=>
           own.identity = b.identity /\ own.signed = b.signed /\ own.onetime = b.onetime
<1>1. RecipientSecret(own, i.identity, e) =
        Outputs(DH(own.signed, i.identity), DH(own.identity, e), DH(own.signed, e),
                own.onetime, DH(own.onetime, e))
  BY DEF RecipientSecret
<1>2. InitiatorSecret(i, e, b) =
        Outputs(DH(i.identity, b.signed), DH(e, b.identity), DH(e, b.signed),
                b.onetime, DH(e, b.onetime))
  BY DEF InitiatorSecret
<1>3. /\ DH(own.signed, i.identity) = DH(i.identity, b.signed) <=> own.signed = b.signed
      /\ DH(own.identity, e) = DH(e, b.identity) <=> own.identity = b.identity
      /\ DH(own.signed, e) = DH(e, b.signed) <=> own.signed = b.signed
      /\ DH(own.onetime, e) = DH(e, b.onetime) <=> own.onetime = b.onetime
  BY DHFixesOther
<1>. QED
  BY <1>1, <1>2, <1>3, SameOutputs

\* Equal secrets of two initiators are from the same pairs: the ephemeral pair is either
\* the same or the identity pair of the other's recipient.
LEMMA SecretFixesEphemeral ==
  ASSUME NEW i, NEW e, NEW b, NEW j, NEW f, NEW c,
         InitiatorSecret(i, e, b) = InitiatorSecret(j, f, c),
         e # c.identity
  PROVE  e = f
<1>1. DH(e, b.identity) = DH(f, c.identity)
  BY DEF InitiatorSecret, Outputs
<1>. QED
  BY <1>1 DEF DH

----------------------------------------------------------------------------
(* The inductive invariant: identity keys and ephemeral keys are different *)
(* pairs, every bundle is signed with its own identity key, and what was   *)
(* derived is what the functions give.                                     *)

KeyBundle == [identity : Nat, signed : Nat, signer : Nat, signedOver : Nat, onetime : Nat]

Sound(b) ==
  /\ b \in KeyBundle
  /\ b.identity \in 1 .. pairs
  /\ b.signer = b.identity /\ b.signedOver = b.signed
  /\ \A s \in sessions : s.ephemeral # b.identity

BundlesSound ==
  /\ pairs \in Nat
  /\ bundle \in [Participants -> KeyBundle]
  /\ published \in [Participants -> SUBSET KeyBundle]
  /\ \A p \in Participants : /\ bundle[p] = NoBundle \/ Sound(bundle[p])
                             /\ \A b \in published[p] : Sound(b)

SessionSound(s) ==
  /\ s.to \in Participants
  /\ s.ephemeral \in 1 .. pairs
  /\ \A t \in sessions : s.ephemeral = t.ephemeral => s = t
  /\ \E i : i.identity = s.identity /\ s.secret = InitiatorSecret(i, s.ephemeral, s.offer)
  /\ s.data = <<s.identity, s.offer.identity>>
  /\ \E b \in published[s.to] :
       b.identity = s.offer.identity /\ b.signed = s.offer.signed

AnswerSound(a) ==
  /\ a.session \in sessions
  /\ a.secret = RecipientSecret(a.own, a.session.identity, a.session.ephemeral)
  /\ a.data = <<a.session.identity, a.own.identity>>

IInv == /\ BundlesSound
        /\ \A s \in sessions : SessionSound(s)
        /\ \A a \in answers : AnswerSound(a)

LEMMA InitIInv == Init => IInv
BY DEF Init, IInv, BundlesSound, NoBundle, KeyBundle, NoPair

LEMMA CreateIInv ==
  ASSUME NEW p \in Participants, NEW n \in {0, 1}, IInv, CreateBundle(p, n)
  PROVE  IInv'
<1>. USE DEF IInv, CreateBundle
<1>0. PICK new : new =
        [identity |-> pairs + 1, signed |-> pairs + 2, signer |-> pairs + 1,
         signedOver |-> pairs + 2, onetime |-> IF n = 0 THEN NoPair ELSE pairs + 3]
  OBVIOUS
<1>1. pairs \in Nat /\ pairs' \in Nat /\ pairs' > pairs
  BY DEF BundlesSound
<1>2. new \in KeyBundle
  BY <1>0, <1>1 DEF KeyBundle, NoPair
<1>3. Sound(new)'
  <2>1. new.identity = pairs + 1 /\ new.signer = pairs + 1
        /\ new.signed = pairs + 2 /\ new.signedOver = pairs + 2
    BY <1>0
  <2>2. new.identity \in 1 .. pairs'
    BY <2>1, <1>1
  <2>3. \A s \in sessions' : s.ephemeral # new.identity
    BY <2>1, <1>1 DEF SessionSound
  <2>. QED
    BY <2>1, <2>2, <2>3, <1>2 DEF Sound
<1>4. \A b : Sound(b) => Sound(b)'
  BY <1>1 DEF Sound
<1>5. BundlesSound'
  <2>1. bundle' = [bundle EXCEPT ![p] = new]
    BY <1>0
  <2>2. \A q \in Participants : (bundle[q] = NoBundle \/ Sound(bundle[q]))'
    <3>. TAKE q \in Participants
    <3>1. CASE q = p
      BY <3>1, <2>1, <1>3 DEF BundlesSound
    <3>2. CASE q # p
      BY <3>2, <2>1, <1>4 DEF BundlesSound
    <3>. QED
      BY <3>1, <3>2
  <2>. QED
    BY <2>1, <2>2, <1>1, <1>2, <1>4 DEF BundlesSound
<1>6. ASSUME NEW s \in sessions PROVE SessionSound(s)'
  BY <1>1 DEF SessionSound
<1>7. ASSUME NEW a \in answers PROVE AnswerSound(a)'
  BY DEF AnswerSound
<1>. QED
  BY <1>5, <1>6, <1>7

LEMMA RenewIInv ==
  ASSUME NEW p \in Participants, IInv, RenewSignedPreKey(p)
  PROVE  IInv'
<1>. USE DEF IInv, RenewSignedPreKey
<1>0. PICK new : new = [bundle[p] EXCEPT !.signed = pairs + 1, !.signedOver = pairs + 1,
                                         !.signer = bundle[p].identity]
  OBVIOUS
<1>1. pairs \in Nat /\ pairs' = pairs + 1
  BY DEF BundlesSound
<1>2. bundle' = [bundle EXCEPT ![p] = new]
  BY <1>0, <1>1 DEF BundlesSound, KeyBundle
<1>3. Sound(bundle[p])
  BY DEF BundlesSound
<1>4. Sound(new)'
  <2>1. /\ new.identity = bundle[p].identity /\ new.signer = bundle[p].identity
        /\ new.signed = pairs + 1 /\ new.signedOver = pairs + 1
    BY <1>0, <1>3 DEF Sound, KeyBundle
  <2>2. new \in KeyBundle
    <3>1. bundle[p] \in KeyBundle /\ bundle[p].identity \in Nat /\ pairs + 1 \in Nat
      BY <1>1, <1>3 DEF Sound, KeyBundle
    <3>. QED
      BY <1>0, <3>1 DEF KeyBundle
  <2>. QED
    BY <2>1, <2>2, <1>1, <1>3 DEF Sound
<1>5. \A b : Sound(b) => Sound(b)'
  BY <1>1 DEF Sound
<1>6. BundlesSound'
  <2>1. \A q \in Participants : (bundle[q] = NoBundle \/ Sound(bundle[q]))'
    <3>. TAKE q \in Participants
    <3>1. CASE q = p
      BY <3>1, <1>2, <1>4 DEF BundlesSound
    <3>2. CASE q # p
      BY <3>2, <1>2, <1>5 DEF BundlesSound
    <3>. QED
      BY <3>1, <3>2
  <2>2. new \in KeyBundle
    BY <1>4 DEF Sound
  <2>3. \A q \in Participants : \A b \in published'[q] : Sound(b)'
    BY <1>5 DEF BundlesSound
  <2>4. bundle' \in [Participants -> KeyBundle]
    BY <2>2, <1>2 DEF BundlesSound
  <2>. QED
    BY <2>1, <2>3, <2>4, <1>1 DEF BundlesSound
<1>7. ASSUME NEW s \in sessions PROVE SessionSound(s)'
  BY <1>1 DEF SessionSound
<1>8. ASSUME NEW a \in answers PROVE AnswerSound(a)'
  BY DEF AnswerSound
<1>. QED
  BY <1>6, <1>7, <1>8

LEMMA PublishIInv ==
  ASSUME NEW p \in Participants, IInv, Publish(p)
  PROVE  IInv'
<1>. USE DEF IInv, Publish
<1>1. \A b : Sound(b) => Sound(b)'
  BY DEF Sound
<1>2. /\ published' = [published EXCEPT ![p] = published[p] \cup {bundle[p]}]
      /\ Sound(bundle[p])
  BY DEF BundlesSound
<1>3. BundlesSound'
  BY <1>1, <1>2 DEF BundlesSound
<1>4. ASSUME NEW s \in sessions PROVE SessionSound(s)'
  BY <1>2 DEF SessionSound, BundlesSound
<1>5. ASSUME NEW a \in answers PROVE AnswerSound(a)'
  BY DEF AnswerSound
<1>. QED
  BY <1>3, <1>4, <1>5

LEMMA InitiateIInv ==
  ASSUME NEW p \in Participants, NEW q \in Participants, NEW b \in Offers(q),
         IInv, Initiate(p, q, b)
  PROVE  IInv'
<1>. USE DEF IInv, Initiate
<1>0. PICK new : new = [by |-> p, to |-> q, identity |-> bundle[p].identity,
                        ephemeral |-> pairs', offer |-> b,
                        secret |-> InitiatorSecret(bundle[p], pairs', b),
                        data |-> DataWithRecipient(bundle[p], b.identity)]
  OBVIOUS
<1>1. pairs \in Nat /\ pairs' = pairs + 1 /\ sessions' = sessions \cup {new}
  BY <1>0 DEF BundlesSound
<1>3. BundlesSound'
  <2>1. ASSUME NEW c, Sound(c) PROVE Sound(c)'
    <3>1. c.identity # new.ephemeral
      BY <2>1, <1>0, <1>1 DEF Sound
    <3>. QED
      BY <2>1, <3>1, <1>1 DEF Sound
  <2>. QED
    BY <2>1, <1>1 DEF BundlesSound
<1>4. \E c \in published[q] : c.identity = b.identity /\ c.signed = b.signed
  <2>1. PICK c \in published[q] : b.signer = c.signer /\ b.signedOver = c.signedOver
    BY DEF Offers
  <2>2. Sound(c)
    BY <2>1 DEF BundlesSound
  <2>. QED
    BY <2>1, <2>2 DEF Verified, Sound
<1>5. SessionSound(new)'
  <2>1. \A s \in sessions : s.ephemeral # new.ephemeral
    BY <1>0, <1>1 DEF SessionSound
  <2>2. new.data = <<new.identity, new.offer.identity>>
    BY <1>0 DEF DataWithRecipient
  <2>3. \E i : /\ i.identity = new.identity
              /\ new.secret = InitiatorSecret(i, new.ephemeral, new.offer)
    BY <1>0
  <2>4. \A t \in sessions' : new.ephemeral = t.ephemeral => new = t
    BY <1>1, <2>1
  <2>. QED
    BY <1>0, <1>1, <1>4, <2>2, <2>3, <2>4 DEF SessionSound
<1>6. ASSUME NEW s \in sessions PROVE SessionSound(s)'
  <2>1. s.ephemeral # new.ephemeral
    BY <1>0, <1>1 DEF SessionSound
  <2>. QED
    BY <2>1, <1>1 DEF SessionSound
<1>7. ASSUME NEW a \in answers PROVE AnswerSound(a)'
  BY <1>1 DEF AnswerSound
<1>. QED
  BY <1>1, <1>3, <1>5, <1>6, <1>7

LEMMA AnswerIInv ==
  ASSUME NEW s \in sessions, IInv, Answer(s)
  PROVE  IInv'
<1>. USE DEF IInv, Answer
<1>0. PICK new : new = [session |-> s, own |-> bundle[s.to],
                        secret |-> RecipientSecret(bundle[s.to], s.identity, s.ephemeral),
                        data |-> DataWithInitiator(bundle[s.to], s.identity)]
  OBVIOUS
<1>1. BundlesSound'
  BY DEF BundlesSound, Sound
<1>2. ASSUME NEW t \in sessions PROVE SessionSound(t)'
  BY DEF SessionSound
<1>3. AnswerSound(new)'
  BY <1>0 DEF AnswerSound, DataWithInitiator
<1>4. ASSUME NEW a \in answers PROVE AnswerSound(a)'
  BY DEF AnswerSound
<1>. QED
  BY <1>0, <1>1, <1>2, <1>3, <1>4

LEMMA AlwaysIInv == Spec => []IInv
<1>1. IInv /\ [Next]_vars => IInv'
  <2>. SUFFICES ASSUME IInv, [Next]_vars PROVE IInv'
    OBVIOUS
  <2>1. CASE UNCHANGED vars
    BY <2>1 DEF vars, IInv, BundlesSound, Sound, SessionSound, AnswerSound
  <2>. QED
    BY <2>1, CreateIInv, RenewIInv, PublishIInv, InitiateIInv, AnswerIInv DEF Next
<1>. QED
  BY InitIInv, <1>1, PTL DEF Spec

----------------------------------------------------------------------------
\* Initiator and recipient derive one secret exactly if they use the same keys, and then
\* have one associated data.
THEOREM SecretsAlwaysAgree == Spec => []SecretsAgree
<1>1. IInv => SecretsAgree
  <2>. SUFFICES ASSUME IInv, NEW a \in answers
                PROVE  /\ a.secret = a.session.secret <=>
                            /\ a.own.identity = a.session.offer.identity
                            /\ a.own.signed = a.session.offer.signed
                            /\ a.own.onetime = a.session.offer.onetime
                       /\ a.secret = a.session.secret => a.data = a.session.data
    BY DEF SecretsAgree
  <2>1. AnswerSound(a) /\ SessionSound(a.session)
    BY DEF IInv, AnswerSound
  <2>2. a.secret = a.session.secret <=>
          /\ a.own.identity = a.session.offer.identity
          /\ a.own.signed = a.session.offer.signed
          /\ a.own.onetime = a.session.offer.onetime
    BY <2>1, SameSecret DEF SessionSound, AnswerSound
  <2>. QED
    BY <2>1, <2>2 DEF SessionSound, AnswerSound
<1>. QED
  BY <1>1, AlwaysIInv, PTL

\* No two sessions have one secret: an ephemeral pair is nobody's identity pair.
THEOREM SecretsAreAlwaysFresh == Spec => []SecretsAreFresh
<1>1. IInv => SecretsAreFresh
  <2>. SUFFICES ASSUME IInv, NEW s \in sessions, NEW t \in sessions, s.secret = t.secret
                PROVE  s = t
    BY DEF SecretsAreFresh
  <2>1. s.ephemeral # t.offer.identity
    <3>1. PICK b \in published[t.to] : b.identity = t.offer.identity
      BY DEF IInv, SessionSound
    <3>2. Sound(b)
      BY <3>1 DEF IInv, BundlesSound, SessionSound
    <3>. QED
      BY <3>1, <3>2 DEF Sound
  <2>2. PICK i : s.secret = InitiatorSecret(i, s.ephemeral, s.offer)
    BY DEF IInv, SessionSound
  <2>3. PICK j : t.secret = InitiatorSecret(j, t.ephemeral, t.offer)
    BY DEF IInv, SessionSound
  <2>4. s.ephemeral = t.ephemeral
    <3>1. InitiatorSecret(i, s.ephemeral, s.offer) = InitiatorSecret(j, t.ephemeral, t.offer)
      BY <2>2, <2>3
    <3>. QED
      BY <3>1, <2>1, SecretFixesEphemeral
  <2>. QED
    BY <2>4 DEF IInv, SessionSound
<1>. QED
  BY <1>1, AlwaysIInv, PTL

\* Every session's signed prekey was signed with its identity key.
THEOREM SessionsAreAlwaysSigned == Spec => []SessionsAreSigned
<1>1. IInv => SessionsAreSigned
  BY DEF IInv, SessionSound, SessionsAreSigned
<1>. QED
  BY <1>1, AlwaysIInv, PTL
=============================================================================
