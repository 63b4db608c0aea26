------------------------- MODULE OnetimePreKeyPool -------------------------
(***************************************************************************)
(* What the server promises of the one-time prekeys of a participant: a    *)
(* batch comes in whole or not at all, a replacement leaves exactly the    *)
(* new batch, and a peer is given a prekey that was on offer, or finds     *)
(* nothing when nothing was on offer, at some time after it had asked.  A  *)
(* refused replacement may leave nothing on offer.  An error may also hide *)
(* that the request was carried out.  That a prekey is given to one peer   *)
(* only is not promised.                                                   *)
(***************************************************************************)
CONSTANTS Requests, Ids, None

VARIABLES
  offered,  \* the prekeys on offer
  asked,    \* the prekey seen for a peer, not taken away yet, or "empty"
  answer    \* None, or what the request was answered: "ok", "error", "empty", a prekey

poolVars == <<offered, asked, answer>>

Answers(r, a) == /\ answer[r] = None
                 /\ answer' = [answer EXCEPT ![r] = a]

PoolInit == /\ offered \in SUBSET Ids
            /\ asked = [r \in Requests |-> None]
            /\ answer = [r \in Requests |-> None]

See(r, k) == /\ answer[r] = None
             /\ k \in offered \/ (offered = {} /\ k = "empty")
             /\ asked' = [asked EXCEPT ![r] = k]
             /\ UNCHANGED <<offered, answer>>

Give(r, a) == /\ asked[r] # None
              /\ a \in {asked[r], "error"}
              /\ Answers(r, a)
              /\ offered' = offered \ {asked[r]}
              /\ UNCHANGED asked

Offer(r, batch, a) == /\ batch \cap offered = {}
                      /\ Answers(r, a)
                      /\ offered' = offered \cup batch
                      /\ UNCHANGED asked

\* One that fails half way leaves the empty batch.
Replace(r, batch, a) == /\ Answers(r, a)
                        /\ offered' = batch
                        /\ UNCHANGED asked

\* A request that fails changes nothing.
Refuse(r) == /\ Answers(r, "error")
             /\ UNCHANGED <<offered, asked>>

PoolNext == \E r \in Requests :
  \/ Refuse(r)
  \/ \E k \in Ids \cup {"empty"} : See(r, k)
  \/ \E a \in Ids \cup {"empty", "error"} : Give(r, a)
  \/ \E batch \in SUBSET Ids, a \in {"ok", "error"} :
       Offer(r, batch, a) \/ Replace(r, batch, a)

PoolSpec == PoolInit /\ [][PoolNext]_poolVars
=============================================================================
