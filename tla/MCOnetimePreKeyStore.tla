------------------------ MODULE MCOnetimePreKeyStore ------------------------
(* Small instances of OnetimePreKeyStore. *)
EXTENDS OnetimePreKeyStore

CONSTANTS a1, a2, b1, r1, r2, r3

Pop == [pop |-> TRUE, batch |-> {}, flush |-> FALSE]
Create(batch, flush) == [pop |-> FALSE, batch |-> batch, flush |-> flush]

\* Peers, an upload, its repetition with a flush, and a new batch in its place.
AllJobs == {Pop, Create({a1, a2}, FALSE), Create({a1, a2}, TRUE), Create({b1}, TRUE)}

\* Which request does which job is all the same, so they are handed out in an order.
Rank(j) == CASE j.pop -> 0 [] ~j.flush -> 1 [] j.batch = {b1} -> 2 [] OTHER -> 3
JobsInOrder == Rank(job[r1]) <= Rank(job[r2]) /\ Rank(job[r2]) <= Rank(job[r3])
=============================================================================
