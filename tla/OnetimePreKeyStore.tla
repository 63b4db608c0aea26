------------------------- MODULE OnetimePreKeyStore -------------------------
(***************************************************************************)
(* Concurrent requests for the one-time prekeys of one participant, as     *)
(* E2EEParticipantOnetimePreKeyRepository runs them: on a connection of a  *)
(* pool, in a transaction, statement by statement.                         *)
(*                                                                         *)
(* The statements run under InnoDB's default, repeatable read.  The SELECT *)
(* takes no lock.  A DELETE or an INSERT waits for transactions that hold  *)
(* what it touches, and is undone by itself if it fails.  The DELETE of a  *)
(* flush holds the participant's range against an INSERT, even if it finds *)
(* nothing; two of those that find nothing wait for each other at their    *)
(* INSERT, and one is rolled back.  Who waits too long gets an error.      *)
(*                                                                         *)
(* A connection is given back by release() only, which the code calls      *)
(* after a COMMIT: an await that throws past it leaves the connection, and *)
(* what its transaction holds, behind.                                     *)
(***************************************************************************)
EXTENDS Naturals, Sequences, FiniteSets

CONSTANTS
  Requests,   \* calls of createManyByParticipantId and of popByParticipantId
  Ids,        \* ids of prekeys
  Jobs,       \* what they may be called with
  Limit,      \* connections of the pool
  MaxFaults,  \* bound: calls of the database that fail, connections that are lost
  None

ASSUME JobsAssumption ==
  Jobs \subseteq [pop : BOOLEAN, batch : SUBSET Ids, flush : BOOLEAN]
ASSUME LimitAssumption == Limit \in Nat \ {0}
ASSUME IdsAssumption == Ids \cap {None, "empty", "ok", "error"} = {}
ASSUME NoneAssumption == None \notin {"empty", "ok", "error"}

VARIABLES
  rows,      \* committed ids of e2ee_participant_onetime_prekeys
  queue,     \* requests that wait for a connection
  job,       \* what each request is called with
  pc,        \* the statement it is at
  opk,       \* the row that a pop has selected, "empty" if there was none
  deleted,   \* ids its open transaction has deleted and holds
  inserted,  \* ids its open transaction has inserted
  flushed,   \* its open transaction has deleted, and holds, the range
  answer,    \* what it returned
  past,      \* history: the requests that had returned when a pop read
  faults     \* see MaxFaults

vars == <<rows, queue, job, pc, opk, deleted, inserted, flushed, answer, past, faults>>

InTransaction == {"begun", "insert", "delete", "commit", "failing"}
OnConnection  == {"opening"} \cup InTransaction
Leaked        == {r \in Requests : pc[r] = "leaked"}
Connected     == {r \in Requests : pc[r] \in OnConnection \cup {"list", "leaked"}}

OneFault == faults < MaxFaults /\ faults' = faults + 1

Goto(r, l) == pc' = [pc EXCEPT ![r] = l]
Throws(r, l) == Goto(r, l) /\ answer' = [answer EXCEPT ![r] = "error"]

----------------------------------------------------------------------------
(* Locks: the transactions that the next statement of a request waits for. *)

Flushes(r) == pc[r] = "begun" /\ ~job[r].pop /\ job[r].flush
Inserts(r) == pc[r] = "insert" \/ (pc[r] = "begun" /\ ~job[r].pop /\ ~job[r].flush)

\* Mutant: an isolation level without range locks.
RowHolders(r) ==
  {u \in Requests \ {r} :
     \/ Flushes(r) /\ (rows \cap deleted[u] # {} \/ inserted[u] # {})
     \/ Inserts(r) /\ job[r].batch \cap (deleted[u] \cup inserted[u]) # {}
     \/ pc[r] = "delete" /\ opk[r] \in deleted[u] \cup inserted[u]}

Holders(r) ==
  {u \in Requests \ {r} :
     \/ Flushes(r) /\ (rows \cap deleted[u] # {} \/ inserted[u] # {})
     \/ Inserts(r) /\ (flushed[u] \/ job[r].batch \cap (deleted[u] \cup inserted[u]) # {})
     \/ pc[r] = "delete" /\ opk[r] \in deleted[u] \cup inserted[u]}

Deadlocked(r) == \E u \in Holders(r) : r \in Holders(u)

----------------------------------------------------------------------------
(* The pool.                                                               *)

Arrive(r) ==
  /\ pc[r] = "new"
  /\ Goto(r, "queued")
  /\ queue' = Append(queue, r)
  /\ UNCHANGED <<rows, job, opk, deleted, inserted, flushed, answer, past, faults>>

\* Mutant: a creation that waits to list the rows begins again.
ConnectAfresh ==
  /\ queue # <<>>
  /\ Cardinality(Connected) < Limit
  /\ Goto(Head(queue), "opening")
  /\ queue' = Tail(queue)
  /\ UNCHANGED <<rows, job, opk, deleted, inserted, flushed, answer, past, faults>>

Connect ==
  /\ queue # <<>>
  /\ Cardinality(Connected) < Limit
  /\ Goto(Head(queue), IF answer[Head(queue)] = None THEN "opening" ELSE "list")
  /\ queue' = Tail(queue)
  /\ UNCHANGED <<rows, job, opk, deleted, inserted, flushed, answer, past, faults>>

\* getConnection rejects, before the repository calls or in the one that lists.
NoConnection ==
  /\ queue # <<>>
  /\ OneFault
  /\ \/ answer[Head(queue)] = None /\ Throws(Head(queue), "done")
     \/ answer[Head(queue)] # None /\ Goto(Head(queue), "done") /\ UNCHANGED answer
  /\ queue' = Tail(queue)
  /\ UNCHANGED <<rows, job, opk, deleted, inserted, flushed, past>>

Begin(r) ==
  /\ pc[r] = "opening"
  /\ Goto(r, "begun")
  /\ UNCHANGED <<rows, queue, job, opk, deleted, inserted, flushed, answer, past, faults>>

----------------------------------------------------------------------------
(* popByParticipantId.  Which row is the oldest matters to no property.    *)

Read(r) ==
  /\ pc[r] = "begun" /\ job[r].pop
  /\ \/ /\ rows = {}
        /\ opk' = [opk EXCEPT ![r] = "empty"]
        /\ Goto(r, "commit")
     \/ /\ \E k \in rows : opk' = [opk EXCEPT ![r] = k]
        /\ Goto(r, "delete")
  /\ past' = [past EXCEPT ![r] = {u \in Requests : answer[u] # None}]
  /\ UNCHANGED <<rows, queue, job, deleted, inserted, flushed, answer, faults>>

\* Mutant: the row that was selected stays.
DeleteNothing(r) ==
  /\ pc[r] = "delete"
  /\ Goto(r, "commit")
  /\ UNCHANGED <<rows, queue, job, opk, deleted, inserted, flushed, answer, past, faults>>

\* How many rows it deletes is not looked at.
Delete(r) ==
  /\ pc[r] = "delete"
  /\ Holders(r) = {}
  /\ deleted' = [deleted EXCEPT ![r] = {opk[r]}]
  /\ Goto(r, "commit")
  /\ UNCHANGED <<rows, queue, job, opk, inserted, flushed, answer, past, faults>>

----------------------------------------------------------------------------
(* createManyByParticipantId.                                              *)

\* Mutant: the DELETE is not part of the transaction.
FlushAtOnce(r) ==
  /\ Flushes(r)
  /\ Holders(r) = {}
  /\ rows' = {}
  /\ Goto(r, "insert")
  /\ UNCHANGED <<queue, job, opk, deleted, inserted, flushed, answer, past, faults>>

Flush(r) ==
  /\ Flushes(r)
  /\ Holders(r) = {}
  /\ deleted' = [deleted EXCEPT ![r] = rows]
  /\ flushed' = [flushed EXCEPT ![r] = TRUE]
  /\ Goto(r, "insert")
  /\ UNCHANGED <<rows, queue, job, opk, inserted, answer, past, faults>>

\* The ids are a primary key.
Insert(r) ==
  /\ Inserts(r)
  /\ Holders(r) = {}
  /\ \/ /\ job[r].batch \cap (rows \ deleted[r]) = {}
        /\ inserted' = [inserted EXCEPT ![r] = job[r].batch]
        /\ Goto(r, "commit")
     \/ /\ job[r].batch \cap (rows \ deleted[r]) # {}
        /\ Goto(r, "failing")
        /\ UNCHANGED inserted
  /\ UNCHANGED <<rows, queue, job, opk, deleted, flushed, answer, past, faults>>

----------------------------------------------------------------------------
(* How both end.                                                           *)

Unlock(r) ==
  /\ deleted' = [deleted EXCEPT ![r] = {}]
  /\ inserted' = [inserted EXCEPT ![r] = {}]
  /\ flushed' = [flushed EXCEPT ![r] = FALSE]

CommitRows(r) == rows' = (rows \ deleted[r]) \cup inserted[r]

\* A pop returns the row it selected; the handler of a creation lists the rows, for which
\* it waits for a connection again.
Commit(r) ==
  /\ pc[r] = "commit"
  /\ CommitRows(r)
  /\ Unlock(r)
  /\ answer' = [answer EXCEPT ![r] = IF job[r].pop THEN opk[r] ELSE "ok"]
  /\ IF job[r].pop THEN Goto(r, "done") /\ UNCHANGED queue
                   ELSE Goto(r, "queued") /\ queue' = Append(queue, r)
  /\ UNCHANGED <<job, opk, past, faults>>

List(r) ==
  /\ pc[r] = "list"
  /\ Goto(r, "done")
  /\ UNCHANGED <<rows, queue, job, opk, deleted, inserted, flushed, answer, past, faults>>

\* Mutant: the connection is not released.
CatchKeepingConnection(r) ==
  /\ pc[r] = "failing" /\ answer[r] = None
  /\ CommitRows(r)
  /\ Unlock(r)
  /\ answer' = [answer EXCEPT ![r] = "error"]
  /\ UNCHANGED <<queue, job, pc, opk, past, faults>>

\* The catch commits, too.
Catch(r) ==
  /\ pc[r] = "failing"
  /\ CommitRows(r)
  /\ Unlock(r)
  /\ Throws(r, "done")
  /\ UNCHANGED <<queue, job, opk, past, faults>>

----------------------------------------------------------------------------
(* Failures.                                                               *)

\* The BEGIN of a pop or a later statement fails within the try.  A COMMIT that fails has
\* rolled the transaction back, or left it open.
StatementFails(r) ==
  /\ \/ pc[r] \in InTransaction \ {"failing"}
     \/ pc[r] = "opening" /\ job[r].pop
  /\ OneFault
  /\ Goto(r, "failing")
  /\ \/ pc[r] = "commit" /\ Unlock(r)
     \/ UNCHANGED <<deleted, inserted, flushed>>
  /\ UNCHANGED <<rows, queue, job, opk, answer, past>>

\* The BEGIN of a creation fails, which is before its try, or the COMMIT in the catch.
ThrowsPastRelease(r) ==
  /\ \/ pc[r] = "failing"
     \/ pc[r] = "opening" /\ ~job[r].pop
  /\ OneFault
  /\ Throws(r, "leaked")
  /\ Unlock(r) \/ UNCHANGED <<deleted, inserted, flushed>>
  /\ UNCHANGED <<rows, queue, job, opk, past>>

\* The connection is lost, and with it the answer to a COMMIT.  The calls on it throw, that
\* in the catch, too; whether the pool then takes its place back is up to the library.
ConnectionLost(r) ==
  /\ pc[r] \in OnConnection
  /\ OneFault
  /\ \/ UNCHANGED rows
     \/ pc[r] \in {"commit", "failing"} /\ CommitRows(r)
  /\ Unlock(r)
  /\ \E l \in {"done", "leaked"} : Throws(r, l)
  /\ UNCHANGED <<queue, job, opk, past>>

DeadlockVictim(r) ==
  /\ Deadlocked(r)
  /\ Unlock(r)
  /\ Goto(r, "failing")
  /\ UNCHANGED <<rows, queue, job, opk, answer, past, faults>>

\* Only the statement that waits is undone.
LockWaitTimesOut(r) ==
  /\ Holders(r) # {}
  /\ Goto(r, "failing")
  /\ UNCHANGED <<rows, queue, job, opk, deleted, inserted, flushed, answer, past, faults>>

----------------------------------------------------------------------------
Init ==
  /\ rows \in {{}} \cup {j.batch : j \in Jobs}
  /\ queue = <<>>
  /\ job \in [Requests -> Jobs]
  /\ pc = [r \in Requests |-> "new"]
  /\ opk = [r \in Requests |-> None]
  /\ deleted = [r \in Requests |-> {}]
  /\ inserted = [r \in Requests |-> {}]
  /\ flushed = [r \in Requests |-> FALSE]
  /\ answer = [r \in Requests |-> None]
  /\ past = [r \in Requests |-> {}]
  /\ faults = 0

Step(r) == \/ Begin(r) \/ Read(r) \/ Delete(r) \/ Flush(r) \/ Insert(r) \/ Commit(r)
           \/ List(r) \/ Catch(r) \/ DeadlockVictim(r) \/ LockWaitTimesOut(r)

Fault(r) == StatementFails(r) \/ ThrowsPastRelease(r) \/ ConnectionLost(r)

Next == \/ Connect \/ NoConnection
        \/ \E r \in Requests : Arrive(r) \/ Step(r) \/ Fault(r)

Spec == Init /\ [][Next]_vars

\* The database gets round to each statement, resolves deadlocks and ends waits for locks,
\* the pool gets round to each request that waits for a connection it has.
FairSpec == Spec /\ WF_vars(Connect) /\ \A r \in Requests : WF_vars(Step(r))

----------------------------------------------------------------------------
(* Properties.                                                             *)

Places == {"new", "queued", "list", "done", "leaked"} \cup OnConnection
Answer == Ids \cup {None, "empty", "ok", "error"}

\* Every variable keeps to its type, a request waits for a connection once, and one that
\* has returned is at no statement of its transaction.
TypeOK ==
  /\ rows \in SUBSET Ids
  /\ queue \in Seq(Requests)
  /\ job \in [Requests -> Jobs]
  /\ pc \in [Requests -> Places]
  /\ opk \in [Requests -> Ids \cup {None, "empty"}]
  /\ deleted \in [Requests -> SUBSET Ids]
  /\ inserted \in [Requests -> SUBSET Ids]
  /\ flushed \in [Requests -> BOOLEAN]
  /\ answer \in [Requests -> Answer]
  /\ past \in [Requests -> SUBSET Requests]
  /\ faults \in Nat
  /\ \A i, j \in 1 .. Len(queue) :
       pc[queue[i]] = "queued" /\ (queue[i] = queue[j] => i = j)
  /\ \A r \in Requests : pc[r] \in {"new"} \cup OnConnection => answer[r] = None

HeldAt(r) ==
  /\ pc[r] \in {"new", "queued", "opening", "begun", "delete", "list", "done"} =>
       deleted[r] = {} /\ inserted[r] = {} /\ ~flushed[r]
  /\ pc[r] = "delete" => job[r].pop /\ opk[r] \in Ids
  /\ pc[r] = "insert" => ~job[r].pop /\ job[r].flush /\ inserted[r] = {} /\ flushed[r]
  /\ pc[r] = "commit" /\ job[r].pop => deleted[r] = {opk[r]} \cap Ids /\ opk[r] # None
  /\ pc[r] = "commit" /\ ~job[r].pop => inserted[r] = job[r].batch
  /\ pc[r] \in {"commit", "failing", "leaked"} /\ job[r].pop =>
       /\ deleted[r] = {} \/ (deleted[r] = {opk[r]} \cap Ids /\ opk[r] # None)
       /\ inserted[r] = {} /\ ~flushed[r]
  /\ pc[r] \in {"commit", "failing", "leaked"} /\ ~job[r].pop =>
       /\ inserted[r] \in {{}, job[r].batch}
       /\ flushed[r] \/ deleted[r] = {}

\* What an open transaction has done, by the statement it is at; a connection that is given
\* back has none.
HeldByPlace == \A r \in Requests : HeldAt(r)

\* Open transactions do not get at what another has deleted or inserted: a flush that
\* waits to insert its batch has all committed rows, whatever commits in the meantime,
\* and a batch that waits for its commit has no id that was committed in the meantime.
LocksHold ==
  \A r \in Requests :
    /\ flushed[r] => rows \subseteq deleted[r]
    /\ inserted[r] \cap (rows \ deleted[r]) = {}
    /\ \A u \in Requests \ {r} : /\ flushed[r] => inserted[u] = {}
                               /\ inserted[r] \cap inserted[u] = {}

\* popByParticipantId gives one prekey to two peers only if the two calls overlap, or if
\* it was created again between them, by a call that may have ended in an error.
HandedTwiceOnlyIfOverlapping ==
  \A p, q \in Requests :
    p # q /\ answer[p] \in Ids /\ answer[p] = answer[q] /\ p \in past[q] =>
      \E c \in past[q] \ past[p] : ~job[c].pop /\ answer[p] \in job[c].batch

\* Statement by statement, with whatever waits, fails and is rolled back, the repository
\* is the pool of OnetimePreKeyPool.
Pool == INSTANCE OnetimePreKeyPool WITH offered <- rows, asked <- opk
ImplementsPool == Pool!PoolSpec

\* Every call of the repository returns or throws, locks, deadlocks and waits for a
\* connection notwithstanding, and what an open transaction on a leaked connection still
\* holds; unless all connections have leaked, when whoever waits for one waits for ever.
EveryRequestReturns ==
  \A r \in Requests :
    pc[r] = "queued" ~> pc[r] \in {"done", "leaked"} \/ Cardinality(Leaked) >= Limit
=============================================================================
