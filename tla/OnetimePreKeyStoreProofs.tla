----------------------- MODULE OnetimePreKeyStoreProofs -----------------------
(***************************************************************************)
(* The repository keeps its types, its transactions keep out of each       *)
(* other's way, and it implements OnetimePreKeyPool, for any number of     *)
(* requests, connections and faults.                                       *)
(***************************************************************************)
EXTENDS OnetimePreKeyStore, TLAPS

USE DEF InTransaction, OnConnection, Places, Answer

\* A job is what a request is called with.
LEMMA JobFields ==
  ASSUME TypeOK, NEW r \in Requests
  PROVE  job[r].pop \in BOOLEAN /\ job[r].batch \in SUBSET Ids /\ job[r].flush \in BOOLEAN
  BY JobsAssumption DEF TypeOK

\* The initial states have their types and nothing is held.
LEMMA InitHolds == Init => TypeOK /\ HeldByPlace /\ LocksHold
  BY JobsAssumption DEF Init, TypeOK, HeldByPlace, HeldAt, LocksHold

\* How a step changes the queue.
LEMMA QueueKept ==
  ASSUME TypeOK, NEW r \in Requests, NEW l \in Places, pc[r] # "queued",
         Goto(r, l), UNCHANGED queue
  PROVE  /\ pc' \in [Requests -> Places] /\ pc'[r] = l
         /\ \A u \in Requests \ {r} : pc'[u] = pc[u]
         /\ queue' \in Seq(Requests)
         /\ \A i, j \in 1 .. Len(queue') :
              pc'[queue'[i]] = "queued" /\ (queue'[i] = queue'[j] => i = j)
  BY DEF TypeOK, Goto

LEMMA QueueGrows ==
  ASSUME TypeOK, NEW r \in Requests, pc[r] # "queued",
         Goto(r, "queued"), queue' = Append(queue, r)
  PROVE  /\ pc' \in [Requests -> Places] /\ pc'[r] = "queued"
         /\ \A u \in Requests \ {r} : pc'[u] = pc[u]
         /\ queue' \in Seq(Requests)
         /\ \A i, j \in 1 .. Len(queue') :
              pc'[queue'[i]] = "queued" /\ (queue'[i] = queue'[j] => i = j)
  BY DEF TypeOK, Goto

LEMMA QueueShrinks ==
  ASSUME TypeOK, queue # <<>>, NEW l \in Places \ {"queued"},
         Goto(Head(queue), l), queue' = Tail(queue)
  PROVE  /\ Head(queue) \in Requests /\ pc[Head(queue)] = "queued"
         /\ pc' \in [Requests -> Places] /\ pc'[Head(queue)] = l
         /\ \A u \in Requests \ {Head(queue)} : pc'[u] = pc[u]
         /\ queue' \in Seq(Requests)
         /\ \A i, j \in 1 .. Len(queue') :
              pc'[queue'[i]] = "queued" /\ (queue'[i] = queue'[j] => i = j)
  BY DEF TypeOK, Goto

\* The cases of a step.
LEMMA StepCases ==
  ASSUME [Next]_vars
  PROVE  \/ UNCHANGED vars
         \/ Connect \/ NoConnection
         \/ \E r \in Requests :
              \/ Arrive(r) \/ Begin(r) \/ Read(r) \/ Delete(r) \/ Flush(r) \/ Insert(r)
              \/ Commit(r) \/ List(r) \/ Catch(r) \/ DeadlockVictim(r)
              \/ LockWaitTimesOut(r) \/ StatementFails(r) \/ ThrowsPastRelease(r)
              \/ ConnectionLost(r)
  BY DEF Next, Step, Fault

\* Who waits for a lock, or is the victim of a deadlock, is at a DELETE or an INSERT.
LEMMA WaiterIsOpen ==
  ASSUME NEW r \in Requests, DeadlockVictim(r) \/ LockWaitTimesOut(r)
  PROVE  pc[r] \in {"begun", "insert", "delete"}
  BY DEF DeadlockVictim, LockWaitTimesOut, Deadlocked, Holders, Flushes, Inserts

\* Unlock releases what one request holds.
LEMMA Unlocked ==
  ASSUME TypeOK, NEW r \in Requests, Unlock(r)
  PROVE  /\ deleted'[r] = {} /\ inserted'[r] = {} /\ flushed'[r] = FALSE
         /\ \A u \in Requests \ {r} : /\ deleted'[u] = deleted[u]
                                     /\ inserted'[u] = inserted[u]
                                     /\ flushed'[u] = flushed[u]
         /\ deleted' \in [Requests -> SUBSET Ids]
         /\ inserted' \in [Requests -> SUBSET Ids]
         /\ flushed' \in [Requests -> BOOLEAN]
  BY DEF TypeOK, Unlock

\* A request that fails and holds what it held, or nothing, keeps the types.
LEMMA FailingTyped ==
  ASSUME TypeOK, NEW r \in Requests, pc[r] \in OnConnection,
         NEW l \in {"failing", "done", "leaked"}, Goto(r, l),
         Unlock(r) \/ UNCHANGED <<deleted, inserted, flushed>>,
         rows' \in SUBSET Ids, UNCHANGED <<queue, job, opk, past>>, faults' \in Nat,
         \/ answer' = [answer EXCEPT ![r] = "error"] /\ l # "failing"
         \/ UNCHANGED answer
  PROVE  TypeOK'
<1>1. /\ deleted' \in [Requests -> SUBSET Ids]
      /\ inserted' \in [Requests -> SUBSET Ids]
      /\ flushed' \in [Requests -> BOOLEAN]
  BY Unlocked DEF TypeOK
<1>2. answer' \in [Requests -> Answer] /\ \A u \in Requests \ {r} : answer'[u] = answer[u]
  BY DEF TypeOK
<1>3. /\ pc' \in [Requests -> Places] /\ pc'[r] = l
      /\ \A u \in Requests \ {r} : pc'[u] = pc[u]
      /\ queue' \in Seq(Requests)
      /\ \A i, j \in 1 .. Len(queue') :
           pc'[queue'[i]] = "queued" /\ (queue'[i] = queue'[j] => i = j)
  BY QueueKept
<1>4. \A u \in Requests : pc'[u] \in {"new"} \cup OnConnection => answer'[u] = None
  <2>1. ASSUME NEW u \in Requests \ {r}, pc'[u] \in {"new"} \cup OnConnection
        PROVE  answer'[u] = None
    BY <1>2, <1>3, <2>1 DEF TypeOK
  <2>2. pc'[r] \in {"new"} \cup OnConnection => answer'[r] = None
    BY <1>3 DEF TypeOK
  <2>. QED
    BY <2>1, <2>2
<1>. QED
  BY <1>1, <1>2, <1>3, <1>4 DEF TypeOK

\* What a commit leaves in the table are ids.
LEMMA CommitTyped ==
  ASSUME TypeOK, NEW r \in Requests, CommitRows(r)
  PROVE  rows' \in SUBSET Ids
  BY DEF TypeOK, CommitRows

LEMMA TypeStep == TypeOK /\ HeldByPlace /\ [Next]_vars => TypeOK'
<1>. SUFFICES ASSUME TypeOK, HeldByPlace, [Next]_vars PROVE TypeOK'
  OBVIOUS
<1>1. CASE UNCHANGED vars
  BY <1>1 DEF TypeOK, vars
<1>2. CASE Connect
  <2>1. \/ Goto(Head(queue), "opening") /\ answer[Head(queue)] = None
        \/ Goto(Head(queue), "list")
    BY <1>2 DEF Connect
  <2>. QED
    BY <1>2, <2>1, QueueShrinks DEF TypeOK, Connect
<1>15. CASE NoConnection
  <2>1. Goto(Head(queue), "done") /\ queue # <<>> /\ queue' = Tail(queue)
    BY <1>15 DEF NoConnection, Throws
  <2>2. /\ answer' \in [Requests -> Answer]
        /\ \A u \in Requests \ {Head(queue)} : answer'[u] = answer[u]
    BY <1>15, <2>1, QueueShrinks DEF NoConnection, Throws, TypeOK
  <2>3. faults' \in Nat
    BY <1>15 DEF NoConnection, OneFault, TypeOK
  <2>4. /\ pc' \in [Requests -> Places] /\ pc'[Head(queue)] = "done"
        /\ \A u \in Requests \ {Head(queue)} : pc'[u] = pc[u]
        /\ queue' \in Seq(Requests)
        /\ \A i, j \in 1 .. Len(queue') :
             pc'[queue'[i]] = "queued" /\ (queue'[i] = queue'[j] => i = j)
    BY <2>1, QueueShrinks
  <2>5. \A u \in Requests : pc'[u] \in {"new"} \cup OnConnection => answer'[u] = None
    BY <2>2, <2>4 DEF TypeOK
  <2>. QED
    BY <1>15, <2>2, <2>3, <2>4, <2>5 DEF TypeOK, NoConnection
<1>16. ASSUME NEW r \in Requests, Begin(r) PROVE TypeOK'
  BY <1>16, QueueKept DEF TypeOK, Begin
<1>3. ASSUME NEW r \in Requests, Arrive(r) PROVE TypeOK'
  BY <1>3, QueueGrows DEF TypeOK, Arrive
<1>4. ASSUME NEW r \in Requests, Read(r) PROVE TypeOK'
  <2>1. Goto(r, "commit") \/ Goto(r, "delete")
    BY <1>4 DEF Read
  <2>2. opk' \in [Requests -> Ids \cup {None, "empty"}]
    BY <1>4 DEF Read, TypeOK
  <2>. QED
    BY <1>4, <2>1, <2>2, QueueKept DEF TypeOK, Read
<1>5. ASSUME NEW r \in Requests, Delete(r) PROVE TypeOK'
  <2>1. deleted' \in [Requests -> SUBSET Ids]
    BY <1>5 DEF Delete, TypeOK, HeldByPlace, HeldAt
  <2>. QED
    BY <1>5, <2>1, QueueKept DEF TypeOK, Delete
<1>6. ASSUME NEW r \in Requests, Flush(r) PROVE TypeOK'
  BY <1>6, QueueKept DEF TypeOK, Flush, Flushes
<1>7. ASSUME NEW r \in Requests, Insert(r) PROVE TypeOK'
  <2>1. inserted' \in [Requests -> SUBSET Ids]
    BY <1>7, JobFields DEF Insert, TypeOK
  <2>2. Goto(r, "commit") \/ Goto(r, "failing")
    BY <1>7 DEF Insert
  <2>3. pc[r] \in {"begun", "insert"} /\ UNCHANGED queue
    BY <1>7 DEF Insert, Inserts
  <2>4. /\ pc' \in [Requests -> Places] /\ pc'[r] \in {"commit", "failing"}
        /\ \A u \in Requests \ {r} : pc'[u] = pc[u]
        /\ \A i, j \in 1 .. Len(queue') :
             pc'[queue'[i]] = "queued" /\ (queue'[i] = queue'[j] => i = j)
    BY <2>2, <2>3, QueueKept
  <2>. QED
    BY <1>7, <2>1, <2>3, <2>4 DEF TypeOK, Insert
<1>8. ASSUME NEW r \in Requests, Commit(r) PROVE TypeOK'
  <2>1. rows' \in SUBSET Ids
    BY <1>8 DEF Commit, CommitRows, TypeOK
  <2>2. /\ deleted' \in [Requests -> SUBSET Ids]
        /\ inserted' \in [Requests -> SUBSET Ids]
        /\ flushed' \in [Requests -> BOOLEAN]
    BY <1>8 DEF Commit, Unlock, TypeOK
  <2>3. answer' \in [Requests -> Answer]
    BY <1>8 DEF Commit, TypeOK
  <2>4. CASE job[r].pop
    BY <1>8, <2>1, <2>2, <2>3, <2>4, QueueKept DEF TypeOK, Commit
  <2>5. CASE ~job[r].pop
    BY <1>8, <2>1, <2>2, <2>3, <2>5, QueueGrows DEF TypeOK, Commit
  <2>. QED
    BY <2>4, <2>5
<1>9. ASSUME NEW r \in Requests, List(r) PROVE TypeOK'
  BY <1>9, QueueKept DEF TypeOK, List
<1>10. ASSUME NEW r \in Requests, Catch(r) PROVE TypeOK'
  BY <1>10, FailingTyped, CommitTyped DEF Catch, Throws, TypeOK
<1>11. ASSUME NEW r \in Requests, OneFault PROVE faults' \in Nat
  BY <1>11 DEF OneFault, TypeOK
<1>12. ASSUME NEW r \in Requests, DeadlockVictim(r) \/ LockWaitTimesOut(r) PROVE TypeOK'
  <2>1. /\ pc[r] \in OnConnection /\ Goto(r, "failing")
        /\ Unlock(r) \/ UNCHANGED <<deleted, inserted, flushed>>
        /\ UNCHANGED <<rows, queue, job, opk, answer, past, faults>>
    BY <1>12, WaiterIsOpen DEF DeadlockVictim, LockWaitTimesOut
  <2>. QED
    BY <2>1, FailingTyped DEF TypeOK
<1>13. ASSUME NEW r \in Requests, StatementFails(r) \/ ThrowsPastRelease(r) PROVE TypeOK'
  <2>1. /\ pc[r] \in OnConnection
        /\ \/ Goto(r, "failing") /\ UNCHANGED answer
           \/ Goto(r, "leaked") /\ answer' = [answer EXCEPT ![r] = "error"]
        /\ Unlock(r) \/ UNCHANGED <<deleted, inserted, flushed>>
        /\ UNCHANGED <<rows, queue, job, opk, past>> /\ OneFault
    BY <1>13 DEF StatementFails, ThrowsPastRelease, Throws
  <2>. QED
    BY <1>11, <2>1, FailingTyped DEF TypeOK
<1>14. ASSUME NEW r \in Requests, ConnectionLost(r) PROVE TypeOK'
  <2>1. rows' \in SUBSET Ids
    BY <1>14, CommitTyped DEF ConnectionLost, TypeOK
  <2>2. \E l \in {"done", "leaked"} : Goto(r, l) /\ answer' = [answer EXCEPT ![r] = "error"]
    BY <1>14 DEF ConnectionLost, Throws
  <2>. QED
    BY <1>11, <1>14, <2>1, <2>2, FailingTyped DEF ConnectionLost
<1>. QED
  BY <1>1, <1>2, <1>3, <1>4, <1>5, <1>6, <1>7, <1>8, <1>9, <1>10, <1>12, <1>13, <1>14,
     <1>15, <1>16, StepCases

\* What one request does leaves the places of the others.
LEMMA OthersKeepPlace ==
  ASSUME TypeOK, NEW r \in Requests, NEW l, Goto(r, l)
  PROVE  pc'[r] = l /\ \A u \in Requests \ {r} : pc'[u] = pc[u]
  BY DEF TypeOK, Goto

\* What a transaction holds is known by its place after every step.
LEMMA HeldStep == TypeOK /\ HeldByPlace /\ [Next]_vars => HeldByPlace'
<1>. SUFFICES ASSUME TypeOK, HeldByPlace, [Next]_vars PROVE HeldByPlace'
  OBVIOUS
<1>. USE DEF HeldByPlace
<1>1. ASSUME NEW r \in Requests, HeldAt(r)', UNCHANGED job,
             \A u \in Requests \ {r} :
               /\ pc'[u] = pc[u] /\ opk'[u] = opk[u] /\ deleted'[u] = deleted[u]
               /\ inserted'[u] = inserted[u] /\ flushed'[u] = flushed[u]
      PROVE  HeldByPlace'
  BY <1>1 DEF HeldAt
<1>2. CASE UNCHANGED vars
  BY <1>2 DEF HeldAt, vars
<1>3. ASSUME NEW l \in {"opening", "list", "done"}, Goto(Head(queue), l), queue # <<>>,
             queue' = Tail(queue), UNCHANGED <<job, opk, deleted, inserted, flushed>>
      PROVE  HeldByPlace'
  <2>1. PICK r \in Requests : r = Head(queue)
    BY <1>3, QueueShrinks
  <2>2. /\ pc[r] = "queued" /\ pc'[r] = l
        /\ \A u \in Requests \ {r} : pc'[u] = pc[u]
    BY <1>3, <2>1, QueueShrinks
  <2>3. HeldAt(r)'
    BY <1>3, <2>2 DEF HeldAt
  <2>. QED
    BY <1>1, <1>3, <2>2, <2>3
<1>15. CASE Connect \/ NoConnection
  BY <1>3, <1>15 DEF Connect, NoConnection, Throws
<1>16. ASSUME NEW r \in Requests, Begin(r) PROVE HeldByPlace'
  BY <1>1, <1>16, OthersKeepPlace DEF Begin, HeldAt
<1>4. ASSUME NEW r \in Requests, Arrive(r) PROVE HeldByPlace'
  BY <1>1, <1>4, OthersKeepPlace DEF Arrive, HeldAt
<1>5. ASSUME NEW r \in Requests, Read(r) PROVE HeldByPlace'
  <2>1. \A u \in Requests \ {r} : pc'[u] = pc[u] /\ opk'[u] = opk[u]
    BY <1>5, OthersKeepPlace DEF Read, TypeOK
  <2>2. CASE rows = {} /\ opk' = [opk EXCEPT ![r] = "empty"] /\ Goto(r, "commit")
    <3>1. pc'[r] = "commit" /\ opk'[r] = "empty"
      BY <2>2, OthersKeepPlace DEF TypeOK
    <3>. QED
      BY <1>1, <1>5, <2>1, <3>1, IdsAssumption, NoneAssumption DEF Read, HeldAt
  <2>3. CASE (\E k \in rows : opk' = [opk EXCEPT ![r] = k]) /\ Goto(r, "delete")
    <3>1. pc'[r] = "delete" /\ opk'[r] \in Ids
      BY <2>3, OthersKeepPlace DEF TypeOK
    <3>. QED
      BY <1>1, <1>5, <2>1, <3>1 DEF Read, HeldAt
  <2>. QED
    BY <1>5, <2>2, <2>3 DEF Read
<1>6. ASSUME NEW r \in Requests, Delete(r) PROVE HeldByPlace'
  <2>1. pc'[r] = "commit" /\ \A u \in Requests \ {r} : pc'[u] = pc[u]
    BY <1>6, OthersKeepPlace DEF Delete
  <2>2. deleted'[r] = {opk[r]} /\ \A u \in Requests \ {r} : deleted'[u] = deleted[u]
    BY <1>6 DEF Delete, TypeOK
  <2>. QED
    BY <1>1, <1>6, <2>1, <2>2, IdsAssumption DEF Delete, HeldAt
<1>7. ASSUME NEW r \in Requests, Flush(r) PROVE HeldByPlace'
  <2>1. pc'[r] = "insert" /\ \A u \in Requests \ {r} : pc'[u] = pc[u]
    BY <1>7, OthersKeepPlace DEF Flush
  <2>2. /\ flushed'[r] = TRUE
        /\ \A u \in Requests \ {r} : deleted'[u] = deleted[u] /\ flushed'[u] = flushed[u]
    BY <1>7 DEF Flush, TypeOK
  <2>3. /\ ~job[r].pop /\ job[r].flush /\ inserted[r] = {}
        /\ UNCHANGED <<job, opk, inserted>>
    BY <1>7 DEF Flush, Flushes, HeldAt
  <2>4. HeldAt(r)'
    BY <2>1, <2>2, <2>3 DEF HeldAt
  <2>. QED
    BY <1>1, <2>1, <2>2, <2>3, <2>4
<1>8. ASSUME NEW r \in Requests, Insert(r) PROVE HeldByPlace'
  <2>1. /\ Inserts(r) /\ ~job[r].pop
        /\ flushed[r] = job[r].flush /\ (flushed[r] \/ deleted[r] = {}) /\ inserted[r] = {}
    BY <1>8, JobFields DEF Insert, Inserts, HeldAt, TypeOK
  <2>2. CASE Goto(r, "commit") /\ inserted' = [inserted EXCEPT ![r] = job[r].batch]
    <3>1. /\ pc'[r] = "commit" /\ inserted'[r] = job[r].batch
          /\ \A u \in Requests \ {r} : pc'[u] = pc[u] /\ inserted'[u] = inserted[u]
      BY <2>2, OthersKeepPlace DEF TypeOK
    <3>. QED
      BY <1>1, <1>8, <2>1, <3>1 DEF Insert, HeldAt
  <2>3. CASE Goto(r, "failing") /\ UNCHANGED inserted
    <3>1. pc'[r] = "failing" /\ \A u \in Requests \ {r} : pc'[u] = pc[u]
      BY <2>3, OthersKeepPlace
    <3>. QED
      BY <1>1, <1>8, <2>1, <2>3, <3>1 DEF Insert, HeldAt
  <2>. QED
    BY <1>8, <2>2, <2>3 DEF Insert
<1>9. ASSUME NEW r \in Requests, Unlock(r), UNCHANGED <<job, opk>>,
             NEW l \in {"queued", "done", "failing", "leaked"}, Goto(r, l)
      PROVE  HeldByPlace'
  <2>1. /\ pc'[r] = l /\ deleted'[r] = {} /\ inserted'[r] = {} /\ ~flushed'[r]
        /\ \A u \in Requests \ {r} :
             /\ pc'[u] = pc[u] /\ opk'[u] = opk[u] /\ deleted'[u] = deleted[u]
             /\ inserted'[u] = inserted[u] /\ flushed'[u] = flushed[u]
    BY <1>9, Unlocked, OthersKeepPlace
  <2>2. HeldAt(r)'
    BY <2>1 DEF HeldAt
  <2>. QED
    BY <1>1, <1>9, <2>1, <2>2
<1>10. ASSUME NEW r \in Requests, Commit(r) PROVE HeldByPlace'
  BY <1>9, <1>10 DEF Commit
<1>11. ASSUME NEW r \in Requests, List(r) PROVE HeldByPlace'
  BY <1>1, <1>11, OthersKeepPlace DEF List, HeldAt
<1>12. ASSUME NEW r \in Requests, Catch(r) PROVE HeldByPlace'
  BY <1>9, <1>12 DEF Catch, Throws
<1>13. ASSUME NEW r \in Requests, UNCHANGED <<job, opk, deleted, inserted, flushed>>,
              \/ pc[r] \in InTransaction
              \/ pc[r] = "opening",
              NEW l \in {"failing", "leaked"}, Goto(r, l)
       PROVE  HeldByPlace'
  <2>1. pc'[r] = l /\ \A u \in Requests \ {r} : pc'[u] = pc[u]
    BY <1>13, OthersKeepPlace
  <2>2. job[r].pop => inserted[r] = {} /\ ~flushed[r]
    BY <1>13 DEF HeldAt
  <2>3. job[r].pop => deleted[r] = {} \/ (deleted[r] = {opk[r]} \cap Ids /\ opk[r] # None)
    BY <1>13 DEF HeldAt
  <2>4. ~job[r].pop => /\ inserted[r] \in {{}, job[r].batch}
                       /\ flushed[r] \/ deleted[r] = {}
    BY <1>13 DEF HeldAt
  <2>5. HeldAt(r)'
    BY <1>13, <2>1, <2>2, <2>3, <2>4 DEF HeldAt
  <2>. QED
    BY <1>1, <1>13, <2>1, <2>5
<1>14. ASSUME NEW r \in Requests,
              \/ StatementFails(r) \/ ThrowsPastRelease(r) \/ ConnectionLost(r)
              \/ DeadlockVictim(r) \/ LockWaitTimesOut(r)
       PROVE  HeldByPlace'
  <2>1. CASE StatementFails(r)
    BY <1>9, <1>13, <2>1 DEF StatementFails
  <2>2. CASE ThrowsPastRelease(r)
    BY <1>9, <1>13, <2>2 DEF ThrowsPastRelease, Throws
  <2>3. CASE ConnectionLost(r)
    BY <1>9, <2>3 DEF ConnectionLost, Throws
  <2>4. CASE DeadlockVictim(r)
    BY <1>9, <2>4 DEF DeadlockVictim
  <2>5. CASE LockWaitTimesOut(r)
    BY <1>13, <2>5, WaiterIsOpen DEF LockWaitTimesOut
  <2>. QED
    BY <1>14, <2>1, <2>2, <2>3, <2>4, <2>5
<1>. QED
  BY <1>2, <1>4, <1>5, <1>6, <1>7, <1>8, <1>10, <1>11, <1>12, <1>14, <1>15, <1>16, StepCases

\* What the locks keep apart stays apart.
LEMMA LocksStep == TypeOK /\ HeldByPlace /\ LocksHold /\ [Next]_vars => LocksHold'
<1>. SUFFICES ASSUME TypeOK, HeldByPlace, LocksHold, [Next]_vars PROVE LocksHold'
  OBVIOUS
<1>1. ASSUME UNCHANGED <<rows, deleted, inserted, flushed>> PROVE LocksHold'
  BY <1>1 DEF LocksHold
<1>2. CASE UNCHANGED vars
  BY <1>1, <1>2 DEF vars
<1>3. CASE Connect \/ NoConnection
  BY <1>1, <1>3 DEF Connect, NoConnection
<1>4. ASSUME NEW r \in Requests, Delete(r) PROVE LocksHold'
  <2>1. /\ deleted[r] = {} /\ ~flushed[r] /\ inserted[r] = {}
        /\ UNCHANGED <<rows, inserted, flushed>>
    BY <1>4 DEF Delete, HeldByPlace, HeldAt
  <2>2. \A u \in Requests \ {r} : deleted'[u] = deleted[u]
    BY <1>4 DEF Delete, TypeOK
  <2>. QED
    BY <2>1, <2>2 DEF LocksHold
<1>5. ASSUME NEW r \in Requests, Flush(r) PROVE LocksHold'
  <2>1. deleted'[r] = rows /\ inserted[r] = {} /\ UNCHANGED <<rows, inserted>>
    BY <1>5 DEF Flush, Flushes, TypeOK, HeldByPlace, HeldAt
  <2>2. \A u \in Requests \ {r} : deleted'[u] = deleted[u] /\ flushed'[u] = flushed[u]
    BY <1>5 DEF Flush, TypeOK
  <2>3. \A u \in Requests \ {r} : inserted[u] = {}
    BY <1>5 DEF Flush, Holders
  <2>. QED
    BY <2>1, <2>2, <2>3 DEF LocksHold
<1>6. ASSUME NEW r \in Requests, Insert(r) PROVE LocksHold'
  <2>1. Inserts(r) /\ UNCHANGED <<rows, deleted, flushed>>
    BY <1>6 DEF Insert
  <2>2. \A u \in Requests \ {r} : ~flushed[u] /\ job[r].batch \cap inserted[u] = {}
    BY <1>6, <2>1 DEF Insert, Holders
  <2>3. CASE UNCHANGED inserted
    BY <1>1, <2>1, <2>3
  <2>4. CASE /\ job[r].batch \cap (rows \ deleted[r]) = {}
             /\ inserted' = [inserted EXCEPT ![r] = job[r].batch]
    <3>1. inserted'[r] = job[r].batch /\ \A u \in Requests \ {r} : inserted'[u] = inserted[u]
      BY <2>4 DEF TypeOK
    <3>. QED
      BY <2>1, <2>2, <2>4, <3>1 DEF LocksHold
  <2>. QED
    BY <1>6, <2>3, <2>4 DEF Insert
<1>7. ASSUME NEW r \in Requests, Unlock(r), CommitRows(r) \/ UNCHANGED rows
      PROVE  LocksHold'
  <2>1. ASSUME NEW u \in Requests, flushed'[u] PROVE rows' \subseteq deleted'[u]
    <3>1. u # r /\ flushed[u] /\ deleted'[u] = deleted[u]
      BY <1>7, <2>1, Unlocked
    <3>2. inserted[r] = {} /\ rows \subseteq deleted[u]
      BY <3>1 DEF LocksHold
    <3>. QED
      BY <1>7, <3>1, <3>2 DEF CommitRows
  <2>2. ASSUME NEW u \in Requests PROVE inserted'[u] \cap (rows' \ deleted'[u]) = {}
    <3>1. CASE u = r
      BY <1>7, <3>1, Unlocked
    <3>2. CASE u # r
      <4>1. inserted'[u] = inserted[u] /\ deleted'[u] = deleted[u]
        BY <1>7, <3>2, Unlocked
      <4>2. inserted[u] \cap inserted[r] = {} /\ inserted[u] \cap (rows \ deleted[u]) = {}
        BY <3>2 DEF LocksHold
      <4>. QED
        BY <1>7, <4>1, <4>2 DEF CommitRows
    <3>. QED
      BY <3>1, <3>2
  <2>3. ASSUME NEW u \in Requests, NEW v \in Requests \ {u}
        PROVE  (flushed'[u] => inserted'[v] = {}) /\ inserted'[u] \cap inserted'[v] = {}
    <3>1. /\ inserted'[u] \in {{}, inserted[u]} /\ inserted'[v] \in {{}, inserted[v]}
          /\ flushed'[u] => flushed[u]
      BY <1>7, Unlocked
    <3>. QED
      BY <3>1 DEF LocksHold
  <2>. QED
    BY <2>1, <2>2, <2>3 DEF LocksHold
<1>8. ASSUME NEW r \in Requests,
             \/ Arrive(r) \/ Begin(r) \/ Read(r) \/ List(r) \/ LockWaitTimesOut(r)
      PROVE  LocksHold'
  BY <1>1, <1>8 DEF Arrive, Begin, Read, List, LockWaitTimesOut
<1>9. ASSUME NEW r \in Requests,
             \/ Commit(r) \/ Catch(r) \/ DeadlockVictim(r) \/ ConnectionLost(r)
      PROVE  LocksHold'
  BY <1>7, <1>9 DEF Commit, Catch, DeadlockVictim, ConnectionLost
<1>10. ASSUME NEW r \in Requests, StatementFails(r) \/ ThrowsPastRelease(r)
       PROVE  LocksHold'
  BY <1>1, <1>7, <1>10 DEF StatementFails, ThrowsPastRelease
<1>. QED
  BY <1>2, <1>3, <1>4, <1>5, <1>6, <1>8, <1>9, <1>10, StepCases

\* Every variable of the repository keeps to its type, a request waits for a connection
\* once, and one that has returned is at no statement of its transaction.
THEOREM TypeCorrect == Spec => []TypeOK
<1>1. TypeOK /\ HeldByPlace /\ [Next]_vars => (TypeOK /\ HeldByPlace)'
  BY TypeStep, HeldStep
<1>. QED
  BY InitHolds, <1>1, PTL DEF Spec

\* A transaction that has flushed still has every committed row, and one that has inserted
\* has no id that was committed since, whoever commits in the meantime.
THEOREM LocksAlwaysHold == Spec => [](TypeOK /\ HeldByPlace /\ LocksHold)
<1>1. TypeOK /\ HeldByPlace /\ LocksHold /\ [Next]_vars
        => (TypeOK /\ HeldByPlace /\ LocksHold)'
  BY TypeStep, HeldStep, LocksStep
<1>. QED
  BY InitHolds, <1>1, PTL DEF Spec

\* Each step of the repository is one of the pool, or changes nothing the pool shows.
LEMMA PoolStep ==
  TypeOK /\ HeldByPlace /\ LocksHold /\ [Next]_vars => [Pool!PoolNext]_(Pool!poolVars)
<1>. SUFFICES ASSUME TypeOK, HeldByPlace, LocksHold, [Next]_vars
              PROVE  Pool!PoolNext \/ UNCHANGED Pool!poolVars
  OBVIOUS
<1>. USE DEF Pool!poolVars
<1>1. CASE UNCHANGED vars
  BY <1>1 DEF vars
<1>2. CASE Connect
  BY <1>2 DEF Connect
<1>3. ASSUME NEW r \in Requests,
             \/ Arrive(r) \/ Begin(r) \/ Delete(r) \/ Flush(r) \/ Insert(r) \/ List(r)
             \/ DeadlockVictim(r) \/ LockWaitTimesOut(r) \/ StatementFails(r)
      PROVE  UNCHANGED Pool!poolVars
  BY <1>3 DEF Arrive, Begin, Delete, Flush, Insert, List, DeadlockVictim, LockWaitTimesOut,
              StatementFails
<1>4. ASSUME NEW r \in Requests, Read(r) PROVE Pool!PoolNext
  <2>1. answer[r] = None /\ UNCHANGED <<rows, answer>>
    BY <1>4 DEF Read, TypeOK
  <2>2. \E k \in Ids \cup {"empty"} :
          /\ k \in rows \/ (rows = {} /\ k = "empty")
          /\ opk' = [opk EXCEPT ![r] = k]
    BY <1>4 DEF Read, TypeOK
  <2>. QED
    BY <2>1, <2>2 DEF Pool!PoolNext, Pool!See
<1>5. ASSUME NEW r \in Requests, Commit(r), job[r].pop PROVE Pool!PoolNext
  <2>1. /\ answer[r] = None /\ answer' = [answer EXCEPT ![r] = opk[r]]
        /\ opk[r] \in Ids \cup {"empty"} /\ UNCHANGED opk
    BY <1>5 DEF Commit, TypeOK, HeldByPlace, HeldAt
  <2>2. rows' = rows \ {opk[r]}
    <3>1. deleted[r] = {opk[r]} \cap Ids /\ inserted[r] = {} /\ rows \subseteq Ids
      BY <1>5 DEF Commit, TypeOK, HeldByPlace, HeldAt
    <3>. QED
      BY <1>5, <3>1 DEF Commit, CommitRows
  <2>3. opk[r] # None
    BY <2>1, IdsAssumption, NoneAssumption
  <2>. QED
    BY <2>1, <2>2, <2>3 DEF Pool!PoolNext, Pool!Give, Pool!Answers
<1>6. ASSUME NEW r \in Requests, CommitRows(r), ~job[r].pop, pc[r] \in {"commit", "failing"},
             NEW a \in {"ok", "error"}, answer' = [answer EXCEPT ![r] = a], UNCHANGED opk
      PROVE  Pool!PoolNext
  <2>1. /\ answer[r] = None /\ inserted[r] \in SUBSET Ids
        /\ flushed[r] \/ deleted[r] = {}
    BY <1>6 DEF TypeOK, HeldByPlace, HeldAt
  <2>2. CASE flushed[r]
    <3>1. rows' = inserted[r]
      BY <1>6, <2>2 DEF CommitRows, LocksHold
    <3>. QED
      BY <1>6, <2>1, <3>1 DEF Pool!PoolNext, Pool!Replace, Pool!Answers
  <2>3. CASE deleted[r] = {}
    <3>1. rows' = rows \cup inserted[r] /\ inserted[r] \cap rows = {}
      BY <1>6, <2>3 DEF CommitRows, LocksHold
    <3>. QED
      BY <1>6, <2>1, <3>1 DEF Pool!PoolNext, Pool!Offer, Pool!Answers
  <2>. QED
    BY <2>1, <2>2, <2>3
<1>7. ASSUME NEW r \in Requests, answer[r] = None,
             answer' = [answer EXCEPT ![r] = "error"], UNCHANGED <<rows, opk>>
      PROVE  Pool!PoolNext
  BY <1>7 DEF Pool!PoolNext, Pool!Refuse, Pool!Answers
<1>8. ASSUME NEW r \in Requests, CommitRows(r), pc[r] \in {"commit", "failing"},
             answer' = [answer EXCEPT ![r] = "error"], UNCHANGED opk
      PROVE  Pool!PoolNext
  <2>1. CASE ~job[r].pop
    BY <1>6, <1>8, <2>1
  <2>2. CASE job[r].pop
    <3>1. /\ answer[r] = None /\ inserted[r] = {} /\ rows \subseteq Ids
          /\ deleted[r] = {} \/ (deleted[r] = {opk[r]} \cap Ids /\ opk[r] # None)
      BY <1>8, <2>2 DEF TypeOK, HeldByPlace, HeldAt
    <3>2. CASE deleted[r] = {}
      BY <1>7, <1>8, <3>1, <3>2 DEF CommitRows
    <3>3. CASE deleted[r] = {opk[r]} \cap Ids /\ opk[r] # None
      <4>1. rows' = rows \ {opk[r]}
        BY <1>8, <3>1, <3>3 DEF CommitRows
      <4>. QED
        BY <1>8, <3>1, <3>3, <4>1 DEF Pool!PoolNext, Pool!Give, Pool!Answers
    <3>. QED
      BY <3>1, <3>2, <3>3
  <2>. QED
    BY <2>1, <2>2
<1>9. ASSUME NEW r \in Requests, Commit(r), ~job[r].pop PROVE Pool!PoolNext
  BY <1>6, <1>9 DEF Commit
<1>10. ASSUME NEW r \in Requests, Catch(r) PROVE Pool!PoolNext
  BY <1>8, <1>10 DEF Catch, Throws
<1>11. ASSUME NEW r \in Requests, ThrowsPastRelease(r) PROVE Pool!PoolNext
  BY <1>7, <1>11 DEF ThrowsPastRelease, Throws, TypeOK
<1>12. ASSUME NEW r \in Requests, ConnectionLost(r) PROVE Pool!PoolNext
  <2>1. answer[r] = None /\ answer' = [answer EXCEPT ![r] = "error"] /\ UNCHANGED opk
    BY <1>12 DEF ConnectionLost, Throws, TypeOK
  <2>. QED
    BY <1>7, <1>8, <1>12, <2>1 DEF ConnectionLost
<1>13. CASE NoConnection
  <2>1. Head(queue) \in Requests
    BY <1>13 DEF NoConnection, TypeOK
  <2>2. CASE answer[Head(queue)] = None /\ Throws(Head(queue), "done")
    BY <1>7, <1>13, <2>1, <2>2 DEF NoConnection, Throws
  <2>. QED
    BY <1>13, <2>2 DEF NoConnection
<1>. QED
  BY <1>1, <1>2, <1>3, <1>4, <1>5, <1>9, <1>10, <1>11, <1>12, <1>13, StepCases

\* createManyByParticipantId and popByParticipantId, statement by statement and with every
\* fault, implement the pool: batches come in whole, a replacement leaves its batch, and
\* a peer gets what was on offer; an error may hide that the request was carried out.
THEOREM StoreImplementsPool == Spec => ImplementsPool
<1>1. Init => Pool!PoolInit
  BY JobsAssumption DEF Init, Pool!PoolInit
<1>. QED
  BY <1>1, LocksAlwaysHold, PoolStep, PTL DEF Spec, ImplementsPool, Pool!PoolSpec

----------------------------------------------------------------------------
(* One prekey is given twice only to overlapping calls.                    *)

Returned == {r \in Requests : answer[r] # None}

\* One of the requests S was to create prekey k, by the jobs j.
Created(j, k, S) == \E c \in S : ~j[c].pop /\ k \in j[c].batch

\* What a pop has read is what it answers; and a prekey that was given out and is in the
\* table, or was read again, has been created since the pop that gave it out read it.
HandedInv ==
  /\ \A r \in Requests : past[r] \subseteq Returned
  /\ \A r \in Requests : answer[r] \in Ids => answer[r] = opk[r]
  /\ \A p \in Requests :
       answer[p] \in rows => Created(job, answer[p], Returned \ past[p])
  /\ \A p, q \in Requests :
       p # q /\ answer[p] \in Ids /\ answer[p] = opk[q] /\ p \in past[q] =>
         Created(job, answer[p], past[q] \ past[p])

\* A pop reads a prekey: if that was given out before, it was created since.
LEMMA HandedRead ==
  ASSUME TypeOK, HandedInv, NEW r \in Requests, Read(r)
  PROVE  HandedInv'
<1>1. /\ answer[r] = None /\ None \notin Ids /\ rows \subseteq Ids
      /\ UNCHANGED <<rows, job, answer>> /\ Returned' = Returned
  BY IdsAssumption DEF Read, TypeOK, Returned
<1>2. /\ past'[r] = Returned /\ \A u \in Requests \ {r} : past'[u] = past[u]
      /\ \A u \in Requests \ {r} : opk'[u] = opk[u]
      /\ opk'[r] \in rows \cup {"empty"}
  BY <1>1 DEF Read, TypeOK, Returned
<1>3. ASSUME NEW p \in Requests, answer[p] \in Ids
      PROVE  p # r /\ past'[p] = past[p] /\ opk'[p] = opk[p]
  BY <1>1, <1>2, <1>3
<1>4. answer' = answer /\ job' = job
  BY <1>1
<1>5. \A p \in Requests :
        answer[p] \in rows => Created(job, answer[p], Returned' \ past'[p])
  BY <1>1, <1>3, <1>4 DEF HandedInv
<1>6. ASSUME NEW p \in Requests, NEW q \in Requests, p # q, answer[p] \in Ids,
             answer[p] = opk'[q], p \in past'[q]
      PROVE  Created(job, answer[p], past'[q] \ past'[p])
  <2>1. CASE q = r
    <3>1. answer[p] \in rows
      BY <1>2, <1>6, <2>1, IdsAssumption
    <3>. QED
      BY <1>1, <1>2, <1>5, <2>1, <3>1
  <2>2. CASE q # r
    <3>1. Created(job, answer[p], past[q] \ past[p])
      BY <1>2, <1>6, <2>2 DEF HandedInv
    <3>. QED
      BY <1>1, <1>2, <1>3, <1>4, <1>6, <2>2, <3>1
  <2>. QED
    BY <2>1, <2>2
<1>. QED
  BY <1>1, <1>2, <1>3, <1>5, <1>6 DEF HandedInv

\* A request returns or throws: what it gives out has left the table, what enters the
\* table it was to create.
LEMMA HandedReturn ==
  ASSUME TypeOK, HandedInv, NEW r \in Requests, answer[r] = None,
         NEW a \in Answer \ {None}, answer' = [answer EXCEPT ![r] = a],
         UNCHANGED <<job, opk, past>>, rows' \subseteq Ids,
         a \in Ids => a = opk[r] /\ a \notin rows',
         \A k \in rows' \ rows : ~job[r].pop /\ k \in job[r].batch
  PROVE  HandedInv'
<1>1. /\ answer'[r] = a /\ \A u \in Requests \ {r} : answer'[u] = answer[u]
      /\ Returned' = Returned \cup {r} /\ r \notin Returned
  BY DEF TypeOK, Returned
<1>2. \A u \in Requests : past[u] \subseteq Returned /\ past'[u] = past[u]
  BY DEF HandedInv
<1>3. a \notin rows'
  <2>1. CASE a \in Ids
    BY <2>1
  <2>2. CASE a \notin Ids
    BY <2>2
  <2>. QED
    BY <2>1, <2>2
<1>4. ASSUME NEW p \in Requests, answer'[p] \in rows'
      PROVE  Created(job, answer'[p], Returned' \ past'[p])
  <2>1. p # r /\ answer'[p] = answer[p]
    BY <1>1, <1>3, <1>4
  <2>2. CASE answer[p] \in rows
    <3>1. Created(job, answer[p], Returned \ past[p])
      BY <2>2 DEF HandedInv
    <3>. QED
      BY <1>1, <1>2, <2>1, <3>1 DEF Created
  <2>3. CASE answer[p] \notin rows
    <3>1. ~job[r].pop /\ answer[p] \in job[r].batch
      BY <1>4, <2>1, <2>3
    <3>2. r \in Returned' \ past'[p]
      BY <1>1, <1>2
    <3>. QED
      BY <2>1, <3>1, <3>2 DEF Created
  <2>. QED
    BY <2>2, <2>3
<1>5. ASSUME NEW p \in Requests, NEW q \in Requests, p # q, answer'[p] \in Ids,
             answer'[p] = opk'[q], p \in past'[q]
      PROVE  Created(job, answer'[p], past'[q] \ past'[p])
  <2>1. p # r /\ answer'[p] = answer[p]
    BY <1>1, <1>2, <1>5
  <2>. QED
    BY <1>2, <1>5, <2>1 DEF HandedInv
<1>6. \A u \in Requests : answer'[u] \in Ids => answer'[u] = opk'[u]
  BY <1>1 DEF HandedInv
<1>. QED
  BY <1>1, <1>2, <1>4, <1>5, <1>6 DEF HandedInv

LEMMA HandedStep ==
  TypeOK /\ HeldByPlace /\ LocksHold /\ TypeOK' /\ HandedInv /\ [Next]_vars => HandedInv'
<1>. SUFFICES ASSUME TypeOK, HeldByPlace, LocksHold, TypeOK', HandedInv, [Next]_vars
              PROVE  HandedInv'
  OBVIOUS
<1>1. ASSUME UNCHANGED <<rows, job, opk, answer, past>> PROVE HandedInv'
  BY <1>1 DEF HandedInv, Returned, Created
<1>2. CASE UNCHANGED vars \/ Connect
  BY <1>1, <1>2 DEF vars, Connect
<1>3. ASSUME NEW r \in Requests,
             \/ Arrive(r) \/ Begin(r) \/ Delete(r) \/ Flush(r) \/ Insert(r) \/ List(r)
             \/ DeadlockVictim(r) \/ LockWaitTimesOut(r) \/ StatementFails(r)
      PROVE  HandedInv'
  BY <1>1, <1>3 DEF Arrive, Begin, Delete, Flush, Insert, List, DeadlockVictim,
     LockWaitTimesOut, StatementFails
<1>4. ASSUME NEW r \in Requests, Read(r) PROVE HandedInv'
  BY <1>4, HandedRead
<1>5. ASSUME NEW r \in Requests, Commit(r), job[r].pop PROVE HandedInv'
  <2>1. /\ answer[r] = None /\ answer' = [answer EXCEPT ![r] = opk[r]]
        /\ opk[r] \in Ids \cup {"empty"} /\ UNCHANGED <<job, opk, past>>
        /\ deleted[r] = {opk[r]} \cap Ids /\ inserted[r] = {}
    BY <1>5 DEF Commit, TypeOK, HeldByPlace, HeldAt
  <2>2. rows' = rows \ deleted[r]
    BY <1>5, <2>1 DEF Commit, CommitRows
  <2>3. opk[r] \in Answer \ {None}
    BY <2>1, IdsAssumption, NoneAssumption
  <2>. QED
    BY <2>1, <2>2, <2>3, HandedReturn DEF TypeOK
<1>6. ASSUME NEW r \in Requests, answer[r] = None, UNCHANGED <<job, opk, past>>,
             NEW a \in {"ok", "error"}, answer' = [answer EXCEPT ![r] = a],
             UNCHANGED rows \/ (CommitRows(r) /\ pc[r] \in {"commit", "failing"})
      PROVE  HandedInv'
  <2>1. \A k \in rows' \ rows : ~job[r].pop /\ k \in job[r].batch
    BY <1>6 DEF CommitRows, HeldByPlace, HeldAt
  <2>2. a \in Answer \ {None} /\ a \notin Ids
    BY <1>6, IdsAssumption, NoneAssumption
  <2>. QED
    BY <1>6, <2>1, <2>2, HandedReturn DEF TypeOK
<1>7. ASSUME NEW r \in Requests, Commit(r), ~job[r].pop PROVE HandedInv'
  BY <1>6, <1>7 DEF Commit, TypeOK
<1>8. ASSUME NEW r \in Requests, Catch(r) \/ ThrowsPastRelease(r) \/ ConnectionLost(r)
      PROVE  HandedInv'
  BY <1>6, <1>8 DEF Catch, ThrowsPastRelease, ConnectionLost, Throws, TypeOK
<1>9. CASE NoConnection
  <2>1. Head(queue) \in Requests
    BY <1>9 DEF NoConnection, TypeOK
  <2>2. CASE answer[Head(queue)] = None /\ Throws(Head(queue), "done")
    BY <1>6, <1>9, <2>1, <2>2 DEF NoConnection, Throws
  <2>. QED
    BY <1>1, <1>9, <2>2 DEF NoConnection
<1>. QED
  BY <1>2, <1>3, <1>4, <1>5, <1>7, <1>8, <1>9, StepCases

\* popByParticipantId gives one prekey to two peers only if the two calls overlap, or if
\* it was created again between them, by a call that may have ended in an error, whatever
\* else waits, fails and is rolled back.
THEOREM HandedTwiceOnlyToOverlapping == Spec => []HandedTwiceOnlyIfOverlapping
<1>1. Init => HandedInv
  BY IdsAssumption, JobsAssumption DEF Init, HandedInv, Returned
<1>2. HandedInv => HandedTwiceOnlyIfOverlapping
  BY DEF HandedInv, HandedTwiceOnlyIfOverlapping, Created
<1>. QED
  BY <1>1, <1>2, HandedStep, LocksAlwaysHold, PTL DEF Spec
=============================================================================
