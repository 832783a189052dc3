---------------------- MODULE EmbeddingCoverageProofs ----------------------
(***************************************************************************)
(* What the embedding pipeline promises: search never gets a vector of     *)
(* another item, no item that waits for its vector is forgotten, and a job *)
(* that no two workers have in hand at a time keeps to its lifecycle.      *)
(***************************************************************************)
EXTENDS EmbeddingPipelineProofs

(* Texts in memory belong to the item they will be stored for.              *)
OwnRow(i) ==
    /\ Exists(i) => item[i].text \in TextsOf(i)
    /\ item[i].status = "ready" => item[i].vector \in TextsOf(i)

OwnRequest(r) == req[r].pc \in {"embed", "store"} =>
    \A i \in req[r].items : req[r].text \in TextsOf(i)

OwnWorker(w) == wrk[w].pc \in {"embed", "store"} =>
    wrk[w].text \in TextsOf(wrk[w].cur.item)

OwnTexts ==
    /\ \A i \in Items : OwnRow(i)
    /\ \A r \in Requests : OwnRequest(r)
    /\ \A w \in Workers : OwnWorker(w)

LEMMA OwnInit == Init => OwnTexts
  BY DEF Init, OwnTexts, OwnRow, OwnRequest, OwnWorker, Exists, NoRow, IdleRequest,
         IdleWorker

(* A step of one request, one worker or one item leaves the others alone.   *)
LEMMA OwnFrame ==
    ASSUME OwnTexts,
           \A i \in Items : item'[i] = item[i] \/ OwnRow(i)',
           \A r \in Requests : req'[r] = req[r] \/ OwnRequest(r)',
           \A w \in Workers : wrk'[w] = wrk[w] \/ OwnWorker(w)'
    PROVE  OwnTexts'
  BY DEF OwnTexts, OwnRow, OwnRequest, OwnWorker, Exists

LEMMA OwnRequestSteps ==
    ASSUME TypeInv, OwnTexts, NEW r \in Requests,
           AddSingle(r) \/ AddBulk(r) \/ Update(r) \/ Delete(r)
               \/ RequestStep(r) \/ RequestCrash(r)
    PROVE  OwnTexts'
  <1> USE DEF TypeInv, TypeOK
  <1>1. UNCHANGED wrk
    BY DEF AddSingle, AddBulk, Update, Delete, RequestStep, InlineEmbed,
           InlineStore, Enqueue, RequestCrash
  <1>2. CASE AddSingle(r)
    <2>1. /\ \A i \in Items : item'[i] = item[i] \/ OwnRow(i)'
          /\ \A q \in Requests : req'[q] = req[q] \/ OwnRequest(q)'
      BY <1>2 DEF AddSingle, PendingRow, OwnRow, OwnRequest, Exists, TextsOf
    <2> QED
      BY <1>1, <2>1, OwnFrame
  <1>3. CASE AddBulk(r)
    <2>1. /\ \A i \in Items : item'[i] = item[i] \/ OwnRow(i)'
          /\ \A q \in Requests : req'[q] = req[q] \/ OwnRequest(q)'
      BY <1>3 DEF AddBulk, PendingRow, OwnRow, OwnRequest, Exists, TextsOf
    <2> QED
      BY <1>1, <2>1, OwnFrame
  <1>4. CASE Update(r)
    <2>1. \A i \in Items : item'[i] = item[i] \/ OwnRow(i)'
      BY <1>4 DEF Update, Retext, OwnTexts, OwnRow, Exists, TextsOf, ItemRow
    <2>2. \A q \in Requests : req'[q] = req[q] \/ OwnRequest(q)'
      BY <1>4 DEF Update, OwnRequest, TextsOf
    <2> QED
      BY <1>1, <2>1, <2>2, OwnFrame
  <1>5. CASE Delete(r)
    <2>1. /\ \A i \in Items : item'[i] = item[i] \/ OwnRow(i)'
          /\ UNCHANGED req
      BY <1>5 DEF Delete, GoneRow, OwnRow, Exists
    <2> QED
      BY <1>1, <2>1, OwnFrame
  <1>6. CASE InlineEmbed(r)
    <2>1. /\ UNCHANGED item
          /\ \A q \in Requests : req'[q] = req[q] \/ OwnRequest(q)'
      BY <1>6 DEF InlineEmbed, OwnTexts, OwnRequest, RequestState
    <2> QED
      BY <1>1, <2>1, OwnFrame
  <1>7. CASE InlineStore(r)
    <2>1. \A i \in Items : item'[i] = item[i] \/ OwnRow(i)'
      BY <1>7 DEF InlineStore, StoreVector, OwnTexts, OwnRow, OwnRequest, Exists, ItemRow
    <2>2. \A q \in Requests : req'[q] = req[q] \/ OwnRequest(q)'
      BY <1>7 DEF InlineStore, OwnRequest, RequestState, IdleRequest
    <2> QED
      BY <1>1, <2>1, <2>2, OwnFrame
  <1>8. CASE Enqueue(r) \/ RequestCrash(r)
    <2>1. /\ UNCHANGED item
          /\ \A q \in Requests : req'[q] = req[q] \/ OwnRequest(q)'
      BY <1>8 DEF Enqueue, RequestCrash, OwnRequest, IdleRequest
    <2> QED
      BY <1>1, <2>1, OwnFrame
  <1> QED
    BY <1>2, <1>3, <1>4, <1>5, <1>6, <1>7, <1>8 DEF RequestStep

LEMMA OwnWorkerSteps ==
    ASSUME TypeInv, OwnTexts, NEW w \in Workers,
           Fetch(w) \/ WorkerStep(w) \/ WorkerCrash(w)
    PROVE  OwnTexts'
  <1> USE DEF TypeInv, TypeOK
  <1>1. UNCHANGED req
    BY DEF Fetch, WorkerStep, Claim, ReadItem, WorkerEmbed, WorkerStore, Complete,
           Exhaust, GiveUp, Retry, WorkerCrash
  <1>2. ASSUME wrk'[w].pc \notin {"embed", "store"},
               \A v \in Workers \ {w} : wrk'[v] = wrk[v]
        PROVE  \A v \in Workers : wrk'[v] = wrk[v] \/ OwnWorker(v)'
    BY <1>2 DEF OwnWorker
  <1>3. CASE Fetch(w) \/ Claim(w) \/ Complete(w) \/ Exhaust(w) \/ Retry(w) \/ WorkerCrash(w)
    <2>1. /\ UNCHANGED item
          /\ \A v \in Workers \ {w} : wrk'[v] = wrk[v]
      BY <1>3 DEF Fetch, Claim, Complete, Exhaust, Retry, WorkerCrash
    <2>2. wrk'[w].pc \notin {"embed", "store"}
      <3>1. NextJob(wrk[w]).pc \in {"idle", "claim"} /\ IdleWorker.pc = "idle"
        BY DEF NextJob, IdleWorker
      <3>2. CASE Fetch(w)
        BY <3>2 DEF Fetch, IdleWorker
      <3>6. CASE Claim(w)
        BY <3>6 DEF Claim
      <3>3. CASE Complete(w)
        BY <3>1, <3>3 DEF Complete, WorkerState
      <3>4. CASE Exhaust(w)
        BY <3>1, <3>4 DEF Exhaust, WorkerState
      <3>5. CASE Retry(w) \/ WorkerCrash(w)
        BY <3>1, <3>5 DEF Retry, WorkerCrash
      <3> QED
        BY <1>3, <3>2, <3>3, <3>4, <3>5, <3>6
    <2> QED
      BY <1>1, <1>2, <2>1, <2>2, OwnFrame
  <1>4. CASE ReadItem(w)
    <2>1. UNCHANGED item
      BY <1>4 DEF ReadItem
    <2>2. wrk[w].cur.item \in Items
      BY <1>4, WorkerOnJob DEF ReadItem, Idling
    <2>3. \A v \in Workers : wrk'[v] = wrk[v] \/ OwnWorker(v)'
      BY <1>4, <2>2 DEF ReadItem, OwnTexts, OwnRow, OwnWorker, WorkerState
    <2> QED
      BY <1>1, <2>1, <2>3, OwnFrame
  <1>5. CASE WorkerEmbed(w)
    <2>1. UNCHANGED item
      BY <1>5 DEF WorkerEmbed
    <2>2. \A v \in Workers : wrk'[v] = wrk[v] \/ OwnWorker(v)'
      BY <1>5 DEF WorkerEmbed, Goto, OwnTexts, OwnWorker, WorkerState
    <2> QED
      BY <1>1, <2>1, <2>2, OwnFrame
  <1>6. CASE WorkerStore(w)
    <2>1. \A i \in Items : item'[i] = item[i] \/ OwnRow(i)'
      BY <1>6 DEF WorkerStore, StoreVector, OwnTexts, OwnRow, OwnWorker, Exists, ItemRow
    <2>2. \A v \in Workers : wrk'[v] = wrk[v] \/ OwnWorker(v)'
      BY <1>6 DEF WorkerStore, Proceed, Goto, OwnWorker, WorkerState
    <2> QED
      BY <1>1, <2>1, <2>2, OwnFrame
  <1>7. CASE GiveUp(w)
    <2>1. \A i \in Items : item'[i] = item[i] \/ OwnRow(i)'
      BY <1>7 DEF GiveUp, MarkFailed, OwnTexts, OwnRow, Exists, ItemRow
    <2>2. \A v \in Workers : wrk'[v] = wrk[v] \/ OwnWorker(v)'
      BY <1>7 DEF GiveUp, OwnWorker, IdleWorker, NextJob
    <2> QED
      BY <1>1, <2>1, <2>2, OwnFrame
  <1> QED
    BY <1>3, <1>4, <1>5, <1>6, <1>7 DEF WorkerStep

LEMMA OwnStep == TypeInv /\ OwnTexts /\ [Next]_vars => OwnTexts'
  <1> SUFFICES ASSUME TypeInv, OwnTexts, [Next]_vars PROVE OwnTexts'
    OBVIOUS
  <1>1. ASSUME NEW i \in Items, BackoffElapses(i) PROVE OwnTexts'
    BY <1>1, OwnFrame DEF BackoffElapses
  <1>2. CASE UNCHANGED vars
    BY <1>2, OwnFrame DEF vars
  <1> QED
    BY <1>1, <1>2, OwnRequestSteps, OwnWorkerSteps DEF Next

(* Whatever is ready for search carries a vector of its own text, old or    *)
(* new, and never one of another item.                                      *)
THEOREM ReadyVectors == Spec => []ReadyVectorIsOwn
  <1>1. OwnTexts => ReadyVectorIsOwn
    BY DEF OwnTexts, OwnRow, ReadyVectorIsOwn
  <1> QED
    BY <1>1, OwnInit, OwnStep, TypesAndAttempts, PTL DEF Spec

-----------------------------------------------------------------------------
(* Coverage.  Why an item that is pending is never forgotten: its job row   *)
(* is only taken out of "queued" by a worker that is then on the item, and  *)
(* a worker leaves an item only once it is embedded or failed, its job is   *)
(* queued again, or the item was dropped.                                   *)

JobHasItem == \A i \in Items : job[i].status # "none" => Exists(i)

(* A job somebody holds is in the table unless its item was deleted.        *)
Tracked(i) == item[i].status = "deleted" \/ job[i].status # "none"

HeldTracked == \A w \in Workers :
    /\ \A e \in wrk[w].batch : Tracked(e.item)
    /\ wrk[w].cur # NoEntry => Tracked(wrk[w].cur.item)

StoredFirst == \A w \in Workers :
    wrk[w].pc = "complete" => item[wrk[w].cur.item].status # "pending"

Waiting(i) == item[i].status = "pending" /\ i \notin dropped

Held(i) ==
    \/ job[i].status = "queued"
    \/ job[i].status = "none" /\ \E r \in Requests : i \in req[r].items
    \/ job[i].status # "none" /\ \E w \in Workers : OnIt(w, i)

WaitingHeld == \A i \in Items : Waiting(i) => Held(i)

RequestItems == \A r \in Requests :
    /\ req[r].pc = "idle" => req[r].items = {}
    /\ req[r].pc \in {"embed", "store"} => \E i \in Items : req[r].items = {i}

Bookkeeping == JobHasItem /\ HeldTracked /\ RequestItems

LEMMA BookkeepingInit == Init => Bookkeeping
  BY DEF Init, Bookkeeping, JobHasItem, HeldTracked, RequestItems, NoJob, IdleRequest,
         IdleWorker

(* Existing rows never become new again, deleted ones stay deleted.         *)
Live(row) == row.status \in {"pending", "ready", "failed"}

Ages(row, next) ==
    \/ next = row
    \/ row.status = "new" /\ next.status = "pending"
    \/ Live(row) /\ next.status \in {row.status, "ready", "failed"}

Removed(i) == Live(item[i]) /\ item' = [item EXCEPT ![i] = GoneRow]
                           /\ job' = [job EXCEPT ![i] = NoJob]

LEMMA RowWrites ==
    ASSUME NEW row \in ItemRow, NEW t
    PROVE  /\ Ages(row, StoreVector(row, t))
           /\ Ages(row, MarkFailed(row))
           /\ Live(row) => Ages(row, Retext(row, t))
           /\ row.status = "new" => Ages(row, PendingRow(t))
  BY DEF ItemRow, Ages, Live, StoreVector, MarkFailed, Retext, PendingRow

LEMMA RowsAge ==
    ASSUME TypeInv, [Next]_vars, NEW i \in Items
    PROVE  Ages(item[i], item'[i]) \/ Removed(i)
  <1> USE DEF TypeInv, TypeOK
  <1>0. item'[i] = item[i] => Ages(item[i], item'[i])
    BY DEF Ages
  <1>1. ASSUME NEW r \in Requests, AddSingle(r) PROVE Ages(item[i], item'[i])
    BY <1>0, <1>1, RowWrites DEF AddSingle
  <1>2. ASSUME NEW r \in Requests, AddBulk(r) PROVE Ages(item[i], item'[i])
    BY <1>0, <1>2, RowWrites DEF AddBulk
  <1>3. ASSUME NEW r \in Requests, Update(r) PROVE Ages(item[i], item'[i])
    BY <1>0, <1>3, RowWrites DEF Update, Exists, Live
  <1>4. ASSUME NEW r \in Requests, Delete(r)
        PROVE Ages(item[i], item'[i]) \/ Removed(i)
    BY <1>0, <1>4 DEF Delete, Exists, Live, Removed
  <1>5. ASSUME NEW r \in Requests, InlineStore(r) PROVE Ages(item[i], item'[i])
    BY <1>0, <1>5, RowWrites DEF InlineStore
  <1>6. ASSUME NEW r \in Requests, InlineEmbed(r) \/ Enqueue(r) \/ RequestCrash(r)
        PROVE Ages(item[i], item'[i])
    BY <1>0, <1>6 DEF InlineEmbed, Enqueue, RequestCrash
  <1>7. ASSUME NEW w \in Workers, WorkerStore(w) PROVE Ages(item[i], item'[i])
    BY <1>0, <1>7, RowWrites DEF WorkerStore
  <1>8. ASSUME NEW w \in Workers, GiveUp(w) PROVE Ages(item[i], item'[i])
    BY <1>0, <1>8, RowWrites DEF GiveUp
  <1>9. ASSUME NEW w \in Workers,
               \/ Fetch(w) \/ Claim(w) \/ ReadItem(w) \/ WorkerEmbed(w)
               \/ Complete(w) \/ Exhaust(w) \/ Retry(w) \/ WorkerCrash(w)
        PROVE Ages(item[i], item'[i])
    BY <1>0, <1>9 DEF Fetch, Claim, ReadItem, WorkerEmbed, Complete, Exhaust, Retry,
                      WorkerCrash
  <1>10. ASSUME NEW k \in Items, BackoffElapses(k) PROVE Ages(item[i], item'[i])
    BY <1>0, <1>10 DEF BackoffElapses
  <1>11. CASE UNCHANGED vars
    BY <1>0, <1>11 DEF vars
  <1> QED
    BY <1>1, <1>2, <1>3, <1>4, <1>5, <1>6, <1>7, <1>8, <1>9, <1>10, <1>11
    DEF Next, RequestStep, WorkerStep

(* A job row appears only for an item that exists and goes only with it.    *)
JobFollows(i) ==
    \/ job'[i] = job[i]
    \/ Exists(i) /\ job[i].status = "none" /\ job'[i].status = "queued"
    \/ job[i].status # "none" /\ job'[i].status # "none"

LEMMA JobWritesFollow ==
    ASSUME NEW row \in JobRow, NEW n, NEW s \in {"processing", "done"}
    PROVE  /\ SetStatus(row, s) = row \/ (row.status # "none" /\ SetStatus(row, s).status # "none")
           /\ Exhausted(row, n) = row \/ (row.status # "none" /\ Exhausted(row, n).status # "none")
           /\ Requeued(row, n) = row \/ (row.status # "none" /\ Requeued(row, n).status # "none")
  BY DEF JobRow, SetStatus, Exhausted, Requeued

LEMMA JobsFollow ==
    ASSUME TypeInv, [Next]_vars, NEW i \in Items
    PROVE  JobFollows(i) \/ Removed(i)
  <1> USE DEF TypeInv, TypeOK
  <1>0. job'[i] = job[i] => JobFollows(i)
    BY DEF JobFollows
  <1>1. ASSUME NEW r \in Requests, Delete(r) PROVE JobFollows(i) \/ Removed(i)
    BY <1>0, <1>1 DEF Delete, Exists, Live, Removed
  <1>2. ASSUME NEW r \in Requests, Enqueue(r) PROVE JobFollows(i)
    BY <1>0, <1>2 DEF Enqueue, Enqueued, ForeignKeyHolds, JobFollows
  <1>3. ASSUME NEW r \in Requests,
               \/ AddSingle(r) \/ AddBulk(r) \/ Update(r) \/ InlineEmbed(r)
               \/ InlineStore(r) \/ RequestCrash(r)
        PROVE  JobFollows(i)
    BY <1>0, <1>3 DEF AddSingle, AddBulk, Update, InlineEmbed, InlineStore, RequestCrash
  <1>4. ASSUME NEW w \in Workers, Claim(w) PROVE JobFollows(i)
    <2>1. PICK e \in wrk[w].batch :
              job' = job \/ job' = [job EXCEPT ![e.item] = SetStatus(job[e.item], "processing")]
      BY <1>4 DEF Claim
    <2>2. e.item \in Items
      BY <2>1 DEF WorkerState, Entry
    <2> QED
      BY <1>0, <2>1, <2>2, JobWritesFollow DEF JobFollows
  <1>5. ASSUME NEW w \in Workers, Complete(w) PROVE JobFollows(i)
    BY <1>0, <1>5, JobWritesFollow DEF Complete, JobFollows
  <1>6. ASSUME NEW w \in Workers, Exhaust(w) PROVE JobFollows(i)
    BY <1>0, <1>6, JobWritesFollow DEF Exhaust, JobFollows
  <1>7. ASSUME NEW w \in Workers, Retry(w) PROVE JobFollows(i)
    BY <1>0, <1>7, JobWritesFollow DEF Retry, JobFollows
  <1>8. ASSUME NEW w \in Workers,
               \/ Fetch(w) \/ ReadItem(w) \/ WorkerEmbed(w) \/ WorkerStore(w)
               \/ GiveUp(w) \/ WorkerCrash(w)
        PROVE  JobFollows(i)
    BY <1>0, <1>8 DEF Fetch, ReadItem, WorkerEmbed, WorkerStore, GiveUp, WorkerCrash
  <1>9. ASSUME NEW k \in Items, BackoffElapses(k) PROVE JobFollows(i)
    BY <1>0, <1>9 DEF BackoffElapses, JobFollows, JobRow
  <1>10. CASE UNCHANGED vars
    BY <1>0, <1>10 DEF vars
  <1> QED
    BY <1>1, <1>2, <1>3, <1>4, <1>5, <1>6, <1>7, <1>8, <1>9, <1>10
    DEF Next, RequestStep, WorkerStep

LEMMA TrackedStays ==
    ASSUME TypeInv, JobHasItem, [Next]_vars, NEW i \in Items
    PROVE  /\ job'[i].status # "none" => Exists(i)'
           /\ Tracked(i) => Tracked(i)'
  BY RowsAge, JobsFollow
  DEF JobHasItem, Tracked, Exists, Ages, Live, Removed, JobFollows, GoneRow, NoJob,
      TypeInv, TypeOK

(* A worker holds what it held before, or what it just selected.            *)
Holds(w) ==
    \/ /\ wrk'[w].batch \subseteq wrk[w].batch
       /\ wrk'[w].cur \in wrk[w].batch \cup {NoEntry, wrk[w].cur}
    \/ /\ \A e \in wrk'[w].batch : e.item \in Items /\ job[e.item].status = "queued"
       /\ wrk'[w].cur = NoEntry

LEMMA WorkersHold ==
    ASSUME TypeInv, [Next]_vars, NEW w \in Workers
    PROVE  Holds(w)
  <1> USE DEF TypeInv, TypeOK, WorkerState
  <1>0. wrk'[w] = wrk[w] => Holds(w)
    BY DEF Holds
  <1>1. NextJob(wrk[w]).batch \subseteq wrk[w].batch /\ NextJob(wrk[w]).cur = NoEntry
    BY DEF NextJob, IdleWorker
  <1>2. IdleWorker.batch = {} /\ IdleWorker.cur = NoEntry
    BY DEF IdleWorker
  <1>3. ASSUME NEW v \in Workers, Fetch(v) PROVE Holds(w)
    <2>1. PICK S \in SUBSET Due :
            wrk' = [wrk EXCEPT ![v] =
                      [IdleWorker EXCEPT
                          !.pc = "claim",
                          !.batch = {[item |-> i, attempts |-> job[i].attempts] : i \in S}]]
      BY <1>3 DEF Fetch
    <2> QED
      BY <1>0, <2>1 DEF Holds, Due, IdleWorker
  <1>4. ASSUME NEW v \in Workers, Claim(v) PROVE Holds(w)
    BY <1>0, <1>4 DEF Claim, Holds
  <1>5. ASSUME NEW v \in Workers, ReadItem(v) PROVE Holds(w)
    BY <1>0, <1>5 DEF ReadItem, Holds
  <1>6. ASSUME NEW v \in Workers, WorkerEmbed(v) \/ WorkerStore(v) PROVE Holds(w)
    BY <1>0, <1>6 DEF WorkerEmbed, WorkerStore, Proceed, Goto, Holds
  <1>7. ASSUME NEW v \in Workers, Complete(v) PROVE Holds(w)
    BY <1>0, <1>1, <1>7 DEF Complete, Holds
  <1>8. ASSUME NEW v \in Workers, Exhaust(v) PROVE Holds(w)
    BY <1>0, <1>2, <1>8 DEF Exhaust, Holds
  <1>9. ASSUME NEW v \in Workers, GiveUp(v) \/ Retry(v) \/ WorkerCrash(v) PROVE Holds(w)
    BY <1>0, <1>1, <1>2, <1>9 DEF GiveUp, Retry, WorkerCrash, Holds
  <1>10. ASSUME UNCHANGED wrk PROVE Holds(w)
    BY <1>0, <1>10
  <1> QED
    BY <1>3, <1>4, <1>5, <1>6, <1>7, <1>8, <1>9, <1>10
    DEF Next, WorkerStep, RequestStep, AddSingle, AddBulk, Update, Delete, InlineEmbed,
        InlineStore, Enqueue, RequestCrash, BackoffElapses, vars

LEMMA RequestItemsStay ==
    ASSUME TypeInv, RequestItems, [Next]_vars
    PROVE  RequestItems'
  <1> USE DEF TypeInv, TypeOK, RequestState, RequestItems, IdleRequest
  <1>1. ASSUME NEW r \in Requests, AddSingle(r) PROVE RequestItems'
    BY <1>1 DEF AddSingle
  <1>2. ASSUME NEW r \in Requests, AddBulk(r) PROVE RequestItems'
    BY <1>2 DEF AddBulk
  <1>3. ASSUME NEW r \in Requests, Update(r) PROVE RequestItems'
    BY <1>3 DEF Update
  <1>4. ASSUME NEW r \in Requests, RequestStep(r) \/ RequestCrash(r) PROVE RequestItems'
    BY <1>4 DEF RequestStep, InlineEmbed, InlineStore, Enqueue, RequestCrash
  <1>5. ASSUME UNCHANGED req PROVE RequestItems'
    BY <1>5
  <1> QED
    BY <1>1, <1>2, <1>3, <1>4, <1>5
    DEF Next, Delete, Fetch, WorkerStep, Claim, ReadItem, WorkerEmbed, WorkerStore,
        Complete, Exhaust, GiveUp, Retry, WorkerCrash, BackoffElapses, vars

LEMMA BookkeepingStep == TypeInv /\ Bookkeeping /\ [Next]_vars => Bookkeeping'
  <1> SUFFICES ASSUME TypeInv, Bookkeeping, [Next]_vars PROVE Bookkeeping'
    OBVIOUS
  <1>1. JobHasItem'
    BY TrackedStays DEF Bookkeeping, JobHasItem
  <1>2. ASSUME NEW i \in Items, Tracked(i)
        PROVE  item'[i].status = "deleted" \/ job'[i].status # "none"
    BY <1>2, TrackedStays DEF Bookkeeping, Tracked
  <1>3. ASSUME NEW w \in Workers, NEW e \in wrk'[w].batch
        PROVE  e.item \in Items /\ Tracked(e.item)
    BY WorkersHold DEF Holds, Bookkeeping, HeldTracked, Tracked, TypeInv, TypeOK,
                       WorkerState, Entry
  <1>4. ASSUME NEW w \in Workers, wrk'[w].cur # NoEntry
        PROVE  wrk'[w].cur.item \in Items /\ Tracked(wrk'[w].cur.item)
    BY <1>4, WorkersHold DEF Holds, Bookkeeping, HeldTracked, TypeInv, TypeOK, WorkerState,
                             Entry
  <1>5. HeldTracked'
    BY <1>2, <1>3, <1>4 DEF HeldTracked, Tracked
  <1> QED
    BY <1>1, <1>5, RequestItemsStay DEF Bookkeeping

(* Whoever marks a job done has stored the vector first.                    *)
LEMMA StoredFirstStep ==
    TypeInv /\ Bookkeeping /\ StoredFirst /\ [Next]_vars => StoredFirst'
  <1> SUFFICES ASSUME TypeInv, Bookkeeping, StoredFirst, [Next]_vars,
                      NEW w \in Workers, wrk'[w].pc = "complete"
               PROVE  item'[wrk'[w].cur.item].status # "pending"
    BY DEF StoredFirst
  <1> DEFINE i == wrk[w].cur.item
  <1>1. CASE WorkerStore(w)
    <2>1. i \in Items /\ wrk[w].cur # NoEntry
      BY <1>1, WorkerOnJob DEF WorkerStore, Idling, TypeInv, CurOK
    <2>2. item[i].status # "new"
      BY <2>1 DEF Bookkeeping, JobHasItem, HeldTracked, Tracked, Exists
    <2>3. wrk'[w].cur.item = i
      BY <1>1 DEF WorkerStore, Proceed, Goto, TypeInv, TypeOK, WorkerState
    <2>4. item' = [item EXCEPT ![i] = StoreVector(item[i], wrk[w].text)]
      BY <1>1 DEF WorkerStore, Proceed, Goto, Took, Raised, Outcomes, TypeInv, TypeOK,
                  WorkerState
    <2> QED
      BY <2>1, <2>2, <2>3, <2>4 DEF StoreVector, TypeInv, TypeOK, ItemRow
  <1>2. CASE wrk'[w] = wrk[w]
    <2>1. i \in Items /\ wrk[w].cur # NoEntry /\ item[i].status # "pending"
      BY <1>2, WorkerOnJob DEF Idling, TypeInv, CurOK, StoredFirst
    <2>2. item[i].status # "new"
      BY <2>1 DEF Bookkeeping, JobHasItem, HeldTracked, Tracked, Exists
    <2>3. Ages(item[i], item'[i]) \/ Removed(i)
      BY <2>1, RowsAge
    <2> QED
      BY <1>2, <2>1, <2>2, <2>3 DEF Ages, Live, Removed, GoneRow, TypeInv, TypeOK
  <1>3. WorkerStore(w) \/ wrk'[w] = wrk[w]
    <2> USE DEF TypeInv, TypeOK, WorkerState
    <2>1. NextJob(wrk[w]).pc # "complete" /\ IdleWorker.pc # "complete"
      BY DEF NextJob, IdleWorker
    <2>2. ASSUME NEW v \in Workers, Fetch(v) PROVE wrk'[w] = wrk[w]
      BY <2>2 DEF Fetch, IdleWorker
    <2>3. ASSUME NEW v \in Workers, Claim(v) \/ ReadItem(v) PROVE wrk'[w] = wrk[w]
      BY <2>3 DEF Claim, ReadItem
    <2>4. ASSUME NEW v \in Workers, WorkerEmbed(v) PROVE wrk'[w] = wrk[w]
      BY <2>4 DEF WorkerEmbed, Goto
    <2>5. ASSUME NEW v \in Workers, WorkerStore(v) PROVE wrk'[w] = wrk[w] \/ v = w
      BY <2>5 DEF WorkerStore, Proceed, Goto
    <2>6. ASSUME NEW v \in Workers, Complete(v) PROVE wrk'[w] = wrk[w]
      BY <2>1, <2>6 DEF Complete
    <2>7. ASSUME NEW v \in Workers, Exhaust(v) PROVE wrk'[w] = wrk[w]
      BY <2>1, <2>7 DEF Exhaust
    <2>8. ASSUME NEW v \in Workers, GiveUp(v) \/ Retry(v) \/ WorkerCrash(v)
          PROVE  wrk'[w] = wrk[w]
      BY <2>1, <2>8 DEF GiveUp, Retry, WorkerCrash
    <2>9. ASSUME UNCHANGED wrk PROVE wrk'[w] = wrk[w]
      BY <2>9
    <2> QED
      BY <2>2, <2>3, <2>4, <2>5, <2>6, <2>7, <2>8, <2>9
      DEF Next, WorkerStep, RequestStep, AddSingle, AddBulk, Update, Delete,
          InlineEmbed, InlineStore, Enqueue, RequestCrash, BackoffElapses, vars
  <1> QED
    BY <1>1, <1>2, <1>3

(* The step that matters: nobody lets go of a waiting item.                 *)
LEMMA HeldStays ==
    ASSUME TypeInv, Bookkeeping, StoredFirst, [Next]_vars,
           NEW i \in Items, Waiting(i), Held(i), Waiting(i)'
    PROVE  Held(i)'
  <1> USE DEF TypeInv, TypeOK, Held, OnIt
  <1>1. ASSUME UNCHANGED <<job, wrk>>, \A r \in Requests : req[r].items \subseteq req'[r].items
        PROVE  Held(i)'
    BY <1>1
  <1>2. ASSUME NEW r \in Requests, AddSingle(r) PROVE Held(i)'
    <2>1. \A q \in Requests : req[q].items \subseteq req'[q].items
      BY <1>2 DEF AddSingle, Bookkeeping, RequestItems
    <2> QED
      BY <1>1, <1>2, <2>1 DEF AddSingle
  <1>3. ASSUME NEW r \in Requests, AddBulk(r) PROVE Held(i)'
    <2>1. \A q \in Requests : req[q].items \subseteq req'[q].items
      BY <1>3 DEF AddBulk, Bookkeeping, RequestItems
    <2> QED
      BY <1>1, <1>3, <2>1 DEF AddBulk
  <1>4. ASSUME NEW r \in Requests, Update(r) PROVE Held(i)'
    <2>1. \A q \in Requests : req[q].items \subseteq req'[q].items
      BY <1>4 DEF Update, Bookkeeping, RequestItems
    <2> QED
      BY <1>1, <1>4, <2>1 DEF Update
  <1>5. ASSUME NEW r \in Requests, Delete(r) PROVE Held(i)'
    BY <1>5 DEF Delete, Waiting, GoneRow
  <1>6. ASSUME NEW r \in Requests, InlineEmbed(r) PROVE Held(i)'
    BY <1>1, <1>6 DEF InlineEmbed, RequestState
  <1>7. ASSUME NEW r \in Requests, InlineStore(r) PROVE Held(i)'
    <2>1. PICK o \in Outcomes, k \in req[r].items :
            /\ item' = IF Took(o) THEN [item EXCEPT ![k] = StoreVector(item[k], req[r].text)]
                      ELSE item
            /\ req' = IF Raised(o) THEN [req EXCEPT ![r].pc = "enqueue"]
                      ELSE [req EXCEPT ![r] = IdleRequest]
            /\ UNCHANGED <<job, wrk>>
      BY <1>7 DEF InlineStore
    <2>2. CASE Raised(o)
      BY <1>1, <2>1, <2>2 DEF RequestState
    <2>3. CASE ~Raised(o)
      <3>1. req[r].items = {k} /\ Took(o) /\ k \in Items
        BY <1>7, <2>1, <2>3 DEF InlineStore, Bookkeeping, RequestItems, Raised, Took
      <3>2. item'[i].status = "pending" /\ item[i].status = "pending"
        BY DEF Waiting
      <3>3. i # k
        BY <2>1, <3>1, <3>2 DEF StoreVector
      <3> QED
        BY <2>1, <2>3, <3>1, <3>3
    <2> QED
      BY <2>2, <2>3
  <1>8. ASSUME NEW r \in Requests, Enqueue(r) PROVE Held(i)'
    <2>1. PICK o \in Outcomes :
            LET S == req[r].items
                written == Took(o) /\ ForeignKeyHolds(S)
            IN  /\ job' = IF written
                          THEN [k \in Items |->
                                   IF k \in S THEN Enqueued(job[k]) ELSE job[k]]
                          ELSE job
                /\ dropped' = IF written THEN dropped ELSE dropped \cup S
                /\ req' = [req EXCEPT ![r] = IdleRequest]
                /\ UNCHANGED wrk
      BY <1>8 DEF Enqueue
    <2>2. CASE i \in req[r].items
      <3>1. job'[i] = Enqueued(job[i])
        BY <2>1, <2>2 DEF Waiting
      <3> QED
        BY <2>1, <3>1 DEF Enqueued
    <2>3. CASE i \notin req[r].items
      BY <2>1, <2>3
    <2> QED
      BY <2>2, <2>3
  <1>9. ASSUME NEW r \in Requests, RequestCrash(r) PROVE Held(i)'
    BY <1>9 DEF RequestCrash, Waiting
  <1>10. item[i].status = "pending" /\ item'[i].status = "pending" /\ i \notin dropped'
    BY DEF Waiting
  <1>11. ASSUME NEW w \in Workers, Fetch(w) PROVE Held(i)'
    <2>1. wrk[w].cur = NoEntry /\ wrk[w].pc = "idle"
      BY <1>11 DEF Fetch, Idling, CurOK
    <2>2. \A v \in Workers : wrk'[v].cur = wrk[v].cur
      BY <1>11, <2>1 DEF Fetch, IdleWorker
    <2>3. UNCHANGED <<job, req>>
      BY <1>11 DEF Fetch
    <2> QED
      BY <2>2, <2>3
  <1>12. ASSUME NEW w \in Workers, Claim(w) PROVE Held(i)'
    <2>1. PICK e \in wrk[w].batch, o \in Outcomes :
            /\ job' = IF Took(o)
                      THEN [job EXCEPT ![e.item] = SetStatus(job[e.item], "processing")]
                      ELSE job
            /\ wrk' = [wrk EXCEPT ![w] =
                          [pc |-> IF Raised(o) THEN "recover" ELSE "read",
                           batch |-> wrk[w].batch \ {e}, cur |-> e, text |-> NoText]]
            /\ UNCHANGED req
      BY <1>12 DEF Claim
    <2>2. wrk[w].cur = NoEntry /\ e # NoEntry
      BY <1>12, PipelineAssumption DEF Claim, Idling, CurOK, WorkerState, Entry
    <2>3. CASE e.item = i
      BY <2>1, <2>2, <2>3 DEF SetStatus
    <2>4. CASE e.item # i
      <3>1. job'[i] = job[i]
        BY <2>1, <2>4
      <3> QED
        BY <2>1, <2>2, <3>1
    <2> QED
      BY <2>3, <2>4
  <1>13. ASSUME NEW w \in Workers, UNCHANGED <<job, req>>, wrk'[w].cur = wrk[w].cur,
                \A v \in Workers \ {w} : wrk'[v] = wrk[v]
         PROVE  Held(i)'
    BY <1>13
  <1>14. ASSUME NEW w \in Workers, ReadItem(w) PROVE Held(i)'
    <2>1. wrk'[w].cur = wrk[w].cur /\ \A v \in Workers \ {w} : wrk'[v] = wrk[v]
      BY <1>14 DEF ReadItem, WorkerState
    <2> QED
      BY <1>13, <1>14, <2>1 DEF ReadItem
  <1>15. ASSUME NEW w \in Workers, WorkerEmbed(w) \/ WorkerStore(w) PROVE Held(i)'
    <2>1. wrk'[w].cur = wrk[w].cur /\ \A v \in Workers \ {w} : wrk'[v] = wrk[v]
      BY <1>15 DEF WorkerEmbed, WorkerStore, Proceed, Goto, WorkerState
    <2> QED
      BY <1>13, <1>15, <2>1 DEF WorkerEmbed, WorkerStore
  (* A worker is off an item that is still waiting only with the job queued. *)
  <1>16. ASSUME NEW w \in Workers, UNCHANGED req, ~Idling(wrk[w]),
                \A v \in Workers \ {w} : wrk'[v] = wrk[v],
                \A k \in Items \ {wrk[w].cur.item} : job'[k] = job[k],
                \/ wrk[w].cur.item # i
                \/ job'[i].status = "queued"
                \/ wrk'[w].cur = wrk[w].cur /\ job'[i].status # "none"
         PROVE  Held(i)'
    <2>1. wrk[w].cur # NoEntry
      BY <1>16 DEF CurOK
    <2>2. CASE wrk[w].cur.item # i
      BY <1>16, <2>2
    <2>3. CASE wrk[w].cur.item = i
      BY <1>16, <2>1, <2>3
    <2> QED
      BY <2>2, <2>3
  <1>17. ASSUME NEW w \in Workers, ~Idling(wrk[w]), wrk[w].cur.item = i
         PROVE  job[i].status # "none"
    BY <1>10, <1>17 DEF CurOK, Bookkeeping, HeldTracked, Tracked
  <1>18. ASSUME NEW w \in Workers, Complete(w) PROVE Held(i)'
    <2>1. ~Idling(wrk[w])
      BY <1>18 DEF Complete, Idling
    <2>2. wrk[w].cur.item # i
      BY <1>10, <1>18 DEF Complete, StoredFirst
    <2> QED
      BY <1>16, <1>18, <2>1, <2>2 DEF Complete
  <1>19. ASSUME NEW w \in Workers, Exhaust(w) PROVE Held(i)'
    <2>1. ~Idling(wrk[w])
      BY <1>19 DEF Exhaust, Idling
    <2>2. \/ wrk[w].cur.item # i
          \/ wrk'[w].cur = wrk[w].cur /\ job'[i].status # "none"
      <3> SUFFICES ASSUME wrk[w].cur.item = i
                   PROVE  wrk'[w].cur = wrk[w].cur /\ job'[i].status # "none"
        OBVIOUS
      <3>1. job[i].status # "none"
        BY <1>17, <2>1
      <3>2. wrk' = [wrk EXCEPT ![w].pc = "giveUp"]
        BY <1>10, <1>19 DEF Exhaust
      <3>3. wrk'[w].cur = wrk[w].cur
        BY <3>2 DEF WorkerState
      <3> QED
        BY <1>19, <3>1, <3>3 DEF Exhaust, Exhausted, JobRow
    <2> QED
      BY <1>16, <1>19, <2>1, <2>2 DEF Exhaust
  <1>20. ASSUME NEW w \in Workers, GiveUp(w) PROVE Held(i)'
    <2>1. ~Idling(wrk[w])
      BY <1>20 DEF GiveUp, Idling
    <2>2. wrk[w].cur.item # i
      BY <1>10, <1>20 DEF GiveUp, Abandon, MarkFailed
    <2> QED
      BY <1>16, <1>20, <2>1, <2>2 DEF GiveUp
  <1>21. ASSUME NEW w \in Workers, Retry(w) PROVE Held(i)'
    <2>1. ~Idling(wrk[w])
      BY <1>21 DEF Retry, Idling
    <2>2. wrk[w].cur.item # i \/ job'[i].status = "queued"
      BY <1>10, <1>17, <1>21, <2>1 DEF Retry, Abandon, Requeued
    <2> QED
      BY <1>16, <1>21, <2>1, <2>2 DEF Retry
  <1>22. ASSUME NEW w \in Workers, WorkerCrash(w) PROVE Held(i)'
    BY <1>10, <1>22 DEF WorkerCrash, IdleWorker
  <1>23. ASSUME NEW k \in Items, BackoffElapses(k) PROVE Held(i)'
    BY <1>23 DEF BackoffElapses, JobRow
  <1>24. CASE UNCHANGED vars
    BY <1>24 DEF vars
  <1> QED
    BY <1>2, <1>3, <1>4, <1>5, <1>6, <1>7, <1>8, <1>9, <1>11, <1>12, <1>14, <1>15, <1>18,
       <1>19, <1>20, <1>21, <1>22, <1>23, <1>24
    DEF Next, RequestStep, WorkerStep

(* A lost embedding stays counted as lost.                                  *)
LEMMA DroppedGrows == ASSUME [Next]_vars PROVE dropped \subseteq dropped'
  <1>1. ASSUME NEW r \in Requests, RequestStep(r) PROVE dropped \subseteq dropped'
    BY <1>1 DEF RequestStep, InlineEmbed, InlineStore, Enqueue
  <1>6. ASSUME NEW r \in Requests,
               AddSingle(r) \/ AddBulk(r) \/ Update(r) \/ Delete(r) \/ RequestCrash(r)
        PROVE  dropped \subseteq dropped'
    BY <1>6 DEF AddSingle, AddBulk, Update, Delete, RequestCrash
  <1>2. ASSUME NEW w \in Workers, Claim(w) \/ ReadItem(w) \/ WorkerEmbed(w) \/ WorkerStore(w)
        PROVE  dropped \subseteq dropped'
    BY <1>2 DEF Claim, ReadItem, WorkerEmbed, WorkerStore
  <1>3. ASSUME NEW w \in Workers, WorkerStep(w) PROVE dropped \subseteq dropped'
    BY <1>2, <1>3 DEF WorkerStep, Complete, Exhaust, GiveUp, Retry, Abandon
  <1>7. ASSUME NEW w \in Workers, Fetch(w) \/ WorkerCrash(w) PROVE dropped \subseteq dropped'
    BY <1>7 DEF Fetch, WorkerCrash
  <1>4. ASSUME NEW i \in Items, BackoffElapses(i) PROVE dropped \subseteq dropped'
    BY <1>4 DEF BackoffElapses
  <1>5. CASE UNCHANGED vars
    BY <1>5 DEF vars
  <1> QED
    BY <1>1, <1>3, <1>4, <1>5, <1>6, <1>7 DEF Next

(* A new item starts to wait in the hands of the request that inserted it.  *)
LEMMA NewIsHeld ==
    ASSUME TypeInv, Bookkeeping, [Next]_vars,
           NEW i \in Items, ~Waiting(i), Waiting(i)'
    PROVE  Held(i)'
  <1> USE DEF TypeInv, TypeOK
  <1>1. item[i].status = "new" /\ item'[i].status = "pending" /\ i \notin dropped'
    <2>1. item'[i].status = "pending" /\ i \notin dropped'
      BY DEF Waiting
    <2>2. dropped \subseteq dropped'
      BY DroppedGrows
    <2>3. item[i].status # "pending"
      BY <2>1, <2>2 DEF Waiting
    <2> QED
      BY <2>1, <2>3, RowsAge DEF Ages, Live, Removed, GoneRow
  <1>2. job[i].status = "none"
    BY <1>1 DEF Bookkeeping, JobHasItem, Exists
  <1>3. ASSUME NEW r \in Requests, AddSingle(r) PROVE Held(i)'
    <2>1. i \in req'[r].items /\ UNCHANGED job
      BY <1>1, <1>3 DEF AddSingle, Took, Raised, Outcomes
    <2> QED
      BY <1>2, <2>1 DEF Held
  <1>4. ASSUME NEW r \in Requests, AddBulk(r) PROVE Held(i)'
    <2>1. i \in req'[r].items /\ UNCHANGED job
      BY <1>1, <1>4 DEF AddBulk, Took, Raised, Outcomes
    <2> QED
      BY <1>2, <2>1 DEF Held
  <1>5. ASSUME NEW r \in Requests, Update(r) \/ Delete(r) PROVE FALSE
    BY <1>1, <1>5 DEF Update, Delete, Exists, Retext, GoneRow
  <1>6. ASSUME NEW r \in Requests, InlineStore(r) PROVE FALSE
    BY <1>1, <1>6 DEF InlineStore, StoreVector
  <1>7. ASSUME NEW w \in Workers, WorkerStore(w) PROVE FALSE
    BY <1>1, <1>7 DEF WorkerStore, StoreVector
  <1>8. ASSUME NEW w \in Workers, GiveUp(w) PROVE FALSE
    BY <1>1, <1>8 DEF GiveUp, MarkFailed
  <1>9. ASSUME UNCHANGED item PROVE FALSE
    BY <1>1, <1>9
  <1> QED
    BY <1>3, <1>4, <1>5, <1>6, <1>7, <1>8, <1>9
    DEF Next, RequestStep, WorkerStep, InlineEmbed, Enqueue, RequestCrash, Fetch, Claim,
        ReadItem, WorkerEmbed, Complete, Exhaust, Retry, WorkerCrash, BackoffElapses, vars

CoverInv == Bookkeeping /\ StoredFirst /\ WaitingHeld

LEMMA CoverInit == Init => CoverInv
  BY BookkeepingInit
  DEF Init, CoverInv, StoredFirst, WaitingHeld, Waiting, NoRow, IdleWorker

LEMMA CoverStep == TypeInv /\ CoverInv /\ [Next]_vars => CoverInv'
  <1> SUFFICES ASSUME TypeInv, CoverInv, [Next]_vars PROVE CoverInv'
    OBVIOUS
  <1>1. Bookkeeping' /\ StoredFirst'
    BY BookkeepingStep, StoredFirstStep DEF CoverInv
  <1>2. ASSUME NEW i \in Items, Waiting(i)' PROVE Held(i)'
    BY <1>2, HeldStays, NewIsHeld DEF CoverInv, WaitingHeld
  <1> QED
    BY <1>1, <1>2 DEF CoverInv, WaitingHeld

(* However requests and workers interleave, crash or fail, an item without  *)
(* a vector that nobody dropped has somebody who will see to it.            *)
THEOREM NobodyForgotten == Spec => []PendingIsCovered
  <1>1. CoverInv => PendingIsCovered
    BY DEF CoverInv, WaitingHeld, Waiting, Held, PendingIsCovered, Covered
  <1> QED
    BY <1>1, CoverInit, CoverStep, TypesAndAttempts, PTL DEF Spec

-----------------------------------------------------------------------------
(* A job becomes done in one way: its worker, past the store, says so.      *)
LEMMA DoneComes ==
    ASSUME TypeInv, [Next]_vars, NEW i \in Items, job'[i].status = "done"
    PROVE  \/ job[i].status = "done"
           \/ /\ job[i].status # "none"
              /\ UNCHANGED item
              /\ \E w \in Workers : wrk[w].pc = "complete" /\ wrk[w].cur.item = i
  <1> USE DEF TypeInv, TypeOK
  <1>1. ASSUME NEW w \in Workers, Complete(w), job[i].status # "done"
        PROVE  /\ job[i].status # "none"
               /\ UNCHANGED item
               /\ wrk[w].pc = "complete" /\ wrk[w].cur.item = i
    BY <1>1 DEF Complete, SetStatus
  <1>2. ASSUME NEW w \in Workers, Claim(w) PROVE job[i].status = "done"
    <2>1. PICK e \in wrk[w].batch :
              job' = job \/ job' = [job EXCEPT ![e.item] = SetStatus(job[e.item], "processing")]
      BY <1>2 DEF Claim
    <2>2. e.item \in Items
      BY <2>1 DEF WorkerState, Entry
    <2>3. ASSUME NEW row \in JobRow, SetStatus(row, "processing").status = "done"
          PROVE  row.status = "done"
      BY <2>3 DEF SetStatus, JobRow
    <2> QED
      BY <2>1, <2>2, <2>3
  <1>3. ASSUME NEW w \in Workers, Exhaust(w) \/ Retry(w) PROVE job[i].status = "done"
    <2>1. ASSUME NEW row \in JobRow, NEW n,
                 Exhausted(row, n).status = "done" \/ Requeued(row, n).status = "done"
          PROVE  row.status = "done"
      BY <2>1 DEF Exhausted, Requeued, JobRow
    <2>2. CASE Exhaust(w)
      BY <2>1, <2>2 DEF Exhaust
    <2>3. CASE Retry(w)
      BY <2>1, <2>3 DEF Retry
    <2> QED
      BY <1>3, <2>2, <2>3
  <1>4. ASSUME NEW r \in Requests, Delete(r) \/ Enqueue(r) PROVE job[i].status = "done"
    BY <1>4 DEF Delete, Enqueue, NoJob, Enqueued
  <1>5. ASSUME NEW k \in Items, BackoffElapses(k) PROVE job[i].status = "done"
    BY <1>5 DEF BackoffElapses, JobRow
  <1>6. ASSUME UNCHANGED job PROVE job[i].status = "done"
    BY <1>6
  <1> QED
    BY <1>1, <1>2, <1>3, <1>4, <1>5, <1>6
    DEF Next, RequestStep, WorkerStep, AddSingle, AddBulk, Update, InlineEmbed,
        InlineStore, RequestCrash, Fetch, ReadItem, WorkerEmbed, WorkerStore, GiveUp,
        WorkerCrash, vars

(* However many workers share a job, and whichever of them writes the item  *)
(* or the job last: a job that is done belongs to an item that has been     *)
(* embedded (or given up by another of them), never to one that still waits *)
(* and that no worker would ever be given again.                            *)
THEOREM DoneJobsAreEmbedded == Spec => []DoneIsEmbedded
  <1>1. Init => DoneIsEmbedded
    BY DEF Init, NoJob, DoneIsEmbedded
  <1>2. TypeInv /\ CoverInv /\ DoneIsEmbedded /\ [Next]_vars => DoneIsEmbedded'
    <2> SUFFICES ASSUME TypeInv, CoverInv, DoneIsEmbedded, [Next]_vars,
                        NEW i \in Items, job'[i].status = "done"
                 PROVE  item'[i].status \in {"ready", "failed"}
      BY DEF DoneIsEmbedded
    <2>1. CASE job[i].status = "done"
      <3>1. item[i].status \in {"ready", "failed"}
        BY <2>1 DEF DoneIsEmbedded
      <3>2. ~Removed(i)
        BY DEF Removed, NoJob, TypeInv, TypeOK
      <3> QED
        BY <3>1, <3>2, RowsAge DEF Ages, Live
    <2>2. ASSUME job[i].status # "none", UNCHANGED item,
                 NEW w \in Workers, wrk[w].pc = "complete", wrk[w].cur.item = i
          PROVE  item'[i].status \in {"ready", "failed"}
      <3>1. Exists(i)
        BY <2>2 DEF CoverInv, Bookkeeping, JobHasItem
      <3>2. item[i].status # "pending"
        BY <2>2 DEF CoverInv, StoredFirst
      <3> QED
        BY <2>2, <3>1, <3>2 DEF Exists
    <2> QED
      BY <2>1, <2>2, DoneComes
  <1> QED
    BY <1>1, <1>2, CoverInit, CoverStep, TypesAndAttempts, PTL DEF Spec

(* A worker that has claimed a job goes on to write how it ended.           *)
Working(w, i) == OnIt(w, i) /\ wrk[w].pc # "giveUp"

LEMMA EndsProcessing ==
    ASSUME NEW row \in JobRow
    PROVE  /\ SetStatus(row, "done").status # "processing"
           /\ \A n : /\ Exhausted(row, n).status # "processing"
                     /\ Requeued(row, n).status # "processing"
  BY DEF JobRow, SetStatus, Exhausted, Requeued

LEMMA ClaimsAreWorkedOn ==
    ASSUME TypeInv, [Next]_vars, NEW i \in Items, job'[i].status = "processing"
    PROVE  job[i].status = "processing" \/ \E w \in Workers : Working(w, i)'
  <1> USE DEF TypeInv, TypeOK
  <1>1. ASSUME NEW w \in Workers, Claim(w)
        PROVE  job[i].status = "processing" \/ Working(w, i)'
    <2>1. PICK e \in wrk[w].batch, o \in Outcomes :
            /\ job' = IF Took(o)
                      THEN [job EXCEPT ![e.item] = SetStatus(job[e.item], "processing")]
                      ELSE job
            /\ wrk' = [wrk EXCEPT ![w] =
                          [pc |-> IF Raised(o) THEN "recover" ELSE "read",
                           batch |-> wrk[w].batch \ {e}, cur |-> e, text |-> NoText]]
      BY <1>1 DEF Claim
    <2>2. e \in Entry /\ e.item \in Items /\ e # NoEntry
      BY <2>1, PipelineAssumption DEF WorkerState, Entry
    <2>3. CASE e.item = i
      BY <2>1, <2>2, <2>3 DEF Working, OnIt
    <2>4. CASE e.item # i
      BY <2>1, <2>2, <2>4
    <2> QED
      BY <2>3, <2>4
  <1>2. ASSUME NEW w \in Workers, Complete(w) \/ Exhaust(w) \/ Retry(w)
        PROVE  job[i].status = "processing"
    BY <1>2, EndsProcessing DEF Complete, Exhaust, Retry
  <1>3. ASSUME NEW r \in Requests, Delete(r) \/ Enqueue(r)
        PROVE  job[i].status = "processing"
    BY <1>3 DEF Delete, Enqueue, NoJob, Enqueued
  <1>4. ASSUME NEW k \in Items, BackoffElapses(k) PROVE job[i].status = "processing"
    BY <1>4 DEF BackoffElapses, JobRow
  <1>5. ASSUME UNCHANGED job PROVE job[i].status = "processing"
    BY <1>5
  <1> QED
    BY <1>1, <1>2, <1>3, <1>4, <1>5
    DEF Next, RequestStep, WorkerStep, AddSingle, AddBulk, Update, InlineEmbed,
        InlineStore, RequestCrash, Fetch, ReadItem, WorkerEmbed, WorkerStore, GiveUp,
        WorkerCrash, vars

LEMMA NobodyLeavesEarly ==
    ASSUME TypeInv, [Next]_vars, NEW i \in Items, NEW w \in Workers,
           Working(w, i), ~Working(w, i)'
    PROVE  i \in dropped' \/ job'[i].status # "processing"
  <1> USE DEF TypeInv, TypeOK, WorkerState
  <1> DEFINE Left == i \in dropped' \/ job'[i].status # "processing"
  <1>1. wrk[w].cur # NoEntry /\ wrk[w].cur.item = i
        /\ wrk[w].pc \notin {"idle", "claim", "giveUp"}
    BY DEF Working, OnIt, CurOK, Idling
  <1>2. wrk'[w].cur # wrk[w].cur \/ wrk'[w].pc = "giveUp"
    BY <1>1 DEF Working, OnIt
  <1>3. ASSUME NEW v \in Workers, Fetch(v) \/ Claim(v) \/ GiveUp(v) PROVE Left
    BY <1>1, <1>2, <1>3 DEF Fetch, Claim, GiveUp
  <1>4. ASSUME NEW v \in Workers, ReadItem(v) \/ WorkerEmbed(v) \/ WorkerStore(v) PROVE Left
    BY <1>1, <1>2, <1>4 DEF ReadItem, WorkerEmbed, WorkerStore, Proceed, Goto
  <1>5. ASSUME NEW v \in Workers, Complete(v) PROVE Left
    BY <1>1, <1>2, <1>5, EndsProcessing DEF Complete, Took, Raised
  <1>6. ASSUME NEW v \in Workers, Exhaust(v) PROVE Left
    BY <1>1, <1>2, <1>6, EndsProcessing DEF Exhaust, Took, Raised
  <1>7. ASSUME NEW v \in Workers, Retry(v) PROVE Left
    BY <1>1, <1>2, <1>7, EndsProcessing DEF Retry, Abandon, Took, Raised
  <1>8. ASSUME NEW v \in Workers, WorkerCrash(v) PROVE Left
    BY <1>1, <1>2, <1>8 DEF WorkerCrash
  <1>9. ASSUME UNCHANGED wrk PROVE Left
    BY <1>1, <1>2, <1>9
  <1> QED
    BY <1>3, <1>4, <1>5, <1>6, <1>7, <1>8, <1>9
    DEF Next, WorkerStep, RequestStep, AddSingle, AddBulk, Update, Delete, InlineEmbed,
        InlineStore, Enqueue, RequestCrash, BackoffElapses, vars

(* Whichever workers claim, finish, fail or requeue a job at the same time: *)
(* a job in "processing" is being worked on, unless a failure cut its       *)
(* worker short.  Nothing but such a failure leaves one there for good.     *)
THEOREM NobodyLeftProcessing == Spec => []ProcessingIsHeld
  <1>1. Init => ProcessingIsHeld
    BY DEF Init, NoJob, ProcessingIsHeld
  <1>2. TypeInv /\ ProcessingIsHeld /\ [Next]_vars => ProcessingIsHeld'
    <2> SUFFICES ASSUME TypeInv, ProcessingIsHeld, [Next]_vars,
                        NEW i \in Items, job'[i].status = "processing", i \notin dropped'
                 PROVE  \E w \in Workers : Working(w, i)'
      BY DEF ProcessingIsHeld, Working, OnIt
    <2>1. CASE job[i].status = "processing"
      <3>1. i \notin dropped
        BY DroppedGrows
      <3>2. PICK w \in Workers : Working(w, i)
        BY <2>1, <3>1 DEF ProcessingIsHeld, Working
      <3> QED
        BY <3>2, NobodyLeavesEarly
    <2> QED
      BY <2>1, ClaimsAreWorkedOn
  <1> QED
    BY <1>1, <1>2, TypesAndAttempts, PTL DEF Spec

-----------------------------------------------------------------------------
(* A job in one hand at a time.  Workers may overlap, but whoever has this  *)
(* job has it alone.  What he has read of it is then never out of date: it  *)
(* is as it was selected as long as it is ahead in his batch, and as he     *)
(* left it when he is on it, unless its item was deleted - and a deleted    *)
(* item gets no new job.                                                    *)

HasInHand(w, i) == \E e \in InHand(w) : e.item = i

Unshared(i) == \A v, w \in Workers : HasInHand(v, i) /\ HasInHand(w, i) => v = w

NobodyShares == \A i \in Items : Unshared(i)

Selected(e) ==
    \/ job[e.item].status = "none"
    \/ /\ job[e.item].status = "queued"
       /\ job[e.item].due
       /\ job[e.item].attempts = e.attempts

Taken(e) ==
    \/ job[e.item].status = "none"
    \/ /\ job[e.item].status = "processing"
       /\ job[e.item].attempts = e.attempts

(* Its completion was written, and the response was lost.                   *)
Finished(e) ==
    \/ job[e.item].status = "none"
    \/ /\ job[e.item].status = "done"
       /\ job[e.item].attempts = e.attempts

Known(e) == Selected(e) \/ Taken(e) \/ Finished(e)

SnapshotHolds(w, i) ==
    /\ \A e, f \in wrk[w].batch : e.item = i /\ f.item = i => e = f
    /\ \A e \in wrk[w].batch : e.item = i => Selected(e) /\ ~OnIt(w, i)
    /\ OnIt(w, i) /\ wrk[w].pc \in {"read", "embed", "store", "complete"} => Taken(wrk[w].cur)
    /\ OnIt(w, i) /\ wrk[w].pc = "recover" => Known(wrk[w].cur)

SnapshotsHold(i) == \A w \in Workers : SnapshotHolds(w, i)

LEMMA SnapshotInit == ASSUME NEW i \in Items PROVE Init => SnapshotsHold(i)
  BY DEF Init, SnapshotsHold, SnapshotHolds, OnIt, IdleWorker

LEMMA HandIs ==
    ASSUME NEW w \in Workers, NEW i \in Items
    PROVE  HasInHand(w, i) <=> OnIt(w, i) \/ \E e \in wrk[w].batch : e.item = i
  BY DEF HasInHand, InHand, OnIt

(* Requests and the passing of time leave the jobs a worker holds alone,    *)
(* but for a deletion.                                                      *)
OthersStep ==
    \/ \E r \in Requests : AddSingle(r) \/ AddBulk(r) \/ Update(r) \/ Delete(r)
                           \/ RequestStep(r) \/ RequestCrash(r)
    \/ \E i \in Items : BackoffElapses(i)
    \/ UNCHANGED vars

Untouched(i) == job'[i] = job[i] \/ job'[i].status = "none"

LEMMA KnownStays ==
    ASSUME NEW e, Untouched(e.item)
    PROVE  /\ Selected(e) => Selected(e)'
           /\ Taken(e) => Taken(e)'
           /\ Finished(e) => Finished(e)'
  BY DEF Untouched, Selected, Taken, Finished

LEMMA HeldUntouched ==
    ASSUME TypeInv, NEW e, e.item \in Items, Tracked(e.item), Known(e), OthersStep
    PROVE  Untouched(e.item)
  <1> USE DEF TypeInv, TypeOK
  <1>1. ASSUME NEW r \in Requests, Delete(r) PROVE Untouched(e.item)
    BY <1>1 DEF Delete, Untouched, NoJob
  <1>2. ASSUME NEW r \in Requests, Enqueue(r) PROVE Untouched(e.item)
    <2>1. CASE job[e.item].status = "none"
      <3>1. ~Exists(e.item)
        BY <2>1 DEF Tracked, Exists
      <3> QED
        BY <1>2, <3>1 DEF Enqueue, ForeignKeyHolds, Untouched
    <2>2. CASE job[e.item].status # "none"
      BY <1>2, <2>2 DEF Enqueue, Enqueued, Untouched
    <2> QED
      BY <2>1, <2>2
  <1>3. ASSUME NEW r \in Requests,
               \/ AddSingle(r) \/ AddBulk(r) \/ Update(r) \/ InlineEmbed(r)
               \/ InlineStore(r) \/ RequestCrash(r)
        PROVE  Untouched(e.item)
    BY <1>3 DEF AddSingle, AddBulk, Update, InlineEmbed, InlineStore, RequestCrash,
                Untouched
  <1>4. ASSUME NEW i \in Items, BackoffElapses(i) PROVE Untouched(e.item)
    BY <1>4 DEF BackoffElapses, Untouched, Known, Selected, Taken, Finished
  <1>5. CASE UNCHANGED vars
    BY <1>5 DEF vars, Untouched
  <1> QED
    BY <1>1, <1>2, <1>3, <1>4, <1>5 DEF OthersStep, RequestStep

LEMMA OthersKeepHands == OthersStep => UNCHANGED wrk
  BY DEF OthersStep, AddSingle, AddBulk, Update, Delete, RequestStep, InlineEmbed,
         InlineStore, Enqueue, RequestCrash, BackoffElapses, vars

LEMMA SnapshotsUntouched ==
    ASSUME TypeInv, Bookkeeping, NEW i \in Items, SnapshotsHold(i), OthersStep
    PROVE  SnapshotsHold(i)'
  <1> SUFFICES ASSUME NEW w \in Workers PROVE SnapshotHolds(w, i)'
    BY DEF SnapshotsHold
  <1>1. SnapshotHolds(w, i) /\ wrk'[w] = wrk[w] /\ (OnIt(w, i)' <=> OnIt(w, i))
    BY OthersKeepHands DEF SnapshotsHold, OnIt
  <1>2. ASSUME NEW e \in wrk[w].batch, e.item = i PROVE Selected(e)'
    <2>1. Tracked(e.item) /\ Selected(e)
      BY <1>1, <1>2 DEF Bookkeeping, HeldTracked, SnapshotHolds
    <2> QED
      BY <1>2, <2>1, HeldUntouched, KnownStays DEF Known
  <1>3. ASSUME OnIt(w, i), Known(wrk[w].cur) PROVE Untouched(wrk[w].cur.item)
    BY <1>3, HeldUntouched DEF Bookkeeping, HeldTracked, OnIt
  <1>4. OnIt(w, i) /\ wrk[w].pc \in {"read", "embed", "store", "complete"} => Taken(wrk[w].cur)'
    BY <1>1, <1>3, KnownStays DEF SnapshotHolds, Known
  <1>5. OnIt(w, i) /\ wrk[w].pc = "recover" => Known(wrk[w].cur)'
    BY <1>1, <1>3, KnownStays DEF SnapshotHolds, Known
  <1> QED
    BY <1>1, <1>2, <1>4, <1>5 DEF SnapshotHolds, Selected, Taken, Finished, Known

-----------------------------------------------------------------------------
LEMMA LeavesJob ==
    ASSUME NEW i, NEW w, wrk'[w] = IdleWorker \/ wrk'[w] = NextJob(wrk[w])
    PROVE  ~OnIt(w, i)'
  <1>1. IdleWorker.cur = NoEntry /\ NextJob(wrk[w]).cur = NoEntry
    BY DEF NextJob, IdleWorker
  <1> QED
    BY <1>1 DEF OnIt

LEMMA FreeWorker ==
    ASSUME TypeInv, NEW i, NEW w \in Workers, Fetch(w) \/ GiveUp(w) \/ WorkerCrash(w)
    PROVE  job' = job /\ ~OnIt(w, i)'
  <1> USE DEF TypeInv, TypeOK
  <1>1. CASE Fetch(w)
    <2>1. wrk'[w].cur = NoEntry
      BY <1>1 DEF Fetch, IdleWorker
    <2> QED
      BY <1>1, <2>1 DEF Fetch, OnIt
  <1>2. CASE GiveUp(w) \/ WorkerCrash(w)
    <2>1. job' = job /\ (wrk'[w] = IdleWorker \/ wrk'[w] = NextJob(wrk[w]))
      BY <1>2 DEF GiveUp, WorkerCrash
    <2> QED
      BY <2>1, LeavesJob
  <1> QED
    BY <1>1, <1>2

(* A worker that has not got the job in hand does not write it.             *)
LEMMA StrangersKeepOff ==
    ASSUME TypeInv, NEW i \in Items, NEW w \in Workers, ~HasInHand(w, i),
           Fetch(w) \/ WorkerStep(w) \/ WorkerCrash(w)
    PROVE  /\ job'[i] = job[i]
           /\ ~OnIt(w, i)'
  <1> USE DEF TypeInv, TypeOK
  <1>1. ~OnIt(w, i) /\ \A e \in wrk[w].batch : e.item # i
    BY HandIs
  <1>2. CASE Claim(w)
    BY <1>1, <1>2 DEF Claim, OnIt
  <1>3. CASE Complete(w)
    <2>1. wrk[w].cur.item # i
      BY <1>1, <1>3 DEF Complete, OnIt, CurOK, Idling
    <2>2. /\ wrk'[w] = IdleWorker \/ wrk'[w] = NextJob(wrk[w]) \/ wrk'[w].cur = wrk[w].cur
          /\ job'[i] = job[i]
      BY <1>3, <2>1 DEF Complete, WorkerState
    <2> QED
      BY <2>1, <2>2, LeavesJob DEF OnIt
  <1>4. CASE Exhaust(w) \/ Retry(w)
    <2>1. wrk[w].cur.item # i
      BY <1>1, <1>4 DEF Exhaust, Retry, OnIt, CurOK, Idling
    <2>2. /\ wrk'[w] = IdleWorker \/ wrk'[w] = NextJob(wrk[w]) \/ wrk'[w].cur = wrk[w].cur
          /\ job'[i] = job[i]
      BY <1>4, <2>1 DEF Exhaust, Retry, WorkerState
    <2> QED
      BY <2>1, <2>2, LeavesJob DEF OnIt
  <1>5. CASE Fetch(w) \/ GiveUp(w) \/ WorkerCrash(w)
    BY <1>5, FreeWorker
  <1>6. CASE ReadItem(w) \/ WorkerEmbed(w) \/ WorkerStore(w)
    BY <1>1, <1>6 DEF ReadItem, WorkerEmbed, WorkerStore, Proceed, Goto, OnIt, WorkerState
  <1> QED
    BY <1>2, <1>3, <1>4, <1>5, <1>6 DEF WorkerStep

LEMMA OneWorkerSteps ==
    ASSUME TypeInv, NEW w \in Workers, Fetch(w) \/ WorkerStep(w) \/ WorkerCrash(w)
    PROVE  \A v \in Workers \ {w} : wrk'[v] = wrk[v]
  BY DEF TypeInv, TypeOK, Fetch, WorkerStep, Claim, ReadItem, WorkerEmbed, WorkerStore,
         Complete, Exhaust, GiveUp, Retry, WorkerCrash, Proceed, Goto

(* A worker that writes one job leaves those of the rest of its batch.      *)
LEMMA BatchStays ==
    ASSUME TypeInv, NEW i \in Items, NEW w \in Workers, SnapshotHolds(w, i),
           wrk[w].cur # NoEntry,
           NEW row, job' = [job EXCEPT ![wrk[w].cur.item] = row] \/ job' = job
    PROVE  \A e \in wrk[w].batch : e.item = i => Selected(e)'
  <1> SUFFICES ASSUME NEW e \in wrk[w].batch, e.item = i PROVE Selected(e)'
    OBVIOUS
  <1>1. wrk[w].cur.item # i /\ Selected(e)
    BY DEF SnapshotHolds, OnIt
  <1>2. job'[i] = job[i]
    BY <1>1 DEF TypeInv, TypeOK
  <1> QED
    BY <1>1, <1>2 DEF Selected

LEMMA SnapshotNext ==
    ASSUME NEW i \in Items, NEW w \in Workers, wrk[w] \in WorkerState, SnapshotHolds(w, i),
           wrk'[w] = IdleWorker \/ wrk'[w] = NextJob(wrk[w]),
           \A e \in wrk[w].batch : e.item = i => Selected(e)'
    PROVE  SnapshotHolds(w, i)'
  <1>1. CASE wrk'[w] = IdleWorker
    BY <1>1 DEF IdleWorker, SnapshotHolds, OnIt
  <1>2. CASE wrk'[w] = NextJob(wrk[w])
    BY <1>2 DEF NextJob, IdleWorker, SnapshotHolds, OnIt, WorkerState
  <1> QED
    BY <1>1, <1>2

LEMMA SnapshotOfWorker ==
    ASSUME TypeInv, NEW i \in Items, NEW w \in Workers, SnapshotHolds(w, i),
           Fetch(w) \/ WorkerStep(w) \/ WorkerCrash(w)
    PROVE  SnapshotHolds(w, i)'
  <1> USE DEF TypeInv, TypeOK
  <1>1. wrk[w] \in WorkerState /\ \A e \in wrk[w].batch : e.item = i => Selected(e)
    BY DEF SnapshotHolds
  <1>2. ASSUME ~Idling(wrk[w]) PROVE wrk[w].cur # NoEntry /\ wrk[w].cur.item \in Items
    BY <1>2, WorkerOnJob DEF CurOK
  <1>3. CASE Fetch(w)
    <2>1. PICK S \in SUBSET Due :
              wrk'[w] = [IdleWorker EXCEPT
                            !.pc = "claim",
                            !.batch = {[item |-> k, attempts |-> job[k].attempts] : k \in S}]
      BY <1>3 DEF Fetch
    <2>2. \A e \in wrk'[w].batch : \E k \in S : e = [item |-> k, attempts |-> job[k].attempts]
      BY <2>1 DEF IdleWorker
    <2>3. UNCHANGED job
      BY <1>3 DEF Fetch
    <2>4. \A e \in wrk'[w].batch : Selected(e)'
      BY <2>2, <2>3 DEF Selected, Due
    <2>5. wrk'[w].cur = NoEntry /\ wrk'[w].pc = "claim"
      BY <2>1 DEF IdleWorker
    <2> QED
      BY <2>2, <2>4, <2>5 DEF SnapshotHolds, OnIt
  <1>4. CASE Claim(w)
    <2>1. PICK e \in wrk[w].batch, o \in Outcomes :
            /\ job' = IF Took(o)
                      THEN [job EXCEPT ![e.item] = SetStatus(job[e.item], "processing")]
                      ELSE job
            /\ wrk' = [wrk EXCEPT ![w] =
                          [pc |-> IF Raised(o) THEN "recover" ELSE "read",
                           batch |-> wrk[w].batch \ {e}, cur |-> e, text |-> NoText]]
      BY <1>4 DEF Claim
    <2>2. e.item \in Items /\ job[e.item] \in JobRow
      BY <1>1 DEF WorkerState, Entry
    <2>3. /\ wrk'[w].batch = wrk[w].batch \ {e} /\ wrk'[w].cur = e
          /\ wrk'[w].pc = IF Raised(o) THEN "recover" ELSE "read"
      BY <2>1
    <2>4. CASE e.item # i
      <3>1. job'[i] = job[i] /\ ~OnIt(w, i)'
        BY <2>1, <2>3, <2>4 DEF OnIt
      <3> QED
        BY <2>3, <3>1 DEF SnapshotHolds, Selected
    <2>5. CASE e.item = i
      <3>1. Selected(e) /\ \A f \in wrk'[w].batch : f.item # i
        BY <2>3, <2>5 DEF SnapshotHolds
      <3>2. CASE Took(o)
        <4>1. job'[i] = SetStatus(job[i], "processing")
          BY <2>1, <2>5, <3>2
        <4>2. Taken(e)'
          BY <2>2, <2>5, <3>1, <4>1 DEF Selected, Taken, SetStatus, JobRow
        <4> QED
          BY <2>3, <3>1, <4>2 DEF SnapshotHolds, Known, Taken
      <3>3. CASE ~Took(o)
        <4>1. Selected(e)' /\ Raised(o)
          BY <2>1, <3>1, <3>3 DEF Selected, Took, Raised
        <4> QED
          BY <2>3, <3>1, <4>1 DEF SnapshotHolds, Known, Selected
      <3> QED
        BY <3>2, <3>3
    <2> QED
      BY <2>4, <2>5
  <1>5. CASE ReadItem(w) \/ WorkerEmbed(w) \/ WorkerStore(w)
    <2>1. /\ wrk[w].pc \in {"read", "embed", "store"}
          /\ UNCHANGED job
          /\ wrk'[w].batch = wrk[w].batch /\ wrk'[w].cur = wrk[w].cur
          /\ wrk'[w].pc \in {"embed", "store", "complete", "recover"}
      BY <1>1, <1>5 DEF ReadItem, WorkerEmbed, WorkerStore, Goto, Proceed, WorkerState
    <2> QED
      BY <2>1 DEF SnapshotHolds, OnIt, Known, Selected, Taken
  <1>6. CASE Complete(w)
    <2>0. wrk[w].pc = "complete" /\ ~Idling(wrk[w])
      BY <1>6 DEF Complete, Idling
    <2>1. PICK o \in Outcomes :
            /\ job' = IF Took(o)
                      THEN [job EXCEPT ![wrk[w].cur.item] =
                                SetStatus(job[wrk[w].cur.item], "done")]
                      ELSE job
            /\ wrk' = IF Raised(o) THEN [wrk EXCEPT ![w].pc = "recover"]
                      ELSE [wrk EXCEPT ![w] = NextJob(wrk[w])]
      BY <1>6 DEF Complete
    <2>2. \A e \in wrk[w].batch : e.item = i => Selected(e)'
      BY <1>2, <2>0, <2>1, BatchStays
    <2>3. CASE ~Raised(o)
      BY <1>1, <2>1, <2>2, <2>3, SnapshotNext
    <2>4. CASE Raised(o)
      <3>1. /\ wrk'[w].batch = wrk[w].batch /\ wrk'[w].cur = wrk[w].cur
            /\ wrk'[w].pc = "recover"
        BY <1>1, <2>1, <2>4 DEF WorkerState
      <3>2. ASSUME OnIt(w, i) PROVE Known(wrk[w].cur)'
        <4>1. Taken(wrk[w].cur) /\ wrk[w].cur.item = i /\ job[i] \in JobRow
          BY <2>0, <3>2 DEF SnapshotHolds, OnIt
        <4>2. job'[i] = job[i] \/ job'[i] = SetStatus(job[i], "done")
          BY <2>1, <4>1
        <4>3. Taken(wrk[w].cur)' \/ Finished(wrk[w].cur)'
          BY <3>1, <4>1, <4>2 DEF Taken, Finished, SetStatus, JobRow
        <4> QED
          BY <4>3 DEF Known
      <3> QED
        BY <2>2, <3>1, <3>2 DEF SnapshotHolds, OnIt, Known, Selected, Taken, Finished
    <2> QED
      BY <2>3, <2>4
  <1>7. CASE Exhaust(w)
    <2>0. ~Idling(wrk[w])
      BY <1>7 DEF Exhaust, Idling
    <2>1. \A e \in wrk[w].batch : e.item = i => Selected(e)'
      BY <1>2, <1>7, <2>0, BatchStays DEF Exhaust
    <2>2. \/ wrk'[w] = IdleWorker
          \/ /\ wrk'[w].batch = wrk[w].batch /\ wrk'[w].cur = wrk[w].cur
             /\ wrk'[w].pc = "giveUp"
      BY <1>1, <1>7 DEF Exhaust, WorkerState
    <2>3. CASE wrk'[w] = IdleWorker
      BY <1>1, <2>1, <2>3, SnapshotNext
    <2>4. CASE wrk'[w] # IdleWorker
      BY <2>1, <2>2, <2>4 DEF SnapshotHolds, OnIt
    <2> QED
      BY <2>3, <2>4
  <1>8. CASE Retry(w)
    <2>0. ~Idling(wrk[w])
      BY <1>8 DEF Retry, Idling
    <2>1. \A e \in wrk[w].batch : e.item = i => Selected(e)'
      BY <1>2, <1>8, <2>0, BatchStays DEF Retry
    <2>2. wrk'[w] = IdleWorker \/ wrk'[w] = NextJob(wrk[w])
      BY <1>8 DEF Retry
    <2> QED
      BY <1>1, <2>1, <2>2, SnapshotNext
  <1>9. CASE GiveUp(w) \/ WorkerCrash(w)
    <2>1. \A e \in wrk[w].batch : e.item = i => Selected(e)'
      BY <1>1, <1>9 DEF GiveUp, WorkerCrash, Selected
    <2>2. wrk'[w] = IdleWorker \/ wrk'[w] = NextJob(wrk[w])
      BY <1>9 DEF GiveUp, WorkerCrash
    <2> QED
      BY <1>1, <2>1, <2>2, SnapshotNext
  <1> QED
    BY <1>3, <1>4, <1>5, <1>6, <1>7, <1>8, <1>9 DEF WorkerStep

(* The others, whom the worker that makes the step does not share with.     *)
LEMMA SnapshotStep ==
    ASSUME TypeInv, Bookkeeping, NEW i \in Items, Unshared(i), SnapshotsHold(i), [Next]_vars
    PROVE  SnapshotsHold(i)'
  <1>1. CASE OthersStep
    BY <1>1, SnapshotsUntouched
  <1>2. ASSUME NEW w \in Workers, Fetch(w) \/ WorkerStep(w) \/ WorkerCrash(w)
        PROVE  SnapshotsHold(i)'
    <2> SUFFICES ASSUME NEW v \in Workers \ {w} PROVE SnapshotHolds(v, i)'
      BY <1>2, SnapshotOfWorker DEF SnapshotsHold
    <2>1. wrk'[v] = wrk[v] /\ SnapshotHolds(v, i)
      BY <1>2, OneWorkerSteps DEF SnapshotsHold
    <2>2. CASE ~HasInHand(v, i)
      <3>1. ~HasInHand(v, i)'
        BY <2>1, <2>2 DEF HasInHand, InHand
      <3> QED
        BY <2>1, <2>2, HandIs DEF SnapshotHolds, OnIt
    <2>3. CASE HasInHand(v, i)
      <3>1. job'[i] = job[i]
        BY <1>2, <2>3, StrangersKeepOff DEF Unshared
      <3> QED
        BY <2>1, <3>1 DEF SnapshotHolds, OnIt, Known, Selected, Taken, Finished
    <2> QED
      BY <2>2, <2>3
  <1> QED
    BY <1>1, <1>2 DEF Next, OthersStep

-----------------------------------------------------------------------------
(* Then each write of the job is a step of the contract.                    *)

LifecycleStep(i) == Lifecycle!NextOf(i) \/ UNCHANGED Acknowledged[i]

LEMMA ShownAs ==
    ASSUME NEW i \in Items
    PROVE  Acknowledged[i] = IF job[i].status = "done" /\ \E w \in Workers : OnIt(w, i)
                             THEN [job[i] EXCEPT !.status = "processing"]
                             ELSE job[i]
  BY DEF Acknowledged

LEMMA OthersRefine ==
    ASSUME TypeInv, NEW i \in Items, OthersStep
    PROVE  LifecycleStep(i)
  <1> USE DEF TypeInv, TypeOK, JobRow
  <1> DEFINE Shown(row) == IF row.status = "done" /\ \E w \in Workers : OnIt(w, i)
                           THEN [row EXCEPT !.status = "processing"]
                           ELSE row
  <1>0. Acknowledged[i] = Shown(job[i]) /\ Acknowledged'[i] = Shown(job'[i])
    <2>1. Acknowledged[i] = Shown(job[i])
      BY ShownAs
    <2>2. (\E w \in Workers : OnIt(w, i))' <=> \E w \in Workers : OnIt(w, i)
      BY OthersKeepHands DEF OnIt
    <2>3. Acknowledged'[i] = IF job'[i].status = "done" /\ (\E w \in Workers : OnIt(w, i))'
                             THEN [job'[i] EXCEPT !.status = "processing"]
                             ELSE job'[i]
      BY DEF Acknowledged
    <2> QED
      BY <2>1, <2>2, <2>3
  <1>1. ASSUME NEW row, row.status # "done" PROVE Shown(row) = row
    BY <1>1
  <1>2. ASSUME job'[i] = job[i] PROVE LifecycleStep(i)
    BY <1>0, <1>2 DEF LifecycleStep
  <1> HIDE DEF Shown
  <1>3. ASSUME job'[i] = NoJob PROVE LifecycleStep(i)
    <2>1. Acknowledged'[i] = NoJob
      BY <1>0, <1>1, <1>3 DEF NoJob
    <2> QED
      BY <2>1 DEF LifecycleStep, Lifecycle!NextOf, Lifecycle!ItemDeleted, Lifecycle!Become,
                  Lifecycle!NoJob, NoJob
  <1>4. ASSUME NEW r \in Requests, Delete(r) PROVE LifecycleStep(i)
    BY <1>2, <1>3, <1>4 DEF Delete
  <1>5. ASSUME NEW r \in Requests, Enqueue(r) PROVE LifecycleStep(i)
    <2>1. CASE job'[i] # job[i]
      <3>1. job[i].status = "none" /\ job'[i] = Enqueued(job[i])
        BY <1>5, <2>1 DEF Enqueue, Enqueued
      <3>2. job'[i] = [status |-> "queued", attempts |-> 0, due |-> TRUE]
        BY <3>1 DEF Enqueued
      <3>3. Acknowledged[i] = job[i] /\ Acknowledged'[i] = job'[i]
        BY <1>0, <1>1, <3>1, <3>2
      <3> QED
        BY <3>1, <3>2, <3>3
        DEF LifecycleStep, Lifecycle!NextOf, Lifecycle!Enqueue, Lifecycle!Become
    <2> QED
      BY <1>2, <2>1
  <1>6. ASSUME NEW r \in Requests,
               \/ AddSingle(r) \/ AddBulk(r) \/ Update(r) \/ InlineEmbed(r)
               \/ InlineStore(r) \/ RequestCrash(r)
        PROVE  LifecycleStep(i)
    BY <1>2, <1>6 DEF AddSingle, AddBulk, Update, InlineEmbed, InlineStore, RequestCrash
  <1>7. ASSUME NEW k \in Items, BackoffElapses(k) PROVE LifecycleStep(i)
    <2>1. CASE k = i
      <3>1. job[i].status = "queued" /\ job'[i] = [job[i] EXCEPT !.due = TRUE]
        BY <1>7, <2>1 DEF BackoffElapses
      <3>2. Acknowledged[i] = job[i] /\ Acknowledged'[i] = job'[i]
        BY <1>0, <1>1, <3>1
      <3> QED
        BY <3>1, <3>2
        DEF LifecycleStep, Lifecycle!NextOf, Lifecycle!BackoffElapses, Lifecycle!Become
    <2>2. CASE k # i
      BY <1>2, <1>7, <2>2 DEF BackoffElapses
    <2> QED
      BY <2>1, <2>2
  <1>8. UNCHANGED vars => LifecycleStep(i)
    BY <1>2 DEF vars
  <1> QED
    BY <1>4, <1>5, <1>6, <1>7, <1>8 DEF OthersStep, RequestStep

(* What a worker that has the job alone makes of it.                        *)
LEMMA HolderRefines ==
    ASSUME TypeInv, NEW i \in Items, Unshared(i), NEW w \in Workers, HasInHand(w, i),
           SnapshotHolds(w, i), Fetch(w) \/ WorkerStep(w) \/ WorkerCrash(w)
    PROVE  LifecycleStep(i)
  <1> DEFINE Shown(row, on) == IF row.status = "done" /\ on
                               THEN [row EXCEPT !.status = "processing"] ELSE row
             a == Acknowledged[i]
             b == Acknowledged'[i]
  <1>1. \A v \in Workers : OnIt(v, i) => v = w
    BY HandIs DEF Unshared
  <1>2. \A v \in Workers : OnIt(v, i)' => v = w
    BY <1>1, OneWorkerSteps DEF OnIt
  <1>3. a = Shown(job[i], OnIt(w, i))
    BY <1>1, ShownAs
  <1>4. b = Shown(job'[i], OnIt(w, i)')
    <2>1. b = IF job'[i].status = "done" /\ (\E v \in Workers : OnIt(v, i))'
              THEN [job'[i] EXCEPT !.status = "processing"] ELSE job'[i]
      BY DEF Acknowledged
    <2> QED
      BY <1>2, <2>1
  <1>5. job[i] \in JobRow /\ wrk[w] \in WorkerState
    BY DEF TypeInv, TypeOK
  <1> HIDE DEF a, b
  <1>6. ASSUME b = a PROVE LifecycleStep(i)
    BY <1>6 DEF LifecycleStep, a, b
  <1>7. ASSUME job'[i] = job[i], ~OnIt(w, i)' PROVE LifecycleStep(i)
    <2>1. CASE job[i].status = "done" /\ OnIt(w, i)
      <3>1. a = [job[i] EXCEPT !.status = "processing"] /\ b = job[i]
        BY <1>3, <1>4, <1>7, <2>1
      <3>2. a.status = "processing" /\ b = [a EXCEPT !.status = "done"]
        BY <1>5, <2>1, <3>1 DEF JobRow
      <3> QED
        BY <3>2
        DEF LifecycleStep, Lifecycle!NextOf, Lifecycle!Complete, Lifecycle!Become, a, b
    <2> QED
      BY <1>3, <1>4, <1>6, <1>7, <2>1
  <1>8. CASE ~OnIt(w, i) /\ ~Claim(w)
    <2>1. job'[i] = job[i] /\ ~OnIt(w, i)'
      <3> USE DEF TypeInv, TypeOK
      <3>1. CASE Fetch(w) \/ GiveUp(w) \/ WorkerCrash(w)
        BY <3>1, FreeWorker
      <3>2. CASE ReadItem(w) \/ WorkerEmbed(w) \/ WorkerStore(w)
        BY <1>5, <1>8, <3>2
        DEF ReadItem, WorkerEmbed, WorkerStore, Proceed, Goto, OnIt, WorkerState
      <3>3. CASE Complete(w) \/ Exhaust(w) \/ Retry(w)
        <4>1. wrk[w].cur.item # i
          BY <1>8, <3>3 DEF Complete, Exhaust, Retry, OnIt, CurOK, Idling
        <4>2. job'[i] = job[i]
          BY <3>3, <4>1 DEF Complete, Exhaust, Retry
        <4>3. \/ wrk'[w] = IdleWorker \/ wrk'[w] = NextJob(wrk[w])
              \/ wrk'[w].cur = wrk[w].cur
          BY <1>5, <3>3 DEF Complete, Exhaust, Retry, WorkerState
        <4> QED
          BY <4>1, <4>2, <4>3, LeavesJob DEF OnIt
      <3> QED
        BY <1>8, <3>1, <3>2, <3>3 DEF WorkerStep
    <2> QED
      BY <1>7, <2>1
  <1>9. CASE Claim(w)
    <2>1. PICK e \in wrk[w].batch, o \in Outcomes :
            /\ job' = IF Took(o)
                      THEN [job EXCEPT ![e.item] = SetStatus(job[e.item], "processing")]
                      ELSE job
            /\ wrk' = [wrk EXCEPT ![w] =
                          [pc |-> IF Raised(o) THEN "recover" ELSE "read",
                           batch |-> wrk[w].batch \ {e}, cur |-> e, text |-> NoText]]
      BY <1>9 DEF Claim
    <2>2. ~OnIt(w, i)
      BY <1>9 DEF Claim, OnIt, TypeInv, CurOK, Idling
    <2>3. CASE e.item # i
      <3>1. job'[i] = job[i] /\ ~OnIt(w, i)'
        <4>1. wrk'[w].cur = e
          BY <2>1 DEF TypeInv, TypeOK
        <4> QED
          BY <2>1, <2>3, <4>1 DEF OnIt, TypeInv, TypeOK
      <3> QED
        BY <1>7, <3>1
    <2>4. CASE e.item = i
      <3>1. Selected(e)
        BY <2>4 DEF SnapshotHolds
      <3>2. job'[i] = job[i] \/ job'[i] = SetStatus(job[i], "processing")
        BY <2>1, <2>4 DEF TypeInv, TypeOK
      <3>3. CASE job'[i] = job[i]
        BY <1>3, <1>4, <1>6, <2>4, <3>1, <3>3 DEF Selected
      <3>4. CASE job'[i] # job[i]
        <4>1. /\ job[i].status = "queued" /\ job[i].due
              /\ job'[i] = [job[i] EXCEPT !.status = "processing"]
          BY <2>4, <3>1, <3>2, <3>4 DEF Selected, SetStatus
        <4>2. a = job[i] /\ b = [job[i] EXCEPT !.status = "processing"]
          BY <1>3, <1>4, <1>5, <4>1 DEF JobRow
        <4> QED
          BY <4>1, <4>2
          DEF LifecycleStep, Lifecycle!NextOf, Lifecycle!Claim, Lifecycle!Become, a, b
      <3> QED
        BY <3>3, <3>4
    <2> QED
      BY <2>3, <2>4
  <1>10. CASE OnIt(w, i) /\ Complete(w)
    <2>1. Taken(wrk[w].cur) /\ wrk[w].cur.item = i /\ wrk[w].cur # NoEntry
      BY <1>10 DEF SnapshotHolds, OnIt, Complete
    <2>2. PICK o \in Outcomes :
            /\ job'[i] = IF Took(o) THEN SetStatus(job[i], "done") ELSE job[i]
            /\ wrk'[w] = IF Raised(o) THEN [wrk[w] EXCEPT !.pc = "recover"] ELSE NextJob(wrk[w])
      BY <1>10, <2>1 DEF Complete, TypeInv, TypeOK
    <2>3. OnIt(w, i)' <=> Raised(o)
      BY <1>5, <2>1, <2>2 DEF OnIt, NextJob, IdleWorker, WorkerState
    <2>4. CASE job[i].status = "none"
      BY <1>3, <1>4, <1>6, <2>2, <2>4 DEF SetStatus
    <2>5. CASE job[i].status = "processing"
      <3>1. a = job[i]
        BY <1>3, <2>5
      <3>2. CASE Raised(o)
        <4>1. b = job[i]
          BY <1>4, <1>5, <2>2, <2>3, <2>5, <3>2 DEF SetStatus, JobRow
        <4> QED
          BY <1>6, <3>1, <4>1
      <3>3. CASE ~Raised(o)
        <4>1. b = [a EXCEPT !.status = "done"]
          BY <1>4, <2>2, <2>3, <2>5, <3>1, <3>3 DEF SetStatus, Took, Raised
        <4> QED
          BY <2>5, <3>1, <4>1
          DEF LifecycleStep, Lifecycle!NextOf, Lifecycle!Complete, Lifecycle!Become, a, b
      <3> QED
        BY <3>2, <3>3
    <2> QED
      BY <2>1, <2>4, <2>5 DEF Taken
  <1>11. CASE OnIt(w, i) /\ (Exhaust(w) \/ Retry(w))
    <2> DEFINE e == wrk[w].cur
               n == job[i].attempts
    <2>1. Known(e) /\ e.item = i /\ ~Idling(wrk[w])
      BY <1>11 DEF SnapshotHolds, OnIt, Exhaust, Retry, Idling
    <2>2. CASE job'[i] = job[i]
      <3>1. OnIt(w, i)' => job[i].status = "none"
        <4>1. CASE Exhaust(w)
          <5>1. PICK o \in Outcomes :
                  /\ job'[i] = IF Took(o) THEN Exhausted(job[i], NextAttempts(e)) ELSE job[i]
                  /\ Raised(o) => wrk'[w] = IdleWorker
            BY <2>1, <4>1 DEF Exhaust, TypeInv, TypeOK
          <5>2. ~Raised(o) => job[i].status = "none"
            BY <1>5, <2>1, <2>2, <5>1
            DEF Took, Raised, Exhausted, Known, Selected, Taken, Finished, JobRow
          <5> QED
            BY <5>1, <5>2 DEF OnIt, IdleWorker
        <4>2. CASE Retry(w)
          BY <4>2 DEF Retry, OnIt, IdleWorker, NextJob, TypeInv, TypeOK
        <4> QED
          BY <1>11, <4>1, <4>2
      <3>2. CASE job[i].status = "none"
        BY <1>3, <1>4, <1>6, <2>2, <3>2
      <3> QED
        BY <1>7, <2>2, <3>1, <3>2
    <2>3. CASE job'[i] # job[i]
      <3>1. /\ \/ Exhaust(w) /\ LastAttempt(e) /\ job'[i] = Exhausted(job[i], NextAttempts(e))
               \/ Retry(w) /\ ~LastAttempt(e) /\ job'[i] = Requeued(job[i], NextAttempts(e))
            /\ job[i].status # "none"
        BY <1>11, <2>1, <2>3 DEF Exhaust, Retry, Exhausted, Requeued, TypeInv, TypeOK
      <3>2. /\ n = e.attempts /\ n \in Nat /\ MaxAttempts \in Nat
            /\ a \in JobRow /\ a.due = job[i].due /\ a.attempts = n
            /\ a.status = "processing" \/ (a.status = "queued" /\ a.due)
        <4>1. n = e.attempts /\ n \in Nat /\ MaxAttempts \in Nat
          BY <1>5, <2>1, <3>1, PipelineAssumption DEF Known, Selected, Taken, Finished, JobRow
        <4>2. CASE job[i].status = "done"
          <5>1. a = [job[i] EXCEPT !.status = "processing"]
            BY <1>3, <1>11, <4>2
          <5> QED
            BY <1>5, <4>1, <5>1 DEF JobRow
        <4>3. CASE job[i].status # "done"
          <5>1. a = job[i]
            BY <1>3, <4>3
          <5> QED
            BY <1>5, <2>1, <3>1, <4>1, <4>3, <5>1 DEF Known, Selected, Taken, Finished, JobRow
        <4> QED
          BY <4>2, <4>3
      <3>3. NextAttempts(e) = n + 1 /\ (LastAttempt(e) <=> ~(n + 1 < MaxAttempts))
        BY <3>2 DEF NextAttempts, LastAttempt
      <3>4. b = IF n + 1 < MaxAttempts
                THEN [status |-> "queued", attempts |-> n + 1, due |-> FALSE]
                ELSE [status |-> "failed", attempts |-> n + 1, due |-> a.due]
        <4>1. CASE n + 1 < MaxAttempts
          BY <1>4, <3>1, <3>3, <4>1 DEF Requeued
        <4>2. CASE ~(n + 1 < MaxAttempts)
          <5>1. job'[i] = [job[i] EXCEPT !.status = "failed", !.attempts = n + 1]
            BY <3>1, <3>3, <4>2 DEF Exhausted
          <5>2. job'[i] = [status |-> "failed", attempts |-> n + 1, due |-> job[i].due]
            BY <1>5, <5>1 DEF JobRow
          <5>3. b = job'[i]
            BY <1>4, <5>2
          <5> QED
            BY <3>2, <4>2, <5>2, <5>3
        <4> QED
          BY <4>1, <4>2
      <3> QED
        BY <3>2, <3>4
        DEF LifecycleStep, Lifecycle!NextOf, Lifecycle!AttemptFails, Lifecycle!Become, a, b
    <2> QED
      BY <2>2, <2>3
  <1>12. CASE OnIt(w, i) /\ (Fetch(w) \/ GiveUp(w) \/ WorkerCrash(w))
    <2>1. job'[i] = job[i] /\ ~OnIt(w, i)'
      BY <1>12, FreeWorker
    <2> QED
      BY <1>7, <2>1
  <1>13. CASE OnIt(w, i) /\ (ReadItem(w) \/ WorkerEmbed(w) \/ WorkerStore(w))
    <2>1. job'[i] = job[i] /\ OnIt(w, i)'
      BY <1>5, <1>13
      DEF ReadItem, WorkerEmbed, WorkerStore, Proceed, Goto, OnIt, WorkerState, TypeInv, TypeOK
    <2> QED
      BY <1>3, <1>4, <1>6, <1>13, <2>1
  <1> QED
    BY <1>8, <1>9, <1>10, <1>11, <1>12, <1>13 DEF WorkerStep

LEMMA EveryoneRefines ==
    ASSUME TypeInv, NEW i \in Items, Unshared(i), SnapshotsHold(i), [Next]_vars
    PROVE  LifecycleStep(i)
  <1>1. ASSUME NEW w \in Workers, Fetch(w) \/ WorkerStep(w) \/ WorkerCrash(w), ~HasInHand(w, i)
        PROVE  UNCHANGED Acknowledged[i]
    <2>1. job'[i] = job[i] /\ ~OnIt(w, i) /\ ~OnIt(w, i)'
      BY <1>1, StrangersKeepOff, HandIs
    <2>2. \A v \in Workers : OnIt(v, i)' <=> OnIt(v, i)
      BY <1>1, <2>1, OneWorkerSteps DEF OnIt
    <2>3. Acknowledged'[i] = IF job'[i].status = "done" /\ (\E v \in Workers : OnIt(v, i))'
                             THEN [job'[i] EXCEPT !.status = "processing"] ELSE job'[i]
      BY DEF Acknowledged
    <2> QED
      BY <2>1, <2>2, <2>3, ShownAs
  <1>2. ASSUME NEW w \in Workers, Fetch(w) \/ WorkerStep(w) \/ WorkerCrash(w)
        PROVE  LifecycleStep(i)
    BY <1>1, <1>2, HolderRefines DEF LifecycleStep, SnapshotsHold
  <1> QED
    BY <1>2, OthersRefine DEF Next, OthersStep

(* However many workers overlap, whatever calls are refused or lost and     *)
(* whoever is cut short: a job that is never in two hands at a time keeps   *)
(* the contract of JobLifecycle - no claim before its backoff is over, each *)
(* failed attempt counted once, nothing done to it once it is finished -    *)
(* although process_embedding_jobs writes without looking at the row.       *)
THEOREM UnsharedJobsKeepLifecycle ==
    ASSUME NEW i \in Items
    PROVE  Spec /\ []Unshared(i) => Lifecycle!SpecOf(i)
<1>1. Init => Acknowledged[i] = Lifecycle!NoJob
  BY DEF Init, NoJob, Acknowledged, Lifecycle!NoJob
<1>2. TypeInv /\ Bookkeeping /\ Unshared(i) /\ SnapshotsHold(i) /\ [Next]_vars
          => SnapshotsHold(i)'
  BY SnapshotStep
<1>3. TypeInv /\ Unshared(i) /\ SnapshotsHold(i) /\ [Next]_vars
          => [Lifecycle!NextOf(i)]_(Acknowledged[i])
  BY EveryoneRefines DEF LifecycleStep
<1>4. TypeInv /\ Bookkeeping /\ [Next]_vars => Bookkeeping'
  BY BookkeepingStep
<1>5. Init => SnapshotsHold(i)
  BY SnapshotInit
<1> QED
  BY <1>1, <1>2, <1>3, <1>4, <1>5, BookkeepingInit, TypesAndAttempts, PTL
  DEF Spec, Lifecycle!SpecOf

(* All jobs together, as long as none is shared: one invocation at a time,  *)
(* or overlapping ones whose batches have nothing in common.                *)
THEOREM JobsHaveALifecycle == Spec /\ []NobodyShares => JobsKeepLifecycle
<1> DEFINE Snapshots == \A i \in Items : SnapshotsHold(i)
<1>1. Init => Lifecycle!Init /\ Snapshots
  BY SnapshotInit DEF Init, NoJob, Acknowledged, Lifecycle!Init, Lifecycle!NoJob
<1>2. TypeInv /\ Bookkeeping /\ NobodyShares /\ Snapshots /\ [Next]_vars => Snapshots'
  BY SnapshotStep DEF NobodyShares
<1>3. TypeInv /\ NobodyShares /\ Snapshots /\ [Next]_vars => [Lifecycle!Next]_Acknowledged
  <2> SUFFICES ASSUME TypeInv, NobodyShares, Snapshots, [Next]_vars
               PROVE  Lifecycle!Next
    OBVIOUS
  <2>1. \A i \in Items : LifecycleStep(i)
    BY EveryoneRefines DEF NobodyShares
  <2>2. DOMAIN Acknowledged' = Items
    BY DEF Acknowledged
  <2> QED
    BY <2>1, <2>2 DEF LifecycleStep, Lifecycle!Next
<1>4. TypeInv /\ Bookkeeping /\ [Next]_vars => Bookkeeping'
  BY BookkeepingStep
<1> HIDE DEF Snapshots
<1> QED
  BY <1>1, <1>2, <1>3, <1>4, BookkeepingInit, TypesAndAttempts, PTL
  DEF Spec, JobsKeepLifecycle, Lifecycle!Spec
=============================================================================
