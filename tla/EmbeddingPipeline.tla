------------------------- MODULE EmbeddingPipeline -------------------------
(***************************************************************************)
(* The embedding pipeline of the pantry service: the rows of pantry_items, *)
(* the rows of pantry_embedding_jobs, the API requests that write them     *)
(* (PantryService.add_single_item, add_bulk_items, update_my_item,         *)
(* delete_my_item) and the cron-driven workers (process_embedding_jobs).   *)
(* The only atomic steps are single database calls; everything between two *)
(* of them interleaves.  Requests and workers are slots: a slot that is    *)
(* idle may start the next request or the next worker invocation.          *)
(*                                                                         *)
(* The text an item is embedded from (name, category, quantity) is a pair  *)
(* <<i, v>>; a vector is identified with the text it was computed from.    *)
(***************************************************************************)
EXTENDS Naturals, FiniteSets

CONSTANTS
    Items,        \* row ids; a uuid is used for one insert only
    Versions,     \* the contents an item's text can have
    Requests,     \* concurrent API requests
    Workers,      \* concurrent worker invocations
    MaxAttempts,  \* EMBEDDING_JOB_MAX_ATTEMPTS
    BatchSize,    \* min(max_jobs, MAX_EMBEDDING_JOB_BATCH_SIZE)
    FaultKinds,   \* the ways a database call or a process may fail
    MaxFaults,    \* bound on how many such failures happen
    NoText,       \* no text read, no vector stored
    NoEntry       \* a worker that is between two jobs

VARIABLES
    item,     \* the pantry_items table
    job,      \* the pantry_embedding_jobs table, at most one row an item
    req,      \* what each request holds in memory
    wrk,      \* what each worker holds in memory
    dropped,  \* history: items somebody who owed them an embedding let go of
    faults    \* how many failures have happened

vars == <<item, job, req, wrk, dropped, faults>>

ASSUME PipelineAssumption ==
    /\ NoText \notin Items \X Versions
    /\ MaxAttempts \in Nat \ {0}
    /\ BatchSize \in Nat \ {0}
    /\ MaxFaults \in Nat
    /\ FaultKinds \subseteq {"refused", "lost", "crash"}
    /\ NoEntry \notin [item : Items, attempts : 0 .. MaxAttempts - 1]

-----------------------------------------------------------------------------
(* The tables and the processes' memory.                                    *)

Texts == Items \X Versions
TextsOf(i) == {i} \X Versions
OptText == Texts \cup {NoText}

ItemRow == [status : {"new", "pending", "ready", "failed", "deleted"},
            text : OptText, vector : OptText]
JobRow == [status : {"none", "queued", "processing", "done", "failed"},
           attempts : 0 .. MaxAttempts, due : BOOLEAN]
Entry == [item : Items, attempts : 0 .. MaxAttempts - 1]
RequestState == [pc : {"idle", "embed", "store", "enqueue"},
                 items : SUBSET Items, text : OptText]
WorkerState == [pc : {"idle", "claim", "read", "embed", "store",
                      "complete", "recover", "giveUp"},
                batch : SUBSET Entry, cur : Entry \cup {NoEntry},
                text : OptText]

NoRow == [status |-> "new", text |-> NoText, vector |-> NoText]
GoneRow == [status |-> "deleted", text |-> NoText, vector |-> NoText]
NoJob == [status |-> "none", attempts |-> 0, due |-> TRUE]
IdleRequest == [pc |-> "idle", items |-> {}, text |-> NoText]
IdleWorker == [pc |-> "idle", batch |-> {}, cur |-> NoEntry, text |-> NoText]

Exists(i) == item[i].status \in {"pending", "ready", "failed"}

Init ==
    /\ item = [i \in Items |-> NoRow]
    /\ job = [i \in Items |-> NoJob]
    /\ req = [r \in Requests |-> IdleRequest]
    /\ wrk = [w \in Workers |-> IdleWorker]
    /\ dropped = {}
    /\ faults = 0

-----------------------------------------------------------------------------
(* A database call ends "ok", is "refused" (raises, nothing written) or is  *)
(* "lost" (written, but the response never arrives, so it raises as well).  *)

Outcomes == {"ok", "refused", "lost"}
Took(o) == o # "refused"
Raised(o) == o # "ok"

Fault(kind) ==
    /\ kind \in FaultKinds
    /\ faults < MaxFaults
    /\ faults' = faults + 1

Call(o) == IF Raised(o) THEN Fault(o) ELSE UNCHANGED faults

(* The writes.  An update of a row that is gone matches nothing.            *)

PendingRow(t) == [status |-> "pending", text |-> t, vector |-> NoText]

Retext(row, t) == [row EXCEPT !.text = t]

StoreStatusOnly(row, t) == [row EXCEPT !.status = "ready"]

StoreVector(row, t) ==
    IF row.status \in {"new", "deleted"} THEN row
    ELSE [row EXCEPT !.status = "ready", !.vector = t]

MarkNothing(row) == row

MarkFailed(row) ==
    IF row.status \in {"new", "deleted"} THEN row
    ELSE [row EXCEPT !.status = "failed"]

EnqueuedAnew(row) == [status |-> "queued", attempts |-> 0, due |-> TRUE]

(* upsert ... on_conflict pantry_item_id, ignore_duplicates: a job row that *)
(* exists is left as it is, whatever its status.                            *)
Enqueued(row) ==
    IF row.status = "none"
    THEN [status |-> "queued", attempts |-> 0, due |-> TRUE]
    ELSE row

SetStatus(row, s) == IF row.status = "none" THEN row ELSE [row EXCEPT !.status = s]

Exhausted(row, n) ==
    IF row.status = "none" THEN row
    ELSE [row EXCEPT !.status = "failed", !.attempts = n]

LeftProcessing(row, n) == [row EXCEPT !.attempts = n, !.due = FALSE]

Requeued(row, n) ==
    IF row.status = "none" THEN row
    ELSE [status |-> "queued", attempts |-> n, due |-> FALSE]

(* The foreign key of pantry_embedding_jobs: one statement inserts the jobs *)
(* of all the items, and fails for all of them when one item is gone.       *)
ForeignKeyHolds(S) == \A i \in S : Exists(i)

-----------------------------------------------------------------------------
(* API requests.                                                            *)

AddSingle(r) == \E i \in Items, v \in Versions, o \in Outcomes :
    /\ req[r].pc = "idle"
    /\ item[i].status = "new"
    /\ Call(o)
    /\ item' = IF Took(o) THEN [item EXCEPT ![i] = PendingRow(<<i, v>>)] ELSE item
    /\ req' = IF Raised(o) THEN req
              ELSE [req EXCEPT ![r] = [pc |-> "embed", items |-> {i}, text |-> <<i, v>>]]
    /\ dropped' = IF o = "lost" THEN dropped \cup {i} ELSE dropped
    /\ UNCHANGED <<job, wrk>>

AddBulk(r) == \E S \in SUBSET {i \in Items : item[i].status = "new"}, o \in Outcomes :
    \E f \in [S -> Versions] :
        /\ req[r].pc = "idle"
        /\ S # {}
        /\ Call(o)
        /\ item' = IF Took(o)
                   THEN [i \in Items |->
                            IF i \in S THEN PendingRow(<<i, f[i]>>) ELSE item[i]]
                   ELSE item
        /\ req' = IF Raised(o) THEN req
                  ELSE [req EXCEPT ![r] =
                            [pc |-> "enqueue", items |-> S, text |-> NoText]]
        /\ dropped' = IF o = "lost" THEN dropped \cup S ELSE dropped
        /\ UNCHANGED <<job, wrk>>

(* An update of an embedding-relevant field.  embedding_status and the old  *)
(* vector stay as they are until the inline refresh replaces them.          *)
Update(r) == \E i \in Items, v \in Versions, o \in Outcomes :
    /\ req[r].pc = "idle"
    /\ Exists(i)
    /\ Call(o)
    /\ item' = IF Took(o) THEN [item EXCEPT ![i] = Retext(item[i], <<i, v>>)] ELSE item
    /\ req' = IF Raised(o) THEN req
              ELSE [req EXCEPT ![r] = [pc |-> "embed", items |-> {i}, text |-> <<i, v>>]]
    /\ UNCHANGED <<job, wrk, dropped>>

(* The delete cascades to the item's job.                                   *)
Delete(r) == \E i \in Items :
    /\ req[r].pc = "idle"
    /\ Exists(i)
    /\ item' = [item EXCEPT ![i] = GoneRow]
    /\ job' = [job EXCEPT ![i] = NoJob]
    /\ UNCHANGED <<req, wrk, dropped, faults>>

(* _refresh_item_embedding: the text is the one of the row the insert or    *)
(* the update returned; it is not read again.                               *)
InlineEmbed(r) == \E pc \in {"store", "enqueue"} :
    /\ req[r].pc = "embed"
    /\ req' = [req EXCEPT ![r].pc = pc]
    /\ UNCHANGED <<item, job, wrk, dropped, faults>>

InlineStore(r) == \E o \in Outcomes, i \in req[r].items :
    /\ req[r].pc = "store"
    /\ Call(o)
    /\ item' = IF Took(o) THEN [item EXCEPT ![i] = StoreVector(item[i], req[r].text)]
               ELSE item
    /\ req' = IF Raised(o) THEN [req EXCEPT ![r].pc = "enqueue"]
              ELSE [req EXCEPT ![r] = IdleRequest]
    /\ UNCHANGED <<job, wrk, dropped>>

(* The upsert of _enqueue_embedding_job and of add_bulk_items; whatever it  *)
(* raises is swallowed and the request succeeds.                            *)
Enqueue(r) == \E o \in Outcomes :
    LET S == req[r].items
        written == Took(o) /\ ForeignKeyHolds(S)
    IN  /\ req[r].pc = "enqueue"
        /\ Call(o)
        /\ job' = IF written
                  THEN [i \in Items |-> IF i \in S THEN Enqueued(job[i]) ELSE job[i]]
                  ELSE job
        /\ dropped' = IF written THEN dropped ELSE dropped \cup S
        /\ req' = [req EXCEPT ![r] = IdleRequest]
        /\ UNCHANGED <<item, wrk>>

RequestCrash(r) ==
    /\ req[r].pc # "idle"
    /\ Fault("crash")
    /\ req' = [req EXCEPT ![r] = IdleRequest]
    /\ dropped' = dropped \cup req[r].items
    /\ UNCHANGED <<item, job, wrk>>

-----------------------------------------------------------------------------
(* The worker: one invocation of process_embedding_jobs.                    *)

DueOrNot == {i \in Items : job[i].status = "queued"}

Due == {i \in Items : job[i].status = "queued" /\ job[i].due}

FullBatch(S) ==
    Cardinality(S) = IF Cardinality(Due) < BatchSize THEN Cardinality(Due) ELSE BatchSize

(* A fetch that takes hold of all jobs that are due, whatever its limit.    *)
FetchReservesAll(w) == \E S \in SUBSET Due :
    /\ wrk[w].pc = "idle"
    /\ S # {}
    /\ FullBatch(S)
    /\ job' = [i \in Items |->
                  IF i \in Due THEN SetStatus(job[i], "processing") ELSE job[i]]
    /\ wrk' = [wrk EXCEPT ![w] =
                  [IdleWorker EXCEPT
                      !.pc = "claim",
                      !.batch = {[item |-> i, attempts |-> job[i].attempts] : i \in S}]]
    /\ UNCHANGED <<item, req, dropped, faults>>

(* The snapshot of the selected jobs; nothing marks them as taken.          *)
Fetch(w) == \E S \in SUBSET Due :
    /\ wrk[w].pc = "idle"
    /\ S # {}
    /\ FullBatch(S)
    /\ wrk' = [wrk EXCEPT ![w] =
                  [IdleWorker EXCEPT
                      !.pc = "claim",
                      !.batch = {[item |-> i, attempts |-> job[i].attempts] : i \in S}]]
    /\ UNCHANGED <<item, job, req, dropped, faults>>

(* The loop goes on with the next job of the snapshot, or returns.          *)
NextJob(state) ==
    IF state.batch = {} THEN IdleWorker
    ELSE [IdleWorker EXCEPT !.pc = "claim", !.batch = state.batch]

Goto(w, pc) == wrk' = [wrk EXCEPT ![w].pc = pc]

GoesOn(w, o, pc) == Goto(w, pc)

(* A write of the loop's body: when it raises, the except branch is next.   *)
Proceed(w, o, pc) == Goto(w, IF Raised(o) THEN "recover" ELSE pc)

(* The update to "processing" has no condition on the status it replaces.   *)
Claim(w) == \E e \in wrk[w].batch, o \in Outcomes :
    /\ wrk[w].pc = "claim"
    /\ Call(o)
    /\ job' = IF Took(o)
              THEN [job EXCEPT ![e.item] = SetStatus(job[e.item], "processing")]
              ELSE job
    /\ wrk' = [wrk EXCEPT ![w] =
                  [pc |-> IF Raised(o) THEN "recover" ELSE "read",
                   batch |-> wrk[w].batch \ {e}, cur |-> e, text |-> NoText]]
    /\ UNCHANGED <<item, req, dropped>>

ReadItem(w) == \E o \in {"ok", "refused"} :
    LET i == wrk[w].cur.item
    IN  /\ wrk[w].pc = "read"
        /\ Call(o)
        /\ wrk' = IF Raised(o) \/ ~Exists(i)
                  THEN [wrk EXCEPT ![w].pc = "recover"]
                  ELSE [wrk EXCEPT ![w].pc = "embed", ![w].text = item[i].text]
        /\ UNCHANGED <<item, job, req, dropped>>

WorkerEmbed(w) == \E pc \in {"store", "recover"} :
    /\ wrk[w].pc = "embed"
    /\ Goto(w, pc)
    /\ UNCHANGED <<item, job, req, dropped, faults>>

WorkerStore(w) == \E o \in Outcomes :
    LET i == wrk[w].cur.item
    IN  /\ wrk[w].pc = "store"
        /\ Call(o)
        /\ item' = IF Took(o) THEN [item EXCEPT ![i] = StoreVector(item[i], wrk[w].text)]
                   ELSE item
        /\ Proceed(w, o, "complete")
        /\ UNCHANGED <<job, req, dropped>>

Complete(w) == \E o \in Outcomes :
    LET i == wrk[w].cur.item
    IN  /\ wrk[w].pc = "complete"
        /\ Call(o)
        /\ job' = IF Took(o) THEN [job EXCEPT ![i] = SetStatus(job[i], "done")] ELSE job
        /\ wrk' = IF Raised(o) THEN [wrk EXCEPT ![w].pc = "recover"]
                  ELSE [wrk EXCEPT ![w] = NextJob(wrk[w])]
        /\ UNCHANGED <<item, req, dropped>>

(* The except branch.  The attempts are those of the snapshot.  What raises *)
(* here leaves the function: the rest of the batch is not processed.        *)
NextAttempts(e) == e.attempts + 1

OneAttemptTooMany(e) == NextAttempts(e) > MaxAttempts

LastAttempt(e) == NextAttempts(e) >= MaxAttempts

Abandon(w, o) ==
    dropped' = IF Took(o) THEN dropped ELSE dropped \cup {wrk[w].cur.item}

Exhaust(w) == \E o \in Outcomes :
    LET e == wrk[w].cur
    IN  /\ wrk[w].pc = "recover"
        /\ LastAttempt(e)
        /\ Call(o)
        /\ job' = IF Took(o)
                  THEN [job EXCEPT ![e.item] = Exhausted(job[e.item], NextAttempts(e))]
                  ELSE job
        /\ wrk' = IF Raised(o) THEN [wrk EXCEPT ![w] = IdleWorker]
                  ELSE [wrk EXCEPT ![w].pc = "giveUp"]
        /\ dropped' = IF Raised(o) THEN dropped \cup {e.item} ELSE dropped
        /\ UNCHANGED <<item, req>>

GiveUp(w) == \E o \in Outcomes :
    LET i == wrk[w].cur.item
    IN  /\ wrk[w].pc = "giveUp"
        /\ Call(o)
        /\ item' = IF Took(o) THEN [item EXCEPT ![i] = MarkFailed(item[i])] ELSE item
        /\ wrk' = [wrk EXCEPT ![w] = IF Raised(o) THEN IdleWorker ELSE NextJob(wrk[w])]
        /\ Abandon(w, o)
        /\ UNCHANGED <<job, req>>

Retry(w) == \E o \in Outcomes :
    LET e == wrk[w].cur
    IN  /\ wrk[w].pc = "recover"
        /\ ~LastAttempt(e)
        /\ Call(o)
        /\ job' = IF Took(o)
                  THEN [job EXCEPT ![e.item] = Requeued(job[e.item], NextAttempts(e))]
                  ELSE job
        /\ wrk' = [wrk EXCEPT ![w] = IF Raised(o) THEN IdleWorker ELSE NextJob(wrk[w])]
        /\ Abandon(w, o)
        /\ UNCHANGED <<item, req>>

(* The platform kills the invocation (a serverless function at its limit).  *)
WorkerCrash(w) ==
    /\ wrk[w].pc # "idle"
    /\ Fault("crash")
    /\ wrk' = [wrk EXCEPT ![w] = IdleWorker]
    /\ dropped' = IF wrk[w].cur = NoEntry THEN dropped
                  ELSE dropped \cup {wrk[w].cur.item}
    /\ UNCHANGED <<item, job, req>>

(* The backoff of a requeued job runs out.                                  *)
BackoffElapses(i) ==
    /\ job[i].status = "queued"
    /\ ~job[i].due
    /\ job' = [job EXCEPT ![i].due = TRUE]
    /\ UNCHANGED <<item, req, wrk, dropped, faults>>

-----------------------------------------------------------------------------
RequestStep(r) == InlineEmbed(r) \/ InlineStore(r) \/ Enqueue(r)

WorkerStep(w) ==
    \/ Claim(w) \/ ReadItem(w) \/ WorkerEmbed(w) \/ WorkerStore(w)
    \/ Complete(w) \/ Exhaust(w) \/ GiveUp(w) \/ Retry(w)

Next ==
    \/ \E r \in Requests :
          AddSingle(r) \/ AddBulk(r) \/ Update(r) \/ Delete(r)
          \/ RequestStep(r) \/ RequestCrash(r)
    \/ \E w \in Workers : Fetch(w) \/ WorkerStep(w) \/ WorkerCrash(w)
    \/ \E i \in Items : BackoffElapses(i)

Spec == Init /\ [][Next]_vars

(* A request and a worker that has started goes on, backoffs elapse and the *)
(* cron entry, which fires every minute, finds the jobs that are due.       *)
Fairness ==
    /\ \A r \in Requests : WF_vars(RequestStep(r))
    /\ \A w \in Workers : WF_vars(WorkerStep(w))
    /\ WF_vars(\E w \in Workers : Fetch(w))
    /\ \A i \in Items : WF_vars(BackoffElapses(i))

FairSpec == Spec /\ Fairness

-----------------------------------------------------------------------------
(* Every variable has its type.                                             *)
TypeOK ==
    /\ item \in [Items -> ItemRow]
    /\ job \in [Items -> JobRow]
    /\ req \in [Requests -> RequestState]
    /\ wrk \in [Workers -> WorkerState]
    /\ dropped \in SUBSET Items
    /\ faults \in 0 .. MaxFaults

(* Whatever the overlap of worker invocations, all of which write the       *)
(* attempts they read and not the ones in the table: a job that may be      *)
(* picked up has attempts left, and one given up has used all of them       *)
(* (next_attempts >= max_attempts in process_embedding_jobs).               *)
AttemptsBounded == \A i \in Items :
    /\ job[i].status = "queued" => job[i].attempts < MaxAttempts
    /\ job[i].status = "failed" => job[i].attempts = MaxAttempts

(* A row that match_pantry_items may return (embedding_status ready) has a  *)
(* vector, and one computed from a text of that very item: a batch of       *)
(* several jobs and rows deleted on the way never mix two items up.         *)
ReadyVectorIsOwn == \A i \in Items :
    item[i].status = "ready" => item[i].vector \in TextsOf(i)

(* An item still waiting for its first vector has somebody who will see to  *)
(* it - a request, a queued job, a worker that is on it - unless it was     *)
(* dropped: its enqueue was swallowed, or the process that had it crashed   *)
(* or failed in its error branch.  There is no other way to be forgotten.   *)
OnIt(w, i) == wrk[w].cur # NoEntry /\ wrk[w].cur.item = i

Covered(i) ==
    \/ \E r \in Requests : i \in req[r].items
    \/ job[i].status = "queued"
    \/ \E w \in Workers : OnIt(w, i)

PendingIsCovered == \A i \in Items :
    item[i].status = "pending" /\ i \notin dropped => Covered(i)

(* Only "queued" jobs are ever selected, so one left in "processing" is     *)
(* lost for good.  A job in "processing" has a worker on it that has yet to *)
(* write its end, whatever others that share the job write in between,      *)
(* unless the worker was cut short or its last write raised.                *)
ProcessingIsHeld == \A i \in Items :
    job[i].status = "processing" /\ i \notin dropped =>
        \E w \in Workers : OnIt(w, i) /\ wrk[w].pc # "giveUp"

(* The queue as its users see it.  A completion does not show before its    *)
(* worker knows of it: when the response is lost, the job is tried again.   *)
(* Jobs in the hands of one worker at a time then keep the contract of      *)
(* JobLifecycle, whatever call fails or is lost and whoever is cut short.   *)
Acknowledged == [i \in Items |->
    IF job[i].status = "done" /\ \E w \in Workers : OnIt(w, i)
    THEN [job[i] EXCEPT !.status = "processing"]
    ELSE job[i]]

Lifecycle == INSTANCE JobLifecycle WITH job <- Acknowledged

JobsKeepLifecycle == Lifecycle!Spec

(* The queue for any number of workers and any failure: each write of a job *)
(* row is by a worker that selected the job when it was due, and follows    *)
(* from the attempts it read then (process_embedding_jobs has no lease and  *)
(* writes next_attempts unconditionally).                                   *)
InHand(w) == wrk[w].batch \cup (IF wrk[w].cur = NoEntry THEN {} ELSE {wrk[w].cur})

HeldAttempts == [i \in Items |->
    {n \in 0 .. MaxAttempts - 1 : \E w \in Workers : [item |-> i, attempts |-> n] \in InHand(w)}]

Queue == INSTANCE SharedQueue WITH held <- HeldAttempts

JobsAreShared == Queue!Spec

(* Workers may put each other's attempts back, but only so far: the least   *)
(* count of failures from which a job may still be tried never falls, and   *)
(* an enqueue that comes again does not begin anew.                         *)
RetriesAdvance == Queue!RetriesAdvance

(* A job that is done has an item that was embedded, whichever of the       *)
(* workers that share it, late or failing, wrote either row last.           *)
DoneIsEmbedded == \A i \in Items :
    job[i].status = "done" => item[i].status \in {"ready", "failed"}

(* As far as no failure dropped it, an item gets its vector, is marked      *)
(* failed, or is deleted: retries end, overlapping workers that put each    *)
(* other's attempts back included.                                          *)
PendingSettles == \A i \in Items :
    item[i].status = "pending" ~> (item[i].status # "pending" \/ i \in dropped)

(* Every queued job ends done or failed, or goes with its item, unless the  *)
(* worker that took it was lost: process_embedding_jobs selects only        *)
(* "queued" jobs, so a fetch must touch no job that its limit leaves out.   *)
(* It holds because item ids run out.  Were there new jobs for ever, the    *)
(* query, which has no order, could pass an old one over each time.         *)
JobsSettle == \A i \in Items :
    job[i].status = "queued" ~>
        (job[i].status \in {"none", "done", "failed"} \/ i \in dropped)

(* What test_update_my_item_re_embeds_when_embedding_fields_change says of  *)
(* an update: the vector that search ranks the item by becomes that of the  *)
(* new text (or the item stops being ready), once clients leave it alone.   *)
Stale(i) == item[i].status = "ready" /\ item[i].vector # item[i].text

UpdateReEmbeds ==
    <>[](\A r \in Requests : req[r].pc = "idle") =>
        \A i \in Items : Stale(i) ~> ~Stale(i)

(* What test_add_bulk_items_inserts_pending_and_enqueues_jobs says of a     *)
(* bulk insert, without the proviso for dropped items: every new item is    *)
(* embedded, given up or deleted in the end.                                *)
InsertedItemsSettle == \A i \in Items :
    item[i].status = "pending" ~> item[i].status # "pending"
=============================================================================
