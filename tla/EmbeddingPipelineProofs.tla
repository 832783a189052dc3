---------------------- MODULE EmbeddingPipelineProofs ----------------------
(***************************************************************************)
(* Safety of the embedding pipeline for any set of items, texts, requests  *)
(* and workers, any number of attempts and of failures.                    *)
(***************************************************************************)
EXTENDS EmbeddingPipeline, TLAPS

(* A worker holds an entry of its snapshot exactly while it works on a job. *)
Idling(s) == s.pc \in {"idle", "claim"}

CurOK == \A w \in Workers : wrk[w].cur = NoEntry <=> Idling(wrk[w])

TypeInv == TypeOK /\ CurOK /\ AttemptsBounded

(* AttemptsBounded, of one row.  The snapshots are in Entry only because a  *)
(* queued job has attempts left, so types and attempts go together.         *)
AttemptsOK(row) ==
    /\ row.status = "queued" => row.attempts < MaxAttempts
    /\ row.status = "failed" => row.attempts = MaxAttempts

LEMMA AttemptsOfRows == AttemptsBounded <=> \A i \in Items : AttemptsOK(job[i])
  BY DEF AttemptsBounded, AttemptsOK

-----------------------------------------------------------------------------
(* The writes keep the types of the rows they write.                        *)

LEMMA ItemWrites ==
    ASSUME NEW row \in ItemRow, NEW t \in Texts
    PROVE  /\ PendingRow(t) \in ItemRow
           /\ Retext(row, t) \in ItemRow
           /\ MarkFailed(row) \in ItemRow
           /\ GoneRow \in ItemRow
  BY DEF ItemRow, OptText, PendingRow, Retext, MarkFailed, GoneRow

LEMMA StoreType ==
    ASSUME NEW row \in ItemRow, NEW t \in OptText
    PROVE  StoreVector(row, t) \in ItemRow
  BY DEF ItemRow, StoreVector

LEMMA JobWrites ==
    ASSUME NEW row \in JobRow, NEW s \in {"processing", "done"}
    PROVE  /\ NoJob \in JobRow /\ AttemptsOK(NoJob)
           /\ Enqueued(row) \in JobRow
           /\ SetStatus(row, s) \in JobRow
           /\ AttemptsOK(row) => AttemptsOK(Enqueued(row)) /\ AttemptsOK(SetStatus(row, s))
  BY PipelineAssumption DEF JobRow, NoJob, Enqueued, SetStatus, AttemptsOK

LEMMA AttemptWrites ==
    ASSUME NEW row \in JobRow, AttemptsOK(row), NEW e \in Entry
    PROVE  /\ LastAttempt(e) => /\ Exhausted(row, NextAttempts(e)) \in JobRow
                                /\ AttemptsOK(Exhausted(row, NextAttempts(e)))
           /\ ~LastAttempt(e) => /\ Requeued(row, NextAttempts(e)) \in JobRow
                                 /\ AttemptsOK(Requeued(row, NextAttempts(e)))
  <1>1. /\ NextAttempts(e) \in 0 .. MaxAttempts
        /\ LastAttempt(e) => NextAttempts(e) = MaxAttempts
        /\ ~LastAttempt(e) => NextAttempts(e) < MaxAttempts
    BY PipelineAssumption DEF Entry, NextAttempts, LastAttempt
  <1> QED
    BY <1>1 DEF JobRow, Exhausted, Requeued, AttemptsOK

(* Writing one row of the jobs table keeps the table's invariant.           *)
LEMMA JobWritten ==
    ASSUME TypeInv, NEW i \in Items, NEW row \in JobRow, AttemptsOK(row),
           job' = [job EXCEPT ![i] = row]
    PROVE  job' \in [Items -> JobRow] /\ AttemptsBounded'
  <1>1. \A k \in Items : AttemptsOK(job'[k])
    BY AttemptsOfRows DEF TypeInv, TypeOK
  <1> QED
    BY <1>1 DEF TypeInv, TypeOK, AttemptsBounded, AttemptsOK

LEMMA IdleTypes ==
    /\ NoRow \in ItemRow
    /\ NoJob \in JobRow
    /\ IdleRequest \in RequestState
    /\ IdleWorker \in WorkerState
    /\ Idling(IdleWorker)
    /\ IdleWorker.cur = NoEntry
  BY PipelineAssumption
  DEF ItemRow, JobRow, RequestState, WorkerState, OptText, NoRow, NoJob,
      IdleRequest, IdleWorker, Idling

LEMMA NextJobType ==
    ASSUME NEW s \in WorkerState
    PROVE  /\ NextJob(s) \in WorkerState
           /\ Idling(NextJob(s))
           /\ NextJob(s).cur = NoEntry
  BY DEF WorkerState, NextJob, IdleWorker, OptText, Idling

LEMMA FaultType ==
    ASSUME faults \in 0 .. MaxFaults, NEW k, Fault(k)
    PROVE  faults' \in 0 .. MaxFaults
  BY PipelineAssumption DEF Fault

LEMMA CallType ==
    ASSUME faults \in 0 .. MaxFaults, NEW o, Call(o)
    PROVE  faults' \in 0 .. MaxFaults
  BY FaultType DEF Call

(* A worker's memory is replaced, or only its program counter moves.        *)
LEMMA WorkerMoves ==
    ASSUME TypeInv, NEW w \in Workers, NEW s \in WorkerState,
           s.cur = NoEntry <=> Idling(s),
           wrk' = [wrk EXCEPT ![w] = s]
    PROVE  wrk' \in [Workers -> WorkerState] /\ CurOK'
  BY DEF TypeInv, TypeOK, CurOK

LEMMA WorkerGoes ==
    ASSUME TypeInv, NEW w \in Workers, ~Idling(wrk[w]),
           NEW pc \in {"read", "embed", "store", "complete", "recover", "giveUp"},
           wrk' = [wrk EXCEPT ![w].pc = pc]
    PROVE  wrk' \in [Workers -> WorkerState] /\ CurOK'
  BY DEF TypeInv, TypeOK, CurOK, WorkerState, Idling

(* What a worker that is on a job holds.                                    *)
LEMMA WorkerOnJob ==
    ASSUME TypeInv, NEW w \in Workers, ~Idling(wrk[w])
    PROVE  /\ wrk[w] \in WorkerState
           /\ wrk[w].text \in OptText
           /\ wrk[w].cur \in Entry
           /\ wrk[w].cur.item \in Items
           /\ item[wrk[w].cur.item] \in ItemRow
           /\ job[wrk[w].cur.item] \in JobRow
  BY DEF TypeInv, TypeOK, CurOK, WorkerState, Entry

-----------------------------------------------------------------------------
LEMMA TypeInit == Init => TypeInv
  BY IdleTypes, PipelineAssumption
  DEF Init, TypeInv, TypeOK, CurOK, AttemptsBounded, NoJob

LEMMA AddSingleType == ASSUME TypeInv, NEW r \in Requests, AddSingle(r) PROVE TypeInv'
  <1>1. PICK i \in Items, v \in Versions, o \in Outcomes :
          /\ Call(o)
          /\ item' = IF Took(o) THEN [item EXCEPT ![i] = PendingRow(<<i, v>>)] ELSE item
          /\ req' = IF Raised(o) THEN req
                    ELSE [req EXCEPT ![r] =
                              [pc |-> "embed", items |-> {i}, text |-> <<i, v>>]]
          /\ dropped' = IF o = "lost" THEN dropped \cup {i} ELSE dropped
          /\ UNCHANGED <<job, wrk>>
    BY DEF AddSingle
  <1>2. <<i, v>> \in Texts
    BY DEF Texts
  <1>3. PendingRow(<<i, v>>) \in ItemRow
    BY <1>2, ItemWrites, IdleTypes
  <1> QED
    BY <1>1, <1>2, <1>3, CallType
    DEF TypeInv, TypeOK, CurOK, AttemptsBounded, RequestState, OptText

LEMMA AddBulkType == ASSUME TypeInv, NEW r \in Requests, AddBulk(r) PROVE TypeInv'
  <1>1. PICK S \in SUBSET Items, o \in Outcomes : \E f \in [S -> Versions] :
          /\ Call(o)
          /\ item' = IF Took(o)
                     THEN [i \in Items |->
                              IF i \in S THEN PendingRow(<<i, f[i]>>) ELSE item[i]]
                     ELSE item
          /\ req' = IF Raised(o) THEN req
                    ELSE [req EXCEPT ![r] =
                              [pc |-> "enqueue", items |-> S, text |-> NoText]]
          /\ dropped' = IF o = "lost" THEN dropped \cup S ELSE dropped
          /\ UNCHANGED <<job, wrk>>
    BY DEF AddBulk
  <1>2. item' \in [Items -> ItemRow]
    BY <1>1, ItemWrites DEF TypeInv, TypeOK, Texts
  <1> QED
    BY <1>1, <1>2, CallType
    DEF TypeInv, TypeOK, CurOK, AttemptsBounded, RequestState, OptText

LEMMA UpdateType == ASSUME TypeInv, NEW r \in Requests, Update(r) PROVE TypeInv'
  <1>1. PICK i \in Items, v \in Versions, o \in Outcomes :
          /\ Call(o)
          /\ item' = IF Took(o) THEN [item EXCEPT ![i] = Retext(item[i], <<i, v>>)]
                    ELSE item
          /\ req' = IF Raised(o) THEN req
                    ELSE [req EXCEPT ![r] =
                              [pc |-> "embed", items |-> {i}, text |-> <<i, v>>]]
          /\ UNCHANGED <<job, wrk, dropped>>
    BY DEF Update
  <1>2. <<i, v>> \in Texts
    BY DEF Texts
  <1>3. Retext(item[i], <<i, v>>) \in ItemRow
    BY <1>2, ItemWrites DEF TypeInv, TypeOK
  <1> QED
    BY <1>1, <1>2, <1>3, CallType
    DEF TypeInv, TypeOK, CurOK, AttemptsBounded, RequestState, OptText

LEMMA DeleteType == ASSUME TypeInv, NEW r \in Requests, Delete(r) PROVE TypeInv'
  <1>1. PICK i \in Items : /\ item' = [item EXCEPT ![i] = GoneRow]
                           /\ job' = [job EXCEPT ![i] = NoJob]
                           /\ UNCHANGED <<req, wrk, dropped, faults>>
    BY DEF Delete
  <1>2. GoneRow \in ItemRow
    BY DEF GoneRow, ItemRow, OptText
  <1>3. job' \in [Items -> JobRow] /\ AttemptsBounded'
    BY <1>1, IdleTypes, JobWritten, PipelineAssumption DEF AttemptsOK, NoJob
  <1> QED
    BY <1>1, <1>2, <1>3 DEF TypeInv, TypeOK, CurOK

LEMMA InlineEmbedType == ASSUME TypeInv, NEW r \in Requests, InlineEmbed(r) PROVE TypeInv'
  BY DEF InlineEmbed, TypeInv, TypeOK, CurOK, AttemptsBounded, RequestState

LEMMA InlineStoreType == ASSUME TypeInv, NEW r \in Requests, InlineStore(r) PROVE TypeInv'
  BY CallType, StoreType, IdleTypes
  DEF InlineStore, TypeInv, TypeOK, CurOK, AttemptsBounded, RequestState

LEMMA EnqueueType == ASSUME TypeInv, NEW r \in Requests, Enqueue(r) PROVE TypeInv'
  <1>1. job' \in [Items -> JobRow] /\ AttemptsBounded'
    <2>1. \A i \in Items : job'[i] \in {job[i], Enqueued(job[i])}
      BY DEF Enqueue, TypeInv, TypeOK
    <2>2. \A i \in Items : job'[i] \in JobRow /\ AttemptsOK(job'[i])
      BY <2>1, JobWrites, AttemptsOfRows DEF TypeInv, TypeOK
    <2>3. job' = [i \in Items |-> job'[i]]
      BY DEF Enqueue, TypeInv, TypeOK
    <2> QED
      BY <2>2, <2>3 DEF AttemptsBounded, AttemptsOK
  <1> QED
    BY <1>1, CallType, IdleTypes DEF Enqueue, TypeInv, TypeOK, CurOK, RequestState

LEMMA RequestCrashType == ASSUME TypeInv, NEW r \in Requests, RequestCrash(r) PROVE TypeInv'
  BY FaultType, IdleTypes
  DEF RequestCrash, TypeInv, TypeOK, CurOK, AttemptsBounded, RequestState

LEMMA FetchType == ASSUME TypeInv, NEW w \in Workers, Fetch(w) PROVE TypeInv'
  <1>1. PICK S \in SUBSET Due :
          wrk' = [wrk EXCEPT ![w] =
                    [IdleWorker EXCEPT
                        !.pc = "claim",
                        !.batch = {[item |-> i, attempts |-> job[i].attempts] : i \in S}]]
    BY DEF Fetch
  <1> DEFINE B == {[item |-> i, attempts |-> job[i].attempts] : i \in S}
             s == [IdleWorker EXCEPT !.pc = "claim", !.batch = B]
  <1>2. \A i \in S : i \in Items /\ job[i].attempts \in 0 .. MaxAttempts - 1
    BY PipelineAssumption DEF Due, TypeInv, TypeOK, AttemptsBounded, JobRow
  <1>3. B \subseteq Entry
    BY <1>2 DEF Entry
  <1>4. s \in WorkerState /\ s.cur = NoEntry /\ Idling(s)
    BY <1>3 DEF WorkerState, IdleWorker, OptText, Idling
  <1>5. wrk' \in [Workers -> WorkerState] /\ CurOK'
    BY <1>1, <1>4, WorkerMoves
  <1> QED
    BY <1>5 DEF Fetch, TypeInv, TypeOK, AttemptsBounded

LEMMA ClaimType == ASSUME TypeInv, NEW w \in Workers, Claim(w) PROVE TypeInv'
  <1>1. PICK e \in wrk[w].batch, o \in Outcomes :
          /\ Call(o)
          /\ job' = IF Took(o)
                    THEN [job EXCEPT ![e.item] = SetStatus(job[e.item], "processing")]
                    ELSE job
          /\ wrk' = [wrk EXCEPT ![w] =
                        [pc |-> IF Raised(o) THEN "recover" ELSE "read",
                         batch |-> wrk[w].batch \ {e}, cur |-> e, text |-> NoText]]
          /\ UNCHANGED <<item, req, dropped>>
    BY DEF Claim
  <1>2. e \in Entry /\ e.item \in Items /\ e # NoEntry
    BY PipelineAssumption DEF TypeInv, TypeOK, WorkerState, Entry
  <1>3. job' \in [Items -> JobRow] /\ AttemptsBounded'
    BY <1>1, <1>2, JobWrites, JobWritten, AttemptsOfRows
    DEF TypeInv, TypeOK, AttemptsBounded
  <1> DEFINE s == [pc |-> IF Raised(o) THEN "recover" ELSE "read",
                   batch |-> wrk[w].batch \ {e}, cur |-> e, text |-> NoText]
  <1>4. s \in WorkerState /\ s.cur # NoEntry /\ ~Idling(s)
    BY <1>2 DEF TypeInv, TypeOK, WorkerState, OptText, Idling
  <1>5. wrk' \in [Workers -> WorkerState] /\ CurOK'
    BY <1>1, <1>4, WorkerMoves
  <1> QED
    BY <1>1, <1>3, <1>5, CallType DEF TypeInv, TypeOK

LEMMA ReadItemType == ASSUME TypeInv, NEW w \in Workers, ReadItem(w) PROVE TypeInv'
  <1> DEFINE i == wrk[w].cur.item
             s == [wrk[w] EXCEPT !.pc = "embed", !.text = item[i].text]
  <1>1. ~Idling(wrk[w])
    BY DEF ReadItem, Idling
  <1>2. s \in WorkerState /\ s.cur # NoEntry /\ ~Idling(s)
    BY <1>1, WorkerOnJob DEF TypeInv, CurOK, WorkerState, ItemRow, Idling
  <1>3. \/ wrk' = [wrk EXCEPT ![w].pc = "recover"]
        \/ wrk' = [wrk EXCEPT ![w] = s]
    BY DEF ReadItem
  <1>4. wrk' \in [Workers -> WorkerState] /\ CurOK'
    <2>1. CASE wrk' = [wrk EXCEPT ![w].pc = "recover"]
      BY <1>1, <2>1, WorkerGoes
    <2>2. CASE wrk' = [wrk EXCEPT ![w] = s]
      BY <1>2, <2>2, WorkerMoves
    <2> QED
      BY <1>3, <2>1, <2>2
  <1> QED
    BY <1>4, CallType DEF ReadItem, TypeInv, TypeOK, AttemptsBounded

LEMMA WorkerEmbedType == ASSUME TypeInv, NEW w \in Workers, WorkerEmbed(w) PROVE TypeInv'
  <1>1. wrk' \in [Workers -> WorkerState] /\ CurOK'
    BY WorkerGoes DEF WorkerEmbed, Goto, Idling
  <1> QED
    BY <1>1 DEF WorkerEmbed, TypeInv, TypeOK, AttemptsBounded

LEMMA WorkerStoreType == ASSUME TypeInv, NEW w \in Workers, WorkerStore(w) PROVE TypeInv'
  <1>1. ~Idling(wrk[w])
    BY DEF WorkerStore, Idling
  <1>2. wrk' \in [Workers -> WorkerState] /\ CurOK'
    BY <1>1, WorkerGoes DEF WorkerStore, Proceed, Goto
  <1>3. item' \in [Items -> ItemRow]
    BY <1>1, WorkerOnJob, StoreType DEF WorkerStore, TypeInv, TypeOK
  <1> QED
    BY <1>2, <1>3, CallType DEF WorkerStore, TypeInv, TypeOK, AttemptsBounded

(* The steps that end a job: the worker takes the next one, or stops.       *)
LEMMA WorkerLeaves ==
    ASSUME TypeInv, NEW w \in Workers,
           \/ wrk' = [wrk EXCEPT ![w] = IdleWorker]
           \/ wrk' = [wrk EXCEPT ![w] = NextJob(wrk[w])]
    PROVE  wrk' \in [Workers -> WorkerState] /\ CurOK'
  <1>1. wrk[w] \in WorkerState
    BY DEF TypeInv, TypeOK
  <1> QED
    BY <1>1, IdleTypes, NextJobType, WorkerMoves

LEMMA CompleteType == ASSUME TypeInv, NEW w \in Workers, Complete(w) PROVE TypeInv'
  <1>1. ~Idling(wrk[w])
    BY DEF Complete, Idling
  <1>2. wrk' \in [Workers -> WorkerState] /\ CurOK'
    BY <1>1, WorkerGoes, WorkerLeaves DEF Complete
  <1>3. job' \in [Items -> JobRow] /\ AttemptsBounded'
    <2> DEFINE i == wrk[w].cur.item
               row == SetStatus(job[i], "done")
    <2>1. i \in Items /\ job[i] \in JobRow /\ AttemptsOK(job[i])
      BY <1>1, WorkerOnJob, AttemptsOfRows DEF TypeInv, TypeOK
    <2>2. row \in JobRow /\ AttemptsOK(row)
      BY <2>1, JobWrites
    <2>3. job' = [job EXCEPT ![i] = row] \/ job' = job
      BY DEF Complete
    <2> QED
      BY <2>1, <2>2, <2>3, JobWritten DEF TypeInv, TypeOK, AttemptsBounded
  <1> QED
    BY <1>2, <1>3, CallType DEF Complete, TypeInv, TypeOK

LEMMA ExhaustType == ASSUME TypeInv, NEW w \in Workers, Exhaust(w) PROVE TypeInv'
  <1>1. ~Idling(wrk[w])
    BY DEF Exhaust, Idling
  <1>2. wrk' \in [Workers -> WorkerState] /\ CurOK'
    BY <1>1, WorkerGoes, WorkerLeaves DEF Exhaust
  <1>3. job' \in [Items -> JobRow] /\ AttemptsBounded'
    <2> DEFINE e == wrk[w].cur
               row == Exhausted(job[e.item], NextAttempts(e))
    <2>1. e.item \in Items /\ row \in JobRow /\ AttemptsOK(row)
      BY <1>1, WorkerOnJob, AttemptWrites, AttemptsOfRows DEF Exhaust, TypeInv
    <2>2. job' = [job EXCEPT ![e.item] = row] \/ job' = job
      BY DEF Exhaust
    <2> QED
      BY <2>1, <2>2, JobWritten DEF TypeInv, TypeOK, AttemptsBounded
  <1> QED
    BY <1>1, <1>2, <1>3, CallType, WorkerOnJob DEF Exhaust, TypeInv, TypeOK

LEMMA GiveUpType == ASSUME TypeInv, NEW w \in Workers, GiveUp(w) PROVE TypeInv'
  <1>1. ~Idling(wrk[w])
    BY DEF GiveUp, Idling
  <1>2. wrk' \in [Workers -> WorkerState] /\ CurOK'
    BY WorkerLeaves DEF GiveUp
  <1>3. item' \in [Items -> ItemRow]
    <2>1. MarkFailed(item[wrk[w].cur.item]) \in ItemRow
      BY <1>1, WorkerOnJob DEF MarkFailed, ItemRow
    <2> QED
      BY <2>1 DEF GiveUp, TypeInv, TypeOK
  <1> QED
    BY <1>1, <1>2, <1>3, CallType, WorkerOnJob
    DEF GiveUp, Abandon, TypeInv, TypeOK, AttemptsBounded

LEMMA RetryType == ASSUME TypeInv, NEW w \in Workers, Retry(w) PROVE TypeInv'
  <1>1. ~Idling(wrk[w])
    BY DEF Retry, Idling
  <1>2. wrk' \in [Workers -> WorkerState] /\ CurOK'
    BY WorkerLeaves DEF Retry
  <1>3. job' \in [Items -> JobRow] /\ AttemptsBounded'
    <2> DEFINE e == wrk[w].cur
               row == Requeued(job[e.item], NextAttempts(e))
    <2>1. e.item \in Items /\ row \in JobRow /\ AttemptsOK(row)
      BY <1>1, WorkerOnJob, AttemptWrites, AttemptsOfRows DEF Retry, TypeInv
    <2>2. job' = [job EXCEPT ![e.item] = row] \/ job' = job
      BY DEF Retry
    <2> QED
      BY <2>1, <2>2, JobWritten DEF TypeInv, TypeOK, AttemptsBounded
  <1> QED
    BY <1>1, <1>2, <1>3, CallType, WorkerOnJob DEF Retry, Abandon, TypeInv, TypeOK

LEMMA WorkerCrashType == ASSUME TypeInv, NEW w \in Workers, WorkerCrash(w) PROVE TypeInv'
  <1>1. wrk' \in [Workers -> WorkerState] /\ CurOK'
    BY WorkerLeaves DEF WorkerCrash
  <1>2. dropped' \in SUBSET Items
    BY DEF WorkerCrash, TypeInv, TypeOK, WorkerState, Entry
  <1> QED
    BY <1>1, <1>2, FaultType DEF WorkerCrash, TypeInv, TypeOK, AttemptsBounded

LEMMA BackoffType == ASSUME TypeInv, NEW i \in Items, BackoffElapses(i) PROVE TypeInv'
  <1> DEFINE row == [job[i] EXCEPT !.due = TRUE]
  <1>1. row \in JobRow /\ AttemptsOK(row)
    BY AttemptsOfRows DEF TypeInv, TypeOK, JobRow, AttemptsOK
  <1>2. job' \in [Items -> JobRow] /\ AttemptsBounded'
    BY <1>1, JobWritten DEF BackoffElapses
  <1> QED
    BY <1>2 DEF BackoffElapses, TypeInv, TypeOK, CurOK

(* Every step keeps the types and the attempts in their bounds.             *)
LEMMA TypeStep == TypeInv /\ [Next]_vars => TypeInv'
  <1> SUFFICES ASSUME TypeInv, [Next]_vars PROVE TypeInv'
    OBVIOUS
  <1>1. ASSUME NEW r \in Requests,
               AddSingle(r) \/ AddBulk(r) \/ Update(r) \/ Delete(r)
        PROVE  TypeInv'
    BY <1>1, AddSingleType, AddBulkType, UpdateType, DeleteType
  <1>2. ASSUME NEW r \in Requests, RequestStep(r) \/ RequestCrash(r)
        PROVE  TypeInv'
    BY <1>2, InlineEmbedType, InlineStoreType, EnqueueType, RequestCrashType
    DEF RequestStep
  <1>3. ASSUME NEW w \in Workers, Fetch(w) \/ WorkerStep(w) \/ WorkerCrash(w)
        PROVE  TypeInv'
    BY <1>3, FetchType, ClaimType, ReadItemType, WorkerEmbedType, WorkerStoreType,
       CompleteType, ExhaustType, GiveUpType, RetryType, WorkerCrashType
    DEF WorkerStep
  <1>4. ASSUME NEW i \in Items, BackoffElapses(i) PROVE TypeInv'
    BY <1>4, BackoffType
  <1>5. CASE UNCHANGED vars
    BY <1>5 DEF vars, TypeInv, TypeOK, CurOK, AttemptsBounded
  <1> QED
    BY <1>1, <1>2, <1>3, <1>4, <1>5 DEF Next

(* The tables and the processes' memory keep their types, and a worker's    *)
(* memory names a job exactly while it works on one.                        *)
THEOREM TypesAndAttempts == Spec => []TypeInv
  BY TypeInit, TypeStep, PTL DEF Spec

(* Every variable keeps its type.                                           *)
THEOREM TypeCorrect == Spec => []TypeOK
  <1>1. TypeInv => TypeOK
    BY DEF TypeInv
  <1> QED
    BY <1>1, TypesAndAttempts, PTL

(* No interleaving of workers puts a job back that has no attempts left or  *)
(* gives one up early.                                                      *)
THEOREM AttemptsStayBounded == Spec => []AttemptsBounded
  <1>1. TypeInv => AttemptsBounded
    BY DEF TypeInv
  <1> QED
    BY <1>1, TypesAndAttempts, PTL

-----------------------------------------------------------------------------
(* The jobs as overlapping workers share them.                              *)

LEMMA HeldIs ==
    ASSUME NEW i \in Items, NEW n
    PROVE  n \in HeldAttempts[i] <=>
               /\ n \in 0 .. MaxAttempts - 1
               /\ \E w \in Workers : [item |-> i, attempts |-> n] \in InHand(w)
  BY DEF HeldAttempts

LEMMA HeldType == HeldAttempts \in [Items -> SUBSET Nat]
  BY PipelineAssumption DEF HeldAttempts

(* A worker that lets go of what it has in hand, or of part of it.          *)
LEMMA HandLetsGo ==
    ASSUME TypeInv, NEW w \in Workers, NEW s,
           wrk' = [wrk EXCEPT ![w] = s],
           s.batch \subseteq InHand(w), s.cur \in InHand(w) \cup {NoEntry}
    PROVE  Queue!LetsGo
  <1>1. ASSUME NEW v \in Workers PROVE InHand(v)' \subseteq InHand(v)
    BY DEF InHand, TypeInv, TypeOK
  <1>2. \A i \in Items : HeldAttempts'[i] \subseteq HeldAttempts[i]
    BY <1>1 DEF HeldAttempts
  <1>3. HeldAttempts' \in [Items -> SUBSET Nat]
    BY PipelineAssumption DEF HeldAttempts
  <1> QED
    BY <1>2, <1>3 DEF Queue!LetsGo

LEMMA HandGoesOn ==
    ASSUME TypeInv, NEW w \in Workers, NEW pc, wrk' = [wrk EXCEPT ![w].pc = pc]
    PROVE  Queue!LetsGo
  <1> DEFINE s == [wrk[w] EXCEPT !.pc = pc]
  <1>1. s.batch = wrk[w].batch /\ s.cur = wrk[w].cur
    BY DEF TypeInv, TypeOK, WorkerState
  <1>2. wrk' = [wrk EXCEPT ![w] = s]
    BY DEF TypeInv, TypeOK
  <1> HIDE DEF s
  <1> QED
    BY <1>1, <1>2, HandLetsGo DEF InHand

LEMMA HandLeaves ==
    ASSUME TypeInv, NEW w \in Workers,
           \/ wrk' = [wrk EXCEPT ![w] = IdleWorker]
           \/ wrk' = [wrk EXCEPT ![w] = NextJob(wrk[w])]
    PROVE  Queue!LetsGo
  <1>1. IdleWorker.batch = {} /\ IdleWorker.cur = NoEntry
    BY DEF IdleWorker
  <1>2. NextJob(wrk[w]).batch = wrk[w].batch /\ NextJob(wrk[w]).cur = NoEntry
    BY DEF NextJob, IdleWorker
  <1> QED
    BY <1>1, <1>2, HandLetsGo DEF InHand

(* What a worker on a job holds of it.                                      *)
LEMMA CurIsHeld ==
    ASSUME TypeInv, NEW w \in Workers, ~Idling(wrk[w])
    PROVE  /\ wrk[w].cur.item \in Items
           /\ wrk[w].cur.attempts \in HeldAttempts[wrk[w].cur.item]
           /\ wrk[w].cur.attempts \in 0 .. MaxAttempts - 1
  <1>1. wrk[w].cur \in Entry /\ wrk[w].cur # NoEntry
    BY WorkerOnJob DEF TypeInv, CurOK
  <1>2. wrk[w].cur = [item |-> wrk[w].cur.item, attempts |-> wrk[w].cur.attempts]
    BY <1>1 DEF Entry
  <1>3. wrk[w].cur \in InHand(w)
    BY <1>1 DEF InHand
  <1> QED
    BY <1>1, <1>2, <1>3, HeldIs DEF Entry

QueueStep == Queue!Next \/ UNCHANGED <<job, HeldAttempts>>

(* The writes of a worker that has the job in hand.                         *)
LEMMA WorkWrites ==
    ASSUME TypeInv, NEW i \in Items, HeldAttempts[i] # {}, NEW s \in {"processing", "done"},
           job' = job \/ job' = [job EXCEPT ![i] = SetStatus(job[i], s)],
           Queue!LetsGo
    PROVE  QueueStep
  <1>1. CASE job' = job
    BY <1>1 DEF QueueStep, Queue!Next
  <1>2. CASE job' = [job EXCEPT ![i] = SetStatus(job[i], s)] /\ job[i].status = "none"
    <2>1. job' = job
      BY <1>2 DEF SetStatus, TypeInv, TypeOK
    <2> QED
      BY <1>1, <2>1
  <1>3. CASE job' = [job EXCEPT ![i] = SetStatus(job[i], s)] /\ job[i].status # "none"
    <2>1. job' = [job EXCEPT ![i] = [job[i] EXCEPT !.status = s]]
      BY <1>3 DEF SetStatus
    <2>2. Queue!Work(i)
      BY <1>3, <2>1 DEF Queue!Work, Queue!Exists, Queue!Become
    <2> QED
      BY <2>2 DEF QueueStep, Queue!Next
  <1> QED
    BY <1>1, <1>2, <1>3

LEMMA FailureWrites ==
    ASSUME TypeInv, NEW w \in Workers, ~Idling(wrk[w]), Queue!LetsGo,
           LET e == wrk[w].cur
           IN  \/ job' = job
               \/ LastAttempt(e)
                  /\ job' = [job EXCEPT ![e.item] = Exhausted(job[e.item], NextAttempts(e))]
               \/ ~LastAttempt(e)
                  /\ job' = [job EXCEPT ![e.item] = Requeued(job[e.item], NextAttempts(e))]
    PROVE  QueueStep
  <1> DEFINE i == wrk[w].cur.item  n == wrk[w].cur.attempts
  <1>1. i \in Items /\ n \in HeldAttempts[i] /\ n \in 0 .. MaxAttempts - 1
    BY CurIsHeld
  <1>2. /\ NextAttempts(wrk[w].cur) = n + 1
        /\ LastAttempt(wrk[w].cur) <=> ~(n + 1 < MaxAttempts)
    BY <1>1, PipelineAssumption DEF NextAttempts, LastAttempt
  <1>3. \/ job' = job
        \/ ~(n + 1 < MaxAttempts) /\ job' = [job EXCEPT ![i] = Exhausted(job[i], n + 1)]
        \/ n + 1 < MaxAttempts /\ job' = [job EXCEPT ![i] = Requeued(job[i], n + 1)]
    BY <1>2
  <1> HIDE DEF i, n
  <1>4. CASE job' = job
    BY <1>4 DEF QueueStep, Queue!Next
  <1>5. CASE job[i].status = "none"
    <2>1. job' = job
      BY <1>1, <1>3, <1>5 DEF Exhausted, Requeued, TypeInv, TypeOK
    <2> QED
      BY <1>4, <2>1
  <1>6. CASE job' # job /\ job[i].status # "none"
    <2>1. job' = [job EXCEPT ![i] =
                     IF n + 1 < MaxAttempts
                     THEN [status |-> "queued", attempts |-> n + 1, due |-> FALSE]
                     ELSE [job[i] EXCEPT !.status = "failed", !.attempts = n + 1]]
      BY <1>3, <1>6 DEF Exhausted, Requeued
    <2>2. Queue!AttemptFails(i)
      BY <1>1, <1>6, <2>1 DEF Queue!AttemptFails, Queue!Exists, Queue!Become
    <2> QED
      BY <1>1, <2>2 DEF QueueStep, Queue!Next
  <1> QED
    BY <1>4, <1>5, <1>6

LEMMA RequestsShare ==
    ASSUME TypeInv, NEW r \in Requests,
           AddSingle(r) \/ AddBulk(r) \/ Update(r) \/ Delete(r)
               \/ RequestStep(r) \/ RequestCrash(r)
    PROVE  QueueStep
  <1>1. UNCHANGED wrk
    BY DEF AddSingle, AddBulk, Update, Delete, RequestStep, InlineEmbed, InlineStore,
           Enqueue, RequestCrash
  <1>2. HeldAttempts' = HeldAttempts
    BY <1>1 DEF HeldAttempts, InHand
  <1>3. CASE Delete(r)
    <2>1. PICK i \in Items : job' = [job EXCEPT ![i] = NoJob]
      BY <1>3 DEF Delete
    <2>2. Queue!ItemDeleted(i)
      BY <1>2, <2>1 DEF Queue!ItemDeleted, Queue!Become, Queue!NoJob, NoJob
    <2> QED
      BY <2>2 DEF QueueStep, Queue!Next
  <1>4. CASE Enqueue(r)
    <2> DEFINE S == {i \in req[r].items : job[i].status = "none"}
               New == [status |-> "queued", attempts |-> 0, due |-> TRUE]
    <2>1. CASE job' = job
      BY <1>2, <2>1 DEF QueueStep
    <2>2. CASE job' = [i \in Items |-> IF i \in req[r].items THEN Enqueued(job[i]) ELSE job[i]]
      <3>1. S \in SUBSET {i \in Items : ~Queue!Exists(i)}
        BY DEF TypeInv, TypeOK, RequestState, Queue!Exists
      <3>2. job' = [i \in Items |-> IF i \in S THEN New ELSE job[i]]
        BY <2>2 DEF Enqueued
      <3>3. Queue!Enqueue
        BY <1>2, <3>1, <3>2 DEF Queue!Enqueue
      <3> QED
        BY <3>3 DEF QueueStep, Queue!Next
    <2> QED
      BY <1>4, <2>1, <2>2 DEF Enqueue
  <1>5. CASE UNCHANGED job
    BY <1>2, <1>5 DEF QueueStep
  <1> QED
    BY <1>3, <1>4, <1>5
    DEF AddSingle, AddBulk, Update, RequestStep, InlineEmbed, InlineStore, RequestCrash

(* A worker that is not invoked has nothing in hand.                        *)
IdleIsEmpty == \A w \in Workers : wrk[w].pc = "idle" => wrk[w] = IdleWorker

LEMMA IdleStaysEmpty == TypeInv /\ IdleIsEmpty /\ [Next]_vars => IdleIsEmpty'
  <1> SUFFICES ASSUME TypeInv, IdleIsEmpty, [Next]_vars, NEW w \in Workers
               PROVE  wrk'[w] = wrk[w] \/ wrk'[w] = IdleWorker \/ wrk'[w].pc # "idle"
    BY DEF IdleIsEmpty
  <1> USE DEF TypeInv, TypeOK, WorkerState
  <1>0. NextJob(wrk[w]) = IdleWorker \/ NextJob(wrk[w]).pc # "idle"
    BY DEF NextJob, IdleWorker
  <1>1. ASSUME NEW v \in Workers, Fetch(v) PROVE wrk'[w] = wrk[w] \/ wrk'[w].pc # "idle"
    BY <1>1 DEF Fetch, IdleWorker
  <1>2. ASSUME NEW v \in Workers, Claim(v) \/ ReadItem(v) \/ WorkerEmbed(v) \/ WorkerStore(v)
        PROVE  wrk'[w] = wrk[w] \/ wrk'[w].pc # "idle"
    BY <1>2 DEF Claim, ReadItem, WorkerEmbed, WorkerStore, Proceed, Goto
  <1>3. ASSUME NEW v \in Workers, Complete(v) \/ Exhaust(v)
        PROVE  wrk'[w] = wrk[w] \/ wrk'[w] = IdleWorker \/ wrk'[w].pc # "idle"
    BY <1>0, <1>3 DEF Complete, Exhaust
  <1>4. ASSUME NEW v \in Workers, GiveUp(v) \/ Retry(v) \/ WorkerCrash(v)
        PROVE  wrk'[w] = wrk[w] \/ wrk'[w] = IdleWorker \/ wrk'[w].pc # "idle"
    BY <1>0, <1>4 DEF GiveUp, Retry, WorkerCrash
  <1>5. ASSUME UNCHANGED wrk PROVE wrk'[w] = wrk[w]
    BY <1>5
  <1> QED
    BY <1>1, <1>2, <1>3, <1>4, <1>5
    DEF Next, WorkerStep, RequestStep, AddSingle, AddBulk, Update, Delete, InlineEmbed,
        InlineStore, Enqueue, RequestCrash, BackoffElapses, vars

LEMMA FetchShares == ASSUME TypeInv, IdleIsEmpty, NEW w \in Workers, Fetch(w) PROVE QueueStep
  <1>1. PICK S \in SUBSET Due :
          wrk' = [wrk EXCEPT ![w] =
                    [IdleWorker EXCEPT
                        !.pc = "claim",
                        !.batch = {[item |-> i, attempts |-> job[i].attempts] : i \in S}]]
    BY DEF Fetch
  <1>2. wrk[w] = IdleWorker /\ UNCHANGED job
    BY DEF Fetch, IdleIsEmpty
  <1> DEFINE B == {[item |-> i, attempts |-> job[i].attempts] : i \in S}
  <1>3. InHand(w) = {} /\ InHand(w)' = B /\ \A v \in Workers \ {w} : InHand(v)' = InHand(v)
    BY <1>1, <1>2 DEF InHand, IdleWorker, TypeInv, TypeOK
  <1>4. \A i \in S : i \in Items /\ job[i].status = "queued" /\ job[i].due
                     /\ job[i].attempts \in 0 .. MaxAttempts - 1
    BY PipelineAssumption DEF Due, TypeInv, TypeOK, AttemptsBounded, JobRow
  <1>5. ASSUME NEW i \in Items, NEW n \in 0 .. MaxAttempts - 1
        PROVE  [item |-> i, attempts |-> n] \in B <=> i \in S /\ n = job[i].attempts
    OBVIOUS
  <1> HIDE DEF B
  <1>6. ASSUME NEW i \in Items
        PROVE  HeldAttempts'[i] = IF i \in S THEN HeldAttempts[i] \cup {job[i].attempts}
                                  ELSE HeldAttempts[i]
    <2> DEFINE e(n) == [item |-> i, attempts |-> n]
    <2>1. \A n \in 0 .. MaxAttempts - 1 :
             (\E v \in Workers : e(n) \in InHand(v)')
                 <=> (\E v \in Workers : e(n) \in InHand(v)) \/ (i \in S /\ n = job[i].attempts)
      BY <1>3, <1>5
    <2> QED
      BY <1>4, <2>1 DEF HeldAttempts
  <1>7. HeldAttempts' = [i \in Items |-> IF i \in S THEN HeldAttempts[i] \cup {job[i].attempts}
                                        ELSE HeldAttempts[i]]
    BY <1>6 DEF HeldAttempts
  <1>8. S \in SUBSET {i \in Items : job[i].status = "queued" /\ job[i].due}
    BY <1>4
  <1>9. Queue!HandOut
    BY <1>2, <1>7, <1>8 DEF Queue!HandOut
  <1> QED
    BY <1>9 DEF QueueStep, Queue!Next

LEMMA WorkersShare ==
    ASSUME TypeInv, NEW w \in Workers, WorkerStep(w) \/ WorkerCrash(w)
    PROVE  QueueStep
  <1>1. CASE Claim(w)
    <2>1. PICK e \in wrk[w].batch, o \in Outcomes :
            /\ job' = IF Took(o)
                      THEN [job EXCEPT ![e.item] = SetStatus(job[e.item], "processing")]
                      ELSE job
            /\ wrk' = [wrk EXCEPT ![w] =
                          [pc |-> IF Raised(o) THEN "recover" ELSE "read",
                           batch |-> wrk[w].batch \ {e}, cur |-> e, text |-> NoText]]
      BY <1>1 DEF Claim
    <2>2. e \in InHand(w) /\ wrk[w].batch \ {e} \subseteq InHand(w)
      BY DEF InHand
    <2> DEFINE s == [pc |-> IF Raised(o) THEN "recover" ELSE "read",
                     batch |-> wrk[w].batch \ {e}, cur |-> e, text |-> NoText]
    <2>3. Queue!LetsGo
      <3>1. s.batch = wrk[w].batch \ {e} /\ s.cur = e
        OBVIOUS
      <3>2. wrk' = [wrk EXCEPT ![w] = s]
        BY <2>1
      <3> HIDE DEF s
      <3>3. s.batch \cup (IF s.cur = NoEntry THEN {} ELSE {s.cur}) \subseteq InHand(w)
        BY <2>2, <3>1
      <3> QED
        BY <3>2, <3>3, HandLetsGo
    <2>4. e \in Entry /\ e = [item |-> e.item, attempts |-> e.attempts]
      BY DEF TypeInv, TypeOK, WorkerState, Entry
    <2>5. e.item \in Items /\ HeldAttempts[e.item] # {}
      BY <2>2, <2>4, HeldIs DEF Entry
    <2> QED
      BY <2>1, <2>3, <2>5, WorkWrites
  <1>2. CASE ReadItem(w)
    <2> DEFINE s == [wrk[w] EXCEPT !.pc = "embed", !.text = item[wrk[w].cur.item].text]
    <2>1. UNCHANGED job /\ (wrk' = [wrk EXCEPT ![w].pc = "recover"] \/ wrk' = [wrk EXCEPT ![w] = s])
      BY <1>2 DEF ReadItem
    <2>2. s.batch = wrk[w].batch /\ s.cur = wrk[w].cur
      BY DEF TypeInv, TypeOK, WorkerState
    <2> HIDE DEF s
    <2>3. Queue!LetsGo
      BY <2>1, <2>2, HandLetsGo, HandGoesOn DEF InHand
    <2> QED
      BY <2>1, <2>3 DEF QueueStep, Queue!Next
  <1>3. CASE WorkerEmbed(w) \/ WorkerStore(w)
    <2>1. UNCHANGED job /\ \E pc : wrk' = [wrk EXCEPT ![w].pc = pc]
      BY <1>3 DEF WorkerEmbed, WorkerStore, Proceed, Goto
    <2>2. Queue!LetsGo
      BY <2>1, HandGoesOn
    <2> QED
      BY <2>1, <2>2 DEF QueueStep, Queue!Next
  <1>4. CASE Complete(w)
    <2>1. ~Idling(wrk[w])
      BY <1>4 DEF Complete, Idling
    <2>2. Queue!LetsGo
      BY <1>4, HandGoesOn, HandLeaves DEF Complete
    <2>3. job' = job
          \/ job' = [job EXCEPT ![wrk[w].cur.item] = SetStatus(job[wrk[w].cur.item], "done")]
      BY <1>4 DEF Complete
    <2>4. wrk[w].cur.item \in Items /\ HeldAttempts[wrk[w].cur.item] # {}
      BY <2>1, CurIsHeld
    <2> QED
      BY <2>2, <2>3, <2>4, WorkWrites
  <1>5. CASE Exhaust(w) \/ Retry(w)
    <2>1. ~Idling(wrk[w])
      BY <1>5 DEF Exhaust, Retry, Idling
    <2>2. Queue!LetsGo
      BY <1>5, HandGoesOn, HandLeaves DEF Exhaust, Retry
    <2> QED
      BY <1>5, <2>1, <2>2, FailureWrites DEF Exhaust, Retry
  <1>6. CASE GiveUp(w) \/ WorkerCrash(w)
    <2>1. UNCHANGED job /\ Queue!LetsGo
      BY <1>6, HandLeaves DEF GiveUp, WorkerCrash
    <2> QED
      BY <2>1 DEF QueueStep, Queue!Next
  <1> QED
    BY <1>1, <1>2, <1>3, <1>4, <1>5, <1>6 DEF WorkerStep

LEMMA BackoffShares == ASSUME TypeInv, NEW i \in Items, BackoffElapses(i) PROVE QueueStep
  <1>1. HeldAttempts' = HeldAttempts
    BY DEF BackoffElapses, HeldAttempts, InHand
  <1>2. job' = [job EXCEPT ![i] = [job[i] EXCEPT !.due = TRUE]] /\ job[i].status = "queued"
    BY DEF BackoffElapses, TypeInv, TypeOK
  <1>3. Queue!BackoffElapses(i)
    BY <1>1, <1>2 DEF Queue!BackoffElapses, Queue!Become
  <1> QED
    BY <1>3 DEF QueueStep, Queue!Next

(* However workers overlap, crash, lose responses or write late, the job    *)
(* table is one that SharedQueue allows: nobody writes a job that was not   *)
(* handed to him, nor anything but what follows from what he was handed.    *)
THEOREM TheQueueIsShared == Spec => JobsAreShared
  <1>1. Init => IdleIsEmpty /\ Queue!Init
    BY DEF Init, IdleIsEmpty, Queue!Init, Queue!NoJob, NoJob, HeldAttempts, InHand, IdleWorker
  <1>2. TypeInv /\ IdleIsEmpty /\ [Next]_vars => [Queue!Next]_<<job, HeldAttempts>>
    <2> SUFFICES ASSUME TypeInv, IdleIsEmpty, [Next]_vars PROVE QueueStep
      BY DEF QueueStep
    <2>1. ASSUME NEW r \in Requests,
                 AddSingle(r) \/ AddBulk(r) \/ Update(r) \/ Delete(r)
                     \/ RequestStep(r) \/ RequestCrash(r)
          PROVE  QueueStep
      BY <2>1, RequestsShare
    <2>2. ASSUME NEW w \in Workers, Fetch(w) \/ WorkerStep(w) \/ WorkerCrash(w)
          PROVE  QueueStep
      BY <2>2, FetchShares, WorkersShare
    <2>3. ASSUME NEW i \in Items, BackoffElapses(i) PROVE QueueStep
      BY <2>3, BackoffShares
    <2>4. CASE UNCHANGED vars
      BY <2>4 DEF vars, QueueStep, HeldAttempts, InHand
    <2> QED
      BY <2>1, <2>2, <2>3, <2>4 DEF Next
  <1> QED
    BY <1>1, <1>2, IdleStaysEmpty, TypesAndAttempts, PTL DEF Spec, JobsAreShared, Queue!Spec

-----------------------------------------------------------------------------
(* The promise about retries, of the shared queue and hence of the pipeline.*)
RetriesGoOn == \A i \in Items, n \in 0 .. MaxAttempts :
    Queue!Exists(i) /\ Queue!Past(i, n) => Queue!Past(i, n)'

LEMMA QueueAdvances ==
    ASSUME TypeInv, Queue!Next
    PROVE  RetriesGoOn
  <1> SUFFICES ASSUME NEW i \in Items, NEW n \in 0 .. MaxAttempts, job[i].status # "none",
                      NEW m \in 0 .. n, Queue!Open(i, m)'
               PROVE  \E l \in 0 .. n : Queue!Open(i, l)
    BY DEF RetriesGoOn, Queue!Exists, Queue!Past
  <1> USE DEF Queue!Open
  <1>1. CASE Queue!Enqueue
    BY <1>1 DEF Queue!Enqueue, Queue!Exists
  <1>2. CASE Queue!HandOut
    BY <1>2 DEF Queue!HandOut
  <1>3. CASE Queue!LetsGo /\ UNCHANGED job
    BY <1>3 DEF Queue!LetsGo
  <1>4. ASSUME NEW k \in Items, Queue!Work(k) PROVE Queue!Open(i, m)
    BY <1>4 DEF Queue!Work, Queue!LetsGo, Queue!Become, TypeInv, TypeOK
  <1>5. ASSUME NEW k \in Items, Queue!AttemptFails(k) PROVE \E l \in 0 .. n : Queue!Open(i, l)
    <2>1. CASE m \in HeldAttempts'[i]
      BY <1>5, <2>1 DEF Queue!AttemptFails, Queue!LetsGo
    <2>2. CASE k # i
      BY <1>5, <2>2 DEF Queue!AttemptFails, Queue!LetsGo, Queue!Become, TypeInv, TypeOK
    <2>3. CASE k = i /\ job'[i].status = "queued" /\ job'[i].attempts = m
      <3>1. PICK l \in HeldAttempts[i] :
               job'[i] = IF l + 1 < MaxAttempts
                         THEN [status |-> "queued", attempts |-> l + 1, due |-> FALSE]
                         ELSE [job[i] EXCEPT !.status = "failed", !.attempts = l + 1]
        BY <1>5, <2>3 DEF Queue!AttemptFails, Queue!Become, TypeInv, TypeOK
      <3>2. l \in Nat
        BY HeldType
      <3>3. l + 1 < MaxAttempts
        BY <2>3, <3>1 DEF TypeInv, TypeOK, JobRow
      <3>4. m = l + 1
        BY <2>3, <3>1, <3>3
      <3>5. l \in 0 .. n
        BY <3>2, <3>4, PipelineAssumption
      <3> QED
        BY <3>1, <3>5
    <2> QED
      BY <2>1, <2>2, <2>3
  <1>6. ASSUME NEW k \in Items, Queue!BackoffElapses(k) PROVE Queue!Open(i, m)
    BY <1>6 DEF Queue!BackoffElapses, Queue!Become, TypeInv, TypeOK, JobRow
  <1>7. ASSUME NEW k \in Items, Queue!ItemDeleted(k) PROVE Queue!Open(i, m)
    BY <1>7 DEF Queue!ItemDeleted, Queue!Become, Queue!NoJob, TypeInv, TypeOK
  <1> QED
    BY <1>1, <1>2, <1>3, <1>4, <1>5, <1>6, <1>7 DEF Queue!Next

(* However far overlapping workers put each other's counts back, the least  *)
(* count that anybody may still go on from never falls.                     *)
THEOREM RetriesOnlyAdvance == Spec => RetriesAdvance
  <1>1. TypeInv /\ [Queue!Next]_<<job, HeldAttempts>> => [RetriesGoOn]_<<job, HeldAttempts>>
    BY QueueAdvances
  <1> QED
    BY <1>1, TheQueueIsShared, TypesAndAttempts, PTL
    DEF RetriesAdvance, Queue!RetriesAdvance, RetriesGoOn, JobsAreShared, Queue!Spec
=============================================================================
