---------------------------- MODULE JobLifecycle ----------------------------
(***************************************************************************)
(* What the embedding queue promises about a job that no two workers have  *)
(* in hand at a time: it is claimed only while it is queued and its backoff *)
(* is over, each failed attempt counts exactly once, and once it is done or *)
(* failed it is never worked on again.  The jobs are independent of each    *)
(* other, so that the promise can be made of one of them.                   *)
(***************************************************************************)
EXTENDS Naturals

CONSTANTS Items, MaxAttempts

VARIABLE job

NoJob == [status |-> "none", attempts |-> 0, due |-> TRUE]

Become(i, row) == job'[i] = row

Enqueue(i) ==
    /\ job[i].status = "none"
    /\ Become(i, [status |-> "queued", attempts |-> 0, due |-> TRUE])

Claim(i) ==
    /\ job[i].status = "queued"
    /\ job[i].due
    /\ Become(i, [job[i] EXCEPT !.status = "processing"])

Complete(i) ==
    /\ job[i].status = "processing"
    /\ Become(i, [job[i] EXCEPT !.status = "done"])

(* An attempt that fails puts the job back, or gives it up for good.  The   *)
(* claim itself may be what failed, so the job may still be queued.         *)
AttemptFails(i) ==
    /\ \/ job[i].status = "processing"
       \/ job[i].status = "queued" /\ job[i].due
    /\ LET n == job[i].attempts + 1
       IN  IF n < MaxAttempts
           THEN Become(i, [status |-> "queued", attempts |-> n, due |-> FALSE])
           ELSE Become(i, [status |-> "failed", attempts |-> n, due |-> job[i].due])

BackoffElapses(i) ==
    /\ job[i].status = "queued"
    /\ Become(i, [job[i] EXCEPT !.due = TRUE])

ItemDeleted(i) == Become(i, NoJob)

NextOf(i) ==
    \/ Enqueue(i) \/ Claim(i) \/ Complete(i) \/ AttemptFails(i)
    \/ BackoffElapses(i) \/ ItemDeleted(i)

(* One job, and all of them.                                                *)
SpecOf(i) == job[i] = NoJob /\ [][NextOf(i)]_(job[i])

Init == job = [i \in Items |-> NoJob]

Next ==
    /\ DOMAIN job' = Items
    /\ \A i \in Items : NextOf(i) \/ UNCHANGED job[i]

Spec == Init /\ [][Next]_job
=============================================================================
