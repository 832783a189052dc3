---------------------------- MODULE SharedQueue ----------------------------
(***************************************************************************)
(* What the embedding queue promises about its job rows however many        *)
(* workers share it and whatever fails.  Jobs are handed out, not leased:   *)
(* one may be in several hands at a time.  Whoever has been given a job     *)
(* when it was due, after n failures, may write what follows from n, at any *)
(* later time and whatever has become of the row meanwhile.                 *)
(***************************************************************************)
EXTENDS Naturals

CONSTANTS Items, MaxAttempts

VARIABLES
    job,    \* the job rows
    held    \* the counts of failures with which each job is in somebody's hands

NoJob == [status |-> "none", attempts |-> 0, due |-> TRUE]

Init ==
    /\ job = [i \in Items |-> NoJob]
    /\ held = [i \in Items |-> {}]

Exists(i) == job[i].status # "none"

Become(i, row) == job' = [job EXCEPT ![i] = row]

(* A step may let jobs go: one is finished, or its worker is lost.          *)
LetsGo ==
    /\ held' \in [Items -> SUBSET Nat]
    /\ \A i \in Items : held'[i] \subseteq held[i]

(* A job that exists is left alone.                                         *)
Enqueue == \E S \in SUBSET {i \in Items : ~Exists(i)} :
    /\ job' = [i \in Items |->
                  IF i \in S THEN [status |-> "queued", attempts |-> 0, due |-> TRUE]
                  ELSE job[i]]
    /\ UNCHANGED held

HandOut == \E S \in SUBSET {i \in Items : job[i].status = "queued" /\ job[i].due} :
    /\ held' = [i \in Items |-> IF i \in S THEN held[i] \cup {job[i].attempts} ELSE held[i]]
    /\ UNCHANGED job

Work(i) == \E s \in {"processing", "done"} :
    /\ held[i] # {}
    /\ Exists(i)
    /\ Become(i, [job[i] EXCEPT !.status = s])
    /\ LetsGo

AttemptFails(i) == \E n \in held[i] :
    /\ Exists(i)
    /\ Become(i, IF n + 1 < MaxAttempts
                 THEN [status |-> "queued", attempts |-> n + 1, due |-> FALSE]
                 ELSE [job[i] EXCEPT !.status = "failed", !.attempts = n + 1])
    /\ LetsGo

BackoffElapses(i) ==
    /\ job[i].status = "queued"
    /\ Become(i, [job[i] EXCEPT !.due = TRUE])
    /\ UNCHANGED held

ItemDeleted(i) == Become(i, NoJob) /\ UNCHANGED held

Next ==
    \/ Enqueue \/ HandOut
    \/ LetsGo /\ UNCHANGED job
    \/ \E i \in Items : Work(i) \/ AttemptFails(i) \/ BackoffElapses(i) \/ ItemDeleted(i)

Spec == Init /\ [][Next]_<<job, held>>

-----------------------------------------------------------------------------
(* An attempt after n failures may still be made or is under way.           *)
Open(i, n) ==
    \/ job[i].status = "queued" /\ job[i].attempts = n
    \/ n \in held[i]

(* No attempt with so few failures behind it.                               *)
Past(i, n) == \A m \in 0 .. n : ~Open(i, m)

(* The count in a row may fall back, when a slow worker writes the one it   *)
(* knows.  The least count that anybody may still go on from never does.    *)
RetriesAdvance ==
    [][\A i \in Items, n \in 0 .. MaxAttempts : Exists(i) /\ Past(i, n) => Past(i, n)']_<<job, held>>
=============================================================================
