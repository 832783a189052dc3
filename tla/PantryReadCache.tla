-------------------------- MODULE PantryReadCache --------------------------
(***************************************************************************)
(* The read cache of the pantry lists.  Every server process has its own   *)
(* copies; get_my_items and get_household_pantry fill them, the writes of  *)
(* PantryService drop them after the database has changed.  Filling is     *)
(* three steps - look, load, store - and a write is two or three, so they  *)
(* overlap; the lists also change behind the process's back: through the   *)
(* other processes, and when a user joins or leaves a household, which     *)
(* moves rows inside the database.                                         *)
(*                                                                         *)
(* A list is identified with its version: how often it has changed.        *)
(***************************************************************************)
EXTENDS Naturals, Sequences, FiniteSets

CONSTANTS
    Procs,       \* server processes (serverless instances)
    Owners,      \* users; the key cache_key_my_items(o)
    Households,  \* the key cache_key_household(h)
    Readers,     \* concurrent list requests
    Writers,     \* concurrent add, update and delete requests
    TTL,         \* pantry_read_cache_ttl_seconds, when it is not 0
    MaxLoad,     \* the longest a load takes, all its calls and waits for threads
    MaxTime,     \* bound on the clock
    MaxWrites,   \* bound on how often one list changes
    NoEntry      \* nothing cached

VARIABLES
    now,        \* the clock
    writes,     \* the database: when each list changed
    cache,      \* _entries of each process
    rd,         \* the list requests
    wr,         \* the writing requests
    unseen      \* history: lists with a change that a process could not see

vars == <<now, writes, cache, rd, wr, unseen>>

Keys == Owners \cup Households

ASSUME CacheAssumption ==
    /\ TTL \in Nat \ {0}
    /\ MaxLoad \in Nat
    /\ MaxTime \in Nat
    /\ MaxWrites \in Nat
    /\ NoEntry \notin [stored : Nat, value : Nat]

-----------------------------------------------------------------------------
IdleReader == [pc |-> "idle"]
IdleWriter == [pc |-> "idle", drops |-> {}]

Init ==
    /\ now = 0
    /\ writes = [k \in Keys |-> <<>>]
    /\ cache = [p \in Procs |-> [k \in Keys |-> NoEntry]]
    /\ rd = [r \in Readers |-> IdleReader]
    /\ wr = [w \in Writers |-> IdleWriter]
    /\ unseen = [p \in Procs |-> {}]

Version(k) == Len(writes[k])

Loading(r) == rd[r].pc \in {"load", "store"}

(* Time passes, except while an answer is on its way out and past the time  *)
(* a load may take.                                                         *)
Tick ==
    /\ now < MaxTime
    /\ \A r \in Readers : /\ Loading(r) => now < rd[r].began + MaxLoad
                          /\ rd[r].pc # "answer"
    /\ now' = now + 1
    /\ UNCHANGED <<writes, cache, rd, wr, unseen>>

-----------------------------------------------------------------------------
(* get_or_set_coroutine; the lock is held for a look and for a store, and   *)
(* not for the load between them.                                           *)

FreshOneTickLonger(e) == e # NoEntry /\ now <= e.stored + TTL

Fresh(e) == e # NoEntry /\ now < e.stored + TTL

Look(r) == \E p \in Procs, k \in Keys :
    /\ rd[r].pc = "idle"
    /\ rd' = [rd EXCEPT ![r] =
                 IF Fresh(cache[p][k])
                 THEN [pc |-> "answer", proc |-> p, key |-> k, began |-> now,
                       value |-> cache[p][k].value]
                 ELSE [pc |-> "load", proc |-> p, key |-> k, began |-> now, value |-> 0]]
    /\ UNCHANGED <<now, writes, cache, wr, unseen>>

(* The rows are read.  The household's list goes on to read its members'    *)
(* names, which are not part of what is modelled.                           *)
Load(r) ==
    /\ rd[r].pc = "load"
    /\ rd' = [rd EXCEPT ![r].pc = "store", ![r].value = Version(rd[r].key)]
    /\ UNCHANGED <<now, writes, cache, wr, unseen>>

CachesTheFailure(r) ==
    /\ Loading(r)
    /\ cache' = [cache EXCEPT ![rd[r].proc][rd[r].key] = [stored |-> now, value |-> NoEntry]]
    /\ rd' = [rd EXCEPT ![r] = IdleReader]
    /\ UNCHANGED <<now, writes, wr, unseen>>

(* A failed query leaves the cache as it is; the request answers 502.       *)
LoadFails(r) ==
    /\ Loading(r)
    /\ rd' = [rd EXCEPT ![r] = IdleReader]
    /\ UNCHANGED <<now, writes, cache, wr, unseen>>

Store(r) ==
    /\ rd[r].pc = "store"
    /\ cache' = [cache EXCEPT ![rd[r].proc][rd[r].key] =
                    [stored |-> now, value |-> rd[r].value]]
    /\ rd' = [rd EXCEPT ![r].pc = "answer"]
    /\ UNCHANGED <<now, writes, wr, unseen>>

Answer(r) ==
    /\ rd[r].pc = "answer"
    /\ rd' = [rd EXCEPT ![r] = IdleReader]
    /\ UNCHANGED <<now, writes, cache, wr, unseen>>

-----------------------------------------------------------------------------
(* The writes.  One of them changes the list of the owner and that of the   *)
(* household the row is in.                                                 *)

Change(S) ==
    /\ \A k \in S : Version(k) < MaxWrites
    /\ writes' = [k \in Keys |-> IF k \in S THEN Append(writes[k], now) ELSE writes[k]]

Unseen(P, S) ==
    unseen' = [p \in Procs |-> IF p \in P THEN unseen[p] \cup S ELSE unseen[p]]

DropsOwnersListOnly(o, h) == {o}

Drops(o, h) == {o, h}

(* add_single_item, add_bulk_items, update_my_item: the insert or update.   *)
(* Between it and the invalidation the item is embedded or queued.  When    *)
(* only the response is lost the request fails and invalidates nothing.     *)
Write(w) == \E p \in Procs, o \in Owners, h \in Households, answered \in BOOLEAN :
    /\ wr[w].pc = "idle"
    /\ Change({o, h})
    /\ wr' = IF answered
             THEN [wr EXCEPT ![w] = [pc |-> "invalidate", proc |-> p, drops |-> Drops(o, h)]]
             ELSE wr
    /\ Unseen(IF answered THEN Procs \ {p} ELSE Procs, {o, h})
    /\ UNCHANGED <<now, cache, rd>>

(* delete_my_item reads the row's household first ...                       *)
DeleteRead(w) == \E p \in Procs, o \in Owners, h \in Households :
    /\ wr[w].pc = "idle"
    /\ wr' = [wr EXCEPT ![w] = [pc |-> "delete", proc |-> p, owner |-> o,
                                home |-> h, drops |-> Drops(o, h)]]
    /\ UNCHANGED <<now, writes, cache, rd, unseen>>

(* ... and deletes the row from the household it is in by then.             *)
DeleteRow(w) == \E answered \in BOOLEAN :
    LET S == {wr[w].owner, wr[w].home}
        p == wr[w].proc
    IN  /\ wr[w].pc = "delete"
        /\ Change(S)
        /\ wr' = [wr EXCEPT ![w] =
                     IF answered
                     THEN [pc |-> "invalidate", proc |-> p, drops |-> wr[w].drops]
                     ELSE IdleWriter]
        /\ unseen' = [q \in Procs |->
                         IF q = p /\ answered THEN unseen[q] \cup (S \ wr[w].drops)
                         ELSE unseen[q] \cup S]
        /\ UNCHANGED <<now, cache, rd>>

(* _invalidate_pantry_list_cache, in the writer's own process.  A list that *)
(* has been read and not yet stored will be stored all the same.            *)
Invalidate(w) ==
    LET p == wr[w].proc
        late == {rd[r].key : r \in {s \in Readers : rd[s].pc = "store" /\ rd[s].proc = p}}
    IN  /\ wr[w].pc = "invalidate"
        /\ cache' = [cache EXCEPT ![p] =
                        [k \in Keys |-> IF k \in wr[w].drops THEN NoEntry ELSE cache[p][k]]]
        /\ Unseen({p}, wr[w].drops \cap late)
        /\ wr' = [wr EXCEPT ![w] = IdleWriter]
        /\ UNCHANGED <<now, writes, rd>>

(* join_household_by_invite_rpc, leave_household_rpc: the owner's rows move *)
(* from one household to another; neither route touches the cache.          *)
Move == \E o \in Owners, h, g \in Households :
    /\ h # g
    /\ Change({o, h, g})
    /\ wr' = [w \in Writers |->
                 IF wr[w].pc = "delete" /\ wr[w].owner = o /\ wr[w].home = h
                 THEN [wr[w] EXCEPT !.home = g]
                 ELSE wr[w]]
    /\ Unseen(Procs, {o, h, g})
    /\ UNCHANGED <<now, cache, rd>>

(* A process ends and is started again: its requests and its cache are gone.*)
Restart(p) ==
    /\ cache' = [cache EXCEPT ![p] = [k \in Keys |-> NoEntry]]
    /\ rd' = [r \in Readers |->
                 IF rd[r].pc # "idle" /\ rd[r].proc = p THEN IdleReader ELSE rd[r]]
    /\ wr' = [w \in Writers |->
                 IF wr[w].pc # "idle" /\ wr[w].proc = p THEN IdleWriter ELSE wr[w]]
    /\ unseen' = [unseen EXCEPT ![p] = {}]
    /\ UNCHANGED <<now, writes>>

-----------------------------------------------------------------------------
Next ==
    \/ Tick
    \/ \E r \in Readers : Look(r) \/ Load(r) \/ LoadFails(r) \/ Store(r) \/ Answer(r)
    \/ \E w \in Writers : Write(w) \/ DeleteRead(w) \/ DeleteRow(w) \/ Invalidate(w)
    \/ Move
    \/ \E p \in Procs : Restart(p)

Spec == Init /\ [][Next]_vars

-----------------------------------------------------------------------------
Time == 0 .. MaxTime
Versions == 0 .. MaxWrites

(* Every variable has its type.                                             *)
TypeOK ==
    /\ now \in Time
    /\ writes \in [Keys -> Seq(Time)]
    /\ \A k \in Keys : Version(k) <= MaxWrites
    /\ cache \in [Procs -> [Keys -> {NoEntry} \cup [stored : Time, value : Versions]]]
    /\ rd \in [Readers -> {IdleReader} \cup
                   [pc : {"load", "store", "answer"}, proc : Procs, key : Keys,
                    began : Time, value : Versions]]
    /\ wr \in [Writers -> {IdleWriter} \cup
                   [pc : {"delete"}, proc : Procs, owner : Owners, home : Households,
                    drops : SUBSET Keys] \cup
                   [pc : {"invalidate"}, proc : Procs, drops : SUBSET Keys]]
    /\ unseen \in [Procs -> SUBSET Keys]

(* An answer is never older than the TTL and one load together, whatever    *)
(* races with what: with writes of any process, membership moves, lost      *)
(* invalidations, and slow loads that put an older list over a newer one.   *)
(* It is the present list, or was replaced less than that long ago.  That a *)
(* load, with all its calls and waits, takes MaxLoad at most is assumed.    *)
StalenessBounded == \A r \in Readers :
    LET k == rd[r].key
        v == rd[r].value
    IN  rd[r].pc = "answer" /\ v < Version(k) => now < writes[k][v + 1] + TTL + MaxLoad

(* Within one process a write is seen by every list looked up after it has  *)
(* been answered: a cached copy without it is about to be dropped.  The     *)
(* exceptions are the ones unseen records, a change by somebody else, a     *)
(* lost response, a row that moved under a delete, and a load that had read *)
(* the old list when the copies were dropped and stores it afterwards; of   *)
(* those only StalenessBounded says how long they last.                     *)
WritesAreSeen == \A p \in Procs : \A k \in Keys \ unseen[p] :
    cache[p][k] # NoEntry /\ cache[p][k].value < Version(k) =>
        \E w \in Writers : wr[w].pc = "invalidate" /\ wr[w].proc = p /\ k \in wr[w].drops
=============================================================================
