----------------------------- MODULE RateLimits -----------------------------
(***************************************************************************)
(* The in-process rate limits of one server process: the                   *)
(* FixedWindowRateLimiter objects and the dependencies of the routes that  *)
(* ask them.  A request passes the gates of its route one after the other; *)
(* between two gates other requests run and time passes (authentication    *)
(* calls the auth server), while one limiter's allow() is a single step,   *)
(* made under its lock without a suspension point.                         *)
(***************************************************************************)
EXTENDS Naturals, Sequences, FiniteSets

CONSTANTS
    Requests,   \* requests in progress at the same time
    Routes,     \* the rate-limited routes that clients call
    Ips,        \* client addresses
    Users,      \* authenticated users
    Window,     \* WINDOW_SECONDS
    Limit,      \* the per-minute setting of each limiter; 0 turns it off
    MaxTime     \* bound on the clock

VARIABLES
    now,      \* the monotonic clock
    data,     \* each limiter's table: key -> (start of its window, count)
    req,      \* the requests in progress
    passed    \* history: when each key was let through, and in which window

vars == <<now, data, req, passed>>

Limiters == {"joinIp", "joinUser", "mutation", "ai", "randomRecipe"}

Keys == Ips \cup Users

(* What the dependencies of a route check, in the order FastAPI resolves    *)
(* them.  "mutate" stands for create, leave, convert-to-joinable, rename.   *)
Gates == [join   |-> <<"joinIp", "auth", "joinUser">>,
          mutate |-> <<"auth", "mutation">>,
          ai     |-> <<"ai">>,
          random |-> <<"auth", "randomRecipe">>]

ASSUME LimitsAssumption ==
    /\ Routes \subseteq DOMAIN Gates
    /\ Window \in Nat \ {0}
    /\ Limit \in [Limiters -> Nat]
    /\ MaxTime \in Nat

-----------------------------------------------------------------------------
Absent == [start |-> 0, count |-> 0]

Idle == [busy |-> FALSE, todo |-> <<>>]

Init ==
    /\ now = 0
    /\ data = [l \in Limiters |-> [k \in Keys |-> Absent]]
    /\ req = [r \in Requests |-> Idle]
    /\ passed = [l \in Limiters |-> [k \in Keys |-> <<>>]]

Tick ==
    /\ now < MaxTime
    /\ now' = now + 1
    /\ UNCHANGED <<data, req, passed>>

Arrive(r) == \E route \in Routes, ip \in Ips, u \in Users :
    /\ ~req[r].busy
    /\ req' = [req EXCEPT ![r] =
                  [busy |-> TRUE, todo |-> Gates[route], ip |-> ip, user |-> u]]
    /\ UNCHANGED <<now, data, passed>>

At(r, gate) == req[r].todo # <<>> /\ Head(req[r].todo) = gate

Advance(r) == req' = [req EXCEPT ![r].todo = Tail(@)]

Refuse(r) == req' = [req EXCEPT ![r] = Idle]

(* get_current_user_id: the request goes on, or ends with a 401.            *)
Authenticate(r) ==
    /\ At(r, "auth")
    /\ Advance(r) \/ Refuse(r)
    /\ UNCHANGED <<now, data, passed>>

(* A limit of zero: the dependency returns before it asks the limiter.      *)
Waive(r) == \E l \in Limiters :
    /\ At(r, l)
    /\ Limit[l] = 0
    /\ Advance(r)
    /\ UNCHANGED <<now, data, passed>>

KeyOf(r, l) == IF l \in {"joinIp", "ai"} THEN req[r].ip ELSE req[r].user

(* The body of allow(): expired windows are dropped for every key, then the *)
(* key's count decides.                                                     *)
ExpiresAtOnce(e) == e.count > 0 /\ now - e.start = 0

Live(e) == e.count > 0 /\ now - e.start < Window

Unexpired(table) == [k \in Keys |-> IF Live(table[k]) THEN table[k] ELSE Absent]

AllowsOneMore(e, limit) == e.count <= limit

HasRoom(e, limit) == e.count < limit

SlidingStart(e) == [start |-> now, count |-> e.count + 1]

Counted(e) == IF e.count = 0 THEN [start |-> now, count |-> 1]
              ELSE [e EXCEPT !.count = @ + 1]

Admit(r) == \E l \in Limiters :
    LET k == KeyOf(r, l)
        table == Unexpired(data[l])
        entry == Counted(table[k])
    IN  /\ At(r, l)
        /\ Limit[l] > 0
        /\ HasRoom(table[k], Limit[l])
        /\ data' = [data EXCEPT ![l] = [table EXCEPT ![k] = entry]]
        /\ passed' = [passed EXCEPT ![l][k] =
                         Append(@, [at |-> now, window |-> entry.start])]
        /\ Advance(r)
        /\ UNCHANGED now

(* 429, Retry-After: WINDOW_SECONDS.                                        *)
Reject(r) == \E l \in Limiters :
    LET table == Unexpired(data[l])
    IN  /\ At(r, l)
        /\ Limit[l] > 0
        /\ ~HasRoom(table[KeyOf(r, l)], Limit[l])
        /\ data' = [data EXCEPT ![l] = table]
        /\ Refuse(r)
        /\ UNCHANGED <<now, passed>>

(* Every gate is passed: the handler runs and answers.                      *)
Answer(r) ==
    /\ req[r].busy
    /\ req[r].todo = <<>>
    /\ req' = [req EXCEPT ![r] = Idle]
    /\ UNCHANGED <<now, data, passed>>

Next ==
    \/ Tick
    \/ \E r \in Requests :
          Arrive(r) \/ Authenticate(r) \/ Waive(r) \/ Admit(r) \/ Reject(r) \/ Answer(r)

Spec == Init /\ [][Next]_vars

-----------------------------------------------------------------------------
Admission == [at : 0 .. MaxTime, window : 0 .. MaxTime]

RequestState ==
    {Idle} \cup [busy : {TRUE}, ip : Ips, user : Users,
                 todo : Seq(Limiters \cup {"auth"})]

(* Every variable has its type, and no count exceeds the limit.             *)
TypeOK ==
    /\ now \in 0 .. MaxTime
    /\ \A l \in Limiters :
          data[l] \in [Keys -> [start : 0 .. now, count : 0 .. Limit[l]]]
    /\ req \in [Requests -> RequestState]
    /\ passed \in [Limiters -> [Keys -> Seq(Admission)]]

(* A window begins with the first request it counts, so two windows of one  *)
(* key never touch a third within one window's time: whatever the instants  *)
(* at which requests arrive, any span shorter than Window sees fewer than   *)
(* twice the limit of a key let through - 2 * Limit - 1 and not, as for     *)
(* windows aligned to the clock, 2 * Limit.                                 *)
SpanBound == \A l \in Limiters : \A k \in Keys :
    LET p == passed[l][k]
        far == 2 * Limit[l] - 1
    IN  \A n \in DOMAIN p :
            n + far \in DOMAIN p => p[n + far].at >= p[n].at + Window

(* A request is turned away only when its own key has been let through      *)
(* Limit times within the last Window: rejections never prolong a window,   *)
(* and a client that stays away for the Retry-After it was told gets in.    *)
TurnedAway(r, l) ==
    /\ At(r, l)
    /\ ~req'[r].busy

LateAdmissions(p) == {n \in DOMAIN p : now - p[n].at < Window}

RejectionsAreDue == [][\A r \in Requests, l \in Limiters :
    TurnedAway(r, l) => Cardinality(LateAdmissions(passed[l][KeyOf(r, l)])) >= Limit[l]]_vars

(* What one client does never frees or fills the running window of another: *)
(* the clean-up, which walks over all keys, and the limiters of the other   *)
(* routes leave it alone.                                                   *)
Running(l, k) == data[l][k].count > 0 /\ now - data[l][k].start < Window

ClientsAreIndependent == [][\A l \in Limiters : \A k \in Keys :
    Running(l, k) /\ data'[l][k] # data[l][k] =>
        /\ \E r \in Requests : At(r, l) /\ KeyOf(r, l) = k
        /\ data'[l][k] = [data[l][k] EXCEPT !.count = @ + 1]]_vars
=============================================================================
