------------------------ MODULE ApiRequestsProofs ------------------------
(***************************************************************************)
(* For any number of users, households, requests and threads: the pool is   *)
(* never overdrawn and its line is one line, the household a handler works  *)
(* with has been its user's since the request began, and what a generation  *)
(* answers is usable.                                                       *)
(*                                                                         *)
(* The inductive invariant says of each request what is known of it at its  *)
(* stage (Sound), its user's household being among those seen.              *)
(***************************************************************************)
EXTENDS ApiRequests, FiniteSetTheorems, TLAPS

Generations == {"recipe", "shopping", "legacyRecipe"}

(* What the answer of a generation is worth.                                *)
Usable(q) ==
    (q.kind \in Generations /\ q.answer.status = "ok") =>
        /\ IF q.kind # "shopping" THEN q.answer.parts = Whole
           ELSE q.answer.by = "model" => q.answer.parts # {}
        /\ q.context = "none" => q.blank

(* A request whose user has been in the households S since it began.        *)
Sound(q, S) ==
    /\ q \in RequestType
    /\ q.user # None => home[q.user] \in S
    /\ q.household # None => q.household \in S
    /\ q.answer.status = "forbidden" => None \in S
    /\ Usable(q)
    /\ q.pc # "answered" => q.answer = NoAnswer
    /\ q.pc \in {"idle", "answered"} <=> q.call = "none"
    /\ q.pc = "idle" => q.user = None
    /\ q.pc # "idle" => q.kind \in Routes
    /\ q.pc = "prepare" => Public(q.kind) \/ q.user \in Users
    /\ q.pc \in {"user", "household"} => q.user \in Users
    /\ q.pc \in {"search", "chat"} => q.kind \in Generations
    /\ q.pc = "chat" => (q.context = "none" => q.blank)
    /\ q.pc = "embed" => q.kind = "embedding"
    /\ q.pc \in {"insert", "vector", "update", "enqueue"} => q.kind = "addItem"

(* The same between two steps of its handler: it has no thread.             *)
Suspended(q, S) == Sound(q, S) /\ q.call \in {"none", "waiting"}

RequestsInv == TypeOK /\ \A r \in Requests : Sound(req[r], seen[r])

-----------------------------------------------------------------------------
(* Where the next call of a sound request may take it.                      *)
LEMMA CallsSound ==
    ASSUME NEW q, NEW S, Sound(q, S), q.pc # "answered",
           NEW pc \in {"user", "household", "search", "chat", "embed", "insert", "vector",
                       "update", "enqueue"},
           pc \in {"user", "household"} => q.user \in Users,
           pc \in {"search", "chat"} => q.kind \in Generations,
           pc = "chat" => (q.context = "none" => q.blank),
           pc = "embed" => q.kind = "embedding",
           pc \in {"insert", "vector", "update", "enqueue"} => q.kind = "addItem",
           q.kind \in Routes
    PROVE  Suspended(Calls(q, pc), S)
<1> DEFINE n == Calls(q, pc)
<1>1. q \in RequestType
  BY DEF Sound
<1>2. n \in RequestType
  BY <1>1 DEF Calls, RequestType, Stages
<1>3. /\ n.pc = pc /\ n.call = "waiting" /\ n.kind = q.kind /\ n.user = q.user
      /\ n.blank = q.blank /\ n.household = q.household
      /\ n.context = q.context /\ n.answer = q.answer
  BY <1>1 DEF Calls, RequestType
<1> HIDE DEF n
<1>4. Usable(n)
  BY <1>3 DEF Sound, Usable
<1>5. Suspended(n, S)
  BY <1>2, <1>3, <1>4 DEF Sound, Suspended
<1> QED
  BY <1>5 DEF n

(* A request that is refused with a status other than ok.                   *)
LEMMA RefusedSound ==
    ASSUME NEW q, NEW S, Sound(q, S), q.kind \in Routes,
           NEW status \in {"unauthorized", "forbidden", "unavailable", "badGateway", "failed"},
           status = "forbidden" => None \in S
    PROVE  Suspended(Refused(q, status), S)
<1> DEFINE n == Refused(q, status)
<1>1. q \in RequestType
  BY DEF Sound
<1>2. n \in RequestType
  BY <1>1 DEF Refused, Ends, RequestType, Stages
<1>3. /\ n.pc = "answered" /\ n.call = "none" /\ n.kind = q.kind /\ n.user = q.user
      /\ n.blank = q.blank /\ n.household = q.household /\ n.context = q.context
      /\ n.answer = [status |-> status, by |-> "none", parts |-> {}]
  BY <1>1 DEF Refused, Ends, RequestType
<1> HIDE DEF n
<1>4. Usable(n)
  BY <1>3 DEF Usable
<1>5. Suspended(n, S)
  BY <1>2, <1>3, <1>4 DEF Sound, Suspended
<1> QED
  BY <1>5 DEF n

LEMMA EndsSound ==
    ASSUME NEW q, NEW S, Sound(q, S), q.kind \in Routes,
           NEW by \in {"none", "model", "mock"}, NEW parts \in SUBSET (Whole \cup {"items"}),
           q.kind \in Generations =>
               /\ IF q.kind # "shopping" THEN parts = Whole ELSE by = "model" => parts # {}
               /\ q.context = "none" => q.blank
    PROVE  Suspended(Ends(q, "ok", by, parts), S)
<1> DEFINE n == Ends(q, "ok", by, parts)
<1>1. q \in RequestType
  BY DEF Sound
<1>2. n \in RequestType
  BY <1>1 DEF Ends, RequestType, Stages
<1>3. /\ n.pc = "answered" /\ n.call = "none" /\ n.kind = q.kind /\ n.user = q.user
      /\ n.blank = q.blank /\ n.household = q.household /\ n.context = q.context
      /\ n.answer = [status |-> "ok", by |-> by, parts |-> parts]
  BY <1>1 DEF Ends, RequestType
<1> HIDE DEF n
<1>4. Usable(n)
  BY <1>3 DEF Usable
<1>5. Suspended(n, S)
  BY <1>2, <1>3, <1>4 DEF Sound, Suspended
<1> QED
  BY <1>5 DEF n

LEMMA FallsBackSound ==
    ASSUME NEW q, NEW S, Sound(q, S), q.kind \in Generations \cup {"embedding"},
           q.kind \in Generations => (q.context = "none" => q.blank),
           NEW n \in FallsBack(q)
    PROVE  Suspended(n, S)
<1>1. PICK parts \in MockParts(q.kind) : n = Ends(q, "ok", "mock", parts)
  BY DEF FallsBack
<1>2. parts \in SUBSET (Whole \cup {"items"}) /\ (q.kind \in Generations \ {"shopping"} => parts = Whole)
  BY <1>1 DEF MockParts, Whole, Generations
<1>3. q.kind \in Routes
  BY DEF Generations, Routes
<1> QED
  BY <1>1, <1>2, <1>3, EndsSound

LEMMA GenerateSound ==
    ASSUME NEW q, NEW S, Sound(q, S), q.pc # "answered", q.kind \in Generations,
           q.context = "none" => q.blank,
           NEW n \in Generate(q)
    PROVE  Suspended(n, S)
<1>1. q.kind \in Routes
  BY DEF Generations, Routes
<1>2. CASE settings.gemini
  <2>1. n = Calls(q, "chat")
    BY <1>2 DEF Generate
  <2> QED
    BY <2>1, <1>1, CallsSound
<1>3. CASE ~settings.gemini
  BY <1>3, FallsBackSound DEF Generate
<1> QED
  BY <1>2, <1>3

(* A context, and the mark that rows matched, may be put in anywhere.       *)
LEMMA ContextSound ==
    ASSUME NEW q, NEW S, Sound(q, S), NEW context \in {"pantry", "knowledge"}
    PROVE  Sound([q EXCEPT !.context = context], S)
<1> DEFINE n == [q EXCEPT !.context = context]
<1>1. q \in RequestType
  BY DEF Sound
<1>2. n \in RequestType
  BY <1>1 DEF RequestType
<1>3. /\ n.pc = q.pc /\ n.call = q.call /\ n.kind = q.kind /\ n.user = q.user
      /\ n.household = q.household /\ n.context = context /\ n.answer = q.answer
  BY <1>1 DEF RequestType
<1> HIDE DEF n
<1>4. Usable(n)
  BY <1>3 DEF Sound, Usable
<1>5. Sound(n, S)
  BY <1>2, <1>3, <1>4 DEF Sound
<1> QED
  BY <1>5 DEF n

LEMMA MatchedSound ==
    ASSUME NEW q, NEW S, Sound(q, S), NEW matched \in BOOLEAN
    PROVE  Sound([q EXCEPT !.matched = matched], S)
<1> DEFINE n == [q EXCEPT !.matched = matched]
<1>1. q \in RequestType
  BY DEF Sound
<1>2. n \in RequestType
  BY <1>1 DEF RequestType
<1>3. /\ n.pc = q.pc /\ n.call = q.call /\ n.kind = q.kind /\ n.user = q.user
      /\ n.blank = q.blank /\ n.household = q.household
      /\ n.context = q.context /\ n.answer = q.answer
  BY <1>1 DEF RequestType
<1> HIDE DEF n
<1>4. Usable(n)
  BY <1>3 DEF Sound, Usable
<1>5. Sound(n, S)
  BY <1>2, <1>3, <1>4 DEF Sound
<1> QED
  BY <1>5 DEF n

LEMMA HouseholdSound ==
    ASSUME NEW q, NEW S, Sound(q, S), NEW h \in Houses \cap S
    PROVE  Sound([q EXCEPT !.household = h], S) /\ [q EXCEPT !.household = h].pc = q.pc
<1> DEFINE n == [q EXCEPT !.household = h]
<1>1. q \in RequestType
  BY DEF Sound
<1>2. n \in RequestType
  BY <1>1 DEF RequestType
<1>3. /\ n.pc = q.pc /\ n.call = q.call /\ n.kind = q.kind /\ n.user = q.user
      /\ n.blank = q.blank /\ n.household = h
      /\ n.context = q.context /\ n.answer = q.answer
  BY <1>1 DEF RequestType
<1> HIDE DEF n
<1>4. Usable(n)
  BY <1>3 DEF Sound, Usable
<1>5. Sound(n, S)
  BY <1>2, <1>3, <1>4 DEF Sound
<1> QED
  BY <1>3, <1>5 DEF n

LEMMA HandleSound ==
    ASSUME NEW q, NEW S, Sound(q, S), q.pc \notin {"idle", "answered"}, NEW n \in Handle(q)
    PROVE  Suspended(n, S)
<1>0. q.kind \in Routes /\ q \in RequestType
  BY DEF Sound
<1>1. CASE q.kind = "embedding" /\ settings.gemini
  <2>1. n = Calls(q, "embed")
    BY <1>1 DEF Handle
  <2> QED
    BY <1>0, <1>1, <2>1, CallsSound
<1>2. CASE q.kind = "embedding" /\ ~settings.gemini
  BY <1>2, FallsBackSound DEF Handle, Generations
<1>3. CASE q.kind = "addItem"
  <2>1. n = Calls(q, "insert")
    BY <1>3 DEF Handle
  <2> QED
    BY <1>0, <1>3, <2>1, CallsSound
<1>4. CASE q.kind \in Generations
  <2>1. n \in Retrieve(q)
    BY <1>4 DEF Handle, Generations
  <2>2. CASE q.blank
    BY <2>1, <2>2, <1>4, GenerateSound DEF Retrieve
  <2>3. CASE ~q.blank /\ settings.gemini /\ settings.supabase
    <3>1. n = Calls(q, "search")
      BY <2>1, <2>3 DEF Retrieve
    <3> QED
      BY <1>0, <1>4, <3>1, CallsSound
  <2>4. CASE ~q.blank /\ ~(settings.gemini /\ settings.supabase)
    <3> DEFINE c == [q EXCEPT !.context = "knowledge"]
    <3>1. n \in Generate(c)
      BY <2>1, <2>4 DEF Retrieve
    <3>2. Sound(c, S) /\ c.context = "knowledge" /\ c.kind = q.kind /\ c.pc = q.pc
      BY <1>0, ContextSound DEF RequestType
    <3> HIDE DEF c
    <3> QED
      BY <1>4, <3>1, <3>2, GenerateSound
  <2> QED
    BY <2>2, <2>3, <2>4
<1> QED
  BY <1>0, <1>1, <1>2, <1>3, <1>4 DEF Routes, Generations

LEMMA IdentifiedSound ==
    ASSUME NEW q, NEW S, Sound(q, S), q.pc \notin {"idle", "answered"}, q.user \in Users,
           NEW n \in Identified(q)
    PROVE  Suspended(n, S)
<1>1. q.kind \in Routes
  BY DEF Sound
<1>2. n = Calls(q, "household") \/ n = Refused(q, "unavailable")
  BY DEF Identified
<1> QED
  BY <1>1, <1>2, CallsSound, RefusedSound

LEMMA AuthenticateSound ==
    ASSUME NEW q, NEW S, Sound(q, S), q.pc = "prepare", NEW credential \in Credentials,
           NEW n \in Authenticate(q, credential)
    PROVE  Suspended(n, S)
<1>1. q.kind \in Routes /\ (Public(q.kind) \/ q.user \in Users)
  BY DEF Sound
<1>2. CASE Public(q.kind)
  BY <1>2, HandleSound DEF Authenticate
<1>3. CASE ~Public(q.kind)
  <2>1. n \in Identified(q) \/ n \in {Refused(q, "unavailable"), Refused(q, "unauthorized"), Calls(q, "user")}
    BY <1>3 DEF Authenticate
  <2> QED
    BY <1>1, <1>3, <2>1, IdentifiedSound, RefusedSound, CallsSound
<1> QED
  BY <1>2, <1>3

-----------------------------------------------------------------------------
(* The pool.  A change of one request moves only it.                        *)
LEMMA WaitingBecomes ==
    ASSUME NEW r \in Requests, NEW n, req \in [Requests -> RequestType],
           req' = [req EXCEPT ![r] = n]
    PROVE  Waiting' = IF n.call = "waiting" THEN Waiting \cup {r} ELSE Waiting \ {r}
BY DEF Waiting

LEMMA QueuesKeepsLine ==
    ASSUME NEW r \in Requests, NEW n, req \in [Requests -> RequestType], OneLine,
           req' = [req EXCEPT ![r] = n], Queues(r, n)
    PROVE  OneLine'
<1> DEFINE out == [s \in Requests |-> IF s = r THEN {} ELSE ahead[s] \ {r}]
<1>1. Waiting \subseteq Requests
  BY DEF Waiting
<1>2. CASE n.call = "waiting"
  <2>1. Waiting' = Waiting \cup {r}
    BY <1>2, WaitingBecomes
  <2>2. ahead' = [s \in Requests |-> IF s = r THEN Waiting \ {r} ELSE ahead[s] \ {r}]
    BY <1>2 DEF Queues, OutOfLine
  <2> QED
    BY <1>1, <2>1, <2>2 DEF OneLine
<1>3. CASE n.call # "waiting"
  <2>1. Waiting' = Waiting \ {r}
    BY <1>3, WaitingBecomes
  <2>2. ahead' = [s \in Requests |-> IF s = r THEN {} ELSE ahead[s] \ {r}]
    BY <1>3 DEF Queues, OutOfLine
  <2> QED
    BY <1>1, <2>1, <2>2 DEF OneLine
<1> QED
  BY <1>2, <1>3

LEMMA LineStays ==
    ASSUME OneLine, Waiting' = Waiting, UNCHANGED ahead
    PROVE  OneLine'
BY DEF OneLine

LEMMA BusyBound ==
    ASSUME Cardinality(Busy) <= Threads, Busy' \subseteq Busy
    PROVE  Cardinality(Busy') <= Threads
<1>1. IsFiniteSet(Busy)
  BY RequestsAssumption, FS_Subset DEF Busy
<1>2. Cardinality(Busy') <= Cardinality(Busy) /\ Cardinality(Busy) \in Nat /\ Cardinality(Busy') \in Nat
  BY <1>1, FS_Subset, FS_CardinalityType
<1> QED
  BY <1>2, RequestsAssumption

(* The step of a handler from one call to the next.                         *)
LEMMA BecomesInv ==
    ASSUME RequestsInv, NEW r \in Requests, NEW n, Suspended(n, seen[r]), Becomes(r, n)
    PROVE  RequestsInv'
<1>1. /\ req' = [req EXCEPT ![r] = n] /\ Queues(r, n) /\ UNCHANGED <<settings, home, seen>>
      /\ TypeOK /\ n \in RequestType
  BY DEF Becomes, RequestsInv, Suspended, Sound
<1>2. OneLine'
  BY <1>1, QueuesKeepsLine DEF TypeOK
<1>3. Cardinality(Busy') <= Threads
  <2>1. Busy' \subseteq Busy
    BY <1>1 DEF Busy, Suspended, TypeOK
  <2> QED
    BY <1>1, <2>1, BusyBound DEF TypeOK
<1>4. TypeOK'
  BY <1>1, <1>2, <1>3 DEF TypeOK
<1>5. \A s \in Requests : Sound(req[s], seen[s])'
  BY <1>1 DEF RequestsInv, Suspended, Sound, TypeOK
<1> QED
  BY <1>4, <1>5 DEF RequestsInv

(* What a model's reply may be turned into.                                 *)
LEMMA RepliesWhole ==
    ASSUME NEW kind, NEW parts \in Replies(kind), parts # {}
    PROVE  parts \in SUBSET (Whole \cup {"items"}) /\ (kind # "shopping" => parts = Whole)
<1>1. \A p : NormalizeRecipe(p) \in {{}, Whole}
  BY DEF NormalizeRecipe
<1>2. \A p : NormalizeShoppingList(p) \in {{}, {"items"}}
  BY DEF NormalizeShoppingList
<1> QED
  BY <1>1, <1>2 DEF Replies, RecipeReplies, ShoppingReplies

LEMMA InitInv == Init => RequestsInv
<1> SUFFICES ASSUME Init PROVE RequestsInv
  OBVIOUS
<1>1. Idle \in RequestType
  BY DEF Idle, NoAnswer, RequestType, Stages
<1>2. Busy = {} /\ Waiting = {}
  BY DEF Init, Busy, Waiting, Idle
<1>3. Cardinality(Busy) <= Threads
  BY <1>2, FS_EmptySet, RequestsAssumption
<1>4. OneLine
  BY <1>2 DEF Init, OneLine
<1>5. TypeOK
  BY <1>1, <1>3, <1>4 DEF Init, Homes!Init, TypeOK
<1>6. Sound(Idle, {})
  BY <1>1 DEF Sound, Usable, Idle, NoAnswer, Generations
<1> QED
  BY <1>5, <1>6 DEF Init, RequestsInv

LEMMA BeginInv == ASSUME RequestsInv, NEW r \in Requests, Begin(r) PROVE RequestsInv'
<1>1. PICK kind \in Kinds, u \in Users, blank \in BOOLEAN :
         LET user == IF Public(kind) THEN None ELSE u
             state == Calls([Idle EXCEPT !.kind = kind, !.blank = blank, !.user = user], "prepare")
         IN  /\ req[r].pc = "idle"
             /\ req' = [req EXCEPT ![r] = state]
             /\ Queues(r, state)
             /\ seen' = [seen EXCEPT ![r] = IF Public(kind) THEN {} ELSE {home[u]}]
             /\ UNCHANGED <<settings, home>>
  BY DEF Begin
<1> DEFINE user == IF Public(kind) THEN None ELSE u
           n == Calls([Idle EXCEPT !.kind = kind, !.blank = blank, !.user = user], "prepare")
           S == IF Public(kind) THEN {} ELSE {home[u]}
<1>2. /\ TypeOK /\ kind \in Routes /\ req[r].call = "none" /\ user \in Users \cup {None}
      /\ home[u] \in Houses \cup {None}
  BY <1>1, RequestsAssumption DEF RequestsInv, Sound, TypeOK
<1>5. user # None => home[user] \in S
  OBVIOUS
<1>6. Public(kind) \/ user \in Users
  OBVIOUS
<1> HIDE DEF user
<1>3. Idle \in RequestType /\ Idle.household = None /\ Idle.answer = NoAnswer
  BY DEF Idle, NoAnswer, RequestType, Stages
<1>4. n \in RequestType
  <2> DEFINE m == [Idle EXCEPT !.kind = kind, !.blank = blank, !.user = user]
  <2>1. m \in RequestType
    BY <1>2, <1>3 DEF RequestType
  <2> HIDE DEF m
  <2>2. Calls(m, "prepare") \in RequestType
    BY <2>1 DEF Calls, RequestType, Stages
  <2> QED
    BY <2>2 DEF m
<1>7. req' = [req EXCEPT ![r] = n] /\ Queues(r, n) /\ seen' = [seen EXCEPT ![r] = S]
  BY <1>1 DEF user
<1>8. /\ n.pc = "prepare" /\ n.call = "waiting" /\ n.kind = kind /\ n.user = user
      /\ n.household = None /\ n.answer = NoAnswer
  BY <1>3 DEF Calls, RequestType
<1> HIDE DEF n
<1>9. Sound(n, S)
  <2>1. Usable(n)
    BY <1>8 DEF Usable, NoAnswer
  <2> QED
    BY <1>2, <1>4, <1>5, <1>6, <1>8, <2>1 DEF Sound, NoAnswer
<1>10. S \in SUBSET (Houses \cup {None})
  BY <1>2
<1> HIDE DEF S
<1>11. TypeOK'
  <2>1. OneLine'
    BY <1>2, <1>7, QueuesKeepsLine DEF TypeOK
  <2>2. Busy' \subseteq Busy
    BY <1>2, <1>7, <1>8 DEF Busy, TypeOK
  <2>3. Cardinality(Busy') <= Threads
    BY <1>2, <2>2, BusyBound DEF TypeOK
  <2> QED
    BY <1>1, <1>2, <1>4, <1>7, <1>10, <2>1, <2>3 DEF TypeOK
<1>12. ASSUME NEW s \in Requests PROVE Sound(req[s], seen[s])'
  <2>1. CASE s = r
    <3>1. req'[s] = n /\ seen'[s] = S /\ home' = home
      BY <1>1, <1>2, <1>7, <2>1 DEF TypeOK
    <3> QED
      BY <1>9, <3>1 DEF Sound
  <2>2. CASE s # r
    <3>1. req'[s] = req[s] /\ seen'[s] = seen[s] /\ home' = home /\ Sound(req[s], seen[s])
      BY <1>1, <1>2, <1>7, <2>2 DEF TypeOK, RequestsInv
    <3> QED
      BY <3>1 DEF Sound
  <2> QED
    BY <2>1, <2>2
<1> QED
  BY <1>11, <1>12 DEF RequestsInv

(* A call that begins, hangs or ends does not change what is known of its   *)
(* request.                                                                 *)
LEMMA CallChanges ==
    ASSUME NEW q, NEW S, Sound(q, S), q.call # "none", NEW call \in {"running", "hung"}
    PROVE  Sound([q EXCEPT !.call = call], S)
<1> DEFINE n == [q EXCEPT !.call = call]
<1>1. q \in RequestType
  BY DEF Sound
<1>2. n \in RequestType
  BY <1>1 DEF RequestType
<1>3. /\ n.pc = q.pc /\ n.call = call /\ n.kind = q.kind /\ n.user = q.user
      /\ n.blank = q.blank /\ n.household = q.household
      /\ n.context = q.context /\ n.answer = q.answer
  BY <1>1 DEF RequestType
<1> HIDE DEF n
<1>4. Usable(n)
  BY <1>3 DEF Sound, Usable
<1>5. Sound(n, S)
  BY <1>2, <1>3, <1>4 DEF Sound
<1> QED
  BY <1>5 DEF n

LEMMA StartInv == ASSUME RequestsInv, Start PROVE RequestsInv'
<1>1. PICK r \in Waiting : /\ Cardinality(Busy) < Threads
                           /\ req' = [req EXCEPT ![r].call = "running"]
                           /\ ahead' = OutOfLine(r)
                           /\ UNCHANGED <<settings, home, seen>>
  BY DEF Start
<1> DEFINE n == [req[r] EXCEPT !.call = "running"]
<1>2. r \in Requests /\ req[r].call = "waiting" /\ Sound(req[r], seen[r]) /\ TypeOK
  BY DEF Waiting, RequestsInv
<1>3. Sound(n, seen[r]) /\ n \in RequestType /\ n.call = "running"
  <2>1. Sound(n, seen[r]) /\ n \in RequestType
    BY <1>2, CallChanges DEF Sound
  <2>2. req[r] \in RequestType
    BY <1>2 DEF Sound
  <2>3. n.call = "running"
    BY <2>2 DEF RequestType
  <2> QED
    BY <2>1, <2>3
<1>4. req' = [req EXCEPT ![r] = n]
  BY <1>1, <1>2 DEF TypeOK
<1> HIDE DEF n
<1>5. OneLine'
  <2>1. Queues(r, n)
    BY <1>1, <1>3 DEF Queues
  <2> QED
    BY <1>2, <1>4, <2>1, QueuesKeepsLine DEF TypeOK
<1>6. Cardinality(Busy') <= Threads
  <2>1. IsFiniteSet(Busy)
    BY RequestsAssumption, FS_Subset DEF Busy
  <2>2. Busy' = Busy \cup {r} /\ r \notin Busy
    BY <1>2, <1>3, <1>4 DEF Busy, TypeOK
  <2>3. Cardinality(Busy') = Cardinality(Busy) + 1 /\ Cardinality(Busy) \in Nat
    BY <2>1, <2>2, FS_AddElement, FS_CardinalityType
  <2> QED
    BY <1>1, <2>3, RequestsAssumption
<1>7. TypeOK'
  BY <1>1, <1>2, <1>3, <1>4, <1>5, <1>6 DEF TypeOK
<1>8. \A s \in Requests : Sound(req[s], seen[s])'
  BY <1>1, <1>2, <1>3, <1>4 DEF RequestsInv, Sound, TypeOK
<1> QED
  BY <1>7, <1>8 DEF RequestsInv

LEMMA HangInv == ASSUME RequestsInv, NEW r \in Requests, Hang(r) PROVE RequestsInv'
<1> DEFINE n == [req[r] EXCEPT !.call = "hung"]
<1>1. Sound(req[r], seen[r]) /\ TypeOK /\ req[r].call = "running"
  BY DEF RequestsInv, Hang
<1>2. Sound(n, seen[r]) /\ n \in RequestType /\ n.call = "hung"
  <2>1. Sound(n, seen[r]) /\ n \in RequestType
    BY <1>1, CallChanges DEF Sound
  <2>2. req[r] \in RequestType
    BY <1>1 DEF Sound
  <2>3. n.call = "hung"
    BY <2>2 DEF RequestType
  <2> QED
    BY <2>1, <2>3
<1>3. req' = [req EXCEPT ![r] = n] /\ UNCHANGED <<settings, home, ahead, seen>>
  BY <1>1 DEF Hang, TypeOK
<1> HIDE DEF n
<1>4. OneLine'
  <2>1. Waiting' = Waiting
    BY <1>1, <1>2, <1>3 DEF Waiting, TypeOK
  <2> QED
    BY <1>1, <1>3, <2>1, LineStays DEF TypeOK
<1>5. Cardinality(Busy') <= Threads
  <2>1. Busy' \subseteq Busy
    BY <1>1, <1>2, <1>3 DEF Busy, TypeOK
  <2> QED
    BY <1>1, <2>1, BusyBound DEF TypeOK
<1>6. TypeOK'
  BY <1>1, <1>2, <1>3, <1>4, <1>5 DEF TypeOK
<1>7. \A s \in Requests : Sound(req[s], seen[s])'
  BY <1>1, <1>2, <1>3 DEF RequestsInv, Sound, TypeOK
<1> QED
  BY <1>6, <1>7 DEF RequestsInv

LEMMA LeaveInv == ASSUME RequestsInv, NEW r \in Requests, Leave(r) PROVE RequestsInv'
<1>1. Sound(req[r], seen[r]) /\ TypeOK /\ req[r].call = "none"
  BY DEF RequestsInv, Leave, Sound
<1>2. Idle \in RequestType /\ Idle.call = "none"
  BY DEF Idle, NoAnswer, RequestType, Stages
<1>3. Sound(Idle, {})
  BY <1>2 DEF Sound, Usable, Idle, NoAnswer, Generations
<1>4. /\ req' = [req EXCEPT ![r] = Idle] /\ seen' = [seen EXCEPT ![r] = {}]
      /\ UNCHANGED <<settings, home, ahead>>
  BY DEF Leave
<1>5. OneLine'
  <2>1. Waiting' = Waiting
    BY <1>1, <1>2, <1>4 DEF Waiting, TypeOK
  <2> QED
    BY <1>1, <1>4, <2>1, LineStays DEF TypeOK
<1>6. Cardinality(Busy') <= Threads
  <2>1. Busy' \subseteq Busy
    BY <1>1, <1>2, <1>4 DEF Busy, TypeOK
  <2> QED
    BY <1>1, <2>1, BusyBound DEF TypeOK
<1>7. TypeOK'
  BY <1>1, <1>2, <1>4, <1>5, <1>6 DEF TypeOK
<1>8. \A s \in Requests : Sound(req[s], seen[s])'
  BY <1>1, <1>3, <1>4 DEF RequestsInv, Sound, TypeOK
<1> QED
  BY <1>7, <1>8 DEF RequestsInv

LEMMA MoveInv == ASSUME RequestsInv, NEW u \in Users, Move(u) PROVE RequestsInv'
<1>1. TypeOK
  BY DEF RequestsInv
<1>2. PICK h \in Houses :
         /\ home' = [home EXCEPT ![u] = h]
         /\ seen' = [r \in Requests |-> IF req[r].user = u THEN seen[r] \cup {h} ELSE seen[r]]
         /\ UNCHANGED <<settings, req, ahead>>
  BY <1>1 DEF Move, Homes!Moves, TypeOK
<1>3. OneLine' /\ Cardinality(Busy') <= Threads
  <2>1. Waiting' = Waiting /\ Busy' = Busy
    BY <1>2 DEF Waiting, Busy
  <2> QED
    BY <1>1, <1>2, <2>1, LineStays DEF TypeOK
<1>4. TypeOK'
  <2>1. home' \in [Users -> Houses \cup {None}] /\ seen' \in [Requests -> SUBSET (Houses \cup {None})]
    BY <1>1, <1>2 DEF TypeOK
  <2> QED
    BY <1>1, <1>2, <1>3, <2>1 DEF TypeOK
<1>5. ASSUME NEW r \in Requests PROVE Sound(req[r], seen[r])'
  <2>1. Sound(req[r], seen[r]) /\ req'[r] = req[r] /\ seen[r] \subseteq seen'[r] /\ req[r].user \in Users \cup {None}
    BY <1>1, <1>2 DEF RequestsInv, TypeOK, RequestType
  <2>2. req[r].user # None => home'[req[r].user] \in seen'[r]
    BY <1>1, <1>2, <2>1 DEF Sound, TypeOK
  <2> QED
    BY <2>1, <2>2 DEF Sound
<1> QED
  BY <1>4, <1>5 DEF RequestsInv

(* Each return of a call: the state it resumes in is a sound one.           *)
LEMMA ReturnInv == ASSUME RequestsInv, NEW r \in Requests, Return(r) PROVE RequestsInv'
<1> DEFINE q == req[r]  S == seen[r]
<1>0. Sound(q, S) /\ TypeOK /\ q \in RequestType
  BY DEF RequestsInv, Sound
<1> HIDE DEF q, S
<1> SUFFICES \E n : Suspended(n, S) /\ Becomes(r, n)
  BY BecomesInv DEF S
<1>1. CASE Prepared(r)
  <2>1. PICK credential \in Credentials : \E n \in Authenticate(q, credential) : Becomes(r, n)
    BY <1>1 DEF Prepared, q
  <2>2. q.pc = "prepare"
    BY <1>1 DEF Prepared, Returns, q
  <2> QED
    BY <1>0, <2>1, <2>2, AuthenticateSound
<1>2. CASE UserIsKnown(r)
  <2>1. PICK n \in Identified(q) \cup {Refused(q, "unauthorized")} : Becomes(r, n)
    BY <1>2 DEF UserIsKnown, q
  <2>2. q.pc = "user" /\ q.user \in Users /\ q.kind \in Routes
    BY <1>0, <1>2 DEF UserIsKnown, Returns, q, Sound
  <2>3. CASE n \in Identified(q)
    BY <1>0, <2>1, <2>2, <2>3, IdentifiedSound
  <2>4. CASE n = Refused(q, "unauthorized")
    BY <1>0, <2>1, <2>2, <2>4, RefusedSound
  <2> QED
    BY <2>1, <2>3, <2>4
<1>3. CASE HouseholdIsRead(r)
  <2>1. q.pc = "household" /\ q.user \in Users /\ q.kind \in Routes
    BY <1>0, <1>3 DEF HouseholdIsRead, Returns, q, Sound
  <2>2. q.user # None /\ home[q.user] \in S
    BY <1>0, <2>1, RequestsAssumption DEF Sound
  <2> DEFINE h == home[q.user]
  <2>3. \/ Becomes(r, Refused(q, "badGateway"))
        \/ h = None /\ Becomes(r, Refused(q, "forbidden"))
        \/ h # None /\ \E n \in Handle([q EXCEPT !.household = h]) : Becomes(r, n)
    BY <1>3 DEF HouseholdIsRead, HouseholdsOf, q
  <2>4. h \in S /\ h \in Houses \cup {None}
    BY <1>0, <2>1, <2>2 DEF TypeOK
  <2> HIDE DEF h
  <2>5. CASE Becomes(r, Refused(q, "badGateway"))
    BY <1>0, <2>1, <2>5, RefusedSound
  <2>6. CASE h = None /\ Becomes(r, Refused(q, "forbidden"))
    BY <1>0, <2>1, <2>4, <2>6, RefusedSound
  <2>7. CASE h # None /\ \E n \in Handle([q EXCEPT !.household = h]) : Becomes(r, n)
    <3> DEFINE m == [q EXCEPT !.household = h]
    <3>1. PICK n \in Handle(m) : Becomes(r, n)
      BY <2>7
    <3>2. Sound(m, S) /\ m.pc = "household"
      BY <1>0, <2>1, <2>4, <2>7, HouseholdSound
    <3> HIDE DEF m
    <3> QED
      BY <3>1, <3>2, HandleSound
  <2> QED
    BY <2>3, <2>5, <2>6, <2>7
<1>4. CASE SearchReturns(r)
  <2>1. q.pc = "search" /\ q.kind \in Generations
    BY <1>0, <1>4 DEF SearchReturns, Returns, q, Sound
  <2>2. PICK rows \in {Matches(req[r].household), {}} :
           LET context == IF Documents(rows) # {} THEN "pantry" ELSE "knowledge"
           IN  \E n \in Generate([q EXCEPT !.matched = rows # {}, !.context = context]) :
                  Becomes(r, n)
    BY <1>4 DEF SearchReturns, q
  <2> DEFINE context == IF Documents(rows) # {} THEN "pantry" ELSE "knowledge"
             matched == rows # {}  m == [q EXCEPT !.matched = matched]
             c == [m EXCEPT !.context = context]
  <2>3. matched \in BOOLEAN /\ context \in {"pantry", "knowledge"}
    OBVIOUS
  <2>8. \E n \in Generate([q EXCEPT !.matched = matched, !.context = context]) : Becomes(r, n)
    BY <2>2
  <2>4. c = [q EXCEPT !.matched = matched, !.context = context]
    OBVIOUS
  <2> HIDE DEF matched, context
  <2>5. Sound(m, S) /\ m \in RequestType /\ m.kind = q.kind /\ m.pc = q.pc
    BY <1>0, <2>3, MatchedSound DEF RequestType
  <2> HIDE DEF m
  <2>6. Sound(c, S) /\ c.kind = q.kind /\ c.pc = q.pc /\ c.context = context
    BY <2>3, <2>5, ContextSound DEF RequestType
  <2>7. \E n \in Generate(c) : Becomes(r, n)
    BY <2>4, <2>8
  <2> HIDE DEF c
  <2> QED
    BY <2>1, <2>3, <2>6, <2>7, GenerateSound
<1>5. CASE SearchFails(r)
  <2> DEFINE c == [q EXCEPT !.context = "knowledge"]
  <2>1. q.pc = "search" /\ q.kind \in Generations
    BY <1>0, <1>5 DEF SearchFails, Returns, q, Sound
  <2>2. PICK n \in Generate(c) : Becomes(r, n)
    BY <1>5 DEF SearchFails, q
  <2>3. Sound(c, S) /\ c.kind = q.kind /\ c.pc = q.pc /\ c.context = "knowledge"
    BY <1>0, ContextSound DEF RequestType
  <2> HIDE DEF c
  <2> QED
    BY <2>1, <2>2, <2>3, GenerateSound
<1>6. CASE ChatReturns(r)
  <2>1. q.pc = "chat" /\ q.kind \in Generations /\ (q.context = "none" => q.blank)
    BY <1>0, <1>6 DEF ChatReturns, Returns, q, Sound
  <2>2. PICK parts \in Replies(q.kind) : parts # {} /\ Becomes(r, Ends(q, "ok", "model", parts))
    BY <1>6 DEF ChatReturns, q
  <2>3. parts \in SUBSET (Whole \cup {"items"}) /\ (q.kind # "shopping" => parts = Whole)
    BY <2>2, RepliesWhole
  <2> QED
    BY <1>0, <2>1, <2>2, <2>3, EndsSound DEF Generations, Routes
<1>7. CASE ChatFails(r)
  <2>1. q.kind \in Generations /\ (q.context = "none" => q.blank)
    BY <1>0, <1>7 DEF ChatFails, Returns, q, Sound
  <2>2. PICK n \in FallsBack(q) : Becomes(r, n)
    BY <1>7 DEF ChatFails, q
  <2> QED
    BY <1>0, <2>1, <2>2, FallsBackSound
<1>8. CASE Embedded(r)
  <2>1. q.kind = "embedding"
    BY <1>0, <1>8 DEF Embedded, Returns, q, Sound
  <2>2. PICK by \in {"model", "mock"} : Becomes(r, Ends(q, "ok", by, {}))
    BY <1>8 DEF Embedded, q
  <2>3. q.kind \notin Generations /\ q.kind \in Routes /\ {} \in SUBSET (Whole \cup {"items"})
    BY <2>1 DEF Generations, Routes
  <2> QED
    BY <1>0, <2>2, <2>3, EndsSound
<1>9. CASE Inserted(r)
  <2>1. q.kind = "addItem" /\ q.pc = "insert"
    BY <1>0, <1>9 DEF Inserted, Returns, q, Sound
  <2>2. Becomes(r, Refused(q, "failed")) \/ Becomes(r, Calls(q, "vector"))
    BY <1>9 DEF Inserted, q
  <2>3. q.kind \in Routes
    BY <2>1 DEF Routes
  <2> QED
    BY <1>0, <2>1, <2>2, <2>3, RefusedSound, CallsSound
<1>10. CASE VectorReturns(r)
  <2>1. q.kind = "addItem" /\ q.pc = "vector"
    BY <1>0, <1>10 DEF VectorReturns, Returns, q, Sound
  <2>2. q.kind \in Routes
    BY <2>1 DEF Routes
  <2> QED
    BY <1>0, <1>10, <2>1, <2>2, CallsSound DEF VectorReturns, q
<1>11. CASE Updated(r) \/ Enqueued(r)
  <2>1. q.kind = "addItem" /\ q.pc \in {"update", "enqueue"}
    BY <1>0, <1>11 DEF Updated, Enqueued, Returns, q, Sound
  <2>2. q.kind \notin Generations /\ q.kind \in Routes /\ {} \in SUBSET (Whole \cup {"items"})
    BY <2>1 DEF Generations, Routes
  <2>3. Becomes(r, Ends(q, "ok", "none", {})) \/ Becomes(r, Calls(q, "enqueue"))
    BY <1>11 DEF Updated, Enqueued, q
  <2>4. Suspended(Ends(q, "ok", "none", {}), S)
    BY <1>0, <2>2, EndsSound
  <2>5. Suspended(Calls(q, "enqueue"), S)
    BY <1>0, <2>1, <2>2, CallsSound
  <2> QED
    BY <2>3, <2>4, <2>5
<1> QED
  BY <1>1, <1>2, <1>3, <1>4, <1>5, <1>6, <1>7, <1>8, <1>9, <1>10, <1>11 DEF Return

LEMMA TimesOutInv == ASSUME RequestsInv, NEW r \in Requests, TimesOut(r) PROVE RequestsInv'
<1> DEFINE q == req[r]  S == seen[r]
<1>0. Sound(q, S) /\ TypeOK /\ q \in RequestType /\ q.pc \in {"search", "chat", "embed", "vector"}
  BY DEF RequestsInv, Sound, TimesOut, Deadlined
<1> HIDE DEF q, S
<1> SUFFICES \E n : Suspended(n, S) /\ Becomes(r, n)
  BY BecomesInv DEF S
<1>1. CASE q.pc = "search"
  <2> DEFINE c == [q EXCEPT !.context = "knowledge"]
  <2>1. q.kind \in Generations
    BY <1>0, <1>1 DEF Sound
  <2>2. PICK n \in Generate(c) : Becomes(r, n)
    BY <1>1 DEF TimesOut, q
  <2>3. Sound(c, S) /\ c.kind = q.kind /\ c.pc = q.pc /\ c.context = "knowledge"
    BY <1>0, ContextSound DEF RequestType
  <2> HIDE DEF c
  <2> QED
    BY <1>1, <2>1, <2>2, <2>3, GenerateSound
<1>2. CASE q.pc = "vector"
  <2>1. q.kind = "addItem"
    BY <1>0, <1>2 DEF Sound
  <2>2. q.kind \in Routes
    BY <2>1 DEF Routes
  <2>3. Becomes(r, Calls(q, "enqueue"))
    BY <1>2 DEF TimesOut, q
  <2> QED
    BY <1>0, <1>2, <2>1, <2>2, <2>3, CallsSound
<1>3. CASE q.pc \in {"chat", "embed"}
  <2>1. PICK n \in FallsBack(q) : Becomes(r, n)
    BY <1>3 DEF TimesOut, q
  <2>2. q.kind \in Generations \cup {"embedding"} /\ (q.kind \in Generations => (q.context = "none" => q.blank))
    BY <1>0, <1>3 DEF Sound, Generations
  <2> QED
    BY <1>0, <2>1, <2>2, FallsBackSound
<1> QED
  BY <1>0, <1>1, <1>2, <1>3

LEMMA NextInv == RequestsInv /\ [Next]_vars => RequestsInv'
<1> SUFFICES ASSUME RequestsInv, [Next]_vars PROVE RequestsInv'
  OBVIOUS
<1>1. CASE Start
  BY <1>1, StartInv
<1>2. ASSUME NEW r \in Requests,
             Begin(r) \/ Return(r) \/ TimesOut(r) \/ Hang(r) \/ Leave(r)
      PROVE  RequestsInv'
  BY <1>2, BeginInv, ReturnInv, TimesOutInv, HangInv, LeaveInv
<1>3. CASE \E u \in Users : Move(u)
  BY <1>3, MoveInv
<1>4. CASE UNCHANGED vars
  BY <1>4 DEF vars, RequestsInv, TypeOK, OneLine, Waiting, Busy, Sound
<1> QED
  BY <1>1, <1>2, <1>3, <1>4 DEF Next

(* The invariant that carries the three below.                              *)
THEOREM Invariance == Spec => []RequestsInv
BY InitInv, NextInv, PTL DEF Spec

(* Types; no more calls run than the pool has threads, and those that wait  *)
(* stand in one line, whichever of them are cancelled by a deadline.        *)
THEOREM TypeCorrect == Spec => []TypeOK
<1>1. RequestsInv => TypeOK
  BY DEF RequestsInv
<1> QED
  BY <1>1, Invariance, PTL

(* However a user moves meanwhile, the household a handler is given is one  *)
(* of the user's since the request began, and nobody is refused for having  *)
(* none who was not without (get_current_household_id).                     *)
THEOREM HouseholdsAreOwn == Spec => []HouseholdIsOwn
<1>1. RequestsInv => HouseholdIsOwn
  BY DEF RequestsInv, Sound, HouseholdIsOwn
<1> QED
  BY <1>1, Invariance, PTL

(* No reply, failure, hang or deadline of the provider makes a generation   *)
(* answer with part of a recipe (GeminiAiWorkflow).                         *)
THEOREM GenerationsAreUsable == Spec => []AnswersAreUsable
<1>1. RequestsInv => AnswersAreUsable
  BY DEF RequestsInv, Sound, Usable, AnswersAreUsable, Generations, Whole
<1> QED
  BY <1>1, Invariance, PTL

-----------------------------------------------------------------------------
(* Which calls follow a call.                                               *)
LEMMA NextCall ==
    ASSUME NEW q \in RequestType
    PROVE  /\ \A pc : Calls(q, pc).pc = pc
           /\ \A status, by, parts : Ends(q, status, by, parts).pc = "answered"
           /\ \A status : Refused(q, status).pc = "answered"
           /\ \A n \in FallsBack(q) : n.pc = "answered"
           /\ \A n \in Generate(q) : n.pc \in {"chat", "answered"}
           /\ \A n \in Identified(q) : n.pc \in {"household", "answered"}
<1>1. /\ \A pc : Calls(q, pc).pc = pc
      /\ \A status, by, parts : Ends(q, status, by, parts).pc = "answered"
  BY DEF Calls, Ends, RequestType
<1>2. \A status : Refused(q, status).pc = "answered"
  BY <1>1 DEF Refused
<1>3. \A n \in FallsBack(q) : n.pc = "answered"
  BY <1>1 DEF FallsBack
<1>4. \A n \in Generate(q) : n.pc \in {"chat", "answered"}
  BY <1>1, <1>3 DEF Generate
<1>5. \A n \in Identified(q) : n.pc \in {"household", "answered"}
  BY <1>1, <1>2 DEF Identified
<1> QED
  BY <1>1, <1>2, <1>3, <1>4, <1>5

LEMMA NextCallOfHandler ==
    ASSUME NEW q \in RequestType, NEW n \in Handle(q)
    PROVE  n.pc \in {"search", "chat", "embed", "insert", "answered"}
<1> DEFINE c == [q EXCEPT !.context = "knowledge"]
<1>1. c \in RequestType
  BY DEF RequestType
<1>2. \A m \in Retrieve(q) : m.pc \in {"search", "chat", "answered"}
  <2>1. \A m \in Generate(c) : m.pc \in {"chat", "answered"}
    BY <1>1, NextCall
  <2> HIDE DEF c
  <2>2. CASE q.blank
    BY <2>2, NextCall DEF Retrieve
  <2>3. CASE ~q.blank
    BY <2>1, <2>3, NextCall DEF Retrieve, c
  <2> QED
    BY <2>2, <2>3
<1> QED
  BY <1>2, NextCall DEF Handle

LEMMA NextCallOfAuthentication ==
    ASSUME NEW q \in RequestType, NEW credential, NEW n \in Authenticate(q, credential)
    PROVE  n.pc \in {"user", "household", "search", "chat", "embed", "insert", "answered"}
<1>1. \/ n \in Handle(q) \/ n \in Identified(q)
      \/ n \in {Refused(q, "unavailable"), Refused(q, "unauthorized"), Calls(q, "user")}
  BY DEF Authenticate
<1> QED
  BY <1>1, NextCall, NextCallOfHandler

-----------------------------------------------------------------------------
(* RequestsAdvance, of one step.                                            *)
Advance == \A r \in Requests : req[r].pc \notin {"idle", "answered"} =>
    \/ Further(req[r], req'[r])
    \/ req'[r] = req[r] /\ ahead'[r] \subseteq ahead[r]

(* A step of one request: the others stay where they are.                   *)
LEMMA OneAdvances ==
    ASSUME TypeOK, NEW r \in Requests, NEW n, req' = [req EXCEPT ![r] = n],
           Queues(r, n) \/ UNCHANGED ahead,
           req[r].pc \notin {"idle", "answered"} => Further(req[r], n)
    PROVE  Advance
<1>1. ASSUME NEW s \in Requests, s # r PROVE req'[s] = req[s] /\ ahead'[s] \subseteq ahead[s]
  <2>1. req'[s] = req[s]
    BY <1>1 DEF TypeOK
  <2>2. CASE Queues(r, n)
    <3>1. ahead' \in {OutOfLine(r), [OutOfLine(r) EXCEPT ![r] = Waiting \ {r}]}
      BY <2>2 DEF Queues
    <3>2. ahead'[s] = ahead[s] \ {r}
      BY <1>1, <3>1 DEF OutOfLine
    <3> QED
      BY <2>1, <3>2
  <2> QED
    BY <2>1, <2>2
<1>2. req'[r] = n
  BY DEF TypeOK
<1> QED
  BY <1>1, <1>2 DEF Advance

LEMMA BecomesAdvance ==
    ASSUME TypeOK, NEW r \in Requests, NEW n, Becomes(r, n), Stage(n.pc) > Stage(req[r].pc)
    PROVE  Advance
BY OneAdvances DEF Becomes, Further

LEMMA ReturnAdvance == ASSUME RequestsInv, NEW r \in Requests, Return(r) PROVE Advance
<1> DEFINE q == req[r]
<1>0. q \in RequestType /\ TypeOK
  BY DEF RequestsInv, TypeOK
<1> HIDE DEF q
<1> SUFFICES \E n : Becomes(r, n) /\ Stage(n.pc) > Stage(q.pc)
  BY <1>0, BecomesAdvance DEF q
<1>1. CASE Prepared(r)
  <2>1. PICK credential \in Credentials : \E n \in Authenticate(q, credential) : Becomes(r, n)
    BY <1>1 DEF Prepared, q
  <2>2. PICK n \in Authenticate(q, credential) : Becomes(r, n)
    BY <2>1
  <2>3. q.pc = "prepare"
    BY <1>1 DEF Prepared, Returns, q
  <2>4. n.pc \in {"user", "household", "search", "chat", "embed", "insert", "answered"}
    BY <1>0, <2>2, NextCallOfAuthentication
  <2> QED
    BY <2>2, <2>3, <2>4 DEF Stage
<1>2. CASE UserIsKnown(r)
  <2>1. PICK n \in Identified(q) \cup {Refused(q, "unauthorized")} : Becomes(r, n)
    BY <1>2 DEF UserIsKnown, q
  <2>2. q.pc = "user" /\ n.pc \in {"household", "answered"}
    BY <1>0, <1>2, <2>1, NextCall DEF UserIsKnown, Returns, q
  <2> QED
    BY <2>1, <2>2 DEF Stage
<1>3. CASE HouseholdIsRead(r)
  <2>1. q.pc = "household"
    BY <1>3 DEF HouseholdIsRead, Returns, q
  <2>2. \/ \E status : Becomes(r, Refused(q, status))
        \/ \E h \in Houses \cup {None} : \E n \in Handle([q EXCEPT !.household = h]) : Becomes(r, n)
    <3>1. home[q.user] \in Houses \cup {None}
      BY <2>1 DEF RequestsInv, TypeOK, Sound, q
    <3> QED
      BY <1>3, <3>1 DEF HouseholdIsRead, HouseholdsOf, q
  <2>3. CASE \E status : Becomes(r, Refused(q, status))
    BY <1>0, <2>1, <2>3, NextCall DEF Stage
  <2>4. ASSUME NEW h \in Houses \cup {None}, NEW n \in Handle([q EXCEPT !.household = h]), Becomes(r, n)
        PROVE  \E m : Becomes(r, m) /\ Stage(m.pc) > Stage(q.pc)
    <3>1. [q EXCEPT !.household = h] \in RequestType
      BY <1>0 DEF RequestType
    <3>2. n.pc \in {"search", "chat", "embed", "insert", "answered"}
      BY <3>1, <2>4, NextCallOfHandler
    <3> QED
      BY <2>1, <2>4, <3>2 DEF Stage
  <2> QED
    BY <2>2, <2>3, <2>4
<1>4. CASE SearchReturns(r) \/ SearchFails(r)
  <2>1. q.pc = "search"
    BY <1>4 DEF SearchReturns, SearchFails, Returns, q
  <2>2. PICK matched \in BOOLEAN, context \in {"pantry", "knowledge"} :
           \/ \E n \in Generate([q EXCEPT !.matched = matched, !.context = context]) : Becomes(r, n)
           \/ \E n \in Generate([q EXCEPT !.context = context]) : Becomes(r, n)
    BY <1>4 DEF SearchReturns, SearchFails, q
  <2>3. /\ [q EXCEPT !.matched = matched, !.context = context] \in RequestType
        /\ [q EXCEPT !.context = context] \in RequestType
    BY <1>0 DEF RequestType
  <2>4. PICK n : Becomes(r, n) /\ n.pc \in {"chat", "answered"}
    BY <2>2, <2>3, NextCall
  <2> QED
    BY <2>1, <2>4 DEF Stage
<1>5. CASE ChatReturns(r) \/ ChatFails(r) \/ Embedded(r)
  <2>1. q.pc \in {"chat", "embed"}
    BY <1>5 DEF ChatReturns, ChatFails, Embedded, Returns, q
  <2>2. PICK n : Becomes(r, n) /\ n.pc = "answered"
    BY <1>0, <1>5, NextCall DEF ChatReturns, ChatFails, Embedded, q
  <2> QED
    BY <2>1, <2>2 DEF Stage
<1>6. CASE Inserted(r)
  <2>1. q.pc = "insert"
    BY <1>6 DEF Inserted, Returns, q
  <2>2. PICK n : Becomes(r, n) /\ n.pc \in {"vector", "answered"}
    BY <1>0, <1>6, NextCall DEF Inserted, q
  <2> QED
    BY <2>1, <2>2 DEF Stage
<1>7. CASE VectorReturns(r)
  <2>1. q.pc = "vector"
    BY <1>7 DEF VectorReturns, Returns, q
  <2>2. PICK n : Becomes(r, n) /\ n.pc \in {"update", "enqueue"}
    BY <1>0, <1>7, NextCall DEF VectorReturns, q
  <2> QED
    BY <2>1, <2>2 DEF Stage
<1>8. CASE Updated(r)
  <2>1. q.pc = "update"
    BY <1>8 DEF Updated, Returns, q
  <2>2. PICK n : Becomes(r, n) /\ n.pc \in {"enqueue", "answered"}
    BY <1>0, <1>8, NextCall DEF Updated, q
  <2> QED
    BY <2>1, <2>2 DEF Stage
<1>9. CASE Enqueued(r)
  <2>1. q.pc = "enqueue"
    BY <1>9 DEF Enqueued, Returns, q
  <2>2. PICK n : Becomes(r, n) /\ n.pc = "answered"
    BY <1>0, <1>9, NextCall DEF Enqueued, q
  <2> QED
    BY <2>1, <2>2 DEF Stage
<1> QED
  BY <1>1, <1>2, <1>3, <1>4, <1>5, <1>6, <1>7, <1>8, <1>9 DEF Return

LEMMA TimesOutAdvance == ASSUME TypeOK, NEW r \in Requests, TimesOut(r) PROVE Advance
<1> DEFINE q == req[r]  c == [q EXCEPT !.context = "knowledge"]
<1>0. q \in RequestType /\ q.pc \in {"search", "chat", "embed", "vector"}
  BY DEF TypeOK, TimesOut, Deadlined
<1>1. c \in RequestType
  BY <1>0 DEF RequestType
<1>2. PICK n : /\ Becomes(r, n)
               /\ CASE q.pc = "search" -> n \in Generate(c)
                    [] q.pc = "vector" -> n = Calls(q, "enqueue")
                    [] OTHER -> n \in FallsBack(q)
  BY DEF TimesOut
<1> HIDE DEF q, c
<1>3. Stage(n.pc) > Stage(q.pc)
  <2>1. CASE q.pc = "search"
    <3>1. n.pc \in {"chat", "answered"}
      BY <1>1, <1>2, <2>1, NextCall
    <3> QED
      BY <2>1, <3>1 DEF Stage
  <2>2. CASE q.pc = "vector"
    <3>1. n.pc = "enqueue"
      BY <1>0, <1>2, <2>2, NextCall
    <3> QED
      BY <2>2, <3>1 DEF Stage
  <2>3. CASE q.pc \in {"chat", "embed"}
    <3>1. n.pc = "answered"
      BY <1>0, <1>2, <2>3, NextCall
    <3> QED
      BY <2>3, <3>1 DEF Stage
  <2> QED
    BY <1>0, <2>1, <2>2, <2>3
<1> QED
  BY <1>2, <1>3, BecomesAdvance DEF q

LEMMA StartAdvance == ASSUME TypeOK, Start PROVE Advance
<1>1. PICK r \in Waiting : req' = [req EXCEPT ![r].call = "running"] /\ ahead' = OutOfLine(r)
  BY DEF Start
<1> DEFINE n == [req[r] EXCEPT !.call = "running"]
<1>2. r \in Requests /\ req[r].call = "waiting" /\ req[r] \in RequestType
  BY DEF Waiting, TypeOK
<1>3. n.pc = req[r].pc /\ n.call = "running"
  BY <1>2 DEF RequestType
<1>4. req' = [req EXCEPT ![r] = n]
  BY <1>1, <1>2 DEF TypeOK
<1> HIDE DEF n
<1>5. Queues(r, n)
  BY <1>1, <1>3 DEF Queues
<1>6. Further(req[r], n)
  BY <1>2, <1>3 DEF Further, Phase
<1> QED
  BY <1>2, <1>4, <1>5, <1>6, OneAdvances

LEMMA HangAdvance == ASSUME TypeOK, NEW r \in Requests, Hang(r) PROVE Advance
<1> DEFINE n == [req[r] EXCEPT !.call = "hung"]
<1>1. req[r].call = "running" /\ req[r] \in RequestType /\ UNCHANGED ahead
  BY DEF Hang, TypeOK
<1>2. n.pc = req[r].pc /\ n.call = "hung"
  BY <1>1 DEF RequestType
<1>3. req' = [req EXCEPT ![r] = n]
  BY DEF Hang, TypeOK
<1> HIDE DEF n
<1>4. Further(req[r], n)
  BY <1>1, <1>2 DEF Further, Phase
<1> QED
  BY <1>1, <1>3, <1>4, OneAdvances

(* Whatever fails, hangs late or is cancelled, a request goes from call to  *)
(* later call and is overtaken by nobody while it waits (the handlers of    *)
(* gemini_workflow.py and pantry_service.py under fail_after).              *)
THEOREM RequestsOnlyAdvance == Spec => RequestsAdvance
<1>1. RequestsInv /\ [Next]_vars => [Advance]_vars
  <2> SUFFICES ASSUME RequestsInv, Next PROVE Advance
    OBVIOUS
  <2>0. TypeOK
    BY DEF RequestsInv
  <2>1. CASE Start
    BY <2>0, <2>1, StartAdvance
  <2>2. ASSUME NEW r \in Requests, Begin(r) \/ Leave(r) PROVE Advance
    <3>1. PICK n : req' = [req EXCEPT ![r] = n] /\ (Queues(r, n) \/ UNCHANGED ahead)
      BY <2>2 DEF Begin, Leave
    <3>2. req[r].pc \in {"idle", "answered"}
      BY <2>2 DEF Begin, Leave
    <3> QED
      BY <2>0, <3>1, <3>2, OneAdvances
  <2>3. ASSUME NEW r \in Requests, Return(r) \/ TimesOut(r) \/ Hang(r) PROVE Advance
    BY <2>0, <2>3, ReturnAdvance, TimesOutAdvance, HangAdvance
  <2>4. ASSUME NEW u \in Users, Move(u) PROVE Advance
    BY <2>4 DEF Move, Advance
  <2> QED
    BY <2>1, <2>2, <2>3, <2>4 DEF Next
<1> QED
  BY <1>1, Invariance, PTL DEF Spec, RequestsAdvance, Advance

=============================================================================
