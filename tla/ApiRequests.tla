---------------------------- MODULE ApiRequests ----------------------------
(***************************************************************************)
(* The requests of one process on their way through authentication,        *)
(* retrieval and the language model.  The event loop runs a handler up to   *)
(* its next blocking call, which a thread of anyio's pool makes; the pool   *)
(* is shared by all requests and hands its threads out in order of arrival. *)
(* anyio.fail_after cancels a call only as long as it waits for a thread:   *)
(* one that is running is shielded, and what it returns late is used.       *)
(*                                                                         *)
(* A call to the provider may hang for ever; calls to the database are      *)
(* ended by the timeout of their client.                                    *)
(***************************************************************************)
EXTENDS Naturals, FiniteSets

CONSTANTS
    Users, Houses,
    Stocked,        \* the households with rows that match_pantry_items may return
    Requests,       \* requests in progress at the same time
    Kinds,          \* the routes they may be for
    Threads,        \* size of the pool
    None

VARIABLES
    settings,       \* what is configured; read once and kept
    home,           \* household_members, which other processes change as well
    req,            \* the requests in progress
    ahead,          \* the requests that get a thread before a request that waits for one
    seen            \* history: the households of the user since the request began

vars == <<settings, home, req, ahead, seen>>

Routes == {"recipe", "shopping", "legacyRecipe", "embedding", "addItem"}

ASSUME RequestsAssumption ==
    /\ Threads \in Nat \ {0}
    /\ IsFiniteSet(Requests)
    /\ Kinds \subseteq Routes
    /\ Stocked \subseteq Houses
    /\ None \notin Users \cup Houses

-----------------------------------------------------------------------------
(* What a reply of the model is worth.  A field of its JSON is absent (or   *)
(* null, or empty), a list of blank strings, a list with some text, or a    *)
(* number, which cannot be iterated over.                                   *)

Field == {"absent", "blank", "text", "number"}

RecipeReply == [shape : {"unparsable", "scalar", "emptyList", "list", "dict"},
                title : {"absent", "blank", "null", "text"},
                ingredients : Field, instructions : Field, steps : Field, extras : Field]

FirstOf(a, b) == IF a = "absent" THEN b ELSE a

(* The parts of a recipe that have any text; what is not one is None, and   *)
(* a TypeError is "raised".  str(None) is a title.                          *)
Parts(reply) ==
    (IF reply.title \in {"null", "text"} THEN {"title"} ELSE {})
    \cup (IF reply.ingredients = "text" THEN {"ingredients"} ELSE {})
    \cup (IF FirstOf(reply.instructions, reply.steps) = "text" THEN {"instructions"} ELSE {})

Whole == {"title", "ingredients", "instructions"}

AcceptsPartialRecipe(reply) ==
    IF reply.shape \notin {"list", "dict"} THEN {} ELSE Parts(reply)

NormalizeRecipe(reply) ==
    IF reply.shape \notin {"list", "dict"} THEN {}
    ELSE IF "number" \in {reply.ingredients, FirstOf(reply.instructions, reply.steps)} THEN {}
    ELSE IF Parts(reply) # Whole \/ reply.extras = "number" THEN {}
    ELSE Whole

ShoppingReply == [shape : {"unparsable", "list", "dict"}, items : Field]

NormalizeShoppingList(reply) ==
    IF reply.shape = "dict" /\ reply.items = "text" THEN {"items"} ELSE {}

(* All that may come of a reply: the parts that the answer will have, {}    *)
(* when it is normalised to None or the normalisation raises.               *)
RecipeReplies == {NormalizeRecipe(p) : p \in RecipeReply}
ShoppingReplies == {NormalizeShoppingList(p) : p \in ShoppingReply}

Replies(kind) == IF kind = "shopping" THEN ShoppingReplies ELSE RecipeReplies

MockPartsOfPrompt(kind) ==
    CASE kind = "shopping" -> {{}, {"ingredients_to_buy"}} [] kind = "embedding" -> {{}} [] OTHER -> {Whole}

(* The answers of MockAiWorkflow.  Its shopping list may be an empty one.   *)
MockParts(kind) ==
    CASE kind = "shopping" -> {{}, {"items"}} [] kind = "embedding" -> {{}} [] OTHER -> {Whole}

-----------------------------------------------------------------------------
(* match_pantry_items returns these columns; a row without a content is no  *)
(* document for the vector store.                                           *)
MatchColumns == {"id", "owner_id", "household_id", "name", "category", "quantity",
                 "unit", "expiry_date", "embedding_status", "similarity"}

Matches(h) == IF h = None THEN Stocked ELSE Stocked \cap {h}

Documents(rows) == IF "content" \in MatchColumns THEN rows ELSE {}

-----------------------------------------------------------------------------
Homes == INSTANCE Residence

NoAnswer == [status |-> "none", by |-> "none", parts |-> {}]

Idle == [pc |-> "idle", call |-> "none", kind |-> "none", user |-> None, blank |-> FALSE,
         household |-> None, matched |-> FALSE, context |-> "none", answer |-> NoAnswer]

Init ==
    /\ settings \in [gemini : BOOLEAN, supabase : BOOLEAN, devHeader : BOOLEAN]
    /\ Homes!Init
    /\ req = [r \in Requests |-> Idle]
    /\ ahead = [r \in Requests |-> {}]
    /\ seen = [r \in Requests |-> {}]

(* The next call of a request: it queues for a thread.                      *)
Calls(state, pc) == [state EXCEPT !.pc = pc, !.call = "waiting"]

Ends(state, status, by, parts) ==
    [state EXCEPT !.pc = "answered", !.call = "none",
                  !.answer = [status |-> status, by |-> by, parts |-> parts]]

Refused(state, status) == Ends(state, status, "none", {})

(* The threads are handed out in order of arrival.  A request that waits no *)
(* longer, served or timed out, leaves the line.                            *)
Waiting == {r \in Requests : req[r].call = "waiting"}

OutOfLine(r) == [s \in Requests |-> IF s = r THEN {} ELSE ahead[s] \ {r}]

Queues(r, state) ==
    ahead' = IF state.call = "waiting" THEN [OutOfLine(r) EXCEPT ![r] = Waiting \ {r}]
             ELSE OutOfLine(r)

Becomes(r, state) ==
    /\ req' = [req EXCEPT ![r] = state]
    /\ Queues(r, state)
    /\ UNCHANGED <<settings, home, seen>>

(* What a handler does between two calls, as the states it may be in next.  *)

TriesAgain(state) == {Calls(state, "chat")}

FallsBack(state) == {Ends(state, "ok", "mock", p) : p \in MockParts(state.kind)}

(* _generate_with_gemini once it has the context.                           *)
Generate(state) ==
    IF settings.gemini THEN {Calls(state, "chat")} ELSE FallsBack(state)

(* retrieve_context: no query, no context; no vector store, the keywords.   *)
Retrieve(state) ==
    IF state.blank THEN Generate(state)
    ELSE IF settings.gemini /\ settings.supabase THEN {Calls(state, "search")}
    ELSE Generate([state EXCEPT !.context = "knowledge"])

Handle(state) ==
    IF state.kind = "embedding"
    THEN IF settings.gemini THEN {Calls(state, "embed")} ELSE FallsBack(state)
    ELSE IF state.kind = "addItem" THEN {Calls(state, "insert")}
    ELSE Retrieve(state)

(* get_current_household_id needs the client, which may not be configured.  *)
Identified(state) ==
    IF settings.supabase THEN {Calls(state, "household")} ELSE {Refused(state, "unavailable")}

Public(kind) == kind \in {"legacyRecipe", "embedding"}

(* get_current_user, with a token, the development header or nothing.       *)
Credentials == {"missing", "bearer", "header"}

Authenticate(state, credential) ==
    IF Public(state.kind) THEN Handle(state)
    ELSE IF settings.devHeader /\ credential = "header"
         THEN Identified(state) \cup {Refused(state, "unauthorized")}   \* no UUID
    ELSE IF ~settings.supabase THEN {Refused(state, "unavailable")}
    ELSE IF credential # "bearer" THEN {Refused(state, "unauthorized")}
    ELSE {Calls(state, "user")}

-----------------------------------------------------------------------------
(* Dependencies that are plain functions run in a thread as well; the call  *)
(* at the start stands for all of them.  Only the query of a shopping list  *)
(* can be blank.                                                            *)
Begin(r) == \E kind \in Kinds, u \in Users, blank \in BOOLEAN :
    LET user == IF Public(kind) THEN None ELSE u
        state == Calls([Idle EXCEPT !.kind = kind, !.blank = blank, !.user = user], "prepare")
    IN  /\ req[r].pc = "idle"
        /\ blank => kind = "shopping"
        /\ req' = [req EXCEPT ![r] = state]
        /\ Queues(r, state)
        /\ seen' = [seen EXCEPT ![r] = IF Public(kind) THEN {} ELSE {home[u]}]
        /\ UNCHANGED <<settings, home>>

(* The first in line gets a thread that is free.                            *)
Busy == {r \in Requests : req[r].call \in {"running", "hung"}}

Start == \E r \in Waiting :
    /\ ahead[r] = {}
    /\ Cardinality(Busy) < Threads
    /\ req' = [req EXCEPT ![r].call = "running"]
    /\ ahead' = OutOfLine(r)
    /\ UNCHANGED <<settings, home, seen>>

Returns(r, pc) == req[r].pc = pc /\ req[r].call = "running"

Prepared(r) ==
    /\ Returns(r, "prepare")
    /\ \E credential \in Credentials :
          \E state \in Authenticate(req[r], credential) : Becomes(r, state)

(* supabase.auth.get_user knows the token, does not, or raises.             *)
UserIsKnown(r) ==
    /\ Returns(r, "user")
    /\ \E state \in Identified(req[r]) \cup {Refused(req[r], "unauthorized")} :
          Becomes(r, state)

AnyHousehold(u) == Houses

HouseholdsOf(u) == {home[u]}

HouseholdIsRead(r) ==
    /\ Returns(r, "household")
    /\ \/ Becomes(r, Refused(req[r], "badGateway"))
       \/ \E h \in HouseholdsOf(req[r].user) :
             IF h = None THEN Becomes(r, Refused(req[r], "forbidden"))
             ELSE \E state \in Handle([req[r] EXCEPT !.household = h]) : Becomes(r, state)

(* The search embeds the query and calls match_pantry_items, in one thread. *)
SearchReturns(r) == \E rows \in {Matches(req[r].household), {}} :
    LET context == IF Documents(rows) # {} THEN "pantry" ELSE "knowledge"
    IN  /\ Returns(r, "search")
        /\ \E state \in Generate([req[r] EXCEPT !.matched = rows # {}, !.context = context]) :
              Becomes(r, state)

(* The search raises.                                                       *)
SearchFails(r) ==
    /\ Returns(r, "search")
    /\ \E state \in Generate([req[r] EXCEPT !.context = "knowledge"]) : Becomes(r, state)

ChatReturns(r) == \E parts \in Replies(req[r].kind) :
    /\ Returns(r, "chat")
    /\ parts # {}
    /\ Becomes(r, Ends(req[r], "ok", "model", parts))

(* The call raises, or its reply is no use.                                 *)
ChatFails(r) ==
    /\ Returns(r, "chat")
    /\ \E state \in FallsBack(req[r]) : Becomes(r, state)

Embedded(r) == \E by \in {"model", "mock"} :
    /\ Returns(r, "embed")
    /\ Becomes(r, Ends(req[r], "ok", by, {}))

(* add_single_item: the row, its vector, the update of the row; where one   *)
(* of the last two fails, a job, whose failure does not reach the client.   *)
Inserted(r) == \E fails \in BOOLEAN :
    /\ Returns(r, "insert")
    /\ Becomes(r, IF fails THEN Refused(req[r], "failed") ELSE Calls(req[r], "vector"))

VectorReturns(r) == \E next \in {"update", "enqueue"} :
    /\ Returns(r, "vector")
    /\ Becomes(r, Calls(req[r], next))

Updated(r) == \E fails \in BOOLEAN :
    /\ Returns(r, "update")
    /\ Becomes(r, IF fails THEN Calls(req[r], "enqueue") ELSE Ends(req[r], "ok", "none", {}))

Enqueued(r) ==
    /\ Returns(r, "enqueue")
    /\ Becomes(r, Ends(req[r], "ok", "none", {}))

(* fail_after, while the call still waits for its thread.  The calls under  *)
(* a deadline are those to the provider.                                    *)
DeadlinedRetrieval == {"search"}

Deadlined == {"search", "chat", "embed", "vector"}

TimesOut(r) ==
    LET state == req[r]
        after == CASE state.pc = "search" -> Generate([state EXCEPT !.context = "knowledge"])
                   [] state.pc = "vector" -> {Calls(state, "enqueue")}
                   [] OTHER -> FallsBack(state)
    IN  /\ state.call = "waiting" /\ state.pc \in Deadlined
        /\ \E next \in after : Becomes(r, next)

(* A provider that never answers keeps its thread.                          *)
Hang(r) ==
    /\ req[r].call = "running"
    /\ req[r].pc \in {"search", "chat", "embed", "vector"}
    /\ req' = [req EXCEPT ![r].call = "hung"]
    /\ UNCHANGED <<settings, home, ahead, seen>>

Leave(r) ==
    /\ req[r].pc = "answered"
    /\ req' = [req EXCEPT ![r] = Idle]
    /\ seen' = [seen EXCEPT ![r] = {}]
    /\ UNCHANGED <<settings, home, ahead>>

(* A join or leave, made by any process.                                    *)
Move(u) ==
    /\ Homes!Moves(u)
    /\ seen' = [r \in Requests |-> IF req[r].user = u THEN seen[r] \cup {home'[u]} ELSE seen[r]]
    /\ UNCHANGED <<settings, req, ahead>>

-----------------------------------------------------------------------------
Return(r) ==
    \/ Prepared(r) \/ UserIsKnown(r) \/ HouseholdIsRead(r)
    \/ SearchReturns(r) \/ SearchFails(r) \/ ChatReturns(r) \/ ChatFails(r)
    \/ Embedded(r) \/ Inserted(r) \/ VectorReturns(r)
    \/ Updated(r) \/ Enqueued(r)

Next ==
    \/ Start
    \/ \E r \in Requests :
          Begin(r) \/ Return(r) \/ TimesOut(r) \/ Hang(r) \/ Leave(r)
    \/ \E u \in Users : Move(u)

Spec == Init /\ [][Next]_vars

(* The pool serves its queue, a call that does not hang returns, and the    *)
(* clock reaches every deadline.                                            *)
FairSpec ==
    /\ Spec
    /\ WF_vars(Start)
    /\ \A r \in Requests : WF_vars(Return(r)) /\ WF_vars(TimesOut(r))

-----------------------------------------------------------------------------
Stages == {"idle", "prepare", "user", "household", "search", "chat", "embed", "insert",
           "vector", "update", "enqueue", "answered"}

RequestType ==
    [pc : Stages, call : {"none", "waiting", "running", "hung"},
     kind : Routes \cup {"none"}, user : Users \cup {None}, blank : BOOLEAN,
     household : Houses \cup {None}, matched : BOOLEAN, context : {"none", "pantry", "knowledge"},
     answer : [status : {"none", "ok", "unauthorized", "forbidden", "unavailable",
                         "badGateway", "failed"},
               by : {"none", "model", "mock"}, parts : SUBSET (Whole \cup {"items"})]]

OneLine ==
    /\ ahead \in [Requests -> SUBSET Waiting]
    /\ \A r \in Requests : r \notin ahead[r] /\ (r \notin Waiting => ahead[r] = {})
    /\ \A r, s \in Waiting : r # s => (r \in ahead[s] <=> s \notin ahead[r])

(* The variables have their types, and the bookkeeping of the pool is       *)
(* right: never more calls run than there are threads, and those that wait  *)
(* stand in one line.                                                       *)
TypeOK ==
    /\ settings \in [gemini : BOOLEAN, supabase : BOOLEAN, devHeader : BOOLEAN]
    /\ home \in [Users -> Houses \cup {None}]
    /\ req \in [Requests -> RequestType]
    /\ seen \in [Requests -> SUBSET (Houses \cup {None})]
    /\ Cardinality(Busy) <= Threads
    /\ OneLine

(* A household that authentication hands to a handler is one in which the   *)
(* user has been since the request began - it may have been left by then -  *)
(* and who is refused for having none has been without (auth.py, the        *)
(* dependency of every insert and every generation).                        *)
HouseholdIsOwn == \A r \in Requests :
    /\ req[r].household # None => req[r].household \in seen[r]
    /\ req[r].answer.status = "forbidden" => None \in seen[r]

(* Whatever the provider replies, and whether it does, a generation that is *)
(* not refused answers with a whole recipe, or with a list that is empty    *)
(* only when the fallback found nothing missing; and it had a context       *)
(* unless there was nothing to search for (GeminiAiWorkflow).               *)
AnswersAreUsable == \A r \in Requests :
    LET answer == req[r].answer
    IN  (req[r].kind \in {"recipe", "legacyRecipe", "shopping"} /\ answer.status = "ok") =>
            /\ IF req[r].kind # "shopping" THEN answer.parts = {"title", "ingredients", "instructions"}
               ELSE answer.by = "model" => answer.parts # {}
            /\ req[r].context = "none" => req[r].blank

(* A request is out of reach of every deadline when its own call hangs, or  *)
(* when it waits for a thread without a deadline and all of them hang.      *)
Stuck(r) ==
    \/ req[r].call = "hung"
    \/ /\ req[r].call = "waiting"
       /\ req[r].pc \in {"prepare", "user", "household", "insert", "update", "enqueue"}
       /\ Cardinality({s \in Requests : req[s].call = "hung"}) = Threads

(* Every request is answered, but for those that are stuck: the deadlines   *)
(* of 30, 4 and 5 seconds cover the wait for a thread and nothing else.     *)
RequestsEnd == \A r \in Requests :
    req[r].pc # "idle" ~> req[r].pc \in {"answered", "idle"} \/ Stuck(r)

(* A request makes each call once: whatever fails or is cancelled, the next *)
(* call is a later one.  While it waits, only those before it go first.     *)
Stage(pc) ==
    CASE pc = "idle" -> 0 [] pc = "prepare" -> 1 [] pc = "user" -> 2 [] pc = "household" -> 3
      [] pc \in {"search", "insert"} -> 4 [] pc \in {"chat", "embed", "vector"} -> 5
      [] pc = "update" -> 6 [] pc = "enqueue" -> 7 [] pc = "answered" -> 8

Phase(call) ==
    CASE call = "none" -> 0 [] call = "waiting" -> 1 [] call = "running" -> 2 [] call = "hung" -> 3

Further(q, next) ==
    \/ Stage(next.pc) > Stage(q.pc)
    \/ next.pc = q.pc /\ Phase(next.call) > Phase(q.call)

RequestsAdvance ==
    [][\A r \in Requests : req[r].pc \notin {"idle", "answered"} =>
           \/ Further(req[r], req'[r])
           \/ req'[r] = req[r] /\ ahead'[r] \subseteq ahead[r]]_vars

(* What the retrieval is for: when rows of the pantry match the query, the  *)
(* context is made of them (context_retrieval.py, vector_store.py).         *)
PantryIsRetrieved == \A r \in Requests :
    req[r].answer.status = "ok" /\ req[r].matched => req[r].context = "pantry"

=============================================================================
