---------------------------- MODULE RandomRecipe ----------------------------
(***************************************************************************)
(* The random recipe behind its gates: who passes the limiter of its user  *)
(* is answered with the recipe of the read cache, or fetches a new one     *)
(* from TheMealDB, outside of the cache's lock, and stores it.  The other  *)
(* routes go on next to it.                                                *)
(***************************************************************************)
EXTENDS RateLimits

CONSTANT Ttl    \* MEALDB_RANDOM_RECIPE_CACHE_TTL_SECONDS

ASSUME RecipeAssumption == Ttl \in Nat \ {0} /\ IsFiniteSet(Requests)

VARIABLES
    cached,     \* when the cached recipe was stored
    asks,       \* what each request will do behind its gates
    stores      \* history: when a recipe was stored

recipeVars == <<now, data, req, passed, cached, asks, stores>>

Never == [there |-> FALSE, at |-> 0]

RecipeInit ==
    /\ Init
    /\ cached = Never
    /\ asks = [r \in Requests |-> "other"]
    /\ stores = <<>>

Pass(r) ==
    /\ Arrive(r) \/ Authenticate(r) \/ Waive(r) \/ Admit(r) \/ Reject(r)
    /\ asks' = [asks EXCEPT ![r] =
                   IF ~req'[r].busy THEN "other"
                   ELSE IF req'[r].todo = Gates.random THEN "recipe" ELSE @]
    /\ UNCHANGED <<cached, stores>>

(* The request has passed its gates and is answered.                        *)
Respond(r, what) ==
    /\ asks[r] = what
    /\ Answer(r)
    /\ asks' = [asks EXCEPT ![r] = "other"]

AnswerOther(r) == Respond(r, "other") /\ UNCHANGED <<cached, stores>>

FreshForLess(e) == e.there /\ now - e.at < Ttl - 1

FreshRecipe(e) == e.there /\ now - e.at < Ttl

Cached(r) ==
    /\ FreshRecipe(cached)
    /\ Respond(r, "recipe")
    /\ UNCHANGED <<cached, stores>>

Miss(r) ==
    /\ req[r].busy /\ req[r].todo = <<>>
    /\ asks[r] = "recipe"
    /\ ~FreshRecipe(cached)
    /\ asks' = [asks EXCEPT ![r] = "fetch"]
    /\ UNCHANGED <<vars, cached, stores>>

Fetched(r) ==
    /\ Respond(r, "fetch")
    /\ cached' = [there |-> TRUE, at |-> now]
    /\ stores' = Append(stores, now)

(* No answer, an error, or no meal in it: a 502 or 500, and nothing stored. *)
FetchFails(r) == Respond(r, "fetch") /\ UNCHANGED <<cached, stores>>

TimePasses == Tick /\ UNCHANGED <<cached, asks, stores>>

RecipeNext ==
    \/ TimePasses
    \/ \E r \in Requests :
          Pass(r) \/ AnswerOther(r) \/ Cached(r) \/ Miss(r) \/ Fetched(r) \/ FetchFails(r)

RecipeSpec == RecipeInit /\ [][RecipeNext]_recipeVars

-----------------------------------------------------------------------------
(* Every variable has its type, and the cached recipe is the last stored.   *)
RecipeTypeOK ==
    /\ TypeOK
    /\ asks \in [Requests -> {"other", "recipe", "fetch"}]
    /\ stores \in Seq(0 .. now)
    /\ cached = IF stores = <<>> THEN Never ELSE [there |-> TRUE, at |-> stores[Len(stores)]]

(* Requests that overlap may all fetch when the recipe is out of date, but  *)
(* however their fetches overlap, more recipes than there are requests at a *)
(* time are never stored within one TTL.  Fetches that fail store nothing   *)
(* and are not counted.                                                     *)
FetchesAreSpared == \A n \in DOMAIN stores :
    LET later == n + Cardinality(Requests)
    IN  later \in DOMAIN stores => stores[later] >= stores[n] + Ttl

=============================================================================
