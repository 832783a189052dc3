------------------------- MODULE RandomRecipeProofs -------------------------
(***************************************************************************)
(* Proofs about RandomRecipe: behind the gates nothing of what is proved   *)
(* about them is lost, and TheMealDB is spared for any number of requests  *)
(* at a time and any length of the TTL and of a fetch.                     *)
(***************************************************************************)
EXTENDS RandomRecipe, RateLimitsProofs

(* A step of the recipe's requests is one of the gates or leaves them alone.*)
LEMMA StepsOfGates == RecipeNext => [Next]_vars
BY DEF RecipeNext, Next, vars, TimePasses, Pass, Respond, AnswerOther, Cached, Miss,
       Fetched, FetchFails

(* What holds of the limiters holds of them in front of the cache.          *)
THEOREM GatesAreKept == RecipeSpec => Spec
<1>1. RecipeInit => Init
  BY DEF RecipeInit
<1>2. [RecipeNext]_recipeVars => [Next]_vars
  BY StepsOfGates DEF recipeVars, vars
<1> QED
  BY <1>1, <1>2, PTL DEF RecipeSpec, Spec

-----------------------------------------------------------------------------
(* While a stored recipe is within its TTL no request begins a fetch: those *)
(* that were fetching when it was stored are fewer than all, and each of    *)
(* them stores one recipe at most.                                          *)
Fetching == {r \in Requests : asks[r] = "fetch"}

RecipeTypes ==
    /\ now \in Nat
    /\ asks \in [Requests -> {"other", "recipe", "fetch"}]
    /\ stores \in Seq(Nat)
    /\ \A n \in 1 .. Len(stores) : stores[n] <= now
    /\ \A m, n \in 1 .. Len(stores) : m <= n => stores[m] <= stores[n]
    /\ cached = IF stores = <<>> THEN Never ELSE [there |-> TRUE, at |-> stores[Len(stores)]]

FetchersAreFew == \A n \in 1 .. Len(stores) :
    now < stores[n] + Ttl =>
        (Len(stores) - n) + Cardinality(Fetching) < Cardinality(Requests)

StoresAreFew == \A m, n \in 1 .. Len(stores) :
    n = m + Cardinality(Requests) => stores[n] >= stores[m] + Ttl

RecipeInv == RecipeTypes /\ FetchersAreFew /\ StoresAreFew

(* Fetching is as finite as the requests are.                               *)
LEMMA Counts ==
    /\ Cardinality(Requests) \in Nat
    /\ IsFiniteSet(Fetching)
    /\ Cardinality(Fetching) \in Nat
    /\ Cardinality(Fetching) <= Cardinality(Requests)
BY RecipeAssumption, FS_CardinalityType, FS_Subset, Fetching \in SUBSET Requests DEF Fetching

LEMMA FetchingEnds ==
    ASSUME RecipeTypes, NEW r \in Requests, asks[r] = "fetch", NEW what \in {"other", "recipe"},
           asks' = [asks EXCEPT ![r] = what]
    PROVE  Cardinality(Fetching') = Cardinality(Fetching) - 1 /\ Cardinality(Fetching) > 0
<1>1. r \in Fetching /\ Fetching' = Fetching \ {r}
  BY DEF Fetching, RecipeTypes
<1>2. Cardinality(Fetching \ {r}) = Cardinality(Fetching) - 1
  BY <1>1, Counts, FS_RemoveElement
<1>3. IsFiniteSet(Fetching \ {r})
  BY Counts, FS_RemoveElement
<1>4. Cardinality(Fetching \ {r}) \in Nat
  BY <1>3, FS_CardinalityType
<1> QED
  BY <1>1, <1>2, <1>4, Counts

(* A request that is not fetching and does not begin to.                    *)
LEMMA FetchingStays ==
    ASSUME RecipeTypes, NEW r \in Requests, asks[r] # "fetch", NEW what \in {"other", "recipe"},
           asks' = [asks EXCEPT ![r] = what]
    PROVE  Fetching' = Fetching
BY DEF Fetching, RecipeTypes

LEMMA SameStores ==
    ASSUME RecipeInv, UNCHANGED <<stores, cached>>,
           now' \in Nat, now' >= now,
           asks' \in [Requests -> {"other", "recipe", "fetch"}],
           Cardinality(Fetching') \in Nat,
           Cardinality(Fetching') <= Cardinality(Fetching)
    PROVE  RecipeInv'
<1> USE DEF RecipeInv
<1>1. RecipeTypes'
  BY DEF RecipeTypes
<1>2. FetchersAreFew'
  <2> SUFFICES ASSUME NEW n \in 1 .. Len(stores), now' < stores[n] + Ttl
               PROVE  (Len(stores) - n) + Cardinality(Fetching') < Cardinality(Requests)
    BY DEF FetchersAreFew
  <2>1. stores[n] \in Nat /\ Len(stores) \in Nat /\ now \in Nat /\ Ttl \in Nat
    BY RecipeAssumption DEF RecipeTypes
  <2>2. now < stores[n] + Ttl
    BY <2>1
  <2>3. (Len(stores) - n) + Cardinality(Fetching) < Cardinality(Requests)
    BY <2>2 DEF FetchersAreFew
  <2> QED
    BY <2>1, <2>3, Counts
<1>3. StoresAreFew'
  BY DEF StoresAreFew
<1> QED
  BY <1>1, <1>2, <1>3

LEMMA FetchedInv == ASSUME RecipeInv, NEW r \in Requests, Fetched(r) PROVE RecipeInv'
<1> USE DEF RecipeInv
<1>1. /\ asks[r] = "fetch" /\ asks' = [asks EXCEPT ![r] = "other"]
      /\ cached' = [there |-> TRUE, at |-> now]
      /\ stores' = Append(stores, now) /\ now' = now
  BY DEF Fetched, Respond, Answer
<1>2. now \in Nat /\ stores \in Seq(Nat) /\ Len(stores) \in Nat /\ Ttl \in Nat \ {0}
  BY RecipeAssumption DEF RecipeTypes
<1>3. /\ stores' \in Seq(Nat) /\ Len(stores') = Len(stores) + 1
      /\ stores'[Len(stores) + 1] = now
      /\ \A n \in 1 .. Len(stores) : stores'[n] = stores[n] /\ stores[n] \in Nat
  BY <1>1, <1>2
<1>4. \A n \in 1 .. Len(stores') : n \in 1 .. Len(stores) \/ n = Len(stores) + 1
  BY <1>2, <1>3
<1>5. Cardinality(Fetching') = Cardinality(Fetching) - 1
  BY <1>1, FetchingEnds
<1>6. RecipeTypes'
  <2>1. \A n \in 1 .. Len(stores') : stores'[n] <= now'
    BY <1>1, <1>2, <1>3, <1>4 DEF RecipeTypes
  <2>2. \A m, n \in 1 .. Len(stores') : m <= n => stores'[m] <= stores'[n]
    <3> SUFFICES ASSUME NEW m \in 1 .. Len(stores'), NEW n \in 1 .. Len(stores'), m <= n
                 PROVE  stores'[m] <= stores'[n]
      OBVIOUS
    <3>1. CASE n \in 1 .. Len(stores)
      <4>1. m \in 1 .. Len(stores)
        BY <1>2, <3>1
      <4> QED
        BY <1>3, <3>1, <4>1 DEF RecipeTypes
    <3>2. CASE n = Len(stores) + 1
      BY <1>1, <1>3, <2>1, <3>2
    <3> QED
      BY <1>4, <3>1, <3>2
  <2>3. stores' # <<>>
    BY <1>2, <1>3
  <2>4. cached' = [there |-> TRUE, at |-> stores'[Len(stores')]]
    BY <1>1, <1>3
  <2>5. asks' \in [Requests -> {"other", "recipe", "fetch"}]
    BY <1>1 DEF RecipeTypes
  <2> QED
    BY <1>1, <1>2, <1>3, <2>1, <2>2, <2>3, <2>4, <2>5 DEF RecipeTypes
<1>7. FetchersAreFew'
  <2> SUFFICES ASSUME NEW n \in 1 .. Len(stores'), now' < stores'[n] + Ttl
               PROVE  (Len(stores') - n) + Cardinality(Fetching') < Cardinality(Requests)
    BY DEF FetchersAreFew
  <2>1. CASE n \in 1 .. Len(stores)
    <3>1. (Len(stores) - n) + Cardinality(Fetching) < Cardinality(Requests)
      BY <1>1, <1>3, <2>1 DEF FetchersAreFew
    <3> QED
      BY <1>2, <1>3, <1>5, <2>1, <3>1, Counts
  <2>2. CASE n = Len(stores) + 1
    BY <1>2, <1>3, <1>5, <2>2, Counts
  <2> QED
    BY <1>4, <2>1, <2>2
<1>8. StoresAreFew'
  <2> SUFFICES ASSUME NEW m \in 1 .. Len(stores'), NEW n \in 1 .. Len(stores'),
                      n = m + Cardinality(Requests)
               PROVE  stores'[n] >= stores'[m] + Ttl
    BY DEF StoresAreFew
  <2>1. Cardinality(Requests) > 0
    <3>1. Cardinality(Fetching) > 0
      BY <1>1, FetchingEnds
    <3> QED
      BY <3>1, Counts
  <2>2. m \in 1 .. Len(stores)
    BY <1>2, <1>3, <2>1, Counts
  <2>3. CASE n \in 1 .. Len(stores)
    BY <1>3, <2>2, <2>3 DEF StoresAreFew
  <2>4. CASE n = Len(stores) + 1
    <3>1. ~((Len(stores) - m) + Cardinality(Fetching) < Cardinality(Requests))
      <4>1. Cardinality(Fetching) > 0
        BY <1>1, FetchingEnds
      <4> QED
        BY <1>2, <2>2, <2>4, <4>1, Counts
    <3>2. ~(now < stores[m] + Ttl)
      BY <2>2, <3>1 DEF FetchersAreFew
    <3> QED
      BY <1>2, <1>3, <2>2, <2>4, <3>2
  <2> QED
    BY <1>4, <2>3, <2>4
<1> QED
  BY <1>6, <1>7, <1>8

(* A request that finds the recipe out of date: no stored one is within its *)
(* TTL, so nothing is claimed of it.                                        *)
LEMMA MissInv == ASSUME RecipeInv, NEW r \in Requests, Miss(r) PROVE RecipeInv'
<1> USE DEF RecipeInv
<1>1. /\ UNCHANGED <<now, cached, stores>>
      /\ ~FreshRecipe(cached)
      /\ asks' = [asks EXCEPT ![r] = "fetch"]
  BY DEF Miss, vars
<1>2. now \in Nat /\ stores \in Seq(Nat) /\ Len(stores) \in Nat /\ Ttl \in Nat
  BY RecipeAssumption DEF RecipeTypes
<1>3. ASSUME NEW n \in 1 .. Len(stores) PROVE ~(now < stores[n] + Ttl)
  <2>1. Len(stores) \in 1 .. Len(stores) /\ n <= Len(stores) /\ stores # <<>>
    BY <1>2, <1>3
  <2>2. /\ stores[n] \in Nat /\ stores[Len(stores)] \in Nat
        /\ stores[n] <= stores[Len(stores)]
        /\ cached = [there |-> TRUE, at |-> stores[Len(stores)]]
    BY <1>2, <1>3, <2>1 DEF RecipeTypes
  <2>3. ~(now - stores[Len(stores)] < Ttl)
    BY <1>1, <2>2 DEF FreshRecipe
  <2> QED
    BY <1>2, <2>2, <2>3
<1> QED
  BY <1>1, <1>3 DEF RecipeTypes, FetchersAreFew, StoresAreFew

LEMMA RecipeStep == RecipeInv /\ [RecipeNext]_recipeVars => RecipeInv'
<1> SUFFICES ASSUME RecipeInv, [RecipeNext]_recipeVars PROVE RecipeInv'
  OBVIOUS
<1>0. RecipeTypes /\ now \in Nat
  BY DEF RecipeInv, RecipeTypes
<1>1. CASE TimePasses
  <2>1. now' = now + 1 /\ Fetching' = Fetching /\ UNCHANGED <<asks, stores, cached>>
    BY <1>1 DEF TimePasses, Tick, Fetching
  <2> QED
    BY <1>0, <2>1, SameStores, Counts DEF RecipeTypes
<1>2. ASSUME NEW r \in Requests, NEW what \in {"other", "recipe"},
             UNCHANGED <<now, stores, cached>>,
             asks' = [asks EXCEPT ![r] = what]
      PROVE  RecipeInv'
  <2>1. Cardinality(Fetching') \in Nat /\ Cardinality(Fetching') <= Cardinality(Fetching)
    <3>1. CASE asks[r] = "fetch"
      <4>1. /\ Cardinality(Fetching') = Cardinality(Fetching) - 1
            /\ Cardinality(Fetching) > 0
        BY <1>0, <1>2, <3>1, FetchingEnds
      <4> QED
        BY <4>1, Counts
    <3>2. CASE asks[r] # "fetch"
      <4>1. Fetching' = Fetching
        BY <1>0, <1>2, <3>2, FetchingStays
      <4> QED
        BY <4>1, Counts
    <3> QED
      BY <3>1, <3>2
  <2>2. asks' \in [Requests -> {"other", "recipe", "fetch"}]
    BY <1>0, <1>2 DEF RecipeTypes
  <2> QED
    BY <1>0, <1>2, <2>1, <2>2, SameStores
<1>3. CASE UNCHANGED recipeVars
  <2>1. UNCHANGED <<now, asks, stores, cached>> /\ Fetching' = Fetching
    BY <1>3 DEF recipeVars, Fetching
  <2> QED
    BY <1>0, <2>1, SameStores, Counts DEF RecipeTypes
<1>4. ASSUME NEW r \in Requests, Pass(r) PROVE RecipeInv'
  <2>1. UNCHANGED <<now, stores, cached>>
    BY <1>4 DEF Pass, Arrive, Authenticate, Waive, Admit, Reject
  <2>2. \/ asks' = [asks EXCEPT ![r] = "other"]
        \/ asks' = [asks EXCEPT ![r] = "recipe"]
        \/ asks' = [asks EXCEPT ![r] = asks[r]]
    BY <1>4 DEF Pass
  <2>3. CASE asks' = [asks EXCEPT ![r] = asks[r]]
    <3>1. asks' = asks /\ Fetching' = Fetching
      BY <1>0, <2>3 DEF RecipeTypes, Fetching
    <3> QED
      BY <1>0, <2>1, <3>1, SameStores, Counts DEF RecipeTypes
  <2> QED
    BY <1>2, <2>1, <2>2, <2>3
<1>5. ASSUME NEW r \in Requests, AnswerOther(r) \/ Cached(r) \/ FetchFails(r) PROVE RecipeInv'
  BY <1>2, <1>5 DEF AnswerOther, Cached, FetchFails, Respond, Answer
<1> QED
  BY <1>1, <1>3, <1>4, <1>5, FetchedInv, MissInv DEF RecipeNext

LEMMA RecipeInitial == RecipeInit => RecipeInv
BY DEF RecipeInit, Init, RecipeInv, RecipeTypes, FetchersAreFew, StoresAreFew, Never

(* However many requests miss the cache together, however long each of them *)
(* fetches, no more than one recipe a request is stored within a TTL.       *)
THEOREM TheMealDbIsSpared == RecipeSpec => []FetchesAreSpared
<1>1. RecipeInv => FetchesAreSpared
  <2> SUFFICES ASSUME RecipeInv, NEW n \in DOMAIN stores,
                      n + Cardinality(Requests) \in DOMAIN stores
               PROVE  stores[n + Cardinality(Requests)] >= stores[n] + Ttl
    BY DEF FetchesAreSpared
  <2>1. DOMAIN stores = 1 .. Len(stores)
    BY DEF RecipeInv, RecipeTypes
  <2> QED
    BY <2>1 DEF RecipeInv, StoresAreFew
<1> QED
  BY <1>1, RecipeInitial, RecipeStep, PTL DEF RecipeSpec

(* The types, and the cached recipe is the one stored last.                 *)
THEOREM RecipeTypeCorrect == RecipeSpec => []RecipeTypeOK
<1>1. RecipeInv /\ TypeOK => RecipeTypeOK
  <2> SUFFICES ASSUME RecipeInv, TypeOK PROVE RecipeTypeOK
    OBVIOUS
  <2>1. stores \in Seq(Nat) /\ now \in Nat /\ \A n \in 1 .. Len(stores) : stores[n] <= now
    BY DEF RecipeInv, RecipeTypes
  <2>2. \A n \in 1 .. Len(stores) : stores[n] \in 0 .. now
    BY <2>1
  <2>3. stores \in Seq(0 .. now)
    BY <2>1, <2>2
  <2> QED
    BY <2>3 DEF RecipeInv, RecipeTypes, RecipeTypeOK
<1> QED
  BY <1>1, RecipeInitial, RecipeStep, GatesAreKept, LimitsTypeCorrect, PTL DEF RecipeSpec
=============================================================================
