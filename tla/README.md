# Verification of pantry-backend

TLA+ models of the parts of pantry-backend in which concurrency, failures or
time decide whether the program is right, model-checked with TLC on small
instances and, where it matters most, proved with TLAPS for every instance.
`PROJECT.json` is the index: components, runs, mutants, the source lines of
every definition, findings, hazards and theorems.

## The system

pantry-backend is a FastAPI application on serverless instances. It keeps
its data in Supabase (Postgres behind PostgREST). All handlers are coroutines;
each database call runs in a worker thread and is awaited, so requests of one
process interleave at database calls, and several processes run side by side.
No transaction spans two calls. A cron job in the database calls the embedding
worker over HTTP every minute.

| component | state | operations | what is hard about it |
|---|---|---|---|
| Embedding pipeline (`pantry_service.py`) | tables `pantry_items`, `pantry_embedding_jobs` | add one, add many, update, delete, `process_embedding_jobs` | overlapping workers without a lease, attempts written back from a snapshot, swallowed failures, crashes between calls |
| Pantry list cache (`pantry_read_cache.py`) | `_entries` of each process | `get_or_set_coroutine`, `invalidate_keys` | the load runs outside the lock, other processes and database functions change the lists |
| Rate limits (`fixed_window_limiter.py` and its users) | a table of windows for each limiter | `allow`, the gates of five routes | window boundaries, several gates in a row, clean-up of all keys in each check |
| Households (`household_service.py`) | tables `households`, `household_members` | create, join, leave, convert, rename | check-then-act without transactions, clean-up by cascading delete |
| Authentication (`auth.py`) | none | current user, current household | the household it reads may be left before it is used |
| AI workflow, retrieval, vector store | none of their own; the process's pool of threads | generate, embed, retrieve | a chain of fallbacks, deadlines that cover only part of a call, a pool shared with the database calls |
| Recipes, shopping | one cache entry, one limiter | random recipe, generation | cache expiry under load |
| Configuration, errors, observability, dates | settings; counters and logs nobody reads | | |

Interaction: the pantry writes feed the pipeline and drop cached lists; join
and leave move items behind the cache's back; the vector search reads the rows
the pipeline has marked `ready`; every rate-limited route passes its gates
before its handler; pantry inserts use the household that authentication read.

What makes each component correct:

- *pipeline*: no item is forgotten, no job is left behind in `processing`,
  retries are bounded and counted and only advance, a `ready` row has a vector of
  a text of that item, the item of a job that is done was embedded or given up,
  an update is embedded (it is not always: `UpdateReEmbeds`);
- *cache*: answers are not older than the TTL plus one load, a process drops
  what its own writes have changed;
- *limits*: a bound on what gets through in any span, no unjustified 429,
  clients do not disturb each other;
- *households*: one household for each user and never none afterwards, no
  household left over by a lost race, privacy of personal households, and
  operations of several calls that look like one;
- *requests to the AI workflow*: a usable answer whatever fails, for the user's
  own household, and an answer at all: no call is made twice, and who waits for a
  provider behind calls that hang is answered at the deadline;
- *random recipe*: within a TTL no more recipes are stored than there are
  requests at a time, whatever overlaps. How often TheMealDB is asked is another
  matter: a fetch that fails stores nothing, and the next request asks again.

## Modules

| module | models | used by |
|---|---|---|
| `EmbeddingPipeline` | tables, requests and workers of the embedding pipeline | `MCEmbeddingPipeline` |
| `JobLifecycle` | abstract: what the queue promises about a job row | `EmbeddingPipeline` (`INSTANCE`, as a property) |
| `SharedQueue` | abstract: what it promises when any number of workers share a job | `EmbeddingPipeline` (`INSTANCE`, as a property) |
| `EmbeddingPipelineProofs`, `EmbeddingCoverageProofs` | proofs | |
| `RateLimits`, `RateLimitsProofs` | limiters and gates | `MCRateLimits`, `RandomRecipe` |
| `RandomRecipe`, `RandomRecipeProofs` | composition: the random recipe's limiter, cache entry and fetches, next to other routes | `MCRandomRecipe` |
| `PantryReadCache`, `PantryReadCacheProofs` | the list cache of several processes | `MCPantryReadCache` |
| `HouseholdMembership`, `HouseholdMembershipProofs` | households and members | `MCHouseholdMembership` |
| `Membership`, `MembershipProofs` | abstract: households as clients see them, each operation one step | `HouseholdMembership` (`INSTANCE`, as a property) |
| `Residence` | abstract: who is in which household, as the other components see it | `HouseholdMembership` (`INSTANCE`, as a property), `ApiRequests` (`INSTANCE`, as its environment) |
| `ApiRequests`, `ApiRequestsProofs` | requests through authentication, retrieval, the language model and the pool of threads | run directly |

### EmbeddingPipeline

`item` and `job` are the two tables. `req` and `wrk` are the local variables
of API requests and worker invocations; the program counter `pc` names the
database call that comes next. Every call is one action and ends `ok`,
`refused` (it raises, nothing was written) or `lost` (written, but it raises
all the same); `RequestCrash` and `WorkerCrash` are the platform ending a
process. `MaxFaults` bounds how many of these happen in a run of the model. An
embedding call may fail at any time and is not counted. Deletes do not fail in
the model: one that is refused changes nothing, one whose response is lost
differs only in the answer.

An item's text (name, category, quantity) is a pair of the item and a version;
a vector *is* the text it was computed from. Timestamps are reduced to one
bit: a job is `due` or its backoff is still running. `dropped` is a history
variable: the items of those who, by a failure, let go of an item they owed an
embedding.

`embed_query` runs in a thread that `anyio.fail_after` cannot interrupt, so its
deadline ends nothing; the pipeline's model has a call that returns a vector or
raises, and `ApiRequests` has what comes of calls that never return.
`embedding_metadata` and `unit` are data that no step tests (the migrations in
the repository have no column for the first and a `not null` on the second,
which the service does not fill; a deployed table is assumed to fit the code).

`JobLifecycle` is the queue as one would document it: a job is claimed when it
is due, each failure counts once, finished jobs stay finished. It is stated job
by job (`SpecOf`). The refinement mapping `Acknowledged` shows a job as done only
when the worker that wrote it knows of it: a completion whose response is lost is
followed by a retry or a failure. Under it a job keeps its lifecycle as long as
no two workers have it in hand at a time - whatever fails, is lost or crashes,
and however workers overlap on other jobs (`UnsharedJobsKeepLifecycle`; for all
jobs together `JobsHaveALifecycle`; `JobsKeepLifecycle` in run
`pipeline_sequential`, where one worker shares with nobody). Two workers with one
job do break it: the slower of them writes over what the other has finished.

`SharedQueue` is what remains then, and it holds without a proviso
(`JobsAreShared`, theorem `TheQueueIsShared`). Its `held` is, for each job, the
counts of failures with which it is in somebody's hands; the refinement mapping
`HeldAttempts` collects them from the batches and current entries of the
workers. A job enters a hand only while it is queued and due, and whoever has it
may write what follows from the count he was given, at any later time and over
whatever the row holds by then. An enqueue leaves an existing row alone.
`RetriesAdvance` is a property of that abstract queue: the count in a row may
fall back when a slow worker writes, but the least count from which a job may
still be tried, in the row or in a hand, never does.

### PantryReadCache

A list is identified by its version, the number of times it has changed, and
`writes` records when. `Look`, `Load` and `Store` are the three parts of
`get_or_set_coroutine` between its two critical sections; `Write`, `DeleteRead`,
`DeleteRow` and `Invalidate` are the writes of the service up to the drop
of the cached copies; `Move` is a join or leave; `Restart` a new process. A
load takes at most `MaxLoad`: this is assumed (`Tick` waits for the load), and
for the household's list it has to cover the lookup of the household, the reading
of its members, the query of the list, and each one's wait for a thread of the
pool. `unseen` records the lists that `WritesAreSeen` says nothing about, also
the one that a slow load stores after the write and those of a row that has moved
under a delete: of these only `StalenessBounded` speaks. The names joined to a
household's list are not modelled. A TTL of 0 bypasses the cache in the code
and is excluded.

### RateLimits

`data` holds the five limiters' tables, an absent key being a count of 0. A
request carries the gates it still has to pass (`Gates`, in the order in which
FastAPI resolves the dependencies of the route). `allow` is one action, as it
has no suspension point under its lock. `passed` is a history variable, the
admissions of each key. State is per process: with `n` instances a client may
get `n` times as much, and the properties speak of one of them. The
application-wide budget is enforced inside slowapi and is left out.

### HouseholdMembership

`home` is `household_members` (its unique constraint makes it a function) and
`house` the `households` table; a household's name is identified with the user
who gave it. `req` holds what each request read. `Join` and the last step of
`Leave` are the database functions `join_household_by_invite_rpc` and
`leave_household_rpc`, and `InsertPersonal` includes the trigger
`sync_household_owner_membership`; none of them is in the repository, and the
model has what the service's use of them and the errors it maps imply. Where
that leaves a choice (whether a user without a household may join, whether
the trigger refuses an owner who is a member elsewhere) both happen. An invite
code is known once a response has carried it. `Abort` ends a request at any of
its calls; a write whose response is lost is the write followed by `Abort`.

`Residence` is all that the other components may count on: a user is in one
household or none, moves one at a time, and is never put out of his own without
being in another. `NobodyStranded` says that the households implement it, and
`ApiRequests` takes it as its environment (`Move` is a step of `Residence` that
the request's history records), so that what one model assumes the other shows.

`Membership` is what a client of the API is entitled to believe: create, join,
leave, convert and rename are one step each. `SeenRows` is the refinement
mapping: a household whose create is still under way, or that is about to be
cleaned up because its create lost a race, is not seen yet; its row appears
with the step that makes the user a member (or with the abort that leaves it
behind, `Abandon`).

### RandomRecipe

Extends `RateLimits`: `Pass` is any step of the gates, `asks` says what a
request does behind them. `Cached`, `Miss` and `Fetched` are the three ways
through `get_or_set_coroutine` with the factory `fetch_random_recipe_components`,
which runs outside the lock and takes any time; `FetchFails` covers its errors,
after which nothing is stored. `stores` is a history variable. A failed fetch
has used up quota all the same. The recipe itself is data: of `mealdb.py` the
model keeps whether there is a meal.

### ApiRequests

A request is a handler's local state: `pc` names the blocking call it is at,
`call` whether that call waits for a thread, runs or hangs. Every call goes
through `anyio.to_thread.run_sync` and hence one pool, which serves its queue in
order of arrival; `ahead` holds who is served before whom. What happens between
two calls is one step: the operators `Authenticate`, `Identified`, `Handle`,
`Retrieve`, `Generate` and `FallsBack` give the states a handler may be in when
it comes to its next call or its answer, following the early returns of the
code in their order. Dependencies that are plain functions (the client, the
settings) run in the same pool; they are collapsed into the one call `prepare`
that each request begins with. Of the routes the model has recipe and shopping
list generation, the legacy recipe route and the embeddings (public, without a
household) and the insert of an item. `settings` is what is configured; all
combinations are initial states.

`anyio.fail_after` cancels a call only as long as it waits for its thread
(`TimesOut`); a call that runs is shielded, so that its result is used however
late. Calls of the database end by the timeout of the client; calls of the
provider may hang for ever (`Hang`), also the search, which embeds its query
first.

A reply of the model is a shape and what its fields hold: absent, blank, text
or a number, which cannot be iterated over. `NormalizeRecipe` and
`NormalizeShoppingList` say which parts come of it. Three things they show that
are easily overlooked: a title `null` becomes the text `"None"`; instructions
that are one string count as text, but are split into characters; and a list
of blank instructions hides usable `steps`, so that the whole reply is dropped.
The fallback's shopping list is empty when nothing is missing, which is an
answer and not a failure.

## Runs

| run | instance | shows |
|---|---|---|
| `pipeline_safety` | 2 items, 1 request, 2 workers, batch 2, 2 attempts, 1 failure of any kind | `TypeOK`, `AttemptsBounded`, `ReadyVectorIsOwn`, `PendingIsCovered`, `ProcessingIsHeld`, `DoneIsEmbedded` |
| `pipeline_sequential` | 2 items, 2 requests, 1 worker, batch 1, 2 attempts, 1 failure of any kind | `JobsKeepLifecycle` (refinement), `JobsSettle`, `PendingIsCovered` |
| `pipeline_liveness` | 1 item, 2 requests, 2 workers, 3 attempts, 1 failure of any kind | `PendingSettles`, `JobsAreShared` (refinement), `RetriesAdvance` |
| `pipeline_stale` | 1 item, 2 texts, no failure but of the embedding | violates `UpdateReEmbeds` |
| `pipeline_bulk` | 2 items, 2 requests, no failure | violates `InsertedItemsSettle` |
| `limits_join` | 2 requests for a join (quotas 2 and 1) or the AI routes (limit 0: off), 2 users, 1 address, window 2, time to 5 | all properties of the limits |
| `recipe_random` | 2 requests on the random recipe (quota 3) and the AI routes (limit 0: off), window 3, TTL 2, time to 6 | `RecipeTypeOK`, `FetchesAreSpared` |
| `cache_timing` | 1 process, 2 readers, 1 writer, TTL 2, loads up to 1, time to 4, 2 changes a list | `TypeOK`, `StalenessBounded` |
| `cache_processes` | 2 processes, 1 reader, 1 writer, 2 households, 2 changes a list, time stands still | `WritesAreSeen` |
| `households` | 2 users, 3 ids, 2 requests | `TypeOK`, `CreatedOnce`, `PersonalIsPrivate`, `NoOrphans`, `NobodyStranded` (refinement of `Residence`), `OperationsAreAtomic` (refinement of `Membership`) |
| `requests` | 1 user, 2 households, one with items, 2 requests of 5 kinds, 1 thread, 8 configurations | `TypeOK`, `HouseholdIsOwn`, `AnswersAreUsable`, `RequestsAdvance`, `RequestsEnd` |
| `requests_retrieval` | 1 user, 2 households, 1 request | violates `PantryIsRetrieved` |

Why the bounds suffice: a batch of two and two workers give every way in which
snapshots cross; two attempts have a retry and an exhaustion (three, in the
liveness run, put a stale count back and still end); the window and the clock
of the limits hold two windows of a key and the instant between them; the TTL
and the clock hold an entry stored late from a slow load until it expires; a
third household id lets two creates race while a third household is left, and
two users are enough for an owner and a stranger. One thread for two requests
is the smallest pool that can be exhausted, by one call that hangs or merely
runs while the other request waits, at each of its calls, with a deadline or
without; more threads only need more requests for the same. Two requests on
the random recipe miss, fetch and store in every order, and three TTLs fit
into the clock. The route whose limit mutates households differs from that of
the random recipe in its limiter only. Symmetry is used in runs without
liveness properties only. The properties that are theorems do not depend on
the bounds at all. The pipeline's runs do not check deadlock: when
all ids are used up and every item is deleted the model has nothing to do. The
other runs do.

Each property of a passing run has a mutant in `PROJECT.json`: a plausible
bug in the definition it names, under which TLC finds the property violated.

### Fairness

`FairSpec` assumes that a request or worker that has started takes its next
step (each call returns or raises), that backoffs elapse, and that when jobs
are due some worker is started again and again - the cron entry fires each
minute whether or not the last invocation has ended. No fairness is assumed of
clients, and none of a particular worker or job: a batch is any set of due jobs
up to the limit, as the query has no order. `JobsSettle` holds all the same, but
because the ids of the model run out: it says that the jobs a limit leaves out
are not lost, and not that a job is served while new ones come in for ever, which
nothing in the code guarantees. Crashes and failed calls are bounded by
`MaxFaults`; embedding failures are not.

In `ApiRequests` the pool starts the first call in line when a thread is free,
a call that does not hang returns or raises, and the clock reaches each
deadline. Nothing makes a hung call return, and no client has to begin or
leave. `RequestsEnd` says what follows: every request is answered unless its
own call hangs, or it waits without a deadline while every thread hangs - the
deadlines of the code cover neither.

### Findings

- `pipeline_stale`: `_enqueue_embedding_job` ignores duplicates, so an item
  whose job is already `done` or `failed` is not queued again. When the inline
  embedding of an update fails, the row keeps `embedding_status = 'ready'` and
  the vector of the old text for ever.
- `pipeline_bulk`: the jobs of a bulk insert are one upsert. If one of the
  rows is deleted in between, the foreign key refuses it for all, the exception
  is swallowed, and the remaining rows stay `pending` without a job.
- `requests_retrieval`: the vector store keeps the rows of `match_pantry_items`
  that have a `content`; the function's columns do not include one. Every
  search of the pantry is empty, and recipes and shopping lists are generated
  with the three built-in sentences as their context. The trace has a request of the
  legacy route, which searches the rows of all households; the others fare no
  better.

Also seen, where nothing in the repository says otherwise: a job left in
`processing` by a killed worker is never selected again (`dropped` in
`JobsSettle`); a provider that hangs takes a thread of the pool with it, and
once all are gone the process answers nothing that needs the database (`Stuck`
in `RequestsEnd`); a create whose membership insert fails for another reason than
the unique constraint leaves its household behind (`kept` in `NoOrphans`); an item that was embedded is marked
failed when the response to completing its job was lost and it was the last
attempt (`DoneIsEmbedded` admits it).

## What is proved

TLAPS checks these theorems for every value of the constants, under the named
assumptions of the modules (numbers are natural numbers, `None` and `NoEntry`
are not ordinary values). They do not depend on the bounds of the runs.

| theorem | says | argument |
|---|---|---|
| `TypeCorrect`, `AttemptsStayBounded` | `[]TypeOK`, `[]AttemptsBounded` of the pipeline | `TypeInv`: what a worker's snapshot holds has attempts left, so types and attempts are one induction; the snapshot's count plus one is what is written back |
| `ReadyVectors` | `[]ReadyVectorIsOwn` | `OwnTexts`: each text a request or a worker carries is a text of the item it works on, and so is each stored vector |
| `NobodyForgotten` | `[]PendingIsCovered` | `CoverInv`, below |
| `NobodyLeftProcessing` | `[]ProcessingIsHeld` | a worker is on a job from the call that claims it to the one that ends it, or is recorded in `dropped`, whatever the others write |
| `DoneJobsAreEmbedded` | `[]DoneIsEmbedded` | from `CoverInv`, below |
| `TheQueueIsShared`, `RetriesOnlyAdvance` | the job table implements `SharedQueue`; `RetriesAdvance` | the mapping `HeldAttempts`, below |
| `UnsharedJobsKeepLifecycle`, `JobsHaveALifecycle` | each job that is never in the hands of two workers implements its part of `JobLifecycle`; if none is, the job table implements all of it | *Snapshots*, below |
| `LimitsTypeCorrect`, `CountsAreExact`, `SpansAreBounded`, `RejectionsAreJustified`, `ClientsDoNotInterfere` | `[]TypeOK` of the limits; the counts are right; `[]SpanBound`, `RejectionsAreDue`, `ClientsAreIndependent` | `LimitsInv`, below |
| `GatesAreKept`, `TheMealDbIsSpared`, `RecipeTypeCorrect` | `RandomRecipe` implements `RateLimits`, so what is proved of the limits holds of it and is not checked again; `[]FetchesAreSpared`, `[]RecipeTypeOK` | `RecipeInv`, below |
| `CacheTypeCorrect`, `AnswersAreRecent`, `WritesAreSeenHere` | `[]TypeOK`, `[]StalenessBounded`, `[]WritesAreSeen` of the cache | `AgesInv` and `SeenInv`, below |
| `HouseholdTypes`, `CreatedAtMostOnce`, `PersonalHouseholdsArePrivate`, `NoOrphansLeft`, `NobodyIsStranded` | every invariant of the households, and that they implement `Residence` | `HouseholdInv`, below |
| `OperationsAppearAtomic` | households implement `Membership` | each step maps to one of `Membership` or a stutter, under `HouseholdInv` |
| `TypeCorrect`, `HouseholdsAreOwn`, `GenerationsAreUsable` of `ApiRequestsProofs` | `[]TypeOK`, `[]HouseholdIsOwn`, `[]AnswersAreUsable` | one induction over types, the line of the pool and the context a request has before it may call the model |
| `RequestsOnlyAdvance` | `RequestsAdvance` of the requests | one case for each call a handler may be at |

Why the invariants have to be stronger than the properties:

- `CoverInv`. `PendingIsCovered` says that somebody has a pending item in hand.
  A worker's last call on an item marks the job `done`; that the item is no
  longer pending by then is a fact about the worker's earlier call
  (`StoredFirst`). That the job the worker writes is the one of the item needs
  that whatever is in a snapshot is still a row of the table or was deleted
  (`HeldTracked`), also when another worker has finished it meanwhile.
  `DoneIsEmbedded` comes from the same two facts and two more: a job becomes
  `done` in one way only (`DoneComes`), and no write puts an embedded row back
  to `pending` (`RowsAge`) - an inline store, a late worker and a `giveUp` may
  come after it in any order.
- *Shared jobs*. A step of `SharedQueue` needs to know who holds what. For
  the most part that is the worker's own state; what it takes besides are the
  bounds on attempts of `TypeInv` (a count plus one is requeued or is the last)
  and that an idle worker holds nothing (`IdleIsEmpty`), since its next batch
  would otherwise add to what it has. `RetriesAdvance` is then proved of
  `SharedQueue` alone and carried over: a hand is filled from a row that is
  queued, a row is requeued from a hand with one more, so both only offer what
  is past the least count - and only because an enqueue leaves a row that exists
  alone.
- `LimitsInv`. The table forgets a window when the next one begins, while
  `SpanBound` speaks of two consecutive ones. The invariant ties each entry to
  the history of admissions: the last `count` of them are in the running
  window, all earlier ones in windows that were over when it began, and a
  window begins with an admission. `RejectionsAreDue` follows from the state in
  which the request is turned away.
- `AgesInv`. The age of an answer comes from the age of a cached list, and that
  one from the age of a load: a load that is to be stored began before the
  first change it lacks and takes at most `MaxLoad`; an entry was stored at
  most `MaxLoad` after the first change it lacks, and is served for less than
  `TTL`. This is an induction over `writes`, which other processes extend at
  any time.
- `SeenInv`. `WritesAreSeen` says nothing of lists that were read and not
  stored yet, but storing one makes a cached copy; the invariant says the same
  of both.
- `HouseholdInv`. What each request counts on between two of its calls: a
  household in the middle of its creation is empty, joinable, known to nobody
  and nobody else's (`Creation`) - this is why the clean-up's cascading delete
  strands nobody - and what was looked up for a conversion or a renaming is
  still there, and still the user's own if it is personal (`Memory`).
  `CreatedOnce` needs that a request about to answer "created" is the only one
  of its user and that the user is in a household (`Telling`).
  `NoOrphans` follows from the stronger fact that every household whose row is
  there came to stay or is being created (`Staying`).
- *Snapshots* (`UnsharedJobsKeepLifecycle`). That a job is claimed only when it
  is due and that each failure counts once are facts about the table, while the
  worker writes what it read earlier. For a job in one hand the two agree
  (`SnapshotHolds`): ahead in its batch it is queued, due and has the attempts of
  the snapshot; while it is worked on it is in `processing` with those attempts,
  or, when a call has just raised, queued or done; or its item was deleted.
  Another worker writes to a job only if it has it in hand, which is where the
  proviso is used; deletes, enqueues and backoffs come in between at any time.
- `RecipeInv`. `FetchesAreSpared` counts stores; who may still store within the
  TTL of a recipe are the requests that were fetching when it was stored, and
  each of them does so once. The invariant bounds stores made and fetches under
  way together (`FetchersAreFew`).

Only model-checked: the liveness properties `PendingSettles`, `JobsSettle` and
`RequestsEnd` (fairness and `ENABLED` are beyond the prover). The safety half of
each is proved: what a liveness argument would use as its measure only goes one
way (`RetriesOnlyAdvance`, `RequestsOnlyAdvance`), and in the pipeline somebody
has the item or the job in hand as long as the goal is not reached
(`NobodyForgotten`, `NobodyLeftProcessing`). The three violations are runs only.

## Not modelled

- *Items that move with their owners*, next to the cache and the households in
  one model. Which households' items move is decided by database functions that
  are not in the repository; `PantryReadCache` has their effect (`Move`), and
  `ApiRequests` has a household that is left between its reading and its use.
- *slowapi's application-wide limit*, and the clients of Supabase, Gemini and
  TheMealDB: third party. The models have what their callers can observe.
- *Prompts, the ranking of keywords, the parsing of a meal, date phrases*
  (`datetime_formatting.py`): text that no decision reads. Of the date functions
  the program itself calls `format_iso_datetime` only.
- *Error translation and request validation*: no state; the statuses that a
  handler may answer with are in `ApiRequests`.
- *Logging and metrics*: written and never read by the program.
- *Memory*: the read cache never removes an entry that nobody asks for again;
  the models have a fixed set of lists.
- *Succession of owners*, a trigger that gives a household whose owner leaves to
  its next member and deletes one that is empty.
  `scripts/sql/test_household_succession.sql` and the docstring of
  `tests/test_household_service.py` speak of it as applied, `plan/` as to be
  written; the migration they name is not in the repository. The service reads
  the owner of personal households only.
