# Nepantla in TLA+

Nepantla is a gateway in front of many LLM providers: one OpenAI-compatible
endpoint that picks a provider, a model and a key for every request and tries the
next candidate when a provider fails. This directory holds TLA+ modules of its
server (`src/server`), the TLC configurations that check them on small instances, and
theorems about them that TLAPS has checked for every value of the constants.

Contents: [the system](#the-system) · [what is hard in it](#what-is-hard-in-it) ·
[modules](#modules) · [FallbackRouter](#fallbackrouter) ·
[ProviderAdmin](#provideradmin) · [RequestRecords](#requestrecords) ·
[Providers](#providers) · [Administration](#administration) · [runs](#runs) · [proofs](#proofs) ·
[where code and comments disagree](#where-code-and-comments-disagree) ·
[not modelled](#not-modelled) · [plan](#plan) · [running it](#running-it)

## The system

The server is one asyncio process with one PostgreSQL database. Coroutines interleave
at their awaits; database rows are the only state that survives a restart.

| Component | Code | State | Operations | What makes it correct |
|---|---|---|---|---|
| Auto routing | `modules/router/services.py`, `modules/proxy/api.py` | sticky dictionary (memory), `fallback_config`, `rate_limit_cooldowns`, `rate_limit_usage` | `select_fallback`, `_check_rate_limit`, `set_cooldown`, `record_request`, the loop of each endpoint | the loop ends; it does not call again what failed; 429 only when nothing works; limits and cooldowns hold |
| Session and pool | `core/database.py` | connection pool, one transaction per request | `get_db`: open, commit after the response, roll back on an exception | a request's writes are all kept or all lost; no deadlock |
| Direct-model requests | `modules/proxy/api.py` | none of its own | one call of the named model | usage and cooldown as for auto routing |
| Provider registry, platform administration | `modules/providers/registry.py`, `modules/provisioning/{api,services}.py` | `provider_platforms`, a 60 s cache, `_providers` (memory) | create, update, toggle, delete, sync, get, list; `reload_from_db` | memory follows the table, whatever overlaps |
| Provisioning sync | `modules/provisioning/{services,catalog}.py` | `provider_catalog`, `provisioning_log`, catalog cache | `sync_all`, `refresh_catalog`; the scheduled one is a dry run | an administrator's edit survives; a second sync changes nothing |
| API keys | `modules/keys` | `api_keys` | create, delete, toggle, validate one or all | the status is the last answer of the provider |
| Fallback configuration | `modules/router/api.py` | `fallback_config` | list, create, update, delete | priorities are an order |
| Analytics buffer | `modules/analytics/services.py`, `main.py` | queue, batch, `requests` | record, flush, start, cancel | a record is inserted at most once, and lost only for a reason |
| Hourly aggregation, retention | `modules/analytics/services.py` | `hourly_agg`, `requests` | hourly and daily jobs | no request is counted twice |
| Analytics queries, models, health | `modules/{analytics,models_view,health}/api.py` | none | read-only | - |
| Embeddings | `modules/embeddings` | none | one `select_fallback`, one call | - |
| Provider adapters | `modules/providers/*.py` | none | conversions, HTTP, SSE parsing | no message, chunk or call is lost or made up |
| Settings, gateway key | `modules/settings`, `core/dependencies.py` | `settings` | read, upsert, check | one row per key |
| Seeds, migration | `scripts` | all tables | upsert, replace, copy | safe beside a running server, and to run again |
| Shell, crypto | `main.py`, `lib` | none | wiring | start-up and shutdown order |
| Dashboard | `src/dashboard` | React state | pages over the API | a saved order is the order shown |

How they interact. An endpoint of `proxy/api.py` takes a session from `get_db` and calls
`select_fallback` on it. That reads `_sticky_sessions` and `ProviderRegistry._providers`,
two class-level dictionaries that all coroutines share, and the tables. The endpoint then
calls the provider; on a failure it writes a cooldown through the same session and calls
`select_fallback` again. `get_db` commits once the response is out. Administrators change keys,
fallback rows and platforms at any time through sessions of their own; a change of
platforms ends with `reload_from_db`, which empties `_providers` before it awaits the
rows. Endpoints put request records in the analytics queue, from which one worker task
inserts batches.

## What is hard in it

The full list, with lines, is under `hazards` in `PROJECT.json`. In short:

- shared dictionaries are read before an await and used or changed after it (the sticky entry, the
  registry, the platform cache);
- the retry loop is `while True`: it ends only because a session without autoflush has
  flushed the cooldown its own next query must find;
- flushed rows hold locks until the response is out, so requests wait for each other
  inside the loop;
- limits are checked on committed rows and the usage is committed after the call;
- cooldowns are flushed one by one and committed or lost together;
- reloads overlap: each clears, awaits, and adds what is missing;
- an expiry is computed and nowhere compared;
- reports go to memory and cannot be rolled back, while the usage and the cooldowns of the
  same request can; a batch of records is lost as a whole, and memory with the process;
- an hourly job adds a sliding window to fixed hours;
- a stream is cut by the network anywhere, and translated by other code than a whole answer;
- administrative calls read, wait for a provider or a download, and write: over each
  other, over a seed that replaces a table, and again after a failure.

## Modules

| Module | Holds |
|---|---|
| `FallbackRouter` | auto-routed requests, their sessions, and what the rest of the program does to them |
| `FallbackRouterProperties` | what it is held to: properties that hold, then statements of comments that do not |
| `MCFallbackRouter` + 6 `.cfg` | its instances |
| `FallbackRouterProofs` | types, the loop invariant, cooldowns, sticky entries, the bound on overshoot |
| `FallbackRouterChainProofs` | what a 429 means, and the order of row locks |
| `ProviderReloads` | abstract: what requests may rely on in the registry |
| `ProviderAdmin` | the table of platforms, its cache and the registry under concurrent API calls |
| `ProviderAdminProperties`, `MCProviderAdmin` + 2 `.cfg`, `ProviderAdminProofs` | as above |
| `RecordLog` | abstract: what a request log promises |
| `AnalyticsBuffer` | queue, worker, jobs, shutdown, and the tables they write |
| `RequestRecords` | the endpoints of the proxy and what each reports, over `AnalyticsBuffer` |
| `AnalyticsQueries` | what the dashboard counts |
| `RequestRecordsProperties`, `MCRequestRecords` + `.cfg`, `RequestRecordsProofs` | as above |
| `ProviderMessages`, `ProviderAnswers` | pure: what an adapter sends, and what it makes of an answer |
| `ProviderStreams` | one chat request through an adapter and `stream_gen`, over a network that cuts and breaks |
| `ProviderAccess` | the adapters' other operations |
| `Providers`, `MCProviders` + `.cfg` | their composition and its properties |
| `ProvidersProofs` | conversations, embeddings, probes |
| `ProviderStreamProofs` | streams and whole answers |
| `AdminTasks` | calls and scripts as tasks with a session |
| `ApiKeys`, `SettingsStore`, `CatalogSync`, `FallbackTable`, `RequestMigration` | one area of the tables each |
| `Administration`, `MCAdministration` + 2 `.cfg` | their composition, properties, instance |
| `AdministrationProofs` | keys, settings, the seeded chain, the migration of requests |
| `AdministrationTableProofs` | the catalog, the checks of keys, models, and the types of all tables |

`PROJECT.json` maps every definition to the lines it models. An action is the code
between two awaits. Each operator whose comment begins "Mutant of" is a plausible bug,
used to see that the property it is listed with can be broken.

### FallbackRouter

A request is `pc[r]`. Its session is `conn`, `flushed[r]` and `touched[r]`: whether it
has a connection, the cooldown rows it has inserted and those it has updated. `Visible(r)` is
what its queries return: committed rows and its own.

| pc | Action | Code |
|---|---|---|
| arrived, select | `Select` | sticky lookup, `services.py:25-33` |
| stickyModel, stickyKey | `StickyModel`, `StickyKey` | provider and context checks, any enabled key, `34-55` |
| chain | `QueryChain` | the chain query, `57-87` |
| provider, cooldown, key, rpm, rpd | `CheckProvider` ... `CheckRpd` | the walk, `89-122` and `149-182` |
| provider, no row left | `Reject` | 429, `proxy/api.py:133-142` |
| admit | `Admit` | store the sticky entry, decrypt the key |
| call | `CallSucceeds`, `CallFails` | the provider call and both except clauses |
| penalize, insert, update | `Penalize`, `FlushInsert`, `FlushUpdate` | `set_cooldown` and the flush, with PostgreSQL's row locks |
| commit | `Commit` | `record_request` and `get_db`'s commit, or the stream's own |
| any | `PoolTimeout`, `DeadlockVictim`, `Disconnect` | exceptional ends, each a `Rollback` |

The environment toggles and validates keys, toggles fallback rows, begins and ends
reloads, expires sticky entries, lets penalties lapse and moves the windows
of the rate limits.

The registry is changed by the actions of `ProviderReloads` alone: a reload drops
everything that is not native, and adds any set of platforms, or none, when it ends; reloads overlap.
`ProviderAdmin` is shown to implement the same module (`ImplementsReloads`), so the reloads that
requests meet here include those of the administration; a registry that is not full at the start is
one after a first reload.

Faithful to details that are easy to idealise: the sticky path ignores cooldowns, limits and the key's
status; a context window that is too small drops the sticky entry and the model is used all the same;
a cooldown is looked up by model alone although it is stored per key, so two rows raise
`MultipleResultsFound`; a stream that fails leaves the sticky entry; a 429 or 500 rolls back all
cooldowns; a limit of 0 means none; a stream records no usage.

Abstracted: messages, prompts and token counts (a request is the set of fallback rows its
pool, tools and context leave, `Eligible`); the penalty's length; timestamps (a row is in
a window or out of it). The chat endpoint is the one modelled here; the other loops and
the direct paths are in `RequestRecords`.

### ProviderAdmin

A task is one call of the provisioning API. The state is the committed table, the cache
with its expiry, and the base URL of each provider in the registry.

| Action | Code |
|---|---|
| `ReadRow`, `ReadAll` | the query at the start of update, toggle, delete, sync |
| `CallFails` | a call that has committed nothing ends: active keys (409), or an exception of the database |
| `Create`, `Update`, `Delete`, `Sync` | the statement and its commit; only changed columns are written, and a toggle writes the negation of what it read |
| `SyncFails` | no catalog, or a failed commit: the `finally` clause reloads |
| `Refresh` | `db.refresh` after the commit of a creation, update or toggle; it raises when the row is gone or the database fails, and then neither `invalidate_cache` nor `reload_from_db` runs |
| `Clear` | `invalidate_cache` and the removal in `reload_from_db`, one await-free stretch |
| `Load`, `LoadFails`, `Fill` | the query of `load_from_db`, its except clause, its loop |
| `Ask`, `Query`, `Store`, `Answer` | `get`: time and cache, query, store, answer |
| `Tick` | the clock, stopped at `MaxTime` |

`clearer`, `loadLost`, `missed` and `left` are history variables: which task cleared the registry
last, whether its load failed, which platforms belong to calls that failed between their commit and
their reload since then, and when a row was last replaced. `EnabledRoutable` exempts
`missed` and nothing else of the table: such a call does leave an enabled platform unroutable until
the next reload, as the code has no other repair.

`CacheRecent` is about what later calls take from the cache. A `get` that misses answers from
the cache after its session has closed (`services.py:264`); that answer carries no time, and the property
does not speak of it.

`load_from_db` has a guard `_loaded_from_db` that is not in the model: it never
suppresses a reload, because `reload_from_db` resets it and reaches the check without
suspending in between (awaiting a coroutine runs it at once).

### RequestRecords

`AnalyticsBuffer` keeps the queue as a log that is only appended to: positions up to
`flushed` have left the process, up to `taken` they are the worker's batch, the rest is
the queue. A record is its position, which is what lets a property say "stored twice".

| Action | Code |
|---|---|
| `TakeItem`, `TakeTimesOut` | one turn of `_buffer_worker`: an item or a `TimeoutError`, then the decision to flush |
| `FlushCommits`, `FlushFails` | `_flush_batch`: one transaction; any exception drops the batch |
| `Stops`, `Starts` | cancellation by the lifespan, or a crash; a commit under way is applied or not |
| `AggregateHourly`, `CleanupOldRequests` | the two jobs |
| `DeleteKey`, `Tick` | the foreign key of `requests`; the clock |

`RequestRecords` adds the requests: `DirectChat`, `DirectChatStream`, `DirectImage`,
`DirectTranscription`, `DirectSpeech` (by model name), `AutoImage`, `AutoTranscription`,
`AutoSpeech` (the loops), `CreateEmbeddings`. Each is a disjunction of the steps between its awaits:
look-up, choice of a key, call, report, flush, commit, and every exception with the status it
gives. `select_fallback` is here a choice of any key: a key serves every model of its
platform, so the loop may meet it again with another model. What ends the loop is that each failure
uses up one of the `Candidates` models of the pool, which is `NoRepeat` of `FallbackRouter`,
the detail of this choice. `FailsOver` queues two records for each failure, as the code does:
`set_cooldown` its own of type "rate_limit", then the loop that of the endpoint. The dashboard therefore counts
such a call twice. `set_cooldown` may also raise, before its record or after it, and then the request
ends with 500. A client that hangs up on a stream of speech cancels the generator, not the response: it
returns, and `get_db` commits the usage that was flushed before the call (`hungUp`). A response whose commit `get_db` makes has left
before the commit; one whose handler commits leaves after it; this is `reply`.

`RecordLog` is the abstract specification: records are handed over, then each is settled
once, as a row or as lost, and rows expire. `Log!Spec`, with `handed` as the length of the
log, is a property of the detailed one.

Abstracted: latencies, token counts, error texts, and the grouping of the aggregate by
platform and model. The clock counts ticks; a job runs some time into its tick, so a row
made in the tick an hour before may be in its window or not.

### Providers

`ProviderMessages` translates the message, tool and option conversions of the four chat
adapters, `ProviderAnswers` the parsing of a line and of a whole answer, both as operators. A
message is a role and the kinds of its blocks; what is sent are entries that name the
message and blocks they come from, so that loss, repetition and order can be told. A
line of an answer has two halves that meet inside a character of several bytes, and a
newline.

| Action of `ProviderStreams` | Code |
|---|---|
| `Send`, `Refused`, `Opens`, `AnswersWhole` | the request, its error status, a stream or a whole answer |
| `Receive` | the next network chunk, of any length: decoding and the split into lines |
| `TakeLine` | one line of an adapter's loop: skip, yield, return or raise |
| `Breaks`, `Closes` | a time-out or lost connection; the provider's end, with or without a last newline |
| `Finish`, `Rescue`, `Abort` | `stream_gen`: the end, the except clause of auto-routed streams, an exception that leaves the handler |

What is asked decides what comes back: `StreamAsked` is whether the request has the adapter's form for a
stream, which Cohere's never has, and `LinesSent` turns an answer into events only if it has.
`StreamedAsWhole` says both what that means for the other three, whose streams carry the whole answer, and
for a client of Cohere's adapter, which hears nothing of it.

Kept as the code has it: `google.py` sends a tool result twice, keeps the last
call of a chunk, and raises on a malformed line; the byte loops drop a last line without
newline and replace a character that two chunks share; Cohere's ids restart with each chunk;
a direct stream has no except clause.

`ProviderAccess` holds `validate_key`, `list_models`, `probe_capabilities`, `embed` and
`image_generation` as the sequences of upstream calls they make, any of which fails. An answer
without values becomes an empty embedding of Google's, and Cohere's embeddings are as many as the
answer holds, checked against nothing.

### Administration

A task is a call or a script: `task[t]` is its operation with its local variables, `Begin`,
`Continue`, `End` and `Fail` (exception, refused statement, end of the process) its life. The
database is READ COMMITTED: a query sees what is committed then, and a writer is not told that
rows it has read have changed; so a flush and its commit are one step, and deleted rows that
are not committed (`Doomed`) hold up other writers of them. The ORM writes only attributes that
were set to another value than the one loaded (`Written`), by id; bulk statements write what they name.

| Module | Operations |
|---|---|
| `ApiKeys` | create, validate one or all, update, toggle a platform, delete, `migrate_api_keys` |
| `SettingsStore` | `update_settings`, `regenerate_api_key`, `migrate_settings` |
| `CatalogSync` | `fetch_catalog` with its cache file, `sync_providers_from_catalog`, `_sync_all_internal`, dry run, `refresh_catalog`; edits, `seed_provider_platforms`, `seed_context_windows`; models.dev publishing |
| `FallbackTable` | create, update (pool, enabled flag), delete a row; `seed_catalog`; `migrate_models`. A row is told from others by the task, model and pool that it was inserted with (`by`, `model`, `first`), which stand for its id |
| `RequestMigration` | `migrate_requests` in chunks |

`checked` stands for `last_checked_at`: it holds the verdict of the check made at that time. New ids are chosen
with `CHOOSE` among those never given, since which one it is makes no difference. History
variables: `overlapped`, `collided`, `reseeded` (two tasks overlapped on a key, a setting, the
seed), `rival` (a download was under way when a refresh began), `finished`, `given`. They make the exceptions of the
properties exact: the property fails in every other case.

## Runs

| Run | Instance | Shows | States |
|---|---|---|---|
| `router_loop` | 2 requests of one conversation, 2 models, 3 keys (2 on one platform), a limit of 1, pool of 2, 1 edit | `TypeOK`, `NoRepeat`, `StickyBacked`, `RequestsFinish` | 539,729 |
| `router_chain` | 3 interchangeable plain requests and a stream, 3 models, pool of 2, at most 1 call a minute and 2 a day on the second model, no edits | `NoLockCycle`, `RejectedOnlyWhenNoneWork`, `CooldownsExact`, `OvershootBounded` | 289,217 |
| `providers_calls` | 3 interchangeable tasks, each any of the 6 operations, 1 platform, life of the cache 1, clock to 2 | `EnabledRoutable`, `CacheRecent`, and that it implements `ProviderReloads` | 3,572,024 |
| `records` | 2 requests in the last tick of the calendar, or 1 over the whole of it (hour of 2 ticks, to 5); 2 keys, 2 models a loop (`Candidates`), batch of 2, 1 fault | the types, `LossHasCause`, `SuccessMeansAnswered`, `UsageExact`, `ErrorsReported`, `CountedOnce`, `QueueDrains`, and that it implements `RecordLog` | 1,736,545 |
| `adapters` | 4 adapters, conversations of up to 3 messages, answers of up to 3 lines of 8 kinds | the 7 invariants and `StreamEnds` of `Providers` | 143,131 |
| `administration` | 2 tasks at a time, 3 in all, over one area of the tables | the 7 invariants and 6 action properties of `Administration` | 916,716 |
| `router_retry`, `router_stream`, `router_until`, `router_lapsed`, `providers_reload`, `migration_repeat` | 2 requests or tasks, a stream, or a script run again | a disagreement each, below | - |

Why these bounds are enough to be of interest:

- Two requests of one conversation already race on the sticky entry, on the insert of a cooldown and
  on its update. `router_chain` has four: more than its pool of two, so that requests
  wait for a connection, and enough for two to pass the check of a limit that a third has used up. Three models give two requests two rows each to lock in opposite orders,
  which is what `NoLockCycle` excludes; the mutant that drops the `order_by` finds the
  deadlock.
- One edit (`MaxEdits = 1`) per behaviour puts a toggle, a validation, a reload or a
  lapse at every point of two requests. Deadlocks among requests do occur in this
  run (`DeadlockVictim` fires): a request that starts at a sticky entry locks the rows
  of its failures in another order than one that walks the chain. `NoLockCycle` is
  therefore about the walk alone, without sticky entries and edits and with a limit only where
  it cannot matter (below), and `RequestsFinish` about runs with all of them.
- The limits of `router_chain` on the second model, 1 a minute and 2 a day, are reached,
  compared at the limit, and overshot by `PoolSize - 1 = 1`. A limit can make a walk come back to a
  row above the ones it has locked, and so disturb their order, only if something below that row can fail;
  below the second model is a reliable one. Symmetry of the plain requests is sound: no property
  of this run names one, and none is a liveness property.
- Three tasks are two overlapping reloads and a third writer, or a `get` around two
  changes. The platforms are independent of each other but for the moment of clearing,
  so one is enough for the races; the theorems hold for any number, and for native ones.

- `records`: two requests, the second an embedding, in the last tick, where the worker's timers go on
  and no job runs: what is reported, lost and committed does not depend on the hour. Or one request of
  any of the nine endpoints but automatic transcription, whose loop is that of the others, over a calendar in which two hourly jobs
  and the retention fall: what is counted depends on when a row was made, and a loop with two
  failures and the 429 after them already makes five rows of one request. A batch of two is filled by
  two records, by the pair of one failure, and by one record and the time. One fault is a crash, a
  shutdown, a failed flush, a failed commit or a deleted key, at any point.
- `adapters`: three messages put a tool result between two others; three lines are two
  that meet in one network chunk and one more; every cut of the bytes is taken. Properties
  of one request do not depend on a second one: adapters share nothing.
- `administration`: two tasks overlap, and a third follows both or one of them, which is a repeated
  migration, a second seed, or an edit between a read and a write. Areas do not share
  tables but for models (catalog and chain, where the chain's area has the models it needs),
  so `MCAdministration` takes one area per behaviour (`area`) and leaves the other tables
  minimal; the theorems are about all areas together. Symmetry of the tasks is sound: no property names one,
  and none is a liveness property.

`CHECK_DEADLOCK FALSE` everywhere: requests and tasks are made once, and a run ends when
they have ended.

Fairness. `FairSpec` asks weak fairness of each request's `Step`. What is in `Step` is
brought about by the event loop, which runs every ready coroutine, by the provider
client's own timeout (a call succeeds or fails), by the database, which answers and grants a lock
when its holder ends, and by its deadlock detector, without which two requests could
wait for ever. Nothing is assumed of administrators, reloads, expiries, disconnects or
the pool's timeout. With a pool as large as the number of requests, as in the run, no
request waits for a connection; otherwise `PoolTimeout` is what ends the wait.

`RequestRecords!Fairness` asks weak fairness of the worker's two turns, of the end of a flush, and of
the clock; nothing of requests, jobs or restarts. `QueueDrains` says that the
batch and the queue are empty again and again: the worker's wait is bounded by its own timeout, and a
flush ends. `StreamFairness` asks that a stream which can go on does; a silent provider is ended by
the clients' time-outs (60 and 120 seconds, `timeout_ms`), which is `Breaks`.

## Proofs

Every invariant and every action property that a passing run checks, and the refinements of
`RecordLog` and `ProviderReloads`, are also proved for every value of the constants: any number of requests, models,
keys, platforms, tasks, messages and lines. What is assumed of the constants are the modules'
named assumptions: tables are functions of the right type, sentinels are not values,
`Requests` is finite; `ScriptsAssumption`, `BodiesAssumption` and `InputsAssumption` give answers,
conversations and inputs the form in which the code receives them. Three theorems have a
further hypothesis, because what they say is about those instances only:

- `StickyBackedAlways`: no streams and no undecryptable keys (`router_stream` is what
  happens with a stream);
- `RejectedOnlyWhenNoneWorkAlways`: nothing is reconfigured (`MaxEdits = 0`); an edit
  between two reads can make any walk miss a row;
- `NoLockCycleAlways`: `OneChain`, which says that every request walks the chain it sees, of
  one row per model with distinct priorities, without sticky entries, limits and edits.
  Without it deadlocks do occur (see the bounds of `router_loop`).

| Theorem | Argument |
|---|---|
| `TypeCorrect` | `TypeOK` is not inductive alone: `RouteOK` adds that a request past the choice of a candidate has a model, and past the choice of a key a key |
| `NoRepeatAlways` | `LoopInv`: every failure of a running request is visible to its session or about to be written (`FailuresVisible`), so a candidate that passed the cooldown check has not failed (`PassedIsFresh`). It needs that committed cooldowns only grow and that no other request touches this one's session (`StepFrame`) |
| `CooldownsExactAlways` | inductive over `LoopInv`: only `Commit` changes either side, and there `FailuresVisible` and its converse `FlushedIsFailed` give equality |
| `StickyBackedAlways` | for `Streams = {}` and `Undecryptable = {}`: an entry changes only by `Admit`, which moves its writer to "call", and backing ends only by `CallFails`, which removes the entry |
| `OvershootBoundedAlways` | `LimitInv`: usage rows in the window *plus* the requests past the check and inside the session are at most limit + `PoolSize` - 1. A request that passes the check sees fewer rows than the limit and shares the pool with at most `PoolSize` - 1 others, so joining keeps the bound; committing moves a request from the second part to the first |
| `RejectedOnlyWhenNoneWorkAlways` | `ChainInv`: while nothing is edited, a row that a walk has taken or left behind does not work for it, whatever cooldowns others commit; `Steady` (configuration is the initial one, a reliable provider does not fail) is what makes "does not work" last |
| `NoLockCycleAlways` | `OrderInv`: a walk descends the chain, and down to a lock it holds the whole chain is hopeless for it (a cooldown it sees, or no key), so its next lock is further down; who waits for a lock waits for one below all it holds, and a cycle would have no lowest member |
| `AdminTypeCorrect` | the types of `ProviderAdmin`, with `JobShape`: which local variables are set in which phase |
| `EnabledRoutableAlways` | `RoutableInv` says *which* task covers a platform that is missing and not in `missed`: one that has committed its row and not yet cleared, one that is about to clear, or the one that cleared last and has not loaded, or has loaded a row that builds it. "Some reload is under way" alone is not inductive: the reload under way may have read the table too early |
| `CacheRecentAlways` | `CacheInv`: rows that a `get` still holds, and rows in the cache, were the table's at or after the time they will be dated by, because `get` reads the clock before its query |
| `AdminImplementsReloads` | the reloads under way are the tasks that have cleared and not yet filled (`Loading`); a `Fill` keeps what is loaded, since it leaves a name that is there, and every other step leaves registry and reloads alone |
| `RecordsTypeCorrect` | with `RoomInBatch` (a waiting worker's batch is not full, so taking one keeps the bound) and `Settled` (rows and losses are positions that have left memory, and no position is both) |
| `BufferImplementsLog` | a request's step is one report, a failed commit or nothing (`EndpointStep`); each step of the buffer maps to `HandOver`, `Settle`, `Expire` or a stutter, with the sets of kept and lost positions as witnesses |
| `LossHasCauseAlways` | inductive once a cause is shown to persist: the log is only appended to, keys are only deleted, faults only counted (`CauseStays`); a step without a loss keeps all causes (`NoNewLoss`), and what a refused record takes with it is its own batch, within `MaxItems` of it (`FlushFailsCause`) |
| `SuccessMeansAnsweredAlways`, `UsageExactAlways`, `ErrorsReportedAlways` | `GoodInv`: per request, what its phase says of its usage and reply (`Paid`), and which of its records are in the log (`Told`). The invariant is stated over two sets of the log, `Succeeded` and `Failed`, which only grow; other requests' steps leave a request's part alone (`Alone`). For the calls a loop gave up on, a set is not enough, since a key may fail twice: `TriedInv` gives the two records of each as increasing pairs of neighbouring positions of the log, which each failure extends by its own pair, and says that no other "rate_limit" record of the request exists |
| `CountedOnceAlways` | `CountInv`: an hourly bucket holds at most the rows that the two runs able to see its hour could have seen, and errors and successes add up. The sums are replaced by the cardinalities of `InHour` and `AtStart`, which disjoint unions add |
| `ConversationKeptAlways` | `SentInv`: what is sent is the adapter's conversion of the body, and by induction over the messages (`SentOf`, `SentMore`) each message gives its entries, with its text and after those before it. A set of entries is put in order by the function that `RisingExists` gives |
| `EmbeddingsInOrderAlways`, `ProbeFindsListedAlways` | `EmbedInv`, `ProbeInv`: what Google's loop has taken so far has the place and the input of its call, or is empty there; what a probe has added so far was listed |
| `ProvidersTypeOKAlways`, `FramingTransparentAlways`, `DoneOnceAtTheEndAlways` | `StreamInv`, three parts: what is held (buffer, complete lines and the bytes that have arrived are one text, whatever the cuts), what has been given (`Progress`: the events of the lines taken, or of those up to the one that stopped it), and the outcome (who has written `[DONE]`, and when) |
| `StreamedAsWholeAlways` | from `StreamInv` and `AnswerInv` (what arrives is what was asked for), line by line: the event of a line says what the whole answer takes from the same line (`Says`, `Faithful`), so prefixes of the two agree |
| `RequestsCompleteAlways` | `MigrationInv`: rows behind the running script's position have been copied once more than there are finished runs, so that when it ends all have; one script runs at a time |
| `SeededOnceAlways` | `SeedInv`: while a seed is past its deletion, every seeded row is among those it will replace |
| `SettingReadableAlways` | `SettingInv`: a name that a task has found absent has no row and no second inserter, or has collided |
| `UrlKeptAlways` | an action property, by cases over who writes `platforms` |
| `MigratedOnceAlways`, `EnabledAsAskedAlways` | `KeyInv`: the running migration adds only keys of platforms without a migrated one. The new ids are an injection that `CHOOSE` picks; that one exists follows from the cardinalities (`InjectionExists`) |
| `SyncOnlyUpdatesAlways`, `SyncSettlesAlways`, `RefreshIsFreshAlways` | the first two are action properties: only six steps move a sync (`SyncStep`), and the two that write touch only rows that are there (`UpdatesOnly`) and leave them as the catalog has them. The third needs `SyncInv`: no cache and no download that can still reach a refresh is older than what it asked for, as versions only grow (`Tide`) |
| `StatusIsOfLastCheckAlways` | `CheckInv`: a check that nothing has overlapped has read the status its key still has, and is the only check about that key; the ORM writes a status only when it differs from the one read, so this is what keeps status and time together |
| `MigrationKeepsAllAlways` | `MetInv`: the script still has an old key before it, will add it, or has met its platform in the table; one commit adds all |
| `SeedKeepsModelsAlways` | an action property over `ChainTypes`: the commit that deletes the old rows inserts one for every listed model and pool; of the other steps only a deletion and an update change a row, and an update keeps it with another pool |
| `AdminTypeOKAlways` | `TableTypes`, which includes `SyncInv`: what a task holds has the type of what it will write |

The proofs of `Administration` rest on one frame lemma per component: its step moves one
task, of its own operations, and leaves the rest (`Steps`, `Moves`, `OthersStay`).

The library's induction theorems take an operator as a parameter, which no prover here can
instantiate. Where a proof needs induction it uses a form that speaks of a set instead
(`AllNaturals`, `AllPlaces`, `AllSubsets`: a set with the first member and closed under the step is
everything), and facts about `FlattenSeq` and its like are derived from the definitions by
these. This is why the theorems about streams and conversations hold for any length.

Only model-checked: the liveness properties `RequestsFinish`, `QueueDrains` and `StreamEnds`
(liveness under fairness is beyond the prover); and the six disagreements below, which are counterexamples.

## Where code and comments disagree

| Run | Comment | What happens |
|---|---|---|
| `router_retry` | `proxy/api.py:182` "Clear sticky session so retry picks a different provider" | between the pop and the retry another request of the conversation stores the model again, and the retry calls what has just failed |
| `router_stream` | `proxy/api.py:157` "cooldown in stream — prevents retry on next request" | the stream commits a cooldown but keeps the sticky entry, and the sticky path reads no cooldowns |
| `router_until` | `proxy/api.py:125` "try each candidate until one works" | two requests insert the same cooldown; the second flush fails inside the except clause and the request ends with 500 |
| `router_lapsed` | `router/services.py:206` computes `expires_at_ms` | nothing compares it: a cooled model stays out for good |
| `providers_reload` | `registry.py:65` "Removes existing GenericOpenAIProvider entries and re-loads from DB" | of two overlapping reloads the one with older rows fills first, and the other does not replace it: a disabled platform stays routable |
| `migration_repeat` | `migrate_data.py:9` "Skips rows already present (idempotent)" | `migrate_requests` looks at nothing that is there: each run copies every request again |

`RequestsFinish` holds despite `router_retry`: a retry that takes the failed model again
needs another request to store it, and requests are finitely many.

Further observations, modelled as they are and without a run of their own:

- `router/services.py:39` says that a sticky model with too small a window falls through; it
  drops the entry and uses the model.
- `README.md:16` promises "SSE for `stream: true`, JSON otherwise"; `cohere.py:55` sends the same
  request as for a whole answer, the one JSON text that comes back has no line that begins with `data: `, and the
  client gets the final chunk and `[DONE]` alone. `StreamedAsWhole` states it.
- `set_cooldown` queues a record of its own for each failure, beside the one of the loop, so the
  request statistics count such a call twice.
- `keys/api.py:63` says that creation sets the status; the refresh two lines below it
  discards it (`CreateCommits`).
- a key that requests refer to is reported deleted and stays, because the foreign key is checked
  at the commit, after the reply.
- `settings` has the primary key (key, id), so two updates of a new setting leave two rows and
  every later read raises (`collided`).
- speech reports a success before its call; direct streams report nothing.
- the hourly job loses the rows of an hour whose run is skipped, and line 121 of
  `analytics/services.py` makes the average of two runs the mean of two means.

## Not modelled

- Priorities of fallback rows and the dashboard that sets them. Its `saveOrder` sorts by the
  old priorities before it numbers the rows, so an order made with the arrows is lost; this is one
  pure function of a React page.
- The size and clean-up of the sticky dictionary; token limits, which the code records and
  does not enforce.
- Latency and token columns of the aggregate, its grouping, and the remaining read-only queries
  of analytics, models and health.
- Transcription and speech of `google.py` (one call each, no decision), and the request form
  of `stability.py`.
- The gateway's own key check (a comparison), encryption (a library), wiring.
- `ProviderPlatformService.set_enabled` and `set_free_tier`, which have no caller. The
  scheduled sync is a dry run and is modelled as one (`dry`).

## Plan

What is left, in this order:

1. The choice of a key in `RequestRecords` as an abstraction of `FallbackRouter`, by refinement.
2. Priorities in `FallbackTable`, with parallel updates of the editor.

## Running it

    tlc -workers 2 -config MCFallbackRouter_loop.cfg MCFallbackRouter
    tlapm FallbackRouterProofs.tla

`providers_calls` and `records` take three minutes, `administration` and `router_loop` two,
every other run under one; each proof module one to two, `ProviderStreamProofs` four.
