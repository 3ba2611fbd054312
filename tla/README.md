# eve-api-cache in TLA+

eve-api-cache is an unauthenticated proxy in front of the EVE Online API (ESI).
It answers from Redis, fetches from ESI what Redis does not have, and keeps
every answer in PostgreSQL for good. This directory holds TLA+ models of its
parts, the TLC configurations that check small instances of them, and proofs,
for instances of every size, about all of them.

Contents: [the system](#the-system), [modules](#modules), [runs](#runs),
[bounds](#bounds), [fairness](#fairness), [proofs](#proofs),
[what the code does not keep](#what-the-code-does-not-keep),
[assumptions](#assumptions-and-abstractions),
[not modelled](#not-modelled), [plan](#plan).

## The system

One asyncio process (several may run against the same Redis and PostgreSQL).
Code between two `await`s is atomic; everything that can go wrong goes wrong at
an `await`.

| Part | State | Operations | What makes it correct |
|---|---|---|---|
| Coalescing, `app/coalesce.py` | `_inflight`: key to future | `coalesce` | one execution per key; all callers share its outcome; no caller joins a dead execution |
| Proxy, `app/proxy.py` | none of its own; locals across awaits | `_dispatch`: hot cache, negative cache, ETag, coalesced fetch, 304, 200, fallback, 4xx | what Redis can serve gets archived; a caller never sees a bare 304, nor an upstream error for what was archived; every request is answered |
| Redis client, `app/cache.py` | body, stale copy, ETag, TTL, negative entry per key; names | `get`, `set`, `get_stale`, `get_ttl`, `set_negative`, `get_negative`, names | a `set` is one MULTI; the stale copy and the ETag outlive the body |
| ESI client, `app/esi_client.py` | two semaphores, breaker deadline, token bucket | `fetch`, page fan-out, retries, `_note_response_budget`, `_pace` | no permit is lost; a 200 has all pages; every fetch returns; the breaker is obeyed |
| Rate limiter, `app/rate_limit.py` | a deque of admissions per client, a sweep counter | `allow` | the sliding window, whatever is trimmed and swept |
| Archive, `app/archive.py`, `app/db.py` | seven tables, Parquet files, the names in Redis | `write_snapshot`, `get_latest_payload`, `write_names` | committed snapshots are complete; what is archived is not overwritten; a write that reports success is there; writes end |
| Collector, `app/collector.py` | none | `_fetch_and_store`, history fan-out, type discovery | writes the proxy's keys without breaking what the proxy relies on; no fetch outlives its job |
| Scheduler, `app/scheduler.py` | jobs, advisory locks, connections of the pool | `_run_singleton_job` | one instance runs a job at a time; no lock stays behind; runs end |
| Allowlist, `app/allowlist.py` | none | path, parameter and body normalisation, keys | equivalent requests share a key, others do not; undeclared parameters make none |
| Routes, metrics, configuration, lifespan, migrations | counters, settings | | plumbing |

How they interact. A request passes the rate limiter, then `_dispatch`. On a
miss `_dispatch` calls `coalesce`, which runs `ESIClient.fetch` for one caller
and lets the others wait. The leader stores in Redis and then archives; waiters
only answer. The scheduler runs the collector's jobs, each under an advisory lock
so that one instance runs it. A job calls `fetch` without coalescing and writes
the same Redis keys and the same tables. All processes meet in Redis and in
PostgreSQL's row and advisory locks; the tasks of one process meet in its pool of
connections.

What is hard: two requests and a collector job on one key, with reads before an
await used after it; a leader that fails, is cancelled, or loses its archive
write; a breaker that trips while requests are queued; a listing that changes
while its pages are read; transactions that insert the same rows under READ
COMMITTED; a connection that dies and takes its lock with it; jobs that hold one
connection and wait for another; TTLs that run out between any two steps.
`PROJECT.json` lists these hazards with their lines and the properties that
cover them.

## Modules

| Module | Models | State and actions |
|---|---|---|
| `SingleFlight` | what coalescing promises | a stage and an outcome per call; `Start`, `Join`, `Finish`, `Abort`, `Take`, `Leave` |
| `Coalesce` | `coalesce()` | `inflight` is `_inflight`, `future` the futures (named by their creator), `fut` and `got` a call's locals. `Lead`/`Wait` are the first locked block, `LeaderReturns`/`LeaderRaises`/`LeaderCancelled` the `try` with its `finally`, `Wake`/`WaiterCancelled` the shielded await |
| `CoalesceProofs` | | theorems about `Coalesce` |
| `Proxy` | `_dispatch`, the Redis keys of one request, `_fetch_and_store` | `redis` has the keys, `archived` the contents with a row under the endpoint's `archiveType`, `up` what ESI publishes. One action per await of `_dispatch`, named after its numbered steps; `INSTANCE SingleFlight` in place of `coalesce`; `Collect`/`CollectorStore`/`CollectorArchive` beside it; `Expire`, `Publish` and `Crash` around it |
| `ProxyProofs` | | theorems about `Proxy` |
| `ESIClient` | `fetch`, the page fan-out, retries, semaphores, breaker | a task per page of a fetch (`pc`, `attempt`, `page`), `upstream` and `pageSem` are the permits, `blocked` the time left on the breaker |
| `ESIClientProofs` | | theorems about `ESIClient` |
| `SlidingWindow` | what the rate limiter promises | the full history of admissions |
| `RateLimiter` | `allow` and `_prune` | `hits` is `_hits`, `ops` is `_ops_since_prune`; `log` keeps the history the code forgets |
| `RateLimiterProofs` | | theorems about `RateLimiter` |
| `AtomicArchive` | what the archive of an endpoint promises | a stage per write and the payload to fall back to: the newest, the last or the first stored, by the endpoint's type; `StoreNewer`, `StoreOlder`, `StoreLast`, `StoreFirst`, `Fail` |
| `Archive` | `write_snapshot`, `write_names`, `get_latest_payload`, the tables | `db` has the committed rows by unique key, `tx` each transaction's own, which are also its row locks, `redis` the names in Redis; one action per statement. A call of a kind that names ids goes on with `UpsertName`, `SetNames` and a second `Commit` |
| `ArchiveProofs` | | theorems about `Archive`, and that it implements `AtomicArchive` |
| `Scheduler` | `_run_singleton_job`, the jobs' fetches, the pool | `run` is where a run of a job stands in its instance, `link` the connection of its session, `lock` whose session holds the job's advisory lock as PostgreSQL sees it, `task` the fetches of the run. `Fire`, `Lock`/`Skip`/`GiveUp`, `Unlock` are the wrapper, `Read`, `FanOut`, `Acquire` the history job, `Fetched`, `TakeConnection`, `Archived` a fetch; `LinkDies`, `Reap` and `Crash` go wrong around them |
| `SchedulerProofs` | | theorems about `Scheduler` |
| `CacheKeys` | the allowlist, keys and hashes, and their users | operators named after the functions (`CheckParams`, `NormalizeParams`, `NormalizeBody`, `QueryHash`, `CacheKey`); `cache` and `archive` keep the ESI request whose response each key holds; `Serve` is the proxy's use of them, `Warm` the collector's, `Expire` a TTL |
| `CacheKeysProofs` | | theorems about `CacheKeys` |
| `MCCoalesce`, `MCProxy`, `MCESIClient`, `MCRateLimiter`, `MCArchive`, `MCScheduler`, `MCCacheKeys` | | the small instances TLC checks |

Composition: `Proxy` uses `SingleFlight`, and `Coalesce` is proved to implement
`SingleFlight`; so the proxy is checked against the promise and the promise is
proved of the code. The archive write of `Proxy` is one step that happens or fails
as a whole, which is what `AtomicArchive` says of a write and `Archive` is proved to
implement. The two look at different things: `AtomicArchive` keeps the payload a
fallback would serve, `Proxy` the versions that have a row (all of a time series, the
last of a reference, the first of an event), as it does not tell one fallback's
payload from another's. That what the one step leaves is whole is
`CommittedIsComplete`. That requests which share a key may be answered alike, which
`Proxy` takes for granted with its one key, is shown by `CacheKeys`
(`HitsAnswerTheRequest`, `FallbacksAnswerTheRequest`). The response of a fetch is
one step in `Proxy`; `ESIClient` shows that it comes (`EveryFetchReturns`) and
that a success is whole (`SuccessIsComplete`).

Operators named `X_Something` under the comment "A slip" are plausible mistakes
in `X`. No specification uses them. For every property of every passing run,
`PROJECT.json` names the slip that makes TLC find it violated, so that no
property holds for lack of anything that could break it.

## Runs

| Run | Instance | What it shows |
|---|---|---|
| `coalesce` | 4 calls, 2 keys, a result and an exception | one execution per key, a live registry, shared outcomes, waiters answered unless their leader was cancelled; the refinement of `SingleFlight` |
| `proxy` | 2 requests, 1 collector job, 2 contents of a time series or a reference, no faults | `SeenIsArchived`: whatever Redis can serve or revalidate is archived (in a time series that very content, of a reference or an event its one row) or in the hands of who will archive it. `NoBare304`, `OneFetchInFlight` |
| `proxy_live` | 2 requests, 1 content of an event or of an endpoint that is not archived, failing archive writes and crashes | every request is answered, and never with an upstream error when the endpoint was archived before it began |
| `esi_client` | 2 fetches of 3 or 2 pages, 2 + 1 permits, 1 retry | `PermitsAddUp`, `SuccessIsComplete`, `EveryFetchReturns` |
| `rate_limiter` | 2 clients, limit 2 in 3 ticks, sweep every 3 calls, 7 ticks | `WindowBound`; `IdleIsForgotten`: an idle client is swept away before so many further admissions; refinement of `SlidingWindow` |
| `archive` | 3 writes of 3 listings with common orders or names, every archive type, failing statements, a minute boundary | `CommittedIsComplete`, `SuccessIsArchived`, `AppendOnly`, `NamesAgree` (Redis and the name table), `EveryWriteEnds`; the refinement of `AtomicArchive` |
| `scheduler` | 2 instances, a job of one fetch and a history job of up to 2, pools of 2 connections, crashes, dying connections | `JobsAreExclusive`, `LocksAreBacked`, `EveryRunEnds` |
| `cache_keys` | 5 paths, 2 versions, 2 datasources, every mix of a few parameters, batches of up to 3 items, 2 collector jobs with an alias, either default datasource | `HitsAnswerTheRequest`, `FallbacksAnswerTheRequest`, `EquivalentRequestsShare` |
| `proxy_zero_age`, `proxy_etag`, `esi_breaker`, `archive_moved` | as above | counterexamples, [below](#what-the-code-does-not-keep) |

`TypeOK` is checked in every passing run but `proxy_live`, which shares its
module with `proxy`. Beyond the kinds of values it says when a local is in use:
a call of `coalesce` past its lock holds a future that was made, a request has an answer exactly while it is sent, a fetch a result exactly once
it has returned, a transaction that has ended holds no lock, a run a connection
exactly while its session lasts; and only what the allowlist declares has a key.
The rows of `Archive`, and what `CacheKeys` keeps under a key, are not typed; what
they hold is what the other properties of these modules say.

## Bounds

- *Coalesce.* Four calls give a leader with two waiters and a fourth call that
  leads the key again before the waiters wake; two keys give the interference
  `Wait_AnyKey` shows. The theorems need no bound.
- *Proxy.* Every property is about one key. Two requests give leader and waiter,
  and handlers are used again, so there are requests before, during and after
  each other without end. Two contents are what telling "the same" from "another"
  takes. One collector is enough: collector jobs do not read what they write.
  The instance with faults has one content, since there a version only has to
  be there or not, and no collector. The four types of endpoints are divided between
  the two: of the one row a reference or an event has, the properties and the actions
  ask only whether it is there, so what `proxy` shows of a reference it would show
  of an event. (The theorems are about all four.) For the same reason the view of
  `proxy` has of that row only whether it is there; and it leaves out `assured`,
  which no action reads and only `ArchivedNeverErrors` is about. What `TypeOK` says
  of these two beyond that is proved (`TypeCorrect`).
- *ESIClient.* Three pages give two page tasks that compete for one page permit;
  two fetches compete for two upstream permits; one retry gives a first attempt,
  a last one, and the edge between. `BlockTimes = {1}` suffices to be blocked or not;
  longer blocks only delay `Begin`.
- *RateLimiter.* A clock of more than two windows lets hits fall out of the
  window twice, at its very edge included. `MaxTime` bounds the clock. The
  theorems hold for every bound.
- *Archive.* Three writes are needed to have a row of a transaction that ended,
  one in flight, and one that waits. Two listings with two common orders in
  opposite order are the smallest deadlock; one of them has two versions of an
  order, and a third listing has an order twice and is refused; the names are laid
  out in the same way. `MaxMinute = 1` puts writes on both sides of a bucket's edge. Writes take
  their `now` in the order of their numbers, which stand for time.
- *Scheduler.* Two instances compete for each lock; two jobs and pools of two
  connections let all connections be held by runs that wait for a further one.
  Two type ids behind a semaphore of one (`Concurrency`) give a fetch that queues
  and one that ends or raises before the other. `MaxTypes` bounds what is discovered.
- *CacheKeys.* A violation takes two keys at most: `MaxKeys` bounds both stores. No
  further key is taken once the archive holds that many, so the run does not look
  for deadlocks. Batches have up to three items of two kinds, one item more than
  `MaxItems` admits, so order, repetition and the limit all occur.

## Fairness

- *Coalesce.* `coro_fn` ends (requests have timeouts, retries are bounded) and
  the event loop resumes tasks: weak fairness of the leader's end and of `Wake`,
  for each call. Cancellation is never fair.
- *Proxy.* Weak fairness of each request's own steps and of a collector job's
  stores. Nothing makes ESI publish, a TTL run out, a client ask or a process
  crash. The waiting on `coalesce` is fair because a leader's fetch is.
- *ESIClient.* Weak fairness per task and of the call that gathers them. Permits
  are granted first come, first served by asyncio; a task asks for each permit at
  most `MaxRetries + 1` times and the tasks are finitely many, so weak fairness of
  each task is no stronger than that.
- *Archive.* A statement that need not wait is executed, and PostgreSQL's
  deadlock detector runs.
- *Scheduler.* Weak fairness of each run's own steps (`Proceed`): the event loop
  resumes it, fetches and statements end. A wait for a connection ends by the
  connection or by the pool's timeout, either of which may come at any time, as
  proxied requests use the rest of the pool. Triggers, crashes and dying connections
  are not fair, and neither is PostgreSQL's noticing them.
- *RateLimiter* and *CacheKeys* have safety properties only and no fairness.

## Proofs

The seven `...Proofs` modules are checked by TLAPS, with no assumption besides the
named ones on the constants. Each states an inductive invariant `IInv`, proves
`THEOREM Invariance == Spec => []IInv` with one lemma per action or group of
actions, and derives the properties of the runs from it. (In `CacheKeysProofs` the
invariant is called `Explained`.)

**Coalescing** (`NoCallAssumption`: the "no future" value is not a call). `SingleExecution` is
not inductive: that two leaders of a key cannot coexist depends on the registry
holding the first one's future as long as it runs. `IInv` therefore says that
every leading call is the registered one for its key and its future pending,
that the registry holds only such calls, that an ended leader's future is
settled with what its caller got, and that a waiter's `fut` is the future of a
call for its own key. From it follow `TypeCorrect`, `NoStampede`,
`RegistryLive`, `OutcomeShared` and `StrandedByCancellationOnly`, and, through
`InitImplements` and `StepImplements`, `Implementation`: each step of
`Coalesce` is a step of `SingleFlight` or a stutter, under the mapping that
calls a waiter joined, settled or abandoned by the state of its future.

**Rate limiter** (`LimiterAssumption`: limit, window and interval are positive).
The code forgets hits, by trimming and by the sweep, so the invariant has to say
that what is forgotten does not matter: `Keeps` says a client's deque is a suffix
of its whole history and everything before the suffix is outside the window;
`InOrder` and `Spaced` that the history is ordered and that `Limit + 1`
admissions in a row span a window. `TrimKeeps`, `SweepKeeps` and `AppendKeeps`
carry it over the three things `allow` does to a deque. From it follow
`TypeCorrect`, `NoBurst` and `Implementation`: comparing the
length of the trimmed deque with the limit decides as `SlidingWindow` does on
the full history (`FullIsAtLimit`). `Forgotten`, that an idle client is dropped
in time, needs a second invariant, `Counted`: the admissions since the end of a
remembered client's window are no more than `ops`, the calls since the last sweep.

**Proxy** (`VersionsAssumption`, `NoneAssumption`: the "nothing" value is none of
the others). `IInv` follows each request through `_dispatch`: `Kinds` says what
the shared state may hold, `Stands` what a request's locals and its place in the
flight are at each await, `Unconditional` that the refetch sends no ETag and so
gets no 304, `Told` what a caller may have been answered. With `OneFetchInFlight`
it is inductive, and gives `TypeCorrect`, `Coalesced`, `No304` (a 304 that cannot
be restored is refetched without an ETag, and the refetch cannot give a 304) and,
with all faults, `NoErrorOnceArchived`. `Archival`, which assumes `Faults = {}`,
needs a second invariant on top: `Provenance` says that every version in Redis, in
a local or on its way from a leader to its waiters is `Traced`: archived as the
endpoint's type has it (`InArchive`: the version itself in a time series, the one row
of a reference or an event, nothing for the rest), or in the hands of a leader or a collector that has yet to archive it. The proof shows
that no step loses the last one who would.

**ESI client** (`ClientAssumption`). `PermitsAddUp` is about numbers; `IInv`
states it of sets: the free permits and the cardinality of the tasks on the `Wire`
(or of the `PageHolders`) add up to the semaphore's size. `PermitMoves` carries a
cardinality over a task that enters or leaves the set. `Phases` says that a fetch
stands where its first request does, so that page tasks which outlive a failed
fetch, and are holders still, are not mistaken for those of another; `Fits` that
an accepted page belongs to a listing of the announced length, from which
`Complete` and so `SuccessWhole` follow. `TypeCorrect` includes that attempts and
permits stay in their bounds.

**Archive** (`ArchiveAssumption`: listings are finite sequences, one for each
content). The core is `Locks`: no two transactions have written one row, and a row
that a transaction has written and that is committed too differs from it at most
in mutable columns; what a write, an end and a commit do to it (`WritingKeeps`,
`EndKeeps`, `CommitKeeps`) is proved once for all statements. `Reached` says what
each statement finds done before it, `Wrote` what a transaction's own rows look
like, `Kept` the same of committed rows, `Named` and `Cached` where a call's names
are between its two commits. The newest snapshot and the first or last item of an
id are chosen by `CHOOSE`; that they exist follows from `LeastIndex` and
`GreatestIndex`, by well-foundedness of finite sets. From `IInv` follow
`TypeCorrect`, `CommittedWhole`, `SuccessArchived`, `NamesAgreed` and the action
property `Appending`.

`Implementation` says that `Archive` refines `AtomicArchive`. The mapping makes a
write "stored" with its commit and takes `get_latest_payload` for `latest`. Every
statement before the commit is a stutter, since it changes no committed row; so is
the second commit, for which a second invariant, `Pending`, says that it holds
nothing but names. The commit itself is one of the four stores:
`LatestByPolicy` states, for each type, what `get_latest_payload` reads, and
`SeriesStored`, `ReferenceStored` and `EventStored` compare it before and after. For
time series the case that takes care is the write that finds a snapshot of its
content in its bucket: it changes nothing, which `StoreOlder` allows only if that
payload was stored before. A payload `LatestPayload` gives is one and the same
whichever of two equally new snapshots is chosen (`Top`).

**Scheduler** (`SchedulerAssumption`). `JobsAreExclusive` is not inductive: it needs
that a run at work on a living connection holds its job's lock (`WorkIsLocked`),
that a lock is held by such a run only (`LocksAreBacked`), and that no fetch
outlives its run (`FetchesAreInRuns`, which is what `return_exceptions=True`
gives). From it follow `TypeCorrect`, `Exclusion` and `NoLockIsLeft`.

**Cache keys** (`CacheKeysAssumption`, `BodiesAssumption`, `JobsAssumption`: the
table of endpoints, the batches and the jobs are what the code's are). The
invariant, `Explained`, says of every kept response which request that was let in,
or which job, put it under its key. The properties then are about keys: two
requests share one only if they ask for the same (`HitsAnswer`, `FallbacksAnswer`)
and whenever they do (`EquivalentShare`). For bodies this needs that
`normalize_body` returns one list for all lists of the same items, and the items
of its argument, whatever the length. That is usually an induction; it is avoided
by defining the result not by a recursion but by ranks: the sorted list has at
each place the item with that many before it. What remains is counting, with the
theorems on finite sets, and `AscendingAgree`: two ascending lists of the same items
agree, since at the least place where they differ one of them misses an item.

Only model-checked: all liveness (`WaitersAreAnswered`,
`EveryRequestIsAnswered`, `EveryFetchReturns`, `EveryWriteEnds`, `EveryRunEnds`),
which with its fairness is outside what TLAPS can do.

## What the code does not keep

Four runs end in a counterexample: the code does what a comment, the
documentation or a neighbouring path says it does not.

1. `proxy_zero_age`: a 304 with a max-age of zero. The 200 path falls back to 300
   seconds (`proxy.py:191`), the 304 path does so only for a missing value
   (`proxy.py:163`), so Redis is sent `EX 0`, refuses, and the request fails with the
   restored body in hand.
2. `proxy_etag`: a request reads the ETag before its fetch (`proxy.py:148`) and the
   stale copy after the 304 (`proxy.py:159`), and its leader writes both back
   (`proxy.py:166`). A collector's store of another version between the two reads
   leaves an ETag next to a body it does not validate; when ESI goes back to the
   content of that ETag, its 304 serves the other one as fresh. `SeenIsArchived`
   still holds: what is served was archived, only not now. (A store after the second
   read does no harm: what is written back then belongs together.)
3. `esi_breaker`: only the start of `fetch` asks the breaker (`esi_client.py:126`).
   Retries, further pages and queued requests are sent while it is tripped.
4. `archive_moved`: an order that moves to the next page while pages are read is
   listed twice. If both copies fall in one batch of 1000 rows
   (`_DELTA_INSERT_BATCH_SIZE`), they are in one INSERT .. ON CONFLICT DO UPDATE, which
   may not touch a row twice (`archive.py:514`), and the snapshot is lost as a whole.
   How often that is depends on the length of ESI's pages, which the repository does
   not state: pages of just 1000 rows would coincide with the batches.

## Assumptions and abstractions

- One cache key in `Proxy`, one endpoint in `Archive`: keys share nothing but the
  semaphores and the breaker, which `ESIClient` has, content-addressed blobs, and
  names, which calls for one endpoint share already.
- Contents are model values; an ETag is the content it validates; a body that
  was merged from pages has none. Whether a body is too large for a stale copy
  is left open at every store.
- TTLs are an order of expiry (the body before the stale copy and the ETag) and
  the distinction of zero from positive. When a zero max-age leaves a body
  beside an ETag of a shorter life, the order is kept as a simplification.
- ESI announces `X-Pages` on every page of a listing. (The code also accepts a
  page without it.) It publishes atomically.
- The endpoint in `Proxy` is of any archive type. Of a reference `SeenIsArchived`
  says that it has its row, not that the row is of the version Redis has: with two
  writers the last one in Redis need not be the last one in the table, and the code
  does not promise it. The same goes for an event, whose first row stays.
- `Archive` writes market orders with Parquet and deltas on; plain series are the
  case with both off. The entries of a listing are one statement, versions one
  step per row, as their row locks are taken one by one; `BatchSize` says which rows
  share a statement. PostgreSQL is modelled by the behaviour the code relies on.
- Redis and PostgreSQL answer: an error from Redis, or from the archive when it is
  read, leaves `_dispatch` as an internal error and is not modelled. Only archive
  writes fail.
- No task of `Proxy` is cancelled by itself: a handler ends by its own steps or
  with its process. What a cancelled leader does to its waiters is in `Coalesce`.
- In `Archive` a call that fails in `write_names` ends as "unnamed", apart from one
  whose response is lost: the caller logs both, but the first is committed. Names
  in Redis do not expire in the model: an expired name is one nobody reads.
- In `Scheduler` a checkout and the try-lock on it are one step; a pool's timeout may
  come at any time; an unlock fails only with its connection, and a run is
  cancelled only with its process. A session whose client is gone holds its lock
  (`Ghost`) until PostgreSQL notices.
- In `CacheKeys` hashes are injective, a version or a path is matched as a whole,
  and the table of endpoints, a constant, stands for its regular expressions. An
  item of a body is its place in the order of the items' JSON texts. A
  path with its trailing slash and the path without are two paths, both let in and
  with a key each, as in the code.
- The process may die in `Proxy` and `Scheduler` (`Crash`) and in `Archive` (`Fail`,
  which PostgreSQL turns into a rollback). Redis and PostgreSQL keep what they have.

## Not modelled

- The arithmetic of the token bucket (`_pace`): `Pace` delays a task and nothing
  depends on for how long. Whether the promised rate is kept is therefore open.
- Routes, metrics, configuration and lifespan are plumbing without state the
  properties speak of; the migrations run once, before the program.
- In `app/cache.py`: the value of `get_ttl`, which a header shows and a 304 without a max-age sets again
  (`proxy.py:163-165`; TTLs have no values in the model, and the code never makes this
  one zero); `set_name` and
  `get_name`, which nothing calls; the compression of bodies, which is data.
- What the allowlist's table contains, how a path is split into version and rest,
  and `endpoint_label`, which is for metrics.
- Errors of Redis, of reads of the archive, and of an unlock on a living connection.

## Plan

Done, in this order: coalescing with its abstraction and proofs, because all
else leans on it; the proxy; the ESI client; the rate limiter with its
abstraction and proofs; the archive with its names; the scheduler with its
proofs; the cache keys; the proofs about the proxy, the ESI client and the
archive; the proofs about the cache keys; the archive's abstraction and the
proof that it is implemented.

Left:
1. `Pacer`: the token bucket, with the lock held across the sleep and cancelled
   sleepers, against the rate it promises.
2. Errors of Redis and of archive reads in `Proxy`, as exceptions of a handler.
