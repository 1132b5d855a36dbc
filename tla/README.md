# A TLA+ verification project for CA-DNS

CA-DNS is a carbon-aware DNS resolver. BIND asks a DLZ module written in C,
which asks SQL functions in PostgreSQL for the addresses of a name that cause
the lowest carbon emissions. Python services fill the database: a collector
turns dnstap events into measurement jobs, workers measure names, and a monitor
re-queues names whose data is about to expire.

This directory holds TLA+ modules that model these parts, TLC runs on small
instances and TLAPS proofs. `PROJECT.json` lists runs, mutants, findings,
hazards and theorems, and maps every modelling definition to its source lines.

To repeat a check, in this directory:

    tlc -workers 2 -config queue_safety.cfg MCMeasurementQueue
    tlapm MeasurementQueueProofs.tla

Each `...Proofs` module is checked by a `tlapm` call of its own. The larger ones
(`DlzModuleProofs`, `CarbonClientProofs`, `FreshnessProofs`) take a minute or two.

## 1. Inventory

| Component | State | Operations | What makes it correct |
|---|---|---|---|
| Measurement queue (`queue/pg.py`, table of `0001_init.sql`) | one row per domain: state, attempts, lock, due time | enqueue, claim, complete, fail, release | one task per domain; no request lost; dead only after all attempts |
| Worker (`worker/service.py`) | its id, the running tasks, the wake event | claim loop, `_process`, `_release`, `_drain`, `_listen` | never above its concurrency; writes only to rows it still owns; gives jobs back when stopped; wakes up for work |
| Pipeline (`worker/pipeline.py`) and store (`worker/store.py`) | `domains`, `endpoints`, `rrset_records`, `carbon_signals`, region cache | measure, store_measurement, save_region, save_signal | atomic replacement; what is served has a bounded age (a late measurement may replace newer records); a region belongs to the endpoint's location |
| Answer policy (`0002_dlz_functions.sql`) | none: reads records, endpoints and signals | dlz_findzone, dlz_lookup | greenest addresses; no false NODATA; TTLs do not outlive the data |
| DLZ module (`dlz_pgsql.c`, `util.c`) | connection pool, thread-local last probe and row cache | create, findzonedb, lookup, destroy | answers for the exact name only; fail-open; bounded staleness; no connection leaks |
| Monitor scheduler (`monitor/service.py`) | `next_run` per job, stop event | run, `_run_job` | no starvation, no bursts, prompt stop |
| Monitor jobs (`monitor/tasks.py`) | database | scan_expiring, refresh_carbon, collect_garbage | agrees with dlz_findzone on expiry; deletes nothing in use |
| Collector (`collector/*.py`) | current batch, dnstap connections | add event, flush, write_batch | a miss leads to a job, except where the batch may be dropped |
| WattTime client (`carbon/watttime.py`) | token, login lock, rate limiter | region_for, current_moer, `_login`, `_get` | shared logins, valid tokens, spaced requests, every call ends |
| Geolocation, resolvers | none shared | HTTP and DNS requests | fallback order; per-resolver failures stay separate |
| CLI, configuration, health, logging, metrics, scripts | none of interest | wiring and output | |

**How they interact.** PostgreSQL is the only shared state. Collector and
monitor call `enqueue`; workers call `claim`, measure, store the result and then
call `complete` or `fail` in a separate transaction. The DLZ module only reads.
`NOTIFY` wakes the workers. Within a Python process everything is asyncio: an
interleaving can happen at an `await` only. The DLZ module runs on BIND's worker
threads, with thread-local state and one mutex-protected pool. All connections of
the services are in autocommit mode, so every statement outside
`conn.transaction()` is a transaction of its own.

**What is hard** (the list with source lines is `hazards` in `PROJECT.json`):
locks that expire while their task still runs; replies lost after a commit;
cancellation inside an exception handler; a crash between locking and working;
the thread-local state of one search met by the next; server restarts in the
middle of a query; measurements that overlap on one endpoint and one cache; two definitions of "served until" in two languages; TTLs in
whole seconds over times in microseconds; a schedule that must neither drift nor
burst.

## 2. Modules

| Module | Role |
|---|---|
| `PgQueue` | the queue's table and SQL statements as operators; the policy constants and their assumptions |
| `MeasurementQueue` | composes `PgQueue` with workers, tasks, producers, time and faults |
| `MeasurementJobs` | abstract specification: what the queue promises its producers |
| `DlzModule` | the BIND module with BIND and PostgreSQL as its environment |
| `AnswerPolicy` | the SQL functions over changing records, signals and time |
| `MonitorSchedule` | the monitor's scheduler |
| `CarbonClient` | the WattTime client: token, rate limiter, retries |
| `WorkerLoop` | how a worker notices work: claim loop, wake event, poll, LISTEN/NOTIFY |
| `Collector` | dnstap sessions, batches, flushes, shutdown; composed with `WorkerLoop` |
| `Freshness` | composes `PgQueue` with collector, workers, store, expiry scan and garbage collector over the life of one domain |
| `Resolvers` | `parse_response` and `classify` as operators |
| `Pipeline` | overlapping measurements step by step: geolocation, regions, signals, store; endpoint collection |
| `MC...` | TLC instances of the above |
| `...Proofs` | theorems about the module of that name: `MeasurementQueueProofs` (with the refinement of `MeasurementJobs`), `CollectorProofs` (with `WorkerLoop`), `DlzModuleProofs`, `AnswerPolicyProofs`, `PipelineProofs`, `CarbonClientProofs`, `FreshnessProofs`, `MonitorScheduleProofs` |

Operators named as variants (their comments start with "Variant") are mutated
forms of the definition that follows them. Nothing in a specification uses them;
`mutants` in `PROJECT.json` puts one in place of its original to show that a
property would notice such a bug.

### PgQueue and MeasurementQueue

The operators `enqueue`, `claim`, `complete`, `fail` and `release` are the SQL
statements of `pg.py`, from a table and a time to a table. `FOR UPDATE SKIP
LOCKED` lets `claim` pass over any rows another transaction holds, so a claim
may take the oldest ready rows of any subset of the table. Rows without a lock
holder, expired locks and backoff times follow the `WHERE` clauses literally,
including the strict `<` of the lock timeout. The columns `reason` and
`last_error` are written and never read, and are left out.

A worker process goes through new, up, draining and then gone or crashed;
a restarted process has a new id (`worker_id()` contains a UUID), so it is
another member of `WorkerIds`. A task is a record of the job as `claim` returned
it: the domain, the attempts *at claim time*, and when it started. Its phase is
`measuring`, or `failing` once an exception was caught and the handler awaits a
connection or `fail()`. The actions of a task are the ways `_process` can end:
complete, fail, raise, cancellation in either phase, and the two paths that log
"its lock will expire". `Faults` selects what the environment does to it.

Abstracted: what a measurement computes (`Pipeline`), the pool of connections,
metrics, and when a worker wakes up (`WorkerLoop`): a worker may claim at any
moment, so all safety results hold for any wake-up policy.
`free` is computed and used in one step: between the two lies only the await of
`claim` itself, during which tasks can end but not start (`WorkerLoop` keeps the
two apart). The removal of dead rows by the garbage collector is in `Freshness`.

### DlzModule

One thread's call is a small program: probe, acquire, connect, execute, result,
done. Each `pc` value is a point where another thread or the server can intervene.
`Execute` is the moment the statement reads its rows on the server, `Result` the
return of `PQexecPrepared`, after which `store_rows` reads the clock: in between the
rows may change, the server may stop and time may pass, up to `MaxRoundTrip`. A
lookup hands its rows to BIND by `putrr`, which may refuse any of them (`PutRows`);
`lookup` then ends with BIND's error. The
connection pool is the code's stack `free_idx`. `link` distinguishes a closed
connection from one the server broke and libpq has not noticed. BIND is external:
it probes the query name and its parents, longest first, on one thread; it may
stop early at a static zone (`StaticLabels`) and it may call `lookup` later than
directly after `findzonedb`. PostgreSQL is external as well. A DNS name is the
sequence of its labels. `held` remembers when the database last held each answer;
it is a history variable used only to state freshness.

### AnswerPolicy

The state is what the SQL functions read for one name. Ranking ties are broken
by address in SQL; here any order is allowed, so the results hold for every
tie-break. The clock has several ticks per second because `now()` is finer than
a TTL. `served_until` is the monitor's query for the same question
(`expiring_domains`).

### MonitorSchedule

The `while` loop of `Monitor.run` with one clock reading per pass. Job durations
and late wake-ups are chosen freely within bounds; a job that raises is
rescheduled like any other. `PassTime[j]` bounds what the first j jobs of a pass take
together; it is a constant rather than a sum over the jobs so that the bound on
lateness can be proved (its assumption says that each job adds at least its
`MaxDuration`, and `MCMonitorSchedule` gives it the sums). A sleep is
`wait_for(stop.wait(), timeout)`: it lasts until the next due time only while `stop`
is not set. `starts`, `late` and `told` are history variables; `told` remembers, when
the event is set, the starts so far and when the job that runs has to be over.

### CarbonClient

Concurrent calls of `_get` go through two `asyncio.Lock`s, which are FIFO: each is
the sequence of callers that asked for it, its head being the holder. All times
are relative (time left, age, distance to the limiter's next slot), so the state
space is finite without a bound on the clock and liveness can be checked on real
infinite behaviours. `since` and `gaps` are history variables. A task that can run
runs before time passes; a slow event loop appears as a late sleep.

### WorkerLoop and Collector

`WorkerLoop` is `Worker.run`, cut at its awaits: `top` clears the event and counts
free slots, `claim` is the await of the statement, `return` starts the tasks. `claim`
passes over any ready rows that another transaction holds at that moment (`FOR UPDATE
SKIP LOCKED`); an `enqueue` of the same names holds them and, as they are pending
already, announces nothing, so such rows wait for the poll. `skipped` remembers them. A
task that ends has two steps, because its row is settled before `_done` runs and
sets the event. Notifications are lost while the listener is not connected, and
after a reconnect the listener sets the event itself. A row's state keeps only how
it became ready: `new` was announced by NOTIFY, `due` was not (a backoff or a lost
lock ended). Tasks do not outlive their locks here; what happens when they do is
`MeasurementQueue`'s question.

`Collector` adds the dnstap session (frames are accepted between START and the end
of a session), the batch, and the flush: swap, then `write_batch` as two
transactions with an await before each, then back to the loop or out of `run()`.
Frames arrive in between. The second transaction is the queue's `enqueue` and
NOTIFY, `Announce` of `WorkerLoop`: the two modules together reach from a client's
miss to a running measurement. A flush that raises drops what it holds; the
statement that raised may have committed. `received`, `late` and `failed` are
history variables.

### Freshness

Every SQL statement or transaction that touches one domain is a step: the hits and
the misses of `write_batch`, the queue's statements, `store_measurement`, the SELECT
and the enqueue of `scan_expiring`, the subquery and the DELETE of each garbage
collection. So a row can change between selection and use everywhere the code
allows it. Times are relative: now is 0 and `Tick` moves every column into the past,
down to a floor below which no comparison distinguishes values. The state space is
finite although time has no end. `steady` is a history variable: set by a
measurement that completes, and reset by any fault, delay or idle domain since.

### Resolvers and Pipeline

A response keeps its rcode, one RRset per owner name and the SOA. `parse_response`
follows CNAMEs for at most `MaxHops` hops; `classify` is
`pipeline.classify`. The first measurement of `Pipeline` starts from all combinations
of responses, and no other starts until they are classified; after that any domain is
measured at any time, from any outcome. A domain has one measurement at a time
(`MeasurementQueue`), and the measurements of different domains overlap: they read and
write the same endpoints, region cache and signals, each table access being a step.
Their lookups run concurrently up to `ApiConcurrency` and share `ApiSource._legacy`, the
flag that remembers a 403; each remembers the URL it asked. Then come the regions
(`cached_regions` is read once, the rest is asked for and saved one by one), the
signals, and the store. A reply of WattTime and its `save_region` are one step, since
nobody can see the reply earlier; another measurement may come between any two of them.
An endpoint that was read as fresh is written back as it was read. `missed` is a history
variable: the locations a measurement wanted and the cache had no region for. IPinfo
and WattTime are external: a source may say any of `Places`, WattTime any of
`RegionsAt` a location, or fail.

## 3. Runs

| Run | Instance | Shows |
|---|---|---|
| `queue_safety` | 2 domains, 2 workers, 2 slots each, all faults except lost complete/fail replies | `ExclusiveProcessing`, `DeadMeansExhausted`, `OnlyOwnerWrites`, `FreshCompletion`, `ImplementsJobs` (refinement of `MeasurementJobs`) |
| `queue_lost_replies` | 2 domains, 2 workers, 1 slot each, every fault, tasks up to 3 times the lock timeout | what survives without the timing assumption: `NoForeignWrites` |
| `intake` | 2 names, 2 client responses, 1 worker of 2 slots; lost notifications, failing claims and flushes, claims that pass over rows, stops | `HitsAtMostOnce`, `StopLosesNothing`, `NoSleepOverWork`, `ReadyRowClaimed` (liveness) |
| `freshness` | 1 domain, 2 overlapping measurements, scan every tick | `StaysServed` (re-measured before expiry), `DataAgeBounded` |
| `missed_name` | 1 domain, 1 measurement at a time, the smallest times, every fault | `MissedNameMeasured` (liveness) |
| `pipeline` | 10 kinds of response for 2 resolvers and 2 types; 2 domains that share 1 address, 2 locations, 1 region | `OutcomeJustified`, `NoRefusedLookup`, `PlacedWhereItIs`, `RegionKept` |
| `dlz_answers` | 3 nested names, 1 thread, static zones, time | `ExactNameOnly` (ADR-8), `AnswersAreRecent`, `DirectLookupKeepsAnswer`, `QueryNameAsked` |
| `dlz_pool` | 2 threads, 1 connection, restarts, backoff, malformed results | `PoolConserved`, `CallsReturn` (liveness) |
| `answer_policy` | 3 IPv4 and 1 IPv6 address, TTLs 0, 1, 3 s, half-second clock | `NoFalseNodata`, `GreenestAnswer`, `AnswersDoNotOutliveData`, `ServedUntilAgrees` |
| `monitor_schedule` | 3 jobs of different interval and duration | `LatenessBounded`, `AtMostOneCatchUp`, `StopIsPrompt` (liveness) |
| `carbon_client` | 2 callers, interval 2, sleeps up to 1 late | `RequestsSpaced`, `TokenStillAccepted`, `NoNeedlessLogin`, `CallsEnd` (liveness) |

The twelfth run, `stale_claim`, is expected to fail; it is the finding of section 5.

**Why the bounds are enough.**
*Queue.* Two workers and two domains give every pairwise race on a row. With two
slots a claim takes several rows at once; with one slot it has to choose. `MaxTime = 5` with lock timeout, retry base and cooldown
of 1 lets a row be claimed, expire, be claimed again, fail, back off, die, cool
down and be revived within one behaviour. `MaxAttempts = 2` is the smallest value
that separates a first from a last attempt.
*Intake.* Two names and two slots: a claim takes none, one or both rows, and can
leave one behind. Two responses suffice for one in the batch that is being written
and one in the next, before or during the final flush. `CollectorProofs` proves
the safety properties without these bounds.
*Freshness.* Two measurements overlap and store in either order; `LockTimeout = 1`
lets a second claim happen while the first still runs. `Ttl = 4` and `Lead = 3` with
a scan every tick and measurements of one tick are the smallest values for which
`StaysServed` holds. The lead has to exceed a scan period and a measurement
(`Lead = 2` violates it). The lifetime has to exceed the time a worker takes from
the store to `complete()`, during which the row keeps the scan's request out, plus a
scan period and a measurement (`Ttl = 3` violates it, with any lead), and
`MinRemeasure` plus a measurement (4 against 3 violates it, 5 does not). The code
leaves this to the configuration: with a lead of 15 s and scans every 5 s,
measurements may take 10 s, but records with a TTL of a few seconds lapse between
measurements unless `min_record_ttl` is raised from its default of 0.
`missed_name` has every time at its smallest, except a `FailedRetry` above the
queue's own retry, so that a back-off and a retry can cross.
*Pipeline.* The ten responses hold: no answer, SERVFAIL, NXDOMAIN, NODATA with and
without SOA, an address, chains with the lower TTL at either end, a loop, and a
chain one hop too long. Two domains with one address in common give every race of two
measurements on an endpoint, on the region cache and on the `_legacy` flag; an address
that only one of them had would be a measurement on its own. Two locations let the
address move while one measurement still has it at the old one; one of them has a
region, the other none. `PipelineProofs` has no such bounds.
*DLZ.* State is per thread except for the pool, so the name and answer runs need
one thread; two threads on one connection exhaust the pool. Three nested names
reach a probe that is a parent of one and a child of another; the
first and the last are ever served (`Served`), with one set of rows that comes and goes. `CacheMaxAge = 0`,
`MaxRoundTrip = 1` and two ticks put rows on both sides of the limit, with replies that
take time and replies that do not. `DlzModuleProofs` proves the four properties for any
names and any number of different answers. `dlz_pool` has no servable
rows, so that two threads fit: every result is NOTFOUND or malformed, and `fetch`
treats its connection alike whatever the rows are.
*Answers.* With `AnswerK = 2`, three addresses make the ranking choose; three
records cover an address known to two resolvers with different TTLs, and two
families of which one expires first. TTL 0 is dead on arrival and TTL 3 is over
`MaxAnswerTtl`.
*Monitor.* Three jobs, one of them slower than another's interval, and two start
readings of the clock.
*Carbon client.* Two callers contend for both locks. `MaxRetries = 1` has a last
attempt after either kind of retry. `ServerLifetime = 8` is the smallest value for
which `TokenStillAccepted` holds: `Lifetime - 1 + MaxLatency + 2 * Interval +
MaxOversleep`, that is, the margin has to cover one slot per concurrent caller. With
the code's 5 minutes and 10 requests per second that is ample for the 8 slots of
`API_CONCURRENCY`. `RequestsSpaced` cannot be sharpened to the full interval between
neighbours: after a late sleep the next request keeps its own slot.

**Symmetry** is used in runs without liveness properties only, over workers and
domains (`pipeline` included), and over addresses of one family. The initial state and all actions
treat these alike; `queue_safety` checks a refinement, which is a safety property
here and symmetric in domains and workers.

**Deadlock** is checked except in `monitor_schedule` and `intake`: monitor,
collector and worker really end.

**Fairness.** `DlzModule` assumes that a thread inside the module keeps running
(`WF(CallStep)`). The code justifies it: waiting for the pool is bounded by
`pool_wait_ms`, connecting by libpq's `connect_timeout`, and a query by
`statement_timeout_ms` (250 ms by default). `MaxRoundTrip` is an assumption of the same
kind: the server's part of it is bounded by `statement_timeout_ms`, the way back by the
network only. Nothing is assumed of BIND, the server or the clock.
`MonitorSchedule` assumes that the event loop keeps running the monitor's task
and that jobs end (`WF(Loop)`). `CarbonClient` assumes that time passes, that ready
tasks run, and that every HTTP request ends, as `httpx.AsyncClient(timeout=...)`
guarantees. `WorkerLoop` assumes that the loop and its tasks go on (weak fairness;
`wait_for` has a timeout, so a sleeping loop is never stuck), and, strongly, that
claims do not pass over a row for ever: `claim()` orders by `enqueued_at`, and a row
that was claimed rests longer than a poll before it is ready again, and a transaction
that holds a row is short, so that not every poll meets one. Nothing is
assumed of listener, notifications or flushes. `Freshness` assumes of the
environment that clients keep missing the name and time goes on, of each service
that it goes on, and, strongly, that not every batch is dropped and not every
measurement aborted before its store. Without the last two the property is false:
a collector that always loses its database queues nothing. `MeasurementQueue` and
`Pipeline` assume no fairness.

## 4. Proofs

Every safety property of the passing runs is also a theorem. The theorems hold for all values of the constants that satisfy
the named assumptions of the modules: any number of domains, workers, names,
threads, callers, jobs and slots, all times and settings, every fault of the model.
Where a result needs a condition on the settings, the condition is a hypothesis of
the theorem, with a name of its own; the runs use settings that satisfy it. Each
inductive invariant (`IInv`) was checked with TLC on the instance of the component's
run before it was proved.

| Module | Theorem | Property | Hypothesis |
|---|---|---|---|
| `MeasurementQueueProofs` | `TypeCorrect` | `TypeOK` | |
| | `ForeignWritesNever` | `NoForeignWrites` (action) | |
| | `Exclusive` | `ExclusiveProcessing` | `Timely` |
| | `DeadLettersExhausted` | `DeadMeansExhausted` | `Timely` |
| | `OwnersWrite` | `OnlyOwnerWrites` (action) | `Timely` |
| | `CompletionsFresh` | `FreshCompletion` (action) | `Timely` |
| | `QueueImplementsJobs` | `ImplementsJobs` (refinement) | `Timely` |
| `CollectorProofs` | `IntakeTypes` | `TypeOK` | |
| | `NoLostWakeUp` | `NoSleepOverWork` | |
| | `CountedOnce` | `HitsAtMostOnce` | |
| | `StopFlushes` | `StopLosesNothing` | |
| `DlzModuleProofs` | `TypeCorrect` | `TypeOK` | |
| | `PoolIsConserved` | `PoolConserved` | |
| | `OnlyExactNames` | `ExactNameOnly` | |
| | `RecentAnswers` | `AnswersAreRecent` | |
| | `DirectLookups` | `DirectLookupKeepsAnswer` | |
| | `QueryNamesAsked` | `QueryNameAsked` | |
| `AnswerPolicyProofs` | `TypeCorrect` | `TypeOK` | |
| | `ServiceEndsTogether` | `ServedUntilAgrees` | |
| | `ServedMeansAnswered` | `NoFalseNodata` | |
| | `AnswersGreenest` | `GreenestAnswer` | |
| | `CachedNoLonger` | `AnswersDoNotOutliveData` | |
| `PipelineProofs` | `OutcomesJustified` | `OutcomeJustified` | |
| | `RegionsMatchPlaces` | `PlacedWhereItIs` | |
| | `LookupsFallBack` | `NoRefusedLookup` | |
| | `RegionsStay` | `RegionKept` (action) | |
| `CarbonClientProofs` | `TypeCorrect` | `TypeOK` | |
| | `RequestsKeepDistance` | `RequestsSpaced` | |
| | `OneLogin` | `NoNeedlessLogin` | |
| | `TokensAccepted` | `TokenStillAccepted` | `Margin` |
| `FreshnessProofs` | `TypeCorrect` | `TypeOK` | |
| | `DataNeverTooOld` | `DataAgeBounded` | |
| | `ActiveDomainsStayServed` | `StaysServed` | `InTime` |
| `MonitorScheduleProofs` | `NoJobStarved` | `LatenessBounded` | |
| | `CatchUpsBounded` | `AtMostOneCatchUp` (action) | |
| | `StopWaitsForOneJob` | the safety half of `StopIsPrompt` | |

**Hypotheses.**
`Timely`: no task outlives its lock (`MaxRun <= LockTimeout`) and the replies to
`complete` and `fail` are not lost. Both conditions are needed: `stale_claim` drops
the first and violates `DeadMeansExhausted`, and with `Faults = {"reply"}` instead
the same happens after a lost reply. `lock_timeout_seconds` is 300 by default and
nothing in the code enforces the first condition.
`Margin`: the server's token lifetime exceeds the client's by a login and one turn of
the rate limiter per concurrent caller. The code's 5 minutes are ample.
`InTime`: the lead exceeds a scan period and a measurement; a lifetime lasts for the
wait of `min_remeasure`, a scan period and a measurement, and for a scan period and
two measurements; a stored failure is retried later than the measurements that
overlap it. The defaults (lead 15 s, scan 5 s, re-measure after 10 s, retry after
60 s) satisfy it for measurements shorter than 10 s and lifetimes of 25 s or more;
records with a shorter TTL are the case section 3 describes.

**Assumptions on constants** are named in the modules that declare them
(`PolicyAssumption`, `DlzAssumption`, `PipelineAssumption`, ...), and TLC evaluates
them in the runs. They say that times and sizes are naturals, that the sets of
domains, connections and callers are finite, that `Null` and similar markers differ
from the values they stand beside, that responses are well formed, and that `Names`
of the DLZ module holds the parents of each name in it.

### The arguments

*Queue.* "Two tasks never share a domain" is not inductive: a claim looks
at rows, not at tasks. `IInv` therefore says that every task **owns** its row:
the row is pending, locked by the task's worker since the task started, with the
task's number of attempts, and the task is not older than `MaxRun`. A row that
`claim` may take is unlocked or its lock has expired, so by `Timely` no task owns
it (`ReadyHasNoTask`), and new tasks cannot meet old ones (`ClaimStep`). A task
that ends changes no row but its own (`EndStep`, `OwnsElsewhere`). `LocksPaired`
is needed because `claim` tests `locked_at` while the other statements test
`locked_by`. Since the row's attempts equal the task's, `fail` decides by the
right number, which gives `DeadMeansExhausted`. `OnlyOwnerWrites` follows because a
step that changes a locked row ends a task, and only one task owns the row.
`FreshCompletion` needs `RequestsPrecede` besides: a row was enqueued no later than
the task working on it was started. `enqueue` keeps this true because it writes only
rows that are absent or dead, and no task owns such a row. For the refinement, each action is matched with the step of the job
board it takes: `Enqueue` with requests, `Claim` with taking, the ends of a task with
finishing, failing or giving back, everything else with a stutter. `NoForeignWrites`
needs `LocksPaired` only, so it survives every fault.

*Intake.* `NoSleepOverWork` speaks of a sleeping worker only; the invariant
has to follow the loop to that point. `Attentive` says that a worker about to claim,
if the event is still clear, asks for as many rows as it has free slots; and that a
worker whose claim has returned, or that sleeps, has taken every announced row that the
claim did not pass over or filled all slots, unless the event was set since. It is kept because the event is
cleared *before* the slots are counted: a row or a free slot that appears later sets
it again. `SlotsKept` bounds the running tasks; it needs `RowsHeld` (a task or a
claimed job holds the lock of its row), since only disjoint sets of tasks and jobs
add up. `CountsKept` adds to `HitsAtMostOnce` that the batch being written was
received as well, which an error leaves behind as neither counted nor held.
`ClosingKept` ties the final flush to the names that came late.

*DLZ module.* `PoolInv` states conservation without counting: no connection is on the
free stack twice, or with two threads, or on both, and each is somewhere; a thread
holds one exactly while it connects or executes. The rest is one invariant per
thread. `SearchInv` follows a search: a name that is not the query name is probed
only directly after its child, so `last_probe` makes it a parent probe; while a
thread is idle or in `lookup`, `last_probe` is empty or the child of a static zone.
`ResultInv` says of a reply under way that the database held its rows when the statement
ran, at most `MaxRoundTrip` ago; `CacheInv` that the row cache holds an answer the
database had no longer than that before it was filled, `FetchInv` what a successful fetch leaves in it, `FoundInv` that the cache
still is the one of the zone found as long as nothing came between, and `ReplyInv`
carries all this to the reply.

*Answer policy.* The properties are about `min`, `max` and `ORDER BY ... LIMIT` over
sets of any finite size. That a finite set of numbers has a least and a greatest
element is proved from the library's well-founded order on finite sets. For
`served_until` the minimum over the types of the maximum over the records is
compared with "every stored type has a fresh record". For `GreenestAnswer`, the
addresses within a limit of emissions rank before all others, so the chosen set
contains them all or consists of them; either way no set of the same size contains
more of them. That dominance, at every limit, is how the property states "greenest".
It implies the comparison of sums and does not need them.

*Pipeline.* The invariant is one for the shared tables (`Shared`) and one per
measurement (`Good`), so that a step of one measurement leaves the others' alone
(`BecomesInv`). `WorkOk` says what each phase has done: nothing is located before the
lookups start, and all have ended when regions are asked for. `Placed` ties a region,
stored or in hand, to what WattTime may say of the location in the same record, and
`RegionsOk` says the same of the cache and of a measurement's copy of it. It does not
compare a measurement with the cache as it is now, which others change, and that is what
makes it survive the overlap. For `RegionKept`, `CacheOk` follows a location the cache
had when the measurement looked: it is not asked for, and the endpoint is stored with a
region. The stronger claim, that no endpoint loses its region, is false: a measurement
that looked before the region was saved, and then got no answer, writes NULL.
`NoRefusedLookup` holds
because a lookup falls back by the URL it asked and not by the shared flag.
`OutcomeJustified` is kept by `ResponsesInv`: while the responses are there, they are
the first measurement's and no other has started. It is about the loop over a chain of CNAMEs, `ChainTtl`, a recursive
function over the hops left. Its defining equation is shown to have a solution
(`ChainTtlExists`), and its values are compared with the chains spelled out, in both
directions (`Found`, `Finds`). These are inductions over the hops; as the prover
cannot apply the library's induction theorems, each looks at the smallest number of
hops for which the claim fails (`LeastNatural`) and derives a smaller one. The rest
is `classify` by cases, with the least of the negative TTLs (`BackoffBounded`).
`Responses \subseteq Response` types what a resolver may answer.

*WattTime client.* `LockInv` says that a lock's queue holds exactly the callers that
wait for it, each once; the login lock's head is the only one logging in, and there
is no usable token meanwhile. `SpacingInv` bounds the next slot by the last request,
and the one before. For the age of tokens, `AgeInv` adds to a token's age how long its
holder may still wait at the rate limiter: a turn for everyone ahead of it. Since a
queue holds each caller once, it is no longer than the number of callers
(`QueueDelay`).

*Freshness.* `DataAgeBounded` needs `TaskInv` and `DataInv` only: an answer is no
older than its measurement, and the expiry of stored records counts down from the
store. `StaysServed` is an argument about who will renew the records in time.
`AheadInv` lists the four cases: they outlast the next scan and a measurement; or the
scan has picked the domain; or it is queued and can be claimed; or a measurement is
under way that ends in time. `UsualInv` says that in steady operation what is queued
can be claimed, and that no scan is turned away by a `dead` row, a back-off or an
orphaned lock. The difficult case is a row that still belongs to a task that has
stored and not completed: it keeps the scan's request out. `TaskInv` then bounds how
old the records are; `BehindInv` covers a failed measurement that stored
between, where `measured_at` says less about the records than usual.

*Monitor scheduler.* `PassInv` bounds the age of the reading a pass decides by, using
the jobs already passed. `LateInv` follows how far a job is behind: after its
place in the pass, by the other jobs up to there; during the sleep, by all other jobs;
at the top of the loop, by a late wake-up as well; before its place in the next pass,
the same as of the pass's reading. A run that starts adds the jobs ahead of it. A job
that has just ended is due at its end or later, which closes the circle. `RateInv`
says that `next_run` is at least the last start, and an interval after the one before.
`StopInv` says that after the stop event no job starts and the clock stays, except for
the rest of the job that runs.

### Model-checked only

The liveness properties `CallsReturn`, `StopIsPrompt`, `CallsEnd`, `ReadyRowClaimed`
and `MissedNameMeasured` stay with TLC: the prover does not handle fairness.

## 5. Findings

`stale_claim`: a measurement slower than the lock timeout fails after its own worker
has claimed a fresh row for the domain. `fail()` matches by domain and worker id and
uses the old attempt count, so the fresh row is dead-lettered after a single
attempt. A lost reply to `complete()` leads to the same without a slow measurement,
through the `fail()` of the exception handler. It disappears if `complete`, `fail`
and `release` also compare `locked_at` (or the attempts) with what `claim` returned.

Observations that contradict no statement of the repository sharply enough to be a
run of their own, or that only cost time:

- `claim()` counts attempts and never compares them with `max_attempts`: a name
  whose measurement kills the worker is retried for ever.
- A task cancelled while it records an exception leaves through neither `except`
  clause; its job stays locked until the lock timeout although the stop was graceful.
- The monitor's `next_run` starts at 0 and the monotonic clock does not, so the first
  run of a job is followed at once by a second one.
- `0003_measurement.sql` calls `retry_after` the time before which a name is not to
  be measured again; the queue retries a failed measurement on its own schedule, by
  default after 30 s, while `failed_retry_seconds` is 60, and `claim()` does not read
  the column. `Freshness` contains this crossing, and its properties hold with it.

- Two measurements that share an endpoint may both find its location uncached. If one
  saves and stores the region and the WattTime call of the other fails, the second store
  writes `region_code` NULL over it, as the upsert sets all columns. The region stays
  out until the next measurement of a name with that endpoint, which takes it from the
  cache. `COALESCE` in the upsert is no remedy: `PlacedWhereItIs` fails with it when the
  endpoint has moved (`UpsertedCoalesce`).
- A claim that meets a row locked by a concurrent `enqueue` skips it, and that `enqueue`
  sends no notification: the row waits for the poll, with a free slot.
- A 401 for an old token that arrives after another call has logged in again discards
  the new token as well, at the cost of one more login.
- Of two measurements of a name that overlap after a lock has expired, the one that
  stores last wins, also if it is the older one.
- What the collector's final flush holds is dropped if that flush fails.

## 6. Not modelled

- The carbon refresh of the monitor (`refresh_carbon`, with the skip list of
  `run_monitor`) and the collection of old signals. It is one sequential job that
  appends signals; the latest signal of a region is never deleted, and
  `AnswerPolicy` lets signals change in any way. Its backoff is planned.
- Configuration, CLI wiring, health, logging, metrics, scripts and migrations run
  once or only produce output; the reports of the store only read.
- In the DLZ module, creation, option parsing and destruction happen before and after
  all queries, and the `DB_UP`/`DB_DOWN` flag only throttles log lines.
- Wire formats belong to BIND, libpq, dnspython, framestreams and the protobuf
  decoder: a frame that does not decode is dropped, and the layouts of IPinfo records
  are abstracted to coordinates or none and anycast or unknown.

## 7. Plan

The carbon refresh of the monitor with its per-region backoff.
