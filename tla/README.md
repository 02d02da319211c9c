# Formal models of node-observability-stack

TLA+ models of the order pipeline, of the two processes' shutdown and of the
telemetry package, checked with TLC on small instances; of each model the
invariants that matter most are proved with TLAPS for every instance. Paths below
are relative to the repository. `PROJECT.json` maps every definition to the
lines it models, lists the runs, the seeded faults that show what each property
can catch, the hazards and the theorems.

## The system

| Part | State | Operations | Talks to |
| --- | --- | --- | --- |
| api, `services/api/src/{app,db,queue,pricing,main}.ts` | handlers in flight, `stopping` | `POST /orders` (INSERT, then `queue.add`, then 202), `GET /orders/:id`, `GET /internal/pricing`, probes, `/metrics`, shutdown | PostgreSQL, Redis, its clients, the worker |
| PostgreSQL | table `orders`: `queued`, `priced`, `failed`, total | INSERT by the api, UPDATE by the worker | |
| Redis with BullMQ | jobs, their states, attempt and stall counts, locks | add, pick-up, retry with back-off, stalled check | |
| worker, `services/worker/src/{processor,main,db,pricing-client,summariser}.ts` | one attempt per lane, unawaited `markFailed` calls, `stopping` | processor (quote, UPDATE, summary), `failed`/`stalled` handlers, shutdown | Redis, PostgreSQL, the api |
| telemetry, `packages/telemetry/src/propagation.ts`, `logger.ts` | active span of each asynchronous execution, spans, lines | inject, extract, producer and consumer span, trace fields on lines | both services |
| telemetry, `genai.ts`, `metrics.ts` | the registry: histograms, counters, in-flight gauge | `withModelSpan`, `observeModelCall`, `httpMiddleware`, `observeJob` | Prometheus |
| telemetry, `sdk.ts`, `register.ts` | the started SDK, the wrapped modules, the batch queue | hook, start, export, `shutdownTelemetry` | Node's module loader, Collector |
| Collector, Prometheus rules, Alloy, Loki, Tempo, Grafana | configuration of external programs | | |

What is hard here, with the line of each in `PROJECT.json` under *hazards*:

* **Two stores, no transaction.** The row is committed before the job exists;
  either await may fail, the process may die between them, the add may be
  executed twice after a reconnect.
* **At-least-once processing.** A lock may expire under a worker that goes on,
  so that attempts on one order overlap, and report late, with a stale count.
* **A fire-and-forget write.** `markFailed` runs in an event handler; nobody
  awaits it and nothing repeats it.
* **A recomputed decision.** The `failed` handler decides from `attemptsMade`
  what BullMQ has decided for itself.
* **Shutdown.** Seven awaits in an order that matters, against jobs, scrapes and
  aborted requests that still run, a deadline, and more signals.
* **Outages.** A pg client that breaks while idle, commands that ioredis keeps
  until Redis is back, a pool of five that every route shares.
* **Start.** Instrumentation that must be in place before the application's
  first import, by messages to another thread on older versions of Node.
* **Telemetry on error paths.** An observer inside a `try`, a gauge that counts
  down on one event only, an outcome flag and a span status set on different
  paths, contexts of attempts that interleave at every await.

## Modules

| Module | Models |
| --- | --- |
| `OrderPipeline` | An order from request to settled row: api, PostgreSQL, Redis with BullMQ, worker processes with lanes |
| `OrderLifecycle` | The abstract promise: what a client may see of an order, with or without redelivery |
| `OrderPipelineSafety`, `OrderPipelineRefinement` | Theorems about `OrderPipeline` |
| `WorkerShutdown` | One worker process from serving to its exit |
| `ApiShutdown` | One api process from its loader through serving to its exit |
| `TelemetrySdk` | The SDK of a process: loader, batch queue, shutdown; composed by `ApiShutdown` |
| `OrderTrace` | Spans, log lines and job samples of orders across the queue |
| `ModelCall` | `withModelSpan`, the summariser and the three model series |
| `HttpMetrics` | The routes of the api with the request middleware: gauge and histogram |
| `Backends` | PostgreSQL behind the pool and Redis behind its connection, with their outages; extended by `HttpMetrics` |
| `Pricing` | The schemas of an order, the hash and the price; used by `HttpMetrics` and `ModelCall` |
| `WorkerShutdownProofs`, `ApiShutdownProofs`, `OrderTraceProofs`, `ModelCallProofs`, `HttpMetricsProofs` | Theorems about the module of that name |
| `FoldLemmas` | Sums over sets of indices, and the hash of a sku: what the proofs about `ModelCall` and `HttpMetrics` rest on |
| `MC*` | The sets, functions and symmetry TLC's configurations use |

An operator under a comment "A faulty …" (`MarkedFailedUnknown`, …)
stands before the definition it corrupts. The specifications never use it; it
records the bug that the property named in `PROJECT.json` catches.

### OrderPipeline

`request[o]` is the handler's position and then the reply; `row`, `job`, `lock`
are what PostgreSQL and Redis hold; `slot[w, i]` is a lane with its **copy** of
the job's attempt count; `marking[w]` are the unawaited `markFailed` calls.

| Code | Actions |
| --- | --- |
| `app.ts:54-66`, `:92-108` | `Post`, `PostInvalid`, `Insert`, `InsertFails`, `Respond`, `GetOrder` |
| `queue.ts:47-61` | `Add`, `AddResent`, `AddFails` |
| `main.ts` of the api | `ApiCrash`, `ApiRestart` |
| BullMQ pick-up, then `processor.ts:65-104` | `PickUp`, `QuoteOk`, `QuoteFails`, `QuoteBroken`, `WritePriced`, `WriteFails`, `Summarise`, `Complete` |
| BullMQ `moveToFailed`, then `main.ts:58-71` | `MoveToFailed`, `FailedEvent`, `FailedEventLost`, `MarkFailed`, `MarkFailedFails` |
| BullMQ timers | `Promote`, `StalledCheck`, `LockExpires`, `LockLost` |
| a killed worker | `WorkerCrash`, `WorkerRestart` |

Every failure needs `Fault(kind)`: a run chooses the kinds and their number.
Left out: FIFO order, back-off durations and lock durations (any order of
events may happen, which includes the real ones), `removeOnComplete` retention,
a loss of Redis' memory (nothing in the code reacts to it), and an UPDATE still
in flight when its process dies (it is taken to have happened before the crash
or not at all).

### WorkerShutdown and ApiShutdown

`stage` is the await `shutdown()` is at. The worker model adds the jobs with
their spans, the queries of the pool (`query`: the UPDATE of a processor, the mark
of the `failed` handler) and a scrape. A query takes a client or waits for one; a
client that an error broke is closed before there is room for another (`closing`);
`held` records which queries had a client when `database.close()` was called. The
api model adds handlers,
their connections and clients that hang up, because `server.close()` waits for
connections and not for handlers; a connection that is open at the signal may still
bring a request until it has closed (`Arrive` in stage `server`). `stop_grace_period` (15 s) exceeds the
deadline (10 s), so SIGKILL is not modelled; `SignalAgain` is, since
`process.once` leaves the second signal of a kind to Node. Each job is processed
once by the process; retries belong to `OrderPipeline`, where a shutdown that
does not drain is `WorkerCrash`.

### OrderTrace

A span is named by what it is about, and a trace by its root, so that no ids
have to be counted. `serving[j]` is the active span of the handler of `POST /orders`,
first that of its request and then, inside `withProducerSpan`, its own; what is
active when `injectTraceContext` is called goes into `data[j]`, and that is all an
attempt knows of them. `active[j]` is the span of the attempt's asynchronous context.
The attempts of one job follow each other: a job that stalled and is handed out while
its first attempt runs on, with the same attempt number, is in `OrderPipeline` only.
The carrier of a job is injected, absent or malformed (anything `readCarrier` or
the propagator rejects), and `continueTrace` is either. The api's span of a
pricing call is taken to end before the answer is read; after a lost
connection it may end at any later time.

### TelemetrySdk

`boot` is how far `register.ts` is, `wrapped` the modules the loader hook would
wrap, `sdk` the SDK behind the variable `active`. `Hook` installs the hook,
synchronous or on a loader thread, `startTelemetry` starts the SDK, `Acknowledge`
is one message of the thread, `Import` the end of the awaits, after which Node
imports `main.ts`; `Skip` is `OTEL_SDK_DISABLED`. A span that ends (`End`) waits
in the queue of the `BatchSpanProcessor` for an `Export`, is lost to a full queue,
or is `unrecorded`: no module or no processor saw it. A span is taken as recorded
only if every module is wrapped, which is stricter than the library needs. A span lost to a
full queue counts neither as exported nor as left behind. In `ApiShutdown` the span of a request ends with its handler. `WorkerShutdown` has a
simpler exporter of its own: what matters there is which spans are still open.

### ModelCall and Pricing

A wrapped function reports, re-reports, resolves and throws as it likes, unless
the call is in `DOMAIN Order`: then it is the worker's `summarise`
(`summariser.ts:58-70`), which throws ahead of its report for a `FAIL-` sku, and
else reports what the prompt and the chosen note take. A count that is not finite
makes prom-client throw. Cost is counted in whole units (millionths of a cent in
the run), where the code adds floating-point dollars.

`Pricing` has both schemas an order passes: the body of `POST /orders` wants a JSON
number, and the query of `GET /internal/pricing` takes the text the worker sends
(`asQuery`) for one. The rest works on numbers of 32 bits in two halves, as TLC's integers are signed
and have 32 bits. A sku is a sequence of character codes without surrogate pairs
(for one of those `charCodeAt(0)` takes the first half and the loop the whole
character). `summariser.ts:75-82` has a copy of `hash` without differences.

### HttpMetrics and Backends

`Route`, `Needs` and `Answers` are the table of the routes in `app.ts`: the
template, the services awaited first, the status of the answer given what
rejected. `Arrive` is the middleware, `Routed` the body parser, the router and the
start of the handler, `Awaits` one step of what it awaits, `Answer` its end or an
error handler, `Finish` the listener of `finish`. An aborted request's handler
runs on and `finish` is never emitted. A body over 16 kB is answered with 500,
because the error handler knows parse errors only.

`Backends` has the clients of the pool (`idle`, `querying`; further queries wait),
the services each handler awaits, and the services that stop and come back. A
query rejects when its connection breaks or cannot be made; a command to Redis
never rejects for an outage; `PostgresStops` with an idle client ends the process,
because nothing listens for the pool's `error`.

## Runs

| Run | Question | Bounds and why they are enough |
| --- | --- | --- |
| `PipelineSafety` | Do row, job and reply agree under every failure, are finished jobs final, and do the rows implement the at-least-once life cycle? | Two orders (one FAIL-), two jobs (one each, or two of one order by a resent add), two workers, two attempts, four failures: overlapping attempts, two stalls (one more than `maxStalledCount`) and two failed calls in one history |
| `PipelineOrders` | Does an order settle once, and does every accepted order settle, when nothing is redelivered? | Two failures of the api, its awaits or pricing; three attempts, which a FAIL- order and an api that is down use up |
| `PipelineLive` | Does every job settle, and what can strand an order? | Three workers and any two failures except an api outage: one worker always runs, and two failures do not use up three attempts |
| `PipelineStalledTwice` | Does a second stall cost an order? | **Violated**, see below |
| `WorkerShutdown` | What does the order of the awaits guarantee? | Three jobs on two lanes: one waits while two run; two exhausted jobs on one connection, so that a mark waits for a client another query holds or an error closes |
| `ApiShutdown` | The same for the api, from its start: is every span recorded and exported? | Three requests, two connections: one INSERT waits for a client; two modules, so that one is acknowledged before the other; a batch queue of one span that two may want |
| `TraceAttempts` | Do the signals of an attempt belong together? | Two jobs of every carrier, two attempts each: the second after the first failed, beside any of the other job. Attempts of one job never overlap here |
| `ModelCall` | Do caller, span, observations and series agree, whatever is reported and thrown? | Four calls, two models: calls of both kinds may share a model, one model has no price; one summary fails |
| `HttpMetrics` | Are gauge and histogram right, does an accepted order have a price when the worker asks for it, and what does an outage hold up? | Two requests of any of 9 kinds on a pool of one connection: every pair, one of which waits for the client of the other, each possibly aborted at any point, both services stopping and coming back at any point; orders at both ends of the schema and beyond, one with a text for its quantity, one with the highest bit of its hash set and one whose pricing fails |
| `HttpMetricsLeak` | Is the gauge what its help text says? | **Violated**, see below |
| `RedisOutage` | Is a request that meets an outage of Redis answered? | **Violated**, see below |
| `PostgresOutage` | Does the api outlive an outage of PostgreSQL? | **Violated**, see below |

Symmetry (of jobs and workers, of calls) is used only in runs without liveness
properties. `CHECK_DEADLOCK FALSE` stands in every configuration because requests,
jobs and attempts are finite and processes end: a behaviour may really stop.

### Fairness

`OrderPipeline!FairSpec` is weakly fair to each request's next step, BullMQ's
timers, the pick-up of a job by *some* lane, each lane's next step, and each
process' unawaited call: Node's event loop, the timers and drivers that settle
every call they made. It is not fair to new requests, failures or restarts. As
`docker-compose.yml` gives the services no restart policy, no run needs a restart:
the liveness runs have more workers than the failures that kill them. The shutdown
modules are weakly fair to the deadline and to the flush of the log only; jobs,
scrapes, Redis, PostgreSQL and the Collector may hang for ever. `HttpMetrics` is
weakly fair to the handler of each request, which includes a service that runs
answering and the pool serving a query; it is not fair to the end of an outage
(`OutagePasses` assumes one) nor to arrivals, aborts, `finish` or idle timeouts.

### What the violated runs show

* **`PipelineStalledTwice`.** docs/alerting.md:88 says of a stalled job that
  "nothing is lost". A second stall exceeds BullMQ's default `maxStalledCount`
  of 1 and fails the job with attempts left. The `failed` handler
  (`services/worker/src/main.ts:61`) takes it for a retry and never marks the
  row, which stays `queued`.
* **`HttpMetricsLeak`.** The gauge of "requests currently being handled"
  (`metrics.ts:169`) counts down on `finish` only; every aborted request stays in
  it. `GaugeDrift` shows that it drifts by exactly those.
* **`RedisOutage`.** docs/alerting.md:125-127 says that Redis or PostgreSQL
  connectivity surfaces "as `/readyz` going 503 and as 5xx on the routes that need
  them". With `maxRetriesPerRequest: null` (`services/api/src/queue.ts:34`) and no
  timeout, `/readyz` and `POST /orders` wait as long as Redis is away.
  `OutagePasses` shows that they are answered when it is back, `ReadsSurviveRedis`
  that no other route waits with them.
* **`PostgresOutage`.** The same sentence. The pool of `services/api/src/db.ts:48`
  has no `error` listener: if PostgreSQL stops while a client is idle, pg-pool's
  `error` event is thrown and the process ends. The worker's pool (`db.ts:17`) is
  the same; `OrderPipeline` has that end as `WorkerCrash`.

Two sentences of comments are narrower in the model than in the code's words.
`onObservation` "receives one observation per call" (`genai.ts:56`), but
`observe()` is inside the `try`, so an observer that throws is called again and
the duration histogram counts the call twice; `OneObservationPerCall` excepts
exactly those calls. "A failed call reports zero tokens" (`metrics.ts:301`) does
not hold of a function that throws after it reported; `SeriesAgree` says that
its tokens and cost are in no series. The worker's own function does neither.

## Proofs

Every theorem holds for all values of the constants that satisfy the assumptions
named in the module it is about, which TLC evaluates in the runs. Each proof
follows one argument: an inductive `IInv` that contains `TypeOK`, a lemma per
action or group of actions that it survives, and the properties as consequences.
TLC has checked each `IInv`, and `OnceInv` and `SeriesInv` below, on the instance of
the run.

**`OrderPipeline`** (`OrderPipelineSafety`, `OrderPipelineRefinement`)

* `TypeCorrect` — by one lemma per group of actions.
* `Invariant` — the safety properties are not inductive: that a row
  says `failed` only of an exhausted order needs to know that a lane that
  notifies, or a pending `markFailed`, is about an exhausted job; that needs the
  lane's copy of the attempt count to be the job's whenever the lane holds the
  lock. Hence the conjuncts: `LockInv` (only active jobs are locked), `BusyInv`
  (a lane's job exists), `OrderInv` and `RequestInv` (job, row and reply),
  `AttemptInv` and `RunsInv` (counts against states), `HolderInv` (the copy of a
  lane that holds the lock), `WriteInv` (after the UPDATE the row is priced or
  another job of the order was given up), `NotifyInv`, `MarkInv`, `FailedInv`.
  The proof is in two layers: lemmas about how each variable moves (`JobMoves`,
  `SlotMoves`, `RowMoves`, `MarkMoves`, …) over all actions, and lemmas (`*Kept`)
  that each conjunct survives such moves.
* `FailedOnlyWhenExhausted`, `CompletedOnlyWhenPriced`, `AcceptedOnlyWhenBacked`,
  `RowsBeforeJobs`, `AttemptsAreBounded`, `OneSpanPerAttempt` — corollaries;
  `FinishedIsFinal` — the action property, under the invariant.
* `RefinesAtLeastOnce` — every step of the pipeline is a step or a stutter of
  `OrderLifecycle` with redelivery, under every failure.
* `RefinesOnce` — without redelivery, if the run's failures are none of
  `add_resent`, `update_error`, `lock_lost` and `worker_crash` (`DeliveredOnce`,
  which is weaker than what `PipelineOrders` assumes: a lost `failed` event is
  allowed). That a row is settled by one write needs that whatever
  could still write it finds it `queued` (`QueuedInv`): a job that waits, a lane at
  work, a lane that will mark, a `markFailed` under way. Such a write must be the
  only one, so an order has one job (`SingleInv`), a job one lane, the one with its
  lock (`HeldInv`), and an exhausted job one event or one call (`LastInv`).
  `OnceInv` is their conjunction, inductive on top of `IInv`.

**`WorkerShutdown`**: `FlushComesLast`, `CleanExitIsClean`, `CleanExitLosesToFullPool`.
`IInv` says that a span is open only while its job is with the processor, that
the worker has drained once it has closed, which queries a job can have (`JobInv`),
and that a query waits only before `pool.end()`, is lost only after it, and none
runs once it is over (`PoolInv`). `CleanExitLosesToFullPool` needs two facts
besides: while a query waits, at least `PoolMax` clients are at work or being closed
(`CountInv`, by cardinalities: one query takes the place of another), and so, of
a lost query, as many were when the pool was ended, none of them its own
(`LossInv`). How a query moves is stated once (`Moves`) for all that ask the pool.

**`ApiShutdown`** with `TelemetrySdk`: `DrainsFirst`, `CleanExitIsWhole`,
`FlushFollowsInserts`, `CleanExitIsTraced`. `DrainInv` is about connections,
`OrderInv` about row, job and reply, `PoolInv` about INSERTs after `pool.end()`.
That no span is left needs the start as well: `BootInv` (nothing is handled before
the loader is through), `SdkInv` (what boot, stage and SDK say of each other; every
module is wrapped when the application runs), `SpanInv`.

**`OrderTrace`**: `TracesAreWhole`, `AttemptsAreLinked`, `SignalsTellTheSame`,
`LinesAreOwn`. The trace of a span is a function of its name (`TraceId`) and is
settled before it begins; `SpanInv` has that, and that a span begins only in an
attempt that has begun. `JobInv` says that the data of a job that left the api name its
producer's span, that an attempt runs in the context of its own consumer span, which
stays open as long as it runs, and that a failed attempt which was handled has its
line, `SampleInv` that no running
attempt has a sample, so that its sample will be the only one. `Step` states once
what a step within an attempt has to show.

**`ModelCall`**: `ObservedOnce`, `SpanTellsTheSame`. `CallInv` says what a call has left in
each state; a step moves only its own call. That the tokens of a summary are numbers
(`SummaryValues`) rests on the range of the hash. `TotalsAgree` is about the registry, which all
calls share: `SeriesInv` adds to `IInv` the totals themselves and that no successful
call used a count prom-client refuses (`CountsInv`). A step adds one to one cell, or
its usage to one sum, and the lemmas `SumUpdate` and `SumAdd` carry that to the sums
over labels and calls. A model with a call its observer made fail is excepted, and
never loses the exception.

**`HttpMetrics`** with `Backends`: `GaugeIsOffByAborts`, `CountsEveryResponse`,
`AcceptedHasPrice`. `PoolInv` bounds the clients of the pool, `RouteInv` says that a
routed request has the route of what it asks for, `LeakInv` where an aborted request
can be. The gauge is the cardinality of the open requests, each count that of the
finished ones. `AnswerInv` says that a status answers the question asked; the price
is bounded by the lemmas `UnitCents` and `TotalCents`, and never refused because a
text that came from an accepted number is coerced to that number.

**`FoldLemmas`**. The models sum over sets and fold sequences with the community
modules, which take the indices one at a time from a function over all subsets,
defined by itself. That such a function exists, and that there is but one, is
proved by induction, first over the numbers (`Induction`, from the least element of
the complement) and then over the subsets of a finite set (`SubsetInduction`), both
stated about sets, not operators. It follows that a sum does not depend on the order
of its indices (`SumRemove`), and that a fold stays in a set each of its steps stays
in. `HashWord` is the case of the hash: `Mix` keeps 32 bits, so the hash of a sku of
any length has 32 bits, and price and note are in range. `ConstantsAssumption` of
`ModelCall` and `HttpMetrics` says only that orders are sequences of character codes
with a quantity.

Only model-checked: the liveness properties (`JobsSettle`, `StrandedOnlyByStalls`,
`AcceptedSettles`, `ShutdownEnds`, `ReadsSurviveRedis`, `OutagePasses`), because
fairness and ENABLED are outside of the prover's reach.

## Not modelled

* The rendering of metrics, the counts behind `queue_depth` (asked for on every
  scrape and kept nowhere; the scrape that waits for them is in `WorkerShutdown`)
  and the cardinality guard, a regular expression over rendered text.
* The worker's `stalled` and `error` handlers, which count and log; the stalled check
  and the expiry of a lock that precede them are in `OrderPipeline`.
* The end of the log flush: `WF(LogFlushed)` assumes that it comes, after the
  deadline is disarmed. A transport that never ends its flush would keep the process
  alive (`main.ts` clears the timer first), and no property can show that.
* Configuration parsing, log format, span and resource attributes: data without
  control; the attempt number on a consumer span among them. `SLOW-` skus and all latencies: any order of events may happen.
* Tail sampling and the alert rules. Both are configuration that an external
  program evaluates over time. What was read of them: two retries put the last
  attempt 1.5 s of backoff after the first, and the batch processor at most 5 s
  more, within the Collector's `decision_wait` of 10 s; a backlog or a stalled job
  takes longer than that, and its last spans are decided without the rest.
* Dashboards, the deployment, the load scripts and their report.

Two details of the code that the models made visible and no property is about: in
the worker a `FAIL-` sku never reaches the summariser, because pricing has refused
it first (`processor.ts:74`), so the failing summary needs another caller; and the
two lines of the `failed` handler (`main.ts:62` and `:68`) carry no trace ids, because
they are written outside of any span (`LinesOfOwnAttempt` pins down that they are the
only such lines).

## Plan

`WorkerShutdown` over `TelemetrySdk`, and an exit of any code as a `WorkerCrash` of
`OrderPipeline` or a stop that leaves no job active, with the theorem that says so.
The runs stay few: a new question first replaces or extends an existing run.
