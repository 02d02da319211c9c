--------------------------- MODULE WorkerShutdown ---------------------------
(***************************************************************************)
(* The life of one worker process, from serving jobs through the shutdown  *)
(* a signal starts to its exit (services/worker/src/main.ts): shutdown     *)
(* awaits worker.close(), queue.close(), metricsServer.close(),            *)
(* connection.quit(), database.close() and shutdownTelemetry() in turn,    *)
(* while jobs finish, unawaited markFailed calls go through the connection *)
(* pool, Prometheus scrapes, and a deadline runs.                          *)
(*                                                                         *)
(* Each job is processed at most once by this process; what other workers  *)
(* and the retries do is the matter of OrderPipeline.                      *)
(***************************************************************************)
EXTENDS FiniteSets, Integers

CONSTANTS
    Jobs,         \* the jobs this process may fetch
    LastTry,      \* those on their last attempt
    Concurrency,  \* WORKER_CONCURRENCY
    PoolMax,      \* the connections of the pg pool
    Signals       \* SIGTERM and SIGINT

ASSUME ConstantsAssumption ==
    /\ IsFiniteSet(Jobs)
    /\ LastTry \subseteq Jobs
    /\ Concurrency \in Nat \ {0}
    /\ PoolMax \in Nat \ {0}

VARIABLES
    stage,      \* what shutdown() is awaiting, "serving" before it runs
    listening,  \* the signals whose process.once handler has not run
    deadline,   \* is the shutdown timer armed?
    exit,       \* how the process ended: exit code, or killed by a signal
    job,        \* each job, as this process sees it
    span,       \* the consumer span of each job
    query,      \* the queries the pool was asked for
    closing,    \* rejected queries whose client the pool is closing
    held,       \* history: the clients in use when the pool was ended, by query
    scrape      \* is a /metrics request being answered?

vars == <<stage, listening, deadline, exit, job, span, query, closing, held,
          scrape>>

Stages == {"serving", "worker", "queue", "server", "redis", "pool", "spans",
           "log"}

(* A job moveToActive may be bringing, one the processor works on, and one  *)
(* whose outcome BullMQ is recording: worker.close() waits for all of them. *)
InProgress == {"fetching", "quoting", "updating", "summarising",
               "completing", "failing"}
Settled    == {"completed", "failed"}

(* Exported is handed to the exporter, whatever the Collector makes of it;  *)
(* dropped is ended after the SDK was shut down.                            *)
SpanStates == {"none", "open", "ended", "exported", "dropped"}

(* The UPDATE of a processor (markPriced) and that of the 'failed' handler  *)
(* (markFailed).                                                            *)
Queries     == {"update", "mark"} \X Jobs
QueryStates == {"none", "queued", "running", "done", "rejected", "lost"}

(* The types; and only a job on its last attempt is marked failed.          *)
TypeOK ==
    /\ stage \in Stages
    /\ listening \subseteq Signals
    /\ deadline \in BOOLEAN
    /\ exit \in {"none", "0", "1", "killed"}
    /\ job \in [Jobs -> {"waiting"} \cup InProgress \cup Settled]
    /\ span \in [Jobs -> SpanStates]
    /\ query \in [Queries -> QueryStates]
    /\ \A j \in Jobs \ LastTry : query[<<"mark", j>>] = "none"
    /\ closing \subseteq Queries
    /\ held \subseteq Queries
    /\ scrape \in BOOLEAN

Init ==
    /\ stage = "serving"
    /\ listening = Signals
    /\ deadline = FALSE
    /\ exit = "none"
    /\ job = [j \in Jobs |-> "waiting"]
    /\ span = [j \in Jobs |-> "none"]
    /\ query = [q \in Queries |-> "none"]
    /\ closing = {}
    /\ held = {}
    /\ scrape = FALSE

Alive == exit = "none"

Busy == {j \in Jobs : job[j] \in InProgress}

Move(j, from, to) ==
    /\ Alive
    /\ job[j] = from
    /\ job' = [job EXCEPT ![j] = to]

EndSpan(j) == span' = [span EXCEPT ![j] = IF stage = "log" THEN "dropped"
                                          ELSE "ended"]

processVars == <<stage, listening, deadline, exit>>
poolVars    == <<query, closing, held>>

-----------------------------------------------------------------------------
(* The pool of db.ts.  A client being closed no longer counts for the pool, *)
(* and the queue, first in first out in pg-pool, is served in any order.    *)
Working == {q \in Queries : query[q] = "running"}
Waiting == {q \in Queries : query[q] = "queued"}
ClientFree == Cardinality(Working) < PoolMax

(* pool.query takes a client at once, or waits for one.                     *)
Ask(q) ==
    /\ query' = [query EXCEPT ![q] = IF ClientFree THEN "running" ELSE "queued"]
    /\ UNCHANGED closing

(* A client, or room for one, is given to one of those that wait.           *)
Served(queries) ==
    IF Waiting = {} THEN {queries}
    ELSE {[queries EXCEPT ![w] = "running"] : w \in Waiting}

HandOver(q, outcome) ==
    /\ query' \in Served([query EXCEPT ![q] = outcome])
    /\ UNCHANGED closing

(* A query rejects because no connection came about, or by an error, which  *)
(* costs its client: room is made only when that is closed.                 *)
Reject(q) ==
    \/ HandOver(q, "rejected")
    \/ /\ query' = [query EXCEPT ![q] = "rejected"]
       /\ closing' = closing \cup {q}

ClientClosed(q) ==
    /\ Alive
    /\ q \in closing
    /\ closing' = closing \ {q}
    /\ query' \in IF ClientFree THEN Served(query) ELSE {query}
    /\ UNCHANGED <<processVars, job, span, held, scrape>>

-----------------------------------------------------------------------------
(* Jobs, while the process lives.                                           *)

(* BullMQ fetches no more once worker.close() was called ...                *)
Fetch(j) ==
    /\ stage = "serving"
    /\ Cardinality(Busy) < Concurrency
    /\ Move(j, "waiting", "fetching")
    /\ UNCHANGED <<processVars, span, poolVars, scrape>>

(* ... but what a fetch under way brings is still processed.                *)
Fetched(j) ==
    /\ Move(j, "fetching", "quoting")
    /\ span' = [span EXCEPT ![j] = "open"]
    /\ UNCHANGED <<processVars, poolVars, scrape>>

FetchedNothing(j) ==
    /\ Move(j, "fetching", "waiting")
    /\ UNCHANGED <<processVars, span, poolVars, scrape>>

QuoteOk(j) ==
    /\ Move(j, "quoting", "updating")
    /\ Ask(<<"update", j>>)
    /\ UNCHANGED <<processVars, span, held, scrape>>

QuoteFails(j) ==
    /\ Move(j, "quoting", "failing")
    /\ EndSpan(j)
    /\ UNCHANGED <<processVars, poolVars, scrape>>

UpdateOk(j) ==
    /\ query[<<"update", j>>] = "running"
    /\ Move(j, "updating", "summarising")
    /\ HandOver(<<"update", j>>, "done")
    /\ UNCHANGED <<processVars, span, held, scrape>>

UpdateFails(j) ==
    /\ query[<<"update", j>>] = "running"
    /\ Move(j, "updating", "failing")
    /\ Reject(<<"update", j>>)
    /\ EndSpan(j)
    /\ UNCHANGED <<processVars, held, scrape>>

Summarised(j) ==
    /\ Move(j, "summarising", "completing")
    /\ EndSpan(j)
    /\ UNCHANGED <<processVars, poolVars, scrape>>

Completed(j) ==
    /\ Move(j, "completing", "completed")
    /\ UNCHANGED <<processVars, span, poolVars, scrape>>

(* A faulty Failed: the handler does not look at exhausted.                 *)
FailedMarksAll(j) ==
    /\ Move(j, "failing", "failed")
    /\ Ask(<<"mark", j>>)
    /\ UNCHANGED <<processVars, span, held, scrape>>

(* The outcome is recorded and the 'failed' handler runs: markFailed of an  *)
(* exhausted job asks the pool for a client and is awaited by nobody.       *)
Failed(j) ==
    /\ Move(j, "failing", "failed")
    /\ IF j \in LastTry THEN Ask(<<"mark", j>>) ELSE UNCHANGED <<query, closing>>
    /\ UNCHANGED <<processVars, span, held, scrape>>

MarkEnds(j) ==
    /\ Alive
    /\ query[<<"mark", j>>] = "running"
    /\ HandOver(<<"mark", j>>, "done") \/ Reject(<<"mark", j>>)
    /\ UNCHANGED <<processVars, job, span, held, scrape>>

(* The batch processor exports what has ended.                              *)
Export(j) ==
    /\ Alive
    /\ span[j] = "ended"
    /\ span' = [span EXCEPT ![j] = "exported"]
    /\ UNCHANGED <<processVars, job, poolVars, scrape>>

(* GET /metrics: rendering awaits getJobCounts on the shared connection.    *)
ScrapeStarts ==
    /\ Alive
    /\ stage \in {"serving", "worker", "queue"}
    /\ ~scrape
    /\ scrape' = TRUE
    /\ UNCHANGED <<processVars, job, span, poolVars>>

ScrapeEnds ==
    /\ Alive
    /\ scrape
    /\ scrape' = FALSE
    /\ UNCHANGED <<processVars, job, span, poolVars>>

-----------------------------------------------------------------------------
(* The shutdown.                                                            *)

(* The handler of a signal runs once; shutdown() only for the first signal. *)
Signal(sig) ==
    /\ Alive
    /\ sig \in listening
    /\ listening' = listening \ {sig}
    /\ \/ /\ stage = "serving"
          /\ stage' = "worker"
          /\ deadline' = TRUE
       \/ /\ stage # "serving"
          /\ UNCHANGED <<stage, deadline>>
    /\ UNCHANGED <<exit, job, span, poolVars, scrape>>

(* process.once: a signal sent again meets no handler and kills.            *)
SignalAgain(sig) ==
    /\ Alive
    /\ sig \notin listening
    /\ exit' = "killed"
    /\ UNCHANGED <<stage, listening, deadline, job, span, poolVars, scrape>>

Await(from, to) ==
    /\ Alive
    /\ stage = from
    /\ stage' = to
    /\ UNCHANGED <<listening, exit, job, scrape>>

(* Faulty WorkerCloseds: what is being fetched is not waited for, and, as   *)
(* close(true) does, no job is.                                             *)
WorkerClosedFetching ==
    /\ Await("worker", "queue")
    /\ \A j \in Busy : job[j] = "fetching"
    /\ UNCHANGED <<deadline, span, poolVars>>

WorkerClosedForced ==
    /\ Await("worker", "queue")
    /\ UNCHANGED <<deadline, span, poolVars>>

WorkerClosed ==
    /\ Await("worker", "queue")
    /\ Busy = {}
    /\ UNCHANGED <<deadline, span, poolVars>>

(* The connection is shared, so there is nothing to wait for.               *)
QueueClosed ==
    /\ Await("queue", "server")
    /\ UNCHANGED <<deadline, span, poolVars>>

ServerClosed ==
    /\ Await("server", "redis")
    /\ ~scrape
    /\ UNCHANGED <<deadline, span, poolVars>>

(* database.close() follows at once, and a pool that is ending serves no    *)
(* query that still waits for a client: its promise never settles.          *)
RedisQuit ==
    /\ Await("redis", "pool")
    /\ held' = Working \cup closing
    /\ query' = [q \in Queries |-> IF q \in Waiting THEN "lost" ELSE query[q]]
    /\ UNCHANGED <<deadline, span, closing>>

(* quit() rejects; nothing catches it and the process ends on the unhandled *)
(* rejection.                                                               *)
RedisQuitFails ==
    /\ Alive
    /\ stage = "redis"
    /\ exit' = "1"
    /\ UNCHANGED <<stage, listening, deadline, job, span, poolVars, scrape>>

(* A faulty PoolEnded: database.close() is not awaited.                     *)
PoolEndedUnawaited ==
    /\ Await("pool", "spans")
    /\ UNCHANGED <<deadline, span, poolVars>>

PoolEnded ==
    /\ Await("pool", "spans")
    /\ Working = {}
    /\ UNCHANGED <<deadline, span, poolVars>>

(* shutdownTelemetry() exports what has ended, with a warning if that       *)
(* fails; then the deadline is cleared.                                     *)
SpansFlushed ==
    /\ Await("spans", "log")
    /\ deadline' = FALSE
    /\ span' = [j \in Jobs |-> IF span[j] = "ended" THEN "exported" ELSE span[j]]
    /\ UNCHANGED poolVars

LogFlushed ==
    /\ Alive
    /\ stage = "log"
    /\ exit' = "0"
    /\ UNCHANGED <<stage, listening, deadline, job, span, poolVars, scrape>>

(* A faulty DeadlineHit: the timer is cleared when the worker has closed.   *)
DeadlineHitEarlyOnly ==
    /\ Alive
    /\ deadline
    /\ stage = "worker"
    /\ exit' = "1"
    /\ UNCHANGED <<stage, listening, deadline, job, span, poolVars, scrape>>

DeadlineHit ==
    /\ Alive
    /\ deadline
    /\ exit' = "1"
    /\ UNCHANGED <<stage, listening, deadline, job, span, poolVars, scrape>>

-----------------------------------------------------------------------------
JobStep(j) ==
    \/ Fetch(j) \/ Fetched(j) \/ FetchedNothing(j) \/ QuoteOk(j) \/ QuoteFails(j)
    \/ UpdateOk(j) \/ UpdateFails(j) \/ Summarised(j) \/ Completed(j)
    \/ Failed(j) \/ MarkEnds(j) \/ Export(j)

ShutdownStep ==
    \/ WorkerClosed \/ QueueClosed \/ ServerClosed \/ RedisQuit \/ RedisQuitFails
    \/ PoolEnded \/ SpansFlushed \/ LogFlushed \/ DeadlineHit

Next ==
    \/ \E j \in Jobs : JobStep(j)
    \/ \E q \in Queries : ClientClosed(q)
    \/ ScrapeStarts \/ ScrapeEnds
    \/ \E sig \in Signals : Signal(sig) \/ SignalAgain(sig)
    \/ ShutdownStep

Spec == Init /\ [][Next]_vars

(* The timer fires and the log is flushed; jobs, Redis, PostgreSQL, the     *)
(* Collector and the scraper may hang for ever.                             *)
FairSpec == Spec /\ WF_vars(DeadlineHit) /\ WF_vars(LogFlushed)

-----------------------------------------------------------------------------
(* "Last, so the spans of the jobs that just finished are exported too"     *)
(* (main.ts): when the SDK is shut down no span is open or can still start, *)
(* no UPDATE runs and no scrape is being answered.                          *)
FlushIsLast ==
    stage \in {"spans", "log"} =>
        /\ Busy = {} /\ Working = {}
        /\ ~scrape
        /\ \A j \in Jobs : span[j] # "open"

(* An exit with code 0 leaves nothing behind: no job stays active under a   *)
(* lock (it would stall), and every span reached the exporter: none is      *)
(* open, waits in the batch or ended too late for it.                       *)
CleanExitLeavesNothing ==
    exit = "0" => \A j \in Jobs : /\ job[j] \in {"waiting"} \cup Settled
                                  /\ span[j] \in {"none", "exported"}

(* Nor does it lose the markFailed of an exhausted job, though no one       *)
(* awaits it, except to a full pool: when pool.end() was called, every      *)
(* client of the pool was at work or being closed, and the mark was not     *)
(* among the queries that held them.  Those are all waited for.             *)
CleanExitKeepsMarks ==
    exit = "0" =>
        \A j \in Jobs : LET q == <<"mark", j>> IN
            /\ query[q] \notin {"queued", "running"}
            /\ query[q] = "lost" => q \notin held /\ Cardinality(held) >= PoolMax

(* Once a signal arrived the process ends, though a job, a scrape, Redis or *)
(* the Collector hang for ever: the deadline is armed until the last of     *)
(* them has been awaited.                                                   *)
ShutdownEnds == stage # "serving" ~> exit # "none"

=============================================================================
