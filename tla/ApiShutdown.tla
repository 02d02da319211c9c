----------------------------- MODULE ApiShutdown -----------------------------
(***************************************************************************)
(* The life of one api process, from the start of its SDK (TelemetrySdk)   *)
(* and serving POST /orders through the shutdown a signal starts to its    *)
(* exit (services/api/src/main.ts): shutdown awaits server.close(),        *)
(* queue.close(), store.close() and shutdownTelemetry() in turn, under a   *)
(* deadline, while handlers await the INSERT and queue.add (app.ts) and    *)
(* clients may hang up.  The span of a request ends with its handler.      *)
(*                                                                         *)
(* server.close() waits for connections, not for handlers: the handler of  *)
(* a request whose client hung up runs on, and may meet a closed queue or  *)
(* pool.                                                                   *)
(***************************************************************************)
EXTENDS FiniteSets, Integers

CONSTANTS
    Requests,  \* POST /orders requests with a valid body
    PoolMax,   \* the connections of the pg pool
    Signals,   \* SIGTERM and SIGINT
    Modules,   \* what the instrumentations patch
    QueueMax   \* the spans that may wait for an export

ASSUME ConstantsAssumption ==
    /\ IsFiniteSet(Requests)
    /\ PoolMax \in Nat \ {0}

VARIABLES
    stage,      \* what shutdown() is awaiting, "serving" before it runs
    listening,  \* the signals whose process.once handler has not run
    deadline,   \* is the shutdown timer armed?
    exit,       \* how the process ended: exit code, or killed by a signal
    handler,    \* the handler of each request
    hungUp,     \* the requests whose client is gone
    stored,     \* the orders with a row
    queued,     \* the orders with a job
    refused,    \* the requests that met a closed pool or queue
    boot, sdk, wrapped, spanQueue, unrecorded  \* those of TelemetrySdk

Sdk == INSTANCE TelemetrySdk WITH Spans <- Requests

processVars == <<stage, listening, deadline, exit>>
sdkVars     == <<boot, sdk, wrapped, spanQueue, unrecorded>>
orderVars   == <<handler, hungUp, stored, queued, refused>>
vars        == <<processVars, orderVars, sdkVars>>

Stages == {"serving", "server", "queue", "pool", "spans", "log"}

(* The awaits of the handler: a client of the pool, the INSERT, queue.add.  *)
Awaiting == {"connecting", "inserting", "adding"}

TypeOK ==
    /\ stage \in Stages
    /\ listening \subseteq Signals
    /\ deadline \in BOOLEAN
    /\ exit \in {"none", "0", "1", "killed"}
    /\ handler \in [Requests -> {"none", "202", "500"} \cup Awaiting]
    /\ hungUp \subseteq Requests
    /\ stored \subseteq Requests
    /\ queued \subseteq Requests
    /\ refused \subseteq Requests
    /\ Sdk!SdkTypeOK

Init ==
    /\ stage = "serving"
    /\ listening = Signals
    /\ deadline = FALSE
    /\ exit = "none"
    /\ handler = [r \in Requests |-> "none"]
    /\ hungUp = {}
    /\ stored = {}
    /\ queued = {}
    /\ refused = {}
    /\ Sdk!SdkInit

Alive == exit = "none"

Inserting == {r \in Requests : handler[r] = "inserting"}

(* The requests whose connection is open.                                   *)
Connected == {r \in Requests \ hungUp : handler[r] \in Awaiting}

QueueClosing == stage \notin {"serving", "server"}
QueueClosed  == stage \in {"pool", "spans", "log"}
PoolEnding   == stage \in {"pool", "spans", "log"}

Move(r, from, to) ==
    /\ Alive
    /\ handler[r] = from
    /\ handler' = [handler EXCEPT ![r] = to]

Goes(r, from, to) == Move(r, from, to) /\ UNCHANGED sdkVars

(* The handler ends with a reply, and its span with it.                     *)
Ends(r, from, reply) == Move(r, from, reply) /\ Sdk!End(r)

-----------------------------------------------------------------------------
(* The handler of POST /orders.                                             *)

(* A server that is closing accepts no connection, but one it still waits   *)
(* for may bring another request: that of any client who has not hung up.   *)
KeptAlive == {r \in Requests \ hungUp : handler[r] # "none"}

Arrive(r) ==
    /\ boot = "running"
    /\ \/ stage = "serving"
       \/ stage = "server" /\ KeptAlive # {}
    /\ Goes(r, "none", "connecting")
    /\ UNCHANGED <<processVars, hungUp, stored, queued, refused>>

InsertStarts(r) ==
    /\ ~PoolEnding
    /\ Cardinality(Inserting) < PoolMax
    /\ Goes(r, "connecting", "inserting")
    /\ UNCHANGED <<processVars, hungUp, stored, queued, refused>>

Inserted(r) ==
    /\ Goes(r, "inserting", "adding")
    /\ stored' = stored \cup {r}
    /\ UNCHANGED <<processVars, hungUp, queued, refused>>

(* A faulty InsertFails: a reply the type does not know.                    *)
InsertFailsUnavailable(r) ==
    /\ Ends(r, "inserting", "503")
    /\ stored' \in {stored, stored \cup {r}}
    /\ UNCHANGED <<processVars, hungUp, queued, refused>>

(* The INSERT rejects, with the row stored when only its answer was lost.   *)
InsertFails(r) ==
    /\ Ends(r, "inserting", "500")
    /\ stored' \in {stored, stored \cup {r}}
    /\ UNCHANGED <<processVars, hungUp, queued, refused>>

(* A faulty Added: the reply is sent before the job is taken.               *)
AddedLater(r) ==
    /\ ~QueueClosed
    /\ Ends(r, "adding", "202")
    /\ queued' \in {queued, queued \cup {r}}
    /\ UNCHANGED <<processVars, hungUp, stored, refused>>

Added(r) ==
    /\ ~QueueClosed
    /\ Ends(r, "adding", "202")
    /\ queued' = queued \cup {r}
    /\ UNCHANGED <<processVars, hungUp, stored, refused>>

AddFails(r) ==
    /\ ~QueueClosed
    /\ Ends(r, "adding", "500")
    /\ queued' \in {queued, queued \cup {r}}
    /\ UNCHANGED <<processVars, hungUp, stored, refused>>

(* queue.add on the connection that quits: "Connection is closed".          *)
AddRefused(r) ==
    /\ QueueClosing
    /\ Ends(r, "adding", "500")
    /\ refused' = refused \cup {r}
    /\ UNCHANGED <<processVars, hungUp, stored, queued>>

HangUp(r) ==
    /\ Alive
    /\ r \in Connected
    /\ hungUp' = hungUp \cup {r}
    /\ UNCHANGED <<processVars, sdkVars, handler, stored, queued, refused>>

-----------------------------------------------------------------------------
(* The shutdown.                                                            *)

(* The handler of a signal runs once; shutdown() only for the first signal. *)
(* (A signal before main.ts has its handlers kills; nothing is open then.)  *)
Signal(sig) ==
    /\ Alive
    /\ boot = "running"
    /\ sig \in listening
    /\ listening' = listening \ {sig}
    /\ \/ /\ stage = "serving"
          /\ stage' = "server"
          /\ deadline' = TRUE
       \/ /\ stage # "serving"
          /\ UNCHANGED <<stage, deadline>>
    /\ UNCHANGED <<exit, orderVars, sdkVars>>

(* process.once: a signal sent again meets no handler and kills.            *)
SignalAgain(sig) ==
    /\ Alive
    /\ sig \notin listening
    /\ exit' = "killed"
    /\ UNCHANGED <<stage, listening, deadline, orderVars, sdkVars>>

Await(from, to) ==
    /\ Alive
    /\ stage = from
    /\ stage' = to
    /\ UNCHANGED <<listening, exit, orderVars>>

(* A faulty ServerClosed: server.close() is not awaited.                    *)
ServerClosedUnawaited ==
    /\ Await("server", "queue")
    /\ UNCHANGED <<deadline, sdkVars>>

(* No connection is left, an aborted one included.                          *)
ServerClosed ==
    /\ Await("server", "queue")
    /\ Connected = {}
    /\ UNCHANGED <<deadline, sdkVars>>

QueueQuit ==
    /\ Await("queue", "pool")
    /\ UNCHANGED <<deadline, sdkVars>>

(* queue.close() or connection.quit() rejects; nothing catches it and the   *)
(* process ends on the unhandled rejection.                                 *)
QueueQuitFails ==
    /\ Alive
    /\ stage = "queue"
    /\ exit' = "1"
    /\ UNCHANGED <<stage, listening, deadline, orderVars, sdkVars>>

(* A faulty PoolEnded: a running INSERT is not waited for.                  *)
PoolEndedForced ==
    /\ Await("pool", "spans")
    /\ Sdk!shutdownTelemetry
    /\ UNCHANGED deadline

(* A pool that is ending waits for its running queries.                     *)
PoolEnded ==
    /\ Await("pool", "spans")
    /\ Inserting = {}
    /\ Sdk!shutdownTelemetry
    /\ UNCHANGED deadline

SpansFlushed ==
    /\ Await("spans", "log")
    /\ deadline' = FALSE
    /\ Sdk!ShutDown

LogFlushed ==
    /\ Alive
    /\ stage = "log"
    /\ exit' = "0"
    /\ UNCHANGED <<stage, listening, deadline, orderVars, sdkVars>>

(* A faulty DeadlineHit: the timer covers the drain of the server only.     *)
DeadlineHitEarlyOnly ==
    /\ Alive
    /\ deadline
    /\ stage = "server"
    /\ exit' = "1"
    /\ UNCHANGED <<stage, listening, deadline, orderVars, sdkVars>>

DeadlineHit ==
    /\ Alive
    /\ deadline
    /\ exit' = "1"
    /\ UNCHANGED <<stage, listening, deadline, orderVars, sdkVars>>

-----------------------------------------------------------------------------
(* The loader, before main.ts is imported, and the exports of the SDK.      *)
Telemetry ==
    /\ Alive
    /\ Sdk!Boot \/ Sdk!Export
    /\ UNCHANGED <<processVars, orderVars>>

Next ==
    \/ \E r \in Requests :
         \/ Arrive(r) \/ InsertStarts(r) \/ Inserted(r) \/ InsertFails(r)
         \/ Added(r) \/ AddFails(r) \/ AddRefused(r) \/ HangUp(r)
    \/ \E sig \in Signals : Signal(sig) \/ SignalAgain(sig)
    \/ ServerClosed \/ QueueQuit \/ QueueQuitFails \/ PoolEnded
    \/ SpansFlushed \/ LogFlushed \/ DeadlineHit \/ Telemetry

Spec == Init /\ [][Next]_vars

(* The timer fires and the log is flushed; clients, PostgreSQL, Redis and   *)
(* the Collector may hang for ever.                                         *)
FairSpec == Spec /\ WF_vars(DeadlineHit) /\ WF_vars(LogFlushed)

-----------------------------------------------------------------------------
(* Every client that stays is answered by a handler that ran to its end:    *)
(* the queue and the pool are closed only after the server has drained, so  *)
(* that only a request whose client hung up can meet a closed queue.        *)
DrainedBeforeClosing ==
    /\ refused \subseteq hungUp
    /\ stage \notin {"serving", "server"} => Connected = {}

(* An exit with code 0 leaves no order of a client that stayed half done:   *)
(* the client was answered, and for a 202 there is a row and a job.         *)
CleanExitSplitsNoOrder ==
    exit = "0" => \A r \in Requests \ hungUp :
        /\ handler[r] \notin Awaiting
        /\ handler[r] = "202" => r \in stored \cap queued

(* No INSERT is under way when the SDK is shut down, though the handler of  *)
(* an aborted request is awaited by nobody: its span is still exported.     *)
NoInsertAfterFlush == stage \in {"spans", "log"} => Inserting = {}

(* An exit with code 0 leaves no span behind: the span of every request of  *)
(* a client that stayed was recorded, from the first one after the start to *)
(* the last one the server drained, and what the batch queue had room for   *)
(* left it (to the Collector, or to nowhere if that refused) before the     *)
(* process ended.                                                           *)
CleanExitLeavesNoSpan ==
    exit = "0" /\ sdk = "stopped" => spanQueue = {} /\ unrecorded \subseteq hungUp

(* Once a signal arrived the process ends, though clients, PostgreSQL,      *)
(* Redis or the Collector hang for ever.                                    *)
ShutdownEnds == stage # "serving" ~> exit # "none"

=============================================================================
