---------------------------- MODULE TelemetrySdk ----------------------------
(***************************************************************************)
(* The OpenTelemetry SDK of one process, from the loader that runs ahead   *)
(* of the application (packages/telemetry/src/register.ts) through the     *)
(* batch queue that spans wait in to shutdownTelemetry() (sdk.ts).         *)
(*                                                                         *)
(* register.ts installs a module hook first and starts the SDK second.     *)
(* Where Node has synchronous hooks, the hook knows at once which modules  *)
(* to wrap; elsewhere each of them is a message to the loader thread, and  *)
(* the application's imports wait until all are acknowledged.  A module    *)
(* imported before that is not instrumented.  With OTEL_SDK_DISABLED there *)
(* is neither hook nor SDK.                                                *)
(*                                                                         *)
(* A span that ends waits in the queue of the BatchSpanProcessor, unless   *)
(* the queue is full, until an export takes it: to the Collector, or to    *)
(* nowhere when the Collector refuses.                                     *)
(***************************************************************************)
EXTENDS FiniteSets, Integers

CONSTANTS
    Spans,     \* the spans of the process
    Modules,   \* what the instrumentations patch: http, express, pg, ioredis
    QueueMax   \* maxQueueSize of the BatchSpanProcessor

VARIABLES
    boot,       \* how far register.ts is; "running" once main.ts is imported
    sdk,        \* the SDK behind the variable active of sdk.ts
    wrapped,    \* the modules the hook wraps when they are imported
    spanQueue,  \* spans that wait for an export
    unrecorded  \* spans that ended and nobody took

sdkVars == <<boot, sdk, wrapped, spanQueue, unrecorded>>

SdkTypeOK ==
    /\ boot \in {"register", "hooked", "asked", "running"}
    /\ sdk \in {"off", "started", "stopping", "stopped"}
    /\ wrapped \subseteq Modules
    /\ spanQueue \subseteq Spans
    /\ unrecorded \subseteq Spans

SdkInit ==
    /\ boot = "register"
    /\ sdk = "off"
    /\ wrapped = {}
    /\ spanQueue = {}
    /\ unrecorded = {}

-----------------------------------------------------------------------------
(* register.ts with OTEL_SDK_DISABLED=true.                                 *)
Skip ==
    /\ boot = "register"
    /\ boot' = "running"
    /\ UNCHANGED <<sdk, wrapped, spanQueue, unrecorded>>

(* registerSyncHooks with the list of modules, or the hook of a loader      *)
(* thread that has yet to be told.                                          *)
Hook ==
    /\ boot = "register"
    /\ boot' = "hooked"
    /\ wrapped' \in {Modules, {}}
    /\ UNCHANGED <<sdk, spanQueue, unrecorded>>

(* startTelemetry: sdk.start() enables the instrumentations, which ask the  *)
(* hook for their modules.                                                  *)
startTelemetry ==
    /\ boot = "hooked"
    /\ boot' = "asked"
    /\ sdk' = "started"
    /\ UNCHANGED <<wrapped, spanQueue, unrecorded>>

Acknowledge(m) ==
    /\ boot = "asked"
    /\ m \in Modules \ wrapped
    /\ wrapped' = wrapped \cup {m}
    /\ UNCHANGED <<boot, sdk, spanQueue, unrecorded>>

(* A faulty Import: the acknowledgements are not awaited.                   *)
ImportEarly ==
    /\ boot = "asked"
    /\ boot' = "running"
    /\ UNCHANGED <<sdk, wrapped, spanQueue, unrecorded>>

(* waitForAllMessagesAcknowledged; then the application is imported.        *)
Import ==
    /\ boot = "asked"
    /\ wrapped = Modules
    /\ boot' = "running"
    /\ UNCHANGED <<sdk, wrapped, spanQueue, unrecorded>>

Boot == Skip \/ Hook \/ startTelemetry \/ Import \/ \E m \in Modules : Acknowledge(m)

-----------------------------------------------------------------------------
(* A span ends.                                                             *)
End(s) ==
    /\ IF sdk = "started" /\ wrapped = Modules
       THEN /\ spanQueue' = IF Cardinality(spanQueue) < QueueMax
                            THEN spanQueue \cup {s} ELSE spanQueue
            /\ UNCHANGED unrecorded
       ELSE /\ unrecorded' = unrecorded \cup {s}
            /\ UNCHANGED spanQueue
    /\ UNCHANGED <<boot, sdk, wrapped>>

(* The batch timer, or a full batch: an export ends, well or not.           *)
Export ==
    /\ sdk = "started"
    /\ spanQueue # {}
    /\ spanQueue' = {}
    /\ UNCHANGED <<boot, sdk, wrapped, unrecorded>>

(* shutdownTelemetry is called: active is cleared, and the processor takes  *)
(* no more spans.                                                           *)
shutdownTelemetry ==
    /\ sdk' = IF sdk = "started" THEN "stopping" ELSE sdk
    /\ UNCHANGED <<boot, wrapped, spanQueue, unrecorded>>

(* A faulty ShutDown: it resolves without having waited for the export.     *)
ShutDownUnflushed ==
    /\ sdk' = IF sdk = "stopping" THEN "stopped" ELSE sdk
    /\ UNCHANGED <<boot, wrapped, spanQueue, unrecorded>>

(* ... and resolves: at once without an SDK, else when the queue has been   *)
(* exported, the error of an export that fails being caught.                *)
ShutDown ==
    /\ sdk' = IF sdk = "stopping" THEN "stopped" ELSE sdk
    /\ spanQueue' = {}
    /\ UNCHANGED <<boot, wrapped, unrecorded>>

=============================================================================
