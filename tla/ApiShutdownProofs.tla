-------------------------- MODULE ApiShutdownProofs --------------------------
(***************************************************************************)
(* Theorems about ApiShutdown: what the order of the awaits in shutdown()  *)
(* and the order of the steps in register.ts guarantee, for any number of  *)
(* requests, connections and modules.                                      *)
(***************************************************************************)
EXTENDS ApiShutdown, TLAPS

(* Once the server has closed, only aborted requests have a handler, and    *)
(* only they can be refused.                                                *)
DrainInv ==
    /\ stage \notin {"serving", "server"} => Connected = {}
    /\ refused \subseteq hungUp

(* The row comes before the job, and both before the reply.                 *)
OrderInv ==
    \A r \in Requests :
        /\ handler[r] = "adding" => r \in stored
        /\ handler[r] = "202" => r \in stored \cap queued

(* Once the pool has ended, no INSERT runs.                                 *)
PoolInv == stage \in {"spans", "log"} => Inserting = {}

(* While the loader runs, the application does nothing.                     *)
BootInv ==
    boot # "running" =>
        /\ stage = "serving"
        /\ spanQueue = {} /\ unrecorded = {}
        /\ \A r \in Requests : handler[r] = "none"

(* The SDK is started once the hook is there, imports come after every      *)
(* module was acknowledged, and the SDK stops with the process.             *)
SdkInv ==
    /\ boot \in {"register", "hooked"} => sdk = "off"
    /\ boot = "asked" => sdk = "started"
    /\ boot = "running" /\ sdk # "off" => wrapped = Modules
    /\ sdk = "stopping" => stage = "spans"
    /\ sdk = "stopped" => stage = "log" /\ spanQueue = {}
    /\ sdk = "started" => stage \notin {"spans", "log"}

(* A span without the SDK is one of an aborted request.                     *)
SpanInv == sdk # "off" => unrecorded \subseteq hungUp

ExitInv == exit = "0" => stage = "log"

IInv ==
    /\ TypeOK
    /\ DrainInv /\ OrderInv /\ PoolInv /\ BootInv /\ SdkInv /\ SpanInv /\ ExitInv

-----------------------------------------------------------------------------
LEMMA InitIInv == Init => IInv
  BY DEF Init, IInv, TypeOK, Stages, DrainInv, OrderInv, PoolInv, BootInv, SdkInv,
         SpanInv, ExitInv, Connected, Inserting, Awaiting, Sdk!SdkTypeOK, Sdk!SdkInit

RequestStep(r) ==
    \/ Arrive(r) \/ InsertStarts(r) \/ Inserted(r) \/ InsertFails(r)
    \/ Added(r) \/ AddFails(r) \/ AddRefused(r) \/ HangUp(r)

(* A step of one handler or its client ...                                  *)
LEMMA RequestStepIInv ==
  ASSUME IInv, NEW r \in Requests, RequestStep(r)
  PROVE  IInv'
  <1> USE DEF IInv, TypeOK, Stages, DrainInv, OrderInv, PoolInv, BootInv, SdkInv,
              SpanInv, ExitInv, Connected, Inserting, Awaiting, Alive,
              processVars, sdkVars, orderVars, Sdk!SdkTypeOK
  <1>1. CASE Arrive(r)  BY <1>1 DEF Arrive, Goes, Move
  <1>2. CASE InsertStarts(r)  BY <1>2 DEF InsertStarts, Goes, Move, PoolEnding
  <1>3. CASE Inserted(r)  BY <1>3 DEF Inserted, Goes, Move
  <1>4. CASE InsertFails(r)  BY <1>4 DEF InsertFails, Ends, Move, Sdk!End
  <1>5. CASE Added(r)  BY <1>5 DEF Added, Ends, Move, QueueClosed, Sdk!End
  <1>6. CASE AddFails(r)  BY <1>6 DEF AddFails, Ends, Move, QueueClosed, Sdk!End
  <1>7. CASE AddRefused(r)  BY <1>7 DEF AddRefused, Ends, Move, QueueClosing, Sdk!End
  <1>8. CASE HangUp(r)  BY <1>8 DEF HangUp
  <1>9. QED BY <1>1, <1>2, <1>3, <1>4, <1>5, <1>6, <1>7, <1>8 DEF RequestStep

ShutdownStep ==
    \/ ServerClosed \/ QueueQuit \/ QueueQuitFails \/ PoolEnded
    \/ SpansFlushed \/ LogFlushed \/ DeadlineHit
    \/ \E sig \in Signals : Signal(sig) \/ SignalAgain(sig)

(* ... of the shutdown and the signals ...                                  *)
LEMMA ShutdownStepIInv ==
  ASSUME IInv, ShutdownStep
  PROVE  IInv'
  <1> USE DEF IInv, TypeOK, Stages, DrainInv, OrderInv, PoolInv, BootInv, SdkInv,
              SpanInv, ExitInv, Connected, Inserting, Awaiting, Alive,
              processVars, sdkVars, orderVars, Sdk!SdkTypeOK
  <1>1. CASE ServerClosed  BY <1>1 DEF ServerClosed, Await
  <1>2. CASE QueueQuit  BY <1>2 DEF QueueQuit, Await
  <1>3. CASE QueueQuitFails  BY <1>3 DEF QueueQuitFails
  <1>4. CASE PoolEnded  BY <1>4 DEF PoolEnded, Await, Sdk!shutdownTelemetry
  <1>5. CASE SpansFlushed  BY <1>5 DEF SpansFlushed, Await, Sdk!ShutDown
  <1>6. CASE LogFlushed  BY <1>6 DEF LogFlushed
  <1>7. CASE DeadlineHit  BY <1>7 DEF DeadlineHit
  <1>8. ASSUME NEW sig \in Signals, Signal(sig) PROVE IInv'
    BY <1>8 DEF Signal
  <1>9. ASSUME NEW sig \in Signals, SignalAgain(sig) PROVE IInv'
    BY <1>9 DEF SignalAgain
  <1>10. QED BY <1>1, <1>2, <1>3, <1>4, <1>5, <1>6, <1>7, <1>8, <1>9 DEF
               ShutdownStep

(* ... and of the loader and the exporter.                                  *)
LEMMA TelemetryIInv ==
  ASSUME IInv, Telemetry
  PROVE  IInv'
  <1> USE DEF IInv, TypeOK, Stages, DrainInv, OrderInv, PoolInv, BootInv, SdkInv,
              SpanInv, ExitInv, Connected, Inserting, Awaiting, Alive,
              processVars, sdkVars, orderVars, Sdk!SdkTypeOK
  <1>1. UNCHANGED <<processVars, orderVars>>
    BY DEF Telemetry
  <1>2. CASE Sdk!Skip  BY <1>1, <1>2 DEF Sdk!Skip
  <1>3. CASE Sdk!Hook  BY <1>1, <1>3 DEF Sdk!Hook
  <1>4. CASE Sdk!startTelemetry  BY <1>1, <1>4 DEF Sdk!startTelemetry
  <1>5. CASE Sdk!Import  BY <1>1, <1>5 DEF Sdk!Import
  <1>6. ASSUME NEW m \in Modules, Sdk!Acknowledge(m) PROVE IInv'
    BY <1>1, <1>6 DEF Sdk!Acknowledge
  <1>7. CASE Sdk!Export  BY <1>1, <1>7 DEF Sdk!Export
  <1>8. QED BY <1>2, <1>3, <1>4, <1>5, <1>6, <1>7 DEF Telemetry, Sdk!Boot

LEMMA NextIInv == IInv /\ [Next]_vars => IInv'
  <1> SUFFICES ASSUME IInv, [Next]_vars PROVE IInv'
    OBVIOUS
  <1>1. CASE UNCHANGED vars
    BY <1>1 DEF vars, processVars, orderVars, sdkVars, IInv, TypeOK, DrainInv,
                OrderInv, PoolInv, BootInv, SdkInv, SpanInv, ExitInv, Connected,
                Inserting, Sdk!SdkTypeOK
  <1>2. CASE Next
    BY <1>2, RequestStepIInv, ShutdownStepIInv, TelemetryIInv
       DEF Next, RequestStep, ShutdownStep
  <1>3. QED BY <1>1, <1>2

(* The inductive invariant.                                                 *)
THEOREM Invariant == Spec => []IInv
  <1>1. QED BY InitIInv, NextIInv, PTL DEF Spec

-----------------------------------------------------------------------------
(* TypeOK holds for every number of requests, connections and modules.      *)
THEOREM TypeCorrect == Spec => []TypeOK
  <1>1. IInv => TypeOK  BY DEF IInv
  <1>2. QED BY <1>1, Invariant, PTL

(* The queue and the pool of the api are closed after the server has        *)
(* drained: only a request whose client hung up meets a closed queue.       *)
THEOREM DrainsFirst == Spec => []DrainedBeforeClosing
  <1>1. IInv => DrainedBeforeClosing
    BY DEF IInv, DrainInv, DrainedBeforeClosing
  <1>2. QED BY <1>1, Invariant, PTL

(* An exit of the api with code 0 leaves no order of a client that stayed   *)
(* half done.                                                               *)
THEOREM CleanExitIsWhole == Spec => []CleanExitSplitsNoOrder
  <1>1. IInv => CleanExitSplitsNoOrder
    BY DEF IInv, DrainInv, OrderInv, ExitInv, Connected, CleanExitSplitsNoOrder
  <1>2. QED BY <1>1, Invariant, PTL

(* No INSERT is under way when the SDK of the api is shut down, though      *)
(* nobody awaits the handler of an aborted request.                         *)
THEOREM FlushFollowsInserts == Spec => []NoInsertAfterFlush
  <1>1. IInv => NoInsertAfterFlush
    BY DEF IInv, PoolInv, NoInsertAfterFlush
  <1>2. QED BY <1>1, Invariant, PTL

(* An exit of the api with code 0 leaves no span behind: whatever thread    *)
(* the loader hook runs on, every request of a client that stayed was       *)
(* recorded, and no span waits in the batch queue.                          *)
THEOREM CleanExitIsTraced == Spec => []CleanExitLeavesNoSpan
  <1>1. IInv => CleanExitLeavesNoSpan
    BY DEF IInv, SdkInv, SpanInv, CleanExitLeavesNoSpan
  <1>2. QED BY <1>1, Invariant, PTL

=============================================================================
