--------------------------- MODULE OrderPipeline ---------------------------
(***************************************************************************)
(* An order's way through the stack: the api inserts a row and enqueues a  *)
(* job, the workers price the order and update the row, BullMQ retries     *)
(* failed attempts and hands stalled jobs to another worker, and the       *)
(* 'failed' handler marks the row of an order whose attempts are used up.  *)
(*                                                                         *)
(*   services/api/src/{app,db,queue,main}.ts       the api process         *)
(*   services/worker/src/{main,processor,db}.ts    the worker processes    *)
(*   PostgreSQL, Redis with BullMQ                 external, modelled by   *)
(*                                                 what the services use   *)
(*                                                                         *)
(* Abstractions.  An Orders element is one POST /orders request and the    *)
(* order it creates (each request draws a fresh uuid).  A price is         *)
(* deterministic per sku and quantity, so total_cents is either null or    *)
(* "quoted".  Which waiting job is served first, back-off delays and lock  *)
(* durations are left open: any order of events is possible.  Every        *)
(* failure is an action that needs Fault(kind), so that a run chooses      *)
(* which failures it explores (Faults) and how many of them (MaxFaults).   *)
(***************************************************************************)
EXTENDS Integers

CONSTANTS
    Orders,       \* POST /orders requests
    FailSkus,     \* those whose sku starts with FAIL-
    Jobs,         \* BullMQ job ids
    Workers,      \* worker processes
    Concurrency,  \* WORKER_CONCURRENCY, the jobs one process runs at a time
    MaxAttempts,  \* the job option attempts
    MaxStalled,   \* the BullMQ worker option maxStalledCount
    Faults,       \* the kinds of failure that may happen
    MaxFaults,    \* how many failures may happen
    None          \* no order, no job, no lock

(* One lane of a worker process: BullMQ gives each job a lane fetches a    *)
(* lock token of its own.                                                  *)
Slots == Workers \X (1 .. Concurrency)

FaultKinds == {"insert_error", "add_error", "add_resent", "api_crash",
               "pricing_error", "update_error", "event_lost", "lock_lost",
               "worker_crash"}

ASSUME ConstantsAssumption ==
    /\ FailSkus \subseteq Orders
    /\ Concurrency \in Nat \ {0}
    /\ MaxAttempts \in Nat \ {0}
    /\ MaxStalled \in Nat
    /\ MaxFaults \in Nat
    /\ Faults \subseteq FaultKinds
    /\ None \notin Orders \cup Jobs \cup Slots

VARIABLES
    apiUp,     \* does the api process run?
    request,   \* the POST /orders handler of each order, and its reply
    row,       \* the orders table
    job,       \* the jobs in Redis
    lock,      \* the job locks in Redis: the slot holding each job
    workerUp,  \* the worker processes that run
    slot,      \* what each lane of a worker process is doing
    marking,   \* the unawaited markFailed calls of each worker process
    faults     \* failures so far

apiVars    == <<apiUp, request>>
queueVars  == <<job, lock>>
workerVars == <<workerUp, slot, marking>>
vars       == <<apiUp, request, row, job, lock, workerUp, slot, marking, faults>>

(* The handler's program counter while the request is open, then the       *)
(* reply the client got; "reset" is a connection that died with the api.   *)
InFlight == {"inserting", "adding", "responding"}
Replies  == {"202", "400", "500", "reset"}

OrderStatus == {"queued", "priced", "failed"}
NoRow  == [status |-> "none", total |-> "null"]
NewRow == [status |-> "queued", total |-> "null"]

Pending  == {"waiting", "active", "delayed"}
Terminal == {"completed", "failed"}
NoJob    == [state |-> "none", order |-> None, attemptsMade |-> 0,
             stalled |-> 0, runs |-> 0]
IdleSlot == [pc |-> "idle", job |-> None, attemptsMade |-> 0]

(* A slot works on its job until BullMQ has recorded the outcome; it is    *)
(* "notifying" from then until the 'failed' event is handled.              *)
Working == {"quoting", "writing", "summarising", "completing", "failing",
            "refusing"}

RowType  == [status: {"none"} \cup OrderStatus, total: {"null", "quoted"}]
JobType  == [state: {"none"} \cup Pending \cup Terminal,
             order: Orders \cup {None}, attemptsMade: Nat,
             stalled: Nat, runs: Nat]
SlotType == {IdleSlot} \cup
            [pc: {"notifying"} \cup Working, job: Jobs, attemptsMade: Nat]

TypeOK ==
    /\ apiUp \in BOOLEAN
    /\ request \in [Orders -> {"none"} \cup InFlight \cup Replies]
    /\ row \in [Orders -> RowType]
    /\ job \in [Jobs -> JobType]
    /\ lock \in [Jobs -> Slots \cup {None}]
    /\ workerUp \in SUBSET Workers
    /\ slot \in [Slots -> SlotType]
    /\ marking \in [Workers -> SUBSET Jobs]
    /\ faults \in Nat

Init ==
    /\ apiUp = TRUE
    /\ request = [o \in Orders |-> "none"]
    /\ row = [o \in Orders |-> NoRow]
    /\ job = [j \in Jobs |-> NoJob]
    /\ lock = [j \in Jobs |-> None]
    /\ workerUp = Workers
    /\ slot = [s \in Slots |-> IdleSlot]
    /\ marking = [w \in Workers |-> {}]
    /\ faults = 0

Fault(kind) ==
    /\ kind \in Faults
    /\ faults < MaxFaults
    /\ faults' = faults + 1

-----------------------------------------------------------------------------
(* The api.                                                                *)

(* A faulty Post: the order is never stored.                               *)
PostUnstored(o) ==
    /\ apiUp
    /\ request[o] = "none"
    /\ request' = [request EXCEPT ![o] = "adding"]
    /\ UNCHANGED <<apiUp, row, queueVars, workerVars, faults>>

(* A request whose body the schema accepts; the handler awaits the INSERT. *)
Post(o) ==
    /\ apiUp
    /\ request[o] = "none"
    /\ request' = [request EXCEPT ![o] = "inserting"]
    /\ UNCHANGED <<apiUp, row, queueVars, workerVars, faults>>

(* A body that does not parse: 400 before anything is stored.              *)
PostInvalid(o) ==
    /\ apiUp
    /\ request[o] = "none"
    /\ request' = [request EXCEPT ![o] = "400"]
    /\ UNCHANGED <<apiUp, row, queueVars, workerVars, faults>>

Insert(o) ==
    /\ request[o] = "inserting"
    /\ row' = [row EXCEPT ![o] = NewRow]
    /\ request' = [request EXCEPT ![o] = "adding"]
    /\ UNCHANGED <<apiUp, queueVars, workerVars, faults>>

(* The INSERT rejects, with the row stored when only its answer was lost.  *)
InsertFails(o) ==
    /\ Fault("insert_error")
    /\ request[o] = "inserting"
    /\ request' = [request EXCEPT ![o] = "500"]
    /\ row' \in {row, [row EXCEPT ![o] = NewRow]}
    /\ UNCHANGED <<apiUp, queueVars, workerVars>>

NewJob(o) == [NoJob EXCEPT !.state = "waiting", !.order = o]

(* queue.add: a job under the next id, ready for a worker.                 *)
Add(o, j) ==
    /\ request[o] = "adding"
    /\ job[j].state = "none"
    /\ job' = [job EXCEPT ![j] = NewJob(o)]
    /\ request' = [request EXCEPT ![o] = "responding"]
    /\ UNCHANGED <<apiUp, row, lock, workerVars, faults>>

(* The connection drops after Redis ran the command.  The client reconnects *)
(* (maxRetriesPerRequest: null) and sends it again: the job exists twice.  *)
AddResent(o, j) ==
    /\ Fault("add_resent")
    /\ request[o] = "adding"
    /\ job[j].state = "none"
    /\ job' = [job EXCEPT ![j] = NewJob(o)]
    /\ UNCHANGED <<apiVars, row, lock, workerVars>>

(* A faulty AddFails: the error is swallowed and the client told 202.      *)
AddFailsSwallowed(o) ==
    /\ Fault("add_error")
    /\ request[o] = "adding"
    /\ request' = [request EXCEPT ![o] = "responding"]
    /\ UNCHANGED <<apiUp, row, queueVars, workerVars>>

(* queue.add rejects: the error handler answers 500, the row stays.        *)
AddFails(o) ==
    /\ Fault("add_error")
    /\ request[o] = "adding"
    /\ request' = [request EXCEPT ![o] = "500"]
    /\ UNCHANGED <<apiUp, row, queueVars, workerVars>>

Respond(o) ==
    /\ request[o] = "responding"
    /\ request' = [request EXCEPT ![o] = "202"]
    /\ UNCHANGED <<apiUp, row, queueVars, workerVars, faults>>

(* The api dies (or its shutdown deadline fires): open requests are cut,   *)
(* and so are the pricing calls of the workers, which then fail.           *)
ApiCrash ==
    /\ Fault("api_crash")
    /\ apiUp
    /\ apiUp' = FALSE
    /\ request' = [o \in Orders |->
                     IF request[o] \in InFlight THEN "reset" ELSE request[o]]
    /\ slot' = [s \in Slots |-> IF slot[s].pc = "quoting"
                                THEN [slot[s] EXCEPT !.pc = "failing"]
                                ELSE slot[s]]
    /\ UNCHANGED <<row, queueVars, workerUp, marking>>

ApiRestart ==
    /\ ~apiUp
    /\ apiUp' = TRUE
    /\ UNCHANGED <<request, row, queueVars, workerVars, faults>>

(* What GET /orders/:id answers.                                           *)
GetOrder(o) ==
    IF row[o].status = "none" THEN "404" ELSE row[o].status

-----------------------------------------------------------------------------
(* BullMQ, on behalf of the worker processes.                              *)

OrderOf(s) == job[slot[s].job].order

(* A faulty HoldsLock: an outcome counts whoever reports it.               *)
AnyoneHoldsLock(s) == TRUE

HoldsLock(s) == lock[slot[s].job] = s

(* Faulty Retryables: one attempt too many, one too few.                   *)
RetryableOnceMore(s) ==
    /\ slot[s].pc = "failing"
    /\ slot[s].attemptsMade < MaxAttempts

RetryableOnceLess(s) ==
    /\ slot[s].pc = "failing"
    /\ slot[s].attemptsMade + 2 < MaxAttempts

(* The processor's error is retried while attempts are left; a job that    *)
(* stalled too often is refused and never retried.                         *)
Retryable(s) ==
    /\ slot[s].pc = "failing"
    /\ slot[s].attemptsMade + 1 < MaxAttempts

AfterFailure(s) == IF Retryable(s) THEN "delayed" ELSE "failed"

Goto(s, pc) == slot' = [slot EXCEPT ![s].pc = pc]
Release(s)  == slot' = [slot EXCEPT ![s] = IdleSlot]

(* A free lane takes a waiting job and its lock.  A job that stalled more  *)
(* than MaxStalled times is failed without running the processor.          *)
PickUp(s, j) ==
    /\ s[1] \in workerUp
    /\ slot[s].pc = "idle"
    /\ job[j].state = "waiting"
    /\ lock' = [lock EXCEPT ![j] = s]
    /\ \/ /\ job[j].stalled <= MaxStalled
          /\ job' = [job EXCEPT ![j].state = "active", ![j].runs = @ + 1]
          /\ slot' = [slot EXCEPT ![s] = [pc |-> "quoting", job |-> j,
                                          attemptsMade |-> job[j].attemptsMade]]
       \/ /\ job[j].stalled > MaxStalled
          /\ job' = [job EXCEPT ![j].state = "active"]
          /\ slot' = [slot EXCEPT ![s] = [pc |-> "refusing", job |-> j,
                                          attemptsMade |-> job[j].attemptsMade]]
    /\ UNCHANGED <<apiVars, row, workerUp, marking, faults>>

(* The processor returned.  Without the lock the outcome is discarded and  *)
(* only an 'error' event is logged: another slot has, or will get, the job. *)
Complete(s) ==
    /\ slot[s].pc = "completing"
    /\ Release(s)
    /\ \/ /\ HoldsLock(s)
          /\ job' = [job EXCEPT ![slot[s].job].state = "completed",
                                ![slot[s].job].attemptsMade = @ + 1]
          /\ lock' = [lock EXCEPT ![slot[s].job] = None]
       \/ /\ ~HoldsLock(s)
          /\ UNCHANGED queueVars
    /\ UNCHANGED <<apiVars, row, workerUp, marking, faults>>

(* The processor threw, or the job was refused: back to the queue after a  *)
(* delay or failed for good, and the attempt is counted.                   *)
MoveToFailed(s) ==
    /\ slot[s].pc \in {"failing", "refusing"}
    /\ \/ /\ HoldsLock(s)
          /\ job' = [job EXCEPT
                       ![slot[s].job].state = AfterFailure(s),
                       ![slot[s].job].attemptsMade = @ + 1]
          /\ lock' = [lock EXCEPT ![slot[s].job] = None]
          /\ slot' = [slot EXCEPT ![s].pc = "notifying",
                                  ![s].attemptsMade = @ + 1]
       \/ /\ ~HoldsLock(s)
          /\ Release(s)
          /\ UNCHANGED queueVars
    /\ UNCHANGED <<apiVars, row, workerUp, marking, faults>>

Promote(j) ==
    /\ workerUp # {}
    /\ job[j].state = "delayed"
    /\ job' = [job EXCEPT ![j].state = "waiting"]
    /\ UNCHANGED <<apiVars, row, lock, workerVars, faults>>

(* The lock of a slot that no longer works on the job, because its process *)
(* died, is not renewed and expires.                                       *)
LockExpires(j) ==
    /\ lock[j] # None
    /\ slot[lock[j]].job # j
    /\ lock' = [lock EXCEPT ![j] = None]
    /\ UNCHANGED <<apiVars, row, job, workerVars, faults>>

(* A live slot fails to renew its lock in time (a blocked event loop, a    *)
(* Redis outage) and works on without it.                                  *)
LockLost(j) ==
    /\ Fault("lock_lost")
    /\ lock[j] # None
    /\ slot[lock[j]].job = j
    /\ lock' = [lock EXCEPT ![j] = None]
    /\ UNCHANGED <<apiVars, row, job, workerVars>>

(* Faulty StalledChecks: a job is rescued only once, and a stalled job is  *)
(* failed instead of requeued.                                             *)
StalledCheckOnce(j) ==
    /\ workerUp # {}
    /\ job[j].state = "active"
    /\ job[j].stalled = 0
    /\ lock[j] = None
    /\ job' = [job EXCEPT ![j].state = "waiting", ![j].stalled = @ + 1]
    /\ UNCHANGED <<apiVars, row, lock, workerVars, faults>>

StalledCheckFails(j) ==
    /\ workerUp # {}
    /\ job[j].state = "active"
    /\ lock[j] = None
    /\ job' = [job EXCEPT ![j].state = "failed", ![j].stalled = @ + 1]
    /\ UNCHANGED <<apiVars, row, lock, workerVars, faults>>

(* A worker's periodic check puts an active job without a lock back.       *)
StalledCheck(j) ==
    /\ workerUp # {}
    /\ job[j].state = "active"
    /\ lock[j] = None
    /\ job' = [job EXCEPT ![j].state = "waiting", ![j].stalled = @ + 1]
    /\ UNCHANGED <<apiVars, row, lock, workerVars, faults>>

-----------------------------------------------------------------------------
(* The worker: the processor and the 'failed' handler.                     *)

(* The pricing call is answered 200.                                       *)
QuoteOk(s) ==
    /\ apiUp
    /\ slot[s].pc = "quoting"
    /\ OrderOf(s) \notin FailSkus
    /\ Goto(s, "writing")
    /\ UNCHANGED <<apiVars, row, queueVars, workerUp, marking, faults>>

(* The pricing call is answered 503, or the api cannot be reached.         *)
QuoteFails(s) ==
    /\ slot[s].pc = "quoting"
    /\ apiUp => OrderOf(s) \in FailSkus
    /\ Goto(s, "failing")
    /\ UNCHANGED <<apiVars, row, queueVars, workerUp, marking, faults>>

(* The pricing call fails although the api is up: the network, a timeout.  *)
QuoteBroken(s) ==
    /\ Fault("pricing_error")
    /\ slot[s].pc = "quoting"
    /\ Goto(s, "failing")
    /\ UNCHANGED <<apiVars, row, queueVars, workerUp, marking>>

(* UPDATE orders SET status = 'priced', total_cents = ... WHERE id = ...:  *)
(* whatever the status is, and without effect when there is no such row.   *)
MarkedPriced(o) ==
    IF row[o].status = "none" THEN row
    ELSE [row EXCEPT ![o] = [status |-> "priced", total |-> "quoted"]]

(* Faulty MarkedFaileds: a status the type does not have, and an UPDATE    *)
(* that resets the total.                                                  *)
MarkedFailedUnknown(o) ==
    IF row[o].status = "none" THEN row
    ELSE [row EXCEPT ![o].status = "error"]

MarkedFailedReset(o) ==
    IF row[o].status = "none" THEN row
    ELSE [row EXCEPT ![o] = [status |-> "failed", total |-> "null"]]

(* UPDATE orders SET status = 'failed' WHERE id = ...                      *)
MarkedFailed(o) ==
    IF row[o].status = "none" THEN row
    ELSE [row EXCEPT ![o].status = "failed"]

WritePriced(s) ==
    /\ slot[s].pc = "writing"
    /\ row' = MarkedPriced(OrderOf(s))
    /\ Goto(s, "summarising")
    /\ UNCHANGED <<apiVars, queueVars, workerUp, marking, faults>>

(* A faulty WriteFails: the rejection is swallowed.                        *)
WriteFailsSwallowed(s) ==
    /\ Fault("update_error")
    /\ slot[s].pc = "writing"
    /\ row' \in {row, MarkedPriced(OrderOf(s))}
    /\ Goto(s, "summarising")
    /\ UNCHANGED <<apiVars, queueVars, workerUp, marking>>

(* The UPDATE rejects, applied when only its answer was lost.              *)
WriteFails(s) ==
    /\ Fault("update_error")
    /\ slot[s].pc = "writing"
    /\ row' \in {row, MarkedPriced(OrderOf(s))}
    /\ Goto(s, "failing")
    /\ UNCHANGED <<apiVars, queueVars, workerUp, marking>>

(* A faulty AfterSummary: an error of the model call fails the attempt.    *)
AfterSummaryThrows(summarised) ==
    IF summarised THEN "completing" ELSE "failing"

(* Where the processor goes on after the model call, whether it produced   *)
(* a note or threw.                                                        *)
AfterSummary(summarised) == "completing"

Summarise(s) ==
    /\ slot[s].pc = "summarising"
    /\ \E summarised \in BOOLEAN : Goto(s, AfterSummary(summarised))
    /\ UNCHANGED <<apiVars, row, queueVars, workerUp, marking, faults>>

(* A faulty Exhausted: the attempt is counted twice.                       *)
ExhaustedEarly(attemptsMade) == attemptsMade + 1 >= MaxAttempts

Exhausted(attemptsMade) == attemptsMade >= MaxAttempts

(* A faulty FailedEvent: the handler only logs.                            *)
FailedEventIgnored(s) ==
    /\ slot[s].pc = "notifying"
    /\ Release(s)
    /\ UNCHANGED <<apiVars, row, queueVars, workerUp, marking, faults>>

(* The 'failed' handler: markFailed is started and not awaited.            *)
FailedEvent(s) ==
    /\ slot[s].pc = "notifying"
    /\ marking' = IF Exhausted(slot[s].attemptsMade)
                  THEN [marking EXCEPT ![s[1]] = @ \cup {slot[s].job}]
                  ELSE marking
    /\ Release(s)
    /\ UNCHANGED <<apiVars, row, queueVars, workerUp, faults>>

(* The answer of the move to 'failed' is lost.  The command is sent again, *)
(* finds no lock and is refused: an 'error' event, never a 'failed' one.   *)
FailedEventLost(s) ==
    /\ Fault("event_lost")
    /\ slot[s].pc = "notifying"
    /\ Release(s)
    /\ UNCHANGED <<apiVars, row, queueVars, workerUp, marking>>

MarkFailed(w, j) ==
    /\ j \in marking[w]
    /\ row' = MarkedFailed(job[j].order)
    /\ marking' = [marking EXCEPT ![w] = @ \ {j}]
    /\ UNCHANGED <<apiVars, queueVars, workerUp, slot, faults>>

(* The UPDATE rejects: logged as 'could not mark order failed', and that   *)
(* is all.                                                                 *)
MarkFailedFails(w, j) ==
    /\ Fault("update_error")
    /\ j \in marking[w]
    /\ marking' = [marking EXCEPT ![w] = @ \ {j}]
    /\ UNCHANGED <<apiVars, row, queueVars, workerUp, slot>>

(* A worker process dies, by a kill or by its shutdown deadline, with all  *)
(* its lanes and its unawaited calls.  Its locks stay until they expire.   *)
WorkerCrash(w) ==
    /\ Fault("worker_crash")
    /\ w \in workerUp
    /\ workerUp' = workerUp \ {w}
    /\ slot' = [s \in Slots |-> IF s[1] = w THEN IdleSlot ELSE slot[s]]
    /\ marking' = [marking EXCEPT ![w] = {}]
    /\ UNCHANGED <<apiVars, row, queueVars>>

WorkerRestart(w) ==
    /\ w \notin workerUp
    /\ workerUp' = workerUp \cup {w}
    /\ UNCHANGED <<apiVars, row, queueVars, slot, marking, faults>>

-----------------------------------------------------------------------------
ApiStep(o) ==
    \/ Post(o) \/ PostInvalid(o) \/ Insert(o) \/ InsertFails(o)
    \/ AddFails(o) \/ Respond(o)
    \/ \E j \in Jobs : Add(o, j) \/ AddResent(o, j)

QueueStep(j) == Promote(j) \/ LockExpires(j) \/ LockLost(j) \/ StalledCheck(j)

SlotStep(s) ==
    \/ \E j \in Jobs : PickUp(s, j)
    \/ QuoteOk(s) \/ QuoteFails(s) \/ QuoteBroken(s)
    \/ WritePriced(s) \/ WriteFails(s) \/ Summarise(s)
    \/ Complete(s) \/ MoveToFailed(s) \/ FailedEvent(s) \/ FailedEventLost(s)

WorkerStep(w) ==
    \/ WorkerCrash(w) \/ WorkerRestart(w)
    \/ \E j \in Jobs : MarkFailed(w, j) \/ MarkFailedFails(w, j)

Next ==
    \/ ApiCrash \/ ApiRestart
    \/ \E o \in Orders : ApiStep(o)
    \/ \E j \in Jobs : QueueStep(j)
    \/ \E s \in Slots : SlotStep(s)
    \/ \E w \in Workers : WorkerStep(w)

Spec == Init /\ [][Next]_vars

(* Every process that runs keeps going: promises resolve, answers arrive   *)
(* (the pricing call has undici's header timeout behind it), BullMQ's      *)
(* timers fire and dead locks expire.  Nothing is assumed of failures, of  *)
(* new requests or of crashed processes coming back.                       *)
Fairness ==
    /\ \A o \in Orders :
         WF_vars(Insert(o) \/ Respond(o) \/ \E j \in Jobs : Add(o, j))
    /\ \A j \in Jobs : WF_vars(Promote(j) \/ LockExpires(j) \/ StalledCheck(j))
    /\ WF_vars(\E s \in Slots, j \in Jobs : PickUp(s, j))
    /\ \A s \in Slots :
         WF_vars(\/ QuoteOk(s) \/ QuoteFails(s) \/ WritePriced(s)
                 \/ Summarise(s) \/ Complete(s) \/ MoveToFailed(s)
                 \/ FailedEvent(s))
    /\ \A w \in Workers : WF_vars(\E j \in Jobs : MarkFailed(w, j))

FairSpec == Spec /\ Fairness

-----------------------------------------------------------------------------
(* A job BullMQ failed after its last attempt, an order given up by one.    *)
ExhaustedJob(j) ==
    job[j].state = "failed" /\ job[j].attemptsMade >= MaxAttempts

GivenUp(o) == \E j \in Jobs : job[j].order = o /\ ExhaustedJob(j)

PricedOrGivenUp(o) ==
    /\ row[o].total = "quoted"
    /\ row[o].status = "priced" \/ GivenUp(o)

(* The client of a 202 can rely on it: the order is stored, so GET          *)
(* /orders/:id never answers 404 again, and Redis has a job for it, in      *)
(* whatever state.  (app.ts answers only after both awaits.)                *)
AcceptedIsBacked ==
    \A o \in Orders : request[o] = "202" =>
        /\ GetOrder(o) # "404"
        /\ \E j \in Jobs : job[j].state # "none" /\ job[j].order = o

(* "The worker only ever updates rows the api created" (worker db.ts): a    *)
(* job exists only for a stored order, so that no UPDATE by a processor, a  *)
(* late processor or an unawaited markFailed misses its row.                *)
RowBeforeJob ==
    \A j \in Jobs : job[j].state # "none" => row[job[j].order].status # "none"

(* A row says 'failed' only when an order's attempts are used up, whatever  *)
(* overlapping attempts, stalls, crashes and late UPDATEs came before: the  *)
(* handler's exhausted test agrees with BullMQ's decision not to retry.     *)
FailedIsExhausted ==
    \A o \in Orders : row[o].status = "failed" => GivenUp(o)

(* A job BullMQ calls completed has its total in the row, and the row says  *)
(* 'priced' unless another job of the same order was given up: no attempt   *)
(* is reported done before its UPDATE is, and no late UPDATE undoes it.     *)
CompletedIsPriced ==
    \A j \in Jobs : job[j].state = "completed" =>
                        PricedOrGivenUp(job[j].order)

(* Retries and redeliveries of one job are bounded together: no more than   *)
(* MaxAttempts outcomes are counted, and the processor (and with it the     *)
(* billed model call) runs at most MaxAttempts + MaxStalled times, however  *)
(* stalls, crashes and failures alternate.                                  *)
AttemptsBounded ==
    \A j \in Jobs : /\ job[j].attemptsMade <= MaxAttempts
                    /\ job[j].runs <= MaxAttempts + MaxStalled

(* "Three consumer spans - one per attempt - under one producer" (README):  *)
(* a job that failed without ever stalling ran the processor exactly        *)
(* MaxAttempts times.                                                       *)
SpanPerAttempt ==
    \A j \in Jobs : job[j].state = "failed" /\ job[j].stalled = 0 =>
                        job[j].runs = MaxAttempts

(* A finished job stays finished: a slot that lost its lock and reports     *)
(* late changes neither the state nor the attempt count.                    *)
TerminalIsFinal ==
    [][\A j \in Jobs : job[j].state \in Terminal => job'[j] = job[j]]_vars

Accepted == {o \in Orders : request[o] = "202"}

Once        == INSTANCE OrderLifecycle WITH Redelivery <- FALSE,
                                            accepted <- Accepted
AtLeastOnce == INSTANCE OrderLifecycle WITH Redelivery <- TRUE,
                                            accepted <- Accepted

(* Without stalls, worker crashes, resent commands and failed UPDATEs an    *)
(* order settles once and for all; in particular an error of the advisory   *)
(* model call never costs a priced order its attempt (processor.ts).        *)
SettlesOnce == Once!Spec

(* Under every failure the row still moves only as an at-least-once queue   *)
(* may move it: never back to 'queued', never losing its total, and never   *)
(* to 'priced' for an order whose pricing fails.                            *)
SettlesAtLeastOnce == AtLeastOnce!Spec

(* Every job BullMQ took is eventually completed or failed.                 *)
JobsSettle ==
    \A j \in Jobs : job[j].state # "none" ~> job[j].state \in Terminal

(* Every order a client got a 202 for eventually leaves 'queued'.           *)
AcceptedSettles ==
    \A o \in Orders : request[o] = "202" ~> row[o].status # "queued"

(* While failures are too few to use up an order's attempts, only a job     *)
(* that BullMQ failed for stalling too often leaves its order 'queued' for  *)
(* good: no lost event, rejected UPDATE or resent command does.             *)
StrandedOnlyByStalls ==
    \A o \in Orders : request[o] = "202" ~>
        \/ row[o].status # "queued"
        \/ \E j \in Jobs : /\ job[j].order = o
                           /\ job[j].state = "failed"
                           /\ job[j].stalled > MaxStalled

=============================================================================
