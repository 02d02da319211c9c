------------------------ MODULE OrderPipelineSafety ------------------------
(* The types and the safety properties of OrderPipeline hold for every      *)
(* value of its constants.  None of the properties is inductive: each       *)
(* relates a row or a request to a job that other processes move at the     *)
(* same time.  IInv adds what links them, per lock, slot, request, attempt  *)
(* and unawaited call.                                                      *)
EXTENDS OrderPipeline, TLAPS

(* The initial state has the types.                                         *)
LEMMA InitTypeOK == Init => TypeOK
<1> SUFFICES ASSUME Init PROVE TypeOK
  OBVIOUS
<1>1. row \in [Orders -> RowType]
  BY DEF Init, RowType, NoRow
<1>2. job \in [Jobs -> JobType]
  BY DEF Init, JobType, NoJob
<1>3. slot \in [Slots -> SlotType]
  BY DEF Init, SlotType, IdleSlot
<1> QED
  BY <1>1, <1>2, <1>3 DEF Init, TypeOK

(* A step of the api keeps the types.                                       *)
LEMMA ApiTypeOK ==
    ASSUME TypeOK,
           ApiCrash \/ ApiRestart \/ \E o \in Orders : ApiStep(o)
    PROVE  TypeOK'
<1> USE DEF TypeOK, apiVars, queueVars, workerVars
<1>1. CASE ApiCrash
  <2>1. request' \in [Orders -> {"none"} \cup InFlight \cup Replies]
    BY <1>1 DEF ApiCrash, Replies
  <2>2. \A s \in Slots : slot[s].pc = "quoting" =>
                            [slot[s] EXCEPT !.pc = "failing"] \in SlotType
    BY DEF SlotType, IdleSlot, Working
  <2>3. slot' \in [Slots -> SlotType]
    BY <1>1, <2>2 DEF ApiCrash
  <2>4. apiUp' \in BOOLEAN
    BY <1>1 DEF ApiCrash
  <2>5. faults' \in Nat
    BY <1>1 DEF ApiCrash, Fault
  <2>6. UNCHANGED <<row, job, lock, workerUp, marking>>
    BY <1>1 DEF ApiCrash
  <2> QED
    BY <2>1, <2>3, <2>4, <2>5, <2>6
<1>2. CASE ApiRestart
  BY <1>2 DEF ApiRestart
<1>3. ASSUME NEW o \in Orders, ApiStep(o) PROVE TypeOK'
  <2>1. NewRow \in RowType /\ NewJob(o) \in JobType
    BY DEF NewRow, RowType, OrderStatus, NewJob, NoJob, JobType, Pending
  <2>2. request' \in [Orders -> {"none"} \cup InFlight \cup Replies]
    BY <1>3 DEF ApiStep, Post, PostInvalid, Insert, InsertFails, AddFails,
                Respond, Add, AddResent, InFlight, Replies
  <2>3. CASE Post(o) \/ PostInvalid(o) \/ AddFails(o) \/ Respond(o)
    BY <2>2, <2>3 DEF Post, PostInvalid, AddFails, Respond, Fault
  <2>4. CASE Insert(o) \/ InsertFails(o)
    BY <2>1, <2>2, <2>4 DEF Insert, InsertFails, Fault
  <2>5. ASSUME NEW j \in Jobs, Add(o, j) \/ AddResent(o, j) PROVE TypeOK'
    BY <2>1, <2>2, <2>5 DEF Add, AddResent, Fault
  <2> QED
    BY <1>3, <2>3, <2>4, <2>5 DEF ApiStep
<1> QED
  BY <1>1, <1>2, <1>3

(* A step of the queue keeps the types.                                     *)
LEMMA QueueTypeOK ==
    ASSUME TypeOK, NEW j \in Jobs, QueueStep(j)
    PROVE  TypeOK'
<1>1. job' \in [Jobs -> JobType]
  BY DEF TypeOK, QueueStep, Promote, LockExpires, LockLost, StalledCheck,
         JobType, Pending
<1>2. lock' \in [Jobs -> Slots \cup {None}]
  BY DEF TypeOK, QueueStep, Promote, LockExpires, LockLost, StalledCheck
<1> QED
  BY <1>1, <1>2 DEF TypeOK, QueueStep, Promote, LockExpires, LockLost,
                    StalledCheck, Fault, apiVars, workerVars

(* A step of a slot keeps the types.                                        *)
LEMMA SlotTypeOK ==
    ASSUME TypeOK, NEW s \in Slots, SlotStep(s)
    PROVE  TypeOK'
<1> USE DEF TypeOK, apiVars, queueVars
<1>1. ASSUME NEW j \in Jobs, PickUp(s, j) PROVE TypeOK'
  <2>1. job' \in [Jobs -> JobType]
    BY <1>1 DEF PickUp, JobType, Pending
  <2>2. \A pc \in Working : [pc |-> pc, job |-> j,
                  attemptsMade |-> job[j].attemptsMade] \in SlotType
    BY DEF SlotType, JobType
  <2>3. slot' \in [Slots -> SlotType]
    BY <1>1, <2>2 DEF PickUp, Working
  <2> QED
    BY <1>1, <2>1, <2>3 DEF PickUp
<1>2. CASE QuoteOk(s) \/ QuoteFails(s) \/ QuoteBroken(s) \/ Summarise(s)
  <2>1. slot' \in [Slots -> SlotType]
    BY <1>2 DEF QuoteOk, QuoteFails, QuoteBroken, Summarise, AfterSummary,
                Goto, SlotType, IdleSlot, Working
  <2> QED
    BY <1>2, <2>1 DEF QuoteOk, QuoteFails, QuoteBroken, Summarise, Fault
<1>3. CASE WritePriced(s) \/ WriteFails(s)
  <2>1. slot' \in [Slots -> SlotType]
    BY <1>3 DEF WritePriced, WriteFails, Goto, SlotType, IdleSlot, Working
  <2>2. row' \in [Orders -> RowType]
    BY <1>3 DEF WritePriced, WriteFails, MarkedPriced, RowType, OrderStatus
  <2> QED
    BY <1>3, <2>1, <2>2 DEF WritePriced, WriteFails, Fault
<1>4. CASE Complete(s)
  <2>1. job' \in [Jobs -> JobType]
    BY <1>4 DEF Complete, JobType, Terminal
  <2>2. slot' \in [Slots -> SlotType]
    BY <1>4 DEF Complete, Release, IdleSlot, SlotType
  <2> QED
    BY <1>4, <2>1, <2>2 DEF Complete
<1>5. CASE MoveToFailed(s)
  <2>1. AfterFailure(s) \in {"delayed", "failed"}
    BY DEF AfterFailure
  <2>2. job' \in [Jobs -> JobType]
    BY <1>5, <2>1 DEF MoveToFailed, JobType, Pending, Terminal
  <2>3. slot' \in [Slots -> SlotType]
    BY <1>5 DEF MoveToFailed, Release, IdleSlot, SlotType
  <2> QED
    BY <1>5, <2>2, <2>3 DEF MoveToFailed
<1>6. CASE FailedEvent(s) \/ FailedEventLost(s)
  <2>1. slot' \in [Slots -> SlotType]
    BY <1>6 DEF FailedEvent, FailedEventLost, Release, IdleSlot, SlotType
  <2>2. slot[s].pc = "notifying" => slot[s].job \in Jobs
    BY DEF SlotType, IdleSlot
  <2>3. marking' \in [Workers -> SUBSET Jobs]
    BY <1>6, <2>2 DEF FailedEvent, FailedEventLost, Slots
  <2> QED
    BY <1>6, <2>1, <2>3 DEF FailedEvent, FailedEventLost, Fault
<1> QED
  BY <1>1, <1>2, <1>3, <1>4, <1>5, <1>6 DEF SlotStep

(* A step of a worker process keeps the types.                              *)
LEMMA WorkerTypeOK ==
    ASSUME TypeOK, NEW w \in Workers, WorkerStep(w)
    PROVE  TypeOK'
<1> USE DEF TypeOK, apiVars, queueVars
<1>1. CASE WorkerCrash(w)
  <2>1. slot' \in [Slots -> SlotType]
    BY <1>1 DEF WorkerCrash, SlotType
  <2> QED
    BY <1>1, <2>1 DEF WorkerCrash, Fault
<1>2. CASE WorkerRestart(w)
  BY <1>2 DEF WorkerRestart
<1>3. ASSUME NEW j \in Jobs, MarkFailed(w, j) PROVE TypeOK'
  <2>1. row' \in [Orders -> RowType]
    BY <1>3 DEF MarkFailed, MarkedFailed, RowType, OrderStatus
  <2> QED
    BY <1>3, <2>1 DEF MarkFailed
<1>4. ASSUME NEW j \in Jobs, MarkFailedFails(w, j) PROVE TypeOK'
  BY <1>4 DEF MarkFailedFails, Fault
<1> QED
  BY <1>1, <1>2, <1>3, <1>4 DEF WorkerStep

(* Every step keeps the types.                                              *)
LEMMA NextTypeOK == TypeOK /\ [Next]_vars => TypeOK'
<1>1. TypeOK /\ UNCHANGED vars => TypeOK'
  BY DEF TypeOK, vars
<1> QED
  BY <1>1, ApiTypeOK, QueueTypeOK, SlotTypeOK, WorkerTypeOK DEF Next

(* The variables have their types in every reachable state.                 *)
THEOREM TypeCorrect == Spec => []TypeOK
BY InitTypeOK, NextTypeOK, PTL DEF Spec

-----------------------------------------------------------------------------
(* Only an active job has a lock.                                           *)
LockInv == \A j \in Jobs : lock[j] # None => job[j].state = "active"

(* A busy slot works on a job that exists.                                  *)
BusyInv == \A s \in Slots :
    slot[s].pc # "idle" => job[slot[s].job].state # "none"

(* A job carries an order that is stored.                                   *)
OrderInv == \A j \in Jobs :
    job[j].state # "none" =>
        job[j].order \in Orders /\ row[job[j].order].status # "none"

(* How far a request got says whether its row and its job exist.            *)
RequestInv == \A o \in Orders :
    /\ request[o] \in {"none", "inserting"} => row[o] = NoRow
    /\ request[o] \in {"adding", "responding", "202"} => row[o].status # "none"
    /\ request[o] \in {"responding", "202"} =>
           \E j \in Jobs : job[j].state # "none" /\ job[j].order = o

(* A job that is not finished has an attempt left.                          *)
AttemptInv == \A j \in Jobs :
    /\ job[j].attemptsMade <= MaxAttempts
    /\ job[j].state \notin Terminal => job[j].attemptsMade < MaxAttempts

(* Each pick-up ended in a counted outcome or a stall, or is under way.     *)
RunsInv == \A j \in Jobs :
    /\ job[j].stalled <= MaxStalled =>
           job[j].runs = job[j].attemptsMade + job[j].stalled
                         + (IF job[j].state = "active" THEN 1 ELSE 0)
    /\ job[j].stalled > MaxStalled =>
           job[j].runs <= job[j].attemptsMade + MaxStalled
                          + (IF job[j].state \in Terminal THEN 0 ELSE 1)

(* The holder of a lock knows the job's attempts, and refuses the job only  *)
(* for its stalls.                                                          *)
HolderInv == \A s \in Slots :
    slot[s].pc \in Working /\ HoldsLock(s) =>
        /\ slot[s].attemptsMade = job[slot[s].job].attemptsMade
        /\ slot[s].pc = "refusing" => job[slot[s].job].stalled > MaxStalled

(* An attempt that goes to the UPDATE got a quote, and one that got past it *)
(* finds its total in the row.                                              *)
WriteInv == \A s \in Slots :
    /\ slot[s].pc = "writing" => OrderOf(s) \notin FailSkus
    /\ slot[s].pc \in {"summarising", "completing"} =>
           PricedOrGivenUp(OrderOf(s))

(* A 'failed' event that will count as exhausted, and the markFailed call   *)
(* it starts, are about a job that failed after its last attempt.           *)
NotifyInv == \A s \in Slots :
    slot[s].pc = "notifying" /\ Exhausted(slot[s].attemptsMade) =>
        ExhaustedJob(slot[s].job)

MarkInv == \A w \in Workers : \A j \in marking[w] : ExhaustedJob(j)

(* The attempt count of a job that failed without stalling is its last.     *)
FailedInv == \A j \in Jobs :
    job[j].state = "failed" /\ job[j].stalled = 0 =>
        job[j].attemptsMade = MaxAttempts

IInv ==
    /\ TypeOK
    /\ LockInv /\ BusyInv /\ OrderInv /\ RequestInv
    /\ AttemptInv /\ RunsInv /\ HolderInv /\ FailedInv
    /\ WriteInv /\ NotifyInv /\ MarkInv
    /\ FailedIsExhausted /\ CompletedIsPriced

-----------------------------------------------------------------------------
(* What one step can do to one job, one slot, one row, one request and the  *)
(* calls of one process.                                                    *)

JobStays(j) == job'[j] = job[j] /\ lock'[j] \in {lock[j], None}

JobCreated(j) ==
    /\ job[j].state = "none"
    /\ lock'[j] = lock[j]
    /\ \E o \in Orders : request[o] = "adding" /\ job'[j] = NewJob(o)

JobStarted(j, s) ==
    /\ job[j].state = "waiting"
    /\ slot[s].pc = "idle"
    /\ slot'[s].job = j
    /\ slot'[s].attemptsMade = job[j].attemptsMade
    /\ lock'[j] = s
    /\ \/ /\ job[j].stalled <= MaxStalled
          /\ slot'[s].pc = "quoting"
          /\ job'[j] = [job[j] EXCEPT !.state = "active", !.runs = @ + 1]
       \/ /\ job[j].stalled > MaxStalled
          /\ slot'[s].pc = "refusing"
          /\ job'[j] = [job[j] EXCEPT !.state = "active"]

JobFinished(j, s) ==
    /\ slot[s].job = j
    /\ lock[j] = s
    /\ lock'[j] = None
    /\ \/ /\ slot[s].pc = "completing"
          /\ slot'[s] = IdleSlot
          /\ job'[j] = [job[j] EXCEPT !.state = "completed",
                                      !.attemptsMade = @ + 1]
       \/ /\ slot[s].pc \in {"failing", "refusing"}
          /\ slot'[s] = [slot[s] EXCEPT !.pc = "notifying",
                                        !.attemptsMade = @ + 1]
          /\ job'[j] = [job[j] EXCEPT !.state = AfterFailure(s),
                                      !.attemptsMade = @ + 1]

JobRequeued(j) ==
    /\ lock'[j] = lock[j]
    /\ \/ /\ job[j].state = "delayed"
          /\ job'[j] = [job[j] EXCEPT !.state = "waiting"]
       \/ /\ job[j].state = "active"
          /\ lock[j] = None
          /\ job'[j] = [job[j] EXCEPT !.state = "waiting", !.stalled = @ + 1]

JobMove(j) ==
    \/ JobStays(j) \/ JobCreated(j) \/ JobRequeued(j)
    \/ \E s \in Slots : JobStarted(j, s) \/ JobFinished(j, s)

(* A busy slot goes on, or is freed, without a move of its job.             *)
SlotGoes(s) ==
    /\ slot'[s].job = slot[s].job
    /\ slot'[s].attemptsMade = slot[s].attemptsMade
    /\ \/ /\ slot[s].pc = "quoting"
          /\ slot'[s].pc = "writing"
          /\ OrderOf(s) \notin FailSkus
       \/ /\ slot[s].pc \in {"quoting", "writing"}
          /\ slot'[s].pc = "failing"
       \/ /\ slot[s].pc = "writing"
          /\ slot'[s].pc = "summarising"
          /\ row' = MarkedPriced(OrderOf(s))
       \/ /\ slot[s].pc = "summarising"
          /\ slot'[s].pc = "completing"

SlotMove(s) ==
    \/ slot'[s] = slot[s]
    \/ slot'[s] = IdleSlot
    \/ SlotGoes(s)
    \/ \E j \in Jobs : JobStarted(j, s) \/ JobFinished(j, s)

RowMove(o) ==
    \/ row'[o] = row[o]
    \/ /\ request[o] = "inserting"
       /\ request'[o] \in {"adding", "500"}
       /\ row'[o] = NewRow
    \/ \E s \in Slots : /\ slot[s].pc = "writing"
                         /\ OrderOf(s) = o
                         /\ row' = MarkedPriced(o)
    \/ \E w \in Workers : \E j \in marking[w] :
           job[j].order = o /\ row' = MarkedFailed(o)

RequestMove(o) ==
    \/ request'[o] = request[o]
    \/ request'[o] \in {"400", "500", "reset"}
    \/ request[o] = "none" /\ request'[o] = "inserting" /\ row'[o] = row[o]
    \/ request[o] = "inserting" /\ request'[o] = "adding" /\ row'[o] = NewRow
    \/ /\ request[o] = "adding"
       /\ request'[o] = "responding"
       /\ \E j \in Jobs : job[j].state = "none" /\ job'[j] = NewJob(o)
    \/ request[o] = "responding" /\ request'[o] = "202"

MarkMove(w) ==
    \/ marking'[w] \subseteq marking[w]
    \/ \E s \in Slots : /\ slot[s].pc = "notifying"
                         /\ Exhausted(slot[s].attemptsMade)
                         /\ marking'[w] = marking[w] \cup {slot[s].job}

(* What a pick-up does to the job and the slot it is about.                 *)
LEMMA PickUpStarts ==
    ASSUME TypeOK, NEW s \in Slots, NEW j \in Jobs, PickUp(s, j)
    PROVE  JobStarted(j, s)
<1> USE DEF TypeOK
<1>1. CASE job[j].stalled <= MaxStalled
  <2>1. job' = [job EXCEPT ![j].state = "active", ![j].runs = @ + 1]
    BY <1>1, ConstantsAssumption DEF PickUp, JobType
  <2>2. slot'[s] = [pc |-> "quoting", job |-> j,
                    attemptsMade |-> job[j].attemptsMade]
    BY <1>1, ConstantsAssumption DEF PickUp, JobType
  <2> QED
    BY <1>1, <2>1, <2>2 DEF PickUp, JobStarted
<1>2. CASE job[j].stalled > MaxStalled
  <2>1. job' = [job EXCEPT ![j].state = "active"]
    BY <1>2, ConstantsAssumption DEF PickUp, JobType
  <2>2. slot'[s] = [pc |-> "refusing", job |-> j,
                    attemptsMade |-> job[j].attemptsMade]
    BY <1>2, ConstantsAssumption DEF PickUp, JobType
  <2> QED
    BY <1>2, <2>1, <2>2 DEF PickUp, JobStarted
<1> QED
  BY <1>1, <1>2, ConstantsAssumption DEF JobType

(* What the end of an attempt by the holder of the lock does to them.       *)
LEMMA HolderFinishes ==
    ASSUME TypeOK, NEW s \in Slots, Complete(s) \/ MoveToFailed(s), HoldsLock(s)
    PROVE  slot[s].job \in Jobs /\ JobFinished(slot[s].job, s)
<1> DEFINE j == slot[s].job
<1>1. j \in Jobs
  BY DEF TypeOK, SlotType, IdleSlot, Complete, MoveToFailed
<1>2. CASE Complete(s)
  <2>1. slot' = [slot EXCEPT ![s] = IdleSlot]
    BY <1>2 DEF Complete, Release
  <2>2. job' = [job EXCEPT ![j].state = "completed", ![j].attemptsMade = @ + 1]
    BY <1>2 DEF Complete
  <2>3. lock' = [lock EXCEPT ![j] = None] /\ slot[s].pc = "completing"
    BY <1>2 DEF Complete
  <2> QED
    BY <1>1, <2>1, <2>2, <2>3 DEF TypeOK, JobFinished, HoldsLock
<1>3. CASE MoveToFailed(s)
  <2>1. slot' = [slot EXCEPT ![s].pc = "notifying", ![s].attemptsMade = @ + 1]
    BY <1>3 DEF MoveToFailed
  <2>2. job' = [job EXCEPT ![j].state = AfterFailure(s),
                           ![j].attemptsMade = @ + 1]
    BY <1>3 DEF MoveToFailed
  <2>3. lock' = [lock EXCEPT ![j] = None] /\ slot[s].pc \in {"failing", "refusing"}
    BY <1>3 DEF MoveToFailed
  <2> QED
    BY <1>1, <2>1, <2>2, <2>3 DEF TypeOK, JobFinished, HoldsLock
<1> QED
  BY <1>1, <1>2, <1>3

(* Every step moves a job, a slot, a row, a request and a process only so. *)
LEMMA JobMoves ==
    ASSUME TypeOK, [Next]_vars, NEW j \in Jobs
    PROVE  JobMove(j)
<1> USE DEF TypeOK, apiVars, queueVars, workerVars
<1>1. CASE UNCHANGED vars
  BY <1>1 DEF vars, JobMove, JobStays
<1>2. CASE ApiCrash \/ ApiRestart
  BY <1>2 DEF ApiCrash, ApiRestart, JobMove, JobStays
<1>3. ASSUME NEW o \in Orders, ApiStep(o) PROVE JobMove(j)
  <2>1. CASE UNCHANGED queueVars
    BY <2>1 DEF JobMove, JobStays
  <2>2. ASSUME NEW k \in Jobs, Add(o, k) \/ AddResent(o, k) PROVE JobMove(j)
    BY <2>2 DEF Add, AddResent, JobMove, JobStays, JobCreated
  <2> QED
    BY <1>3, <2>1, <2>2 DEF ApiStep, Post, PostInvalid, Insert, InsertFails,
                            AddFails, Respond
<1>4. ASSUME NEW k \in Jobs, QueueStep(k) PROVE JobMove(j)
  BY <1>4 DEF QueueStep, Promote, LockExpires, LockLost, StalledCheck,
              JobMove, JobStays, JobRequeued
<1>5. ASSUME NEW s \in Slots, SlotStep(s) PROVE JobMove(j)
  <2>1. CASE UNCHANGED queueVars
    BY <2>1 DEF JobMove, JobStays
  <2>2. ASSUME NEW k \in Jobs, PickUp(s, k) PROVE JobMove(j)
    <3>1. CASE k # j
      BY <2>2, <3>1 DEF PickUp, JobMove, JobStays
    <3> QED
      BY <2>2, <3>1, PickUpStarts DEF JobMove
  <2>3. CASE Complete(s) \/ MoveToFailed(s)
    <3>1. CASE ~HoldsLock(s) \/ slot[s].job # j
      BY <2>3, <3>1 DEF Complete, MoveToFailed, JobMove, JobStays
    <3> QED
      BY <2>3, <3>1, HolderFinishes DEF JobMove
  <2> QED
    BY <1>5, <2>1, <2>2, <2>3
       DEF SlotStep, QuoteOk, QuoteFails, QuoteBroken, WritePriced, WriteFails,
           Summarise, FailedEvent, FailedEventLost
<1>6. ASSUME NEW w \in Workers, WorkerStep(w) PROVE JobMove(j)
  BY <1>6 DEF WorkerStep, WorkerCrash, WorkerRestart, MarkFailed,
              MarkFailedFails, JobMove, JobStays
<1> QED
  BY <1>1, <1>2, <1>3, <1>4, <1>5, <1>6 DEF Next

(* A slot moves only along the course of one attempt.                       *)
LEMMA SlotMoves ==
    ASSUME TypeOK, [Next]_vars, NEW s \in Slots
    PROVE  SlotMove(s)
<1> USE DEF TypeOK, apiVars, queueVars, workerVars
<1>1. CASE UNCHANGED slot
  BY <1>1 DEF SlotMove
<1>2. CASE ApiCrash
  BY <1>2 DEF ApiCrash, SlotMove, SlotGoes, SlotType
<1>3. ASSUME NEW t \in Slots, SlotStep(t) PROVE SlotMove(s)
  <2>1. ASSUME NEW k \in Jobs, PickUp(t, k) PROVE SlotMove(s)
    <3>1. CASE s # t
      BY <2>1, <3>1 DEF PickUp, SlotMove
    <3> QED
      BY <2>1, <3>1, PickUpStarts DEF SlotMove
  <2>2. ASSUME NEW pc, Goto(t, pc), s # t PROVE SlotMove(s)
    BY <2>2 DEF Goto, SlotMove
  <2>3. CASE QuoteOk(t)
    BY <2>2, <2>3 DEF QuoteOk, Goto, SlotMove, SlotGoes, SlotType, IdleSlot
  <2>4. CASE QuoteFails(t) \/ QuoteBroken(t)
    BY <2>2, <2>4 DEF QuoteFails, QuoteBroken, Goto, SlotMove, SlotGoes,
                      SlotType, IdleSlot
  <2>5. CASE WritePriced(t)
    BY <2>2, <2>5 DEF WritePriced, Goto, SlotMove, SlotGoes, SlotType, IdleSlot
  <2>6. CASE WriteFails(t)
    BY <2>2, <2>6 DEF WriteFails, Goto, SlotMove, SlotGoes, SlotType, IdleSlot
  <2>7. CASE Summarise(t)
    BY <2>2, <2>7 DEF Summarise, AfterSummary, Goto, SlotMove, SlotGoes,
                      SlotType, IdleSlot
  <2>8. CASE Complete(t) \/ MoveToFailed(t)
    <3>1. CASE s # t
      BY <2>8, <3>1 DEF Complete, MoveToFailed, Release, SlotMove
    <3>2. CASE s = t /\ ~HoldsLock(s)
      BY <2>8, <3>2 DEF Complete, MoveToFailed, Release, SlotMove
    <3> QED
      BY <2>8, <3>1, <3>2, HolderFinishes DEF SlotMove
  <2>9. CASE FailedEvent(t) \/ FailedEventLost(t)
    BY <2>9 DEF FailedEvent, FailedEventLost, Release, SlotMove
  <2> QED
    BY <1>3, <2>1, <2>3, <2>4, <2>5, <2>6, <2>7, <2>8, <2>9 DEF SlotStep
<1>4. ASSUME NEW w \in Workers, WorkerCrash(w) PROVE SlotMove(s)
  BY <1>4 DEF WorkerCrash, SlotMove
<1>5. [Next]_vars => \/ UNCHANGED slot
                     \/ ApiCrash
                     \/ \E t \in Slots : SlotStep(t)
                     \/ \E w \in Workers : WorkerCrash(w)
  BY DEF vars, Next, ApiRestart, ApiStep, Post, PostInvalid, Insert,
         InsertFails, AddFails, Respond, Add, AddResent, QueueStep, Promote,
         LockExpires, LockLost, StalledCheck, WorkerStep, WorkerRestart,
         MarkFailed, MarkFailedFails
<1> QED
  BY <1>1, <1>2, <1>3, <1>4, <1>5

(* A row is only inserted, priced by its slot or failed by its call.        *)
LEMMA RowMoves ==
    ASSUME TypeOK, [Next]_vars, NEW o \in Orders
    PROVE  RowMove(o)
<1> USE DEF TypeOK, apiVars, queueVars, workerVars
<1>1. CASE UNCHANGED row
  BY <1>1 DEF RowMove
<1>2. ASSUME NEW p \in Orders, Insert(p) \/ InsertFails(p) PROVE RowMove(o)
  BY <1>2 DEF Insert, InsertFails, NewRow, RowMove
<1>3. ASSUME NEW s \in Slots, WritePriced(s) \/ WriteFails(s) PROVE RowMove(o)
  BY <1>3 DEF WritePriced, WriteFails, MarkedPriced, RowMove
<1>4. ASSUME NEW w \in Workers, NEW j \in Jobs, MarkFailed(w, j)
      PROVE  RowMove(o)
  BY <1>4 DEF MarkFailed, MarkedFailed, RowMove
<1>5. \/ UNCHANGED row
      \/ \E p \in Orders : Insert(p) \/ InsertFails(p)
      \/ \E s \in Slots : WritePriced(s) \/ WriteFails(s)
      \/ \E w \in Workers, j \in Jobs : MarkFailed(w, j)
  BY DEF vars, Next, ApiCrash, ApiRestart, ApiStep, Post, PostInvalid,
         AddFails, Respond, Add, AddResent, QueueStep, Promote, LockExpires,
         LockLost, StalledCheck, SlotStep, PickUp, QuoteOk, QuoteFails,
         QuoteBroken, Summarise, Complete, MoveToFailed, FailedEvent,
         FailedEventLost, WorkerStep, WorkerCrash, WorkerRestart,
         MarkFailedFails
<1> QED
  BY <1>1, <1>2, <1>3, <1>4, <1>5

(* A request only goes from one await of the handler to the next.           *)
LEMMA RequestMoves ==
    ASSUME TypeOK, [Next]_vars, NEW o \in Orders
    PROVE  RequestMove(o)
<1> USE DEF TypeOK, apiVars, queueVars, workerVars
<1>1. CASE UNCHANGED request
  BY <1>1 DEF RequestMove
<1>2. CASE ApiCrash
  BY <1>2 DEF ApiCrash, RequestMove
<1>3. ASSUME NEW p \in Orders, ApiStep(p) PROVE RequestMove(o)
  <2>1. CASE Post(p) \/ PostInvalid(p) \/ Respond(p)
    BY <2>1 DEF Post, PostInvalid, Respond, RequestMove
  <2>2. CASE Insert(p) \/ InsertFails(p) \/ AddFails(p)
    BY <2>2 DEF Insert, InsertFails, AddFails, RequestMove
  <2>3. ASSUME NEW j \in Jobs, Add(p, j) \/ AddResent(p, j)
        PROVE  RequestMove(o)
    BY <2>3 DEF Add, AddResent, RequestMove
  <2> QED
    BY <1>3, <2>1, <2>2, <2>3 DEF ApiStep
<1>4. \/ UNCHANGED request
      \/ ApiCrash
      \/ \E p \in Orders : ApiStep(p)
  BY DEF vars, Next, ApiRestart, QueueStep, Promote, LockExpires,
         LockLost, StalledCheck, SlotStep, PickUp, QuoteOk, QuoteFails,
         QuoteBroken, WritePriced, WriteFails, Summarise, Complete,
         MoveToFailed, FailedEvent, FailedEventLost, WorkerStep, WorkerCrash,
         WorkerRestart, MarkFailed, MarkFailedFails
<1> QED
  BY <1>1, <1>2, <1>3, <1>4

(* A markFailed call starts only in the 'failed' handler.                   *)
LEMMA MarkMoves ==
    ASSUME TypeOK, [Next]_vars, NEW w \in Workers
    PROVE  MarkMove(w)
<1> USE DEF TypeOK, apiVars, queueVars, workerVars
<1>1. CASE UNCHANGED marking
  BY <1>1 DEF MarkMove
<1>2. ASSUME NEW s \in Slots, FailedEvent(s) PROVE MarkMove(w)
  BY <1>2 DEF FailedEvent, MarkMove
<1>3. ASSUME NEW v \in Workers, WorkerCrash(v) PROVE MarkMove(w)
  BY <1>3 DEF WorkerCrash, MarkMove
<1>4. ASSUME NEW v \in Workers, NEW j \in Jobs,
             MarkFailed(v, j) \/ MarkFailedFails(v, j)
      PROVE  MarkMove(w)
  BY <1>4 DEF MarkFailed, MarkFailedFails, MarkMove
<1>5. \/ UNCHANGED marking
      \/ \E s \in Slots : FailedEvent(s)
      \/ \E v \in Workers : WorkerCrash(v)
      \/ \E v \in Workers, j \in Jobs : MarkFailed(v, j) \/ MarkFailedFails(v, j)
  BY DEF vars, Next, ApiCrash, ApiRestart, ApiStep, Post, PostInvalid,
         Insert, InsertFails, AddFails, Respond, Add, AddResent, QueueStep,
         Promote, LockExpires, LockLost, StalledCheck, SlotStep, PickUp,
         QuoteOk, QuoteFails, QuoteBroken, WritePriced, WriteFails, Summarise,
         Complete, MoveToFailed, FailedEventLost, WorkerStep, WorkerRestart
<1> QED
  BY <1>1, <1>2, <1>3, <1>4, <1>5

(* A finished job does not move.                                            *)
LEMMA TerminalStays ==
    ASSUME TypeOK, LockInv, [Next]_vars, NEW j \in Jobs,
           job[j].state \in Terminal
    PROVE  job'[j] = job[j]
<1>1. lock[j] \notin Slots
  BY ConstantsAssumption DEF LockInv, Terminal
<1>2. JobMove(j)
  BY JobMoves
<1> QED
  BY <1>1, <1>2 DEF JobMove, JobStays, JobCreated, JobStarted, JobFinished,
                    JobRequeued, Terminal

(* A job keeps its order.                                                   *)
LEMMA OrderStays ==
    ASSUME TypeOK, [Next]_vars, NEW j \in Jobs, job[j].state # "none"
    PROVE  job'[j].order = job[j].order /\ job'[j].state # "none"
<1>1. JobMove(j) /\ job[j] \in JobType
  BY JobMoves DEF TypeOK
<1> QED
  BY <1>1 DEF JobMove, JobStays, JobCreated, JobStarted, JobFinished,
              JobRequeued, JobType, AfterFailure

(* A stored order stays stored.                                             *)
LEMMA RowStays ==
    ASSUME TypeOK, [Next]_vars, NEW o \in Orders, row[o].status # "none"
    PROVE  row'[o].status # "none"
<1>1. RowMove(o) /\ row[o] \in RowType
  BY RowMoves DEF TypeOK
<1> QED
  BY <1>1 DEF TypeOK, RowMove, RowType, NewRow, MarkedPriced, MarkedFailed

(* An order given up stays given up.                                        *)
LEMMA GivenUpStays ==
    ASSUME TypeOK, LockInv, [Next]_vars, NEW o \in Orders, GivenUp(o)
    PROVE  GivenUp(o)'
BY TerminalStays DEF GivenUp, ExhaustedJob, Terminal

(* A recorded total survives, and only giving the order up hides it.        *)
LEMMA PricedStays ==
    ASSUME TypeOK, LockInv, RequestInv, MarkInv, [Next]_vars,
           NEW o \in Orders, PricedOrGivenUp(o)
    PROVE  PricedOrGivenUp(o)'
<1>1. GivenUp(o) => GivenUp(o)'
  BY GivenUpStays
<1>2. CASE row'[o] = row[o]
  BY <1>1, <1>2 DEF PricedOrGivenUp
<1>3. CASE request[o] = "inserting"
  BY <1>3 DEF RequestInv, NoRow, PricedOrGivenUp
<1>4. CASE row' = MarkedPriced(o)
  BY <1>1, <1>4 DEF TypeOK, MarkedPriced, PricedOrGivenUp
<1>5. ASSUME NEW w \in Workers, NEW j \in marking[w], job[j].order = o,
             row' = MarkedFailed(o)
      PROVE  PricedOrGivenUp(o)'
  <2>1. j \in Jobs /\ GivenUp(o)
    BY <1>5 DEF TypeOK, MarkInv, GivenUp
  <2>2. row'[o].total = row[o].total
    BY <1>5 DEF TypeOK, RowType, MarkedFailed
  <2> QED
    BY <1>1, <2>1, <2>2 DEF PricedOrGivenUp
<1> QED
  BY <1>2, <1>3, <1>4, <1>5, RowMoves DEF RowMove

-----------------------------------------------------------------------------
(* Each part of IInv holds initially and is kept by every step.             *)

(* A lock still belongs to the slot at work, or to one that is gone.        *)
LEMMA LockKept ==
    ASSUME TypeOK, LockInv, [Next]_vars
    PROVE  LockInv'
<1> SUFFICES ASSUME NEW j \in Jobs, lock'[j] # None
             PROVE  job'[j].state = "active"
  BY DEF LockInv
<1>1. JobMove(j) /\ job[j] \in JobType
  BY JobMoves DEF TypeOK
<1> QED
  BY <1>1 DEF LockInv, JobMove, JobStays, JobCreated, JobStarted,
              JobFinished, JobRequeued, JobType

(* A slot still works only on a job that exists.                            *)
LEMMA BusyKept ==
    ASSUME TypeOK, BusyInv, [Next]_vars
    PROVE  BusyInv'
<1> SUFFICES ASSUME NEW s \in Slots, slot'[s].pc # "idle"
             PROVE  job'[slot'[s].job].state # "none"
  BY DEF BusyInv
<1>1. SlotMove(s) /\ slot[s] \in SlotType
  BY SlotMoves DEF TypeOK
<1>2. CASE slot'[s].job = slot[s].job /\ slot[s].pc # "idle"
  BY <1>1, <1>2, OrderStays DEF BusyInv, SlotType, IdleSlot
<1>3. ASSUME NEW j \in Jobs, JobStarted(j, s)
      PROVE  job'[slot'[s].job].state # "none"
  <2>1. job[j] \in JobType
    BY DEF TypeOK
  <2> QED
    BY <1>3, <2>1 DEF JobStarted, JobType
<1>4. ASSUME NEW j \in Jobs, JobFinished(j, s)
      PROVE  \/ slot'[s] = IdleSlot
             \/ slot'[s].job = slot[s].job /\ slot[s].pc # "idle"
  BY <1>1, <1>4 DEF JobFinished, SlotType, IdleSlot
<1> QED
  BY <1>1, <1>2, <1>3, <1>4 DEF SlotMove, SlotGoes, IdleSlot

(* A job still has an order, and its order a row.                           *)
LEMMA OrderKept ==
    ASSUME TypeOK, LockInv, OrderInv, RequestInv, [Next]_vars
    PROVE  OrderInv'
<1> SUFFICES ASSUME NEW j \in Jobs, job'[j].state # "none"
             PROVE  job'[j].order \in Orders /\ row'[job'[j].order].status # "none"
  BY DEF OrderInv
<1>1. CASE job[j].state # "none"
  BY <1>1, OrderStays, RowStays DEF OrderInv
<1>2. CASE job[j].state = "none"
  <2>1. lock[j] \notin Slots
    BY <1>2, ConstantsAssumption DEF LockInv
  <2>2. JobCreated(j)
    BY <1>2, <2>1, JobMoves DEF JobMove, JobStays, JobStarted, JobFinished,
                                JobRequeued
  <2>3. PICK o \in Orders : request[o] = "adding" /\ job'[j] = NewJob(o)
    BY <2>2 DEF JobCreated
  <2> QED
    BY <2>3, RowStays DEF RequestInv, NewJob, NoJob
<1> QED
  BY <1>1, <1>2

(* An answered request still has its row and its job.                       *)
LEMMA RequestKept ==
    ASSUME TypeOK, RequestInv, MarkInv, OrderInv, BusyInv, [Next]_vars
    PROVE  RequestInv'
<1> SUFFICES ASSUME NEW o \in Orders
             PROVE  /\ request'[o] \in {"none", "inserting"} => row'[o] = NoRow
                    /\ request'[o] \in {"adding", "responding", "202"} =>
                           row'[o].status # "none"
                    /\ request'[o] \in {"responding", "202"} =>
                           \E j \in Jobs : job'[j].state # "none"
                                           /\ job'[j].order = o
  BY DEF RequestInv
<1>1. RequestMove(o) /\ RowMove(o)
  BY RequestMoves, RowMoves
<1>2. row[o] = NoRow => \/ row'[o] = NoRow
                        \/ row'[o] = NewRow /\ request'[o] \in {"adding", "500"}
  <2>1. ASSUME row[o] = NoRow PROVE MarkedPriced(o) = row /\ MarkedFailed(o) = row
    BY <2>1 DEF MarkedPriced, MarkedFailed, NoRow
  <2> QED
    BY <1>1, <2>1 DEF RowMove
<1>3. request[o] \in {"responding", "202"} =>
          \E j \in Jobs : job'[j].state # "none" /\ job'[j].order = o
  BY OrderStays DEF RequestInv
<1>4. request[o] \in {"adding", "responding", "202"} => row'[o].status # "none"
  BY RowStays DEF RequestInv
<1>5. ASSUME request'[o] \in {"none", "inserting"} PROVE row'[o] = NoRow
  <2>1. request[o] \in {"none", "inserting"}
    BY <1>1, <1>5 DEF RequestMove
  <2> QED
    BY <1>2, <1>5, <2>1 DEF RequestInv
<1>6. ASSUME request'[o] \in {"adding", "responding", "202"}
      PROVE  row'[o].status # "none"
  BY <1>1, <1>4, <1>6 DEF RequestMove, NewRow
<1>7. ASSUME request'[o] \in {"responding", "202"}
      PROVE  \E j \in Jobs : job'[j].state # "none" /\ job'[j].order = o
  BY <1>1, <1>3, <1>7 DEF RequestMove, NewJob, NoJob
<1> QED
  BY <1>5, <1>6, <1>7

(* The attempts of a job still agree with its state.                        *)
LEMMA AttemptKept ==
    ASSUME TypeOK, LockInv, BusyInv, HolderInv, AttemptInv, [Next]_vars
    PROVE  AttemptInv'
<1> SUFFICES ASSUME NEW j \in Jobs
             PROVE  /\ job'[j].attemptsMade <= MaxAttempts
                    /\ job'[j].state \notin Terminal =>
                           job'[j].attemptsMade < MaxAttempts
  BY DEF AttemptInv
<1> USE ConstantsAssumption
<1>1. JobMove(j) /\ job[j] \in JobType
  BY JobMoves DEF TypeOK
<1>2. CASE JobStays(j) \/ JobRequeued(j)
  BY <1>1, <1>2 DEF JobStays, JobRequeued, JobType, AttemptInv, Terminal
<1>3. CASE JobCreated(j)
  BY <1>3 DEF JobCreated, NewJob, NoJob
<1>4. ASSUME NEW s \in Slots, JobStarted(j, s)
      PROVE  /\ job'[j].attemptsMade <= MaxAttempts
             /\ job'[j].attemptsMade < MaxAttempts
  BY <1>1, <1>4 DEF JobStarted, JobType, AttemptInv, Terminal
<1>5. ASSUME NEW s \in Slots, JobFinished(j, s)
      PROVE  /\ job'[j].attemptsMade <= MaxAttempts
             /\ job'[j].state \notin Terminal =>
                    job'[j].attemptsMade < MaxAttempts
  <2>1. job[j].state = "active"
    BY <1>5 DEF JobFinished, LockInv
  <2>2. job[j].attemptsMade < MaxAttempts
    BY <2>1 DEF AttemptInv, Terminal
  <2>3. job'[j].attemptsMade = job[j].attemptsMade + 1
    BY <1>1, <1>5 DEF JobFinished, JobType
  <2>4. job'[j].state \notin Terminal => Retryable(s)
    BY <1>1, <1>5 DEF JobFinished, JobType, AfterFailure, Terminal
  <2>5. Retryable(s) => job[j].attemptsMade + 1 < MaxAttempts
    BY <1>5 DEF Retryable, JobFinished, HolderInv, HoldsLock, Working
  <2> QED
    BY <1>1, <2>2, <2>3, <2>4, <2>5 DEF JobType
<1> QED
  BY <1>1, <1>2, <1>3, <1>4, <1>5 DEF JobMove, AttemptInv, JobType

(* The runs of the processor are still those that were paid for.            *)
LEMMA RunsKept ==
    ASSUME TypeOK, LockInv, RunsInv, [Next]_vars
    PROVE  RunsInv'
<1> DEFINE Accounted(r) ==
             /\ r.stalled <= MaxStalled =>
                    r.runs = r.attemptsMade + r.stalled
                             + (IF r.state = "active" THEN 1 ELSE 0)
             /\ r.stalled > MaxStalled =>
                    r.runs <= r.attemptsMade + MaxStalled
                              + (IF r.state \in Terminal THEN 0 ELSE 1)
<1> SUFFICES ASSUME NEW j \in Jobs PROVE Accounted(job'[j])
  BY DEF RunsInv
<1> USE ConstantsAssumption
<1>1. JobMove(j) /\ job[j] \in JobType /\ Accounted(job[j])
  BY JobMoves DEF TypeOK, RunsInv
<1>2. CASE JobStays(j)
  BY <1>1, <1>2 DEF JobStays
<1>3. CASE JobCreated(j)
  BY <1>3 DEF JobCreated, NewJob, NoJob
<1>4. CASE JobRequeued(j)
  <2>1. CASE job[j].state = "delayed"
    BY <1>1, <1>4, <2>1 DEF JobRequeued, JobType, Terminal
  <2>2. CASE job[j].state = "active"
    <3>1. /\ job'[j].state = "waiting"
          /\ job'[j].stalled = job[j].stalled + 1
          /\ job'[j].attemptsMade = job[j].attemptsMade
          /\ job'[j].runs = job[j].runs
      BY <1>1, <1>4, <2>2 DEF JobRequeued, JobType
    <3> QED
      BY <1>1, <2>2, <3>1 DEF JobType, Terminal
  <2> QED
    BY <1>4, <2>1, <2>2 DEF JobRequeued
<1>5. ASSUME NEW s \in Slots, JobStarted(j, s) PROVE Accounted(job'[j])
  <2>1. /\ job[j].state = "waiting"
        /\ job'[j].state = "active"
        /\ job'[j].stalled = job[j].stalled
        /\ job'[j].attemptsMade = job[j].attemptsMade
    BY <1>1, <1>5 DEF JobStarted, JobType
  <2>2. \/ job[j].stalled <= MaxStalled /\ job'[j].runs = job[j].runs + 1
        \/ job[j].stalled > MaxStalled /\ job'[j].runs = job[j].runs
    BY <1>1, <1>5 DEF JobStarted, JobType
  <2> QED
    BY <1>1, <2>1, <2>2 DEF JobType, Terminal
<1>6. ASSUME NEW s \in Slots, JobFinished(j, s) PROVE Accounted(job'[j])
  <2>1. job[j].state = "active"
    BY <1>6 DEF JobFinished, LockInv
  <2>2. PICK st \in {"completed", "failed", "delayed"} :
           job'[j] = [job[j] EXCEPT !.state = st, !.attemptsMade = @ + 1]
    BY <1>6 DEF JobFinished, AfterFailure
  <2> QED
    BY <1>1, <2>1, <2>2 DEF JobType, Terminal
<1> QED
  BY <1>1, <1>2, <1>3, <1>4, <1>5, <1>6 DEF JobMove

(* A failed job is still exhausted or refused.                              *)
LEMMA FailedKept ==
    ASSUME TypeOK, LockInv, AttemptInv, HolderInv, FailedInv, [Next]_vars
    PROVE  FailedInv'
<1> SUFFICES ASSUME NEW j \in Jobs, job'[j].state = "failed",
                    job'[j].stalled = 0
             PROVE  job'[j].attemptsMade = MaxAttempts
  BY DEF FailedInv
<1> USE ConstantsAssumption
<1>1. JobMove(j) /\ job[j] \in JobType
  BY JobMoves DEF TypeOK
<1>2. CASE JobStays(j)
  BY <1>2 DEF JobStays, FailedInv
<1>3. ASSUME NEW s \in Slots, JobFinished(j, s)
      PROVE  job'[j].attemptsMade = MaxAttempts
  <2>1. /\ slot[s].pc \in {"failing", "refusing"}
        /\ ~Retryable(s)
        /\ job'[j].attemptsMade = job[j].attemptsMade + 1
        /\ job[j].stalled = 0
    BY <1>1, <1>3 DEF JobFinished, JobType, AfterFailure
  <2>2. /\ slot[s].attemptsMade = job[j].attemptsMade
        /\ slot[s].pc # "refusing"
    BY <1>3, <2>1 DEF JobFinished, HolderInv, HoldsLock, Working
  <2>3. job[j].attemptsMade < MaxAttempts
    BY <1>3 DEF JobFinished, LockInv, AttemptInv, Terminal
  <2> QED
    BY <1>1, <2>1, <2>2, <2>3 DEF Retryable, JobType
<1> QED
  BY <1>1, <1>2, <1>3 DEF JobMove, JobCreated, NewJob, NoJob, JobRequeued,
                          JobStarted, JobType

(* A busy slot that holds its lock after a step held it before, and its job *)
(* did not move.                                                            *)
LEMMA HolderStays ==
    ASSUME TypeOK, LockInv, BusyInv, [Next]_vars, NEW s \in Slots,
           slot[s].pc # "idle", lock'[slot[s].job] = s
    PROVE  HoldsLock(s) /\ job'[slot[s].job] = job[slot[s].job]
<1> DEFINE j == slot[s].job
<1>1. j \in Jobs /\ job[j].state # "none"
  BY DEF TypeOK, SlotType, IdleSlot, BusyInv
<1>2. s # None
  BY ConstantsAssumption
<1>3. lock[j] # None => job[j].state = "active"
  BY <1>1 DEF LockInv
<1>4. CASE JobStays(j)
  BY <1>2, <1>4 DEF JobStays, HoldsLock
<1>5. ~JobCreated(j)
  BY <1>1 DEF JobCreated
<1>6. ~JobRequeued(j)
  BY <1>2, <1>3 DEF JobRequeued
<1>7. ASSUME NEW t \in Slots PROVE ~JobStarted(j, t) /\ ~JobFinished(j, t)
  BY <1>2 DEF JobStarted, JobFinished
<1> QED
  BY <1>1, <1>4, <1>5, <1>6, <1>7, JobMoves DEF JobMove

(* A slot that reported an outcome is idle or has a 'failed' event to       *)
(* handle.                                                                  *)
LEMMA FinishedSlot ==
    ASSUME TypeOK, NEW s \in Slots, NEW j \in Jobs, JobFinished(j, s)
    PROVE  \/ slot'[s] = IdleSlot
           \/ /\ slot[s].pc \in {"failing", "refusing"}
              /\ slot'[s].pc = "notifying"
              /\ slot'[s].job = j
              /\ slot'[s].attemptsMade = slot[s].attemptsMade + 1
<1>1. slot[s] \in SlotType
  BY DEF TypeOK
<1>2. CASE slot[s].pc \in {"failing", "refusing"}
  <2>1. slot[s].job = j
    BY DEF JobFinished
  <2>2. slot'[s] = [slot[s] EXCEPT !.pc = "notifying", !.attemptsMade = @ + 1]
    BY <1>2 DEF JobFinished
  <2> QED
    BY <1>1, <1>2, <2>1, <2>2 DEF SlotType, IdleSlot
<1> QED
  BY <1>2 DEF JobFinished

(* The holder of a lock still knows the attempts of its job.                *)
LEMMA HolderKept ==
    ASSUME TypeOK, LockInv, BusyInv, HolderInv, [Next]_vars
    PROVE  HolderInv'
<1> SUFFICES ASSUME NEW s \in Slots, slot'[s].pc \in Working,
                    lock'[slot'[s].job] = s
             PROVE  /\ slot'[s].attemptsMade = job'[slot'[s].job].attemptsMade
                    /\ slot'[s].pc = "refusing" =>
                           job'[slot'[s].job].stalled > MaxStalled
  BY DEF HolderInv, HoldsLock
<1>1. SlotMove(s)
  BY SlotMoves
<1>2. CASE slot'[s] = slot[s]
  BY <1>2, HolderStays DEF HolderInv, Working
<1>3. CASE slot'[s] = IdleSlot
  BY <1>3 DEF IdleSlot, Working
<1>4. CASE SlotGoes(s)
  <2>1. slot[s].pc \in Working /\ slot'[s].pc # "refusing"
    BY <1>4 DEF SlotGoes, Working
  <2>2. HoldsLock(s) /\ job'[slot[s].job] = job[slot[s].job]
    BY <1>4, <2>1, HolderStays DEF SlotGoes, Working
  <2> QED
    BY <1>4, <2>1, <2>2 DEF SlotGoes, HolderInv
<1>5. ASSUME NEW j \in Jobs, JobStarted(j, s)
      PROVE  /\ slot'[s].attemptsMade = job'[j].attemptsMade
             /\ slot'[s].pc = "refusing" => job'[j].stalled > MaxStalled
             /\ slot'[s].job = j
  <2>1. job[j] \in JobType
    BY DEF TypeOK
  <2> QED
    BY <1>5, <2>1 DEF JobStarted, JobType
<1>6. ASSUME NEW j \in Jobs, JobFinished(j, s) PROVE FALSE
  BY <1>6, FinishedSlot DEF IdleSlot, Working
<1> QED
  BY <1>1, <1>2, <1>3, <1>4, <1>5, <1>6 DEF SlotMove

(* A slot past its UPDATE still has its total in the row.                   *)
LEMMA WriteKept ==
    ASSUME TypeOK, LockInv, BusyInv, OrderInv, RequestInv, MarkInv, WriteInv,
           [Next]_vars
    PROVE  WriteInv'
<1> SUFFICES ASSUME NEW s \in Slots
             PROVE  /\ slot'[s].pc = "writing" => OrderOf(s)' \notin FailSkus
                    /\ slot'[s].pc \in {"summarising", "completing"} =>
                           PricedOrGivenUp(OrderOf(s))'
  BY DEF WriteInv
<1>1. SlotMove(s) /\ slot[s] \in SlotType
  BY SlotMoves DEF TypeOK
<1>2. ASSUME slot[s].pc # "idle", slot'[s].job = slot[s].job
      PROVE  /\ OrderOf(s)' = OrderOf(s)
             /\ OrderOf(s) \in Orders
             /\ row[OrderOf(s)].status # "none"
  <2>1. slot[s].job \in Jobs /\ job[slot[s].job].state # "none"
    BY <1>1, <1>2 DEF SlotType, IdleSlot, BusyInv
  <2> QED
    BY <1>2, <2>1, OrderStays DEF OrderOf, OrderInv
<1>3. ASSUME slot'[s].job = slot[s].job,
             slot[s].pc \in {"summarising", "completing"}
      PROVE  PricedOrGivenUp(OrderOf(s))'
  <2>1. PricedOrGivenUp(OrderOf(s)) /\ OrderOf(s) \in Orders
    BY <1>2, <1>3 DEF WriteInv
  <2>2. PICK o \in Orders : o = OrderOf(s)
    BY <2>1
  <2>3. PricedOrGivenUp(o)'
    BY <2>1, <2>2, PricedStays
  <2>4. OrderOf(s)' = o
    BY <1>2, <1>3, <2>2
  <2> QED
    BY <2>3, <2>4 DEF PricedOrGivenUp, GivenUp
<1>4. CASE slot'[s] = slot[s]
  BY <1>2, <1>3, <1>4 DEF WriteInv
<1>5. CASE slot'[s] = IdleSlot
  BY <1>5 DEF IdleSlot
<1>6. CASE SlotGoes(s)
  <2>1. CASE slot'[s].pc = "writing"
    BY <1>2, <1>6, <2>1 DEF SlotGoes
  <2>2. CASE slot'[s].pc = "summarising"
    <3>1. row' = MarkedPriced(OrderOf(s)) /\ slot[s].pc = "writing"
      BY <1>6, <2>2 DEF SlotGoes
    <3>2. row'[OrderOf(s)] = [status |-> "priced", total |-> "quoted"]
      BY <1>2, <1>6, <3>1 DEF SlotGoes, MarkedPriced, TypeOK
    <3> QED
      BY <1>2, <1>6, <2>2, <3>1, <3>2 DEF SlotGoes, PricedOrGivenUp
  <2>3. CASE slot'[s].pc = "completing"
    BY <1>3, <1>6, <2>3 DEF SlotGoes
  <2>4. slot'[s].pc \in {"writing", "failing", "summarising", "completing"}
    BY <1>6 DEF SlotGoes
  <2> QED
    BY <2>1, <2>2, <2>3, <2>4
<1>7. ASSUME NEW j \in Jobs, JobStarted(j, s) \/ JobFinished(j, s)
      PROVE  slot'[s].pc \in {"idle", "notifying", "quoting", "refusing"}
  BY <1>7, FinishedSlot DEF JobStarted, IdleSlot
<1> QED
  BY <1>1, <1>4, <1>5, <1>6, <1>7 DEF SlotMove

(* A slot that notifies still knows what BullMQ counted.                    *)
LEMMA NotifyKept ==
    ASSUME TypeOK, LockInv, BusyInv, HolderInv, NotifyInv, [Next]_vars
    PROVE  NotifyInv'
<1> SUFFICES ASSUME NEW s \in Slots, slot'[s].pc = "notifying",
                    slot'[s].attemptsMade >= MaxAttempts
             PROVE  ExhaustedJob(slot[s].job)'
  BY DEF NotifyInv, Exhausted
<1> USE ConstantsAssumption
<1>1. SlotMove(s) /\ slot[s] \in SlotType
  BY SlotMoves DEF TypeOK
<1>2. CASE slot'[s] = slot[s]
  <2>1. slot[s].job \in Jobs /\ ExhaustedJob(slot[s].job)
    BY <1>1, <1>2 DEF SlotType, IdleSlot, NotifyInv, Exhausted
  <2>2. job'[slot[s].job] = job[slot[s].job]
    BY <2>1, TerminalStays DEF ExhaustedJob, Terminal
  <2> QED
    BY <1>2, <2>1, <2>2 DEF ExhaustedJob
<1>3. ASSUME NEW j \in Jobs, JobFinished(j, s)
      PROVE  ExhaustedJob(slot[s].job)'
  <2>1. /\ slot[s].pc \in {"failing", "refusing"}
        /\ slot'[s].job = j
        /\ slot'[s].attemptsMade = slot[s].attemptsMade + 1
    BY <1>3, FinishedSlot DEF IdleSlot
  <2>2. /\ slot[s].attemptsMade = job[j].attemptsMade
        /\ slot[s].attemptsMade \in Nat
        /\ job[j] \in JobType
    BY <1>1, <1>3, <2>1
       DEF TypeOK, JobFinished, HolderInv, HoldsLock, Working, SlotType, IdleSlot
  <2>3. job'[j] = [job[j] EXCEPT !.state = AfterFailure(s),
                                 !.attemptsMade = @ + 1]
    BY <1>3, <2>1 DEF JobFinished
  <2>4. /\ job'[j].attemptsMade = job[j].attemptsMade + 1
        /\ job'[j].state = AfterFailure(s)
    BY <2>2, <2>3 DEF JobType
  <2>5. AfterFailure(s) = "failed"
    BY <2>1, <2>2 DEF AfterFailure, Retryable
  <2> QED
    BY <2>1, <2>2, <2>4, <2>5 DEF ExhaustedJob
<1> QED
  BY <1>1, <1>2, <1>3 DEF SlotMove, SlotGoes, IdleSlot, JobStarted

(* A started markFailed call is still about an exhausted job.               *)
LEMMA MarkKept ==
    ASSUME TypeOK, LockInv, NotifyInv, MarkInv, [Next]_vars
    PROVE  MarkInv'
<1> SUFFICES ASSUME NEW w \in Workers, NEW j \in marking'[w]
             PROVE  ExhaustedJob(j)'
  BY DEF MarkInv
<1>1. j \in Jobs /\ ExhaustedJob(j)
  <2>1. ASSUME NEW s \in Slots, slot[s].pc = "notifying"
        PROVE  slot[s].job \in Jobs
    BY <2>1 DEF TypeOK, SlotType, IdleSlot
  <2> QED
    BY <2>1, MarkMoves DEF TypeOK, MarkMove, MarkInv, NotifyInv
<1>2. job'[j] = job[j]
  BY <1>1, TerminalStays DEF ExhaustedJob, Terminal
<1> QED
  BY <1>1, <1>2 DEF ExhaustedJob

(* A row still says 'failed' only of an order given up.                     *)
LEMMA FailedIsExhaustedKept ==
    ASSUME TypeOK, LockInv, MarkInv, FailedIsExhausted, [Next]_vars
    PROVE  FailedIsExhausted'
<1> SUFFICES ASSUME NEW o \in Orders, row'[o].status = "failed"
             PROVE  GivenUp(o)'
  BY DEF FailedIsExhausted
<1>1. CASE row[o].status = "failed"
  BY <1>1, GivenUpStays DEF FailedIsExhausted
<1>2. ASSUME NEW w \in Workers, NEW j \in marking[w], job[j].order = o
      PROVE  GivenUp(o)'
  <2>1. GivenUp(o)
    BY <1>2 DEF TypeOK, MarkInv, GivenUp
  <2> QED
    BY <2>1, GivenUpStays
<1>3. ASSUME row' = MarkedPriced(o) PROVE row[o].status = "failed"
  BY <1>3 DEF TypeOK, MarkedPriced
<1> QED
  BY <1>1, <1>2, <1>3, RowMoves DEF RowMove, NewRow

(* A completed job still has its total in the row.                          *)
LEMMA CompletedIsPricedKept ==
    ASSUME TypeOK, LockInv, BusyInv, OrderInv, RequestInv, MarkInv, WriteInv,
           CompletedIsPriced, [Next]_vars
    PROVE  CompletedIsPriced'
<1> SUFFICES ASSUME NEW j \in Jobs, job'[j].state = "completed"
             PROVE  PricedOrGivenUp(job[j].order)'
  BY DEF CompletedIsPriced
<1>1. JobMove(j) /\ job[j] \in JobType
  BY JobMoves DEF TypeOK
<1>2. JobStays(j) \/ \E s \in Slots : JobFinished(j, s)
  BY <1>1 DEF JobMove, JobCreated, JobStarted, JobRequeued, NewJob, NoJob,
              JobType
<1>3. PricedOrGivenUp(job[j].order) /\ job[j].state # "none"
  <2>1. CASE JobStays(j)
    BY <2>1 DEF JobStays, CompletedIsPriced
  <2>2. ASSUME NEW s \in Slots, JobFinished(j, s)
        PROVE  PricedOrGivenUp(job[j].order) /\ job[j].state # "none"
    <3>1. slot[s].pc = "completing" /\ slot[s].job = j
      BY <1>1, <2>2 DEF JobFinished, AfterFailure, JobType
    <3> QED
      BY <3>1 DEF WriteInv, BusyInv, OrderOf
  <2> QED
    BY <1>2, <2>1, <2>2
<1>4. PICK o \in Orders : o = job[j].order /\ job'[j].order = o
  BY <1>3, OrderStays DEF OrderInv
<1>5. PricedOrGivenUp(o)'
  BY <1>3, <1>4, PricedStays
<1> QED
  BY <1>4, <1>5 DEF PricedOrGivenUp, GivenUp

-----------------------------------------------------------------------------
(* The initial state has the invariant: nothing is stored, queued or held.  *)
LEMMA InitInv == Init => IInv
<1> SUFFICES ASSUME Init PROVE IInv
  OBVIOUS
<1>1. TypeOK
  BY InitTypeOK
<1>2. LockInv /\ BusyInv /\ OrderInv /\ RequestInv
  BY DEF Init, LockInv, BusyInv, OrderInv, RequestInv, NoJob, IdleSlot
<1>3. AttemptInv /\ RunsInv /\ FailedInv
  BY ConstantsAssumption DEF Init, AttemptInv, RunsInv, FailedInv, NoJob
<1>4. HolderInv /\ WriteInv /\ NotifyInv /\ MarkInv
  BY DEF Init, HolderInv, WriteInv, NotifyInv, MarkInv, IdleSlot, Working
<1>5. FailedIsExhausted /\ CompletedIsPriced
  BY DEF Init, FailedIsExhausted, CompletedIsPriced, NoJob, NoRow
<1> QED
  BY <1>1, <1>2, <1>3, <1>4, <1>5 DEF IInv

(* Every step keeps the invariant.                                          *)
LEMMA NextInv == IInv /\ [Next]_vars => IInv'
<1> SUFFICES ASSUME IInv, [Next]_vars PROVE IInv'
  OBVIOUS
<1>1. /\ TypeOK
      /\ LockInv /\ BusyInv /\ OrderInv /\ RequestInv
      /\ AttemptInv /\ RunsInv /\ HolderInv /\ FailedInv
      /\ WriteInv /\ NotifyInv /\ MarkInv
      /\ FailedIsExhausted /\ CompletedIsPriced
  BY DEF IInv
<1>2. TypeOK'
  BY <1>1, NextTypeOK
<1>3. LockInv' /\ BusyInv' /\ OrderInv' /\ RequestInv'
  BY <1>1, LockKept, BusyKept, OrderKept, RequestKept
<1>4. AttemptInv' /\ RunsInv' /\ HolderInv' /\ FailedInv'
  BY <1>1, AttemptKept, RunsKept, HolderKept, FailedKept
<1>5. WriteInv' /\ NotifyInv' /\ MarkInv'
  BY <1>1, WriteKept, NotifyKept, MarkKept
<1>6. FailedIsExhausted' /\ CompletedIsPriced'
  BY <1>1, FailedIsExhaustedKept, CompletedIsPricedKept
<1> QED
  BY <1>2, <1>3, <1>4, <1>5, <1>6 DEF IInv

(* The strengthened invariant holds in every reachable state.               *)
THEOREM Invariant == Spec => []IInv
BY InitInv, NextInv, PTL DEF Spec

(* A row says 'failed' only when a job of the order used up its attempts:   *)
(* main.ts's exhausted test and BullMQ's retry decision agree, whatever     *)
(* stalls, crashes, lost answers and late UPDATEs come between.             *)
THEOREM FailedOnlyWhenExhausted == Spec => []FailedIsExhausted
<1>1. IInv => FailedIsExhausted
  BY DEF IInv
<1> QED
  BY <1>1, Invariant, PTL

(* No job is reported completed whose price is not in the row, and no late  *)
(* UPDATE undoes a completed order but one of another job given up.         *)
THEOREM CompletedOnlyWhenPriced == Spec => []CompletedIsPriced
<1>1. IInv => CompletedIsPriced
  BY DEF IInv
<1> QED
  BY <1>1, Invariant, PTL

(* A client told 202 finds the order, and the queue has a job for it.       *)
THEOREM AcceptedOnlyWhenBacked == Spec => []AcceptedIsBacked
<1>1. IInv => AcceptedIsBacked
  BY DEF IInv, RequestInv, AcceptedIsBacked, GetOrder, TypeOK, RowType,
         OrderStatus
<1> QED
  BY <1>1, Invariant, PTL

(* No UPDATE of a worker, however late, misses its row.                     *)
THEOREM RowsBeforeJobs == Spec => []RowBeforeJob
<1>1. IInv => RowBeforeJob
  BY DEF IInv, OrderInv, RowBeforeJob
<1> QED
  BY <1>1, Invariant, PTL

(* Stalls and retries together run the processor at most MaxAttempts +      *)
(* MaxStalled times.                                                        *)
THEOREM AttemptsAreBounded == Spec => []AttemptsBounded
<1>1. ASSUME IInv PROVE AttemptsBounded
  <2> SUFFICES ASSUME NEW j \in Jobs
               PROVE  /\ job[j].attemptsMade <= MaxAttempts
                      /\ job[j].runs <= MaxAttempts + MaxStalled
    BY DEF AttemptsBounded
  <2>1. job[j] \in JobType /\ AttemptInv /\ RunsInv
    BY <1>1 DEF IInv, TypeOK
  <2>2. CASE job[j].stalled <= MaxStalled
    BY <2>1, <2>2, ConstantsAssumption DEF AttemptInv, RunsInv, JobType, Terminal
  <2>3. CASE job[j].stalled > MaxStalled
    BY <2>1, <2>3, ConstantsAssumption DEF AttemptInv, RunsInv, JobType
  <2> QED
    BY <2>1, <2>2, <2>3, ConstantsAssumption DEF JobType
<1> QED
  BY <1>1, Invariant, PTL

(* A job that failed without stalling ran the processor MaxAttempts times.  *)
THEOREM OneSpanPerAttempt == Spec => []SpanPerAttempt
<1>1. ASSUME IInv PROVE SpanPerAttempt
  <2> SUFFICES ASSUME NEW j \in Jobs, job[j].state = "failed",
                      job[j].stalled = 0
               PROVE  job[j].runs = MaxAttempts
    BY DEF SpanPerAttempt
  <2>1. job[j] \in JobType /\ job[j].attemptsMade = MaxAttempts
    BY <1>1 DEF IInv, TypeOK, FailedInv
  <2>2. job[j].runs = job[j].attemptsMade + job[j].stalled + 0
    BY <1>1, ConstantsAssumption DEF IInv, RunsInv
  <2> QED
    BY <2>1, <2>2, ConstantsAssumption
<1> QED
  BY <1>1, Invariant, PTL

(* A finished job never moves again: a slot without the lock changes        *)
(* nothing.                                                                 *)
THEOREM FinishedIsFinal == Spec => TerminalIsFinal
<1>1. IInv /\ [Next]_vars =>
          [\A j \in Jobs : job[j].state \in Terminal => job'[j] = job[j]]_vars
  BY TerminalStays DEF IInv
<1> QED
  BY <1>1, Invariant, PTL DEF Spec, TerminalIsFinal

=============================================================================
