---------------------- MODULE OrderPipelineRefinement ----------------------
(* OrderPipeline implements OrderLifecycle for every value of its           *)
(* constants: with redelivery under every failure it models, and without it *)
(* where none of the failures runs an attempt or stores a job twice.        *)
EXTENDS OrderPipelineSafety

(* A priced or failed row is an open order being settled.                   *)
LEMMA PricingRefines ==
    ASSUME IInv, NEW o \in Orders, row' = MarkedPriced(o), o \notin FailSkus,
           UNCHANGED request
    PROVE  [AtLeastOnce!Next]_(AtLeastOnce!vars)
<1>1. Accepted' = Accepted
  BY DEF Accepted
<1>2. CASE row[o].status = "none"
  BY <1>1, <1>2 DEF MarkedPriced, AtLeastOnce!vars
<1>3. CASE row[o].status # "none"
  <2>1. AtLeastOnce!Price(o)
    BY <1>1, <1>3 DEF MarkedPriced, AtLeastOnce!Price, AtLeastOnce!Open
  <2> QED
    BY <2>1 DEF AtLeastOnce!Next
<1> QED
  BY <1>2, <1>3

(* A row that is failed is an open order given up.                          *)
LEMMA FailingRefines ==
    ASSUME IInv, NEW o \in Orders, row' = MarkedFailed(o), UNCHANGED request
    PROVE  [AtLeastOnce!Next]_(AtLeastOnce!vars)
<1>1. Accepted' = Accepted
  BY DEF Accepted
<1>2. CASE row[o].status = "none"
  BY <1>1, <1>2 DEF MarkedFailed, AtLeastOnce!vars
<1>3. CASE row[o].status # "none"
  <2>1. AtLeastOnce!GiveUp(o)
    BY <1>1, <1>3 DEF MarkedFailed, AtLeastOnce!GiveUp, AtLeastOnce!Open
  <2> QED
    BY <2>1 DEF AtLeastOnce!Next
<1> QED
  BY <1>2, <1>3

(* The steps that touch a row or an answer.                                 *)
LEMMA RowSteps ==
    ASSUME [Next]_vars
    PROVE  \/ UNCHANGED <<row, request>>
           \/ ApiCrash
           \/ \E o \in Orders : ApiStep(o)
           \/ \E s \in Slots : WritePriced(s) \/ WriteFails(s)
           \/ \E w \in Workers, j \in Jobs : MarkFailed(w, j)
BY DEF vars, apiVars, queueVars, workerVars, Next, ApiRestart, QueueStep,
       Promote, LockExpires, LockLost, StalledCheck, SlotStep, PickUp, QuoteOk,
       QuoteFails, QuoteBroken, Summarise, Complete, MoveToFailed, FailedEvent,
       FailedEventLost, WorkerStep, WorkerCrash, WorkerRestart, MarkFailedFails

(* Storing a row creates the order, answering 202 accepts it.               *)
LEMMA ApiRefines ==
    ASSUME IInv, NEW o \in Orders, ApiStep(o)
    PROVE  \/ AtLeastOnce!Create(o) \/ AtLeastOnce!Accept(o)
           \/ UNCHANGED <<row, Accepted>>
<1> USE DEF apiVars, queueVars, workerVars
<1>1. request \in [Orders -> {"none"} \cup InFlight \cup Replies]
  BY DEF IInv, TypeOK
<1>2. CASE UNCHANGED row /\ Accepted' = Accepted
  BY <1>2
<1>3. CASE Insert(o) \/ InsertFails(o)
  <2>1. Accepted' = Accepted
    BY <1>1, <1>3 DEF Insert, InsertFails, Accepted
  <2>2. row[o].status = "none"
    BY <1>3 DEF Insert, InsertFails, IInv, RequestInv, NoRow
  <2>3. row' = row \/ row' = [row EXCEPT ![o] = NewRow]
    BY <1>3 DEF Insert, InsertFails
  <2>4. row' = [row EXCEPT ![o] = NewRow] => AtLeastOnce!Create(o)
    BY <2>1, <2>2 DEF NewRow, AtLeastOnce!Create
  <2> QED
    BY <2>1, <2>3, <2>4
<1>4. CASE Respond(o)
  <2>1. Accepted' = Accepted \cup {o}
    BY <1>1, <1>4 DEF Respond, Accepted
  <2>2. row[o].status # "none" /\ UNCHANGED row
    BY <1>4 DEF Respond, IInv, RequestInv
  <2> QED
    BY <2>1, <2>2 DEF AtLeastOnce!Accept
<1>5. ASSUME Post(o) \/ PostInvalid(o) \/ AddFails(o)
             \/ \E j \in Jobs : Add(o, j) \/ AddResent(o, j)
      PROVE  UNCHANGED row /\ Accepted' = Accepted
  BY <1>1, <1>5 DEF Post, PostInvalid, AddFails, Add, AddResent, Accepted
<1> QED
  BY <1>2, <1>3, <1>4, <1>5 DEF ApiStep

(* Under every failure an order moves only as an at-least-once queue may    *)
(* move it: the row is created once, never requeued, keeps its total, is    *)
(* never priced when pricing cannot succeed, and a 202 names a stored order. *)
THEOREM RefinesAtLeastOnce == Spec => SettlesAtLeastOnce
<1> USE DEF apiVars, queueVars, workerVars
<1>1. Init => AtLeastOnce!Init
  BY DEF Init, NoRow, Accepted, AtLeastOnce!Init
<1>2. IInv /\ [Next]_vars => [AtLeastOnce!Next]_(AtLeastOnce!vars)
  <2> SUFFICES ASSUME IInv, [Next]_vars
               PROVE  [AtLeastOnce!Next]_(AtLeastOnce!vars)
    OBVIOUS
  <2>1. CASE UNCHANGED <<row, request>>
    BY <2>1 DEF Accepted, AtLeastOnce!vars
  <2>2. CASE ApiCrash
    <3>1. Accepted' = Accepted /\ UNCHANGED row
      BY <2>2 DEF ApiCrash, Accepted, InFlight, IInv, TypeOK
    <3> QED
      BY <3>1 DEF AtLeastOnce!vars
  <2>3. ASSUME NEW o \in Orders, ApiStep(o)
        PROVE  [AtLeastOnce!Next]_(AtLeastOnce!vars)
    BY <2>3, ApiRefines DEF AtLeastOnce!Next, AtLeastOnce!vars
  <2>4. ASSUME NEW s \in Slots, WritePriced(s) \/ WriteFails(s)
        PROVE  [AtLeastOnce!Next]_(AtLeastOnce!vars)
    <3>1. slot[s].pc = "writing" /\ UNCHANGED request
      BY <2>4 DEF WritePriced, WriteFails
    <3>2. slot[s].job \in Jobs
      BY <3>1 DEF IInv, TypeOK, SlotType, IdleSlot
    <3>3. OrderOf(s) \in Orders \ FailSkus
      BY <3>1, <3>2 DEF IInv, WriteInv, BusyInv, OrderInv, OrderOf
    <3>4. row' = row \/ row' = MarkedPriced(OrderOf(s))
      BY <2>4 DEF WritePriced, WriteFails
    <3> QED
      BY <2>1, <3>1, <3>3, <3>4, PricingRefines
  <2>5. ASSUME NEW w \in Workers, NEW j \in Jobs, MarkFailed(w, j)
        PROVE  [AtLeastOnce!Next]_(AtLeastOnce!vars)
    <3>1. row' = MarkedFailed(job[j].order) /\ UNCHANGED request
      BY <2>5 DEF MarkFailed
    <3>2. job[j].order \in Orders
      BY <2>5 DEF MarkFailed, IInv, MarkInv, ExhaustedJob, OrderInv
    <3> QED
      BY <3>1, <3>2, FailingRefines
  <2> QED
    BY <2>1, <2>2, <2>3, <2>4, <2>5, RowSteps
<1> QED
  BY <1>1, <1>2, Invariant, PTL DEF Spec, SettlesAtLeastOnce, AtLeastOnce!Spec

-----------------------------------------------------------------------------
(* Without the failures that repeat an attempt, send a job twice or lose an *)
(* UPDATE, the first outcome of an order is its last.  A lost 'failed'      *)
(* event is not among them: it leaves the order unsettled.                  *)
DeliveredOnce ==
    Faults \cap {"add_resent", "update_error", "lock_lost", "worker_crash"} = {}

(* A lane at work holds the lock of its job, and an active job has a lane   *)
(* at work on it.                                                           *)
HeldInv ==
    /\ \A j \in Jobs :
         /\ job[j].stalled = 0
         /\ job[j].state = "active" => lock[j] # None
         /\ lock[j] # None => /\ slot[lock[j]].job = j
                              /\ slot[lock[j]].pc \in Working
    /\ \A s \in Slots : slot[s].pc \in Working => HoldsLock(s)

(* An order has one job, and none before the handler's add is done.         *)
SingleInv ==
    /\ \A i, j \in Jobs : job[i].state # "none" /\ job[j].state # "none"
                          /\ job[i].order = job[j].order => i = j
    /\ \A j \in Jobs : job[j].state # "none" =>
           request[job[j].order] \notin {"none", "inserting", "adding"}

(* The lane with the 'failed' event that will mark the row.                 *)
LastWord(s) == slot[s].pc = "notifying" /\ Exhausted(slot[s].attemptsMade)

(* Of an exhausted job there is one event or one call left, not two.        *)
LastInv ==
    /\ \A s, t \in Slots :
         LastWord(s) /\ LastWord(t) /\ slot[s].job = slot[t].job => s = t
    /\ \A s \in Slots, w \in Workers : LastWord(s) => slot[s].job \notin marking[w]
    /\ \A w, v \in Workers : w # v => marking[w] \cap marking[v] = {}

(* The lanes whose work may still end in an UPDATE of the row.              *)
Unsettled(s) == slot[s].pc \in {"quoting", "writing", "failing"} \/ LastWord(s)

(* As long as an add, an attempt, an event or a call may follow, the row    *)
(* waits.                                                                   *)
QueuedInv ==
    /\ \A o \in Orders : request[o] = "adding" => row[o].status = "queued"
    /\ \A j \in Jobs : job[j].state \in {"waiting", "delayed"} =>
                           row[job[j].order].status = "queued"
    /\ \A s \in Slots : Unsettled(s) => row[OrderOf(s)].status = "queued"
    /\ \A w \in Workers : \A j \in marking[w] : row[job[j].order].status = "queued"

OnceInv == HeldInv /\ SingleInv /\ LastInv /\ QueuedInv

(* A busy lane has a job, which has an order.                               *)
LEMMA BusySlot ==
    ASSUME IInv, NEW s \in Slots, slot[s].pc # "idle"
    PROVE  /\ slot[s].job \in Jobs
           /\ slot[s].attemptsMade \in Nat
           /\ job[slot[s].job].state # "none"
           /\ OrderOf(s) \in Orders
<1>1. slot[s] \in SlotType
  BY DEF IInv, TypeOK
<1>2. slot[s].job \in Jobs /\ slot[s].attemptsMade \in Nat
  BY <1>1 DEF SlotType, IdleSlot
<1> QED
  BY <1>2 DEF IInv, BusyInv, OrderInv, OrderOf

(* A call that will mark a row is about a failed job.                       *)
LEMMA MarkedJob ==
    ASSUME IInv, NEW w \in Workers, NEW j \in marking[w]
    PROVE  /\ j \in Jobs
           /\ job[j].state = "failed"
           /\ job[j].order \in Orders
BY DEF IInv, TypeOK, MarkInv, ExhaustedJob, OrderInv

(* A lane at work does so on an active job, one with the last word on a     *)
(* failed one.                                                              *)
LEMMA SlotJob ==
    ASSUME IInv, OnceInv, NEW s \in Slots
    PROVE  /\ slot[s].pc \in Working => job[slot[s].job].state = "active"
           /\ LastWord(s) => job[slot[s].job].state = "failed"
<1>1. ASSUME slot[s].pc \in Working PROVE job[slot[s].job].state = "active"
  <2>1. slot[s].job \in Jobs /\ lock[slot[s].job] = s
    BY <1>1, BusySlot DEF Working, OnceInv, HeldInv, HoldsLock
  <2> QED
    BY <2>1, ConstantsAssumption DEF IInv, LockInv
<1>2. LastWord(s) => job[slot[s].job].state = "failed"
  BY DEF LastWord, IInv, NotifyInv, ExhaustedJob
<1> QED
  BY <1>1, <1>2

(* A step of the api before the job exists settles nothing.                 *)
LEMMA QuietOnce ==
    ASSUME IInv, OnceInv, UNCHANGED <<job, lock, slot, marking>>,
           \A o \in Orders : request'[o] \in {"none", "inserting", "adding"} =>
                                 request[o] \in {"none", "inserting", "adding"},
           \A o \in Orders : row[o].status = "queued" => row'[o].status = "queued",
           \A o \in Orders : request'[o] = "adding" => row'[o].status = "queued"
    PROVE  OnceInv'
<1>1. HeldInv'
  BY DEF OnceInv, HeldInv, HoldsLock
<1>2. SingleInv'
  BY DEF OnceInv, SingleInv, IInv, OrderInv
<1>3. LastInv'
  BY DEF OnceInv, LastInv, LastWord
<1>4. QueuedInv'
  <2>1. ASSUME NEW j \in Jobs, job[j].state \in {"waiting", "delayed"}
        PROVE  row'[job[j].order].status = "queued"
    BY <2>1 DEF OnceInv, QueuedInv, IInv, OrderInv
  <2>2. ASSUME NEW s \in Slots, Unsettled(s)
        PROVE  row'[OrderOf(s)].status = "queued"
    BY <2>2, BusySlot DEF Unsettled, LastWord, OnceInv, QueuedInv
  <2>3. ASSUME NEW w \in Workers, NEW j \in marking[w]
        PROVE  row'[job[j].order].status = "queued"
    BY <2>3, MarkedJob DEF OnceInv, QueuedInv
  <2> QED
    BY <2>1, <2>2, <2>3 DEF QueuedInv, Unsettled, LastWord, OrderOf
<1> QED
  BY <1>1, <1>2, <1>3, <1>4 DEF OnceInv

LEMMA ApiOnce ==
    ASSUME IInv, OnceInv, DeliveredOnce, NEW o \in Orders, ApiStep(o)
    PROVE  OnceInv'
<1> USE DEF apiVars, queueVars, workerVars
<1>0. request \in [Orders -> {"none"} \cup InFlight \cup Replies]
  BY DEF IInv, TypeOK
<1>1. CASE Post(o) \/ PostInvalid(o) \/ AddFails(o) \/ Respond(o)
  BY <1>0, <1>1, QuietOnce
     DEF Post, PostInvalid, AddFails, Respond, OnceInv, QueuedInv
<1>2. CASE Insert(o) \/ InsertFails(o)
  <2>1. row[o].status = "none"
    BY <1>2 DEF Insert, InsertFails, IInv, RequestInv, NoRow
  <2>2. \A p \in Orders : row[p].status = "queued" => row'[p].status = "queued"
    BY <1>2, <2>1 DEF Insert, InsertFails, IInv, TypeOK
  <2>3. UNCHANGED <<job, lock, slot, marking>>
    BY <1>2 DEF Insert, InsertFails
  <2>4. \A p \in Orders : request'[p] \in {"none", "inserting", "adding"} =>
                              request[p] \in {"none", "inserting", "adding"}
    BY <1>0, <1>2 DEF Insert, InsertFails
  <2>5. \A p \in Orders : request'[p] = "adding" => row'[p].status = "queued"
    BY <1>0, <1>2, <2>2
    DEF Insert, InsertFails, NewRow, IInv, TypeOK, OnceInv, QueuedInv
  <2> QED
    BY <2>2, <2>3, <2>4, <2>5, QuietOnce
<1>3. ASSUME NEW j \in Jobs, Add(o, j) PROVE OnceInv'
  <2>1. /\ job[j].state = "none"
        /\ job' = [job EXCEPT ![j] = NewJob(o)]
        /\ request[o] = "adding"
        /\ request' = [request EXCEPT ![o] = "responding"]
        /\ UNCHANGED <<row, lock, slot, marking>>
    BY <1>3 DEF Add
  <2>2. /\ NewJob(o).state = "waiting"
        /\ NewJob(o).order = o
        /\ NewJob(o).stalled = 0
    BY DEF NewJob, NoJob
  <2>3. /\ job'[j] = NewJob(o)
        /\ \A i \in Jobs \ {j} : job'[i] = job[i]
    BY <2>1 DEF IInv, TypeOK
  <2>4. \A s \in Slots : slot[s].pc # "idle" => slot[s].job \in Jobs \ {j}
    BY <2>1, BusySlot
  <2>5. \A w \in Workers : \A i \in marking[w] : i \in Jobs \ {j}
    BY <2>1, MarkedJob
  <2>6. lock[j] = None
    BY <2>1 DEF IInv, LockInv
  <2>7. HeldInv'
    BY <2>1, <2>2, <2>3, <2>6 DEF OnceInv, HeldInv, HoldsLock
  <2>8. SingleInv'
    <3>1. \A i \in Jobs : job[i].state # "none" => job[i].order \in Orders \ {o}
      BY <2>1 DEF OnceInv, SingleInv, IInv, OrderInv
    <3> QED
      BY <1>0, <2>1, <2>2, <2>3, <3>1 DEF OnceInv, SingleInv
  <2>9. LastInv'
    BY <2>1 DEF OnceInv, LastInv, LastWord
  <2>10. QueuedInv'
    <3>1. row[o].status = "queued"
      BY <2>1 DEF OnceInv, QueuedInv
    <3>2. \A p \in Orders : request'[p] = "adding" => request[p] = "adding"
      BY <1>0, <2>1
    <3> QED
      BY <3>2, <2>1, <2>2, <2>3, <2>4, <2>5, <3>1
      DEF OnceInv, QueuedInv, Unsettled, LastWord, OrderOf
  <2> QED
    BY <2>7, <2>8, <2>9, <2>10 DEF OnceInv
<1>4. ASSUME NEW j \in Jobs, AddResent(o, j) PROVE FALSE
  BY <1>4 DEF AddResent, Fault, DeliveredOnce
<1> QED
  BY <1>1, <1>2, <1>3, <1>4 DEF ApiStep

(* A pricing call that is cut leaves its attempt to fail.                   *)
LEMMA CrashOnce ==
    ASSUME IInv, OnceInv, ApiCrash
    PROVE  OnceInv'
<1>1. /\ UNCHANGED <<row, job, lock, marking>>
      /\ \A o \in Orders :
           request'[o] \in {"none", "inserting", "adding"} => request'[o] = request[o]
  BY DEF ApiCrash, InFlight, queueVars
<1>2. ASSUME NEW s \in Slots
      PROVE  /\ slot'[s].job = slot[s].job
             /\ slot'[s].attemptsMade = slot[s].attemptsMade
             /\ \/ slot'[s].pc = slot[s].pc
                \/ slot[s].pc = "quoting" /\ slot'[s].pc = "failing"
  <2>1. slot[s] \in SlotType
    BY DEF IInv, TypeOK
  <2> QED
    BY <2>1 DEF ApiCrash, SlotType, IdleSlot
<1>3. HeldInv'
  BY <1>1, <1>2 DEF OnceInv, HeldInv, HoldsLock, Working, IInv, TypeOK
<1>4. SingleInv'
  BY <1>1 DEF OnceInv, SingleInv, IInv, OrderInv
<1>5. LastInv'
  BY <1>1, <1>2 DEF OnceInv, LastInv, LastWord
<1>6. QueuedInv'
  BY <1>1, <1>2 DEF OnceInv, QueuedInv, Unsettled, LastWord, OrderOf
<1> QED
  BY <1>3, <1>4, <1>5, <1>6 DEF OnceInv

(* No lock is lost and no job stalls: the queue only ends delays.           *)
LEMMA QueueOnce ==
    ASSUME IInv, OnceInv, DeliveredOnce, NEW j \in Jobs, QueueStep(j)
    PROVE  OnceInv'
<1>1. Promote(j)
  BY DEF QueueStep, LockExpires, LockLost, StalledCheck, Fault, DeliveredOnce,
         OnceInv, HeldInv
<1>2. /\ job[j].state = "delayed"
      /\ job' = [job EXCEPT ![j].state = "waiting"]
      /\ UNCHANGED <<request, row, lock, slot, marking>>
  BY <1>1 DEF Promote, apiVars, workerVars
<1>3. /\ job'[j].state = "waiting"
      /\ \A i \in Jobs : /\ i # j => job'[i] = job[i]
                         /\ job'[i].order = job[i].order
                         /\ job'[i].stalled = job[i].stalled
  BY <1>2 DEF IInv, TypeOK, JobType
<1>4. lock[j] = None
  BY <1>2 DEF IInv, LockInv
<1>5. HeldInv'
  BY <1>2, <1>3, <1>4 DEF OnceInv, HeldInv, HoldsLock
<1>6. SingleInv'
  BY <1>2, <1>3 DEF OnceInv, SingleInv
<1>7. LastInv'
  BY <1>2 DEF OnceInv, LastInv, LastWord
<1>8. QueuedInv'
  <2>1. \A s \in Slots : Unsettled(s) => slot[s].job \in Jobs
    BY BusySlot DEF Unsettled, LastWord
  <2>2. \A w \in Workers : \A i \in marking[w] : i \in Jobs
    BY MarkedJob
  <2> QED
    BY <1>2, <1>3, <2>1, <2>2 DEF OnceInv, QueuedInv, Unsettled, LastWord, OrderOf
<1> QED
  BY <1>5, <1>6, <1>7, <1>8 DEF OnceInv

(* A lane takes a job that nobody else works on.                            *)
LEMMA PickUpOnce ==
    ASSUME IInv, OnceInv, NEW s \in Slots, NEW j \in Jobs, PickUp(s, j)
    PROVE  OnceInv'
<1>1. JobStarted(j, s)
  BY PickUpStarts DEF IInv
<1>2. /\ UNCHANGED <<request, row, marking>>
      /\ job[j].state = "waiting"
      /\ slot[s].pc = "idle"
      /\ \A i \in Jobs \ {j} : job'[i] = job[i] /\ lock'[i] = lock[i]
      /\ \A t \in Slots \ {s} : slot'[t] = slot[t]
  BY DEF PickUp, apiVars, IInv, TypeOK
<1>3. /\ lock'[j] = s /\ s # None
      /\ slot'[s].job = j
      /\ slot'[s].pc = "quoting"
      /\ job'[j].state = "active"
      /\ job'[j].order = job[j].order
      /\ job'[j].stalled = job[j].stalled
  <2>1. job[j] \in JobType /\ ~(job[j].stalled > MaxStalled)
    BY ConstantsAssumption DEF IInv, TypeOK, OnceInv, HeldInv
  <2> QED
    BY <1>1, <2>1, ConstantsAssumption DEF JobStarted, JobType
<1>4. ASSUME NEW t \in Slots, slot[t].pc \in Working \/ LastWord(t)
      PROVE  slot[t].job \in Jobs \ {j}
  BY <1>2, <1>4, BusySlot, SlotJob DEF Working, LastWord
<1>5. \A w \in Workers : \A i \in marking[w] : i \in Jobs \ {j}
  BY <1>2, MarkedJob
<1>6. HeldInv'
  <2>1. \A i \in Jobs \ {j} : lock[i] # s
    BY <1>2, <1>3 DEF OnceInv, HeldInv, Working
  <2> QED
    BY <1>2, <1>3, <1>4, <2>1 DEF OnceInv, HeldInv, HoldsLock, Working, IInv, TypeOK
<1>7. SingleInv'
  BY <1>2, <1>3 DEF OnceInv, SingleInv
<1>8. LastInv'
  BY <1>2, <1>3 DEF OnceInv, LastInv, LastWord
<1>9. QueuedInv'
  <2>1. ASSUME NEW t \in Slots, Unsettled(t)'
        PROVE  row[job'[slot'[t].job].order].status = "queued"
    <3>1. CASE t = s
      BY <1>2, <1>3, <3>1 DEF OnceInv, QueuedInv
    <3>2. CASE t # s
      BY <1>2, <1>4, <2>1, <3>2
      DEF OnceInv, QueuedInv, Unsettled, LastWord, OrderOf, Working
    <3> QED
      BY <3>1, <3>2
  <2> QED
    BY <1>2, <1>3, <1>5, <2>1 DEF OnceInv, QueuedInv, OrderOf
<1> QED
  BY <1>6, <1>7, <1>8, <1>9 DEF OnceInv

(* A lane that works on stays the only one that can settle its order; past  *)
(* the UPDATE there is nothing left to settle.                              *)
LEMMA WorkOnce ==
    ASSUME IInv, OnceInv, NEW s \in Slots, NEW pc \in Working,
           UNCHANGED <<request, job, lock, marking>>, Goto(s, pc),
           slot[s].pc \in Working \ {"refusing"},
           \/ /\ UNCHANGED row
              /\ pc \in {"quoting", "writing", "failing"} => Unsettled(s)
           \/ /\ row' = MarkedPriced(OrderOf(s))
              /\ pc = "summarising"
    PROVE  OnceInv'
<1>1. /\ slot'[s].job = slot[s].job
      /\ slot'[s].pc = pc
      /\ \A t \in Slots \ {s} : slot'[t] = slot[t]
  BY DEF Goto, IInv, TypeOK, SlotType, IdleSlot, Working
<1>2. /\ slot[s].job \in Jobs
      /\ OrderOf(s) \in Orders
      /\ job[slot[s].job].state = "active"
      /\ lock[slot[s].job] = s
  BY BusySlot, SlotJob DEF OnceInv, HeldInv, HoldsLock, Working
<1>3. HeldInv'
  BY <1>1 DEF OnceInv, HeldInv, HoldsLock, IInv, TypeOK
<1>4. SingleInv'
  BY DEF OnceInv, SingleInv
<1>5. LastInv'
  BY <1>1 DEF OnceInv, LastInv, LastWord, Working
<1>6. \A o \in Orders : o # OrderOf(s) => row'[o] = row[o]
  BY DEF MarkedPriced, IInv, TypeOK
<1>7. ASSUME NEW j \in Jobs, job[j].state # "none", j # slot[s].job
      PROVE  row'[job[j].order] = row[job[j].order]
  BY <1>2, <1>6, <1>7 DEF OnceInv, SingleInv, OrderOf, IInv, OrderInv
<1>8. ASSUME NEW t \in Slots \ {s}, Unsettled(t) PROVE slot[t].job # slot[s].job
  BY <1>2, <1>8, SlotJob DEF OnceInv, HeldInv, HoldsLock, Unsettled, Working
<1>9. QueuedInv'
  <2>1. ASSUME NEW o \in Orders, request[o] = "adding" PROVE row'[o].status = "queued"
    BY <1>2, <1>6, <2>1 DEF OnceInv, QueuedInv, SingleInv, OrderOf
  <2>2. ASSUME NEW j \in Jobs, job[j].state \in {"waiting", "delayed"}
        PROVE  row'[job[j].order].status = "queued"
    BY <1>2, <1>7, <2>2 DEF OnceInv, QueuedInv
  <2>3. ASSUME NEW t \in Slots, Unsettled(t)' PROVE row'[OrderOf(t)'].status = "queued"
    <3>1. CASE t = s
      BY <1>1, <2>3, <3>1 DEF OnceInv, QueuedInv, Unsettled, LastWord, OrderOf, Working
    <3>2. CASE t # s
      <4>1. Unsettled(t) /\ OrderOf(t)' = OrderOf(t)
        BY <1>1, <2>3, <3>2 DEF Unsettled, LastWord, OrderOf
      <4>2. slot[t].job \in Jobs \ {slot[s].job} /\ job[slot[t].job].state # "none"
        BY <1>8, <3>2, <4>1, BusySlot DEF Unsettled, LastWord
      <4> QED
        BY <1>7, <4>1, <4>2 DEF OnceInv, QueuedInv, OrderOf
    <3> QED
      BY <3>1, <3>2
  <2>4. ASSUME NEW w \in Workers, NEW j \in marking[w]
        PROVE  row'[job[j].order].status = "queued"
    BY <1>2, <1>7, <2>4, MarkedJob DEF OnceInv, QueuedInv
  <2> QED
    BY <2>1, <2>2, <2>3, <2>4 DEF QueuedInv
<1> QED
  BY <1>3, <1>4, <1>5, <1>9 DEF OnceInv

(* A lane that lets go of an event or is done with a job it does not hold   *)
(* leaves nothing new to settle.                                            *)
LEMMA ReleaseOnce ==
    ASSUME IInv, OnceInv, NEW s \in Slots, slot[s].pc = "notifying", Release(s),
           UNCHANGED <<request, row, job, lock>>,
           \A w \in Workers : \A j \in marking'[w] :
               j \in marking[w] \/ (w = s[1] /\ j = slot[s].job /\ LastWord(s))
    PROVE  OnceInv'
<1>1. /\ slot'[s].pc = "idle"
      /\ \A t \in Slots \ {s} : slot'[t] = slot[t]
  BY DEF Release, IdleSlot, IInv, TypeOK
<1>2. HeldInv'
  BY <1>1 DEF OnceInv, HeldInv, HoldsLock, Working, IInv, TypeOK
<1>3. SingleInv'
  BY DEF OnceInv, SingleInv
<1>4. LastInv'
  <2>1. \A t \in Slots : LastWord(t)' => t # s /\ LastWord(t)
    BY <1>1 DEF LastWord
  <2>2. \A t \in Slots : t # s /\ LastWord(t) => slot'[t].job = slot[t].job
    BY <1>1
  <2>3. ASSUME NEW t \in Slots, NEW w \in Workers, LastWord(t)'
        PROVE  slot'[t].job \notin marking'[w]
    BY <2>1, <2>2, <2>3 DEF OnceInv, LastInv
  <2>4. ASSUME NEW w \in Workers, NEW v \in Workers, w # v
        PROVE  marking'[w] \cap marking'[v] = {}
    BY <2>4 DEF OnceInv, LastInv
  <2> QED
    BY <2>1, <2>2, <2>3, <2>4 DEF OnceInv, LastInv
<1>5. QueuedInv'
  <2>1. ASSUME NEW t \in Slots, Unsettled(t)' PROVE row[OrderOf(t)'].status = "queued"
    BY <1>1, <2>1 DEF OnceInv, QueuedInv, Unsettled, LastWord, OrderOf
  <2>2. ASSUME NEW w \in Workers, NEW j \in marking'[w]
        PROVE  row[job[j].order].status = "queued"
    BY <2>2 DEF OnceInv, QueuedInv, Unsettled, OrderOf
  <2> QED
    BY <2>1, <2>2 DEF OnceInv, QueuedInv
<1> QED
  BY <1>2, <1>3, <1>4, <1>5 DEF OnceInv

(* The holder of the lock reports the outcome: the job waits for another    *)
(* attempt, or one event is left to have the last word, or nothing is.      *)
LEMMA FinishOnce ==
    ASSUME IInv, OnceInv, NEW s \in Slots, Complete(s) \/ MoveToFailed(s)
    PROVE  OnceInv'
<1> DEFINE j == slot[s].job
<1>1. HoldsLock(s) /\ slot[s].pc \in {"completing", "failing", "refusing"}
  BY DEF Complete, MoveToFailed, OnceInv, HeldInv, Working
<1>2. j \in Jobs /\ JobFinished(j, s)
  BY <1>1, HolderFinishes DEF IInv
<1>3. /\ job[j].state = "active"
      /\ job[j].order \in Orders
      /\ job[j] \in JobType
      /\ slot[s].attemptsMade = job[j].attemptsMade
      /\ job[j].stalled = 0
  BY <1>1, <1>2, SlotJob, BusySlot
  DEF Working, OrderOf, IInv, TypeOK, HolderInv, OnceInv, HeldInv
<1>4. slot[s].pc # "refusing"
  BY <1>1, <1>3, ConstantsAssumption DEF IInv, HolderInv, Working
<1>5. /\ UNCHANGED <<request, row, marking>>
      /\ \A i \in Jobs \ {j} : job'[i] = job[i] /\ lock'[i] = lock[i]
      /\ \A t \in Slots \ {s} : slot'[t] = slot[t]
  BY <1>1 DEF Complete, MoveToFailed, Release, apiVars, IInv, TypeOK
<1>6. /\ job'[j].order = job[j].order
      /\ job'[j].stalled = 0
      /\ lock'[j] = None
      /\ job'[j].state \in {"completed", "delayed", "failed"}
      /\ job'[j].state = "delayed" => slot[s].pc = "failing" /\ Retryable(s)
  BY <1>2, <1>3, <1>4 DEF JobFinished, JobType, AfterFailure
<1>7. /\ slot'[s].pc \in {"idle", "notifying"}
      /\ slot'[s].pc = "notifying" =>
           /\ slot[s].pc = "failing"
           /\ slot'[s].job = j
           /\ slot'[s].attemptsMade = slot[s].attemptsMade + 1
  BY <1>2, <1>4, FinishedSlot DEF IInv, IdleSlot
<1>8. job'[j].state = "delayed" => ~LastWord(s)'
  BY <1>3, <1>6, <1>7, ConstantsAssumption
  DEF Retryable, LastWord, Exhausted, JobType
<1>9. ASSUME NEW t \in Slots \ {s}, slot[t].pc \in Working \/ LastWord(t)
      PROVE  slot[t].job \in Jobs \ {j}
  <2>1. slot[t].job \in Jobs
    BY <1>9, BusySlot DEF Working, LastWord
  <2>2. CASE slot[t].pc \in Working
    BY <1>1, <2>1, <2>2 DEF OnceInv, HeldInv, HoldsLock
  <2>3. CASE LastWord(t)
    BY <1>3, <2>1, <2>3, SlotJob
  <2> QED
    BY <1>9, <2>2, <2>3
<1>10. \A w \in Workers : \A i \in marking[w] : i \in Jobs \ {j}
  BY <1>3, MarkedJob
<1>11. HeldInv'
  <2>1. \A i \in Jobs \ {j} : lock[i] # s
    BY ConstantsAssumption DEF OnceInv, HeldInv
  <2>2. \A t \in Slots : slot'[t].pc \in Working => t # s
    BY <1>7 DEF Working
  <2>3. \A i \in Jobs : /\ job'[i].stalled = 0
                        /\ job'[i].state = "active" => lock'[i] # None
    BY <1>5, <1>6 DEF OnceInv, HeldInv
  <2>4. ASSUME NEW i \in Jobs, lock'[i] # None
        PROVE  slot'[lock'[i]].job = i /\ slot'[lock'[i]].pc \in Working
    BY <1>5, <1>6, <2>1, <2>4 DEF OnceInv, HeldInv, IInv, TypeOK
  <2>5. ASSUME NEW t \in Slots, slot'[t].pc \in Working
        PROVE  HoldsLock(t)'
    BY <1>5, <1>9, <2>2, <2>5 DEF OnceInv, HeldInv, HoldsLock
  <2> QED
    BY <2>3, <2>4, <2>5 DEF HeldInv
<1>12. SingleInv'
  BY <1>3, <1>5, <1>6 DEF OnceInv, SingleInv
<1>13. LastInv'
  <2>1. ASSUME NEW t \in Slots, LastWord(t)', t # s
        PROVE  LastWord(t) /\ slot'[t].job # j /\ slot'[t] = slot[t]
    BY <1>5, <1>9, <2>1 DEF LastWord
  <2>2. LastWord(s)' => slot'[s].job = j
    BY <1>7 DEF LastWord
  <2> QED
    BY <1>5, <1>10, <2>1, <2>2 DEF OnceInv, LastInv
<1>14. QueuedInv'
  <2>1. slot[s].pc = "failing" => row[job[j].order].status = "queued"
    BY DEF OnceInv, QueuedInv, Unsettled, OrderOf
  <2>2. ASSUME NEW i \in Jobs, job'[i].state \in {"waiting", "delayed"}
        PROVE  row'[job'[i].order].status = "queued"
    BY <1>5, <1>6, <2>1, <2>2 DEF OnceInv, QueuedInv
  <2>3. ASSUME NEW t \in Slots, Unsettled(t)' PROVE row'[OrderOf(t)'].status = "queued"
    <3>1. CASE t = s
      BY <1>5, <1>6, <1>7, <2>1, <2>3, <3>1 DEF Unsettled, LastWord, OrderOf
    <3>2. CASE t # s
      <4>1. slot'[t] = slot[t] /\ Unsettled(t)
        BY <1>5, <2>3, <3>2 DEF Unsettled, LastWord
      <4>2. slot[t].job \in Jobs \ {j}
        BY <1>9, <3>2, <4>1 DEF Unsettled, Working
      <4> QED
        BY <1>5, <4>1, <4>2 DEF OnceInv, QueuedInv, OrderOf
    <3> QED
      BY <3>1, <3>2
  <2>4. ASSUME NEW w \in Workers, NEW i \in marking'[w]
        PROVE  row'[job'[i].order].status = "queued"
    BY <1>5, <1>10, <2>4 DEF OnceInv, QueuedInv
  <2> QED
    BY <1>5, <2>2, <2>3, <2>4 DEF OnceInv, QueuedInv
<1> QED
  BY <1>11, <1>12, <1>13, <1>14 DEF OnceInv

(* Once the last call has marked the row there is no other.                 *)
LEMMA MarkOnce ==
    ASSUME IInv, OnceInv, NEW w \in Workers, NEW j \in Jobs, MarkFailed(w, j)
    PROVE  OnceInv'
<1>1. /\ j \in marking[w]
      /\ row' = MarkedFailed(job[j].order)
      /\ marking' = [marking EXCEPT ![w] = @ \ {j}]
      /\ UNCHANGED <<request, job, lock, slot>>
  BY DEF MarkFailed, apiVars, queueVars
<1>2. job[j].state = "failed" /\ job[j].order \in Orders
  BY <1>1, MarkedJob
<1>3. \A o \in Orders : o # job[j].order => row'[o] = row[o]
  BY <1>1 DEF MarkedFailed, IInv, TypeOK
<1>4. ASSUME NEW i \in Jobs, job[i].state # "none", i # j
      PROVE  row'[job[i].order] = row[job[i].order]
  BY <1>2, <1>3, <1>4 DEF OnceInv, SingleInv, IInv, OrderInv
<1>5. /\ marking'[w] = marking[w] \ {j}
      /\ \A v \in Workers \ {w} : marking'[v] = marking[v]
  BY <1>1 DEF IInv, TypeOK
<1>6. HeldInv'
  BY <1>1 DEF OnceInv, HeldInv, HoldsLock
<1>7. SingleInv'
  BY <1>1 DEF OnceInv, SingleInv
<1>8. LastInv'
  BY <1>1, <1>5 DEF OnceInv, LastInv, LastWord
<1>9. QueuedInv'
  <2>1. ASSUME NEW o \in Orders, request[o] = "adding" PROVE row'[o].status = "queued"
    BY <1>2, <1>3, <2>1 DEF OnceInv, QueuedInv, SingleInv
  <2>2. ASSUME NEW i \in Jobs, job[i].state \in {"waiting", "delayed"}
        PROVE  row'[job[i].order].status = "queued"
    BY <1>2, <1>4, <2>2 DEF OnceInv, QueuedInv
  <2>3. ASSUME NEW t \in Slots, Unsettled(t) PROVE row'[OrderOf(t)].status = "queued"
    <3>1. slot[t].job \in Jobs /\ job[slot[t].job].state # "none"
      BY <2>3, BusySlot DEF Unsettled, LastWord
    <3>2. slot[t].job # j
      BY <1>1, <1>2, <2>3, SlotJob DEF Unsettled, Working, OnceInv, LastInv
    <3> QED
      BY <1>4, <2>3, <3>1, <3>2 DEF OnceInv, QueuedInv, OrderOf
  <2>4. ASSUME NEW v \in Workers, NEW i \in marking'[v]
        PROVE  row'[job[i].order].status = "queued"
    <3>1. i \in marking[v] /\ i # j
      BY <1>1, <1>5, <2>4 DEF OnceInv, LastInv
    <3>2. i \in Jobs /\ job[i].state # "none"
      BY <3>1, MarkedJob
    <3> QED
      BY <1>4, <3>1, <3>2 DEF OnceInv, QueuedInv
  <2> QED
    BY <1>1, <2>1, <2>2, <2>3, <2>4
    DEF QueuedInv, Unsettled, LastWord, OrderOf
<1> QED
  BY <1>6, <1>7, <1>8, <1>9 DEF OnceInv

(* Every step of a lane, and of a worker process that does not die.         *)
LEMMA SlotOnce ==
    ASSUME IInv, OnceInv, DeliveredOnce, NEW s \in Slots, SlotStep(s)
    PROVE  OnceInv'
<1> USE DEF apiVars, queueVars
<1>1. CASE QuoteOk(s)
  BY <1>1, WorkOnce DEF QuoteOk, Working, Unsettled
<1>2. CASE QuoteFails(s) \/ QuoteBroken(s)
  BY <1>2, WorkOnce DEF QuoteFails, QuoteBroken, Working, Unsettled
<1>3. CASE WritePriced(s)
  BY <1>3, WorkOnce DEF WritePriced, Working
<1>4. CASE Summarise(s)
  BY <1>4, WorkOnce DEF Summarise, AfterSummary, Working
<1>5. CASE FailedEvent(s)
  <2>1. s[1] \in Workers
    BY DEF Slots
  <2>2. \A w \in Workers : \A j \in marking'[w] :
            j \in marking[w] \/ (w = s[1] /\ j = slot[s].job /\ LastWord(s))
    BY <1>5, <2>1 DEF FailedEvent, LastWord, IInv, TypeOK
  <2> QED
    BY <1>5, <2>2, ReleaseOnce DEF FailedEvent
<1>6. CASE FailedEventLost(s)
  BY <1>6, ReleaseOnce DEF FailedEventLost
<1>7. ~WriteFails(s)
  BY DEF WriteFails, Fault, DeliveredOnce
<1> QED
  BY <1>1, <1>2, <1>3, <1>4, <1>5, <1>6, <1>7, PickUpOnce, FinishOnce DEF SlotStep

LEMMA WorkerOnce ==
    ASSUME IInv, OnceInv, DeliveredOnce, NEW w \in Workers, WorkerStep(w)
    PROVE  OnceInv'
<1>1. ASSUME WorkerRestart(w) PROVE OnceInv'
  BY <1>1, QuietOnce DEF WorkerRestart, apiVars, queueVars, OnceInv, QueuedInv
<1> QED
  BY <1>1, MarkOnce
  DEF WorkerStep, WorkerCrash, MarkFailedFails, Fault, DeliveredOnce

(* OnceInv holds initially and is kept by every step.                       *)
LEMMA OnceInvariant ==
    ASSUME DeliveredOnce
    PROVE  Spec => []OnceInv
<1>1. Init => OnceInv
  BY DEF Init, OnceInv, HeldInv, SingleInv, LastInv, QueuedInv, LastWord,
         Unsettled, NoJob, IdleSlot, Working
<1>2. IInv /\ OnceInv /\ [Next]_vars => OnceInv'
  <2> SUFFICES ASSUME IInv, OnceInv, [Next]_vars PROVE OnceInv'
    OBVIOUS
  <2>1. CASE UNCHANGED vars \/ ApiRestart
    BY <2>1, QuietOnce
    DEF vars, ApiRestart, queueVars, workerVars, OnceInv, QueuedInv
  <2> QED
    BY <2>1, ApiOnce, CrashOnce, QueueOnce, SlotOnce, WorkerOnce DEF Next
<1> QED
  BY <1>1, <1>2, Invariant, PTL DEF Spec

(* Where no attempt is repeated, no job sent twice and no UPDATE lost, an   *)
(* order settles once and for all: the row is created, and then priced with *)
(* its total or failed, and no later step of any process moves it again.    *)
THEOREM RefinesOnce ==
    ASSUME DeliveredOnce
    PROVE  Spec => SettlesOnce
<1>1. Init => Once!Init
  BY DEF Init, NoRow, Accepted, Once!Init
<1>2. IInv /\ OnceInv /\ [Next]_vars => [Once!Next]_(Once!vars)
  <2> SUFFICES ASSUME IInv, OnceInv, [Next]_vars PROVE [Once!Next]_(Once!vars)
    OBVIOUS
  <2>1. CASE UNCHANGED <<row, request>>
    BY <2>1 DEF Accepted, Once!vars
  <2>2. CASE ApiCrash
    <3>1. Accepted' = Accepted /\ UNCHANGED row
      BY <2>2 DEF ApiCrash, Accepted, InFlight, IInv, TypeOK
    <3> QED
      BY <3>1 DEF Once!vars
  <2>3. ASSUME NEW o \in Orders, ApiStep(o) PROVE [Once!Next]_(Once!vars)
    BY <2>3, ApiRefines
    DEF AtLeastOnce!Create, AtLeastOnce!Accept, Once!Create, Once!Accept,
        Once!Next, Once!vars
  <2>4. ASSUME NEW s \in Slots, WritePriced(s) PROVE [Once!Next]_(Once!vars)
    <3>1. slot[s].pc = "writing" /\ UNCHANGED request
      BY <2>4 DEF WritePriced, apiVars
    <3>2. OrderOf(s) \in Orders \ FailSkus
      BY <3>1, BusySlot DEF IInv, WriteInv
    <3>3. row[OrderOf(s)].status = "queued"
      BY <3>1 DEF OnceInv, QueuedInv, Unsettled
    <3>4. Once!Price(OrderOf(s))
      BY <2>4, <3>1, <3>2, <3>3
      DEF WritePriced, MarkedPriced, Accepted, Once!Price, Once!Open
    <3> QED
      BY <3>2, <3>4 DEF Once!Next
  <2>5. ASSUME NEW w \in Workers, NEW j \in Jobs, MarkFailed(w, j)
        PROVE  [Once!Next]_(Once!vars)
    <3>1. j \in marking[w] /\ UNCHANGED request
      BY <2>5 DEF MarkFailed, apiVars
    <3>2. job[j].order \in Orders
      BY <3>1, MarkedJob
    <3>3. row[job[j].order].status = "queued"
      BY <3>1 DEF OnceInv, QueuedInv
    <3>4. Once!GiveUp(job[j].order)
      BY <2>5, <3>1, <3>2, <3>3
      DEF MarkFailed, MarkedFailed, Accepted, Once!GiveUp, Once!Open
    <3> QED
      BY <3>2, <3>4 DEF Once!Next
  <2>6. \A s \in Slots : ~WriteFails(s)
    BY DEF WriteFails, Fault, DeliveredOnce
  <2> QED
    BY <2>1, <2>2, <2>3, <2>4, <2>5, <2>6, RowSteps
<1> QED
  BY <1>1, <1>2, Invariant, OnceInvariant, PTL DEF Spec, SettlesOnce, Once!Spec

=============================================================================
