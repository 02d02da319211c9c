-------------------------- MODULE HttpMetricsProofs --------------------------
(***************************************************************************)
(* Theorems about HttpMetrics: what the gauge and the histogram of the     *)
(* middleware count, for any number of requests and connections, whatever  *)
(* is asked for and however PostgreSQL and Redis fail.                     *)
(***************************************************************************)
EXTENDS HttpMetrics, FoldLemmas

(* The pool never has more clients than its maximum.                        *)
PoolInv == idle + Cardinality(querying) <= PoolMax

(* A request that arrived asks for something, and one that was routed has   *)
(* the route of what it asks for.                                           *)
RouteInv ==
    \A r \in Requests :
        /\ request[r] # "none" => question[r] \in Questions
        /\ request[r] \in {"routed", "answered", "done"} /\ r \notin leaked =>
             route[r] = Route[question[r].kind]
        /\ request[r] \in {"answered", "done"} /\ r \notin leaked =>
             status[r] \in Statuses

(* An aborted request had arrived, and never waits for its 'finish'.        *)
LeakInv == \A r \in leaked : request[r] \in {"arrived", "routed", "done"}

Open == Handled \cup leaked

GaugeInv == inFlight = Cardinality(Open)

IInv ==
    /\ TypeOK
    /\ PoolInv /\ RouteInv /\ LeakInv

-----------------------------------------------------------------------------
LEMMA RouteValues ==
  ASSUME NEW q \in Questions
  PROVE  Route[q.kind] \in {"none"} \cup Labels
  BY ConstantsAssumption DEF Route, Labels

LEMMA AnswerValues ==
  ASSUME NEW q \in Questions, NEW errors
  PROVE  Answers(q, errors) \subseteq Statuses
  BY ConstantsAssumption DEF Answers, Statuses, Route

LEMMA NeedsServices ==
  ASSUME NEW q \in Questions
  PROVE  Needs(q) \subseteq Service
  BY ConstantsAssumption DEF Needs, Service, Route

-----------------------------------------------------------------------------
(* The pool: taking, making and giving back a client keeps their number     *)
(* within PoolMax.                                                          *)

LEMMA QueryingFinite ==
  ASSUME BackendsTypeOK
  PROVE  /\ IsFiniteSet(querying)
         /\ Cardinality(querying) \in Nat
         /\ \A r : IsFiniteSet(querying \cup {r})
         /\ \A r : Cardinality(querying \cup {r}) =
                    IF r \in querying THEN Cardinality(querying)
                    ELSE Cardinality(querying) + 1
         /\ \A r : Cardinality(querying \ {r}) =
                    IF r \in querying THEN Cardinality(querying) - 1
                    ELSE Cardinality(querying)
  BY PoolAssumption, FS_Subset, FS_CardinalityType, FS_AddElement,
     FS_RemoveElement DEF BackendsTypeOK

LEMMA QueryKept ==
  ASSUME BackendsTypeOK, PoolInv, NEW r \in Requests, Query(r)
  PROVE  BackendsTypeOK' /\ PoolInv'
  <1>1. r \notin querying /\ UNCHANGED <<up, services>>
    BY DEF Query, Waiting
  <1>2. /\ idle' \in 0 .. PoolMax
        /\ PoolInv'
    BY <1>1, QueryingFinite, PoolAssumption
       DEF Query, Connectable, BackendsTypeOK, PoolInv
  <1>3. /\ querying' \subseteq Requests
        /\ awaiting' \in [Requests -> SUBSET Service]
        /\ failed' \in [Requests -> SUBSET Service]
    BY DEF Query, BackendsTypeOK, Service
  <1>4. QED BY <1>1, <1>2, <1>3 DEF BackendsTypeOK, services

LEMMA AnsweredKept ==
  ASSUME BackendsTypeOK, PoolInv, NEW r \in Requests,
         NEW more \in SUBSET Service, Answered(r, more)
  PROVE  BackendsTypeOK' /\ PoolInv'
  <1>1. idle' = idle + 1 /\ r \in querying
    BY DEF Answered
  <1>2. Cardinality(querying') = Cardinality(querying) - 1
    BY <1>1, QueryingFinite DEF Answered
  <1>3. idle \in Nat /\ Cardinality(querying) \in Nat /\ PoolMax \in Nat
    BY QueryingFinite, PoolAssumption DEF BackendsTypeOK
  <1>4. Cardinality(querying') \in Nat
    BY QueryingFinite, FS_CardinalityType, FS_Subset DEF Answered
  <1>5. idle' \in 0 .. PoolMax /\ PoolInv'
    BY <1>1, <1>2, <1>3, <1>4 DEF PoolInv
  <1>6. QED BY <1>5 DEF Answered, BackendsTypeOK, services

LEMMA RedisRepliesKept ==
  ASSUME BackendsTypeOK, PoolInv, NEW r \in Requests, RedisReplies(r)
  PROVE  BackendsTypeOK' /\ PoolInv'
  BY DEF RedisReplies, BackendsTypeOK, PoolInv, services, Service

LEMMA OutagesKept ==
  ASSUME BackendsTypeOK, PoolInv, Outages \/ IdleTimeout
  PROVE  BackendsTypeOK' /\ PoolInv'
  <1>1. CASE PostgresStops
    <2>1. /\ awaiting' \in [Requests -> SUBSET Service]
          /\ failed' \in [Requests -> SUBSET Service]
      BY <1>1 DEF PostgresStops, BackendsTypeOK, Service
    <2>2. querying' = querying \/ querying' = {}
      BY <1>1 DEF PostgresStops
    <2>3. PoolInv'
      BY <1>1, <2>2, PoolAssumption, FS_EmptySet
         DEF PostgresStops, BackendsTypeOK, PoolInv
    <2>4. QED BY <1>1, <2>1, <2>2, <2>3 DEF PostgresStops, BackendsTypeOK
  <1>2. CASE PostgresStarts
    BY <1>2 DEF PostgresStarts, BackendsTypeOK, PoolInv
  <1>3. CASE RedisStops \/ RedisStarts
    BY <1>3 DEF RedisStops, RedisStarts, BackendsTypeOK, PoolInv
  <1>4. CASE IdleTimeout
    BY <1>4, QueryingFinite, PoolAssumption
       DEF IdleTimeout, BackendsTypeOK, PoolInv, services
  <1>5. QED BY <1>1, <1>2, <1>3, <1>4 DEF Outages

-----------------------------------------------------------------------------
LEMMA InitIInv == Init => IInv /\ GaugeInv /\ EveryResponseCounted
  <1> SUFFICES ASSUME Init PROVE IInv /\ GaugeInv /\ EveryResponseCounted
    OBVIOUS
  <1>1. IInv
    BY FS_EmptySet, PoolAssumption
       DEF Init, BackendsInit, IInv, TypeOK, BackendsTypeOK, PoolInv, RouteInv,
           LeakInv, Service
  <1>2. Open = {} /\ \A l \in Labels, s \in Statuses : Finished(l, s) = {}
    BY DEF Init, Open, Handled, Finished
  <1>3. QED
    BY <1>1, <1>2, FS_EmptySet DEF Init, GaugeInv, EveryResponseCounted

(* What the handlers and the services do leaves the middleware alone.       *)
LEMMA ServiceStepIInv ==
  ASSUME IInv, Environment \/ \E r \in Requests : Awaits(r)
  PROVE  IInv'
  <1>1. BackendsTypeOK /\ PoolInv
    BY DEF IInv, TypeOK
  <1>2. CASE Environment
    <2>1. BackendsTypeOK' /\ PoolInv'
      BY <1>1, <1>2, OutagesKept DEF Environment
    <2>2. QED BY <1>2, <2>1 DEF Environment, IInv, TypeOK, RouteInv, LeakInv, metrics
  <1>3. ASSUME NEW r \in Requests, Awaits(r) PROVE IInv'
    <2>1. BackendsTypeOK' /\ PoolInv'
      BY <1>1, <1>3, QueryKept, AnsweredKept, RedisRepliesKept
         DEF Awaits, Queried, Service
    <2>2. QED BY <1>3, <2>1 DEF Awaits, IInv, TypeOK, RouteInv, LeakInv, metrics
  <1>4. QED BY <1>2, <1>3

RequestStep(r) == Arrive(r) \/ Routed(r) \/ Answer(r) \/ Finish(r) \/ HangUp(r)

LEMMA RequestStepIInv ==
  ASSUME IInv, NEW r \in Requests, RequestStep(r)
  PROVE  IInv'
  <1> USE DEF IInv, TypeOK, BackendsTypeOK, PoolInv, RouteInv, LeakInv, backends,
              services, metrics
  <1>1. CASE Arrive(r)
    BY <1>1 DEF Arrive
  <1>2. CASE Routed(r)
    BY <1>2, RouteValues, NeedsServices DEF Routed, Await
  <1>3. CASE Answer(r)
    BY <1>3, AnswerValues DEF Answer
  <1>4. CASE Finish(r)
    <2>1. routeTemplate(r) \in Labels /\ status[r] \in Statuses
      BY <1>4 DEF Finish, routeTemplate, Labels
    <2>2. Observed(r) \in [Labels -> [Statuses -> Nat]]
      BY <2>1 DEF Observed
    <2>3. QED BY <1>4, <2>2 DEF Finish
  <1>5. CASE HangUp(r)
    BY <1>5 DEF HangUp
  <1>6. QED BY <1>1, <1>2, <1>3, <1>4, <1>5 DEF RequestStep

LEMMA NextIInv == IInv /\ [Next]_vars => IInv'
  <1> SUFFICES ASSUME IInv, [Next]_vars PROVE IInv'
    OBVIOUS
  <1>1. CASE UNCHANGED vars
    BY <1>1 DEF vars, backends, services, metrics, IInv, TypeOK, BackendsTypeOK,
                PoolInv, RouteInv, LeakInv
  <1>2. CASE Next
    BY <1>2, ServiceStepIInv, RequestStepIInv DEF Next, RequestStep
  <1>3. QED BY <1>1, <1>2

(* The inductive invariant of the types, the pool and the routes.           *)
THEOREM Invariant == Spec => []IInv
  <1>1. QED BY InitIInv, NextIInv, PTL DEF Spec

(* TypeOK holds for every number of requests and connections.               *)
THEOREM TypeCorrect == Spec => []TypeOK
  <1>1. IInv => TypeOK  BY DEF IInv
  <1>2. QED BY <1>1, Invariant, PTL

-----------------------------------------------------------------------------
(* A step of the gauge and the histogram is an arrival or a finish.         *)
LEMMA MetricMoves ==
  ASSUME IInv, [Next]_vars
  PROVE  \/ \E r \in Requests : Arrive(r) \/ Finish(r)
         \/ UNCHANGED <<metrics, question, request, status, leaked>>
         \/ /\ \E r \in Requests : Routed(r) \/ Answer(r) \/ HangUp(r)
            /\ UNCHANGED metrics
  BY DEF Next, Environment, Awaits, Routed, Answer, HangUp, vars, metrics

LEMMA RequestsFinite ==
  ASSUME NEW S \in SUBSET Requests, NEW r
  PROVE  /\ IsFiniteSet(S)
         /\ Cardinality(S) \in Nat
         /\ r \notin S => Cardinality(S \cup {r}) = Cardinality(S) + 1
         /\ r \in S => Cardinality(S \ {r}) = Cardinality(S) - 1
  BY PoolAssumption, FS_Subset, FS_CardinalityType, FS_AddElement,
     FS_RemoveElement

LEMMA GaugeKept == IInv /\ GaugeInv /\ [Next]_vars => GaugeInv'
  <1> SUFFICES ASSUME IInv, GaugeInv, [Next]_vars PROVE GaugeInv'
    OBVIOUS
  <1> USE DEF GaugeInv
  <1>1. Open \in SUBSET Requests
    BY DEF Open, Handled, IInv, TypeOK
  <1>2. ASSUME NEW r \in Requests, Arrive(r) PROVE GaugeInv'
    <2>1. r \notin Open
      BY <1>2 DEF Arrive, Open, Handled, IInv, LeakInv
    <2>2. Open' = Open \cup {r}
      BY <1>2 DEF Arrive, Open, Handled, IInv, TypeOK
    <2>3. QED BY <1>1, <1>2, <2>1, <2>2, RequestsFinite DEF Arrive
  <1>3. ASSUME NEW r \in Requests, Finish(r) PROVE GaugeInv'
    <2>1. r \in Open
      BY <1>3 DEF Finish, Open, Handled
    <2>2. Open' = Open \ {r}
      BY <1>3 DEF Finish, Open, Handled, IInv, TypeOK, LeakInv
    <2>3. QED BY <1>1, <1>3, <2>1, <2>2, RequestsFinite DEF Finish
  <1>4. CASE UNCHANGED <<metrics, question, request, status, leaked>>
    BY <1>4 DEF metrics, Open, Handled
  <1>5. ASSUME NEW r \in Requests, Routed(r) \/ Answer(r) \/ HangUp(r),
               UNCHANGED metrics
        PROVE  GaugeInv'
    <2>1. Open' = Open
      BY <1>5 DEF Routed, Answer, HangUp, Open, Handled, IInv, TypeOK, LeakInv
    <2>2. QED BY <1>5, <2>1 DEF metrics
  <1>6. QED BY <1>2, <1>3, <1>4, <1>5, MetricMoves

(* The gauge of active requests is off by exactly the aborted ones, and     *)
(* never shows fewer than are being handled (httpMiddleware, metrics.ts).   *)
THEOREM GaugeIsOffByAborts == Spec => []GaugeDrift
  <1>1. IInv /\ GaugeInv => GaugeDrift
    <2> SUFFICES ASSUME IInv, GaugeInv PROVE GaugeDrift
      OBVIOUS
    <2>1. Open \in SUBSET Requests /\ Handled \subseteq Open
      BY DEF Open, Handled, IInv, TypeOK
    <2>2. Cardinality(Handled) <= Cardinality(Open)
      BY <2>1, RequestsFinite, FS_Subset
    <2>3. /\ Cardinality(Handled) \in Nat
          /\ Cardinality(Open) \in Nat
      BY <2>1, RequestsFinite
    <2>4. QED BY <2>2, <2>3 DEF GaugeInv, GaugeDrift, Open
  <1>2. QED BY <1>1, InitIInv, NextIInv, GaugeKept, PTL DEF Spec

-----------------------------------------------------------------------------
LEMMA CountKept ==
  IInv /\ EveryResponseCounted /\ [Next]_vars => EveryResponseCounted'
  <1> SUFFICES ASSUME IInv, EveryResponseCounted, [Next]_vars,
                      NEW l \in Labels, NEW s \in Statuses
               PROVE  duration'[l][s] = IF l \in DEFAULT_IGNORED_ROUTES THEN 0
                                        ELSE Cardinality(Finished(l, s)')
    BY DEF EveryResponseCounted
  <1>1. duration[l][s] = IF l \in DEFAULT_IGNORED_ROUTES THEN 0
                         ELSE Cardinality(Finished(l, s))
    BY DEF EveryResponseCounted
  <1>2. Finished(l, s) \in SUBSET Requests
    BY DEF Finished
  <1>3. ASSUME NEW r \in Requests, Finish(r)
        PROVE  duration'[l][s] = IF l \in DEFAULT_IGNORED_ROUTES THEN 0
                                 ELSE Cardinality(Finished(l, s)')
    <2>1. /\ r \notin leaked
          /\ r \notin Finished(l, s)
          /\ route[r] = Route[question[r].kind]
          /\ question[r] \in Questions
          /\ status[r] \in Statuses
      BY <1>3 DEF Finish, Finished, IInv, LeakInv, RouteInv
    <2>2. routeTemplate(r) \in Labels
      BY <2>1, RouteValues DEF routeTemplate, Labels
    <2>3. CASE l = routeTemplate(r) /\ s = status[r]
      <3>1. Finished(l, s)' = Finished(l, s) \cup {r}
        BY <1>3, <2>1, <2>3 DEF Finish, Finished, routeTemplate, IInv, TypeOK
      <3>2. l \notin DEFAULT_IGNORED_ROUTES => duration'[l][s] = duration[l][s] + 1
        BY <1>3, <2>3 DEF Finish, Observed, IInv, TypeOK
      <3>3. l \in DEFAULT_IGNORED_ROUTES => duration' = duration
        BY <1>3, <2>3 DEF Finish, Observed
      <3>4. QED BY <1>1, <1>2, <2>1, <3>1, <3>2, <3>3, RequestsFinite
    <2>4. CASE ~(l = routeTemplate(r) /\ s = status[r])
      <3>1. Finished(l, s)' = Finished(l, s)
        BY <1>3, <2>1, <2>4 DEF Finish, Finished, routeTemplate, IInv, TypeOK
      <3>2. duration'[l][s] = duration[l][s]
        BY <1>3, <2>1, <2>2, <2>4 DEF Finish, Observed, IInv, TypeOK
      <3>3. QED BY <1>1, <3>1, <3>2
    <2>5. QED BY <2>3, <2>4
  <1>4. ASSUME NEW r \in Requests, Arrive(r)
        PROVE  duration' = duration /\ Finished(l, s)' = Finished(l, s)
    BY <1>4 DEF Arrive, Finished, IInv, TypeOK
  <1>5. ASSUME NEW r \in Requests, Routed(r) \/ Answer(r) \/ HangUp(r),
               UNCHANGED metrics
        PROVE  duration' = duration /\ Finished(l, s)' = Finished(l, s)
    BY <1>5 DEF Routed, Answer, HangUp, Finished, IInv, TypeOK, metrics
  <1>6. CASE UNCHANGED <<metrics, question, request, status, leaked>>
    BY <1>1, <1>6 DEF metrics, Finished
  <1>7. QED BY <1>1, <1>3, <1>4, <1>5, <1>6, MetricMoves

(* Every response, 404s and errors included, is counted once, under the     *)
(* template of its route or as unmatched, and none of an ignored route      *)
(* (app.ts, httpMiddleware of metrics.ts).                                  *)
THEOREM CountsEveryResponse == Spec => []EveryResponseCounted
  <1>1. QED BY InitIInv, NextIInv, CountKept, PTL DEF Spec

-----------------------------------------------------------------------------
(* A status is an answer to what the request asks for.                      *)
AnswerInv ==
    \A r \in Requests : status[r] # "none" =>
        /\ request[r] \in {"answered", "done"}
        /\ \E errors \in SUBSET Service : status[r] \in Answers(question[r], errors)

LEMMA AnswerKept == IInv /\ AnswerInv /\ [Next]_vars => AnswerInv'
  <1> SUFFICES ASSUME IInv, AnswerInv, [Next]_vars PROVE AnswerInv'
    OBVIOUS
  <1>1. ASSUME NEW r \in Requests, Arrive(r) PROVE AnswerInv'
    BY <1>1 DEF Arrive, AnswerInv, IInv, TypeOK
  <1>2. ASSUME NEW r \in Requests, Answer(r) PROVE AnswerInv'
    <2>1. failed[r] \in SUBSET Service
      BY DEF IInv, TypeOK, BackendsTypeOK
    <2>2. status'[r] \in Answers(question[r], failed[r])
      BY <1>2 DEF Answer, IInv, TypeOK
    <2>3. request'[r] \in {"answered", "done"}
      BY <1>2 DEF Answer, IInv, TypeOK
    <2>4. QED BY <1>2, <2>1, <2>2, <2>3 DEF Answer, AnswerInv, IInv, TypeOK
  <1>3. ASSUME NEW r \in Requests, Routed(r) \/ Finish(r) \/ HangUp(r)
        PROVE  AnswerInv'
    BY <1>3 DEF Routed, Finish, HangUp, AnswerInv, IInv, TypeOK
  <1>4. CASE UNCHANGED <<question, request, status>>
    BY <1>4 DEF AnswerInv
  <1>5. QED
    BY <1>1, <1>2, <1>3, <1>4 DEF Next, Environment, Awaits, vars

(* The hash of a sku fits 32 bits.                                          *)
LEMMA SkuHash ==
  ASSUME NEW n \in DOMAIN Order
  PROVE  P!hash(Order[n].sku) \in P!Word
  <1>0. P!Half = Half /\ P!Word = Word
    BY DEF P!Half, P!Word, Half, Word
  <1>1. Order[n].sku \in Seq(Half)
    <2>1. Order[n] \in P!Orders
      BY ConstantsAssumption
    <2>2. QED BY <1>0, <2>1 DEF P!Orders
  <1>2. P!hash(Order[n].sku) = hash(Order[n].sku)
    BY DEF P!hash, P!FoldLeft, P!MapThenFoldSet, P!Max, P!Mix, P!Xor, P!Powers,
           P!SumFunction, P!SumFunctionOnSet, P!FoldFunctionOnSet,
           hash, FoldLeft, MapThenFoldSet, Max, Mix, Xor, Powers,
           SumFunction, SumFunctionOnSet, FoldFunctionOnSet
  <1>3. QED BY <1>0, <1>1, <1>2, HashWord

(* A unit costs 100 to 9999 cents, whatever the hash of its sku is.         *)
LEMMA UnitCents ==
  ASSUME NEW n \in DOMAIN Order
  PROVE  /\ P!unitCents(Order[n].sku) \in Nat
         /\ 100 <= P!unitCents(Order[n].sku)
         /\ P!unitCents(Order[n].sku) <= 9999
  <1> PICK h \in P!Word : h = P!hash(Order[n].sku)
    BY SkuHash
  <1>1. h.hi \in Nat /\ h.lo \in Nat
    <2>1. \A bound \in Nat : 0 .. bound \subseteq Nat
      OBVIOUS
    <2>2. P!Half \subseteq Nat
      BY <2>1, 65535 \in Nat DEF P!Half
    <2>3. QED BY <2>2 DEF P!Word
  <1>2. (h.hi % 9900) * (65536 % 9900) + h.lo \in Nat
    BY <1>1, SMT
  <1>3. \A x \in Nat : x % 9900 \in Nat /\ 0 <= x % 9900 /\ x % 9900 <= 9899
    BY SMT
  <1>4. /\ P!Modulo(h, 9900) \in Nat
        /\ 0 <= P!Modulo(h, 9900) /\ P!Modulo(h, 9900) <= 9899
    BY <1>2, <1>3 DEF P!Modulo
  <1>5. P!unitCents(Order[n].sku) = 100 + P!Modulo(h, 9900)
    BY DEF P!unitCents
  <1>6. QED BY <1>4, <1>5, SMT

LEMMA TotalCents ==
  ASSUME NEW n \in DOMAIN Order, P!createOrderBody(Order[n])
  PROVE  P!totalCents(Order[n]) \in 1 .. MaxInteger
  <1>1. \A u, k \in Nat : 100 <= u /\ u <= 9999 /\ 1 <= k /\ k <= 1000 =>
          u * k \in Nat /\ 1 <= u * k /\ u * k <= 9999 * 1000
    BY SMT
  <1>2. /\ Order[n].quantity.value \in Nat
        /\ 1 <= Order[n].quantity.value /\ Order[n].quantity.value <= 1000
    <2>1. \A k \in 1 .. 1000 : k \in Nat /\ 1 <= k /\ k <= 1000
      OBVIOUS
    <2>2. Order[n].quantity.value \in 1 .. 1000
      BY DEF P!createOrderBody
    <2>3. QED BY <2>1, <2>2
  <1>3. /\ P!totalCents(Order[n]) \in Nat /\ 1 <= P!totalCents(Order[n])
        /\ P!totalCents(Order[n]) <= 9999 * 1000
    BY <1>1, <1>2, UnitCents DEF P!totalCents
  <1>4. MaxInteger \in Nat /\ 9999 * 1000 <= MaxInteger
    BY SMT DEF MaxInteger
  <1>5. QED BY <1>3, <1>4

(* What POST /orders accepts, GET /internal/pricing can price, and the      *)
(* price fits the column (the two schemas of app.ts, pricing.ts, db.ts).    *)
THEOREM AcceptedHasPrice == Spec => []AcceptedIsPriceable
  <1>1. IInv /\ AnswerInv => AcceptedIsPriceable
    <2> SUFFICES ASSUME IInv, AnswerInv, NEW r \in Requests, NEW q \in Requests,
                        question[r].kind = "create", status[r] = "202",
                        question[q].kind = "pricing", status[q] # "none",
                        question[q].order = question[r].order
                 PROVE  \/ status[q] = "503"
                        \/ /\ status[q] = "200"
                           /\ P!totalCents(Order[question[q].order]) \in 1 .. MaxInteger
      BY DEF AcceptedIsPriceable
    <2> PICK n \in DOMAIN Order : n = question[r].order /\ n = question[q].order
      BY ConstantsAssumption DEF IInv, TypeOK, Unasked
    <2>1. P!createOrderBody(Order[n])
      BY DEF AnswerInv, Answers
    <2>2. P!pricingQuery(P!asQuery(Order[n]))
      <3>1. Order[n] \in P!Orders
        BY ConstantsAssumption
      <3>2. /\ P!asQuery(Order[n]).sku = Order[n].sku
            /\ P!asQuery(Order[n]).quantity.value = Order[n].quantity.value
        BY <3>1 DEF P!asQuery, P!Orders, P!Quantities
      <3>3. QED BY <2>1, <3>2 DEF P!createOrderBody, P!pricingQuery
    <2>3. status[q] \in {"200", "503"}
      BY <2>2 DEF AnswerInv, Answers
    <2>4. QED BY <2>1, <2>3, TotalCents
  <1>2. Init => AnswerInv
    BY DEF Init, AnswerInv
  <1>3. QED BY <1>1, <1>2, InitIInv, NextIInv, AnswerKept, PTL DEF Spec

=============================================================================
