----------------------------- MODULE HttpMetrics -----------------------------
(***************************************************************************)
(* The requests to the api (services/api/src/app.ts) and their RED metrics *)
(* (the middleware of packages/telemetry/src/metrics.ts): a request is     *)
(* counted in when it arrives, its handler awaits PostgreSQL and Redis     *)
(* (Backends), either of which may be down, and on the response's 'finish' *)
(* it is counted out, into the duration histogram.  Clients hang up, after *)
(* which Node never emits 'finish' while the handler runs on.              *)
(***************************************************************************)
EXTENDS Backends, FiniteSetsExt

CONSTANTS
    Order,     \* some orders, by name
    Questions  \* what is asked for, with the name of an order where one is meant

P == INSTANCE Pricing

(* The route template of each kind of request, if one is matched before the *)
(* answer is decided: a body that does not parse, or is over 16 kB, is      *)
(* refused ahead of the router.                                             *)
Route ==
    [create     |-> "/orders",
     bad_json   |-> "none",
     too_large  |-> "none",
     get        |-> "/orders/:id",
     not_a_uuid |-> "/orders/:id",
     pricing    |-> "/internal/pricing",
     scan       |-> "none",
     probe      |-> "/readyz",
     scrape     |-> "/metrics"]

Statuses == {"200", "202", "400", "404", "500", "503"}
Labels   == {"/orders", "/orders/:id", "/internal/pricing", "unmatched",
             "/readyz", "/metrics"}

MaxInteger == 2147483647  \* of the column total_cents

DEFAULT_IGNORED_ROUTES == {"/metrics", "/healthz", "/readyz"}

ASSUME ConstantsAssumption ==
    /\ \A n \in DOMAIN Order : Order[n] \in P!Orders
    /\ \A q \in Questions :
         /\ q.kind \in DOMAIN Route
         /\ q.kind \in {"create", "pricing"} => q.order \in DOMAIN Order

VARIABLES
    question,  \* what each request asks for
    request,   \* how far it is
    route,     \* request.route, as far as it is known
    status,    \* response.statusCode
    inFlight,  \* http_server_active_requests
    duration,  \* the samples of http_server_request_duration_seconds
    leaked     \* the requests 'finish' will never be emitted for

metrics == <<inFlight, duration>>
vars == <<backends, question, request, route, status, metrics, leaked>>

Unasked == [kind |-> "none"]

TypeOK ==
    /\ BackendsTypeOK
    /\ question \in [Requests -> {Unasked} \cup Questions]
    /\ request \in [Requests -> {"none", "arrived", "routed", "answered", "done"}]
    /\ route \in [Requests -> {"none"} \cup Labels]
    /\ status \in [Requests -> {"none"} \cup Statuses]
    /\ inFlight \in Int
    /\ duration \in [Labels -> [Statuses -> Nat]]
    /\ leaked \subseteq Requests

Init ==
    /\ BackendsInit
    /\ question = [r \in Requests |-> Unasked]
    /\ request = [r \in Requests |-> "none"]
    /\ route = [r \in Requests |-> "none"]
    /\ status = [r \in Requests |-> "none"]
    /\ inFlight = 0
    /\ duration = [l \in Labels |-> [s \in Statuses |-> 0]]
    /\ leaked = {}

(* The value of the route label; a path never becomes one.                  *)
routeTemplate(r) == IF route[r] = "none" THEN "unmatched" ELSE route[r]

(* The services the handler of a question awaits first.                     *)
Needs(q) ==
    CASE q.kind = "create" /\ P!createOrderBody(Order[q.order]) -> {"postgres"}
      [] q.kind = "get"   -> {"postgres"}
      [] q.kind = "probe" -> {"postgres", "redis"}
      [] OTHER            -> {}

(* The status of the answer, given the promises that rejected.              *)
Answers(q, errors) ==
    CASE q.kind = "create" ->
           IF ~P!createOrderBody(Order[q.order]) THEN {"400"}
           ELSE IF errors = {} THEN {"202"} ELSE {"500"}
      [] q.kind = "pricing" ->
           IF ~P!pricingQuery(P!asQuery(Order[q.order])) THEN {"400"}
           ELSE IF P!unavailable(Order[q.order]) THEN {"503"} ELSE {"200"}
      [] q.kind = "get"   -> IF errors = {} THEN {"200", "404"} ELSE {"500"}
      [] q.kind = "probe" -> IF errors = {} THEN {"200"} ELSE {"503"}
      [] q.kind \in {"bad_json", "not_a_uuid"} -> {"400"}
      [] q.kind = "too_large" -> {"500"}
      [] q.kind = "scan"      -> {"404"}
      [] q.kind = "scrape"    -> {"200"}

-----------------------------------------------------------------------------
(* The middleware comes first, before the body is parsed.                   *)
Arrive(r) ==
    /\ up
    /\ request[r] = "none"
    /\ request' = [request EXCEPT ![r] = "arrived"]
    /\ \E q \in Questions : question' = [question EXCEPT ![r] = q]
    /\ inFlight' = inFlight + 1
    /\ UNCHANGED <<backends, route, status, duration, leaked>>

(* A faulty Routed: the path of the request, ids included.                  *)
RoutedPath(r) ==
    /\ up
    /\ request[r] = "arrived"
    /\ request' = [request EXCEPT ![r] = "routed"]
    /\ route' = [route EXCEPT ![r] = "/orders/6f1c9d1e"]
    /\ Await(r, Needs(question[r]))
    /\ UNCHANGED <<question, status, metrics, leaked>>

(* The body parser and the router have run, and the handler has started.    *)
Routed(r) ==
    /\ up
    /\ request[r] = "arrived"
    /\ request' = [request EXCEPT ![r] = "routed"]
    /\ route' = [route EXCEPT ![r] = Route[question[r].kind]]
    /\ Await(r, Needs(question[r]))
    /\ UNCHANGED <<question, status, metrics, leaked>>

(* The handler's awaits: a query, of POST /orders followed by queue.add.    *)
Queried(r) ==
    Answered(r, IF question[r].kind = "create" THEN {"redis"} ELSE {})

Awaits(r) ==
    /\ Query(r) \/ Queried(r) \/ RedisReplies(r)
    /\ UNCHANGED <<question, request, route, status, metrics, leaked>>

(* The handler, or an error handler, ends the response.                     *)
Answer(r) ==
    /\ up
    /\ request[r] = "routed"
    /\ awaiting[r] = {}
    /\ request' = [request EXCEPT ![r] = IF r \in leaked THEN "done"
                                         ELSE "answered"]
    /\ \E s \in Answers(question[r], failed[r]) :
         status' = [status EXCEPT ![r] = s]
    /\ UNCHANGED <<backends, question, route, metrics, leaked>>

(* A faulty Observed: the label is the one that was known on arrival.       *)
ObservedEarly(r) ==
    [duration EXCEPT !["unmatched"][status[r]] = @ + 1]

Observed(r) ==
    IF routeTemplate(r) \in DEFAULT_IGNORED_ROUTES THEN duration
    ELSE [duration EXCEPT ![routeTemplate(r)][status[r]] = @ + 1]

(* A faulty Finish: an ignored route returns before the gauge is decreased. *)
FinishIgnored(r) ==
    /\ up
    /\ request[r] = "answered"
    /\ request' = [request EXCEPT ![r] = "done"]
    /\ inFlight' = IF routeTemplate(r) \in DEFAULT_IGNORED_ROUTES THEN inFlight
                   ELSE inFlight - 1
    /\ duration' = Observed(r)
    /\ UNCHANGED <<backends, question, route, status, leaked>>

(* 'finish': the response was handed to the operating system.               *)
Finish(r) ==
    /\ up
    /\ request[r] = "answered"
    /\ request' = [request EXCEPT ![r] = "done"]
    /\ inFlight' = inFlight - 1
    /\ duration' = Observed(r)
    /\ UNCHANGED <<backends, question, route, status, leaked>>

(* The connection closes before the response went out: 'close', never       *)
(* 'finish'.  A handler under way is not told.                              *)
HangUp(r) ==
    /\ up
    /\ r \notin leaked
    /\ request[r] \in {"arrived", "routed", "answered"}
    /\ leaked' = leaked \cup {r}
    /\ request' = [request EXCEPT ![r] = IF @ = "answered" THEN "done" ELSE @]
    /\ UNCHANGED <<backends, question, route, status, metrics>>

(* A service stops or comes back, or the pool ends an idle client.          *)
Environment ==
    /\ Outages \/ IdleTimeout
    /\ UNCHANGED <<question, request, route, status, metrics, leaked>>

Next ==
    \/ \E r \in Requests :
         Arrive(r) \/ Routed(r) \/ Awaits(r) \/ Answer(r) \/ Finish(r) \/ HangUp(r)
    \/ Environment

Spec == Init /\ [][Next]_vars

(* A handler runs on; a service that runs answers.                          *)
FairSpec ==
    Spec /\ \A r \in Requests : WF_vars(Routed(r) \/ Awaits(r) \/ Answer(r))

-----------------------------------------------------------------------------
Handled == {r \in Requests : request[r] \in {"arrived", "routed", "answered"}}

Finished(l, s) ==
    {r \in Requests \ leaked :
        /\ request[r] = "done"
        /\ l = IF Route[question[r].kind] = "none" THEN "unmatched" ELSE Route[question[r].kind]
        /\ s = status[r]}

(* "Requests currently being handled" (the gauge's help text): the value is *)
(* the number of requests whose handler runs or whose answer is under way.  *)
GaugeIsHandled == inFlight = Cardinality(Handled)

(* A client that hangs up costs the gauge one for ever, and nothing else    *)
(* does: it never shows fewer requests than are being handled.              *)
GaugeDrift ==
    /\ inFlight >= Cardinality(Handled)
    /\ inFlight = Cardinality(Handled \cup leaked)

(* "So every response - including 404s and errors - is counted" (app.ts):   *)
(* once, under the template of the route it took, or as unmatched when an   *)
(* error came before the router or no route fits, and not at all for the    *)
(* ignored routes.                                                          *)
EveryResponseCounted ==
    \A l \in Labels, s \in Statuses :
        duration[l][s] = IF l \in DEFAULT_IGNORED_ROUTES THEN 0
                         ELSE Cardinality(Finished(l, s))

(* An order the api accepted can be priced: GET /internal/pricing, asked    *)
(* for the same order with its quantity as a text, never takes it for       *)
(* invalid, and a quote is a positive number of cents that fits the column  *)
(* total_cents.                                                             *)
AcceptedIsPriceable ==
    \A r, q \in Requests :
        /\ question[r].kind = "create" /\ status[r] = "202"
        /\ question[q].kind = "pricing" /\ status[q] # "none"
        /\ question[q].order = question[r].order
        => \/ status[q] = "503"
           \/ /\ status[q] = "200"
              /\ P!totalCents(Order[question[q].order]) \in 1 .. MaxInteger

Ended(r) == request[r] # "routed" \/ ~up

(* An outage of Redis takes no other route with it: a handler that awaits   *)
(* queue.add or a ping holds no client of the pool, and GET /orders/:id is  *)
(* answered although Redis never comes back.                                *)
ReadsSurviveRedis ==
    \A r \in Requests :
        (question[r].kind = "get" /\ request[r] = "routed") ~> Ended(r)

(* The requests that met an outage of Redis are answered when it is over.   *)
OutagePasses ==
    <>[]redis => \A r \in Requests : (request[r] = "routed") ~> Ended(r)

(* "Redis or PostgreSQL connectivity.  They surface as /readyz going 503    *)
(* and as 5xx on the routes that need them" (docs/alerting.md): a request   *)
(* that meets an outage of Redis is answered before Redis is back.          *)
RedisOutageSurfaces ==
    \A r \in Requests : (request[r] = "routed" /\ ~redis) ~> (Ended(r) \/ redis)

(* The same of PostgreSQL: the api outlives the outage, to answer 503.      *)
PostgresOutageSurfaces == up

=============================================================================
