----------------------------- MODULE OrderTrace -----------------------------
(***************************************************************************)
(* The spans, log lines and job samples of orders crossing the queue       *)
(* (packages/telemetry/src/propagation.ts, logger.ts, metrics.ts; used in  *)
(* services/api/src/queue.ts and services/worker/src/processor.ts).        *)
(*                                                                         *)
(* Each asynchronous execution has an active context of its own            *)
(* (AsyncLocalStorage): the handler of a request, and the attempt on a job *)
(* from withConsumerSpan on.  What joins the two is the traceContext that  *)
(* the api writes into the data of the job.  A span is named by what it is *)
(* about, a trace by its root span.                                        *)
(*                                                                         *)
(* The attempts of one job follow each other here: a job that stalled, and *)
(* is handed out while its first attempt runs on, is in OrderPipeline.     *)
(***************************************************************************)
EXTENDS FiniteSets, Integers

CONSTANTS
    Jobs,        \* jobs
    MaxAttempts, \* attempts of each job
    Carriers     \* how a job's traceContext may come about

CarrierKinds == {"injected",   \* by injectTraceContext, in the api
                 "absent",     \* enqueued without one
                 "malformed"}  \* no object, or no valid traceparent in it

ASSUME ConstantsAssumption ==
    /\ MaxAttempts \in Nat \ {0}
    /\ Carriers \subseteq CarrierKinds

Attempts == 1 .. MaxAttempts

SpanIds == ({"request", "send"} \X Jobs \X {0})
           \cup ({"process", "quote", "pricing", "chat"} \X Jobs \X Attempts)
NoSpan == <<>>

VARIABLES
    carrier,   \* how each job's traceContext came about
    continued, \* the option continueTrace of the consumer
    serving,   \* the active span of the handler of POST /orders
    data,      \* the span whose ids are in the traceContext of the job's data
    job,       \* each job in the queue
    attempt,   \* attempts begun on each job
    pc,        \* where the attempt under way is
    active,    \* the active span of the attempt's context
    span,      \* the spans
    lines,     \* log lines about an order
    samples    \* observations of queue_job_duration_seconds

api    == <<serving, data>>
fixed  == <<carrier, continued>>
vars   == <<fixed, api, job, attempt, pc, active, span, lines, samples>>

SpanType ==
    [state: {"none", "open", "ended"}, trace: SpanIds \cup {NoSpan},
     parent: SpanIds \cup {NoSpan}, link: SpanIds \cup {NoSpan},
     status: {"unset", "error"}]

LineType ==
    [job: Jobs, attempt: 0 .. MaxAttempts, of: {"attempt", "mark"},
     trace: SpanIds \cup {NoSpan}, span: SpanIds \cup {NoSpan}]

TypeOK ==
    /\ carrier \in [Jobs -> Carriers]
    /\ continued \in [Jobs -> BOOLEAN]
    /\ serving \in [Jobs -> SpanIds \cup {NoSpan}]
    /\ data \in [Jobs -> SpanIds \cup {NoSpan}]
    /\ job \in [Jobs -> {"none", "sending", "waiting", "active", "settled"}]
    /\ attempt \in [Jobs -> 0 .. MaxAttempts]
    /\ pc \in [Jobs -> {"idle", "quoting", "writing", "summarising", "returning",
                        "throwing", "failed"}]
    /\ active \in [Jobs -> SpanIds \cup {NoSpan}]
    /\ span \in [SpanIds -> SpanType]
    /\ lines \subseteq LineType
    /\ samples \subseteq [job: Jobs, attempt: Attempts,
                          outcome: {"completed", "failed"},
                          exemplar: SpanIds \cup {NoSpan}]

Init ==
    /\ carrier \in [Jobs -> Carriers]
    /\ continued \in [Jobs -> BOOLEAN]
    /\ serving = [j \in Jobs |-> NoSpan]
    /\ data = [j \in Jobs |-> NoSpan]
    /\ job = [j \in Jobs |-> "none"]
    /\ attempt = [j \in Jobs |-> 0]
    /\ pc = [j \in Jobs |-> "idle"]
    /\ active = [j \in Jobs |-> NoSpan]
    /\ span = [i \in SpanIds |-> [state |-> "none", trace |-> NoSpan,
                                  parent |-> NoSpan, link |-> NoSpan,
                                  status |-> "unset"]]
    /\ lines = {}
    /\ samples = {}

-----------------------------------------------------------------------------
TraceOf(i) == IF i = NoSpan THEN NoSpan ELSE span[i].trace

(* startSpan under a parent, or as the root of a new trace.                 *)
Started(spans, i, parent, link) ==
    [spans EXCEPT ![i] =
       [state |-> "open", parent |-> parent, link |-> link, status |-> "unset",
        trace |-> IF parent = NoSpan THEN i ELSE spans[parent].trace]]

Ended(spans, i, status) ==
    [spans EXCEPT ![i].state = "ended", ![i].status = status]

(* traceFields: the ids of the active span, none outside of a span.  A line *)
(* is of an attempt (or the order), or of a mark that failed.               *)
Line(j, s) ==
    [job |-> j, attempt |-> attempt[j], of |-> "attempt", trace |-> TraceOf(s), span |-> s]

(* A line of the api, which knows of no attempt.                            *)
OrderLine(j, s) == [Line(j, s) EXCEPT !.attempt = 0]

(* extractTraceContext: the span named in the data, if there is a carrier.  *)
producerContext(j) == IF carrier[j] = "injected" THEN data[j] ELSE NoSpan

-----------------------------------------------------------------------------
(* The api, or whoever enqueues.                                            *)

(* POST /orders runs in the server span of its request.                     *)
Receive(j) ==
    /\ job[j] = "none"
    /\ carrier[j] = "injected"
    /\ span[<<"request", j, 0>>].state = "none"
    /\ span' = Started(span, <<"request", j, 0>>, NoSpan, NoSpan)
    /\ serving' = [serving EXCEPT ![j] = <<"request", j, 0>>]
    /\ UNCHANGED <<fixed, data, job, attempt, pc, active, lines, samples>>

(* A faulty Injected: the data are made ready before withProducerSpan.      *)
InjectedOutside(outer, inner) == outer

(* injectTraceContext takes the active context, and is called inside fn.    *)
Injected(outer, inner) == inner

(* The order is stored; withProducerSpan starts its span in the context of  *)
(* the handler, makes it the active one, and its fn hands the job over.     *)
Send(j) ==
    /\ job[j] = "none"
    /\ serving[j] # NoSpan
    /\ job' = [job EXCEPT ![j] = "sending"]
    /\ span' = Started(span, <<"send", j, 0>>, serving[j], NoSpan)
    /\ serving' = [serving EXCEPT ![j] = <<"send", j, 0>>]
    /\ data' = [data EXCEPT ![j] = Injected(serving[j], <<"send", j, 0>>)]
    /\ lines' = lines \cup {OrderLine(j, serving[j])}
    /\ UNCHANGED <<fixed, attempt, pc, active, samples>>

(* Redis has the job; a worker may be faster than the answer to the api.    *)
Enqueue(j) ==
    /\ \/ job[j] = "sending"
       \/ job[j] = "none" /\ carrier[j] # "injected"
    /\ job' = [job EXCEPT ![j] = "waiting"]
    /\ UNCHANGED <<fixed, api, attempt, pc, active, span, lines, samples>>

(* queue.add resolved, or rejected although Redis may have taken the job:   *)
(* back in the context of the handler, which answers.                       *)
Sent(j) ==
    /\ span[<<"send", j, 0>>].state = "open"
    /\ \/ /\ job[j] # "sending"
          /\ span' = Ended(Ended(span, <<"send", j, 0>>, "unset"),
                           <<"request", j, 0>>, "unset")
          /\ lines' = lines \cup {OrderLine(j, <<"request", j, 0>>)}
       \/ /\ span' = Ended(Ended(span, <<"send", j, 0>>, "error"),
                           <<"request", j, 0>>, "error")
          /\ UNCHANGED lines
    /\ serving' = [serving EXCEPT ![j] = NoSpan]
    /\ job' = [job EXCEPT ![j] = IF @ = "sending" THEN "settled" ELSE @]
    /\ UNCHANGED <<fixed, data, attempt, pc, active, samples>>

-----------------------------------------------------------------------------
(* The worker: withConsumerSpan and the processor inside it.                *)

This(kind, j) == <<kind, j, attempt[j]>>

At(j, from, to) ==
    /\ pc[j] = from
    /\ pc' = [pc EXCEPT ![j] = to]
    /\ UNCHANGED <<fixed, api, attempt>>

(* A faulty Context: fn runs in the parent's context.                       *)
ContextOfParent(j, i) == producerContext(j)

Context(j, i) == i

Link(j) == producerContext(j)

(* A faulty Parent: the trace is continued whatever the option says.        *)
ParentAlways(j) == producerContext(j)

Parent(j) == IF continued[j] THEN producerContext(j) ELSE NoSpan

Process(j) ==
    /\ job[j] = "waiting"
    /\ attempt[j] < MaxAttempts
    /\ job' = [job EXCEPT ![j] = "active"]
    /\ attempt' = [attempt EXCEPT ![j] = @ + 1]
    /\ pc' = [pc EXCEPT ![j] = "quoting"]
    /\ LET i == <<"process", j, attempt[j] + 1>>
           started == Started(span, i, Parent(j), Link(j))
           s == Context(j, i)
       IN  /\ span' = Started(started, <<"quote", j, attempt[j] + 1>>, s, NoSpan)
           /\ active' = [active EXCEPT ![j] = s]
           /\ lines' = lines \cup {[job |-> j, attempt |-> attempt[j] + 1,
                of |-> "attempt", span |-> s,
                trace |-> IF s = NoSpan THEN NoSpan ELSE started[s].trace]}
    /\ UNCHANGED <<fixed, api, samples>>

(* The api serves the pricing call under the traceparent header of the      *)
(* client span; its own line is written there.                              *)
Price(j) ==
    /\ pc[j] = "quoting"
    /\ span[This("pricing", j)].state = "none"
    /\ span' = Started(span, This("pricing", j), This("quote", j), NoSpan)
    /\ lines' = lines \cup {[Line(j, This("quote", j))
                               EXCEPT !.span = This("pricing", j)]}
    /\ UNCHANGED <<fixed, api, job, attempt, pc, active, samples>>

(* The api's span ends with its response, which is read after it; the       *)
(* response of a call whose client is gone ends it too, at some time.       *)
Served(j) ==
    \E n \in Attempts, status \in {"unset", "error"} :
        /\ span[<<"pricing", j, n>>].state = "open"
        /\ span' = Ended(span, <<"pricing", j, n>>, status)
        /\ UNCHANGED <<fixed, api, job, attempt, pc, active, lines, samples>>

Priced(j) ==
    /\ At(j, "quoting", "writing")
    /\ span[This("pricing", j)].state = "ended"
    /\ span[This("pricing", j)].status = "unset"
    /\ span' = Ended(span, This("quote", j), "unset")
    /\ UNCHANGED <<job, active, lines, samples>>

(* Answered 503, or the connection failed before, during or after the call. *)
PriceFails(j) ==
    /\ At(j, "quoting", "throwing")
    /\ span' = Ended(span, This("quote", j), "error")
    /\ UNCHANGED <<job, active, lines, samples>>

(* The UPDATE; withModelSpan opens the span of the model call.              *)
Write(j) ==
    /\ At(j, "writing", "summarising")
    /\ span' = Started(span, This("chat", j), active[j], NoSpan)
    /\ lines' = lines \cup {Line(j, active[j])}
    /\ UNCHANGED <<job, active, samples>>

WriteFails(j) ==
    /\ At(j, "writing", "throwing")
    /\ UNCHANGED <<job, active, span, lines, samples>>

(* A faulty Summarise: the error of the model call is thrown on.            *)
AfterSummaryThrows(status) == IF status = "error" THEN "throwing" ELSE "returning"

AfterSummary(status) == "returning"

Summarise(j) ==
    \E status \in {"unset", "error"} :
        /\ At(j, "summarising", AfterSummary(status))
        /\ span' = Ended(span, This("chat", j), status)
        /\ lines' = lines \cup {Line(j, active[j])}
        /\ UNCHANGED <<job, active, samples>>

(* The try/finally of the processor: outcome is set after the UPDATE.       *)
Sample(j, outcome) ==
    samples' = samples \cup {[job |-> j, attempt |-> attempt[j],
                              outcome |-> outcome, exemplar |-> active[j]]}

Return(j) ==
    /\ At(j, "returning", "idle")
    /\ Sample(j, "completed")
    /\ span' = Ended(span, This("process", j), "unset")
    /\ active' = [active EXCEPT ![j] = NoSpan]
    /\ job' = [job EXCEPT ![j] = "settled"]
    /\ UNCHANGED lines

(* Faulty StatusOfThrows: recordFailure is left out, or reports success.    *)
StatusOfThrowUnset == "unset"

StatusOfThrowOk == "ok"

StatusOfThrow == "error"

Throw(j) ==
    /\ At(j, "throwing", "failed")
    /\ Sample(j, IF This("chat", j) \in {i \in SpanIds : span[i].state # "none"}
                 THEN "completed" ELSE "failed")
    /\ span' = Ended(span, This("process", j), StatusOfThrow)
    /\ active' = [active EXCEPT ![j] = NoSpan]
    /\ UNCHANGED <<job, lines>>

(* The 'failed' handler runs in the context of the worker's loop, which has *)
(* no span, and writes a line about the order; the job is retried while it  *)
(* has attempts left.                                                       *)
FailedEvent(j) ==
    /\ At(j, "failed", "idle")
    /\ lines' = lines \cup {Line(j, active[j])}
    /\ job' = [job EXCEPT ![j] = IF attempt[j] < MaxAttempts THEN "waiting"
                                 ELSE "settled"]
    /\ UNCHANGED <<active, span, samples>>

(* It does not wait for markFailed, whose rejection it logs when it comes.  *)
MarkFails(j) ==
    /\ job[j] = "settled"
    /\ attempt[j] = MaxAttempts
    /\ span[This("process", j)].status = "error"
    /\ lines' = lines \cup {[Line(j, active[j]) EXCEPT !.of = "mark"]}
    /\ UNCHANGED <<fixed, api, job, attempt, pc, active, span, samples>>

Next ==
    \E j \in Jobs :
        \/ Receive(j) \/ Send(j) \/ Enqueue(j) \/ Sent(j)
        \/ Process(j) \/ Price(j) \/ Served(j) \/ Priced(j) \/ PriceFails(j)
        \/ Write(j) \/ WriteFails(j) \/ Summarise(j)
        \/ Return(j) \/ Throw(j) \/ FailedEvent(j) \/ MarkFails(j)

Spec == Init /\ [][Next]_vars

-----------------------------------------------------------------------------
Begun == {i \in SpanIds : span[i].state # "none"}

About(i) == i[2]

(* "One trace id covers request -> queue -> worker" for a continued trace   *)
(* with a carrier, whatever attempt, and also the pricing call back into    *)
(* the api and the model call; otherwise an attempt is a trace of its own.  *)
OneTrace ==
    \A i \in Begun :
        span[i].trace =
            IF i[3] = 0 \/ (continued[i[2]] /\ carrier[i[2]] = "injected")
            THEN <<"request", About(i), 0>>
            ELSE <<"process", About(i), i[3]>>

(* "Three consumer spans - one per attempt - under one producer": whatever  *)
(* the attempt, what came back from Redis leads to the span that enqueued   *)
(* the job, not to the request around it: the attempt links to it, and is   *)
(* its child exactly if the trace is continued.  A job without a usable     *)
(* carrier leads nowhere.                                                   *)
AttemptsLinkToProducer ==
    \A i \in Begun : i[1] = "process" =>
        /\ span[i].link = IF carrier[About(i)] = "injected"
                          THEN <<"send", About(i), 0>> ELSE NoSpan
        /\ span[i].parent = IF continued[About(i)] THEN span[i].link ELSE NoSpan

(* The three signals of a finished attempt agree: one sample, whose         *)
(* exemplar is the attempt's own consumer span, with outcome failed exactly *)
(* if that span has the status error, though the model call below it may    *)
(* have failed.                                                             *)
SignalsAgree ==
    \A i \in Begun : i[1] = "process" /\ span[i].state = "ended" =>
        \E x \in samples :
            /\ x.job = About(i) /\ x.attempt = i[3]
            /\ x.exemplar = i
            /\ (x.outcome = "failed") = (span[i].status = "error")
            /\ \A y \in samples : y.job = x.job /\ y.attempt = x.attempt => y = x

(* A log line carries the ids of a span of its own job and attempt, never   *)
(* of another job that is processed at the same time.  Two lines have none: *)
(* that of the 'failed' handler, about an attempt whose span has ended with *)
(* an error, and after it, about the last attempt, that of a mark that      *)
(* failed.                                                                  *)
LinesOfOwnAttempt ==
    \A l \in lines :
        IF l.span = NoSpan
        THEN /\ LET i == <<"process", l.job, l.attempt>>
                IN  span[i].state = "ended" /\ span[i].status = "error"
             /\ l.of = "mark" => /\ l.attempt = MaxAttempts
                          /\ [l EXCEPT !.of = "attempt"] \in lines
        ELSE /\ About(l.span) = l.job
             /\ l.span[3] = l.attempt
             /\ l.trace = span[l.span].trace

=============================================================================
