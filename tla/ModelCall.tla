----------------------------- MODULE ModelCall -----------------------------
(***************************************************************************)
(* withModelSpan and what one call leaves behind: a span, observations     *)
(* handed to onObservation, and in Metrics.observeModelCall a duration     *)
(* sample, token samples and a cost (packages/telemetry/src/genai.ts,      *)
(* metrics.ts; services/worker/src/summariser.ts wraps one function).      *)
(*                                                                         *)
(* A wrapped function reports usage whenever it likes, the last report     *)
(* winning, and then resolves or throws.  Some of the calls are summaries: *)
(* their function is the worker's, which throws for a FAIL- sku and else   *)
(* reports once, when the note is there.  prom-client refuses to observe a *)
(* number that is not finite: a count of Invalid makes observeModelCall    *)
(* throw half way.                                                         *)
(***************************************************************************)
EXTENDS FiniteSets, Functions, Integers, Sequences

CONSTANTS
    Calls,      \* model calls
    Models,     \* request models
    Price,      \* per million input and output tokens, of some models
    Usages,     \* what a call may report
    Invalid,    \* a token count that is not a finite number
    Order       \* the order of each call that summarises one

P == INSTANCE Pricing

TokenTypes == {"input", "output"}

ASSUME ConstantsAssumption ==
    /\ IsFiniteSet(Calls)
    /\ DOMAIN Price \subseteq Models
    /\ \A m \in DOMAIN Price : Price[m] \in [TokenTypes -> Nat]
    /\ Invalid \notin Nat
    /\ Usages \subseteq [TokenTypes -> Nat \cup {Invalid}]
    /\ DOMAIN Order \subseteq Calls
    /\ \A c \in DOMAIN Order : /\ Order[c] \in P!Orders
                               /\ P!createOrderBody(Order[c])

VARIABLES
    call,          \* each call: its state, model and the usage reported
    span,          \* its span: is it open, its status, its token attributes
    observations,  \* what onObservation received for each call
    metrics        \* the three model series of the registry

vars == <<call, span, observations, metrics>>

NoUsage == [t \in TokenTypes |-> 0]   \* usage?.inputTokens ?? 0
Errors  == {"ModelError", "TypeError"}
NoError == ""

-----------------------------------------------------------------------------
(* summarise(sku, quantity).                                                *)

NOTES == <<17, 23, 19, 34>>  \* their lengths

tokens(length) == (length + 3) \div 4

(* The prompt is "Handling note for <quantity> x <sku>".                    *)
promptLength(o) ==
    21 + Len(o.sku) + Cardinality({n \in {1, 10, 100, 1000} : n <= o.quantity.value})

Summary ==
    [c \in DOMAIN Order |->
        [input  |-> tokens(promptLength(Order[c])),
         output |-> tokens(NOTES[P!Modulo(P!hash(Order[c].sku), Len(NOTES)) + 1])]]

Unavailable == {c \in DOMAIN Order : P!unavailable(Order[c])}

AllUsages == Usages \cup {NoUsage} \cup {Summary[c] : c \in DOMAIN Order}

-----------------------------------------------------------------------------
TypeOK ==
    /\ call \in [Calls -> [state: {"none", "running", "resolved", "rejected"},
                           model: Models, reported: BOOLEAN,
                           usage: AllUsages]]
    /\ span \in [Calls -> [open: BOOLEAN, status: {"unset", "error"},
                           usage: AllUsages]]
    /\ observations \in [Calls -> Seq([usage: AllUsages,
                                       error: Errors \cup {NoError}])]
    /\ metrics \in [duration: [Models -> [Errors \cup {NoError} -> Nat]],
                    tokens: [Models -> [TokenTypes -> [count: Nat, sum: Nat]]],
                    cost: [Models -> [TokenTypes -> Nat]]]

Init ==
    /\ call \in [Calls -> {[state |-> "none", model |-> m, reported |-> FALSE,
                            usage |-> NoUsage] : m \in Models}]
    /\ span = [c \in Calls |-> [open |-> FALSE, status |-> "unset",
                                usage |-> NoUsage]]
    /\ observations = [c \in Calls |-> <<>>]
    /\ metrics =
         [duration |-> [m \in Models |-> [e \in Errors \cup {NoError} |-> 0]],
          tokens |-> [m \in Models |->
                        [t \in TokenTypes |-> [count |-> 0, sum |-> 0]]],
          cost |-> [m \in Models |-> [t \in TokenTypes |-> 0]]]

-----------------------------------------------------------------------------
(* observeModelCall.                                                        *)

WithDuration(ms, m, error) == [ms EXCEPT !.duration[m][error] = @ + 1]

(* In millionths of the unit of Price, so that it is an integer.            *)
CostOf(m, t, n) == IF m \in DOMAIN Price THEN n * Price[m][t] ELSE 0

WithTokens(ms, m, t, n) ==
    [ms EXCEPT !.tokens[m][t] = [count |-> @.count + 1, sum |-> @.sum + n],
               !.cost[m][t] = @ + CostOf(m, t, n)]

Throws(usage) == Invalid \in {usage[t] : t \in TokenTypes}

(* A successful call's samples: duration, then input, then output, up to    *)
(* the first that throws.                                                   *)
Succeeded(ms, m, usage) ==
    LET timed == WithDuration(ms, m, NoError)
        half  == WithTokens(timed, m, "input", usage["input"])
    IN  IF usage["input"] = Invalid THEN timed
        ELSE IF usage["output"] = Invalid THEN half
        ELSE WithTokens(half, m, "output", usage["output"])

(* A faulty FailedCall: the early return is missing.                        *)
FailedCallCounted(ms, m, usage, error) ==
    LET timed == WithDuration(ms, m, error)
        half  == WithTokens(timed, m, "input", usage["input"])
    IN  WithTokens(half, m, "output", usage["output"])

(* A failed call counts as a duration only, whatever usage it reported.     *)
FailedCall(ms, m, usage, error) == WithDuration(ms, m, error)

-----------------------------------------------------------------------------
(* withModelSpan.                                                           *)

(* A faulty Start: the span has a status the type does not know.            *)
StartOk(c) ==
    /\ call[c].state = "none"
    /\ call' = [call EXCEPT ![c].state = "running"]
    /\ span' = [span EXCEPT ![c].open = TRUE, ![c].status = "ok"]
    /\ UNCHANGED <<observations, metrics>>

Start(c) ==
    /\ call[c].state = "none"
    /\ call' = [call EXCEPT ![c].state = "running"]
    /\ span' = [span EXCEPT ![c].open = TRUE]
    /\ UNCHANGED <<observations, metrics>>

(* What the function of c may report now ...                                *)
Reports(c) ==
    IF c \notin DOMAIN Order THEN Usages
    ELSE IF call[c].reported \/ c \in Unavailable THEN {} ELSE {Summary[c]}

(* ... and how it may end.                                                  *)
MayResolve(c) == c \in DOMAIN Order => call[c].reported
MayThrow(c)   == c \in DOMAIN Order => c \in Unavailable

Report(c) ==
    /\ call[c].state = "running"
    /\ \E usage \in Reports(c) :
         call' = [call EXCEPT ![c].usage = usage, ![c].reported = TRUE]
    /\ UNCHANGED <<span, observations, metrics>>

Observation(c, error) == [usage |-> call[c].usage, error |-> error]

(* The function resolved and its observation was taken.                     *)
Resolve(c) ==
    /\ call[c].state = "running"
    /\ MayResolve(c)
    /\ ~Throws(call[c].usage)
    /\ call' = [call EXCEPT ![c].state = "resolved"]
    /\ span' = [span EXCEPT ![c].open = FALSE, ![c].usage = call[c].usage]
    /\ observations' = [observations EXCEPT ![c] =
                          Append(@, Observation(c, NoError))]
    /\ metrics' = Succeeded(metrics, call[c].model, call[c].usage)

(* It resolved, but the observation threw inside the try: the catch makes a *)
(* failure of it and observes again.                                        *)
ResolveBroken(c) ==
    /\ call[c].state = "running"
    /\ MayResolve(c)
    /\ Throws(call[c].usage)
    /\ call' = [call EXCEPT ![c].state = "rejected"]
    /\ span' = [span EXCEPT ![c].open = FALSE, ![c].status = "error",
                            ![c].usage = call[c].usage]
    /\ observations' = [observations EXCEPT ![c] =
                          @ \o <<Observation(c, NoError),
                                 Observation(c, "TypeError")>>]
    /\ metrics' = FailedCall(Succeeded(metrics, call[c].model, call[c].usage),
                             call[c].model, call[c].usage, "TypeError")

(* A faulty ThrowStatus: the span of a failed call is left unset.           *)
ThrowStatusUnset(s) == s

ThrowStatus(s) == [s EXCEPT !.status = "error"]

(* A faulty ObservationsOfThrow: only a call that reported is observed.     *)
ObservationsOfThrowReported(c) ==
    IF call[c].reported THEN <<Observation(c, "ModelError")>> ELSE <<>>

ObservationsOfThrow(c) == <<Observation(c, "ModelError")>>

Throw(c) ==
    /\ call[c].state = "running"
    /\ MayThrow(c)
    /\ call' = [call EXCEPT ![c].state = "rejected"]
    /\ span' = [span EXCEPT ![c] = [ThrowStatus(@) EXCEPT !.open = FALSE]]
    /\ observations' = [observations EXCEPT ![c] = @ \o ObservationsOfThrow(c)]
    /\ metrics' = FailedCall(metrics, call[c].model, call[c].usage, "ModelError")

Next ==
    \E c \in Calls :
        Start(c) \/ Report(c) \/ Resolve(c) \/ ResolveBroken(c) \/ Throw(c)

Spec == Init /\ [][Next]_vars

-----------------------------------------------------------------------------
Settled == {c \in Calls : call[c].state \in {"resolved", "rejected"}}

Of(m) == {c \in Calls : call[c].model = m}

Resolved(m) == {c \in Of(m) : call[c].state = "resolved"}

(* Calls whose observation threw after the function had resolved.           *)
Broken == {c \in Settled : /\ call[c].state = "rejected"
                           /\ \E i \in DOMAIN observations[c] :
                                observations[c][i].error = NoError}

(* What onObservation "receives one observation per call, success or        *)
(* failure" (genai.ts) comes to: one also for a call that fails before it   *)
(* reported, and two for a call that its own observer made fail.            *)
OneObservationPerCall ==
    \A c \in Calls : Len(observations[c]) =
        IF c \in Broken THEN 2 ELSE IF c \in Settled THEN 1 ELSE 0

(* The duration histogram counts every call once, the token histogram every *)
(* successful call and no other, and what is spent is what the tokens of    *)
(* the successful calls cost at the model's price, nothing for a model that *)
(* has none: failures leave no series half written unless the observer      *)
(* itself threw, and then only those of that call's model.                  *)
SeriesAgree ==
    \A m \in {n \in Models : Of(n) \cap Broken = {}} :
        /\ SumFunction(metrics.duration[m]) = Cardinality(Of(m) \cap Settled)
        /\ \A t \in TokenTypes :
             LET used == SumFunction([c \in Resolved(m) |-> call[c].usage[t]])
             IN  /\ metrics.tokens[m][t] =
                      [count |-> Cardinality(Resolved(m)), sum |-> used]
                 /\ metrics.cost[m][t] =
                      IF m \in DOMAIN Price THEN used * Price[m][t] ELSE 0

(* The span, the observation and the caller tell one story, also when the   *)
(* observer threw: the status is error exactly if the caller saw a          *)
(* rejection and the call's last observation names an error, a settled      *)
(* call's span has ended, and the tokens on the span of a successful call   *)
(* are the tokens that were observed.                                       *)
SpanAgrees ==
    \A c \in Settled :
        LET last == observations[c][Len(observations[c])]
        IN  /\ ~span[c].open
            /\ (span[c].status = "error") = (call[c].state = "rejected")
            /\ (last.error = NoError) = (span[c].status = "unset")
            /\ last.error = NoError => last.usage = span[c].usage

=============================================================================
