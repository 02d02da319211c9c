--------------------------- MODULE ModelCallProofs ---------------------------
(***************************************************************************)
(* Theorems about ModelCall, for any number of calls, models, prices and   *)
(* orders.                                                                 *)
(***************************************************************************)
EXTENDS ModelCall, FoldLemmas

(* What a call leaves, by how far it is: nothing before it settles, then    *)
(* one observation and a closed span, or, of a call that its own observer   *)
(* made fail, two.                                                          *)
Leaves(c, status, errors) ==
    /\ span[c].status = status
    /\ observations[c] = errors

Success(c)    == [usage |-> call[c].usage, error |-> NoError]
Failure(c, e) == [usage |-> call[c].usage, error |-> e]

CallInv(c) ==
    /\ call[c].state \in {"none", "running"} => Leaves(c, "unset", <<>>)
    /\ call[c].state = "resolved" =>
         /\ Leaves(c, "unset", <<Success(c)>>)
         /\ ~span[c].open
         /\ span[c].usage = call[c].usage
    /\ call[c].state = "rejected" =>
         /\ ~span[c].open
         /\ \/ Leaves(c, "error", <<Failure(c, "ModelError")>>)
            \/ /\ Leaves(c, "error", <<Success(c), Failure(c, "TypeError")>>)
               /\ Throws(call[c].usage)

IInv ==
    /\ TypeOK
    /\ \A c \in Calls : CallInv(c)

-----------------------------------------------------------------------------
(* The tokens of a summary are numbers.                                     *)
LEMMA SummaryValues ==
  ASSUME NEW c \in DOMAIN Order
  PROVE  Summary[c] \in [TokenTypes -> Nat]
  <1> DEFINE o == Order[c]
             digits == {n \in {1, 10, 100, 1000} : n <= o.quantity.value}
             h == P!hash(o.sku)
  <1>0. P!Half = Half /\ P!Word = Word
    BY DEF P!Half, P!Word, Half, Word
  <1>1. o.sku \in Seq(Half)
    <2>1. Order[c] \in P!Orders
      BY ConstantsAssumption
    <2>2. QED BY <1>0, <2>1 DEF P!Orders
  <1>2. h = hash(o.sku)
    BY DEF P!hash, P!FoldLeft, P!MapThenFoldSet, P!Max, P!Mix, P!Xor, P!Powers,
           P!SumFunction, P!SumFunctionOnSet, P!FoldFunctionOnSet,
           hash, FoldLeft, MapThenFoldSet, Max, Mix, Xor, Powers,
           SumFunction, SumFunctionOnSet, FoldFunctionOnSet
  <1>3. h.hi \in Nat /\ h.lo \in Nat
    <2>1. h \in Word
      BY <1>1, <1>2, HashWord
    <2>2. \A n \in Half : n \in Nat
      BY DEF Half
    <2>3. QED BY <2>1, <2>2 DEF Word
  <1>4. Cardinality(digits) \in Nat
    <2>1. \A n \in Int : digits \subseteq 1 .. n => Cardinality(digits) \in Nat
      <3> HIDE DEF digits
      <3>1. \A n \in Int : IsFiniteSet(1 .. n)
        BY FS_Interval
      <3>2. QED BY <3>1, FS_Subset, FS_CardinalityType
    <2>2. digits \subseteq 1 .. 1000
      OBVIOUS
    <2>3. QED BY <2>1, <2>2
  <1>5. \A n \in Nat : tokens(n) \in Nat
    BY DEF tokens
  <1>6. promptLength(o) \in Nat
    <2>1. Len(o.sku) \in Nat
      BY <1>1
    <2>2. promptLength(o) = 21 + Len(o.sku) + Cardinality(digits)
      BY DEF promptLength
    <2> HIDE DEF digits, o
    <2>3. QED BY <1>4, <2>1, <2>2
  <1>7. NOTES[P!Modulo(h, Len(NOTES)) + 1] \in Nat
    <2>1. Len(NOTES) = 4 /\ \A i \in 0 .. 3 : NOTES[i + 1] \in Nat
      BY DEF NOTES
    <2>2. P!Modulo(h, 4) \in 0 .. 3
      <3>1. (h.hi % 4) * (65536 % 4) + h.lo \in Nat
        BY <1>3
      <3>2. \A n \in Nat : n % 4 \in 0 .. 3
        OBVIOUS
      <3> HIDE DEF h
      <3>3. QED BY <3>1, <3>2 DEF P!Modulo
    <2>3. QED BY <2>1, <2>2
  <1>8. Summary[c] = [input |-> tokens(promptLength(o)),
                      output |-> tokens(NOTES[P!Modulo(h, Len(NOTES)) + 1])]
    BY DEF Summary
  <1> HIDE DEF o, h
  <1>9. QED BY <1>5, <1>6, <1>7, <1>8 DEF TokenTypes

(* Usage, unless it makes prom-client throw, is counted in numbers.         *)
LEMMA UsageValues ==
  ASSUME NEW usage \in AllUsages
  PROVE  /\ usage \in [TokenTypes -> Nat \cup {Invalid}]
         /\ \A t \in TokenTypes : usage[t] # Invalid => usage[t] \in Nat
  BY ConstantsAssumption, SummaryValues DEF AllUsages, NoUsage

Registry == [duration: [Models -> [Errors \cup {NoError} -> Nat]],
             tokens: [Models -> [TokenTypes -> [count: Nat, sum: Nat]]],
             cost: [Models -> [TokenTypes -> Nat]]]

LEMMA WithDurationType ==
  ASSUME NEW ms \in Registry, NEW m \in Models, NEW e \in Errors \cup {NoError}
  PROVE  WithDuration(ms, m, e) \in Registry
  <1> DEFINE row  == [ms.duration[m] EXCEPT ![e] = @ + 1]
             rows == [ms.duration EXCEPT ![m] = row]
  <1>1. row \in [Errors \cup {NoError} -> Nat]
    BY DEF Registry
  <1>2. rows \in [Models -> [Errors \cup {NoError} -> Nat]]
    BY <1>1 DEF Registry
  <1>3. WithDuration(ms, m, e) = [ms EXCEPT !.duration = rows]
    BY DEF WithDuration, Registry
  <1> HIDE DEF rows
  <1>4. QED BY <1>2, <1>3 DEF Registry

LEMMA WithTokensType ==
  ASSUME NEW ms \in Registry, NEW m \in Models, NEW t \in TokenTypes, NEW n \in Nat
  PROVE  WithTokens(ms, m, t, n) \in Registry
  <1>1. CostOf(m, t, n) \in Nat
    BY ConstantsAssumption DEF CostOf
  <1> DEFINE cell  == [count |-> ms.tokens[m][t].count + 1,
                       sum |-> ms.tokens[m][t].sum + n]
             row   == [ms.tokens[m] EXCEPT ![t] = cell]
             rows  == [ms.tokens EXCEPT ![m] = row]
             cost  == [ms.cost[m] EXCEPT ![t] = @ + CostOf(m, t, n)]
             costs == [ms.cost EXCEPT ![m] = cost]
  <1>2. ms.tokens[m][t] \in [count: Nat, sum: Nat]
    BY DEF Registry
  <1>3. row \in [TokenTypes -> [count: Nat, sum: Nat]]
    <2>1. cell \in [count: Nat, sum: Nat]
      BY <1>2
    <2>2. ms.tokens[m] \in [TokenTypes -> [count: Nat, sum: Nat]]
      BY DEF Registry
    <2> HIDE DEF cell
    <2>3. QED BY <2>1, <2>2
  <1>4. rows \in [Models -> [TokenTypes -> [count: Nat, sum: Nat]]]
    <2> HIDE DEF row
    <2>1. QED BY <1>3 DEF Registry
  <1>5. cost \in [TokenTypes -> Nat]
    <2>1. ms.cost[m] \in [TokenTypes -> Nat]
      BY DEF Registry
    <2>2. QED BY <1>1, <2>1
  <1>6. costs \in [Models -> [TokenTypes -> Nat]]
    <2> HIDE DEF cost
    <2>1. QED BY <1>5 DEF Registry
  <1>7. WithTokens(ms, m, t, n) = [ms EXCEPT !.tokens = rows, !.cost = costs]
    BY <1>2 DEF WithTokens, Registry
  <1> HIDE DEF rows, costs
  <1>8. QED BY <1>4, <1>6, <1>7 DEF Registry

LEMMA SucceededType ==
  ASSUME NEW ms \in Registry, NEW m \in Models, NEW usage \in AllUsages
  PROVE  Succeeded(ms, m, usage) \in Registry
  BY UsageValues, WithDurationType, WithTokensType DEF Succeeded, TokenTypes

LEMMA FailedCallType ==
  ASSUME NEW ms \in Registry, NEW m \in Models, NEW usage, NEW e \in Errors
  PROVE  FailedCall(ms, m, usage, e) \in Registry
  BY WithDurationType DEF FailedCall

-----------------------------------------------------------------------------
(* The inductive invariant.                                                 *)
CallType == [state: {"none", "running", "resolved", "rejected"},
             model: Models, reported: BOOLEAN, usage: AllUsages]
SpanType == [open: BOOLEAN, status: {"unset", "error"}, usage: AllUsages]
ObsType  == [usage: AllUsages, error: Errors \cup {NoError}]

(* A call that a step leaves alone keeps what is known of it.               *)
LEMMA Others ==
  ASSUME IInv, NEW c \in Calls,
         \A d \in Calls \ {c} : /\ call'[d] = call[d]
                                /\ span'[d] = span[d]
                                /\ observations'[d] = observations[d]
  PROVE  \A d \in Calls \ {c} : CallInv(d)'
  BY DEF IInv, CallInv, Leaves, Success, Failure

LEMMA InitIInv == Init => IInv
  <1> SUFFICES ASSUME Init PROVE IInv
    OBVIOUS
  <1>1. NoUsage \in AllUsages
    BY DEF AllUsages
  <1>2. call \in [Calls -> CallType]
    <2>1. \A m \in Models : [state |-> "none", model |-> m, reported |-> FALSE,
                             usage |-> NoUsage] \in CallType
      BY <1>1 DEF CallType
    <2>2. QED BY <2>1 DEF Init
  <1>3. span \in [Calls -> SpanType]
    BY <1>1 DEF Init, SpanType
  <1>4. observations \in [Calls -> Seq(ObsType)]
    BY DEF Init
  <1>5. metrics \in Registry
    BY DEF Init, Registry
  <1>6. TypeOK
    BY <1>2, <1>3, <1>4, <1>5
    DEF TypeOK, CallType, SpanType, ObsType, Registry
  <1>7. ASSUME NEW c \in Calls PROVE CallInv(c)
    BY DEF Init, CallInv, Leaves
  <1>8. QED BY <1>6, <1>7 DEF IInv

LEMMA NextIInv == IInv /\ [Next]_vars => IInv'
  <1> SUFFICES ASSUME IInv, [Next]_vars PROVE IInv'
    OBVIOUS
  <1>0. /\ call \in [Calls -> CallType]
        /\ span \in [Calls -> SpanType]
        /\ observations \in [Calls -> Seq(ObsType)]
        /\ metrics \in Registry
    BY DEF IInv, TypeOK, CallType, SpanType, ObsType, Registry
  <1>t. ASSUME call' \in [Calls -> CallType], span' \in [Calls -> SpanType],
               observations' \in [Calls -> Seq(ObsType)], metrics' \in Registry
        PROVE  TypeOK'
    BY <1>t DEF TypeOK, CallType, SpanType, ObsType, Registry
  <1>o. ASSUME NEW c \in Calls, NEW e \in Errors \cup {NoError}
        PROVE  Observation(c, e) \in ObsType
    BY <1>0 DEF Observation, ObsType, CallType
  <1>1. ASSUME NEW c \in Calls, Start(c) PROVE IInv'
    <2>0. \A d \in Calls \ {c} : /\ call'[d] = call[d]
                                 /\ span'[d] = span[d]
                                 /\ observations'[d] = observations[d]
      BY <1>0, <1>1 DEF Start
    <2>1. TypeOK'
      BY <1>0, <1>1, <1>t DEF Start, CallType, SpanType
    <2>2. CallInv(c)'
      BY <1>0, <1>1 DEF Start, IInv, CallInv, Leaves, CallType, SpanType
    <2>3. QED BY <2>0, <2>1, <2>2, Others DEF IInv
  <1>2. ASSUME NEW c \in Calls, Report(c) PROVE IInv'
    <2>0. \A d \in Calls \ {c} : /\ call'[d] = call[d]
                                 /\ span'[d] = span[d]
                                 /\ observations'[d] = observations[d]
      BY <1>0, <1>2 DEF Report
    <2> PICK usage \in Reports(c) :
          call' = [call EXCEPT ![c].usage = usage, ![c].reported = TRUE]
      BY <1>2 DEF Report
    <2>1. usage \in AllUsages
      BY DEF Reports, AllUsages
    <2>2. TypeOK'
      BY <1>0, <1>2, <1>t, <2>1 DEF Report, CallType
    <2>3. CallInv(c)'
      BY <1>0, <1>2 DEF Report, IInv, CallInv, Leaves, CallType
    <2>4. QED BY <2>0, <2>2, <2>3, Others DEF IInv
  <1>3. ASSUME NEW c \in Calls, Resolve(c) PROVE IInv'
    <2>0. \A d \in Calls \ {c} : /\ call'[d] = call[d]
                                 /\ span'[d] = span[d]
                                 /\ observations'[d] = observations[d]
      BY <1>0, <1>3 DEF Resolve
    <2>1. /\ call[c].model \in Models
          /\ call[c].usage \in AllUsages
      BY <1>0 DEF CallType
    <2>2. TypeOK'
      <3>1. metrics' \in Registry
        BY <1>0, <1>3, <2>1, SucceededType DEF Resolve
      <3>2. observations' \in [Calls -> Seq(ObsType)]
        BY <1>0, <1>3, <1>o DEF Resolve
      <3>3. QED BY <1>0, <1>3, <1>t, <2>1, <3>1, <3>2 DEF Resolve, CallType, SpanType
    <2>3. CallInv(c)'
      <3>1. observations[c] = <<>> /\ span[c].status = "unset"
        BY <1>3 DEF Resolve, IInv, CallInv, Leaves
      <3>2. observations'[c] = <<Observation(c, NoError)>>
        BY <1>0, <1>3, <3>1 DEF Resolve
      <3>3. QED
        BY <1>0, <1>3, <3>1, <3>2
        DEF Resolve, CallInv, Leaves, Success, Observation, CallType, SpanType
    <2>4. QED BY <2>0, <2>2, <2>3, Others DEF IInv
  <1>4. ASSUME NEW c \in Calls, ResolveBroken(c) PROVE IInv'
    <2>0. \A d \in Calls \ {c} : /\ call'[d] = call[d]
                                 /\ span'[d] = span[d]
                                 /\ observations'[d] = observations[d]
      BY <1>0, <1>4 DEF ResolveBroken
    <2>1. /\ call[c].model \in Models
          /\ call[c].usage \in AllUsages
      BY <1>0 DEF CallType
    <2>2. TypeOK'
      <3>1. metrics' \in Registry
        BY <1>0, <1>4, <2>1, SucceededType, FailedCallType DEF ResolveBroken, Errors
      <3>2. observations' \in [Calls -> Seq(ObsType)]
        BY <1>0, <1>4, <1>o DEF ResolveBroken, Errors
      <3>3. /\ call' \in [Calls -> CallType]
            /\ span' \in [Calls -> SpanType]
        BY <1>0, <1>4, <2>1 DEF ResolveBroken, CallType, SpanType
      <3>4. QED BY <1>t, <3>1, <3>2, <3>3
    <2>3. CallInv(c)'
      <3>1. observations[c] = <<>>
        BY <1>4 DEF ResolveBroken, IInv, CallInv, Leaves
      <3>2. observations'[c] = <<Observation(c, NoError), Observation(c, "TypeError")>>
        BY <1>0, <1>4, <3>1 DEF ResolveBroken
      <3>3. QED
        BY <1>0, <1>4, <3>2
        DEF ResolveBroken, CallInv, Leaves, Success, Failure, Observation, CallType, SpanType
    <2>4. QED BY <2>0, <2>2, <2>3, Others DEF IInv
  <1>5. ASSUME NEW c \in Calls, Throw(c) PROVE IInv'
    <2>0. \A d \in Calls \ {c} : /\ call'[d] = call[d]
                                 /\ span'[d] = span[d]
                                 /\ observations'[d] = observations[d]
      BY <1>0, <1>5 DEF Throw
    <2>1. call[c].model \in Models
      BY <1>0 DEF CallType
    <2>2. TypeOK'
      <3>1. metrics' \in Registry
        BY <1>0, <1>5, <2>1, FailedCallType DEF Throw, Errors
      <3>2. observations' \in [Calls -> Seq(ObsType)]
        BY <1>0, <1>5, <1>o DEF Throw, ObservationsOfThrow, Errors
      <3>3. QED
        BY <1>0, <1>5, <1>t, <3>1, <3>2 DEF Throw, ThrowStatus, CallType, SpanType
    <2>3. CallInv(c)'
      <3>1. observations[c] = <<>>
        BY <1>5 DEF Throw, IInv, CallInv, Leaves
      <3>2. observations'[c] = <<Observation(c, "ModelError")>>
        BY <1>0, <1>5, <3>1 DEF Throw, ObservationsOfThrow
      <3>3. QED
        BY <1>0, <1>5, <3>2
        DEF Throw, ThrowStatus, CallInv, Leaves, Failure, Observation, CallType, SpanType
    <2>4. QED BY <2>0, <2>2, <2>3, Others DEF IInv
  <1>6. ASSUME UNCHANGED vars PROVE IInv'
    BY <1>6 DEF vars, IInv, TypeOK, CallInv, Leaves, Success, Failure
  <1>7. QED BY <1>1, <1>2, <1>3, <1>4, <1>5, <1>6 DEF Next

-----------------------------------------------------------------------------
(* In every reachable state a call has left what its state says it leaves   *)
(* (withModelSpan).                                                         *)
THEOREM Invariant == Spec => []IInv
  BY InitIInv, NextIInv, PTL DEF Spec

(* The variables have their types.                                          *)
THEOREM TypeCorrect == Spec => []TypeOK
  <1>1. IInv => TypeOK
    BY DEF IInv
  <1>2. QED BY <1>1, Invariant, PTL

(* onObservation hears of every settled call once, and a second time only   *)
(* of a call that it made fail itself.                                      *)
THEOREM ObservedOnce == Spec => []OneObservationPerCall
  <1>1. IInv => OneObservationPerCall
    <2> SUFFICES ASSUME IInv, NEW c \in Calls
                 PROVE  Len(observations[c]) =
                          IF c \in Broken THEN 2 ELSE IF c \in Settled THEN 1 ELSE 0
      BY DEF OneObservationPerCall
    <2>0. /\ call[c].state \in {"none", "running", "resolved", "rejected"}
          /\ CallInv(c)
      BY DEF IInv, TypeOK
    <2>1. CASE call[c].state \in {"none", "running"}
      BY <2>0, <2>1 DEF CallInv, Leaves, Broken, Settled
    <2>2. CASE call[c].state = "resolved"
      BY <2>0, <2>2 DEF CallInv, Leaves, Broken, Settled
    <2>3. CASE call[c].state = "rejected"
      <3>1. c \in Settled
        BY <2>3 DEF Settled
      <3>2. CASE observations[c] = <<Failure(c, "ModelError")>>
        <4>1. c \notin Broken
          <5>1. DOMAIN observations[c] = {1}
            BY <3>2
          <5>2. observations[c][1].error = "ModelError"
            BY <3>2 DEF Failure
          <5>3. QED BY <5>1, <5>2 DEF Broken, NoError
        <4>2. QED BY <3>1, <3>2, <4>1
      <3>3. CASE observations[c] = <<Success(c), Failure(c, "TypeError")>>
        <4>1. c \in Broken
          <5>1. 1 \in DOMAIN observations[c] /\ observations[c][1].error = NoError
            BY <3>3 DEF Success
          <5>2. QED BY <2>3, <3>1, <5>1 DEF Broken
        <4>2. QED BY <3>3, <4>1
      <3>4. QED BY <2>0, <2>3, <3>2, <3>3 DEF CallInv, Leaves
    <2>4. QED BY <2>0, <2>1, <2>2, <2>3
  <1>2. QED BY <1>1, Invariant, PTL

(* Span, observation and caller agree about how a call ended.               *)
THEOREM SpanTellsTheSame == Spec => []SpanAgrees
  <1>1. IInv => SpanAgrees
    <2> SUFFICES ASSUME IInv, NEW c \in Settled
                 PROVE  LET last == observations[c][Len(observations[c])]
                        IN  /\ ~span[c].open
                            /\ (span[c].status = "error") = (call[c].state = "rejected")
                            /\ (last.error = NoError) = (span[c].status = "unset")
                            /\ last.error = NoError => last.usage = span[c].usage
      BY DEF SpanAgrees
    <2> DEFINE last == observations[c][Len(observations[c])]
    <2>0. CallInv(c)
      BY DEF IInv, Settled
    <2>1. CASE call[c].state = "resolved"
      <3>0. observations[c] = <<Success(c)>>
        BY <2>0, <2>1 DEF CallInv, Leaves
      <3>1. last = Success(c) /\ span[c].status = "unset"
        BY <2>0, <2>1, <3>0 DEF CallInv, Leaves
      <3>2. last.error = NoError /\ last.usage = span[c].usage
        BY <2>0, <2>1, <3>1 DEF CallInv, Success
      <3>3. QED BY <2>0, <2>1, <3>1, <3>2 DEF CallInv
    <2>2. CASE call[c].state = "rejected"
      <3>1. /\ last \in {Failure(c, "ModelError"), Failure(c, "TypeError")}
            /\ span[c].status = "error"
        BY <2>0, <2>2 DEF CallInv, Leaves
      <3>2. last.error # NoError
        <4>1. \A e \in {"ModelError", "TypeError"} :
                /\ Failure(c, e).error = e
                /\ e # NoError
          BY DEF Failure, NoError
        <4>2. QED BY <3>1, <4>1
      <3>3. QED BY <2>0, <2>2, <3>1, <3>2 DEF CallInv
    <2>3. QED BY <2>1, <2>2 DEF Settled
  <1>2. QED BY <1>1, Invariant, PTL

-----------------------------------------------------------------------------
(* The totals of the series.                                                *)

(* What SeriesAgree says of one model.                                      *)
Used(m, t) == SumFunction([c \in Resolved(m) |-> call[c].usage[t]])

CostOfUsed(m, t) == IF m \in DOMAIN Price THEN Used(m, t) * Price[m][t] ELSE 0

Agree(m) ==
    /\ SumFunction(metrics.duration[m]) = Cardinality(Of(m) \cap Settled)
    /\ \A t \in TokenTypes :
         /\ metrics.tokens[m][t] =
              [count |-> Cardinality(Resolved(m)), sum |-> Used(m, t)]
         /\ metrics.cost[m][t] = CostOfUsed(m, t)

(* A call that resolved had counts that prom-client takes.                  *)
CountsInv ==
    \A c \in Calls : call[c].state = "resolved" => ~Throws(call[c].usage)

SeriesInv == IInv /\ CountsInv /\ SeriesAgree

LEMMA SeriesAgreeByModel ==
  SeriesAgree <=> \A m \in Models : Of(m) \cap Broken = {} => Agree(m)
  BY DEF SeriesAgree, Agree, Used, CostOfUsed

(* Counting one call more, and adding its usage.                            *)
LEMMA CallsFinite ==
  ASSUME NEW S \in SUBSET Calls
  PROVE  /\ IsFiniteSet(S)
         /\ \A c \in Calls \ S : Cardinality(S \cup {c}) = Cardinality(S) + 1
  BY ConstantsAssumption, FS_Subset, FS_AddElement

LEMMA UsedNumbers ==
  ASSUME IInv, CountsInv, NEW m \in Models, NEW t \in TokenTypes
  PROVE  /\ \A c \in Resolved(m) : call[c].usage[t] \in Nat
         /\ Used(m, t) \in Int
  <1>1. ASSUME NEW c \in Resolved(m) PROVE call[c].usage[t] \in Nat
    <2>1. c \in Calls /\ call[c].usage \in AllUsages /\ ~Throws(call[c].usage)
      BY DEF Resolved, Of, CountsInv, IInv, TypeOK
    <2>2. call[c].usage[t] # Invalid
      BY <2>1 DEF Throws
    <2>3. QED BY <2>1, <2>2, UsageValues
  <1>2. IsFiniteSet(Resolved(m))
    BY CallsFinite DEF Resolved, Of
  <1> DEFINE f == [c \in Resolved(m) |-> call[c].usage[t]]
  <1>3. \A c \in Resolved(m) : f[c] \in Int
    BY <1>1
  <1>4. Used(m, t) = SumFunctionOnSet(f, Resolved(m))
    BY DEF Used, SumFunction
  <1> HIDE DEF f
  <1>5. QED BY <1>1, <1>2, <1>3, <1>4, SumType

(* The values of the label of the duration histogram.                       *)
LEMMA LabelsFinite == IsFiniteSet(Errors \cup {NoError})
  <1>1. Errors \cup {NoError}
          = (({} \cup {"ModelError"}) \cup {"TypeError"}) \cup {NoError}
    BY DEF Errors
  <1>2. QED BY <1>1, FS_EmptySet, FS_AddElement, Zenon

(* One duration more.                                                       *)
LEMMA WithDurationValue ==
  ASSUME NEW ms \in Registry, NEW m \in Models, NEW e \in Errors \cup {NoError}
  PROVE  LET new == WithDuration(ms, m, e)
         IN  /\ SumFunction(new.duration[m]) = SumFunction(ms.duration[m]) + 1
             /\ \A n \in Models \ {m} : new.duration[n] = ms.duration[n]
             /\ new.tokens = ms.tokens
             /\ new.cost = ms.cost
  <1> DEFINE new == WithDuration(ms, m, e)
             S == Errors \cup {NoError}
             f == ms.duration[m]
             g == new.duration[m]
  <1>1. /\ \A n \in Models \ {m} : new.duration[n] = ms.duration[n]
        /\ new.tokens = ms.tokens
        /\ new.cost = ms.cost
    BY DEF WithDuration, Registry
  <1>2. f \in [S -> Nat] /\ g = [f EXCEPT ![e] = @ + 1]
    BY DEF WithDuration, Registry
  <1>3. IsFiniteSet(S)
    BY LabelsFinite
  <1>4. SumFunction(f) = SumFunctionOnSet(f, S) /\ SumFunction(g) = SumFunctionOnSet(g, S)
    BY <1>2 DEF SumFunction
  <1> HIDE DEF f, g, S
  <1>5. SumFunctionOnSet(g, S) = SumFunctionOnSet(f, S) + 1
    <2>1. \A x \in S : f[x] \in Int
      BY <1>2
    <2>2. e \in S /\ g[e] = f[e] + 1 /\ \A x \in S \ {e} : g[x] = f[x]
      BY <1>2 DEF S
    <2>3. QED BY <1>3, <2>1, <2>2, SumUpdate, 1 \in Int
  <1>6. QED BY <1>1, <1>4, <1>5 DEF f, g

(* The samples of one token type.                                           *)
Sampled(ms, new, m, t, n) ==
    /\ new.duration = ms.duration
    /\ new.tokens[m][t] = [count |-> ms.tokens[m][t].count + 1,
                           sum |-> ms.tokens[m][t].sum + n]
    /\ new.cost[m][t] = ms.cost[m][t] + CostOf(m, t, n)
    /\ \A o \in Models, u \in TokenTypes : <<o, u>> # <<m, t>> =>
         /\ new.tokens[o][u] = ms.tokens[o][u]
         /\ new.cost[o][u] = ms.cost[o][u]

LEMMA WithTokensValue ==
  ASSUME NEW ms \in Registry, NEW m \in Models, NEW t \in TokenTypes, NEW n
  PROVE  Sampled(ms, WithTokens(ms, m, t, n), m, t, n)
  BY DEF WithTokens, Registry, Sampled

(* The samples of a successful call.                                        *)
LEMMA SucceededValue ==
  ASSUME NEW ms \in Registry, NEW m \in Models, NEW usage \in AllUsages, ~Throws(usage)
  PROVE  LET new == Succeeded(ms, m, usage)
         IN  /\ SumFunction(new.duration[m]) = SumFunction(ms.duration[m]) + 1
             /\ \A t \in TokenTypes :
                  /\ new.tokens[m][t] = [count |-> ms.tokens[m][t].count + 1,
                                         sum |-> ms.tokens[m][t].sum + usage[t]]
                  /\ new.cost[m][t] = ms.cost[m][t] + CostOf(m, t, usage[t])
             /\ \A o \in Models \ {m} :
                  /\ new.duration[o] = ms.duration[o]
                  /\ \A t \in TokenTypes : /\ new.tokens[o][t] = ms.tokens[o][t]
                                           /\ new.cost[o][t] = ms.cost[o][t]
  <1> DEFINE timed == WithDuration(ms, m, NoError)
             half  == WithTokens(timed, m, "input", usage["input"])
             new   == WithTokens(half, m, "output", usage["output"])
  <1>1. /\ usage["input"] # Invalid /\ usage["output"] # Invalid
        /\ usage["input"] \in Nat /\ usage["output"] \in Nat
    BY UsageValues DEF Throws, TokenTypes
  <1>2. Succeeded(ms, m, usage) = new
    BY <1>1 DEF Succeeded
  <1>3. /\ timed \in Registry
        /\ SumFunction(timed.duration[m]) = SumFunction(ms.duration[m]) + 1
        /\ \A o \in Models \ {m} : timed.duration[o] = ms.duration[o]
        /\ timed.tokens = ms.tokens
        /\ timed.cost = ms.cost
    BY WithDurationType, WithDurationValue
  <1> HIDE DEF timed
  <1>4. "input" \in TokenTypes /\ "output" \in TokenTypes
    BY DEF TokenTypes
  <1>5. half \in Registry /\ Sampled(timed, half, m, "input", usage["input"])
    BY <1>1, <1>3, <1>4, WithTokensType, WithTokensValue
  <1> HIDE DEF half
  <1>6. Sampled(half, new, m, "output", usage["output"])
    BY <1>4, <1>5, WithTokensValue
  <1> HIDE DEF new
  <1>7. QED BY <1>2, <1>3, <1>5, <1>6 DEF Sampled, TokenTypes

(* A step of call c leaves the other calls alone and c with its model, and  *)
(* what is settled or broken stays so.                                      *)
Steps(c) ==
    /\ call[c].state \in {"none", "running"}
    /\ call' \in [Calls -> CallType]
    /\ call'[c].model = call[c].model
    /\ \A d \in Calls \ {c} : call'[d] = call[d] /\ observations'[d] = observations[d]

LEMMA NextSteps ==
  ASSUME IInv, NEW c \in Calls,
         Start(c) \/ Report(c) \/ Resolve(c) \/ ResolveBroken(c) \/ Throw(c)
  PROVE  Steps(c)
  <1>0. call \in [Calls -> CallType] /\ observations \in [Calls -> Seq(ObsType)]
    BY DEF IInv, TypeOK, CallType, ObsType
  <1>1. IInv'
    BY NextIInv DEF Next
  <1>2. call' \in [Calls -> CallType]
    BY <1>1 DEF IInv, TypeOK, CallType
  <1>3. CASE Start(c)
    BY <1>0, <1>2, <1>3 DEF Start, Steps, CallType
  <1>4. CASE Report(c)
    BY <1>0, <1>2, <1>4 DEF Report, Steps, CallType
  <1>5. CASE Resolve(c)
    BY <1>0, <1>2, <1>5 DEF Resolve, Steps, CallType
  <1>6. CASE ResolveBroken(c)
    BY <1>0, <1>2, <1>6 DEF ResolveBroken, Steps, CallType
  <1>7. CASE Throw(c)
    BY <1>0, <1>2, <1>7 DEF Throw, Steps, CallType
  <1>8. QED BY <1>3, <1>4, <1>5, <1>6, <1>7

LEMMA StepsOf ==
  ASSUME NEW c \in Calls, Steps(c), NEW m \in Models
  PROVE  /\ Of(m)' = Of(m)
         /\ Broken \subseteq Broken'
         /\ (Of(m) \cap Settled)' = (Of(m) \cap Settled)
              \cup {d \in {c} : call[c].model = m /\ call'[c].state \in {"resolved", "rejected"}}
         /\ Resolved(m)' = Resolved(m)
              \cup {d \in {c} : call[c].model = m /\ call'[c].state = "resolved"}
         /\ c \notin Settled
  <1>1. \A d \in Calls : call'[d].model = call[d].model
    BY DEF Steps
  <1>2. Of(m)' = Of(m)
    BY <1>1 DEF Of
  <1>3. c \notin Settled
    BY DEF Steps, Settled
  <1>4. \A d \in Calls \ {c} : call'[d] = call[d] /\ observations'[d] = observations[d]
    BY DEF Steps
  <1>5. Settled' = Settled \cup {d \in {c} : call'[c].state \in {"resolved", "rejected"}}
    BY <1>3, <1>4 DEF Settled
  <1>6. Broken \subseteq Broken'
    <2> SUFFICES ASSUME NEW d \in Broken PROVE d \in Broken'
      OBVIOUS
    <2>1. d \in Settled /\ d \in Calls \ {c}
      BY <1>3 DEF Broken, Settled
    <2>2. d \in Settled' /\ call'[d] = call[d] /\ observations'[d] = observations[d]
      BY <1>4, <1>5, <2>1
    <2>3. QED BY <2>2 DEF Broken
  <1>7. Resolved(m)' = Resolved(m)
          \cup {d \in {c} : call[c].model = m /\ call'[c].state = "resolved"}
    <2>1. c \notin Resolved(m)
      BY DEF Resolved, Steps
    <2>2. QED BY <1>1, <1>2, <1>4, <2>1 DEF Resolved, Of
  <1>8. QED
    BY <1>1, <1>2, <1>3, <1>5, <1>6, <1>7 DEF Of

(* A model whose calls and series a step does not change still agrees.      *)
LEMMA UsedKept ==
  ASSUME NEW m, Resolved(m)' = Resolved(m),
         \A c \in Resolved(m) : call'[c].usage = call[c].usage
  PROVE  \A t : Used(m, t)' = Used(m, t)
  <1> TAKE t
  <1>1. [c \in Resolved(m) |-> call[c].usage[t]]' = [c \in Resolved(m) |-> call[c].usage[t]]
    OBVIOUS
  <1>2. QED BY <1>1 DEF Used

LEMMA AgreeKept ==
  ASSUME NEW m \in Models, Agree(m),
         (Of(m) \cap Settled)' = Of(m) \cap Settled,
         Resolved(m)' = Resolved(m),
         \A c \in Resolved(m) : call'[c].usage = call[c].usage,
         metrics'.duration[m] = metrics.duration[m],
         \A t \in TokenTypes : /\ metrics'.tokens[m][t] = metrics.tokens[m][t]
                               /\ metrics'.cost[m][t] = metrics.cost[m][t]
  PROVE  Agree(m)'
  BY UsedKept DEF Agree, CostOfUsed

(* What the calls of a model used, when one more resolves.                  *)
LEMMA UsedMore ==
  ASSUME IInv, CountsInv, NEW m \in Models, NEW t \in TokenTypes,
         NEW c \in Calls \ Resolved(m), Resolved(m)' = Resolved(m) \cup {c},
         \A d \in Resolved(m) : call'[d] = call[d],
         call'[c].usage = call[c].usage, ~Throws(call[c].usage)
  PROVE  /\ Used(m, t)' = Used(m, t) + call[c].usage[t]
         /\ Used(m, t) \in Int
         /\ call[c].usage[t] \in Nat
  <1> DEFINE S == Resolved(m)
             R == Resolved(m)'
             e == [d \in S |-> call[d].usage[t]]
             f == [d \in R |-> call'[d].usage[t]]
  <1>1. call[c].usage[t] \in Nat
    <2>1. call[c].usage \in AllUsages /\ call[c].usage[t] # Invalid
      BY DEF IInv, TypeOK, Throws
    <2>2. QED BY <2>1, UsageValues
  <1>2. IsFiniteSet(S)
    BY CallsFinite DEF Resolved, Of
  <1>3. /\ \A d \in S : e[d] \in Int /\ f[d] = e[d]
        /\ f[c] = call[c].usage[t]
    BY UsedNumbers
  <1>4. Used(m, t) = SumFunctionOnSet(e, S) /\ Used(m, t)' = SumFunctionOnSet(f, R)
    BY DEF Used, SumFunction
  <1>5. Used(m, t) \in Int
    BY UsedNumbers
  <1>6. SumFunctionOnSet(f, R) = SumFunctionOnSet(e, S) + f[c]
    <2>1. f[c] \in Int /\ c \notin S /\ R = S \cup {c}
      BY <1>1, <1>3
    <2> HIDE DEF e, f, S, R
    <2>2. QED BY <1>2, <1>3, <2>1, SumAdd
  <1> HIDE DEF e, f, S, R
  <1>7. QED BY <1>1, <1>3, <1>4, <1>5, <1>6

(* A call that its observer made fail touches the series of its model only. *)
LEMMA BrokenElsewhere ==
  ASSUME IInv, NEW c \in Calls, ResolveBroken(c), NEW m \in Models \ {call[c].model}
  PROVE  /\ metrics'.duration[m] = metrics.duration[m]
         /\ \A t \in TokenTypes : /\ metrics'.tokens[m][t] = metrics.tokens[m][t]
                                  /\ metrics'.cost[m][t] = metrics.cost[m][t]
  <1> DEFINE mc == call[c].model
             usage == call[c].usage
             timed == WithDuration(metrics, mc, NoError)
             half == WithTokens(timed, mc, "input", usage["input"])
             kept == Succeeded(metrics, mc, usage)
  <1>0. /\ metrics \in Registry /\ mc \in Models /\ usage \in AllUsages
        /\ metrics' = WithDuration(kept, mc, "TypeError")
    BY DEF ResolveBroken, FailedCall, IInv, TypeOK, Registry
  <1>1. /\ timed \in Registry
        /\ timed.duration[m] = metrics.duration[m]
        /\ timed.tokens = metrics.tokens
        /\ timed.cost = metrics.cost
    BY <1>0, WithDurationType, WithDurationValue
  <1>2. usage["input"] # Invalid => Sampled(timed, half, mc, "input", usage["input"])
    BY <1>1, <1>0, WithTokensValue DEF TokenTypes
  <1>3. kept = timed \/ (kept = half /\ usage["input"] # Invalid)
    BY DEF ResolveBroken, Throws, Succeeded, TokenTypes
  <1>4. kept \in Registry
    BY <1>0, SucceededType
  <1> HIDE DEF timed, half, kept
  <1>5. /\ kept.duration[m] = metrics.duration[m]
        /\ \A t \in TokenTypes : /\ kept.tokens[m][t] = metrics.tokens[m][t]
                                 /\ kept.cost[m][t] = metrics.cost[m][t]
    BY <1>0, <1>1, <1>2, <1>3 DEF Sampled
  <1>6. QED BY <1>0, <1>4, <1>5, WithDurationValue DEF Errors

LEMMA SeriesKept == SeriesInv /\ [Next]_vars => SeriesInv'
  <1> SUFFICES ASSUME SeriesInv, [Next]_vars PROVE SeriesInv'
    OBVIOUS
  <1>0. IInv /\ CountsInv /\ IInv'
    BY NextIInv DEF SeriesInv
  <1>1. CASE UNCHANGED vars
    <2>1. CountsInv'
      BY <1>0, <1>1 DEF CountsInv, vars
    <2>2. ASSUME NEW m \in Models, Of(m)' \cap Broken' = {} PROVE Agree(m)'
      <3>1. Agree(m)
        BY <1>1, <2>2, SeriesAgreeByModel
        DEF SeriesInv, Of, Broken, Settled, vars
      <3>2. QED BY <1>1, <3>1, AgreeKept DEF Of, Settled, Resolved, vars
    <2>3. SeriesAgree'
      BY <2>2 DEF SeriesAgree, Agree, Used, CostOfUsed
    <2>4. QED BY <1>0, <2>1, <2>3 DEF SeriesInv
  <1>2. ASSUME NEW c \in Calls,
               Start(c) \/ Report(c) \/ Resolve(c) \/ ResolveBroken(c) \/ Throw(c)
        PROVE  SeriesInv'
    <2> DEFINE mc == call[c].model
    <2>0. /\ Steps(c)
          /\ call \in [Calls -> CallType]
          /\ metrics \in Registry
          /\ mc \in Models
          /\ call[c].usage \in AllUsages
      BY <1>0, <1>2, NextSteps DEF IInv, TypeOK, CallType, Registry
    <2>1. CountsInv'
      <3>1. \A d \in Calls \ {c} : call'[d] = call[d]
        BY <2>0 DEF Steps
      <3>2. call'[c].state = "resolved" => ~Throws(call'[c].usage)
        BY <1>2, <2>0 DEF Start, Report, Resolve, ResolveBroken, Throw, CallType
      <3>3. QED BY <1>0, <3>1, <3>2 DEF CountsInv
    <2>2. ASSUME NEW m \in Models, Of(m)' \cap Broken' = {} PROVE Agree(m)'
      <3>0. Agree(m)
        BY <2>0, <2>2, StepsOf, SeriesAgreeByModel DEF SeriesInv
      <3>1. \A d \in Resolved(m) : call'[d] = call[d]
        BY <2>0 DEF Steps, Resolved, Of
      <3> DEFINE Ends(states) == {d \in {c} : mc = m /\ call'[c].state \in states}
      <3>a. /\ (Of(m) \cap Settled)' = (Of(m) \cap Settled) \cup Ends({"resolved", "rejected"})
            /\ Resolved(m)' = Resolved(m) \cup Ends({"resolved"})
            /\ c \in Calls \ (Of(m) \cap Settled)
            /\ c \in Calls \ Resolved(m)
            /\ Of(m)' = Of(m)
        BY <2>0, StepsOf DEF Resolved, Settled
      <3>2. CASE Start(c) \/ Report(c)
        <4>1. /\ call'[c].state \notin {"resolved", "rejected"}
              /\ metrics' = metrics
          BY <2>0, <3>2 DEF Start, Report, CallType
        <4>2. (Of(m) \cap Settled)' = Of(m) \cap Settled /\ Resolved(m)' = Resolved(m)
          BY <3>a, <4>1
        <4>3. QED BY <3>0, <3>1, <4>1, <4>2, AgreeKept
      <3>3. CASE mc # m /\ (Resolve(c) \/ ResolveBroken(c) \/ Throw(c))
        <4>1. (Of(m) \cap Settled)' = Of(m) \cap Settled /\ Resolved(m)' = Resolved(m)
          BY <3>a, <3>3
        <4>2. /\ metrics'.duration[m] = metrics.duration[m]
              /\ \A t \in TokenTypes : /\ metrics'.tokens[m][t] = metrics.tokens[m][t]
                                       /\ metrics'.cost[m][t] = metrics.cost[m][t]
          <5>1. CASE Resolve(c)
            BY <2>0, <3>3, <5>1, SucceededValue DEF Resolve
          <5>2. CASE Throw(c)
            BY <2>0, <3>3, <5>2, WithDurationValue DEF Throw, FailedCall, Errors
          <5>3. CASE ResolveBroken(c)
            BY <1>0, <3>3, <5>3, BrokenElsewhere
          <5>4. QED BY <3>3, <5>1, <5>2, <5>3
        <4>3. QED BY <3>0, <3>1, <4>1, <4>2, AgreeKept
      <3>4. CASE mc = m /\ Resolve(c)
        <4>1. /\ call'[c].state = "resolved"
              /\ call'[c].usage = call[c].usage
              /\ ~Throws(call[c].usage)
              /\ metrics' = Succeeded(metrics, m, call[c].usage)
          BY <2>0, <3>4 DEF Resolve, CallType
        <4>2. /\ Resolved(m)' = Resolved(m) \cup {c}
              /\ (Of(m) \cap Settled)' = (Of(m) \cap Settled) \cup {c}
          BY <3>a, <3>4, <4>1
        <4>3. /\ Cardinality((Of(m) \cap Settled)') = Cardinality(Of(m) \cap Settled) + 1
              /\ Cardinality(Resolved(m)') = Cardinality(Resolved(m)) + 1
          BY <3>a, <4>2, CallsFinite DEF Of, Resolved
        <4>4. /\ SumFunction(metrics'.duration[m]) = SumFunction(metrics.duration[m]) + 1
              /\ \A t \in TokenTypes :
                   /\ metrics'.tokens[m][t] =
                        [count |-> metrics.tokens[m][t].count + 1,
                         sum |-> metrics.tokens[m][t].sum + call[c].usage[t]]
                   /\ metrics'.cost[m][t] =
                        metrics.cost[m][t] + CostOf(m, t, call[c].usage[t])
          BY <2>0, <4>1, SucceededValue
        <4>5. ASSUME NEW t \in TokenTypes
              PROVE  /\ Used(m, t)' = Used(m, t) + call[c].usage[t]
                     /\ Used(m, t) \in Int
                     /\ call[c].usage[t] \in Nat
          BY <1>0, <2>0, <3>1, <3>a, <4>1, <4>2, UsedMore
        <4>6. ASSUME NEW t \in TokenTypes
              PROVE  CostOfUsed(m, t)' = CostOfUsed(m, t) + CostOf(m, t, call[c].usage[t])
          BY <4>5, ConstantsAssumption DEF CostOfUsed, CostOf
        <4>7. ASSUME NEW t \in TokenTypes
              PROVE  /\ metrics'.tokens[m][t] =
                          [count |-> Cardinality(Resolved(m)'), sum |-> Used(m, t)']
                     /\ metrics'.cost[m][t] = CostOfUsed(m, t)'
          <5>1. /\ metrics.tokens[m][t] =
                      [count |-> Cardinality(Resolved(m)), sum |-> Used(m, t)]
                /\ metrics.cost[m][t] = CostOfUsed(m, t)
            BY <3>0 DEF Agree
          <5>2. QED BY <4>3, <4>4, <4>5, <4>6, <5>1
        <4>8. QED BY <3>0, <4>3, <4>4, <4>7 DEF Agree
      <3>5. CASE mc = m /\ ResolveBroken(c)
        <4>1. c \in Of(m)'
          BY <3>a, <3>5 DEF Of
        <4>2. c \in Broken'
          <5>1. observations'[c] = observations[c]
                  \o <<Observation(c, NoError), Observation(c, "TypeError")>>
            BY <1>0, <3>5 DEF ResolveBroken, IInv, TypeOK
          <5>2. observations[c] = <<>>
            BY <1>0, <2>0 DEF IInv, CallInv, Leaves, Steps
          <5>3. observations'[c] = <<Observation(c, NoError), Observation(c, "TypeError")>>
            BY <5>1, <5>2
          <5>4. 1 \in DOMAIN observations'[c] /\ observations'[c][1].error = NoError
            BY <5>3 DEF Observation
          <5>5. call'[c].state = "rejected"
            BY <2>0, <3>5 DEF ResolveBroken, CallType
          <5>6. QED BY <5>4, <5>5 DEF Broken, Settled
        <4>3. QED BY <2>2, <4>1, <4>2
      <3>6. CASE mc = m /\ Throw(c)
        <4>1. /\ call'[c].state = "rejected"
              /\ metrics' = WithDuration(metrics, m, "ModelError")
          BY <2>0, <3>6 DEF Throw, FailedCall, CallType
        <4>2. /\ Resolved(m)' = Resolved(m)
              /\ (Of(m) \cap Settled)' = (Of(m) \cap Settled) \cup {c}
          BY <3>a, <3>6, <4>1
        <4>3. Cardinality((Of(m) \cap Settled)') = Cardinality(Of(m) \cap Settled) + 1
          BY <3>a, <4>2, CallsFinite DEF Of
        <4>4. /\ SumFunction(metrics'.duration[m]) = SumFunction(metrics.duration[m]) + 1
              /\ metrics'.tokens = metrics.tokens
              /\ metrics'.cost = metrics.cost
          BY <2>0, <4>1, WithDurationValue DEF Errors
        <4>5. \A t : Used(m, t)' = Used(m, t)
          BY <3>1, <4>2, UsedKept
        <4>6. QED BY <3>0, <4>2, <4>3, <4>4, <4>5 DEF Agree, CostOfUsed
      <3>7. QED BY <1>2, <3>2, <3>3, <3>4, <3>5, <3>6
    <2>3. SeriesAgree'
      BY <2>2 DEF SeriesAgree, Agree, Used, CostOfUsed
    <2>4. QED BY <1>0, <2>1, <2>3 DEF SeriesInv
  <1>3. QED BY <1>1, <1>2 DEF Next

LEMMA InitSeries == Init => SeriesInv
  <1> SUFFICES ASSUME Init PROVE SeriesInv
    OBVIOUS
  <1>1. \A c \in Calls : call[c].state = "none"
    BY DEF Init
  <1>2. CountsInv
    BY <1>1 DEF CountsInv
  <1>3. ASSUME NEW m \in Models PROVE Agree(m)
    <2>1. Of(m) \cap Settled = {} /\ Resolved(m) = {}
      BY <1>1 DEF Settled, Resolved, Of
    <2>2. SumFunction(metrics.duration[m]) = 0
      <3> DEFINE f == [e \in Errors \cup {NoError} |-> 0]
                 S == Errors \cup {NoError}
      <3>1. metrics.duration[m] = f
        BY DEF Init
      <3>2. SumFunction(f) = SumFunctionOnSet(f, S) /\ \A e \in S : f[e] = 0
        BY DEF SumFunction
      <3> HIDE DEF f
      <3>3. QED BY <3>1, <3>2, LabelsFinite, SumZero
    <2>3. ASSUME NEW t \in TokenTypes PROVE Used(m, t) = 0
      <3> DEFINE f == [c \in Resolved(m) |-> call[c].usage[t]]
      <3>1. Used(m, t) = SumFunctionOnSet(f, {})
        BY <2>1 DEF Used, SumFunction
      <3>2. QED BY <3>1, SumEmpty
    <2>4. ASSUME NEW t \in TokenTypes
          PROVE  /\ metrics.tokens[m][t] = [count |-> 0, sum |-> 0]
                 /\ metrics.cost[m][t] = 0
      BY DEF Init
    <2>5. Cardinality({}) = 0
      BY FS_EmptySet
    <2>6. ASSUME NEW t \in TokenTypes PROVE CostOfUsed(m, t) = 0
      BY <2>3, ConstantsAssumption DEF CostOfUsed
    <2>7. QED BY <2>1, <2>2, <2>3, <2>4, <2>5, <2>6 DEF Agree
  <1>4. QED BY <1>2, <1>3, InitIInv, SeriesAgreeByModel DEF SeriesInv

(* Of a model none of whose calls its observer made fail, the duration      *)
(* histogram has counted every settled call, the token histogram every      *)
(* successful one and no other, with the tokens it used, and their cost is  *)
(* that of these tokens (observeModelCall, metrics.ts).                     *)
THEOREM TotalsAgree == Spec => []SeriesAgree
  <1>1. SeriesInv => SeriesAgree
    BY DEF SeriesInv
  <1>2. QED BY <1>1, InitSeries, SeriesKept, PTL DEF Spec

=============================================================================
