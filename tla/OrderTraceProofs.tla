-------------------------- MODULE OrderTraceProofs --------------------------
(***************************************************************************)
(* Theorems about OrderTrace, for any number of jobs and attempts, any     *)
(* carriers and any interleaving of the attempts.                          *)
(***************************************************************************)
EXTENDS OrderTrace, TLAPS

Running == {"quoting", "writing", "summarising", "returning", "throwing"}

IsBegun(i) == span[i].state # "none"

(* The trace a span belongs to is settled before it begins.                 *)
TraceId(i) ==
    IF i[3] = 0 \/ (continued[i[2]] /\ carrier[i[2]] = "injected")
    THEN <<"request", i[2], 0>>
    ELSE <<"process", i[2], i[3]>>

(* A span is begun once, in its own trace, by an attempt that has begun; a  *)
(* model call is begun last in its attempt.                                 *)
SpanOk(i) ==
    /\ span[i].trace = TraceId(i)
    /\ i[3] <= attempt[i[2]]
    /\ i[1] = "send" => IsBegun(<<"request", i[2], 0>>)
    /\ i[1] = "chat" /\ i[3] = attempt[i[2]] =>
         pc[i[2]] \notin {"quoting", "writing", "throwing"}

SpanInv == \A i \in SpanIds : IsBegun(i) => SpanOk(i)

(* The line of the 'failed' handler about the last attempt begun.           *)
FailedLine(j) == [job |-> j, attempt |-> attempt[j], of |-> "attempt",
                  trace |-> NoSpan, span |-> NoSpan]

(* An attempt runs in the context of its consumer span, which is open as    *)
(* long as it runs; the producer's span is there, and in the data, before   *)
(* the job is; and once a failed attempt was handled there is a line.       *)
JobOk(j) ==
    /\ pc[j] # "idle" => job[j] = "active" /\ attempt[j] \in Attempts
    /\ serving[j] # NoSpan => IsBegun(<<"request", j, 0>>)
    /\ job[j] = "none" => serving[j] \in {NoSpan, <<"request", j, 0>>}
    /\ carrier[j] = "injected" /\ job[j] # "none" => /\ IsBegun(<<"send", j, 0>>)
                                                    /\ data[j] = <<"send", j, 0>>
    /\ pc[j] \in Running => /\ active[j] = This("process", j)
                            /\ span[This("process", j)].state = "open"
    /\ pc[j] \notin Running => active[j] = NoSpan
    /\ pc[j] = "quoting" => IsBegun(This("quote", j))
    /\ pc[j] = "summarising" => IsBegun(This("chat", j))
    /\ pc[j] = "failed" => /\ span[This("process", j)].state = "ended"
                           /\ span[This("process", j)].status = "error"
    /\ /\ attempt[j] \in Attempts
       /\ span[This("process", j)].status = "error"
       /\ pc[j] # "failed"
       => FailedLine(j) \in lines

JobInv == \A j \in Jobs : JobOk(j)

(* A sample is about an attempt that ran.                                   *)
SampleInv ==
    \A x \in samples :
        /\ x.attempt <= attempt[x.job]
        /\ pc[x.job] \in Running => x.attempt # attempt[x.job]

(* A line names a span that has begun, or an attempt that failed.           *)
LineOk(l) ==
    IF l.span = NoSpan
    THEN /\ l.attempt \in Attempts
         /\ span[<<"process", l.job, l.attempt>>].state = "ended"
         /\ span[<<"process", l.job, l.attempt>>].status = "error"
         /\ l.of = "mark" => /\ l.attempt = MaxAttempts
                      /\ [l EXCEPT !.of = "attempt"] \in lines
    ELSE /\ IsBegun(l.span)
         /\ l.span[2] = l.job
         /\ l.span[3] = l.attempt
         /\ l.trace = TraceId(l.span)

LineInv == \A l \in lines : LineOk(l)

IInv ==
    /\ TypeOK
    /\ SpanInv /\ JobInv /\ SampleInv /\ LineInv
    /\ AttemptsLinkToProducer /\ SignalsAgree

-----------------------------------------------------------------------------
(* Spans and what starting and ending one does.                             *)

LEMMA Ids ==
  ASSUME NEW j \in Jobs
  PROVE  /\ <<"request", j, 0>> \in SpanIds
         /\ <<"send", j, 0>> \in SpanIds
         /\ \A n \in Attempts : /\ <<"process", j, n>> \in SpanIds
                                /\ <<"quote", j, n>> \in SpanIds
                                /\ <<"pricing", j, n>> \in SpanIds
                                /\ <<"chat", j, n>> \in SpanIds
  BY DEF SpanIds

LEMMA IdParts ==
  ASSUME NEW i \in SpanIds
  PROVE  /\ i = <<i[1], i[2], i[3]>>
         /\ i # NoSpan
         /\ i[2] \in Jobs
         /\ i[3] \in Nat
         /\ i[1] \in {"request", "send"} => i[3] = 0
         /\ i[1] \notin {"request", "send"} => i[3] \in Attempts
  BY ConstantsAssumption DEF SpanIds, NoSpan, Attempts

LEMMA StartedRoot ==
  ASSUME NEW spans \in [SpanIds -> SpanType], NEW i \in SpanIds,
         NEW link \in SpanIds \cup {NoSpan}, NEW after,
         after = Started(spans, i, NoSpan, link)
  PROVE  /\ after \in [SpanIds -> SpanType]
         /\ after[i].state = "open" /\ after[i].link = link /\ after[i].trace = i
         /\ after[i].parent = NoSpan /\ after[i].status = "unset"
         /\ \A k \in SpanIds \ {i} : after[k] = spans[k]
  BY DEF Started, SpanType

LEMMA StartedSpan ==
  ASSUME NEW spans \in [SpanIds -> SpanType], NEW i \in SpanIds,
         NEW parent \in SpanIds, parent # NoSpan,
         NEW link \in SpanIds \cup {NoSpan}, NEW after,
         after = Started(spans, i, parent, link)
  PROVE  /\ after \in [SpanIds -> SpanType]
         /\ after[i].state = "open" /\ after[i].link = link
         /\ after[i].parent = parent /\ after[i].status = "unset"
         /\ after[i].trace = spans[parent].trace
         /\ \A k \in SpanIds \ {i} : after[k] = spans[k]
  BY DEF Started, SpanType

LEMMA EndedSpan ==
  ASSUME NEW spans \in [SpanIds -> SpanType], NEW i \in SpanIds,
         NEW status \in {"unset", "error"}, NEW after,
         after = Ended(spans, i, status)
  PROVE  /\ after \in [SpanIds -> SpanType]
         /\ after[i].state = "ended" /\ after[i].status = status
         /\ after[i].trace = spans[i].trace /\ after[i].link = spans[i].link
         /\ after[i].parent = spans[i].parent
         /\ \A k \in SpanIds \ {i} : after[k] = spans[k]
  BY DEF Ended, SpanType

-----------------------------------------------------------------------------
LEMMA InitIInv == Init => IInv
  <1> SUFFICES ASSUME Init PROVE IInv
    OBVIOUS
  <1>1. TypeOK
    BY ConstantsAssumption DEF Init, TypeOK, SpanType
  <1>2. SpanInv /\ AttemptsLinkToProducer /\ SignalsAgree
    BY DEF Init, SpanInv, SpanOk, AttemptsLinkToProducer, SignalsAgree, Begun, IsBegun
  <1>3. JobInv /\ SampleInv /\ LineInv
    BY ConstantsAssumption
    DEF Init, JobInv, JobOk, SampleInv, LineInv, Running, Attempts
  <1>4. QED BY <1>1, <1>2, <1>3 DEF IInv

-----------------------------------------------------------------------------
(* A span that has begun stays so, and the end of an attempt is final.      *)
Grows ==
    /\ lines \subseteq lines'
    /\ \A i \in SpanIds :
         /\ IsBegun(i) => IsBegun(i)'
         /\ i[1] = "process" /\ span[i].state = "ended" => span'[i] = span[i]

LEMMA LinesKept ==
  ASSUME IInv, Grows, UNCHANGED <<carrier, continued>>,
         \A l \in lines' \ lines : LineOk(l)'
  PROVE  LineInv'
  <1> SUFFICES ASSUME NEW l \in lines PROVE LineOk(l)'
    BY DEF LineInv
  <1>1. l.job \in Jobs /\ l.span \in SpanIds \cup {NoSpan}
    BY DEF IInv, TypeOK, LineType
  <1>2. LineOk(l)
    BY DEF IInv, LineInv
  <1>3. QED
    BY <1>1, <1>2, Ids DEF LineOk, Grows, TraceId, IsBegun

(* A step of job j changes the spans in C, all of that job.                 *)
Changes(j, C) ==
    /\ UNCHANGED <<carrier, continued>>
    /\ \A k \in Jobs \ {j} : /\ job'[k] = job[k]
                             /\ attempt'[k] = attempt[k]
                             /\ pc'[k] = pc[k]
                             /\ active'[k] = active[k]
                             /\ serving'[k] = serving[k]
                             /\ data'[k] = data[k]
    /\ lines \subseteq lines'
    /\ span' \in [SpanIds -> SpanType]
    /\ \A i \in SpanIds \ C : span'[i] = span[i]
    /\ \A i \in C : i[2] = j /\ IsBegun(i)' /\ SpanOk(i)'

LEMMA OtherJobsKept ==
  ASSUME IInv, NEW j \in Jobs, NEW C \in SUBSET SpanIds, Changes(j, C)
  PROVE  \A k \in Jobs \ {j} : JobOk(k)'
  <1> SUFFICES ASSUME NEW k \in Jobs \ {j} PROVE JobOk(k)'
    OBVIOUS
  <1>1. ASSUME attempt[k] \in Attempts,
               NEW kind \in {"process", "quote", "chat"}
        PROVE  /\ This(kind, k)' = This(kind, k)
               /\ span'[This(kind, k)] = span[This(kind, k)]
    BY <1>1, Ids DEF This, Changes
  <1>2. /\ span'[<<"send", k, 0>>] = span[<<"send", k, 0>>]
        /\ span'[<<"request", k, 0>>] = span[<<"request", k, 0>>]
    BY Ids DEF Changes
  <1>3. JobOk(k)
    BY DEF IInv, JobInv
  <1>4. QED BY <1>1, <1>2, <1>3 DEF Changes, JobOk, IsBegun, Running, FailedLine

LEMMA SpansKept ==
  ASSUME IInv, NEW j \in Jobs, NEW C \in SUBSET SpanIds, Changes(j, C),
         attempt[j] <= attempt'[j], attempt[j] \in Nat, attempt'[j] \in Nat,
         \/ attempt[j] # attempt'[j]
         \/ pc[j] \in {"quoting", "writing", "throwing"}
         \/ pc'[j] \notin {"quoting", "writing", "throwing"}
  PROVE  SpanInv'
  <1> SUFFICES ASSUME NEW i \in SpanIds \ C, IsBegun(i)' PROVE SpanOk(i)'
    BY DEF SpanInv, Changes
  <1>1. SpanOk(i) /\ i[2] \in Jobs /\ i[3] \in Nat
    BY IdParts DEF IInv, SpanInv, Changes, IsBegun
  <1>2. i[1] = "send" => IsBegun(<<"request", i[2], 0>>)'
    BY <1>1, Ids DEF SpanOk, Changes, IsBegun
  <1>3. i[3] <= attempt'[i[2]]
    BY <1>1 DEF SpanOk, Changes
  <1>4. i[1] = "chat" /\ i[3] = attempt'[i[2]] =>
          pc'[i[2]] \notin {"quoting", "writing", "throwing"}
    BY <1>1 DEF SpanOk, Changes
  <1>5. span'[i].trace = TraceId(i)'
    BY <1>1 DEF SpanOk, Changes, TraceId
  <1>6. QED BY <1>2, <1>3, <1>4, <1>5 DEF SpanOk

(* What a step within an attempt, or outside of one, has to show.           *)
LEMMA Step ==
  ASSUME IInv, TypeOK', NEW j \in Jobs, NEW C \in SUBSET SpanIds, Changes(j, C),
         \A i \in C : i[1] # "process",
         UNCHANGED <<attempt, samples>>,
         \/ pc[j] \in {"quoting", "writing", "throwing"}
         \/ pc'[j] \notin {"quoting", "writing", "throwing"},
         pc'[j] \in Running => pc[j] \in Running,
         JobOk(j)', \A l \in lines' \ lines : LineOk(l)'
  PROVE  IInv'
  <1>1. SpanInv'
    BY SpansKept, ConstantsAssumption DEF IInv, TypeOK
  <1>2. JobInv'
    BY OtherJobsKept DEF JobInv
  <1>3. SampleInv'
    BY DEF IInv, TypeOK, SampleInv, Changes
  <1>4. \A i \in SpanIds : i[1] = "process" => span'[i] = span[i]
    BY DEF Changes
  <1>5. AttemptsLinkToProducer' /\ SignalsAgree'
    BY <1>4 DEF Changes, IInv, AttemptsLinkToProducer, SignalsAgree, Begun
  <1>6. LineInv'
    BY <1>4, LinesKept DEF Changes, Grows, IsBegun
  <1>7. QED BY <1>1, <1>2, <1>3, <1>5, <1>6 DEF IInv

-----------------------------------------------------------------------------
(* The api.                                                                 *)

LEMMA ReceiveIInv == ASSUME IInv, NEW j \in Jobs, Receive(j) PROVE IInv'
  <1> PICK request \in SpanIds :
        /\ request = <<"request", j, 0>>
        /\ request[1] = "request" /\ request[2] = j /\ request[3] = 0
    BY Ids
  <1>0. JobOk(j) /\ span \in [SpanIds -> SpanType] /\ attempt[j] \in Nat
    BY ConstantsAssumption DEF IInv, TypeOK, JobInv
  <1>1. /\ span' \in [SpanIds -> SpanType]
        /\ span'[request].state = "open" /\ span'[request].trace = request
        /\ \A k \in SpanIds \ {request} : span'[k] = span[k]
    <2>1. span' = Started(span, request, NoSpan, NoSpan)
      BY DEF Receive
    <2>2. QED BY ONLY <1>0, <2>1, StartedRoot, request \in SpanIds
  <1>2. Changes(j, {request})
    <2>1. SpanOk(request)'
      BY <1>0, <1>1 DEF Receive, SpanOk, TraceId
    <2>2. QED BY <1>1, <2>1 DEF Receive, Changes, IsBegun, IInv, TypeOK, fixed, api
  <1>3. JobOk(j)'
    <2>1. attempt[j] \in Attempts =>
            span'[This("process", j)] = span[This("process", j)]
      BY <1>1, Ids DEF This
    <2>2. /\ serving'[j] = request /\ pc[j] = "idle"
          /\ UNCHANGED <<fixed, data, job, attempt, pc, active, lines>>
      BY <1>0 DEF Receive, JobOk, IInv, TypeOK
    <2>3. This("process", j)' = This("process", j) /\ FailedLine(j)' = FailedLine(j)
      BY <2>2 DEF This, FailedLine
    <2>4. IsBegun(request)' /\ job[j] = "none"
      BY <1>1 DEF Receive, IsBegun
    <2>5. QED BY <1>0, <2>1, <2>2, <2>3, <2>4 DEF JobOk, Running
  <1>4. TypeOK'
    BY <1>1 DEF Receive, IInv, TypeOK, fixed, api
  <1>5. pc'[j] \notin {"quoting", "writing", "throwing"} /\ pc' = pc
    BY <1>0 DEF Receive, JobOk
  <1>6. QED BY <1>2, <1>3, <1>4, <1>5, Step DEF Receive

LEMMA SendIInv == ASSUME IInv, NEW j \in Jobs, Send(j) PROVE IInv'
  <1> PICK request \in SpanIds, send \in SpanIds :
        /\ request = <<"request", j, 0>> /\ send = <<"send", j, 0>>
        /\ request[1] = "request" /\ request[2] = j /\ request[3] = 0
        /\ send[1] = "send" /\ send[2] = j /\ send[3] = 0
        /\ request # NoSpan /\ request # send
    BY Ids, IdParts
  <1>0. /\ span \in [SpanIds -> SpanType] /\ attempt[j] \in Nat
        /\ JobOk(j) /\ pc[j] = "idle" /\ active[j] = NoSpan
        /\ serving[j] = request /\ SpanOk(request) /\ IsBegun(request)
    BY ConstantsAssumption
    DEF Send, IInv, TypeOK, JobInv, JobOk, SpanInv, Running
  <1>1. /\ span' \in [SpanIds -> SpanType]
        /\ span'[send].state = "open" /\ span'[send].trace = span[request].trace
        /\ \A k \in SpanIds \ {send} : span'[k] = span[k]
    <2>1. span' = Started(span, send, request, NoSpan)
      BY <1>0 DEF Send
    <2>2. QED BY ONLY <1>0, <2>1, StartedSpan, request \in SpanIds,
                      request # NoSpan, send \in SpanIds
  <1>2. /\ serving'[j] = send /\ data'[j] = send /\ job'[j] = "sending"
        /\ UNCHANGED <<carrier, continued, attempt, pc, active, samples>>
    BY DEF Send, Injected, IInv, TypeOK, fixed
  <1> PICK line : /\ line = [job |-> j, attempt |-> 0, of |-> "attempt",
                             trace |-> span[request].trace, span |-> request]
                  /\ lines' = lines \cup {line}
    <2>1. Line(j, request) = [job |-> j, attempt |-> attempt[j], of |-> "attempt",
                              trace |-> span[request].trace, span |-> request]
      BY DEF Line, TraceOf
    <2>2. OrderLine(j, request) = [job |-> j, attempt |-> 0, of |-> "attempt",
                                   trace |-> span[request].trace, span |-> request]
      BY <2>1 DEF OrderLine
    <2>3. lines' = lines \cup {OrderLine(j, request)}
      BY <1>0 DEF Send
    <2>4. QED BY <2>2, <2>3
  <1>3. Changes(j, {send})
    <2>1. SpanOk(send)'
      BY <1>0, <1>1, <1>2 DEF SpanOk, TraceId, IsBegun
    <2>2. QED BY <1>1, <1>2, <2>1 DEF Send, Changes, IsBegun, IInv, TypeOK
  <1>4. JobOk(j)'
    <2>1. attempt[j] \in Attempts =>
            span'[This("process", j)] = span[This("process", j)]
      BY <1>1, Ids DEF This
    <2>2. This("process", j)' = This("process", j) /\ FailedLine(j)' = FailedLine(j)
      BY <1>2 DEF This, FailedLine
    <2>3. IsBegun(request)' /\ IsBegun(send)'
      BY <1>0, <1>1 DEF IsBegun
    <2>4. QED BY <1>0, <1>2, <2>1, <2>2, <2>3 DEF JobOk, Running
  <1>5. TypeOK'
    <2>1. span[request].trace \in SpanIds \cup {NoSpan} /\ 0 \in 0 .. MaxAttempts
      BY <1>0, ConstantsAssumption DEF SpanType
    <2>2. line \in LineType
      BY <2>1 DEF LineType
    <2>3. QED BY <1>1, <1>2, <2>2 DEF Send, Injected, IInv, TypeOK
  <1>6. LineOk(line)'
    BY <1>0, <1>1, <1>2 DEF LineOk, SpanOk, IsBegun, TraceId
  <1>7. QED BY <1>0, <1>2, <1>3, <1>4, <1>5, <1>6, Step

LEMMA EnqueueIInv == ASSUME IInv, NEW j \in Jobs, Enqueue(j) PROVE IInv'
  <1>1. TypeOK'
    BY DEF Enqueue, IInv, TypeOK, fixed, api
  <1>2. Changes(j, {})
    BY DEF Enqueue, Changes, IInv, TypeOK, fixed, api
  <1>3. JobOk(j)'
    <2>1. This("process", j)' = This("process", j) /\ FailedLine(j)' = FailedLine(j)
      BY DEF Enqueue, This, FailedLine
    <2>2. JobOk(j) /\ job'[j] = "waiting"
      BY DEF Enqueue, IInv, TypeOK, JobInv
    <2>3. QED BY <2>1, <2>2 DEF Enqueue, JobOk, IsBegun, Running, fixed, api
  <1>4. QED BY <1>1, <1>2, <1>3, Step DEF Enqueue

LEMMA SentIInv == ASSUME IInv, NEW j \in Jobs, Sent(j) PROVE IInv'
  <1> DEFINE request == <<"request", j, 0>>
             send    == <<"send", j, 0>>
             line    == OrderLine(j, request)
  <1>0. /\ request \in SpanIds /\ send \in SpanIds
        /\ request # NoSpan /\ request # send
        /\ span \in [SpanIds -> SpanType]
    BY Ids, IdParts DEF IInv, TypeOK
  <1>1. SpanOk(send) /\ SpanOk(request) /\ JobOk(j)
    BY <1>0 DEF Sent, IInv, SpanInv, SpanOk, JobInv, IsBegun
  <1>2. /\ span' \in [SpanIds -> SpanType]
        /\ span'[send].state = "ended" /\ span'[send].trace = span[send].trace
        /\ span'[request].state = "ended" /\ span'[request].trace = span[request].trace
        /\ \A k \in SpanIds \ {request, send} : span'[k] = span[k]
    <2> PICK status \in {"unset", "error"} :
          span' = Ended(Ended(span, send, status), request, status)
      BY DEF Sent
    <2> DEFINE half == Ended(span, send, status)
    <2>0. span' = Ended(half, request, status)
      OBVIOUS
    <2>1. /\ half \in [SpanIds -> SpanType]
          /\ half[send].state = "ended" /\ half[send].trace = span[send].trace
          /\ \A k \in SpanIds \ {send} : half[k] = span[k]
      <3> HIDE DEF request, send
      <3>1. QED BY <1>0, EndedSpan
    <2> HIDE DEF half, request, send
    <2>2. QED BY <1>0, <2>0, <2>1, EndedSpan
  <1>3. Changes(j, {request, send})
    BY <1>0, <1>1, <1>2 DEF Sent, Changes, SpanOk, IsBegun, TraceId, IInv, TypeOK, fixed, api
  <1>4. JobOk(j)'
    <2>1. attempt[j] \in Attempts =>
            /\ span'[This("process", j)] = span[This("process", j)]
            /\ span'[This("quote", j)] = span[This("quote", j)]
            /\ span'[This("chat", j)] = span[This("chat", j)]
      BY <1>2, Ids DEF This
    <2>2. This("process", j)' = This("process", j) /\ This("quote", j)' = This("quote", j)
          /\ This("chat", j)' = This("chat", j) /\ FailedLine(j)' = FailedLine(j)
      BY DEF This, Sent, FailedLine
    <2>3. job[j] = "sending" => pc[j] = "idle"
      BY <1>1 DEF JobOk
    <2>4. /\ job'[j] = IF job[j] = "sending" THEN "settled" ELSE job[j]
          /\ serving'[j] = NoSpan /\ lines \subseteq lines'
      BY DEF Sent, IInv, TypeOK
    <2>5. QED
      BY <1>1, <1>2, <2>1, <2>2, <2>3, <2>4 DEF Sent, JobOk, IsBegun, Running, fixed, api
  <1>5. /\ line = [job |-> j, attempt |-> 0, of |-> "attempt", trace |-> span[request].trace,
                   span |-> request]
        /\ lines' \ lines \subseteq {line}
    BY <1>0 DEF Sent, OrderLine, Line, TraceOf
  <1>6. TypeOK'
    <2>1. lines' \subseteq LineType
      <3>1. span[request].trace \in SpanIds \cup {NoSpan}
        BY <1>0 DEF SpanType
      <3>2. line \in LineType
        BY <1>0, <1>5, <3>1, ConstantsAssumption DEF LineType
      <3> HIDE DEF line
      <3>3. QED BY <1>5, <3>2 DEF IInv, TypeOK
    <2>2. QED BY <1>2, <2>1 DEF Sent, IInv, TypeOK, fixed, api
  <1>7. ASSUME NEW l \in lines' \ lines PROVE LineOk(l)'
    <2>1. l = line
      BY <1>5
    <2>2. QED BY <1>0, <1>1, <1>2, <1>5, <2>1 DEF Sent, LineOk, SpanOk, IsBegun, TraceId
  <1>8. QED BY <1>0, <1>3, <1>4, <1>6, <1>7, Step DEF Sent, IInv, JobInv, JobOk

-----------------------------------------------------------------------------
(* The worker, within an attempt.                                           *)

Kinds == {"process", "quote", "pricing", "chat"}

LEMMA Attempt ==
  ASSUME IInv, NEW j \in Jobs, pc[j] \in Running
  PROVE  /\ attempt[j] \in Attempts
         /\ active[j] = This("process", j)
         /\ span[This("process", j)].state = "open"
         /\ \A kind \in Kinds :
              LET i == This(kind, j)
              IN  /\ i \in SpanIds /\ i # NoSpan
                  /\ i[1] = kind /\ i[2] = j /\ i[3] = attempt[j]
                  /\ TraceId(i) = TraceId(This("process", j))
                  /\ IsBegun(i) => SpanOk(i)
                  /\ span[i] \in SpanType
  <1>1. /\ attempt[j] \in Attempts
        /\ active[j] = This("process", j)
        /\ span[This("process", j)].state = "open"
    BY DEF IInv, JobInv, JobOk, Running
  <1>2. ASSUME NEW kind \in Kinds
        PROVE  /\ This(kind, j) \in SpanIds /\ This(kind, j) # NoSpan
               /\ TraceId(This(kind, j)) = TraceId(This("process", j))
    BY <1>1, Ids, IdParts DEF This, Kinds, TraceId
  <1>3. QED BY <1>1, <1>2 DEF This, IInv, SpanInv, TypeOK

(* A line written in the attempt's context.                                 *)
LEMMA OwnLine ==
  ASSUME IInv, NEW j \in Jobs, pc[j] \in Running
  PROVE  /\ Line(j, active[j]) \in
              LineType
         /\ LineOk(Line(j, active[j]))
  <1> DEFINE i == This("process", j)
  <1>1. /\ i \in SpanIds /\ i # NoSpan /\ active[j] = i
        /\ i[2] = j /\ i[3] = attempt[j] /\ attempt[j] \in 0 .. MaxAttempts
        /\ IsBegun(i) /\ SpanOk(i) /\ span[i].trace \in SpanIds \cup {NoSpan}
    BY Attempt DEF Kinds, IsBegun, SpanType, IInv, TypeOK
  <1> HIDE DEF i
  <1>2. Line(j, active[j]) = [job |-> j, attempt |-> attempt[j], of |-> "attempt",
                              trace |-> span[i].trace, span |-> i]
    BY <1>1 DEF Line, TraceOf
  <1>3. QED BY <1>1, <1>2 DEF LineOk, SpanOk, LineType

(* A step of an attempt that goes on, and changes one span below it.        *)
LEMMA AttemptStep ==
  ASSUME IInv, TypeOK', NEW j \in Jobs, pc[j] \in Running, pc'[j] \in Running,
         UNCHANGED <<carrier, continued, serving, data, job, attempt, active, samples>>,
         \A k \in Jobs \ {j} : pc'[k] = pc[k],
         NEW kind \in {"quote", "pricing", "chat"}, NEW i, i = This(kind, j),
         \A k \in SpanIds \ {i} : span'[k] = span[k],
         IsBegun(i)', span'[i].trace = TraceId(i),
         \/ /\ kind # "chat"
            /\ pc'[j] = "summarising" => pc[j] = "summarising"
            /\ pc[j] \in {"quoting", "writing", "throwing"}
         \/ kind = "chat" /\ pc'[j] \notin {"quoting", "writing", "throwing"},
         pc'[j] = "quoting" => pc[j] = "quoting",
         lines \subseteq lines',
         \A l \in lines' \ lines : LineOk(l)'
  PROVE  IInv'
  <1>1. /\ i \in SpanIds /\ i # NoSpan /\ attempt[j] \in Attempts
        /\ i[1] = kind /\ i[2] = j /\ i[3] = attempt[j]
        /\ \A other \in Kinds \ {kind} : /\ This(other, j) # i
                                         /\ This(other, j) \in SpanIds
    BY Attempt DEF Kinds
  <1>2. \A k \in Kinds : This(k, j)' = This(k, j)
    BY DEF This
  <1>3. Changes(j, {i})
    <2>1. SpanOk(i)'
      <3>1. attempt[j] \in Nat
        BY <1>1, ConstantsAssumption DEF Attempts
      <3>2. QED BY <1>1, <3>1 DEF SpanOk, TraceId
    <2>2. span' \in [SpanIds -> SpanType]
      BY DEF TypeOK
    <2>3. QED BY <1>1, <2>1, <2>2 DEF Changes
  <1>4. JobOk(j)'
    <2>1. /\ span'[<<"send", j, 0>>] = span[<<"send", j, 0>>]
          /\ span'[<<"request", j, 0>>] = span[<<"request", j, 0>>]
      <3>1. <<"send", j, 0>> # i /\ <<"request", j, 0>> # i
        BY <1>1
      <3>2. QED BY <3>1, Ids
    <2>2. JobOk(j)
      BY DEF IInv, JobInv
    <2>3. IsBegun(This("quote", j)) => IsBegun(This("quote", j))'
      BY <1>1, <1>2 DEF Kinds, IsBegun
    <2>4. pc'[j] = "summarising" => IsBegun(This("chat", j))'
      BY <1>1, <1>2, <2>2 DEF Kinds, IsBegun, JobOk
    <2>5. /\ This("process", j)' = This("process", j)
          /\ span'[This("process", j)] = span[This("process", j)]
          /\ FailedLine(j)' = FailedLine(j)
      BY <1>1, <1>2 DEF Kinds, FailedLine
    <2>6. QED
      BY <2>1, <2>2, <2>3, <2>4, <2>5 DEF JobOk, IsBegun, Running
  <1>5. QED BY <1>1, <1>3, <1>4, Step

LEMMA PriceIInv == ASSUME IInv, NEW j \in Jobs, Price(j) PROVE IInv'
  <1>0. /\ pc[j] = "quoting" /\ pc[j] \in Running /\ IsBegun(This("quote", j))
        /\ span \in [SpanIds -> SpanType]
    BY DEF Price, Running, IInv, TypeOK, JobInv, JobOk
  <1> PICK quote \in SpanIds, pricing \in SpanIds :
        /\ quote = This("quote", j) /\ pricing = This("pricing", j)
        /\ quote # NoSpan /\ pricing # NoSpan /\ SpanOk(quote)
        /\ pricing[2] = j /\ pricing[3] = attempt[j]
        /\ TraceId(pricing) = TraceId(quote)
    BY <1>0, Attempt DEF Kinds
  <1>2. /\ span' \in [SpanIds -> SpanType]
        /\ span'[pricing].state = "open"
        /\ span'[pricing].trace = TraceId(pricing)
        /\ \A k \in SpanIds \ {pricing} : span'[k] = span[k]
    <2>1. NoSpan \in SpanIds \cup {NoSpan} /\ span' = Started(span, pricing, quote, NoSpan)
      BY DEF Price
    <2>2. QED BY <1>0, <2>1, StartedSpan DEF SpanOk
  <1> PICK line : /\ line = [job |-> j, attempt |-> attempt[j], of |-> "attempt",
                             trace |-> span[quote].trace, span |-> pricing]
                  /\ lines' = lines \cup {line}
    <2>1. lines' = lines \cup {[Line(j, quote) EXCEPT !.span = pricing]}
      BY DEF Price
    <2>2. Line(j, quote) = [job |-> j, attempt |-> attempt[j], of |-> "attempt",
                            trace |-> span[quote].trace, span |-> quote]
      BY DEF Line, TraceOf
    <2>3. [Line(j, quote) EXCEPT !.span = pricing] =
            [job |-> j, attempt |-> attempt[j], of |-> "attempt", trace |-> span[quote].trace,
             span |-> pricing]
      BY <2>2
    <2>4. QED BY <2>1, <2>3, Zenon
  <1>3. TypeOK'
    <2>1. /\ span[quote].trace \in SpanIds \cup {NoSpan}
          /\ attempt[j] \in 0 .. MaxAttempts
      BY <1>0 DEF SpanType, IInv, TypeOK
    <2>2. line \in LineType
      BY <2>1 DEF LineType
    <2>3. QED BY <1>2, <2>2 DEF Price, IInv, TypeOK, fixed, api
  <1>4. LineOk(line)'
    <2>1. line.trace = TraceId(pricing)
      BY DEF SpanOk
    <2>2. QED BY <1>2, <2>1 DEF Price, LineOk, IsBegun, TraceId, fixed, api
  <1>5. QED BY <1>0, <1>2, <1>3, <1>4, AttemptStep DEF Price, Running, IsBegun, fixed, api

(* The response may come when the attempt is over.                          *)
LEMMA ServedIInv == ASSUME IInv, NEW j \in Jobs, Served(j) PROVE IInv'
  <1> PICK n \in Attempts, status \in {"unset", "error"} :
        /\ span[<<"pricing", j, n>>].state = "open"
        /\ span' = Ended(span, <<"pricing", j, n>>, status)
        /\ UNCHANGED <<carrier, continued, serving, data, job, attempt, pc, active, lines, samples>>
    BY DEF Served, fixed, api
  <1> PICK i \in SpanIds : /\ i = <<"pricing", j, n>>
                           /\ i[1] = "pricing" /\ i[2] = j /\ i[3] = n
    BY Ids
  <1>1. span \in [SpanIds -> SpanType] /\ SpanOk(i) /\ JobOk(j)
    BY DEF IInv, TypeOK, SpanInv, JobInv, IsBegun
  <1>2. /\ span' \in [SpanIds -> SpanType]
        /\ span'[i].state = "ended" /\ span'[i].trace = span[i].trace
        /\ \A k \in SpanIds \ {i} : span'[k] = span[k]
    <2>1. span' = Ended(span, i, status)
      OBVIOUS
    <2>2. QED BY ONLY <1>1, <2>1, i \in SpanIds, status \in {"unset", "error"}, EndedSpan
  <1>3. TypeOK'
    BY <1>2 DEF IInv, TypeOK
  <1>4. Changes(j, {i})
    <2>1. SpanOk(i)'
      BY <1>1, <1>2 DEF SpanOk, TraceId
    <2>2. QED BY <1>2, <2>1 DEF Changes, IsBegun
  <1>5. JobOk(j)'
    <2>1. ASSUME NEW kind \in {"process", "quote", "chat"}, attempt[j] \in Attempts
          PROVE  /\ This(kind, j)' = This(kind, j)
                 /\ span'[This(kind, j)] = span[This(kind, j)]
      BY <1>2, <2>1, Ids DEF This
    <2>2. /\ span'[<<"send", j, 0>>] = span[<<"send", j, 0>>]
          /\ span'[<<"request", j, 0>>] = span[<<"request", j, 0>>]
      BY <1>2, Ids
    <2>3. FailedLine(j)' = FailedLine(j)
      BY DEF FailedLine
    <2>4. QED BY <1>1, <2>1, <2>2, <2>3 DEF JobOk, IsBegun, Running
  <1>6. QED BY <1>3, <1>4, <1>5, Step

LEMMA PricedIInv ==
  ASSUME IInv, NEW j \in Jobs, Priced(j) \/ PriceFails(j) PROVE IInv'
  <1>0. /\ pc[j] = "quoting" /\ pc[j] \in Running /\ IsBegun(This("quote", j))
        /\ pc' \in [Jobs -> {"idle", "quoting", "writing", "summarising",
                             "returning", "throwing", "failed"}]
        /\ pc'[j] \in {"writing", "throwing"} /\ \A k \in Jobs \ {j} : pc'[k] = pc[k]
        /\ span \in [SpanIds -> SpanType]
    BY DEF Priced, PriceFails, At, Running, IInv, TypeOK, JobInv, JobOk
  <1> PICK quote \in SpanIds : quote = This("quote", j) /\ SpanOk(quote)
    BY <1>0, Attempt DEF Kinds
  <1>1. /\ span' \in [SpanIds -> SpanType]
        /\ span'[quote].state = "ended" /\ span'[quote].trace = TraceId(quote)
        /\ \A k \in SpanIds \ {quote} : span'[k] = span[k]
    <2>1. \E status \in {"unset", "error"} : span' = Ended(span, quote, status)
      BY DEF Priced, PriceFails
    <2>2. QED BY <1>0, <2>1, EndedSpan DEF SpanOk
  <1>2. UNCHANGED <<carrier, continued, serving, data, job, attempt, active, lines, samples>>
    BY DEF Priced, PriceFails, At, fixed, api
  <1>3. TypeOK'
    BY <1>0, <1>1, <1>2 DEF IInv, TypeOK
  <1>4. QED BY <1>0, <1>1, <1>2, <1>3, AttemptStep DEF Running, IsBegun

LEMMA WriteIInv == ASSUME IInv, NEW j \in Jobs, Write(j) PROVE IInv'
  <1>0. /\ pc[j] = "writing" /\ pc[j] \in Running /\ pc'[j] = "summarising"
        /\ \A k \in Jobs \ {j} : pc'[k] = pc[k]
        /\ span \in [SpanIds -> SpanType]
    BY DEF Write, At, Running, IInv, TypeOK
  <1> PICK chat \in SpanIds, process \in SpanIds :
        /\ chat = This("chat", j) /\ process = active[j] /\ process # NoSpan
        /\ SpanOk(process) /\ TraceId(chat) = TraceId(process)
    BY <1>0, Attempt DEF Kinds, IsBegun
  <1>1. /\ span' \in [SpanIds -> SpanType]
        /\ span'[chat].state = "open" /\ span'[chat].trace = TraceId(chat)
        /\ \A k \in SpanIds \ {chat} : span'[k] = span[k]
    <2>1. NoSpan \in SpanIds \cup {NoSpan} /\ span' = Started(span, chat, process, NoSpan)
      BY DEF Write
    <2>2. QED BY <1>0, <2>1, StartedSpan DEF SpanOk
  <1> PICK line : /\ line = Line(j, active[j]) /\ lines' = lines \cup {line}
    BY DEF Write
  <1>2. UNCHANGED <<carrier, continued, serving, data, job, attempt, active, samples>>
    BY DEF Write, At, fixed, api
  <1>3. TypeOK'
    BY <1>0, <1>1, <1>2, OwnLine DEF Write, At, IInv, TypeOK
  <1>4. LineOk(line)'
    <2>1. LineOk(line) /\ line.span \in SpanIds /\ line.span # NoSpan
      BY <1>0, OwnLine, Attempt DEF Kinds, Line
    <2>2. IsBegun(line.span)'
      BY <1>1, <2>1 DEF LineOk, IsBegun
    <2>3. QED BY <1>2, <2>1, <2>2 DEF LineOk, TraceId
  <1>5. QED BY <1>0, <1>1, <1>2, <1>3, <1>4, AttemptStep DEF Running, IsBegun

LEMMA WriteFailsIInv == ASSUME IInv, NEW j \in Jobs, WriteFails(j) PROVE IInv'
  <1>0. /\ pc[j] = "writing" /\ pc[j] \in Running /\ pc'[j] = "throwing"
        /\ \A k \in Jobs \ {j} : pc'[k] = pc[k]
        /\ span \in [SpanIds -> SpanType]
        /\ UNCHANGED <<carrier, continued, serving, data, job, attempt, active, span, lines, samples>>
    BY DEF WriteFails, At, Running, IInv, TypeOK, fixed, api
  <1>1. TypeOK'
    BY DEF WriteFails, At, IInv, TypeOK, fixed, api
  <1>2. Changes(j, {})
    BY <1>0 DEF Changes
  <1>3. JobOk(j)'
    BY <1>0 DEF IInv, JobInv, JobOk, This, Running, IsBegun, FailedLine
  <1>4. QED BY <1>0, <1>1, <1>2, <1>3, Step

LEMMA SummariseIInv == ASSUME IInv, NEW j \in Jobs, Summarise(j) PROVE IInv'
  <1>0. /\ pc[j] = "summarising" /\ pc[j] \in Running /\ pc'[j] = "returning"
        /\ \A k \in Jobs \ {j} : pc'[k] = pc[k]
        /\ span \in [SpanIds -> SpanType] /\ IsBegun(This("chat", j))
    BY DEF Summarise, At, AfterSummary, Running, IInv, TypeOK, JobInv, JobOk
  <1> PICK chat \in SpanIds : chat = This("chat", j) /\ SpanOk(chat)
    BY <1>0, Attempt DEF Kinds
  <1>1. /\ span' \in [SpanIds -> SpanType]
        /\ span'[chat].state = "ended" /\ span'[chat].trace = TraceId(chat)
        /\ \A k \in SpanIds \ {chat} : span'[k] = span[k]
    <2>1. \E status \in {"unset", "error"} : span' = Ended(span, chat, status)
      BY DEF Summarise
    <2>2. QED BY <1>0, <2>1, EndedSpan DEF SpanOk
  <1> PICK line : /\ line = Line(j, active[j]) /\ lines' = lines \cup {line}
    BY DEF Summarise
  <1>2. UNCHANGED <<carrier, continued, serving, data, job, attempt, active, samples>>
    BY DEF Summarise, At, fixed, api
  <1>3. TypeOK'
    BY <1>0, <1>1, <1>2, OwnLine DEF Summarise, At, AfterSummary, IInv, TypeOK
  <1>4. LineOk(line)'
    <2>1. LineOk(line) /\ line.span \in SpanIds /\ line.span # NoSpan
      BY <1>0, OwnLine, Attempt DEF Kinds, Line
    <2>2. IsBegun(line.span)'
      BY <1>1, <2>1 DEF LineOk, IsBegun
    <2>3. QED BY <1>2, <2>1, <2>2 DEF LineOk, TraceId
  <1>5. QED BY <1>0, <1>1, <1>2, <1>3, <1>4, AttemptStep DEF Running, IsBegun

(* The handler's line has no span, and is about the attempt that failed.    *)
LEMMA FailedEventIInv == ASSUME IInv, NEW j \in Jobs, FailedEvent(j) PROVE IInv'
  <1>0. /\ pc[j] = "failed" /\ pc'[j] = "idle"
        /\ \A k \in Jobs \ {j} : pc'[k] = pc[k] /\ job'[k] = job[k]
        /\ job'[j] \in {"waiting", "settled"} /\ job[j] = "active"
        /\ span \in [SpanIds -> SpanType]
        /\ UNCHANGED <<carrier, continued, serving, data, attempt, active, span, samples>>
    BY DEF FailedEvent, At, IInv, TypeOK, JobInv, JobOk, fixed, api
  <1>1. JobOk(j)
    BY DEF IInv, JobInv
  <1> PICK line : /\ line = [job |-> j, attempt |-> attempt[j], of |-> "attempt", trace |-> NoSpan,
                             span |-> NoSpan]
                  /\ lines' = lines \cup {line}
    <2>1. Line(j, active[j]) = [job |-> j, attempt |-> attempt[j], of |-> "attempt",
                                trace |-> NoSpan, span |-> NoSpan]
      BY <1>0, <1>1 DEF Line, TraceOf, JobOk, Running
    <2>2. QED BY <2>1 DEF FailedEvent
  <1>2. TypeOK'
    <2>1. line \in LineType
      BY DEF IInv, TypeOK, LineType
    <2>2. QED BY <1>0, <2>1 DEF FailedEvent, At, IInv, TypeOK
  <1>3. Changes(j, {})
    BY <1>0 DEF Changes
  <1>4. JobOk(j)'
    BY <1>0, <1>1 DEF JobOk, This, Running, IsBegun, FailedLine
  <1>5. LineOk(line)'
    BY <1>0, <1>1 DEF LineOk, JobOk, This
  <1>6. QED BY <1>0, <1>2, <1>3, <1>4, <1>5, Step DEF Running

(* Nor has that of the mark, which comes after the line of the handler.     *)
LEMMA MarkFailsIInv == ASSUME IInv, NEW j \in Jobs, MarkFails(j) PROVE IInv'
  <1>0. /\ pc[j] = "idle" /\ active[j] = NoSpan /\ attempt[j] \in Attempts
        /\ JobOk(j)
        /\ UNCHANGED <<carrier, continued, serving, data, job, attempt, pc, active,
                       span, samples>>
    BY ConstantsAssumption
    DEF MarkFails, IInv, JobInv, JobOk, TypeOK, Running, Attempts, fixed, api
  <1>1. FailedLine(j) \in lines
    BY <1>0 DEF MarkFails, JobOk
  <1> PICK line : /\ line = [FailedLine(j) EXCEPT !.of = "mark"]
                  /\ lines' = lines \cup {line}
    <2>1. Line(j, active[j]) = FailedLine(j)
      BY <1>0 DEF Line, TraceOf, FailedLine
    <2>2. QED BY <2>1 DEF MarkFails
  <1>2. FailedLine(j)' = FailedLine(j) /\ This("process", j)' = This("process", j)
    BY <1>0 DEF FailedLine, This
  <1>3. /\ line.span = NoSpan /\ line.job = j /\ line.attempt = attempt[j]
        /\ [line EXCEPT !.of = "attempt"] = FailedLine(j)
        /\ line \in LineType
    BY <1>0, <1>1 DEF FailedLine, LineType, IInv, TypeOK
  <1>4. TypeOK'
    BY <1>0, <1>3 DEF IInv, TypeOK
  <1>5. Changes(j, {})
    BY <1>0 DEF Changes, IInv, TypeOK
  <1>6. JobOk(j)'
    BY <1>0, <1>2 DEF JobOk, IsBegun, This, Running
  <1>7. LineOk(line)'
    <2>1. LineOk(FailedLine(j))
      BY <1>1 DEF IInv, LineInv
    <2>2. /\ span[<<"process", j, attempt[j]>>].state = "ended"
          /\ span[<<"process", j, attempt[j]>>].status = "error"
      BY <2>1 DEF LineOk, FailedLine
    <2>3. attempt[j] = MaxAttempts
      BY DEF MarkFails
    <2>4. QED BY <1>0, <1>1, <1>3, <2>2, <2>3 DEF LineOk
  <1>8. QED BY <1>0, <1>4, <1>5, <1>6, <1>7, Step

-----------------------------------------------------------------------------
(* The begin and the end of an attempt.                                     *)

LEMMA ProcessIInv == ASSUME IInv, NEW j \in Jobs, Process(j) PROVE IInv'
  <1> PICK n \in Attempts : n = attempt[j] + 1
    BY ConstantsAssumption DEF Process, IInv, TypeOK, Attempts
  <1> PICK process \in SpanIds, quote \in SpanIds, send \in SpanIds :
        /\ process = <<"process", j, n>> /\ quote = <<"quote", j, n>>
        /\ send = <<"send", j, 0>>
        /\ process[1] = "process" /\ process[2] = j /\ process[3] = n
        /\ quote[1] = "quote" /\ quote[2] = j /\ quote[3] = n
        /\ send[1] = "send" /\ send[2] = j /\ send[3] = 0
        /\ process # NoSpan /\ send # NoSpan
        /\ producerContext(j) = IF carrier[j] = "injected" THEN send ELSE NoSpan
    <2>1. /\ <<"process", j, n>> \in SpanIds \ {NoSpan}
          /\ <<"quote", j, n>> \in SpanIds
          /\ <<"send", j, 0>> \in SpanIds \ {NoSpan}
      BY Ids, IdParts
    <2>2. carrier[j] = "injected" => data[j] = <<"send", j, 0>>
      BY DEF Process, IInv, JobInv, JobOk
    <2>3. producerContext(j) = IF carrier[j] = "injected" THEN <<"send", j, 0>> ELSE NoSpan
      BY <2>2 DEF producerContext
    <2>4. QED BY <2>1, <2>3
  <1> PICK started : started = Started(span, process, Parent(j), Link(j))
    OBVIOUS
  <1>0. /\ span \in [SpanIds -> SpanType] /\ JobOk(j) /\ pc[j] = "idle"
        /\ attempt[j] \in Nat /\ n \in Nat /\ ~IsBegun(process)
        /\ attempt'[j] = n /\ pc'[j] = "quoting" /\ job'[j] = "active"
        /\ active'[j] = process
        /\ \A k \in Jobs \ {j} : /\ pc'[k] = pc[k] /\ job'[k] = job[k]
                                 /\ attempt'[k] = attempt[k] /\ active'[k] = active[k]
    <2>1. attempt[j] \in Nat /\ n \in Nat
      BY ConstantsAssumption DEF IInv, TypeOK, Attempts
    <2>2. ~IsBegun(process)
      <3>1. SpanOk(process) => n <= attempt[j]
        BY DEF SpanOk
      <3>2. IsBegun(process) => SpanOk(process)
        BY DEF IInv, SpanInv
      <3>3. ~(n <= attempt[j])
        BY <2>1
      <3>4. QED BY <3>1, <3>2, <3>3
    <2>3. QED
      BY <2>1, <2>2 DEF Process, Context, IInv, TypeOK, JobInv, JobOk
  <1>1. /\ started \in [SpanIds -> SpanType]
        /\ started[process].state = "open"
        /\ started[process].trace = TraceId(process)
        /\ started[process].link = IF carrier[j] = "injected" THEN send ELSE NoSpan
        /\ started[process].parent = Parent(j) /\ started[process].status = "unset"
        /\ \A k \in SpanIds \ {process} : started[k] = span[k]
    <2>1. Link(j) = IF carrier[j] = "injected" THEN send ELSE NoSpan
      BY DEF Link
    <2>2. CASE carrier[j] = "injected" /\ continued[j]
      <3>1. Parent(j) = send
        BY <2>2 DEF Parent
      <3>2. span[send].trace = TraceId(process)
        <4>1. SpanOk(send)
          BY <1>0, <2>2 DEF Process, JobOk, IInv, SpanInv
        <4>2. TraceId(send) = TraceId(process)
          BY <2>2 DEF TraceId
        <4>3. QED BY <4>1, <4>2 DEF SpanOk
      <3>3. QED BY ONLY <1>0, <2>1, <2>2, <3>1, <3>2, StartedSpan,
                        process \in SpanIds, send \in SpanIds, send # NoSpan,
                        started = Started(span, process, Parent(j), Link(j))
    <2>3. CASE ~(carrier[j] = "injected" /\ continued[j])
      <3>1. Parent(j) = NoSpan
        BY <2>3 DEF Parent, producerContext
      <3>2. process = TraceId(process)
        BY <2>3, ConstantsAssumption DEF TraceId, Attempts
      <3>3. QED BY ONLY <1>0, <2>1, <2>3, <3>1, <3>2, StartedRoot,
                        process \in SpanIds, send \in SpanIds,
                        started = Started(span, process, Parent(j), Link(j))
    <2>4. QED BY <2>2, <2>3
  <1>2. /\ span' \in [SpanIds -> SpanType]
        /\ span'[quote].state = "open" /\ span'[quote].trace = TraceId(quote)
        /\ \A k \in SpanIds \ {quote} : span'[k] = started[k]
    <2>1. span' = Started(started, quote, process, NoSpan)
      BY DEF Process, Context
    <2>2. NoSpan \in SpanIds \cup {NoSpan} /\ TraceId(quote) = TraceId(process)
      BY DEF TraceId
    <2>3. QED BY ONLY <1>1, <2>1, <2>2, StartedSpan, quote \in SpanIds,
                      process \in SpanIds, process # NoSpan
  <1> PICK line : /\ line = [job |-> j, attempt |-> n, of |-> "attempt", span |-> process,
                             trace |-> started[process].trace]
                  /\ lines' = lines \cup {line}
    BY DEF Process, Context
  <1>3. TypeOK'
    <2>1. started[process].trace \in SpanIds \cup {NoSpan} /\ n \in 0 .. MaxAttempts
      BY <1>1, ConstantsAssumption DEF SpanType, Attempts
    <2>2. line \in LineType
      BY <2>1 DEF LineType
    <2>3. attempt' \in [Jobs -> 0 .. MaxAttempts] /\ active' \in [Jobs -> SpanIds \cup {NoSpan}]
      BY <2>1 DEF Process, Context, IInv, TypeOK
    <2>4. QED BY <1>2, <2>2, <2>3 DEF Process, IInv, TypeOK, fixed, api
  <1>4. Changes(j, {process, quote})
    <2>1. SpanOk(process)'
      <3>1. span'[process].trace = TraceId(process)
        BY <1>1, <1>2
      <3>2. TraceId(process)' = TraceId(process)
        BY DEF Process, TraceId, fixed
      <3>3. QED BY <1>0, <3>1, <3>2 DEF SpanOk
    <2>2. SpanOk(quote)'
      BY <1>0, <1>2 DEF Process, SpanOk, TraceId, fixed, api
    <2>3. IsBegun(process)' /\ IsBegun(quote)'
      BY <1>1, <1>2 DEF IsBegun
    <2>4. \A k \in SpanIds \ {process, quote} : span'[k] = span[k]
      BY <1>1, <1>2
    <2>5. QED BY <1>0, <1>2, <2>1, <2>2, <2>3, <2>4 DEF Process, Changes, fixed, api
  <1>5. SpanInv'
    BY <1>0, <1>4, SpansKept
  <1>6. JobInv'
    <2>1. This("process", j)' = process /\ This("quote", j)' = quote
      BY <1>0 DEF This
    <2>2. span'[send] = span[send] /\ span'[<<"request", j, 0>>] = span[<<"request", j, 0>>]
      <3>1. <<"request", j, 0>> \in SpanIds \ {process, quote}
        BY Ids
      <3>2. QED BY <1>1, <1>2, <3>1
    <2>3. JobOk(j)'
      <3>1. /\ carrier'[j] = "injected" => /\ IsBegun(<<"send", j, 0>>)'
                                           /\ data'[j] = <<"send", j, 0>>
            /\ serving'[j] # NoSpan => IsBegun(<<"request", j, 0>>)'
        BY <1>0, <2>2 DEF Process, JobOk, IsBegun, fixed, api
      <3>2. /\ span'[process].state = "open" /\ IsBegun(This("quote", j))'
            /\ span'[process].status = "unset"
        BY <1>1, <1>2, <2>1 DEF IsBegun
      <3>3. QED BY <1>0, <2>1, <3>1, <3>2 DEF JobOk, Running
    <2>4. QED BY <1>4, <2>3, OtherJobsKept DEF JobInv
  <1>7. SampleInv'
    <2> SUFFICES ASSUME NEW x \in samples
                 PROVE  /\ x.attempt <= attempt'[x.job]
                        /\ pc'[x.job] \in Running => x.attempt # attempt'[x.job]
      BY DEF Process, SampleInv
    <2>1. x.job \in Jobs /\ x.attempt \in Nat /\ x.attempt <= attempt[x.job]
      BY ConstantsAssumption DEF IInv, TypeOK, SampleInv, Attempts
    <2>2. CASE x.job = j
      BY <1>0, <2>1, <2>2
    <2>3. CASE x.job # j
      BY <1>0, <2>1, <2>3 DEF IInv, SampleInv
    <2>4. QED BY <2>2, <2>3
  <1>8. LineInv'
    <2>1. LineOk(line)'
      BY <1>1, <1>2 DEF Process, LineOk, IsBegun, TraceId, fixed, api
    <2>2. Grows
      BY <1>0, <1>1, <1>2 DEF Grows, IsBegun
    <2>3. QED BY <2>1, <2>2, LinesKept DEF Process, fixed, api
  <1>9. ASSUME NEW i \in SpanIds, i[1] = "process", i # process
        PROVE  span'[i] = span[i]
    BY <1>1, <1>2, <1>9
  <1>p. span'[process] = started[process]
    BY <1>2
  <1>10. AttemptsLinkToProducer'
    <2> SUFFICES ASSUME NEW i \in SpanIds, IsBegun(i)', i[1] = "process"
                 PROVE  /\ span'[i].link = IF carrier[i[2]] = "injected"
                                           THEN <<"send", i[2], 0>> ELSE NoSpan
                        /\ span'[i].parent = IF continued[i[2]] THEN span'[i].link
                                             ELSE NoSpan
      BY DEF Process, AttemptsLinkToProducer, Begun, About, IsBegun, fixed, api
    <2>1. CASE i = process
      BY <1>1, <1>p, <2>1 DEF Parent
    <2>2. CASE i # process
      BY <1>9, <2>2 DEF IInv, AttemptsLinkToProducer, Begun, About, IsBegun
    <2>3. QED BY <2>1, <2>2
  <1>e. SignalsAgree'
    <2>1. \A i \in SpanIds : i[1] = "process" /\ span'[i].state = "ended" =>
            span'[i] = span[i]
      BY <1>1, <1>9, <1>p
    <2>2. QED BY <2>1 DEF Process, IInv, SignalsAgree, Begun
  <1>11. QED BY <1>3, <1>5, <1>6, <1>7, <1>8, <1>10, <1>e DEF IInv

(* The end of an attempt: its consumer span, and its sample.                *)
LEMMA EndIInv ==
  ASSUME IInv, NEW j \in Jobs, pc[j] \in {"returning", "throwing"},
         NEW status \in {"unset", "error"}, NEW outcome \in {"completed", "failed"},
         (outcome = "failed") = (status = "error"),
         Sample(j, outcome),
         span' = Ended(span, This("process", j), status),
         active' = [active EXCEPT ![j] = NoSpan],
         UNCHANGED <<carrier, continued, serving, data, attempt, lines>>,
         NEW to \in {"idle", "failed"}, pc' = [pc EXCEPT ![j] = to],
         to = "failed" <=> status = "error", to = "failed" => job' = job,
         job' \in [Jobs -> {"none", "sending", "waiting", "active", "settled"}],
         job'[j] # "none", \A k \in Jobs \ {j} : job'[k] = job[k]
  PROVE  IInv'
  <1>0. pc[j] \in Running /\ span \in [SpanIds -> SpanType] /\ JobOk(j)
    BY DEF Running, IInv, TypeOK, JobInv
  <1> PICK process \in SpanIds :
        /\ process = This("process", j) /\ active[j] = process /\ process # NoSpan
        /\ process[1] = "process" /\ process[2] = j /\ process[3] = attempt[j]
        /\ span[process].state = "open" /\ SpanOk(process) /\ attempt[j] \in Attempts
    BY <1>0, Attempt DEF Kinds, IsBegun
  <1>1. /\ span' \in [SpanIds -> SpanType]
        /\ span'[process].state = "ended" /\ span'[process].status = status
        /\ span'[process].trace = span[process].trace
        /\ span'[process].link = span[process].link
        /\ span'[process].parent = span[process].parent
        /\ \A k \in SpanIds \ {process} : span'[k] = span[k]
    BY <1>0, EndedSpan
  <1> PICK x : /\ x = [job |-> j, attempt |-> attempt[j], outcome |-> outcome,
                       exemplar |-> process]
               /\ samples' = samples \cup {x}
    BY DEF Sample
  <1>2. TypeOK'
    <2>1. x \in [job: Jobs, attempt: Attempts, outcome: {"completed", "failed"},
                 exemplar: SpanIds \cup {NoSpan}]
      OBVIOUS
    <2>2. samples' \subseteq [job: Jobs, attempt: Attempts,
                              outcome: {"completed", "failed"},
                              exemplar: SpanIds \cup {NoSpan}]
      BY <2>1 DEF IInv, TypeOK
    <2>3. QED BY <1>1, <2>2 DEF IInv, TypeOK
  <1>3. Changes(j, {process})
    <2>1. SpanOk(process)'
      BY <1>1 DEF SpanOk, TraceId
    <2>2. QED BY <1>1, <2>1 DEF Changes, IsBegun, IInv, TypeOK
  <1>4. SpanInv'
    BY <1>3, SpansKept, ConstantsAssumption DEF IInv, TypeOK, Attempts
  <1>5. JobInv'
    <2>1. pc'[j] = to /\ active'[j] = NoSpan /\ job[j] = "active"
      BY <1>0 DEF IInv, TypeOK, JobOk, Running
    <2>2. /\ carrier[j] = "injected" => /\ IsBegun(<<"send", j, 0>>)'
                                        /\ data[j] = <<"send", j, 0>>
          /\ serving[j] # NoSpan => IsBegun(<<"request", j, 0>>)'
      <3>1. <<"send", j, 0>> # process /\ <<"request", j, 0>> # process
        BY process[1] = "process"
      <3>2. /\ span'[<<"send", j, 0>>] = span[<<"send", j, 0>>]
            /\ span'[<<"request", j, 0>>] = span[<<"request", j, 0>>]
        BY <1>1, <3>1, Ids
      <3>3. QED BY <1>0, <2>1, <3>2 DEF JobOk, IsBegun
    <2>3. This("process", j)' = process
      BY DEF This
    <2>4. JobOk(j)'
      BY <1>1, <2>1, <2>2, <2>3 DEF JobOk, Running
    <2>5. QED BY <1>3, <2>4, OtherJobsKept DEF JobInv
  <1>6. SampleInv'
    <2> SUFFICES ASSUME NEW y \in samples'
                 PROVE  /\ y.attempt <= attempt[y.job]
                        /\ pc'[y.job] \in Running => y.attempt # attempt[y.job]
      BY DEF SampleInv
    <2>1. CASE y = x
      BY <2>1, ConstantsAssumption DEF IInv, TypeOK, Running, Attempts
    <2>2. CASE y \in samples
      BY <2>2 DEF IInv, TypeOK, SampleInv, Running
    <2>3. QED BY <2>1, <2>2
  <1>7. LineInv'
    BY <1>1, LinesKept DEF Grows, IsBegun
  <1>8. AttemptsLinkToProducer'
    BY <1>1 DEF IInv, AttemptsLinkToProducer, Begun, About
  <1>9. SignalsAgree'
    <2>1. \A y \in samples : ~(y.job = j /\ y.attempt = attempt[j])
      BY <1>0 DEF IInv, SampleInv
    <2> SUFFICES ASSUME NEW i \in SpanIds, i[1] = "process", span'[i].state = "ended"
                 PROVE  \E y \in samples' :
                          /\ y.job = i[2] /\ y.attempt = i[3]
                          /\ y.exemplar = i
                          /\ (y.outcome = "failed") = (span'[i].status = "error")
                          /\ \A z \in samples' :
                               z.job = y.job /\ z.attempt = y.attempt => z = y
      BY DEF SignalsAgree, Begun, About
    <2>2. CASE i = process
      BY <1>1, <2>1, <2>2
    <2>3. CASE i # process
      <3>1. span'[i] = span[i] /\ ~(i[2] = j /\ i[3] = attempt[j])
        BY <1>1, <2>3, IdParts DEF This
      <3>2. PICK y \in samples :
              /\ y.job = i[2] /\ y.attempt = i[3] /\ y.exemplar = i
              /\ (y.outcome = "failed") = (span[i].status = "error")
              /\ \A z \in samples : z.job = y.job /\ z.attempt = y.attempt => z = y
        BY <3>1 DEF IInv, SignalsAgree, Begun, About
      <3>3. QED BY <3>1, <3>2
    <2>4. QED BY <2>2, <2>3
  <1>10. QED BY <1>2, <1>4, <1>5, <1>6, <1>7, <1>8, <1>9 DEF IInv

LEMMA ReturnIInv == ASSUME IInv, NEW j \in Jobs, Return(j) PROVE IInv'
  BY EndIInv DEF Return, At, IInv, TypeOK, fixed, api

(* An attempt that throws has not called the model: its outcome is failed.  *)
LEMMA ThrowIInv == ASSUME IInv, NEW j \in Jobs, Throw(j) PROVE IInv'
  <1>1. pc[j] = "throwing" /\ pc[j] \in Running
    BY DEF Throw, At, Running
  <1>2. ~IsBegun(This("chat", j))
    <2> PICK chat \in SpanIds :
          /\ chat = This("chat", j)
          /\ chat[1] = "chat" /\ chat[2] = j /\ chat[3] = attempt[j]
          /\ IsBegun(chat) => SpanOk(chat)
      BY <1>1, Attempt DEF Kinds
    <2>1. ~SpanOk(chat)
      BY <1>1 DEF SpanOk
    <2>2. QED BY <2>1
  <1>3. Sample(j, "failed")
    BY <1>2 DEF Throw, IsBegun
  <1>4. /\ pc' = [pc EXCEPT ![j] = "failed"] /\ job' = job
        /\ span' = Ended(span, This("process", j), "error")
        /\ active' = [active EXCEPT ![j] = NoSpan]
        /\ UNCHANGED <<carrier, continued, serving, data, attempt, lines>>
    BY DEF Throw, At, StatusOfThrow, fixed, api
  <1>5. /\ job' \in [Jobs -> {"none", "sending", "waiting", "active", "settled"}]
        /\ job'[j] # "none"
    BY <1>1, <1>4 DEF IInv, TypeOK, JobInv, JobOk
  <1>6. QED BY <1>1, <1>3, <1>4, <1>5, EndIInv

-----------------------------------------------------------------------------
LEMMA NextIInv == IInv /\ [Next]_vars => IInv'
  <1> SUFFICES ASSUME IInv, [Next]_vars PROVE IInv'
    OBVIOUS
  <1>1. CASE UNCHANGED vars
    <2>1. /\ UNCHANGED <<carrier, continued, serving, data, job, attempt>>
          /\ UNCHANGED <<pc, active, span, lines, samples>>
      BY <1>1 DEF vars, fixed, api
    <2>2. TypeOK' /\ SampleInv' /\ AttemptsLinkToProducer' /\ SignalsAgree'
      BY <2>1
      DEF IInv, TypeOK, SampleInv, AttemptsLinkToProducer, SignalsAgree, Begun
    <2>3. SpanInv' /\ LineInv'
      BY <2>1 DEF IInv, SpanInv, SpanOk, LineInv, LineOk, IsBegun, TraceId
    <2>4. JobInv'
      BY <2>1 DEF IInv, JobInv, JobOk, FailedLine, IsBegun, This
    <2>5. QED BY <2>2, <2>3, <2>4 DEF IInv
  <1>2. CASE Next
    BY <1>2, ReceiveIInv, SendIInv, EnqueueIInv, SentIInv, ProcessIInv, PriceIInv,
       ServedIInv, PricedIInv, WriteIInv, WriteFailsIInv, SummariseIInv, ReturnIInv,
       ThrowIInv, FailedEventIInv, MarkFailsIInv DEF Next
  <1>3. QED BY <1>1, <1>2

(* The inductive invariant: an attempt runs in the context of its own open  *)
(* consumer span, the data of a job name its producer, and every span, line *)
(* and sample belongs to an attempt.                                        *)
THEOREM Invariant == Spec => []IInv
  BY InitIInv, NextIInv, PTL DEF Spec

(* The variables have their types.                                          *)
THEOREM TypeCorrect == Spec => []TypeOK
  <1>1. IInv => TypeOK
    BY DEF IInv
  <1>2. QED BY <1>1, Invariant, PTL

(* A continued trace is one trace from the request to the model call, any   *)
(* other attempt is a trace of its own (withConsumerSpan).                  *)
THEOREM TracesAreWhole == Spec => []OneTrace
  <1>1. IInv => OneTrace
    BY DEF IInv, SpanInv, SpanOk, OneTrace, Begun, IsBegun, TraceId, About
  <1>2. QED BY <1>1, Invariant, PTL

(* Every attempt links to the span that enqueued its job, and is its child  *)
(* if the trace is continued; to nothing if its carrier is of no use        *)
(* (injectTraceContext inside withProducerSpan, withConsumerSpan).          *)
THEOREM AttemptsAreLinked == Spec => []AttemptsLinkToProducer
  <1>1. IInv => AttemptsLinkToProducer
    BY DEF IInv
  <1>2. QED BY <1>1, Invariant, PTL

(* A finished attempt has one sample, which tells what its span tells.      *)
THEOREM SignalsTellTheSame == Spec => []SignalsAgree
  <1>1. IInv => SignalsAgree
    BY DEF IInv
  <1>2. QED BY <1>1, Invariant, PTL

(* A line has the ids of its own job and attempt, or none, and then the     *)
(* attempt has failed, and for good if it is the line of a mark (the two    *)
(* lines of the 'failed' handler).                                          *)
THEOREM LinesAreOwn == Spec => []LinesOfOwnAttempt
  <1>1. IInv => LinesOfOwnAttempt
    <2> SUFFICES ASSUME IInv, NEW l \in lines
                 PROVE  IF l.span = NoSpan
                        THEN /\ LET i == <<"process", l.job, l.attempt>>
                                IN  span[i].state = "ended" /\ span[i].status = "error"
                             /\ l.of = "mark" => /\ l.attempt = MaxAttempts
                                          /\ [l EXCEPT !.of = "attempt"] \in lines
                        ELSE /\ About(l.span) = l.job
                             /\ l.span[3] = l.attempt
                             /\ l.trace = span[l.span].trace
      BY DEF LinesOfOwnAttempt
    <2>1. LineOk(l) /\ l.span \in SpanIds \cup {NoSpan}
      BY DEF IInv, LineInv, TypeOK, LineType
    <2>2. QED BY <2>1 DEF LineOk, IInv, SpanInv, SpanOk, About
  <1>2. QED BY <1>1, Invariant, PTL

=============================================================================
