------------------------ MODULE WorkerShutdownProofs ------------------------
(***************************************************************************)
(* Theorems about WorkerShutdown: what an exit with code 0 leaves behind,  *)
(* for any number of jobs, lanes and connections.                          *)
(***************************************************************************)
EXTENDS WorkerShutdown, FiniteSetTheorems, TLAPS

(* A span is open only while its job is with the processor, ends with it,   *)
(* and never too late for the exporter.                                     *)
Processing == {"quoting", "updating", "summarising"}

SpanInv == \A j \in Jobs : /\ span[j] = "open" => job[j] \in Processing
                           /\ span[j] # "dropped"

(* Once the worker has closed, nothing is in progress any more.             *)
DrainInv == stage \notin {"serving", "worker"} => Busy = {}

(* Once the server has closed, no scrape is being answered.                 *)
ScrapeInv == stage \notin {"serving", "worker", "queue", "server"} => ~scrape

(* Only a failed job has a mark; its processor asks for one UPDATE and      *)
(* awaits it.                                                               *)
JobInv ==
    \A j \in Jobs :
        /\ query[<<"mark", j>>] # "none" => job[j] = "failed"
        /\ query[<<"update", j>>] \in {"queued", "running"} => job[j] = "updating"
        /\ job[j] \in {"waiting", "fetching", "quoting"} =>
              query[<<"update", j>>] = "none"

(* A query waits for a client only before the pool is asked to end, and is  *)
(* lost after that; the pool ends when no client works.                     *)
Ending == {"pool", "spans", "log"}

PoolInv ==
    /\ Waiting # {} => stage \notin Ending
    /\ \A q \in Queries : query[q] = "lost" => stage \in Ending
    /\ stage \in {"spans", "log"} => Working = {}
    /\ \A q \in closing : query[q] = "rejected"

(* The exit with code 0 comes last, when no span waits.                     *)
ExitInv ==
    /\ exit = "0" => stage = "log"
    /\ stage = "log" => \A j \in Jobs : span[j] # "ended"

IInv ==
    /\ TypeOK
    /\ SpanInv /\ DrainInv /\ ScrapeInv /\ JobInv /\ PoolInv /\ ExitInv

-----------------------------------------------------------------------------
LEMMA InitIInv == Init => IInv
  BY DEF Init, IInv, TypeOK, Stages, SpanStates, QueryStates, SpanInv, DrainInv,
         ScrapeInv, JobInv, PoolInv, ExitInv, Ending, Busy, InProgress, Queries,
         Working, Waiting

(* What the pool does about query q: its state becomes one of S, a query    *)
(* that waits may be given a client, and a client is closed only if q is    *)
(* rejected.                                                                *)
Moves(q, S) ==
    /\ query' \in [Queries -> QueryStates]
    /\ query'[q] \in S
    /\ \A p \in Queries \ {q} :
          query'[p] = query[p] \/ (query[p] = "queued" /\ query'[p] = "running")
    /\ closing' # closing => closing' = closing \cup {q} /\ query'[q] = "rejected"

LEMMA ServedIs ==
  ASSUME NEW queries, NEW f \in Served(queries)
  PROVE  f = queries \/ \E w \in Waiting : f = [queries EXCEPT ![w] = "running"]
  BY DEF Served

LEMMA AskMoves ==
  ASSUME query \in [Queries -> QueryStates], NEW q \in Queries, Ask(q)
  PROVE  Moves(q, {"running", "queued"})
  <1> PICK to \in {"running", "queued"} : query' = [query EXCEPT ![q] = to]
    BY DEF Ask
  <1>1. closing' = closing
    BY DEF Ask
  <1>2. QED BY <1>1 DEF Moves, QueryStates

LEMMA HandOverMoves ==
  ASSUME query \in [Queries -> QueryStates], NEW q \in Queries,
         query[q] = "running", NEW outcome \in {"done", "rejected"},
         HandOver(q, outcome)
  PROVE  Moves(q, {outcome})
  <1> DEFINE f == [query EXCEPT ![q] = outcome]
  <1>1. closing' = closing /\ query' \in Served(f)
    BY DEF HandOver
  <1>2. CASE query' = f
    BY <1>1, <1>2 DEF Moves, QueryStates
  <1>3. ASSUME NEW w \in Waiting, query' = [f EXCEPT ![w] = "running"]
        PROVE  Moves(q, {outcome})
    <2>1. w \in Queries /\ query[w] = "queued" /\ w # q
      BY DEF Waiting
    <2>2. QED BY <1>1, <1>3, <2>1 DEF Moves, QueryStates
  <1>4. QED BY <1>1, <1>2, <1>3, ServedIs

LEMMA RejectMoves ==
  ASSUME query \in [Queries -> QueryStates], NEW q \in Queries,
         query[q] = "running", Reject(q)
  PROVE  Moves(q, {"rejected"})
  <1>1. CASE HandOver(q, "rejected")  BY <1>1, HandOverMoves
  <1>2. CASE /\ query' = [query EXCEPT ![q] = "rejected"]
             /\ closing' = closing \cup {q}
    BY <1>2 DEF Moves, QueryStates
  <1>3. QED BY <1>1, <1>2 DEF Reject

(* The part of the invariant about the pool, after it asks for q or ends it. *)
LEMMA MovesPoolInv ==
  ASSUME IInv, stage' = stage, NEW q \in Queries, query[q] # "rejected",
         Moves(q, {"running", "queued", "done", "rejected"}),
         query'[q] \in {"running", "queued"} => stage \notin Ending
  PROVE  PoolInv' /\ closing' \subseteq Queries
  BY DEF IInv, TypeOK, PoolInv, Moves, Waiting, Working, Ending, QueryStates

(* A step of one job that asks the pool nothing ...                         *)
LEMMA PlainStepIInv ==
  ASSUME IInv, NEW j \in Jobs,
         \/ Fetch(j) \/ Fetched(j) \/ FetchedNothing(j) \/ QuoteFails(j)
         \/ Summarised(j) \/ Completed(j) \/ Export(j)
  PROVE  IInv'
  <1> USE DEF IInv, TypeOK, Stages, SpanStates, SpanInv, DrainInv, ScrapeInv,
              JobInv, PoolInv, ExitInv, Ending, Busy, InProgress, Settled,
              Processing, Alive, processVars, poolVars, Working, Waiting
  <1>1. CASE Fetch(j)  BY <1>1 DEF Fetch, Move
  <1>2. CASE Fetched(j)  BY <1>2 DEF Fetched, Move
  <1>3. CASE FetchedNothing(j)  BY <1>3 DEF FetchedNothing, Move
  <1>4. CASE QuoteFails(j)  BY <1>4 DEF QuoteFails, Move, EndSpan
  <1>5. CASE Summarised(j)  BY <1>5 DEF Summarised, Move, EndSpan
  <1>6. CASE Completed(j)  BY <1>6 DEF Completed, Move
  <1>7. CASE Export(j)  BY <1>7 DEF Export
  <1>8. QED BY <1>1, <1>2, <1>3, <1>4, <1>5, <1>6, <1>7

(* ... asks for its UPDATE or its mark ...                                  *)
LEMMA AskStepIInv ==
  ASSUME IInv, NEW j \in Jobs, QuoteOk(j) \/ Failed(j)
  PROVE  IInv'
  <1>1. CASE QuoteOk(j)
    <2> DEFINE q == <<"update", j>>
    <2>1. q \in Queries /\ query[q] = "none"
      BY <1>1 DEF Queries, QuoteOk, Move, IInv, JobInv
    <2>2. stage' = stage /\ stage \notin Ending /\ stage # "log"
      BY <1>1 DEF QuoteOk, Move, IInv, DrainInv, Busy, InProgress, Ending,
                  processVars
    <2>3. Moves(q, {"running", "queued"})
      BY <1>1, <2>1, AskMoves DEF QuoteOk, IInv, TypeOK
    <2>4. PoolInv' /\ closing' \subseteq Queries
      <3>1. Moves(q, {"running", "queued", "done", "rejected"})
        BY <2>3 DEF Moves
      <3>2. QED BY <2>1, <2>2, <3>1, MovesPoolInv
    <2>5. \A i \in Jobs : query'[<<"mark", i>>] = query[<<"mark", i>>] \/
                          query[<<"mark", i>>] = "queued"
      BY <2>3 DEF Moves, Queries
    <2>6. \A i \in Jobs \ {j} : query'[<<"update", i>>] = query[<<"update", i>>] \/
                                query[<<"update", i>>] = "queued"
      BY <2>3 DEF Moves, Queries
    <2>7. JobInv'
      BY <1>1, <2>5, <2>6 DEF QuoteOk, Move, IInv, TypeOK, JobInv
    <2>8. TypeOK'
      BY <1>1, <2>3, <2>4, <2>5 DEF QuoteOk, Move, IInv, TypeOK, Moves,
         InProgress, processVars
    <2>9. (SpanInv /\ DrainInv /\ ScrapeInv /\ ExitInv)'
      BY <1>1, <2>2 DEF QuoteOk, Move, IInv, TypeOK, SpanInv, DrainInv, ScrapeInv,
         ExitInv, Busy, InProgress, Processing, processVars
    <2>10. QED BY <2>4, <2>7, <2>8, <2>9 DEF IInv
  <1>2. CASE Failed(j)
    <2> DEFINE q == <<"mark", j>>
    <2>1. q \in Queries /\ query[q] = "none" /\ job[j] = "failing"
      BY <1>2 DEF Queries, Failed, Move, IInv, JobInv
    <2>2. stage' = stage /\ stage \notin Ending /\ stage # "log"
      BY <1>2 DEF Failed, Move, IInv, DrainInv, Busy, InProgress, Ending,
                  processVars
    <2>3. CASE j \in LastTry
      <3>1. Moves(q, {"running", "queued"})
        BY <1>2, <2>1, <2>3, AskMoves DEF Failed, IInv, TypeOK
      <3>2. PoolInv' /\ closing' \subseteq Queries
        <4>1. Moves(q, {"running", "queued", "done", "rejected"})
          BY <3>1 DEF Moves
        <4>2. QED BY <2>1, <2>2, <4>1, MovesPoolInv
      <3>3. \A i \in Jobs : query'[<<"update", i>>] = query[<<"update", i>>] \/
                            query[<<"update", i>>] = "queued"
        BY <3>1 DEF Moves, Queries
      <3>4. \A i \in Jobs \ {j} : query'[<<"mark", i>>] = query[<<"mark", i>>] \/
                                  query[<<"mark", i>>] = "queued"
        BY <3>1 DEF Moves, Queries
      <3>5. JobInv'
        BY <1>2, <2>1, <3>3, <3>4 DEF Failed, Move, IInv, TypeOK, JobInv
      <3>6. TypeOK'
        BY <1>2, <2>3, <3>1, <3>2, <3>4 DEF Failed, Move, IInv, TypeOK, Moves,
           Settled, processVars
      <3>7. (SpanInv /\ DrainInv /\ ScrapeInv /\ ExitInv)'
        BY <1>2, <2>1, <2>2 DEF Failed, Move, IInv, TypeOK, SpanInv, DrainInv,
           ScrapeInv, ExitInv, Busy, InProgress, Processing, processVars
      <3>8. QED BY <3>2, <3>5, <3>6, <3>7 DEF IInv
    <2>4. CASE j \notin LastTry
      BY <1>2, <2>2, <2>4 DEF Failed, Move, IInv, TypeOK, SpanInv, DrainInv,
         ScrapeInv, JobInv, PoolInv, ExitInv, Busy, InProgress, Settled,
         Processing, Working, Waiting, processVars
    <2>5. QED BY <2>3, <2>4
  <1>3. QED BY <1>1, <1>2

(* ... ends its UPDATE ...                                                  *)
LEMMA UpdateStepIInv ==
  ASSUME IInv, NEW j \in Jobs, UpdateOk(j) \/ UpdateFails(j)
  PROVE  IInv'
  <1> DEFINE q == <<"update", j>>
  <1>1. /\ q \in Queries /\ query[q] = "running" /\ job[j] = "updating"
        /\ stage' = stage /\ stage # "log"
    BY DEF Queries, UpdateOk, UpdateFails, Move, IInv, DrainInv, Busy, InProgress,
           processVars
  <1>2. Moves(q, {"done", "rejected"})
    <2>1. CASE UpdateOk(j)
      <3>1. Moves(q, {"done"})
        BY <1>1, <2>1, HandOverMoves DEF UpdateOk, IInv, TypeOK
      <3>2. QED BY <3>1 DEF Moves
    <2>2. CASE UpdateFails(j)
      <3>1. Moves(q, {"rejected"})
        BY <1>1, <2>2, RejectMoves DEF UpdateFails, IInv, TypeOK
      <3>2. QED BY <3>1 DEF Moves
    <2>3. QED BY <2>1, <2>2
  <1>3. PoolInv' /\ closing' \subseteq Queries
    <2>1. Moves(q, {"running", "queued", "done", "rejected"})
      BY <1>2 DEF Moves
    <2>2. query'[q] \notin {"running", "queued"}
      BY <1>2 DEF Moves
    <2>3. QED BY <1>1, <2>1, <2>2, MovesPoolInv
  <1>4. \A i \in Jobs : query'[<<"mark", i>>] = query[<<"mark", i>>] \/
                        query[<<"mark", i>>] = "queued"
    BY <1>2 DEF Moves, Queries
  <1>5. \A i \in Jobs \ {j} : query'[<<"update", i>>] = query[<<"update", i>>] \/
                              query[<<"update", i>>] = "queued"
    BY <1>2 DEF Moves, Queries
  <1>6. query'[q] \in {"done", "rejected"}
    BY <1>2 DEF Moves
  <1>7. /\ job' \in [Jobs -> {"waiting"} \cup InProgress \cup Settled]
        /\ job'[j] \in {"summarising", "failing"}
        /\ \A i \in Jobs \ {j} : job'[i] = job[i]
        /\ span' \in [Jobs -> SpanStates]
        /\ \A i \in Jobs \ {j} : span'[i] = span[i]
        /\ span'[j] = span[j] \/ span'[j] = "ended"
        /\ job'[j] = "failing" => span'[j] = "ended"
        /\ UNCHANGED <<processVars, held, scrape>>
    BY <1>1 DEF UpdateOk, UpdateFails, Move, EndSpan, IInv, TypeOK, InProgress,
                SpanStates
  <1>8. JobInv'
    BY <1>1, <1>4, <1>5, <1>6, <1>7 DEF IInv, JobInv
  <1>9. TypeOK'
    BY <1>2, <1>3, <1>4, <1>7 DEF IInv, TypeOK, Moves, processVars
  <1>10. (SpanInv /\ DrainInv /\ ScrapeInv /\ ExitInv)'
    BY <1>1, <1>7 DEF IInv, SpanInv, DrainInv, ScrapeInv, ExitInv, Busy,
       InProgress, Processing, processVars
  <1>11. QED BY <1>3, <1>8, <1>9, <1>10 DEF IInv

(* ... or ends its mark.                                                    *)
LEMMA MarkStepIInv ==
  ASSUME IInv, NEW j \in Jobs, MarkEnds(j)
  PROVE  IInv'
  <1> DEFINE q == <<"mark", j>>
  <1>1. q \in Queries /\ query[q] = "running" /\ job[j] = "failed"
    BY DEF Queries, MarkEnds, IInv, JobInv
  <1>2. Moves(q, {"done", "rejected"})
    <2>1. CASE HandOver(q, "done")
      <3>1. Moves(q, {"done"})
        BY <1>1, <2>1, HandOverMoves DEF IInv, TypeOK
      <3>2. QED BY <3>1 DEF Moves
    <2>2. CASE Reject(q)
      <3>1. Moves(q, {"rejected"})
        BY <1>1, <2>2, RejectMoves DEF IInv, TypeOK
      <3>2. QED BY <3>1 DEF Moves
    <2>3. QED BY <2>1, <2>2 DEF MarkEnds
  <1>3. PoolInv' /\ closing' \subseteq Queries
    <2>1. Moves(q, {"running", "queued", "done", "rejected"})
      BY <1>2 DEF Moves
    <2>2. query'[q] \notin {"running", "queued"}
      BY <1>2 DEF Moves
    <2>3. QED BY <1>1, <2>1, <2>2, MovesPoolInv DEF MarkEnds, processVars
  <1>4. /\ \A i \in Jobs : query'[<<"update", i>>] = query[<<"update", i>>] \/
                            query[<<"update", i>>] = "queued"
        /\ \A i \in Jobs \ {j} : query'[<<"mark", i>>] = query[<<"mark", i>>] \/
                                  query[<<"mark", i>>] = "queued"
    BY <1>2 DEF Moves, Queries
  <1>5. JobInv'
    BY <1>1, <1>4 DEF MarkEnds, IInv, JobInv
  <1>6. j \in LastTry
    BY <1>1 DEF IInv, TypeOK
  <1>7. TypeOK'
    BY <1>2, <1>3, <1>4, <1>6 DEF MarkEnds, IInv, TypeOK, Moves, processVars
  <1>8. (SpanInv /\ DrainInv /\ ScrapeInv /\ ExitInv)'
    BY DEF MarkEnds, IInv, SpanInv, DrainInv, ScrapeInv, ExitInv, Busy, processVars
  <1>9. QED BY <1>3, <1>5, <1>7, <1>8 DEF IInv

(* The close of a client gives room to a query that waits.                  *)
LEMMA ClosedMoves ==
  ASSUME query \in [Queries -> QueryStates], NEW q \in Queries, ClientClosed(q)
  PROVE  query' = query \/ \E w \in Waiting : query' = [query EXCEPT ![w] = "running"]
  BY ServedIs DEF ClientClosed

LEMMA ClosedStepIInv ==
  ASSUME IInv, NEW q \in Queries, ClientClosed(q)
  PROVE  IInv'
  <1>1. /\ query' \in [Queries -> QueryStates]
        /\ \A p \in Queries :
             query'[p] = query[p] \/ (query[p] = "queued" /\ query'[p] = "running")
    BY ClosedMoves DEF IInv, TypeOK, Waiting, QueryStates
  <1>2. \A i \in Jobs : <<"mark", i>> \in Queries /\ <<"update", i>> \in Queries
    BY DEF Queries
  <1>3. PoolInv'
    BY <1>1 DEF ClientClosed, IInv, PoolInv, TypeOK, Waiting, Working, Ending,
                processVars
  <1>4. TypeOK'
    BY <1>1, <1>2 DEF ClientClosed, IInv, TypeOK, processVars
  <1>5. JobInv'
    BY <1>1, <1>2 DEF ClientClosed, IInv, JobInv
  <1>6. (SpanInv /\ DrainInv /\ ScrapeInv /\ ExitInv)'
    BY DEF ClientClosed, IInv, SpanInv, DrainInv, ScrapeInv, ExitInv, Busy,
           processVars
  <1>7. QED BY <1>3, <1>4, <1>5, <1>6 DEF IInv

(* A step of the signals, of the shutdown or of the scraper.                *)
LEMMA ProcessStepIInv ==
  ASSUME IInv,
         ScrapeStarts \/ ScrapeEnds \/ ShutdownStep \/
           \E sig \in Signals : Signal(sig) \/ SignalAgain(sig)
  PROVE  IInv'
  <1> USE DEF IInv, TypeOK, Stages, SpanStates, SpanInv, DrainInv, ScrapeInv,
              JobInv, PoolInv, ExitInv, Ending, Busy, InProgress, Settled,
              Processing, Alive, processVars, poolVars, Working, Waiting
  <1>1. CASE ScrapeStarts  BY <1>1 DEF ScrapeStarts
  <1>2. CASE ScrapeEnds  BY <1>2 DEF ScrapeEnds
  <1>3. CASE WorkerClosed  BY <1>3 DEF WorkerClosed, Await
  <1>4. CASE QueueClosed  BY <1>4 DEF QueueClosed, Await
  <1>5. CASE ServerClosed  BY <1>5 DEF ServerClosed, Await
  <1>6. CASE RedisQuit
    <2>1. /\ query' \in [Queries -> QueryStates]
          /\ \A q \in Queries : query'[q] = IF query[q] = "queued" THEN "lost"
                                            ELSE query[q]
      BY <1>6 DEF RedisQuit, QueryStates
    <2>2. \A i \in Jobs : <<"mark", i>> \in Queries /\ <<"update", i>> \in Queries
      BY DEF Queries
    <2>3. QED BY <1>6, <2>1, <2>2 DEF RedisQuit, Await
  <1>7. CASE RedisQuitFails  BY <1>7 DEF RedisQuitFails
  <1>8. CASE PoolEnded  BY <1>8 DEF PoolEnded, Await
  <1>9. CASE SpansFlushed
    <2>1. /\ span' \in [Jobs -> SpanStates]
          /\ \A j \in Jobs : span'[j] = IF span[j] = "ended" THEN "exported"
                                         ELSE span[j]
      BY <1>9 DEF SpansFlushed
    <2>2. TypeOK' /\ SpanInv' /\ ExitInv'
      BY <1>9, <2>1 DEF SpansFlushed, Await
    <2>3. DrainInv' /\ ScrapeInv' /\ JobInv' /\ PoolInv'
      BY <1>9 DEF SpansFlushed, Await
    <2>4. QED BY <2>2, <2>3
  <1>10. CASE LogFlushed  BY <1>10 DEF LogFlushed
  <1>11. CASE DeadlineHit  BY <1>11 DEF DeadlineHit
  <1>12. ASSUME NEW sig \in Signals, Signal(sig) PROVE IInv'
    <2>1. stage' = stage \/ (stage = "serving" /\ stage' = "worker")
      BY <1>12 DEF Signal
    <2>2. TypeOK'
      BY <1>12, <2>1 DEF Signal
    <2>3. SpanInv' /\ DrainInv' /\ ScrapeInv' /\ JobInv'
      BY <1>12, <2>1 DEF Signal
    <2>4. PoolInv' /\ ExitInv'
      BY <1>12, <2>1 DEF Signal
    <2>5. QED BY <2>2, <2>3, <2>4
  <1>13. ASSUME NEW sig \in Signals, SignalAgain(sig) PROVE IInv'
    BY <1>13 DEF SignalAgain
  <1>14. QED BY <1>1, <1>2, <1>3, <1>4, <1>5, <1>6, <1>7, <1>8, <1>9, <1>10,
               <1>11, <1>12, <1>13 DEF ShutdownStep

LEMMA NextIInv == IInv /\ [Next]_vars => IInv'
  <1> SUFFICES ASSUME IInv, [Next]_vars PROVE IInv'
    OBVIOUS
  <1>1. CASE UNCHANGED vars
    BY <1>1 DEF vars, IInv, TypeOK, SpanInv, DrainInv, ScrapeInv, JobInv, PoolInv,
                ExitInv, Busy, Working, Waiting
  <1>2. CASE Next
    BY <1>2, PlainStepIInv, AskStepIInv, UpdateStepIInv, MarkStepIInv,
       ClosedStepIInv, ProcessStepIInv DEF Next, JobStep
  <1>3. QED BY <1>1, <1>2

(* The inductive invariant.                                                 *)
THEOREM Invariant == Spec => []IInv
  <1>1. QED BY InitIInv, NextIInv, PTL DEF Spec

-----------------------------------------------------------------------------
(* TypeOK holds for every number of jobs, lanes and connections.            *)
THEOREM TypeCorrect == Spec => []TypeOK
  <1>1. IInv => TypeOK  BY DEF IInv
  <1>2. QED BY <1>1, Invariant, PTL

(* When the SDK of the worker is shut down, no span is open or can still    *)
(* start, no UPDATE runs and no scrape is being answered: shutdown() puts   *)
(* the flush last (main.ts of the worker).                                  *)
THEOREM FlushComesLast == Spec => []FlushIsLast
  <1>1. IInv => FlushIsLast
    BY DEF IInv, SpanInv, DrainInv, ScrapeInv, PoolInv, FlushIsLast, Busy,
           InProgress, Processing
  <1>2. QED BY <1>1, Invariant, PTL

(* An exit of the worker with code 0 leaves no job active under its lock,   *)
(* and every span reached the exporter.                                     *)
THEOREM CleanExitIsClean == Spec => []CleanExitLeavesNothing
  <1>1. IInv => CleanExitLeavesNothing
    BY DEF IInv, TypeOK, SpanStates, SpanInv, DrainInv, ExitInv,
           CleanExitLeavesNothing, Busy, InProgress, Processing
  <1>2. QED BY <1>1, Invariant, PTL

-----------------------------------------------------------------------------
(* The clients in use: at work, or being closed.  A query waits only while  *)
(* they are as many as the pool has.                                        *)
InUse == Working \cup closing

CountInv == Waiting # {} => Cardinality(InUse) >= PoolMax

(* What is lost was behind as many clients in use when the pool ended.      *)
LossInv == \A q \in Queries : query[q] = "lost" =>
             q \notin held /\ Cardinality(held) >= PoolMax

LEMMA QueriesFinite ==
  ASSUME NEW Q \in SUBSET Queries
  PROVE  IsFiniteSet(Q) /\ Cardinality(Q) \in Nat
  <1>1. IsFiniteSet({"update", "mark"})
    <2>1. IsFiniteSet({} \cup {"update"})
      BY FS_EmptySet, FS_AddElement
    <2>2. IsFiniteSet(({} \cup {"update"}) \cup {"mark"})
      BY <2>1, FS_AddElement
    <2>3. {"update", "mark"} = ({} \cup {"update"}) \cup {"mark"}
      OBVIOUS
    <2>4. QED BY <2>2, <2>3
  <1>2. IsFiniteSet(Queries)
    BY <1>1, FS_Product, ConstantsAssumption DEF Queries
  <1>3. QED BY <1>2, FS_Subset, FS_CardinalityType

(* If one query leaves a set and another enters it, as many are left.       *)
LEMMA Swap ==
  ASSUME NEW Q \in SUBSET Queries, NEW q \in Q, NEW w \in Queries \ Q
  PROVE  Cardinality((Q \ {q}) \cup {w}) = Cardinality(Q)
  <1>1. /\ IsFiniteSet(Q) /\ Cardinality(Q) \in Nat
        /\ IsFiniteSet(Q \ {q})
    BY QueriesFinite
  <1>2. Cardinality(Q \ {q}) = Cardinality(Q) - 1
    BY <1>1, FS_RemoveElement
  <1>3. Cardinality((Q \ {q}) \cup {w}) = Cardinality(Q \ {q}) + 1
    <2>1. w \notin Q \ {q}
      OBVIOUS
    <2>2. QED BY <1>1, <2>1, FS_AddElement
  <1>4. QED BY <1>1, <1>2, <1>3

(* More clients in use are enough.                                          *)
LEMMA MoreInUse ==
  ASSUME NEW P \in SUBSET Queries, NEW Q \in SUBSET Queries, P \subseteq Q,
         Cardinality(P) >= PoolMax
  PROVE  Cardinality(Q) >= PoolMax
  <1>1. Cardinality(P) \in Nat /\ Cardinality(Q) \in Nat /\ IsFiniteSet(Q)
    BY QueriesFinite
  <1>2. Cardinality(P) <= Cardinality(Q)
    BY <1>1, FS_Subset
  <1>3. QED BY <1>1, <1>2, ConstantsAssumption

LEMMA InUseType == IInv => /\ InUse \subseteq Queries
                           /\ Working \subseteq Queries
                           /\ \A q \in Waiting : q \in Queries \ InUse
  BY DEF IInv, TypeOK, PoolInv, InUse, Working, Waiting

LEMMA AskCount ==
  ASSUME IInv, CountInv, NEW q \in Queries, query[q] = "none", Ask(q)
  PROVE  CountInv'
  <1>1. CASE ClientFree
    <2>1. query' = [query EXCEPT ![q] = "running"] /\ closing' = closing
      BY <1>1 DEF Ask
    <2>2. Waiting' = Waiting /\ InUse' = InUse \cup {q}
      BY <2>1 DEF Waiting, Working, InUse, IInv, TypeOK
    <2>3. QED BY <2>2, InUseType, MoreInUse DEF CountInv
  <1>2. CASE ~ClientFree
    <2>1. query' = [query EXCEPT ![q] = "queued"] /\ closing' = closing
      BY <1>2 DEF Ask
    <2>2. InUse' = InUse
      BY <2>1 DEF Working, InUse, IInv, TypeOK
    <2>3. Cardinality(Working) >= PoolMax
      BY <1>2, InUseType, QueriesFinite, ConstantsAssumption DEF ClientFree
    <2>4. Cardinality(InUse) >= PoolMax
      BY <2>3, InUseType, MoreInUse DEF InUse
    <2>5. QED BY <2>2, <2>4 DEF CountInv
  <1>3. QED BY <1>1, <1>2

LEMMA HandOverCount ==
  ASSUME IInv, CountInv, NEW q \in Queries, query[q] = "running",
         NEW outcome \in {"done", "rejected"}, HandOver(q, outcome)
  PROVE  CountInv'
  <1> DEFINE f == [query EXCEPT ![q] = outcome]
  <1>1. CASE Waiting = {}
    <2>1. query' = f
      BY <1>1 DEF HandOver, Served
    <2>2. Waiting' = {}
      BY <1>1, <2>1 DEF Waiting, IInv, TypeOK
    <2>3. QED BY <2>2 DEF CountInv
  <1>2. CASE Waiting # {}
    <2>1. PICK w \in Waiting : query' = [f EXCEPT ![w] = "running"]
      BY <1>2 DEF HandOver, Served
    <2>2. w \in Queries \ InUse /\ q \in InUse /\ q \notin closing /\ w # q
      BY InUseType DEF InUse, Working, Waiting, IInv, PoolInv
    <2>3. Working' = (Working \ {q}) \cup {w}
      BY <2>1, <2>2 DEF Working, IInv, TypeOK
    <2>4. InUse' = (InUse \ {q}) \cup {w}
      BY <2>2, <2>3 DEF InUse, HandOver
    <2>5. Cardinality(InUse') = Cardinality(InUse)
      BY <2>2, <2>4, InUseType, Swap
    <2>6. QED BY <1>2, <2>5 DEF CountInv
  <1>3. QED BY <1>1, <1>2

LEMMA RejectCount ==
  ASSUME IInv, CountInv, NEW q \in Queries, query[q] = "running", Reject(q)
  PROVE  CountInv'
  <1>1. CASE HandOver(q, "rejected")
    BY <1>1, HandOverCount
  <1>2. CASE /\ query' = [query EXCEPT ![q] = "rejected"]
             /\ closing' = closing \cup {q}
    <2>1. Waiting' = Waiting /\ InUse' = InUse
      BY <1>2 DEF Waiting, Working, InUse, IInv, TypeOK
    <2>2. QED BY <2>1 DEF CountInv
  <1>3. QED BY <1>1, <1>2 DEF Reject

LEMMA ClosedCount ==
  ASSUME IInv, CountInv, NEW q \in Queries, ClientClosed(q)
  PROVE  CountInv'
  <1>1. q \in closing /\ q \in InUse /\ q \notin Working /\ closing' = closing \ {q}
    BY DEF ClientClosed, InUse, Working, IInv, PoolInv
  <1>2. CASE ClientFree /\ Waiting # {}
    <2>1. PICK w \in Waiting : query' = [query EXCEPT ![w] = "running"]
      BY <1>2 DEF ClientClosed, Served
    <2>2. w \in Queries \ InUse /\ w # q
      BY <1>1, InUseType
    <2>3. Working' = Working \cup {w}
      BY <2>1, <2>2 DEF Working, IInv, TypeOK
    <2>4. InUse' = (InUse \ {q}) \cup {w}
      BY <1>1, <2>2, <2>3 DEF InUse
    <2>5. Cardinality(InUse') = Cardinality(InUse)
      BY <1>1, <2>2, <2>4, InUseType, Swap
    <2>6. QED BY <1>2, <2>5 DEF CountInv
  <1>3. CASE Waiting = {}
    <2>1. query' = query
      BY <1>3 DEF ClientClosed, Served
    <2>2. QED BY <1>3, <2>1 DEF CountInv, Waiting
  <1>4. CASE ~ClientFree
    <2>1. query' = query
      BY <1>4 DEF ClientClosed
    <2>2. Working \subseteq InUse' /\ InUse' \subseteq Queries
      BY <1>1, <2>1, InUseType DEF InUse, Working
    <2>3. Cardinality(Working) >= PoolMax
      BY <1>4, InUseType, QueriesFinite, ConstantsAssumption DEF ClientFree
    <2>4. QED BY <2>2, <2>3, InUseType, MoreInUse DEF CountInv
  <1>5. QED BY <1>2, <1>3, <1>4

(* Only these, and the step that ends the pool, move a query.               *)
LEMMA QueryMoves ==
  ASSUME [Next]_vars
  PROVE  \/ UNCHANGED poolVars
         \/ RedisQuit
         \/ \E q \in Queries : ClientClosed(q)
         \/ \E j \in Jobs : \/ QuoteOk(j) \/ Failed(j) \/ MarkEnds(j)
                            \/ UpdateOk(j) \/ UpdateFails(j)
  <1> USE DEF poolVars
  <1>1. CASE UNCHANGED vars  BY <1>1 DEF vars
  <1>2. ASSUME NEW j \in Jobs, JobStep(j),
               ~(QuoteOk(j) \/ Failed(j) \/ MarkEnds(j) \/ UpdateOk(j) \/ UpdateFails(j))
        PROVE  UNCHANGED poolVars
    BY <1>2 DEF JobStep, Fetch, Fetched, FetchedNothing, QuoteFails, Summarised,
                Completed, Export
  <1>3. CASE ScrapeStarts \/ ScrapeEnds
    BY <1>3 DEF ScrapeStarts, ScrapeEnds
  <1>4. ASSUME NEW sig \in Signals, Signal(sig) \/ SignalAgain(sig)
        PROVE  UNCHANGED poolVars
    BY <1>4 DEF Signal, SignalAgain
  <1>5. ASSUME ShutdownStep, ~RedisQuit PROVE UNCHANGED poolVars
    BY <1>5 DEF ShutdownStep, WorkerClosed, QueueClosed, ServerClosed,
                RedisQuitFails, PoolEnded, SpansFlushed, LogFlushed, DeadlineHit
  <1>6. QED BY <1>1, <1>2, <1>3, <1>4, <1>5 DEF Next

(* Before the pool is ended nothing is lost, and what a query becomes       *)
(* otherwise is not lost.                                                   *)
LEMMA LossKept == IInv /\ CountInv /\ LossInv /\ [Next]_vars => CountInv' /\ LossInv'
  <1> SUFFICES ASSUME IInv, CountInv, LossInv, [Next]_vars
               PROVE  CountInv' /\ LossInv'
    OBVIOUS
  <1>1. CASE UNCHANGED poolVars
    BY <1>1 DEF poolVars, CountInv, LossInv, Waiting, Working, InUse
  <1>2. CASE RedisQuit
    <2>1. /\ \A q \in Queries : query'[q] = IF query[q] = "queued" THEN "lost"
                                          ELSE query[q]
          /\ held' = InUse
      BY <1>2 DEF RedisQuit, InUse, Waiting
    <2>2. CountInv'
      BY <2>1 DEF CountInv, Waiting
    <2>3. ASSUME NEW q \in Queries, query'[q] = "lost"
          PROVE  q \notin held' /\ Cardinality(held') >= PoolMax
      <3>1. query[q] # "lost"
        BY <1>2 DEF RedisQuit, Await, IInv, PoolInv, Ending
      <3>2. q \in Waiting
        BY <2>1, <2>3, <3>1 DEF Waiting
      <3>3. QED BY <2>1, <3>2, InUseType DEF CountInv
    <2>4. QED BY <2>2, <2>3 DEF LossInv
  <1>3. ASSUME NEW q \in Queries, ClientClosed(q) PROVE CountInv' /\ LossInv'
    <2>1. \A p \in Queries : query'[p] = "lost" => query[p] = "lost"
      BY <1>3, ClosedMoves DEF IInv, TypeOK, Waiting
    <2>2. LossInv'
      BY <1>3, <2>1 DEF ClientClosed, LossInv
    <2>3. QED BY <1>3, <2>2, ClosedCount
  <1>4. ASSUME NEW j \in Jobs, UpdateOk(j) \/ UpdateFails(j)
        PROVE  CountInv' /\ LossInv'
    <2> DEFINE q == <<"update", j>>
    <2>1. q \in Queries /\ query[q] = "running" /\ held' = held
      BY <1>4 DEF Queries, UpdateOk, UpdateFails
    <2>2. HandOver(q, "done") \/ Reject(q)
      BY <1>4 DEF UpdateOk, UpdateFails
    <2>3. CountInv'
      BY <2>1, <2>2, HandOverCount, RejectCount
    <2>4. Moves(q, {"done"}) \/ Moves(q, {"rejected"})
      BY <2>1, <2>2, HandOverMoves, RejectMoves DEF IInv, TypeOK
    <2>5. \A p \in Queries : query'[p] = "lost" => query[p] = "lost"
      BY <2>4 DEF Moves
    <2>6. QED BY <2>1, <2>3, <2>5 DEF LossInv
  <1>5. ASSUME NEW j \in Jobs, MarkEnds(j) PROVE CountInv' /\ LossInv'
    <2> DEFINE q == <<"mark", j>>
    <2>1. /\ q \in Queries /\ query[q] = "running" /\ held' = held
          /\ HandOver(q, "done") \/ Reject(q)
      BY <1>5 DEF Queries, MarkEnds
    <2>2. CountInv'
      BY <2>1, HandOverCount, RejectCount
    <2>3. Moves(q, {"done"}) \/ Moves(q, {"rejected"})
      BY <2>1, HandOverMoves, RejectMoves DEF IInv, TypeOK
    <2>4. \A p \in Queries : query'[p] = "lost" => query[p] = "lost"
      BY <2>3 DEF Moves
    <2>5. QED BY <2>1, <2>2, <2>4 DEF LossInv
  <1>6. ASSUME NEW q \in Queries, query[q] = "none", Ask(q), held' = held
        PROVE  CountInv' /\ LossInv'
    <2>1. Moves(q, {"running", "queued"})
      BY <1>6, AskMoves DEF IInv, TypeOK
    <2>2. \A p \in Queries : query'[p] = "lost" => query[p] = "lost"
      BY <2>1 DEF Moves
    <2>3. QED BY <1>6, <2>2, AskCount DEF LossInv
  <1>7. ASSUME NEW j \in Jobs, QuoteOk(j) PROVE CountInv' /\ LossInv'
    BY <1>6, <1>7 DEF QuoteOk, Move, Queries, IInv, JobInv
  <1>8. ASSUME NEW j \in Jobs, Failed(j) PROVE CountInv' /\ LossInv'
    <2>1. CASE j \in LastTry
      BY <1>6, <1>8, <2>1 DEF Failed, Move, Queries, IInv, JobInv
    <2>2. CASE j \notin LastTry
      BY <1>1, <1>8, <2>2 DEF Failed, poolVars
    <2>3. QED BY <2>1, <2>2
  <1>9. QED BY <1>1, <1>2, <1>3, <1>4, <1>5, <1>7, <1>8, QueryMoves

(* An exit of the worker with code 0 loses the markFailed of an exhausted   *)
(* job, which nobody awaits, only to a full pool: when database.close() was *)
(* called (main.ts of the worker), as many clients as the pool has were at  *)
(* work or being closed, none of them for that mark.                        *)
THEOREM CleanExitLosesToFullPool == Spec => []CleanExitKeepsMarks
  <1>1. Init => CountInv /\ LossInv
    BY DEF Init, CountInv, LossInv, Waiting
  <1>2. IInv /\ LossInv => CleanExitKeepsMarks
    <2> SUFFICES ASSUME IInv, LossInv, exit = "0", NEW j \in Jobs
                 PROVE  LET q == <<"mark", j>>
                        IN  /\ query[q] \notin {"queued", "running"}
                            /\ query[q] = "lost" =>
                                 q \notin held /\ Cardinality(held) >= PoolMax
      BY DEF CleanExitKeepsMarks
    <2> DEFINE q == <<"mark", j>>
    <2>1. q \in Queries
      BY DEF Queries
    <2>2. Waiting = {} /\ Working = {}
      BY DEF IInv, ExitInv, PoolInv, Ending
    <2>3. query[q] \notin {"queued", "running"}
      BY <2>1, <2>2 DEF Waiting, Working
    <2>4. QED BY <2>1, <2>3 DEF LossInv
  <1>3. QED BY <1>1, <1>2, InitIInv, NextIInv, LossKept, PTL DEF Spec

=============================================================================
