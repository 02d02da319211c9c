------------------------------ MODULE Backends ------------------------------
(***************************************************************************)
(* What the handlers of the api await: PostgreSQL, through the pool of     *)
(* services/api/src/db.ts, and Redis, through the connection of            *)
(* services/api/src/queue.ts, each of which may stop and come back.        *)
(*                                                                         *)
(* pg-pool gives a query an idle client, or connects one more up to max,   *)
(* or lets it wait.  A query whose connection breaks rejects.  A client    *)
(* that breaks while it is idle makes the pool emit 'error'; db.ts listens *)
(* for none, so Node ends the process.                                     *)
(*                                                                         *)
(* ioredis with maxRetriesPerRequest: null reconnects for ever and keeps   *)
(* the commands until then: a command never rejects for an outage.         *)
(***************************************************************************)
EXTENDS FiniteSets, Integers

CONSTANTS
    Requests,  \* requests to the api
    PoolMax    \* the option max of the pool

ASSUME PoolAssumption ==
    /\ IsFiniteSet(Requests)
    /\ PoolMax \in Nat \ {0}

VARIABLES
    up,        \* does the api process run?
    postgres,  \* does PostgreSQL run?
    redis,     \* does Redis run?
    idle,      \* the idle clients of the pool
    querying,  \* the requests whose query has a client
    awaiting,  \* the services whose answer each handler awaits
    failed     \* those of each handler whose promise rejected

services == <<postgres, redis>>
backends == <<up, services, idle, querying, awaiting, failed>>

Service == {"postgres", "redis"}

BackendsTypeOK ==
    /\ up \in BOOLEAN
    /\ postgres \in BOOLEAN
    /\ redis \in BOOLEAN
    /\ idle \in 0 .. PoolMax
    /\ querying \subseteq Requests
    /\ awaiting \in [Requests -> SUBSET Service]
    /\ failed \in [Requests -> SUBSET Service]

(* The process has created its table; the client it used is idle.           *)
BackendsInit ==
    /\ up = TRUE
    /\ postgres = TRUE
    /\ redis = TRUE
    /\ idle = 1
    /\ querying = {}
    /\ awaiting = [r \in Requests |-> {}]
    /\ failed = [r \in Requests |-> {}]

(* The handler of r starts to await the answers of some services.           *)
Await(r, needs) ==
    /\ awaiting' = [awaiting EXCEPT ![r] = needs]
    /\ UNCHANGED <<up, services, idle, querying, failed>>

-----------------------------------------------------------------------------
(* pool.query: a client for the query, or the error of the connect.         *)
Waiting(r) == up /\ "postgres" \in awaiting[r] /\ r \notin querying

Connectable == idle = 0 /\ Cardinality(querying) < PoolMax

Query(r) ==
    /\ Waiting(r)
    /\ \/ /\ idle > 0
          /\ idle' = idle - 1
          /\ querying' = querying \cup {r}
          /\ UNCHANGED <<awaiting, failed>>
       \/ /\ Connectable
          /\ postgres
          /\ querying' = querying \cup {r}
          /\ UNCHANGED <<idle, awaiting, failed>>
       \/ /\ Connectable
          /\ ~postgres
          /\ awaiting' = [awaiting EXCEPT ![r] = @ \ {"postgres"}]
          /\ failed' = [failed EXCEPT ![r] = @ \cup {"postgres"}]
          /\ UNCHANGED <<idle, querying>>
    /\ UNCHANGED <<up, services>>

(* A faulty Answered: the client is kept while the handler awaits more.     *)
AnsweredKeeping(r, more) ==
    /\ up /\ r \in querying
    /\ IF more = {} THEN querying' = querying \ {r} /\ idle' = idle + 1
       ELSE UNCHANGED <<querying, idle>>
    /\ awaiting' = [awaiting EXCEPT ![r] = (@ \ {"postgres"}) \cup more]
    /\ UNCHANGED <<up, services, failed>>

(* A faulty Answered: the client never goes back to the pool.               *)
AnsweredLeaking(r, more) ==
    /\ up /\ r \in querying
    /\ awaiting' = [awaiting EXCEPT ![r] = (@ \ {"postgres"}) \cup more]
    /\ UNCHANGED <<up, services, idle, querying, failed>>

(* The result; the client is idle again before the handler goes on, which   *)
(* may await more.                                                          *)
Answered(r, more) ==
    /\ up /\ r \in querying
    /\ querying' = querying \ {r}
    /\ idle' = idle + 1
    /\ awaiting' = [awaiting EXCEPT ![r] = (@ \ {"postgres"}) \cup more]
    /\ UNCHANGED <<up, services, failed>>

(* The pool ends a client that was idle for ten seconds.                    *)
IdleTimeout ==
    /\ up /\ idle > 0
    /\ idle' = idle - 1
    /\ UNCHANGED <<up, services, querying, awaiting, failed>>

(* ping or queue.add: Redis replies, perhaps with an error.                 *)
RedisReplies(r) ==
    /\ up /\ redis
    /\ "redis" \in awaiting[r]
    /\ awaiting' = [awaiting EXCEPT ![r] = @ \ {"redis"}]
    /\ failed' \in {failed, [failed EXCEPT ![r] = @ \cup {"redis"}]}
    /\ UNCHANGED <<up, services, idle, querying>>

-----------------------------------------------------------------------------
(* The outages.                                                             *)

PostgresStops ==
    /\ up /\ postgres
    /\ postgres' = FALSE
    /\ IF idle > 0
       THEN /\ up' = FALSE
            /\ UNCHANGED <<querying, awaiting, failed>>
       ELSE /\ querying' = {}
            /\ awaiting' = [r \in Requests |-> IF r \in querying
                               THEN awaiting[r] \ {"postgres"} ELSE awaiting[r]]
            /\ failed' = [r \in Requests |-> IF r \in querying
                               THEN failed[r] \cup {"postgres"} ELSE failed[r]]
            /\ UNCHANGED up
    /\ UNCHANGED <<redis, idle>>

PostgresStarts ==
    /\ up /\ ~postgres
    /\ postgres' = TRUE
    /\ UNCHANGED <<up, redis, idle, querying, awaiting, failed>>

RedisStops ==
    /\ up /\ redis
    /\ redis' = FALSE
    /\ UNCHANGED <<up, postgres, idle, querying, awaiting, failed>>

RedisStarts ==
    /\ up /\ ~redis
    /\ redis' = TRUE
    /\ UNCHANGED <<up, postgres, idle, querying, awaiting, failed>>

Outages == PostgresStops \/ PostgresStarts \/ RedisStops \/ RedisStarts

=============================================================================
