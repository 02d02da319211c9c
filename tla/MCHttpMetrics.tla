--------------------------- MODULE MCHttpMetrics ---------------------------
(* HttpMetrics for TLC: orders at the bounds of the schema, and what each   *)
(* request may ask for.                                                     *)
EXTENDS HttpMetrics

Number(n) == [type |-> "number", value |-> n]

Letters(n, code) == [i \in 1 .. n |-> code]

(* The largest order, an ordinary one with the highest bit of its hash set, *)
(* one whose pricing fails, two that are refused, and one with its quantity *)
(* as a text, which only GET /internal/pricing takes.                       *)
SomeOrders ==
    [largest  |-> [sku |-> Letters(64, 122), quantity |-> Number(1000)],
     ordinary |-> [sku |-> <<97>>, quantity |-> Number(1)],
     fails    |-> [sku |-> P!FAIL, quantity |-> Number(2)],
     nameless |-> [sku |-> <<>>, quantity |-> Number(1)],
     tooMany  |-> [sku |-> <<97>>, quantity |-> Number(1001)],
     text     |-> [sku |-> <<97>>, quantity |-> [type |-> "text", value |-> 1]]]

AllQuestions ==
    [kind: {"create", "pricing"}, order: DOMAIN SomeOrders] \cup
    [kind: DOMAIN Route \ {"create", "pricing"}]

(* The questions that await PostgreSQL or Redis.                            *)
AwaitingQuestions ==
    {[kind |-> "create", order |-> "ordinary"], [kind |-> "get"],
     [kind |-> "probe"]}

=============================================================================
