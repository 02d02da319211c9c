--------------------------- MODULE MCOrderPipeline ---------------------------
(* OrderPipeline for TLC: the sets of failures the runs explore.            *)
EXTENDS OrderPipeline, TLC

(* Failures after which the attempts on an order neither overlap nor repeat *)
(* once the row is written, and no UPDATE of an exhausted order is lost.    *)
NoRedelivery == {"insert_error", "add_error", "api_crash", "pricing_error"}

(* An api that is down uses up all attempts of an order at one stroke; with *)
(* every other failure they outnumber two of them.                          *)
NoOutage == FaultKinds \ {"api_crash"}

(* Worker processes are alike, and so are job ids.                          *)
Symmetry == Permutations(Workers) \cup Permutations(Jobs)
=============================================================================
