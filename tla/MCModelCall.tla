---------------------------- MODULE MCModelCall ----------------------------
(* ModelCall for TLC: a model with a price and one without.                 *)
EXTENDS ModelCall, TLC

CONSTANTS c1, c2, s1, s2

TwoModels == {"demo-small", "unpriced"}

(* 0.15 and 0.60 dollars, in cents.                                         *)
DemoPrice == [m \in {"demo-small"} |-> [input |-> 15, output |-> 60]]

(* Two answers, and counts of which the second is no number.                *)
OddUsages == {[input |-> 3, output |-> 2], [input |-> 1, output |-> 5],
              [input |-> 3, output |-> Invalid]}

(* A thousand of "SKU-1", and one of "FAIL-1".                              *)
Number(n) == [type |-> "number", value |-> n]

TwoOrders == s1 :> [sku |-> <<83, 75, 85, 45, 49>>, quantity |-> Number(1000)]
          @@ s2 :> [sku |-> P!FAIL \o <<49>>, quantity |-> Number(1)]

Symmetry == Permutations({c1, c2})
=============================================================================
