--------------------------- MODULE OrderLifecycle ---------------------------
(***************************************************************************)
(* What the stack promises about an order, as a client of the api sees it: *)
(* a 202 names an order that is stored, a stored order waits as 'queued'   *)
(* and settles as 'priced' (with its total) or as 'failed', it never goes  *)
(* back to 'queued', a recorded total is never erased, and an order whose  *)
(* pricing cannot succeed is never priced.                                 *)
(*                                                                         *)
(* Redelivery says whether the attempts on an order may overlap or repeat  *)
(* after one of them wrote the row.  Without it the first outcome is       *)
(* final.  With it a later attempt may overwrite the outcome.              *)
(***************************************************************************)
CONSTANTS Orders,     \* the orders
          FailSkus,   \* those whose pricing cannot succeed
          Redelivery  \* may an attempt overwrite the outcome of another?

VARIABLES row,        \* status and total of each order, "none" if not stored
          accepted    \* the orders whose client got a 202

vars == <<row, accepted>>

Init ==
    /\ row = [o \in Orders |-> [status |-> "none", total |-> "null"]]
    /\ accepted = {}

(* The orders an attempt may still settle.                                 *)
Open == {o \in Orders : \/ row[o].status = "queued"
                        \/ Redelivery /\ row[o].status # "none"}

Create(o) ==
    /\ row[o].status = "none"
    /\ row' = [row EXCEPT ![o] = [status |-> "queued", total |-> "null"]]
    /\ UNCHANGED accepted

Accept(o) ==
    /\ row[o].status # "none"
    /\ accepted' = accepted \cup {o}
    /\ UNCHANGED row

Price(o) ==
    /\ o \in Open \ FailSkus
    /\ row' = [row EXCEPT ![o] = [status |-> "priced", total |-> "quoted"]]
    /\ UNCHANGED accepted

GiveUp(o) ==
    /\ o \in Open
    /\ row' = [row EXCEPT ![o].status = "failed"]
    /\ UNCHANGED accepted

Next == \E o \in Orders : Create(o) \/ Accept(o) \/ Price(o) \/ GiveUp(o)

Spec == Init /\ [][Next]_vars

=============================================================================
