------------------------------ MODULE Pricing ------------------------------
(***************************************************************************)
(* The price of an order, and the two schemas an order passes: the body of *)
(* POST /orders and the query of GET /internal/pricing                     *)
(* (services/api/src/{app,pricing}.ts).  The hash of a sku is FNV-1a on 32 *)
(* bits; services/worker/src/summariser.ts has the same one.               *)
(*                                                                         *)
(* An order is [sku, quantity], the sku a sequence of character codes      *)
(* below 2^16 (no surrogate pairs), the quantity a JSON number or a text   *)
(* with its value: what Number() makes of it, here 0 if that is no integer *)
(* (which is refused as 0 is).  A 32-bit number is [hi, lo], two halves of *)
(* 16 bits.                                                                *)
(***************************************************************************)
EXTENDS FiniteSetsExt, Integers, SequencesExt

Half       == 0 .. 65535
Word       == [hi: Half, lo: Half]
Quantities == [type: {"number", "text"}, value: Int]
Orders     == [sku: Seq(Half), quantity: Quantities]

FAIL == <<70, 65, 73, 76, 45>>  \* "FAIL-"

createOrderBody(o) ==
    /\ Len(o.sku) \in 1 .. 64
    /\ o.quantity.type = "number"
    /\ o.quantity.value \in 1 .. 1000

(* The worker asks with the quantity of the job as a text.                  *)
asQuery(o) == [o EXCEPT !.quantity.type = "text"]

(* A faulty pricingQuery: z.number(), which takes no text for a number.     *)
pricingQueryUncoerced(o) ==
    /\ Len(o.sku) \in 1 .. 64
    /\ o.quantity.type = "number"
    /\ o.quantity.value \in 1 .. 1000

(* z.coerce.number() takes either.                                          *)
pricingQuery(o) ==
    /\ Len(o.sku) \in 1 .. 64
    /\ o.quantity.value \in 1 .. 1000

-----------------------------------------------------------------------------
Powers == <<1, 2, 4, 8, 16, 32, 64, 128, 256, 512, 1024, 2048, 4096, 8192,
            16384, 32768>>

Xor(a, b) ==
    SumFunction([i \in DOMAIN Powers |->
                    Powers[i] * ((a \div Powers[i] + b \div Powers[i]) % 2)])

(* One character: h ^= code, then the product with 16777619, 256 * 2^16 +   *)
(* 403, of which Math.imul and >>> 0 keep the low 32 bits, unsigned.        *)
Mix(h, code) ==
    LET low     == Xor(h.lo, code)
        product == low * 403
    IN  [hi |-> (h.hi * 403 + low * 256 + product \div 65536) % 65536,
         lo |-> product % 65536]

(* From 2166136261.                                                         *)
hash(sku) == FoldLeft(Mix, [hi |-> 33052, lo |-> 40389], sku)

(* A faulty Modulo: h without its >>> 0, which % takes for negative.        *)
ModuloSigned(h, n) ==
    IF h.hi < 32768 THEN ((h.hi % n) * (65536 % n) + h.lo) % n
    ELSE -((((65535 - h.hi) % n) * (65536 % n) + 65536 - h.lo) % n)

Modulo(h, n) == ((h.hi % n) * (65536 % n) + h.lo) % n

unitCents(sku) == 100 + Modulo(hash(sku), 9900)

(* The quote, which rejects for a FAIL- sku (SLOW- only takes its time).    *)
unavailable(o) == IsPrefix(FAIL, o.sku)

totalCents(o) == unitCents(o.sku) * o.quantity.value

=============================================================================
