----------------------------- MODULE FoldLemmas -----------------------------
(***************************************************************************)
(* What sums over a finite set of indices yield, and what a fold over a    *)
(* sequence stays within: the facts behind the totals of the model series  *)
(* and the hash of a sku (Pricing).  The folds of the community modules    *)
(* take an index at a time; the lemmas say that the order does not matter  *)
(* to a sum, and that no order leaves a set which each step stays in.      *)
(***************************************************************************)
EXTENDS Pricing, FiniteSetTheorems, WellFoundedInduction, TLAPS

(* A set of numbers with 0 that is closed under successors has all of them. *)
LEMMA Induction ==
    ASSUME NEW N \in SUBSET Nat, 0 \in N, \A n \in N : n + 1 \in N
    PROVE  N = Nat
<1> SUFFICES ASSUME Nat \ N # {} PROVE FALSE
  OBVIOUS
<1>1. PICK n \in Nat \ N : \A m \in Nat \ N : <<m, n>> \notin OpToRel(<, Nat)
  BY NatLessThanWellFounded, WFMin, Zenon
<1>2. \A m \in Nat \ N : ~(m < n)
  BY <1>1 DEF OpToRel
<1>3. n - 1 \in Nat /\ n - 1 < n
  OBVIOUS
<1> QED
  BY <1>2, <1>3

(* Taking an element away makes a set smaller.                              *)
LEMMA OneLess ==
    ASSUME NEW T, IsFiniteSet(T), Cardinality(T) \in Nat, NEW x \in T,
           NEW n \in Nat, Cardinality(T) <= n + 1
    PROVE  Cardinality(T \ {x}) <= n
<1>1. Cardinality(T \ {x}) = Cardinality(T) - 1
  BY FS_RemoveElement
<1> QED
  BY <1>1

(* A set of subsets of S that has {}, and each subset all of whose smaller  *)
(* neighbours it has, has every subset of S.                                *)
LEMMA SubsetInduction ==
    ASSUME NEW S, IsFiniteSet(S), NEW G \in SUBSET SUBSET S, {} \in G,
           \A T \in (SUBSET S) \ {{}} : (\A x \in T : T \ {x} \in G) => T \in G
    PROVE  G = SUBSET S
<1> DEFINE N == {n \in Nat : \A T \in SUBSET S : Cardinality(T) = n => T \in G}
<1>0. \A T \in SUBSET S : IsFiniteSet(T) /\ Cardinality(T) \in Nat
  BY FS_Subset, FS_CardinalityType
<1>1. 0 \in N
  BY <1>0, FS_EmptySet
<1>2. ASSUME NEW n \in N PROVE n + 1 \in N
  <2> SUFFICES ASSUME NEW T \in SUBSET S, Cardinality(T) = n + 1, NEW x \in T
               PROVE  T \ {x} \in G
    <3>1. n + 1 \in Nat /\ n + 1 # 0
      OBVIOUS
    <3>2. ASSUME NEW T \in SUBSET S, Cardinality(T) = n + 1 PROVE T \in G
      <4>1. T # {}
        BY <3>1, <3>2, FS_EmptySet
      <4> QED
        BY <3>2, <4>1
    <3> QED
      BY <3>1, <3>2
  <2>1. Cardinality(T \ {x}) = n
    BY <1>0, FS_RemoveElement
  <2> QED
    BY <2>1
<1> HIDE DEF N
<1>3. N = Nat
  <2>1. N \in SUBSET Nat
    BY DEF N
  <2> QED
    BY <1>1, <1>2, <2>1, Induction
<1> SUFFICES ASSUME NEW T \in SUBSET S PROVE T \in G
  OBVIOUS
<1>4. Cardinality(T) \in N
  BY <1>0, <1>3
<1> QED
  BY <1>4 DEF N

-----------------------------------------------------------------------------
(* One element after the other is taken from a set by pick, and put on top  *)
(* of what the rest yields by step.                                         *)
Follows(h, base, step, pick, T) ==
    h[T] = IF T = {} THEN base ELSE step[pick[T]][h[T \ {pick[T]}]]

IsFold(h, S, base, step, pick) ==
    \A T \in SUBSET S : Follows(h, base, step, pick, T)

Foldable(S, V, base, step, pick) ==
    /\ IsFiniteSet(S)
    /\ base \in V
    /\ step \in [S -> [V -> V]]
    /\ pick \in [(SUBSET S) \ {{}} -> S]
    /\ \A T \in (SUBSET S) \ {{}} : pick[T] \in T

(* Over a finite set there is such a function, and it stays in V.           *)
LEMMA FoldExists ==
    ASSUME NEW S, NEW V, NEW base, NEW step, NEW pick,
           Foldable(S, V, base, step, pick)
    PROVE  \E h \in [SUBSET S -> V] : IsFold(h, S, base, step, pick)
<1> USE DEF Foldable
<1> DEFINE UpTo(h, n) == \A T \in SUBSET S : Cardinality(T) <= n =>
                             Follows(h, base, step, pick, T)
           N == {n \in Nat : \E h \in [SUBSET S -> V] : UpTo(h, n)}
<1>0. \A T \in SUBSET S : IsFiniteSet(T) /\ Cardinality(T) \in Nat
  BY FS_Subset, FS_CardinalityType
<1>1. 0 \in N
  <2> DEFINE h == [T \in SUBSET S |-> base]
  <2>1. h \in [SUBSET S -> V]
    OBVIOUS
  <2>2. UpTo(h, 0)
    BY <1>0, FS_EmptySet DEF Follows
  <2> QED
    BY <2>1, <2>2
<1>2. ASSUME NEW n \in N PROVE n + 1 \in N
  <2>1. PICK h \in [SUBSET S -> V] : UpTo(h, n)
    OBVIOUS
  <2> DEFINE g == [T \in SUBSET S |->
                     IF T = {} THEN base ELSE step[pick[T]][h[T \ {pick[T]}]]]
  <2>2. g \in [SUBSET S -> V]
    <3> SUFFICES ASSUME NEW T \in SUBSET S, T # {}
                 PROVE  step[pick[T]][h[T \ {pick[T]}]] \in V
      OBVIOUS
    <3>1. pick[T] \in S /\ h[T \ {pick[T]}] \in V
      OBVIOUS
    <3> QED
      BY <3>1
  <2>3. ASSUME NEW T \in SUBSET S, Cardinality(T) <= n PROVE g[T] = h[T]
    BY <2>1, <2>3 DEF Follows
  <2>4. UpTo(g, n + 1)
    <3> SUFFICES ASSUME NEW T \in SUBSET S, Cardinality(T) <= n + 1, T # {}
                 PROVE  g[T] = step[pick[T]][g[T \ {pick[T]}]]
      BY DEF Follows
    <3> DEFINE x == pick[T]
    <3>1. x \in T /\ IsFiniteSet(T) /\ Cardinality(T) \in Nat /\ n \in Nat
      BY <1>0
    <3>2. Cardinality(T \ {x}) <= n
      <4> HIDE DEF x, g, N, UpTo
      <4> QED
        BY <3>1, OneLess
    <3> HIDE DEF g
    <3>3. g[T \ {pick[T]}] = h[T \ {pick[T]}]
      BY <2>3, <3>2
    <3> QED
      BY <3>3 DEF g
  <2> HIDE DEF g, UpTo
  <2> QED
    BY <2>2, <2>4
<1>3. Cardinality(S) \in N
  <2> HIDE DEF N
  <2>1. N = Nat
    <3>1. N \in SUBSET Nat
      BY DEF N
    <3> QED
      BY <1>1, <1>2, <3>1, Induction
  <2> QED
    BY <2>1, <1>0
<1>4. \A T \in SUBSET S : Cardinality(T) <= Cardinality(S)
  BY FS_Subset
<1> QED
  BY <1>3, <1>4 DEF IsFold

-----------------------------------------------------------------------------
(* Which index the community modules start with.                            *)
Some(T) == CHOOSE x \in T : TRUE

(* It is one.                                                               *)
LEMMA SomeIsIn == ASSUME NEW T, T # {} PROVE Some(T) \in T
  BY Zenon DEF Some

(* The sums over the subsets of S.                                          *)
IsSum(h, f, S) ==
    h = [T \in SUBSET S |-> IF T = {} THEN 0 ELSE f[Some(T)] + h[T \ {Some(T)}]]

(* There is but one function of sums ...                                    *)
LEMMA SumUnique ==
    ASSUME NEW S, IsFiniteSet(S), NEW R \in SUBSET S, NEW f, NEW e, NEW g, NEW h,
           IsSum(g, f, S), IsSum(h, e, R), \A x \in R : e[x] = f[x]
    PROVE  \A T \in SUBSET R : g[T] = h[T]
<1> DEFINE G == {T \in SUBSET R : g[T] = h[T]}
<1>1. \A T \in SUBSET R :
        /\ g[T] = IF T = {} THEN 0 ELSE f[Some(T)] + g[T \ {Some(T)}]
        /\ h[T] = IF T = {} THEN 0 ELSE e[Some(T)] + h[T \ {Some(T)}]
  BY DEF IsSum
<1>2. \A T \in (SUBSET R) \ {{}} : (\A x \in T : T \ {x} \in G) => T \in G
  <2> SUFFICES ASSUME NEW T \in (SUBSET R) \ {{}}, \A x \in T : T \ {x} \in G
               PROVE  g[T] = h[T]
    OBVIOUS
  <2>1. Some(T) \in T
    BY SomeIsIn
  <2> QED
    BY <1>1, <2>1
<1>3. {} \in G
  BY <1>1
<1> HIDE DEF G
<1>4. G \in SUBSET SUBSET R
  BY DEF G
<1>5. IsFiniteSet(R)
  BY FS_Subset
<1>6. G = SUBSET R
  BY <1>2, <1>3, <1>4, <1>5, SubsetInduction
<1> QED
  BY <1>6 DEF G

(* ... and the sum is its value, an integer if what is added up is.         *)
LEMMA SumValue ==
    ASSUME NEW S, IsFiniteSet(S), NEW f, \A x \in S : f[x] \in Int
    PROVE  \E h \in [SUBSET S -> Int] : /\ IsSum(h, f, S)
                                        /\ SumFunctionOnSet(f, S) = h[S]
<1> DEFINE step == [x \in S |-> [n \in Int |-> f[x] + n]]
           pick == [T \in (SUBSET S) \ {{}} |-> Some(T)]
<1>1. \A T \in (SUBSET S) \ {{}} : Some(T) \in T
  BY SomeIsIn
<1>2. step \in [S -> [Int -> Int]] /\ pick \in [(SUBSET S) \ {{}} -> S]
  BY <1>1
<1>3. PICK h \in [SUBSET S -> Int] : IsFold(h, S, 0, step, pick)
  <2> HIDE DEF step
  <2>1. \A T \in (SUBSET S) \ {{}} : pick[T] \in T
    BY <1>1
  <2> HIDE DEF pick
  <2>2. Foldable(S, Int, 0, step, pick)
    BY <1>2, <2>1, 0 \in Int DEF Foldable
  <2> QED
    BY <2>2, FoldExists
<1>4. IsSum(h, f, S)
  <2> SUFFICES ASSUME NEW T \in SUBSET S
               PROVE  h[T] = IF T = {} THEN 0 ELSE f[Some(T)] + h[T \ {Some(T)}]
    BY DEF IsSum
  <2>1. CASE T = {}
    BY <1>3, <2>1 DEF IsFold, Follows
  <2>2. CASE T # {}
    <3>1. Some(T) \in S /\ h[T \ {Some(T)}] \in Int
      BY <1>1, <2>2
    <3>2. T \in (SUBSET S) \ {{}}
      BY <2>2
    <3>3. h[T] = step[pick[T]][h[T \ {pick[T]}]]
      BY <1>3, <2>2 DEF IsFold, Follows
    <3> QED
      BY <2>2, <3>1, <3>2, <3>3
  <2> QED
    BY <2>1, <2>2
<1>5. SumFunctionOnSet(f, S) = (CHOOSE g : IsSum(g, f, S))[S]
  BY DEF SumFunctionOnSet, FoldFunctionOnSet, MapThenFoldSet, IsSum, Some
<1>6. IsSum(CHOOSE g : IsSum(g, f, S), f, S)
  BY <1>4
<1>7. (CHOOSE g : IsSum(g, f, S))[S] = h[S]
  BY <1>4, <1>6, SumUnique
<1> QED
  BY <1>4, <1>5, <1>7

-----------------------------------------------------------------------------
(* The sum is an integer.                                                   *)
LEMMA SumType ==
    ASSUME NEW S, IsFiniteSet(S), NEW f, \A x \in S : f[x] \in Int
    PROVE  SumFunctionOnSet(f, S) \in Int
<1>1. PICK h \in [SUBSET S -> Int] : SumFunctionOnSet(f, S) = h[S]
  BY SumValue
<1> QED
  BY <1>1

(* The sum over no index.                                                   *)
LEMMA SumEmpty == ASSUME NEW f PROVE SumFunctionOnSet(f, {}) = 0
<1>1. PICK h \in [SUBSET {} -> Int] : IsSum(h, f, {}) /\ SumFunctionOnSet(f, {}) = h[{}]
  BY SumValue, FS_EmptySet
<1> QED
  BY <1>1 DEF IsSum

(* Functions that agree on the indices have the same sum.                   *)
LEMMA SumSame ==
    ASSUME NEW S, IsFiniteSet(S), NEW f, NEW e, \A x \in S : f[x] \in Int /\ e[x] = f[x]
    PROVE  SumFunctionOnSet(e, S) = SumFunctionOnSet(f, S)
<1>1. PICK h \in [SUBSET S -> Int] : IsSum(h, f, S) /\ SumFunctionOnSet(f, S) = h[S]
  BY SumValue
<1>2. PICK g \in [SUBSET S -> Int] : IsSum(g, e, S) /\ SumFunctionOnSet(e, S) = g[S]
  BY SumValue
<1>3. h[S] = g[S]
  BY <1>1, <1>2, SumUnique
<1> QED
  BY <1>1, <1>2, <1>3

(* Any index may come first.                                                *)
LEMMA SumRemove ==
    ASSUME NEW S, IsFiniteSet(S), NEW f, \A x \in S : f[x] \in Int, NEW x \in S
    PROVE  SumFunctionOnSet(f, S) = f[x] + SumFunctionOnSet(f, S \ {x})
<1>1. PICK h \in [SUBSET S -> Int] : IsSum(h, f, S) /\ SumFunctionOnSet(f, S) = h[S]
  BY SumValue
<1> DEFINE G == {T \in SUBSET S : \A y \in T : h[T] = f[y] + h[T \ {y}]}
<1>2. {} \in G
  OBVIOUS
<1>3. \A T \in (SUBSET S) \ {{}} : (\A y \in T : T \ {y} \in G) => T \in G
  <2> SUFFICES ASSUME NEW T \in (SUBSET S) \ {{}}, \A y \in T : T \ {y} \in G, NEW y \in T
               PROVE  h[T] = f[y] + h[T \ {y}]
    OBVIOUS
  <2> DEFINE z == Some(T)
  <2>1. z \in T
    BY SomeIsIn
  <2>2. h[T] = f[z] + h[T \ {z}]
    BY <1>1 DEF IsSum
  <2> HIDE DEF z
  <2>3. CASE y # z
    <3>1. (T \ {z}) \ {y} = (T \ {y}) \ {z}
      OBVIOUS
    <3> DEFINE rest == h[(T \ {y}) \ {z}]
    <3>2. h[T \ {z}] = f[y] + rest
      BY <2>1, <2>3, <3>1
    <3>3. h[T \ {y}] = f[z] + rest
      BY <2>1, <2>3
    <3>4. f[y] \in Int /\ f[z] \in Int /\ rest \in Int
      BY <2>1
    <3> HIDE DEF rest
    <3> QED
      BY <2>2, <3>2, <3>3, <3>4
  <2> QED
    BY <2>2, <2>3
<1>4. G = SUBSET S
  <2> HIDE DEF G
  <2>1. G \in SUBSET SUBSET S
    BY DEF G
  <2> QED
    BY <1>2, <1>3, <2>1, SubsetInduction
<1>5. h[S] = f[x] + h[S \ {x}]
  BY <1>4
<1>6. SumFunctionOnSet(f, S \ {x}) = h[S \ {x}]
  <2>1. S \ {x} \in SUBSET S /\ IsFiniteSet(S \ {x})
    BY FS_Subset
  <2>2. PICK g \in [SUBSET (S \ {x}) -> Int] :
          IsSum(g, f, S \ {x}) /\ SumFunctionOnSet(f, S \ {x}) = g[S \ {x}]
    BY <2>1, SumValue
  <2> QED
    BY <1>1, <2>1, <2>2, SumUnique
<1> QED
  BY <1>1, <1>5, <1>6

(* A sum of zeros.                                                          *)
LEMMA SumZero ==
    ASSUME NEW S, IsFiniteSet(S), NEW f, \A x \in S : f[x] = 0
    PROVE  SumFunctionOnSet(f, S) = 0
<1> DEFINE G == {T \in SUBSET S : SumFunctionOnSet(f, T) = 0}
<1>1. {} \in G
  BY SumEmpty
<1>2. \A T \in (SUBSET S) \ {{}} : (\A x \in T : T \ {x} \in G) => T \in G
  <2> SUFFICES ASSUME NEW T \in (SUBSET S) \ {{}}, \A x \in T : T \ {x} \in G
               PROVE  SumFunctionOnSet(f, T) = 0
    OBVIOUS
  <2>1. PICK x \in T : TRUE
    OBVIOUS
  <2>2. IsFiniteSet(T) /\ \A y \in T : f[y] \in Int
    BY FS_Subset
  <2>3. SumFunctionOnSet(f, T) = f[x] + SumFunctionOnSet(f, T \ {x})
    BY <2>2, SumRemove
  <2> QED
    BY <2>3
<1>3. G = SUBSET S
  <2> HIDE DEF G
  <2>1. G \in SUBSET SUBSET S
    BY DEF G
  <2> QED
    BY <1>1, <1>2, <2>1, SubsetInduction
<1> QED
  BY <1>3

(* One more index.                                                          *)
LEMMA SumAdd ==
    ASSUME NEW S, IsFiniteSet(S), NEW x, x \notin S, NEW R, R = S \cup {x},
           NEW f, NEW e, e[x] \in Int,
           \A y \in S : f[y] \in Int /\ e[y] = f[y]
    PROVE  SumFunctionOnSet(e, R) = SumFunctionOnSet(f, S) + e[x]
<1>1. IsFiniteSet(R) /\ R \ {x} = S
  BY FS_AddElement
<1>2. \A y \in R : e[y] \in Int
  OBVIOUS
<1>3. SumFunctionOnSet(e, R) = e[x] + SumFunctionOnSet(e, S)
  BY <1>1, <1>2, SumRemove
<1> QED
  BY <1>3, SumSame, SumType

(* One value more by n.                                                     *)
LEMMA SumUpdate ==
    ASSUME NEW S, IsFiniteSet(S), NEW f, NEW e, NEW x \in S, NEW n \in Int,
           f[x] \in Int, e[x] = f[x] + n,
           \A y \in S \ {x} : f[y] \in Int /\ e[y] = f[y]
    PROVE  SumFunctionOnSet(e, S) = SumFunctionOnSet(f, S) + n
<1>1. IsFiniteSet(S \ {x})
  BY FS_Subset
<1>2. \A y \in S : f[y] \in Int /\ e[y] \in Int
  OBVIOUS
<1>3. /\ SumFunctionOnSet(f, S) = f[x] + SumFunctionOnSet(f, S \ {x})
      /\ SumFunctionOnSet(e, S) = e[x] + SumFunctionOnSet(e, S \ {x})
  BY <1>2, SumRemove
<1>4. /\ SumFunctionOnSet(e, S \ {x}) = SumFunctionOnSet(f, S \ {x})
      /\ SumFunctionOnSet(f, S \ {x}) \in Int
  BY <1>1, SumSame, SumType
<1> QED
  BY <1>3, <1>4

-----------------------------------------------------------------------------

(* The fold of a sequence starts with its last index, which is one.         *)
LEMMA MaxIsIn ==
    ASSUME NEW S, IsFiniteSet(S), S \in SUBSET Int
    PROVE  \A T \in (SUBSET S) \ {{}} : Max(T) \in T
<1> DEFINE G == {T \in SUBSET S : T # {} => \E x \in T : \A y \in T : x >= y}
<1>1. {} \in G
  OBVIOUS
<1>2. \A T \in (SUBSET S) \ {{}} : (\A x \in T : T \ {x} \in G) => T \in G
  <2> SUFFICES ASSUME NEW T \in (SUBSET S) \ {{}}, \A x \in T : T \ {x} \in G
               PROVE  \E x \in T : \A y \in T : x >= y
    OBVIOUS
  <2> PICK x \in T : TRUE
    OBVIOUS
  <2>1. CASE T \ {x} = {}
    BY <2>1
  <2>2. CASE T \ {x} # {}
    <3> PICK z \in T \ {x} : \A y \in T \ {x} : z >= y
      BY <2>2
    <3>1. CASE x >= z
      BY <3>1
    <3>2. CASE ~(x >= z)
      BY <3>2
    <3> QED
      BY <3>1, <3>2
  <2> QED
    BY <2>1, <2>2
<1>3. G = SUBSET S
  <2> HIDE DEF G
  <2>1. G \in SUBSET SUBSET S
    BY DEF G
  <2> QED
    BY <1>1, <1>2, <2>1, SubsetInduction
<1> SUFFICES ASSUME NEW T \in (SUBSET S) \ {{}} PROVE Max(T) \in T
  OBVIOUS
<1>4. \E x \in T : \A y \in T : x >= y
  BY <1>3
<1> QED
  BY <1>4 DEF Max

(* Exclusive or yields an integer ...                                       *)
LEMMA XorType == ASSUME NEW a \in Int, NEW b \in Int PROVE Xor(a, b) \in Int
<1> DEFINE S == DOMAIN Powers
           f == [i \in S |-> Powers[i] * ((a \div Powers[i] + b \div Powers[i]) % 2)]
<1>1. S = 1 .. 16
  BY DEF Powers
<1>2. ASSUME NEW i \in S PROVE f[i] \in Int
  <2>1. Powers[i] \in Int /\ Powers[i] > 0
    BY <1>1 DEF Powers
  <2>2. \A p \in Int : p > 0 => p * ((a \div p + b \div p) % 2) \in Int
    OBVIOUS
  <2> QED
    BY <2>1, <2>2
<1>3. IsFiniteSet(S)
  BY <1>1, FS_Interval, 1 \in Int, 16 \in Int, Zenon
<1>4. Xor(a, b) = SumFunctionOnSet(f, S)
  BY DEF Xor, SumFunction
<1> HIDE DEF f, S
<1> QED
  BY <1>2, <1>3, <1>4, SumType

(* ... so that a round of the hash yields two halves again.                 *)
LEMMA MixType ==
    ASSUME NEW h \in Word, NEW code \in Half PROVE Mix(h, code) \in Word
<1>1. h.hi \in Int /\ h.lo \in Int /\ code \in Int
  <2>1. \A n \in Half : n \in Int
    BY DEF Half
  <2> QED
    BY <2>1 DEF Word
<1> DEFINE low == Xor(h.lo, code)
           product == low * 403
           high == h.hi * 403 + low * 256 + product \div 65536
<1>2. low \in Int
  BY <1>1, XorType
<1>3. product \in Int /\ high \in Int
  <2> HIDE DEF low
  <2> QED
    BY <1>1, <1>2
<1>4. \A n \in Int : n % 65536 \in Half
  BY DEF Half
<1>5. Mix(h, code) = [hi |-> high % 65536, lo |-> product % 65536]
  BY DEF Mix
<1> HIDE DEF high, product
<1> QED
  BY <1>3, <1>4, <1>5 DEF Word

(* The hashes of the prefixes of a sku, and of its other subsequences.      *)
Basis == [hi |-> 33052, lo |-> 40389]

IsHash(h, sku) ==
    h = [T \in SUBSET DOMAIN sku |->
            IF T = {} THEN Basis ELSE Mix(h[T \ {Max(T)}], sku[Max(T)])]

(* They exist, as 32-bit numbers ...                                        *)
LEMMA HashExists ==
    ASSUME NEW sku \in Seq(Half), NEW S, S = DOMAIN sku, IsFiniteSet(S),
           \A T \in (SUBSET S) \ {{}} : Max(T) \in T
    PROVE  \E h \in [SUBSET S -> Word] : IsHash(h, sku)
<1> DEFINE step == [i \in S |-> [v \in Word |-> Mix(v, sku[i])]]
           pick == [T \in (SUBSET S) \ {{}} |-> Max(T)]
<1>1. \A i \in S : sku[i] \in Half
  OBVIOUS
<1>2. step \in [S -> [Word -> Word]]
  BY <1>1, MixType
<1>3. \A i \in S : \A v \in Word : step[i][v] = Mix(v, sku[i])
  OBVIOUS
<1>4. /\ pick \in [(SUBSET S) \ {{}} -> S]
      /\ \A T \in (SUBSET S) \ {{}} : pick[T] = Max(T) /\ pick[T] \in T
  OBVIOUS
<1>5. Basis \in Word
  BY DEF Basis, Word, Half
<1> HIDE DEF step, pick
<1>6. PICK h \in [SUBSET S -> Word] : IsFold(h, S, Basis, step, pick)
  <2>1. Foldable(S, Word, Basis, step, pick)
    BY <1>2, <1>4, <1>5 DEF Foldable
  <2> QED
    BY <2>1, FoldExists
<1>7. ASSUME NEW T \in SUBSET S
      PROVE  h[T] = IF T = {} THEN Basis ELSE Mix(h[T \ {Max(T)}], sku[Max(T)])
  <2>1. h[T] = IF T = {} THEN Basis ELSE step[pick[T]][h[T \ {pick[T]}]]
    BY <1>6 DEF IsFold, Follows
  <2>2. CASE T # {}
    <3>1. pick[T] = Max(T) /\ Max(T) \in S /\ h[T \ {Max(T)}] \in Word
      BY <1>4, <2>2
    <3> QED
      BY <1>3, <2>1, <2>2, <3>1
  <2> QED
    BY <2>1, <2>2
<1> QED
  BY <1>7 DEF IsHash

(* ... so the hash of any sku is a 32-bit number, never negative and never   *)
(* beyond its width (hash of pricing.ts and summariser.ts).                 *)
THEOREM HashWord == ASSUME NEW sku \in Seq(Half) PROVE hash(sku) \in Word
<1> DEFINE S == DOMAIN sku
<1>1. S = 1 .. Len(sku) /\ Len(sku) \in Int
  OBVIOUS
<1>2. IsFiniteSet(S) /\ \A T \in (SUBSET S) \ {{}} : Max(T) \in T
  <2>1. IsFiniteSet(S)
    BY <1>1, FS_Interval, 1 \in Int, Zenon
  <2>2. S \in SUBSET Int
    BY <1>1
  <2> HIDE DEF S
  <2> QED
    BY <2>1, <2>2, MaxIsIn
<1>3. PICK h \in [SUBSET S -> Word] : IsHash(h, sku)
  BY <1>2, HashExists
<1>4. hash(sku) = (CHOOSE g : IsHash(g, sku))[S]
  BY DEF hash, FoldLeft, MapThenFoldSet, IsHash, Basis
<1>5. PICK g : IsHash(g, sku) /\ hash(sku) = g[S]
  BY <1>3, <1>4
<1>6. \A T \in SUBSET S :
        /\ g[T] = IF T = {} THEN Basis ELSE Mix(g[T \ {Max(T)}], sku[Max(T)])
        /\ h[T] = IF T = {} THEN Basis ELSE Mix(h[T \ {Max(T)}], sku[Max(T)])
  BY <1>3, <1>5 DEF IsHash
<1> HIDE DEF S
<1> DEFINE G == {T \in SUBSET S : g[T] = h[T]}
<1>7. {} \in G
  BY <1>6
<1>8. \A T \in (SUBSET S) \ {{}} : (\A x \in T : T \ {x} \in G) => T \in G
  <2> SUFFICES ASSUME NEW T \in (SUBSET S) \ {{}}, \A x \in T : T \ {x} \in G
               PROVE  g[T] = h[T]
    OBVIOUS
  <2> QED
    BY <1>2, <1>6
<1>9. G = SUBSET S
  <2> HIDE DEF G
  <2>1. G \in SUBSET SUBSET S
    BY DEF G
  <2> QED
    BY <1>2, <1>7, <1>8, <2>1, SubsetInduction
<1> QED
  BY <1>5, <1>9

=============================================================================
