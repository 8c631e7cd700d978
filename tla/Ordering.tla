------------------------------ MODULE Ordering ------------------------------
(***************************************************************************)
(* What the proofs need of orders and of numbers: a set of numbers has a   *)
(* least element, and the ranks of a finite total order take every value   *)
(* up to its size.  A sort is therefore the sequence of the elements by    *)
(* rank, and is reasoned about without induction.  Recursion, sums and     *)
(* division are here as well.                                              *)
(***************************************************************************)
EXTENDS FiniteSetTheorems, NaturalsInduction, WellFoundedInduction, TLAPS

\* A set of naturals has a least element.
LEMMA LeastElement ==
    ASSUME NEW T \in SUBSET Nat, T # {}
    PROVE  \E x \in T : \A y \in T : x <= y
  <1>1. IsWellFoundedOn(OpToRel(<, Nat), Nat)
    BY NatLessThanWellFounded
  <1>2. PICK x \in T : \A y \in T : ~(<<y, x>> \in OpToRel(<, Nat))
    BY <1>1, WFMin
  <1>3. ASSUME NEW y \in T PROVE x <= y
    <2>1. <<y, x>> \notin {ss \in Nat \X Nat : ss[1] < ss[2]}
      BY <1>2 DEF OpToRel
    <2> QED BY <2>1
  <1> QED BY <1>3

\* Ranks in a finite total order, given by the elements up[x] at or before each:
\* they are different and take every value up to the size of the set.
LEMMA Ranks ==
    ASSUME NEW T, IsFiniteSet(T), NEW up \in [T -> SUBSET T],
           \A x \in T : x \in up[x],
           \A x, y \in T : x \in up[y] \/ y \in up[x],
           \A x, y \in T : x \in up[y] /\ y \in up[x] => x = y,
           \A x, y, z \in T : x \in up[y] /\ y \in up[z] => x \in up[z]
    PROVE  /\ \A x \in T : Cardinality(up[x]) \in 1 .. Cardinality(T)
           /\ \A x, y \in T : x \in up[y] /\ x # y => Cardinality(up[x]) < Cardinality(up[y])
           /\ \A k \in 1 .. Cardinality(T) : \E x \in T : Cardinality(up[x]) = k
  <1> DEFINE rank(x) == Cardinality(up[x])
             n == Cardinality(T)
             f == [x \in T |-> rank(x)]
  <1>1. n \in Nat
    BY FS_CardinalityType
  <1>2. ASSUME NEW x \in T PROVE IsFiniteSet(up[x]) /\ rank(x) \in 1 .. n
    <2>1. up[x] \in SUBSET T /\ up[x] # {}
      OBVIOUS
    <2>2. IsFiniteSet(up[x]) /\ rank(x) <= n
      BY <2>1, FS_Subset
    <2>3. rank(x) \in Nat /\ rank(x) # 0
      BY <2>1, <2>2, FS_CardinalityType, FS_EmptySet
    <2> HIDE DEF rank, n
    <2> QED BY <1>1, <2>2, <2>3
  <1>3. ASSUME NEW x \in T, NEW y \in T, x \in up[y], x # y PROVE rank(x) < rank(y)
    <2>1. up[x] \in SUBSET up[y] /\ up[x] # up[y]
      BY <1>3
    <2>2. IsFiniteSet(up[y]) /\ rank(x) \in 1 .. n /\ rank(y) \in 1 .. n
      BY <1>2
    <2>3. rank(x) <= rank(y) /\ rank(y) # rank(x)
      BY <2>1, <2>2, FS_Subset
    <2> HIDE DEF rank, n
    <2> QED BY <1>1, <2>2, <2>3
  <1> HIDE DEF rank
  <1>4. ASSUME NEW x \in T, NEW y \in T, rank(x) = rank(y) PROVE x = y
    <2>1. rank(x) \in 1 .. n /\ rank(y) \in 1 .. n
      BY <1>2
    <2>2. ~(rank(x) < rank(y)) /\ ~(rank(y) < rank(x))
      BY <1>1, <1>4, <2>1
    <2> QED BY <1>3, <2>2
  <1>5. f \in Injection(T, 1 .. n)
    BY <1>2, <1>4 DEF Injection, IsInjective
  <1>6. IsFiniteSet(1 .. n) /\ Cardinality(1 .. n) = n
    <2> HIDE DEF n
    <2> QED BY <1>1, FS_Interval
  <1>7. f \in Surjection(T, 1 .. n)
    <2> HIDE DEF f
    <2> QED BY <1>5, <1>6, FS_Injection
  <1>8. \A k \in 1 .. n : \E x \in T : rank(x) = k
    BY <1>7 DEF Surjection
  <1> QED BY <1>2, <1>3, <1>8 DEF rank

\* Sequences of numbers without end, compared at the first place they differ.
Lex(f, g) == \E k \in Nat : f[k] < g[k] /\ \A j \in 0 .. k - 1 : f[j] = g[j]

\* The order is total and strict.
LEMMA LexTotal ==
    ASSUME NEW f \in [Nat -> Nat], NEW g \in [Nat -> Nat], f # g
    PROVE  Lex(f, g) \/ Lex(g, f)
  <1> DEFINE T == {k \in Nat : f[k] # g[k]}
  <1>1. T \in SUBSET Nat /\ T # {}
    OBVIOUS
  <1>2. PICK k \in T : \A j \in T : k <= j
    BY <1>1, LeastElement
  <1>3. k \in Nat /\ f[k] # g[k] /\ \A j \in 0 .. k - 1 : f[j] = g[j]
    BY <1>2
  <1>4. f[k] \in Nat /\ g[k] \in Nat
    BY <1>3
  <1>5. f[k] < g[k] \/ g[k] < f[k]
    BY <1>3, <1>4
  <1> QED BY <1>3, <1>5 DEF Lex

LEMMA LexStrict ==
    ASSUME NEW f \in [Nat -> Nat], NEW g \in [Nat -> Nat], NEW h \in [Nat -> Nat]
    PROVE  /\ ~(Lex(f, g) /\ Lex(g, f)) /\ ~Lex(f, f)
           /\ Lex(f, g) /\ Lex(g, h) => Lex(f, h)
  <1>1. \A i \in Nat : f[i] \in Nat /\ g[i] \in Nat /\ h[i] \in Nat
    OBVIOUS
  <1>2. ASSUME Lex(f, g), Lex(g, f) PROVE FALSE
    <2>1. PICK k \in Nat : f[k] < g[k] /\ \A i \in 0 .. k - 1 : f[i] = g[i]
      BY <1>2 DEF Lex
    <2>2. PICK j \in Nat : g[j] < f[j] /\ \A i \in 0 .. j - 1 : g[i] = f[i]
      BY <1>2 DEF Lex
    <2>3. f[k] \in Nat /\ g[k] \in Nat /\ f[j] \in Nat /\ g[j] \in Nat
      BY <1>1
    <2>4. ~(k < j) /\ ~(j < k)
      BY <2>1, <2>2, <2>3
    <2>5. k = j
      BY <2>4
    <2> QED BY <2>1, <2>2, <2>3, <2>5
  <1>3. ASSUME Lex(f, g), Lex(g, h) PROVE Lex(f, h)
    <2>1. PICK k \in Nat : f[k] < g[k] /\ \A i \in 0 .. k - 1 : f[i] = g[i]
      BY <1>3 DEF Lex
    <2>2. PICK j \in Nat : g[j] < h[j] /\ \A i \in 0 .. j - 1 : g[i] = h[i]
      BY <1>3 DEF Lex
    <2>3. CASE k <= j
      <3>1. g[k] <= h[k]
        BY <1>1, <2>2, <2>3
      <3>2. \A i \in 0 .. k - 1 : f[i] = h[i]
        BY <1>1, <2>1, <2>2, <2>3
      <3>3. f[k] < h[k]
        BY <1>1, <2>1, <3>1
      <3> QED BY <3>2, <3>3 DEF Lex
    <2>4. CASE j < k
      <3>1. f[j] < h[j] /\ \A i \in 0 .. j - 1 : f[i] = h[i]
        BY <1>1, <2>1, <2>2, <2>4
      <3> QED BY <3>1 DEF Lex
    <2> QED BY <2>3, <2>4
  <1>4. ~Lex(f, f)
    BY <1>1 DEF Lex
  <1> QED BY <1>2, <1>3, <1>4

\* A function may be defined by recursion on its argument: one that takes each
\* step from the value before it exists, and has its values in Nat.
LEMMA Recursion ==
    ASSUME NEW N \in Nat, NEW c \in Nat, NEW step \in [1 .. N -> [Nat -> Nat]]
    PROVE  \E f \in [0 .. N -> Nat] : f[0] = c /\ \A i \in 1 .. N : f[i] = step[i][f[i - 1]]
  <1> DEFINE Good(m) == \E f \in [0 .. m -> Nat] : f[0] = c /\ \A i \in 1 .. m : f[i] = step[i][f[i - 1]]
             T == {m \in 0 .. N : ~Good(m)}
  <1>1. SUFFICES T = {}
    <2>1. N \in 0 .. N
      OBVIOUS
    <2>2. Good(N)
      BY <1>1, <2>1
    <2> QED BY <2>2
  <1>2. SUFFICES ASSUME T # {} PROVE FALSE
    OBVIOUS
  <1>3. T \in SUBSET Nat
    OBVIOUS
  <1>4. PICK m \in T : \A k \in T : m <= k
    BY <1>2, <1>3, LeastElement
  <1>5. m \in 0 .. N /\ ~Good(m)
    BY <1>4
  <1>6. CASE m = 0
    <2> DEFINE f == [i \in 0 .. 0 |-> c]
    <2>1. f \in [0 .. 0 -> Nat] /\ f[0] = c /\ \A i \in 1 .. 0 : f[i] = step[i][f[i - 1]]
      OBVIOUS
    <2>2. Good(0)
      BY <2>1
    <2> QED BY <1>5, <1>6, <2>2
  <1>7. CASE m # 0
    <2>1. m - 1 \in 0 .. N /\ ~(m <= m - 1) /\ m \in 1 .. N /\ m - 1 \in Nat
      BY <1>5, <1>7
    <2>2. Good(m - 1)
      BY <1>4, <2>1
    <2>3. PICK f \in [0 .. m - 1 -> Nat] : f[0] = c /\ \A i \in 1 .. m - 1 : f[i] = step[i][f[i - 1]]
      BY <2>2
    <2> DEFINE g == [i \in 0 .. m |-> IF i = m THEN step[m][f[m - 1]] ELSE f[i]]
    <2>4. f[m - 1] \in Nat /\ step[m] \in [Nat -> Nat]
      BY <2>1, <2>3
    <2>5. step[m][f[m - 1]] \in Nat
      BY <2>4
    <2>6. \A i \in 0 .. m : i # m => i \in 0 .. m - 1
      BY <2>1
    <2>7. g \in [0 .. m -> Nat]
      BY <2>3, <2>5, <2>6
    <2>8. g[0] = c
      BY <2>1, <2>3
    <2>9. ASSUME NEW i \in 1 .. m PROVE g[i] = step[i][g[i - 1]]
      <3>1. i - 1 \in 0 .. m /\ i - 1 # m /\ i \in 0 .. m
        BY <2>1
      <3>2. g[i - 1] = f[i - 1]
        BY <3>1
      <3>3. CASE i = m
        BY <3>1, <3>2, <3>3
      <3>4. CASE i # m
        <4>1. i \in 1 .. m - 1
          BY <2>1, <3>4
        <4>2. g[i] = f[i]
          BY <3>1, <3>4
        <4> QED BY <2>3, <3>2, <4>1, <4>2
      <3> QED BY <3>3, <3>4
    <2> HIDE DEF g
    <2>10. Good(m)
      BY <2>7, <2>8, <2>9
    <2> QED BY <1>5, <2>10
  <1> QED BY <1>6, <1>7

\* Running sums exist.
LEMMA Sums ==
    ASSUME NEW N \in Nat, NEW a \in [1 .. N -> Nat]
    PROVE  \E f \in [0 .. N -> Nat] : f[0] = 0 /\ \A i \in 1 .. N : f[i] = f[i - 1] + a[i]
  <1> DEFINE step == [i \in 1 .. N |-> [x \in Nat |-> x + a[i]]]
  <1>1. step \in [1 .. N -> [Nat -> Nat]] /\ \A i \in 1 .. N : \A x \in Nat : step[i][x] = x + a[i]
    OBVIOUS
  <1> HIDE DEF step
  <1>2. PICK f \in [0 .. N -> Nat] : f[0] = 0 /\ \A i \in 1 .. N : f[i] = step[i][f[i - 1]]
    BY <1>1, Recursion
  <1>3. ASSUME NEW i \in 1 .. N PROVE f[i] = f[i - 1] + a[i]
    <2>1. f[i - 1] \in Nat
      BY <1>2
    <2> QED BY <1>1, <1>2, <2>1
  <1> QED BY <1>2, <1>3

\* Division: what lies between two multiples, and what is left over.
LEMMA Product ==
    ASSUME NEW i \in Nat, NEW j \in Nat, NEW P \in Nat \ {0}, i < j
    PROVE  i * P + P <= j * P /\ i * P \in Nat /\ j * P \in Nat
  OBVIOUS

LEMMA Quotient ==
    ASSUME NEW g \in Nat, NEW P \in Nat \ {0}, NEW i \in Nat
    PROVE  /\ g \div P \in Nat /\ i * P \in Nat
           /\ g \div P = i <=> i * P <= g /\ g < i * P + P
           /\ g \div P < i <=> g < i * P
  <1> DEFINE q == g \div P
  <1>1. q \in Nat /\ q * P <= g /\ g < q * P + P /\ i * P \in Nat /\ q * P \in Nat
    <2>1. q \in Nat /\ q * P <= g /\ g < q * P + P
      OBVIOUS
    <2> HIDE DEF q
    <2>2. i * P \in Nat /\ q * P \in Nat
      BY <2>1
    <2> QED BY <2>1, <2>2
  <1> HIDE DEF q
  <1>2. q < i => q * P + P <= i * P
    BY <1>1, Product
  <1>3. i < q => i * P + P <= q * P
    BY <1>1, Product
  <1>4. q = i => q * P = i * P
    OBVIOUS
  <1>5. q = i <=> i * P <= g /\ g < i * P + P
    BY <1>1, <1>2, <1>3, <1>4
  <1>6. q < i <=> g < i * P
    BY <1>1, <1>2, <1>3, <1>4
  <1> QED BY <1>1, <1>5, <1>6 DEF q

LEMMA Remainder ==
    ASSUME NEW o \in Nat, NEW C \in Nat \ {0}
    PROVE  o % C \in Nat /\ o % C < C /\ o % C <= o /\ (o - (o % C)) % C = 0
  <1>1. o % C \in Nat /\ o % C < C /\ o % C <= o
    OBVIOUS
  <1>2. ASSUME NEW x \in Nat PROVE x = (x \div C) * C + (x % C) /\ x % C \in Nat /\ x \div C \in Nat
    OBVIOUS
  <1>3. ASSUME NEW q \in Nat PROVE (q * C) % C = 0
    <2> DEFINE x == q * C
    <2>1. x \in Nat /\ x < x + C
      OBVIOUS
    <2>2. x \div C = q
      <3>1. q * C <= x /\ x < q * C + C
        BY <2>1
      <3> HIDE DEF x
      <3> QED BY <2>1, <3>1, Quotient
    <2> HIDE DEF x
    <2>3. x = q * C + (x % C) /\ x % C \in Nat
      BY <1>2, <2>1, <2>2
    <2>4. x = x + (x % C)
      BY <2>3 DEF x
    <2>5. x % C = 0
      BY <2>1, <2>3, <2>4
    <2> QED BY <2>5 DEF x
  <1> DEFINE q == o \div C
  <1>4. q \in Nat /\ o = q * C + (o % C) /\ o % C \in Nat
    BY <1>2
  <1> HIDE DEF q
  <1>5. q * C \in Nat
    BY <1>4
  <1>6. o - (o % C) = q * C
    BY <1>4, <1>5
  <1> QED BY <1>1, <1>3, <1>4, <1>6

=============================================================================
